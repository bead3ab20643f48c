-------------------------------- MODULE Node --------------------------------
(***************************************************************************)
(* The node firmware (node/src/node.c, node/src/hardware/msp430.c): a      *)
(* receive interrupt that takes one packet after the other from the bus,   *)
(* and a main loop that passes commands to extensions and collects their   *)
(* events.  Both work on the same PacketContainer, and the interrupt may   *)
(* come between any two accesses of the main loop.                         *)
(*                                                                         *)
(* Of the 38 bytes of a packet the model keeps the five whose interrupt    *)
(* does more than move a pointer.  The other ends are parameters: what the *)
(* packets of the daemon carry, when an extension raises its line, what it *)
(* returns.                                                                *)
(***************************************************************************)
EXTENDS Integers, FiniteSets

CONSTANTS Cmd,       \* what commands say, their extension apart
          CmdExts,   \* the extensions that commands name
          Present,   \* the extensions wired to this node
          Event      \* what extensions return: 20 bytes, one checksum each

ASSUME ExtensionAssumption == CmdExts \subseteq {1, 2, 4} /\ Present \subseteq {1, 2}
ASSUME EventAssumption == Event # {} /\ Event \cap {"blank", "torn"} = {}

NoCmd   == [ext |-> 1, cmd |-> "none"]
Command == [ext : CmdExts \cup {1}, cmd : Cmd]
Content == Event \cup {"blank", "torn"}

(* the part of McomInPacket the node looks at, and whether its payload and *)
(* checksum arrive as they were sent                                       *)
Packet   == [cmd : Command, sncc : BOOLEAN, whole : BOOLEAN]
              \cup [cmd : {NoCmd}, sncc : BOOLEAN, whole : {FALSE}]
NoPacket == [cmd |-> NoCmd, sncc |-> FALSE, whole |-> FALSE]

VARIABLES
  pc,                  \* where main is
  gie,                 \* interrupts enabled
  overrun,             \* UCOE: bytes came while they were disabled
  hit,                 \* an interrupt came since main last did something long
  line,                \* EXTn_INTR: the extensions that raise their line
  signalled,           \* SIGNAL_EXT outputs
  tx,                  \* UCA0TXBUF holds the trigger, 0x80 | nodeId
  phase,               \* the part of the packet expected next
  pkt,                 \* dataIn
  start,               \* startMICMDCheckSum: the command is being acknowledged
  stream,              \* what the data bytes of this packet return
  signalMaster, setSignalMaster, masterInquiryCommand, clearMasterInquiry,
  inBuffer,            \* the command for an extension
  outBuffer,           \* the last return of an extension ...
  outBufferChecksum,   \* ... named by its checksum
  adceId, forCmd,      \* the extension being served, and for which purpose
  done                 \* history: how far inBuffer has gone to an extension

cpuVars  == <<pc, gie, overrun, hit>>
portVars == <<line, signalled, tx>>
rxVars   == <<phase, pkt, start, stream>>
flagVars == <<signalMaster, setSignalMaster, masterInquiryCommand, clearMasterInquiry>>
bufVars  == <<inBuffer, outBuffer, outBufferChecksum, done>>
jobVars  == <<adceId, forCmd>>
vars == <<cpuVars, portVars, rxVars, flagVars, bufVars, jobVars>>

(* incomplete and synced are told by the phase: between two packets the    *)
(* last one is complete, and a node that lost the framing takes none.      *)
incomplete == phase # "gap"
synced     == phase # "lost"

-----------------------------------------------------------------------------
(* Everything but the lines and the bus, which are not the node's: at      *)
(* power on, and after every reset.                                        *)
Init ==
  /\ pc = "top" /\ gie = FALSE /\ overrun = FALSE /\ hit = FALSE
  /\ line = {} /\ signalled = {} /\ tx = FALSE
  /\ phase = "lost" /\ pkt = NoPacket /\ start = FALSE /\ stream = "blank"
  /\ signalMaster = FALSE /\ setSignalMaster = FALSE
  /\ masterInquiryCommand = FALSE /\ clearMasterInquiry = FALSE
  /\ inBuffer = NoCmd /\ outBuffer = "blank" /\ outBufferChecksum = "blank"
  /\ done = "no"
  /\ adceId = 1 /\ forCmd = FALSE

Reset ==
  /\ pc' = "top" /\ gie' = FALSE /\ overrun' = FALSE /\ hit' = FALSE
  /\ signalled' = {} /\ tx' = FALSE
  /\ phase' = "lost" /\ pkt' = NoPacket /\ start' = FALSE /\ stream' = "blank"
  /\ signalMaster' = FALSE /\ setSignalMaster' = FALSE
  /\ masterInquiryCommand' = FALSE /\ clearMasterInquiry' = FALSE
  /\ inBuffer' = NoCmd /\ outBuffer' = "blank" /\ outBufferChecksum' = "blank"
  /\ done' = "no"
  /\ adceId' = 1 /\ forCmd' = FALSE
  /\ UNCHANGED line

-----------------------------------------------------------------------------
(* The receive interrupt.                                                  *)
(*                                                                         *)
(* What main does between two long activities takes less time than a byte  *)
(* on the bus, so that at most one interrupt falls into it.                *)
Long == {"asleep", "wait", "serve", "fill"}

Short == pc \notin Long /\ ~(pc = "spin" /\ signalMaster)

Interrupt == gie /\ (Short => ~hit)

(* USCI0RX_ISR returns.  Clearing low power mode also clears GIE; a main   *)
(* that was asleep enables interrupts as it goes on (l. 41-43), one that   *)
(* was awake does not.                                                     *)
IsrExit_OnlyIfAsleep(clearLP) ==
  /\ pc' = pc
  /\ gie' = (clearLP => pc = "asleep")
  /\ hit' = TRUE
  /\ UNCHANGED overrun

IsrExit(clearLP) ==
  /\ pc' = IF clearLP /\ pc = "asleep" THEN "spin" ELSE pc
  /\ gie' = (clearLP => pc = "asleep")
  /\ hit' = TRUE
  /\ UNCHANGED overrun

FirstByte ==
  /\ Interrupt /\ phase = "gap"
  /\ phase' = "header"
  /\ tx' = FALSE
  /\ IsrExit(FALSE)
  /\ UNCHANGED <<line, signalled, pkt, start, stream, flagVars, bufVars, jobVars>>

(* The preamble, and on a node out of step any two bytes that look like it *)
(* (rescue).                                                               *)
endOfHeaderEvent(isPreamble) ==
  /\ Interrupt /\ phase \in {"header", "lost"}
  /\ phase' = IF isPreamble THEN "destination" ELSE "lost"
  /\ tx' = FALSE
  /\ IsrExit(FALSE)
  /\ UNCHANGED <<line, signalled, pkt, start, stream, flagVars, bufVars, jobVars>>

endOfDestinationEvent_AcksBusy(isCmd, p) ==
  /\ Interrupt /\ phase = "destination"
  /\ IF isCmd
     THEN /\ phase' = "packet"
          /\ pkt' = p
          /\ stream' = IF p.sncc /\ signalMaster THEN outBuffer ELSE "blank"
          /\ start' = (p.cmd # NoCmd)
     ELSE phase' = "lost" /\ UNCHANGED <<pkt, stream, start>>
  /\ tx' = FALSE
  /\ IsrExit(FALSE)
  /\ UNCHANGED <<line, signalled, flagVars, bufVars, jobVars>>

(* A node that is asked for its event streams outBuffer from here on; one  *)
(* that is sent a command checksums it, and so acknowledges it, unless it  *)
(* still has one.                                                          *)
endOfDestinationEvent(isCmd, p) ==
  /\ Interrupt /\ phase = "destination"
  /\ IF isCmd
     THEN /\ phase' = "packet"
          /\ pkt' = p
          /\ stream' = IF p.sncc /\ signalMaster THEN outBuffer ELSE "blank"
          /\ start' = (p.cmd # NoCmd /\ ~masterInquiryCommand)
     ELSE phase' = "lost" /\ UNCHANGED <<pkt, stream, start>>
  /\ tx' = FALSE
  /\ IsrExit(FALSE)
  /\ UNCHANGED <<line, signalled, flagVars, bufVars, jobVars>>

(* The daemon returns the checksum of the event it received: intact says   *)
(* that neither way was disturbed.                                         *)
EventAcknowledged_NotCompared(intact) == pkt.sncc

EventAcknowledged(intact) ==
  pkt.sncc /\ intact /\ stream = outBufferChecksum

endOfPacketEvent(intact) ==
  /\ Interrupt /\ phase = "packet"
  /\ signalMaster' = (signalMaster /\ ~EventAcknowledged(intact))
  /\ phase' = "end"
  /\ stream' = "blank"
  /\ tx' = FALSE
  /\ IsrExit(FALSE)
  /\ UNCHANGED <<line, signalled, pkt, start, setSignalMaster,
                 masterInquiryCommand, clearMasterInquiry, bufVars, jobVars>>

(* The command of the packet is taken when its checksum is the one         *)
(* computed on the way, which is that of no command when the node was busy *)
(* at the destination bytes.                                               *)
Accepts == /\ ~clearMasterInquiry /\ ~masterInquiryCommand
           /\ start /\ pkt.whole

Wakes_NewOnly == ~signalMaster /\ Accepts

(* main has something to do: a command just taken, or one left over while  *)
(* an event was on its way.                                                *)
Wakes == /\ ~clearMasterInquiry /\ ~signalMaster
         /\ masterInquiryCommand \/ Accepts

Trigger_Before == tx' = signalMaster

(* the trigger is set for the event that the end of the packet made due,   *)
(* too                                                                     *)
Trigger == tx' = signalMaster'

endOfPacketEvent2 ==
  /\ Interrupt /\ phase = "end"
  /\ clearMasterInquiry' = FALSE
  /\ masterInquiryCommand' =
       ((masterInquiryCommand /\ ~clearMasterInquiry) \/ Accepts)
  /\ IF Accepts THEN inBuffer' = pkt.cmd /\ done' = "no"
                ELSE UNCHANGED <<inBuffer, done>>
  /\ signalMaster' = (signalMaster \/ setSignalMaster)
  /\ setSignalMaster' = FALSE
  /\ Trigger
  /\ phase' = "gap" /\ pkt' = NoPacket /\ start' = FALSE
  /\ IsrExit(Wakes)
  /\ UNCHANGED <<line, signalled, stream, outBuffer, outBufferChecksum, jobVars>>

(* A node that finds no preamble in 41 bytes resets itself.                *)
RescueFails == Interrupt /\ phase = "lost" /\ Reset

(* Bytes that come while interrupts are off overrun the receive buffer ... *)
Overrun ==
  /\ ~gie /\ ~Short /\ ~overrun
  /\ overrun' = TRUE
  /\ UNCHANGED <<pc, gie, hit, portVars, rxVars, flagVars, bufVars, jobVars>>

(* ... and the first interrupt afterwards resets the node: WDTCTL is       *)
(* written without its password.                                           *)
OverrunResets == pc = "top" /\ overrun /\ Reset

-----------------------------------------------------------------------------
(* The main loop.  Goto is where main goes next.                           *)
Goto(l) == /\ pc' = l
           /\ hit' = (hit /\ pc \notin Long)
           /\ UNCHANGED overrun

(* from DISABLE_INTERRUPT to the sleep, or past it to ENABLE_INTERRUPT     *)
Top ==
  /\ pc = "top" /\ ~overrun
  /\ Goto(IF masterInquiryCommand THEN "spin" ELSE "asleep")
  /\ gie' = TRUE
  /\ UNCHANGED <<portVars, rxVars, flagVars, bufVars, jobVars>>

(* p1_isr, p2_isr: the line of an extension, raised before or since, wakes *)
(* main.                                                                   *)
ExtensionWakes ==
  /\ pc = "asleep" /\ line # {}
  /\ Goto("spin")
  /\ UNCHANGED <<gie, portVars, rxVars, flagVars, bufVars, jobVars>>

(* while (p->signalMaster)                                                 *)
SignalServed ==
  /\ pc = "spin" /\ ~signalMaster
  /\ Goto("choose")
  /\ UNCHANGED <<gie, portVars, rxVars, flagVars, bufVars, jobVars>>

Choose ==
  /\ pc = "choose"
  /\ masterInquiryCommand \/ line = {}
  /\ Goto(IF masterInquiryCommand THEN "signal" ELSE "top")
  /\ UNCHANGED <<gie, portVars, rxVars, flagVars, bufVars, jobVars>>

(* adceSignalTriggerAny: extension 2 before extension 1                    *)
adceSignalTriggerAny ==
  /\ pc = "choose" /\ ~masterInquiryCommand /\ line # {}
  /\ adceId' = IF 2 \in line THEN 2 ELSE 1
  /\ forCmd' = FALSE
  /\ signalled' = signalled \cup {adceId'}
  /\ Goto("serve")
  /\ UNCHANGED <<gie, line, tx, rxVars, flagVars, bufVars>>

(* adceSignalCmd: the first byte names the operation and the extension     *)
(* both; it is overwritten with the operation for extension 1.  If the     *)
(* command has gone meanwhile nothing is signalled (l. 412).               *)
adceSignalCmd ==
  /\ pc = "signal"
  /\ IF masterInquiryCommand
     THEN /\ adceId' = inBuffer.ext
          /\ inBuffer' = [inBuffer EXCEPT !.ext = 1]
          /\ signalled' = signalled \cup {adceId'}
     ELSE adceId' = 1 /\ UNCHANGED <<inBuffer, signalled>>
  /\ forCmd' = TRUE
  /\ Goto("wait")
  /\ UNCHANGED <<gie, line, tx, rxVars, flagVars, outBuffer, outBufferChecksum, done>>

(* the switch of main: nobody waits for extension 4                        *)
ExtensionReady ==
  /\ pc = "wait" /\ (adceId \in {1, 2} => adceId \in line)
  /\ Goto("serve")
  /\ UNCHANGED <<gie, portVars, rxVars, flagVars, bufVars, jobVars>>

(* adceService, its first byte ... (an event that is being streamed from   *)
(* outBuffer is torn, or already out)                                      *)
ServiceStart ==
  /\ pc = "serve"
  /\ outBuffer' = "torn"
  /\ stream' \in IF stream \in Event THEN {stream, "torn"} ELSE {stream}
  /\ done' = IF forCmd /\ done = "no" THEN "started" ELSE done
  /\ Goto("fill")
  /\ UNCHANGED <<gie, portVars, phase, pkt, start, flagVars, inBuffer,
                 outBufferChecksum, jobVars>>

ServiceEnd_Early(e) ==
  /\ pc = "fill"
  /\ done' = IF forCmd /\ done = "started" THEN "yes" ELSE done
  /\ signalled' = signalled \ {adceId}
  /\ line' = line \ {adceId}
  /\ Goto("sum")
  /\ UNCHANGED <<gie, tx, rxVars, flagVars, inBuffer, outBuffer,
                 outBufferChecksum, jobVars>>

(* ... its last one (what is streamed late in a transfer can be all of the *)
(* new return) ...                                                         *)
ServiceEnd(e) ==
  /\ pc = "fill"
  /\ outBuffer' = e
  /\ done' = IF forCmd /\ done = "started" THEN "yes" ELSE done
  /\ signalled' = signalled \ {adceId}
  /\ line' = line \ {adceId}
  /\ stream' \in IF stream = "torn" THEN {stream, e} ELSE {stream}
  /\ Goto("sum")
  /\ UNCHANGED <<gie, tx, phase, pkt, start, flagVars, inBuffer,
                 outBufferChecksum, jobVars>>

(* ... and its result: trigger says whether the return is an event.        *)
AfterService == IF forCmd THEN "clear" ELSE "top"

ServiceSum_CommandsOnly(trigger) ==
  /\ pc = "sum"
  /\ outBufferChecksum' = IF forCmd THEN outBuffer ELSE outBufferChecksum
  /\ Goto(IF trigger THEN "announce" ELSE AfterService)
  /\ UNCHANGED <<gie, portVars, rxVars, flagVars, inBuffer, outBuffer, done, jobVars>>

ServiceSum(trigger) ==
  /\ pc = "sum"
  /\ outBufferChecksum' = outBuffer
  /\ Goto(IF trigger THEN "announce" ELSE AfterService)
  /\ UNCHANGED <<gie, portVars, rxVars, flagVars, inBuffer, outBuffer, done, jobVars>>

(* adceServiceTrigger and adceServiceCmd: an event is announced at once    *)
(* between two packets (only a node in step is ever there), at the end of *)
(* the packet otherwise.                                                   *)
Announce ==
  /\ pc = "announce"
  /\ Goto(IF incomplete THEN "setLater" ELSE "setNow")
  /\ UNCHANGED <<gie, portVars, rxVars, flagVars, bufVars, jobVars>>

SetNow ==
  /\ pc = "setNow"
  /\ signalMaster' = TRUE
  /\ tx' = TRUE
  /\ Goto(AfterService)
  /\ UNCHANGED <<gie, line, signalled, rxVars, setSignalMaster,
                 masterInquiryCommand, clearMasterInquiry, bufVars, jobVars>>

SetLater ==
  /\ pc = "setLater"
  /\ setSignalMaster' = TRUE
  /\ Goto(AfterService)
  /\ UNCHANGED <<gie, portVars, rxVars, signalMaster, masterInquiryCommand,
                 clearMasterInquiry, bufVars, jobVars>>

(* clearMasterInquiry, in two steps: the tests and the assignment          *)
ClearTests ==
  /\ pc = "clear"
  /\ Goto(IF ~masterInquiryCommand THEN "top"
          ELSE IF incomplete THEN "clearLater" ELSE "clearNow")
  /\ UNCHANGED <<gie, portVars, rxVars, flagVars, bufVars, jobVars>>

ClearNow ==
  /\ pc = "clearNow"
  /\ masterInquiryCommand' = FALSE
  /\ Goto("top")
  /\ UNCHANGED <<gie, portVars, rxVars, signalMaster, setSignalMaster,
                 clearMasterInquiry, bufVars, jobVars>>

ClearLater ==
  /\ pc = "clearLater"
  /\ clearMasterInquiry' = TRUE
  /\ Goto("top")
  /\ UNCHANGED <<gie, portVars, rxVars, signalMaster, setSignalMaster,
                 masterInquiryCommand, bufVars, jobVars>>

-----------------------------------------------------------------------------
(* An extension raises its line, for an event of its own or because it is  *)
(* signalled.                                                              *)
Raise(x) ==
  /\ x \in Present \ line
  /\ line' = line \cup {x}
  /\ UNCHANGED <<cpuVars, signalled, tx, rxVars, flagVars, bufVars, jobVars>>

-----------------------------------------------------------------------------
Receive ==
  \/ FirstByte
  \/ \E isPreamble \in BOOLEAN : endOfHeaderEvent(isPreamble)
  \/ \E isCmd \in BOOLEAN, p \in Packet : endOfDestinationEvent(isCmd, p)
  \/ \E intact \in BOOLEAN : endOfPacketEvent(intact)
  \/ endOfPacketEvent2
  \/ RescueFails

Serve ==
  \/ ServiceStart \/ \E e \in Event : ServiceEnd(e)
  \/ \E trigger \in BOOLEAN : ServiceSum(trigger)
  \/ Announce \/ SetNow \/ SetLater
  \/ ClearTests \/ ClearNow \/ ClearLater

Main ==
  \/ OverrunResets \/ Top \/ ExtensionWakes \/ SignalServed \/ Choose
  \/ adceSignalTriggerAny \/ adceSignalCmd \/ ExtensionReady
  \/ Serve

Next == Receive \/ Overrun \/ Main \/ \E x \in Present : Raise(x)

Spec == Init /\ [][Next]_vars

(* main and the extensions keep running, an extension that is signalled    *)
(* answers, the bus does not fall silent, and the daemon asks a node that  *)
(* signals again and again and not every such packet is disturbed. That    *)
(* the bus does not fall silent is assumed of the other nodes and of the   *)
(* controller: daemon.c:401 gives it only while some trigger is out or some*)
(* signal pending, not for a node that is out of step and holds no trigger.*)
Fairness ==
  /\ WF_vars(Main)
  /\ \A x \in Present : WF_vars(x \in signalled /\ Raise(x))
  /\ WF_vars(Receive)
  /\ SF_vars(endOfHeaderEvent(TRUE))
  /\ SF_vars(\E p \in Packet : p.sncc /\ endOfDestinationEvent(TRUE, p))
  /\ SF_vars(stream # "blank" /\ endOfPacketEvent(TRUE))

FairSpec == Spec /\ Fairness

-----------------------------------------------------------------------------
(* Properties *)

CpuOK ==
  /\ pc \in {"top", "asleep", "spin", "choose", "signal", "wait", "serve", "fill",
             "sum", "announce", "setNow", "setLater", "clear", "clearNow",
             "clearLater"}
  /\ gie \in BOOLEAN /\ overrun \in BOOLEAN /\ hit \in BOOLEAN

PortsOK == line \subseteq Present /\ signalled \subseteq {1, 2, 4} /\ tx \in BOOLEAN

ReceiverOK ==
  /\ phase \in {"lost", "gap", "header", "destination", "packet", "end"}
  /\ pkt \in Packet /\ start \in BOOLEAN /\ stream \in Content

FlagsOK ==
  /\ signalMaster \in BOOLEAN /\ setSignalMaster \in BOOLEAN
  /\ masterInquiryCommand \in BOOLEAN /\ clearMasterInquiry \in BOOLEAN

BuffersOK ==
  /\ inBuffer \in Command \cup {NoCmd}
  /\ outBuffer \in Content /\ outBufferChecksum \in Content \ {"torn"}
  /\ done \in {"no", "started", "yes"}
  /\ pc = "sum" => outBuffer # "torn"

JobOK == adceId \in {1, 2, 4} /\ forCmd \in BOOLEAN

TypeOK == CpuOK /\ PortsOK /\ ReceiverOK /\ FlagsOK /\ BuffersOK /\ JobOK

(* Between two packets a node with an event holds the trigger on the line: *)
(* the daemon, which reads the line only while the bus is idle, sees it.   *)
TriggerHeld == ~incomplete /\ signalMaster => tx

(* No command is slept over: a sleeping main with a command pending waits  *)
(* for its event to leave, and is woken by the packet that takes it.       *)
NotSleptOver ==
  pc = "asleep" /\ masterInquiryCommand => signalMaster \/ phase = "end"

(* A node that has a command acknowledges no other (protocol.txt "Node     *)
(* Busy"), so that the daemon keeps the second one and tries again.        *)
BusyNotAcked == start => ~masterInquiryCommand

(* Once announced, an event stays so until a packet has returned a whole   *)
(* event and the daemon its checksum.                                      *)
Announced == signalMaster \/ setSignalMaster

Resets == phase' = "lost" /\ pc' = "top"

EventStays == Announced => \/ Announced'
                           \/ phase = "packet" /\ stream \in Event
                           \/ Resets

EventKept == [][EventStays]_vars

(* What is announced, or about to be, is what the checksum was taken of.   *)
ChecksumTaken ==
  /\ Announced \/ pc \in {"announce", "setNow", "setLater"}
       => outBufferChecksum \in Event
  /\ pc = "sum" => outBuffer \in Event

(* The inductive invariant *)
IInv == TypeOK /\ TriggerHeld /\ NotSleptOver /\ BusyNotAcked /\ ChecksumTaken

(* main spins with interrupts off: nothing can clear signalMaster.         *)
Hung == pc = "spin" /\ signalMaster /\ ~gie

(* main waits for an extension it did not signal: the command went away    *)
(* between the tests of l. 52 and l. 412.                                  *)
Forgotten == pc = "wait" /\ adceId \notin signalled

(* A command is worked off: signals that have to leave first, packets that *)
(* come meanwhile and resets do not keep it waiting for ever. On a bus that*)
(* does not fall silent the two states above are the only ways to get      *)
(* stuck.                                                                  *)
CommandServed ==
  masterInquiryCommand ~> (~masterInquiryCommand \/ Hung \/ Forgotten)

(* An event that is announced is taken by the daemon, however many packets *)
(* are disturbed and whatever main does with outBuffer meanwhile.          *)
EventTaken == signalMaster ~> (~signalMaster \/ Hung)

(* The interrupt leaves main able to go on (node.c:296 "clear low power    *)
(* flags on intr exit").                                                   *)
NeverHung == ~Hung

(* A command goes to an extension once (node.h:66 "When set means, the     *)
(* inBuffer needs to be transferred to an ADCE").                          *)
TransferredOnce == pc = "serve" /\ forCmd => done = "no"

(* A command the node acknowledged, and received well, is taken            *)
(* (protocol.txt "If (we had started checksumming) and CS matches, Action  *)
(* = PB").                                                                 *)
AckedIsTaken ==
  [][phase = "end" /\ phase' = "gap" /\ start /\ pkt.whole
       => masterInquiryCommand' /\ inBuffer' = pkt.cmd]_vars

(* outBuffer is written only when no event waits in it (node.c:48          *)
(* "signalMaster is 0", node.c:298 "we'll have two messages to transmit    *)
(* which we do not want").                                                 *)
OneEventAtATime == pc = "serve" => ~Announced

=============================================================================

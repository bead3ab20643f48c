-------------------------------- MODULE Link --------------------------------
(***************************************************************************)
(* The daemon and its nodes on one bus, packet by packet: what Daemon and  *)
(* Node do at one end each, put together. A packet carries a command one   *)
(* way and asks for an event the other way; each is acknowledged by a      *)
(* checksum of its own; any of it may be disturbed, nodes lose the framing,*)
(* reset themselves or hang, and the daemon is restarted when it crashes.  *)
(*                                                                         *)
(* A packet is three steps: its header and destination, after which it is  *)
(* settled who takes part; its data and checksums, and what the nodes      *)
(* conclude; what the daemon concludes, 12 ms later. Between any two of    *)
(* them the nodes' main loops go on, with the same flags.                  *)
(***************************************************************************)
EXTENDS Integers, FiniteSets, SequencesExt

CONSTANTS MaxNodes,     \* MCOM_MAX_NODES: the ring of nodes; 0 is never asked
          Node,         \* the nodes on the bus
          Dests,        \* whom commands are sent to, there or not
          Cmd, Event,
          Or(_),        \* bitwise or of a set of ids, as the wires make it
          QueueLen, MaxErrors,
          Disturbances, \* bound: what may be disturbed in one packet, as sets of parts
          MaxCrashes    \* bound: resets of nodes and restarts of the daemon

Parts == {"command", "sum", "ack", "event", "eventSum", "echo"}
ASSUME BusAssumption ==
  /\ MaxNodes \in Nat \ {0} /\ Node \cup Dests \subseteq 1..(MaxNodes - 1)
  /\ Disturbances \subseteq SUBSET Parts /\ {} \in Disturbances
  /\ {"none", "torn"} \cap (Cmd \cup Event) = {}
ASSUME BoundAssumption ==
  /\ QueueLen \in Nat \ {0} /\ MaxErrors \in Nat \ {0} /\ MaxCrashes \in Nat

None == "none"
NoPacket == [at |-> "none", out |-> 0, inq |-> 0, mask |-> {}, stream |-> None,
             sum |-> None, ok |-> {}]

VARIABLES
  row, errors,       \* daemon: the commands of a node; failed transfers of the oldest
  pending,           \* daemon: nodes whose signal is received and not yet served
  lastNodeServiced,
  pkt,               \* the packet under way: where it is, whom it is for, the bytes
                     \* the node asked returns and their checksum, and at the end what
                     \* the daemon will conclude
  synced,            \* nodes that have the framing, and follow the packet
  hung,              \* nodes whose main spins with interrupts off
  masterInquiryCommand, clearMasterInquiry, signalMaster, setSignalMaster,
                     \* the nodes that have the flag set
  event,             \* node: what is announced, or about to be, and so in outBuffer
  pc, forCmd,        \* node: where main is; whether it serves a command there
  tx,                \* nodes that hold the trigger on the line
  crashes

daemon == <<row, errors, pending, lastNodeServiced>>
commandFlags == <<masterInquiryCommand, clearMasterInquiry>>
signalFlags == <<signalMaster, setSignalMaster>>
main == <<pc, forCmd>>
node == <<synced, hung, commandFlags, signalFlags, event, main, tx>>
vars == <<daemon, pkt, node, crashes>>

PacketOK ==
  pkt \in [at : {"none", "data", "end"}, out : Dests \cup {0}, inq : 0..(MaxNodes - 1),
           mask : SUBSET Node, stream : Event \cup {None, "torn"}, sum : Event \cup {None},
           ok : SUBSET {"acked", "received"}]

NodeOK ==
  /\ synced \subseteq Node /\ hung \subseteq Node /\ forCmd \subseteq Node
  /\ masterInquiryCommand \subseteq Dests \cap Node /\ clearMasterInquiry \subseteq Node
  /\ signalMaster \subseteq Node /\ setSignalMaster \subseteq Node
  /\ event \in [Node -> Event \cup {None}]
  /\ pc \in [Node -> {"top", "choose", "fill", "setLater", "clear", "clearLater"}]

(* A command that is not there has failed no transfer, what is announced,  *)
(* or about to be, is in outBuffer, and a trigger is held only by a node   *)
(* that announces and is in step, or hangs (daemon.c:264, node.c:318).     *)
TypeOK ==
  /\ \A n \in Dests : row[n] \in Seq(Cmd) /\ Len(row[n]) <= QueueLen
  /\ errors \in [Dests -> 0..(MaxErrors - 1)]
  /\ \A n \in Dests : row[n] = << >> => errors[n] = 0
  /\ pending \subseteq 0..(MaxNodes - 1) /\ lastNodeServiced \in 0..(MaxNodes - 1)
  /\ PacketOK /\ NodeOK
  /\ \A n \in Node : event[n] # None <=> \/ n \in signalMaster \cup setSignalMaster
                                         \/ pc[n] = "setLater"
  /\ tx \subseteq signalMaster \cap (synced \cup hung)
  /\ crashes \in 0..MaxCrashes

Init ==
  /\ row = [n \in Dests |-> << >>] /\ errors = [n \in Dests |-> 0]
  /\ pending = {} /\ lastNodeServiced = 0
  /\ pkt = NoPacket
  /\ synced = {} /\ hung = {} /\ tx = {}
  /\ masterInquiryCommand = {} /\ clearMasterInquiry = {}
  /\ signalMaster = {} /\ setSignalMaster = {} /\ event = [n \in Node |-> None]
  /\ pc = [n \in Node |-> "top"] /\ forCmd = {}
  /\ crashes = 0

-----------------------------------------------------------------------------
(* A datagram for a node: taken while the daemon is between two packets.   *)
Accept(n, c) ==
  /\ pkt.at = "none" /\ Len(row[n]) < QueueLen
  /\ row' = [row EXCEPT ![n] = Append(@, c)]
  /\ UNCHANGED <<errors, pending, lastNodeServiced, pkt, node, crashes>>

Ahead(n) == (n + MaxNodes - lastNodeServiced - 1) % MaxNodes

(* The next node to ask: of those whose signal is pending the last one met *)
(* on the way round, and if there are none the one the preamble names.     *)
preProcessSNCCmessage(preamble) ==
  IF pending # {} THEN CHOOSE n \in pending : \A m \in pending : Ahead(m) <= Ahead(n)
  ELSE IF preamble \in 1..(MaxNodes - 1) THEN preamble ELSE 0

(* A packet is sent for a command, or because the line is low or a signal  *)
(* pending. The nodes whose trigger is out squeeze their ids into the      *)
(* preamble, all at once; the nodes that see the preamble put their signal *)
(* into the mask, some of which may be disturbed. The one that is asked,   *)
(* and announces, streams outBuffer from here on.                          *)
Waiting == {n \in Dests : row[n] # << >>}
Streamed(inq, sees) == IF inq \in sees \cap signalMaster THEN event[inq] ELSE None
Begin(out, preamble, sees, mask) ==
  /\ IF Waiting # {} THEN out \in Waiting ELSE out = 0 /\ (tx # {} \/ pending # {})
  /\ LET inq == preProcessSNCCmessage(preamble) IN
       pkt' = [NoPacket EXCEPT !.at = "data", !.out = out, !.inq = inq, !.mask = mask,
                               !.stream = Streamed(inq, sees), !.sum = Streamed(inq, sees)]
  /\ synced' = sees
  /\ tx' \in SUBSET (tx \cap hung)
  /\ UNCHANGED <<daemon, hung, commandFlags, signalFlags, event, main, crashes>>

(* Mutant: a node that works on a command acknowledges the next one.       *)
Acknowledges_Busy(n) == n \in synced

(* A node acknowledges a command, by its checksum, unless it has one.      *)
Acknowledges(n) == n \in synced \ masterInquiryCommand

(* What becomes of the command of the packet. The node takes it if command *)
(* and checksum arrive, and clearMasterInquiry does not send it the other  *)
(* way (it tests masterInquiryCommand twice: before it sums, and when it   *)
(* takes the command); the daemon has it acknowledged if the command       *)
(* arrived and the checksum came back.                                     *)
Taken(n, bad) == /\ n = pkt.out /\ Acknowledges(n)
                 /\ n \notin masterInquiryCommand \cup clearMasterInquiry
                 /\ bad \cap {"command", "sum"} = {}
Acked(n, bad) == n = pkt.out /\ Acknowledges(n) /\ bad \cap {"command", "ack"} = {}

(* The checksum the daemon computed comes back to the node, intact.        *)
Echoed(bad) == bad \cap {"event", "echo"} = {}

(* What becomes of the event asked for. A node that has none, or is not    *)
(* there, returns zeros, which are their own checksum: the daemon passes   *)
(* on an event of no interface, and the controller ignores it. The daemon  *)
(* compares the bytes with the checksum that came with them, the node with *)
(* that of what is in outBuffer now.                                       *)
Received(bad) == /\ pkt.inq # 0 /\ pkt.stream = pkt.sum
                 /\ bad \cap {"event", "eventSum"} = {}
Asked(n) == n = pkt.inq /\ n \in synced \cap signalMaster
Cleared(n, bad) == Asked(n) /\ Echoed(bad) /\ pkt.stream = event[n]
Gone(n, bad) == Cleared(n, bad) /\ n \notin setSignalMaster /\ pc[n] # "setLater"

(* Mutant: setSignalMaster is cleared before it is looked at.              *)
SignalsAtEnd_Dropped(bad) == {n \in signalMaster : ~Cleared(n, bad)}

(* At its end the nodes that followed announce what waits for it, and put  *)
(* their trigger on the line.                                              *)
SignalsAtEnd(bad) == {n \in signalMaster : ~Cleared(n, bad)} \cup (setSignalMaster \cap synced)

(* Mutant: the trigger is only for what becomes due at the end of a packet.*)
TriggersAtEnd_Later(bad) == setSignalMaster \cap synced

TriggersAtEnd(bad) == SignalsAtEnd(bad) \cap synced

(* The interrupt wakes main for a command, and leaves interrupts off if it *)
(* was awake. It hangs if it was about to test signalMaster; or it tests it*)
(* when the last event is taken down and the next one not yet announced.   *)
Wakes(n, bad) == /\ n \in masterInquiryCommand \/ Taken(n, bad)
                 /\ n \notin clearMasterInquiry
                 /\ n \notin signalMaster \/ Cleared(n, bad)
Due == {n \in synced \cap setSignalMaster : pc[n] = "top"}
MayHang(bad) == {n \in Due : Wakes(n, bad)}
MaySlip(bad) == {n \in Due : Cleared(n, bad)}

End(bad) ==
  /\ pkt.at = "data"
  /\ masterInquiryCommand' = (masterInquiryCommand \ (clearMasterInquiry \cap synced))
                                \cup {n \in Dests : Taken(n, bad)}
  /\ clearMasterInquiry' = clearMasterInquiry \ synced
  /\ signalMaster' = SignalsAtEnd(bad)
  /\ setSignalMaster' = setSignalMaster \ synced
  /\ event' = [n \in Node |-> IF Gone(n, bad) THEN None ELSE event[n]]
  /\ tx' = TriggersAtEnd(bad) \cup (tx \cap hung)
  /\ \E hangs \in SUBSET MayHang(bad) : \E slips \in SUBSET (MaySlip(bad) \ hangs) :
       /\ hung' = hung \cup hangs
       /\ pc' = [n \in Node |-> IF n \in slips THEN "choose" ELSE pc[n]]
  /\ LET heard == IF Received(bad) THEN pkt.sum ELSE None IN
       pkt' = [pkt EXCEPT
         !.at = "end", !.stream = heard, !.sum = heard,
         !.ok = (IF \E n \in Dests : Acked(n, bad) THEN {"acked"} ELSE {})
                  \cup (IF Received(bad) THEN {"received"} ELSE {})]
  /\ UNCHANGED <<daemon, synced, forCmd, crashes>>

(* 12 ms later the daemon draws its conclusions: it recycles the command,  *)
(* or tries it again until it has failed MaxErrors times; and passes on the*)
(* event.                                                                  *)
Failed(n) == n = pkt.out /\ "acked" \notin pkt.ok
GivenUp(n) == Failed(n) /\ errors[n] + 1 = MaxErrors
Settled(n) == n = pkt.out /\ (Failed(n) => GivenUp(n))

(* Mutant: the next command inherits the count of the one acknowledged.    *)
TransferErrors_Kept(n) ==
  IF GivenUp(n) THEN 0 ELSE IF Failed(n) THEN errors[n] + 1 ELSE errors[n]

TransferErrors(n) ==
  IF Settled(n) THEN 0 ELSE IF Failed(n) THEN errors[n] + 1 ELSE errors[n]

Conclude ==
  /\ pkt.at = "end"
  /\ row' = [n \in Dests |-> IF Settled(n) THEN Tail(row[n]) ELSE row[n]]
  /\ errors' = [n \in Dests |-> TransferErrors(n)]
  /\ lastNodeServiced' = IF "received" \in pkt.ok THEN pkt.inq ELSE lastNodeServiced
  /\ pending' = (pending \cup pkt.mask) \ {pkt.inq}
  /\ pkt' = NoPacket
  /\ UNCHANGED <<node, crashes>>

-----------------------------------------------------------------------------
(* The main loop of a node. What it waits for (an extension, the line of   *)
(* one) and what it says to it is Node's.                                  *)
Between(n) == n \in synced /\ pkt.at # "data"
Goto(n, l) == /\ pc' = [pc EXCEPT ![n] = l]
              /\ forCmd' = IF l = "top" THEN forCmd \ {n} ELSE forCmd
AfterService(n) == IF n \in forCmd THEN "clear" ELSE "top"

(* while (p->signalMaster)                                                 *)
SignalServed(n) ==
  /\ pc[n] = "top" /\ n \notin signalMaster
  /\ Goto(n, "choose")
  /\ UNCHANGED <<daemon, pkt, synced, hung, commandFlags, signalFlags, event, tx, crashes>>

(* A command to be served, or an extension that raised its line, or none.  *)
Choose(n) ==
  /\ pc[n] = "choose"
  /\ \/ n \in masterInquiryCommand
        /\ pc' = [pc EXCEPT ![n] = "fill"] /\ forCmd' = forCmd \cup {n}
     \/ n \notin masterInquiryCommand /\ \E l \in {"fill", "top"} : Goto(n, l)
  /\ UNCHANGED <<daemon, pkt, synced, hung, commandFlags, signalFlags, event, tx, crashes>>

(* adceService writes outBuffer while the interrupt streams it.            *)
Tear(n) ==
  /\ pc[n] = "fill" /\ pkt.at = "data" /\ n = pkt.inq /\ pkt.stream \in Event
  /\ pkt' = [pkt EXCEPT !.stream = "torn"]
  /\ UNCHANGED <<daemon, node, crashes>>

(* The return of the extension is in outBuffer, with its checksum, in the  *)
(* place of an event that is announced or waits to be, and may be an event *)
(* itself. Between two packets that is announced at once: a first byte that*)
(* comes between test and assignment takes the trigger away, as it would   *)
(* after both, and so only keeps the id out of the preamble. In a packet,  *)
(* or out of step, it is to be announced at the end of the one under way.  *)
(* (The bytes of a packet already torn may by now be those of the return.) *)
Finish(n, return, trigger) ==
  /\ pc[n] = "fill"
  /\ event' = [event EXCEPT ![n] = IF trigger \/ @ # None THEN return ELSE @]
  /\ \E late \in IF Asked(n) /\ pkt.stream = "torn" THEN {"torn", return}
                                                    ELSE {pkt.stream} :
       pkt' = [pkt EXCEPT !.stream = late]
  /\ signalMaster' = IF trigger /\ Between(n) THEN signalMaster \cup {n} ELSE signalMaster
  /\ tx' = IF trigger /\ Between(n) THEN tx \cup {n} ELSE tx
  /\ Goto(n, IF trigger /\ ~Between(n) THEN "setLater" ELSE AfterService(n))
  /\ UNCHANGED <<daemon, synced, hung, commandFlags, setSignalMaster, crashes>>

(* The assignments for the end of the packet, which may have ended since   *)
(* the test: the flag then stays set between packets, for the next one.    *)
SetLater(n) ==
  /\ pc[n] = "setLater"
  /\ setSignalMaster' = setSignalMaster \cup {n}
  /\ Goto(n, AfterService(n))
  /\ UNCHANGED <<daemon, pkt, synced, hung, commandFlags, signalMaster, event, tx, crashes>>

ClearTests(n) ==
  /\ pc[n] = "clear"
  /\ LET later == n \in masterInquiryCommand /\ ~Between(n) IN
       /\ Goto(n, IF later THEN "clearLater" ELSE "top")
       /\ masterInquiryCommand' = IF later THEN masterInquiryCommand
                                           ELSE masterInquiryCommand \ {n}
  /\ UNCHANGED <<daemon, pkt, synced, hung, clearMasterInquiry, signalFlags, event, tx, crashes>>

ClearLater(n) ==
  /\ pc[n] = "clearLater"
  /\ clearMasterInquiry' = clearMasterInquiry \cup {n}
  /\ Goto(n, "top")
  /\ UNCHANGED <<daemon, pkt, synced, hung, masterInquiryCommand, signalFlags, event, tx, crashes>>

-----------------------------------------------------------------------------
(* A node that finds no framing, or was overrun, starts from nothing. What *)
(* it returned of a packet that is not over is worth nothing.              *)
Reset(n) ==
  /\ crashes < MaxCrashes /\ crashes' = crashes + 1
  /\ n \notin hung
  /\ synced' = synced \ {n} /\ tx' = tx \ {n}
  /\ masterInquiryCommand' = masterInquiryCommand \ {n}
  /\ clearMasterInquiry' = clearMasterInquiry \ {n}
  /\ signalMaster' = signalMaster \ {n} /\ setSignalMaster' = setSignalMaster \ {n}
  /\ event' = [event EXCEPT ![n] = None]
  /\ Goto(n, "top")
  /\ pkt' = IF n = pkt.inq /\ pkt.at = "data" /\ pkt.stream # None
            THEN [pkt EXCEPT !.stream = "torn"] ELSE pkt
  /\ UNCHANGED <<daemon, hung>>

(* The daemon starts with empty rows and no signals; nodes that were in a  *)
(* packet take the next one for its rest, and lose the framing.            *)
Restart ==
  /\ crashes < MaxCrashes /\ crashes' = crashes + 1
  /\ row' = [n \in Dests |-> << >>] /\ errors' = [n \in Dests |-> 0]
  /\ pending' = {} /\ lastNodeServiced' = 0
  /\ synced' = IF pkt.at = "data" THEN {} ELSE synced
  /\ pkt' = NoPacket
  /\ UNCHANGED <<hung, commandFlags, signalFlags, event, main, tx>>

BeginAny ==
  /\ pkt.at = "none"
  /\ \E out \in Dests \cup {0}, preamble \in {Or(S) : S \in SUBSET tx} \cup {0},
        sees \in SUBSET (Node \ hung) :
       \E mask \in {{}, sees \cap signalMaster} : Begin(out, preamble, sees, mask)

Main(n) == \/ SignalServed(n) \/ Choose(n) \/ Tear(n)
           \/ SetLater(n) \/ ClearTests(n) \/ ClearLater(n)

Next == \/ BeginAny
        \/ \E bad \in Disturbances : End(bad)
        \/ Conclude
        \/ \E n \in Dests, c \in Cmd : Accept(n, c)
        \/ \E n \in Node : \/ Main(n) \/ Reset(n)
                           \/ \E e \in Event, t \in BOOLEAN : Finish(n, e, t)
        \/ Restart

Spec == Init /\ [][Next]_vars

(* The daemon runs on, a node carries out the assignment it is at, and the *)
(* wires are not disturbed for ever: now and then a packet is seen by all  *)
(* and says who signals, and of the packets that ask a node one is seen by *)
(* all, and one returns the event undisturbed and whole.                   *)
BeginClean ==
  /\ pkt.at = "none"
  /\ \E out \in Dests \cup {0} : Begin(out, Or(tx), Node \ hung, signalMaster \ hung)
Fairness ==
  /\ WF_vars(BeginAny \/ (\E bad \in Disturbances : End(bad)) \/ Conclude)
  /\ SF_vars(BeginClean)
  /\ \A n \in Node : /\ WF_vars(SetLater(n))
                     /\ SF_vars(BeginClean /\ pkt'.inq = n)
                     /\ SF_vars(Asked(n) /\ pkt.stream # "torn" /\ End({}))
FairSpec == Spec /\ Fairness

-----------------------------------------------------------------------------
(* No packet, and nobody who makes the daemon send one.                    *)
Quiet == pkt.at = "none" /\ tx = {} /\ pending = {} /\ Waiting = {}

(* The event waits for the end of a packet that the node has to find first *)
(* or that ended before main set the flag for it.                          *)
Parked(n) == n \notin synced \/ n \in setSignalMaster \ signalMaster

(* The daemon has an event of the node, and passes it on in a moment.      *)
InHand(n) == n = pkt.inq /\ pkt.sum # None /\ pkt.stream = pkt.sum

(* An event reaches the daemon or leaves its node, whatever collides in the*)
(* preambles and whichever side starts anew; unless the node hangs, or the *)
(* bus falls silent for good while the event is parked, out of step or by  *)
(* the race of node.c:473 (daemon.c:305, :401, node.c:480, msp430.c:166).  *)
EventHeard ==
  \A n \in Node : event[n] # None ~>
    \/ event[n] = None \/ (pkt.at = "end" /\ InHand(n))
    \/ n \in hung \/ [](Quiet /\ Parked(n))
=============================================================================

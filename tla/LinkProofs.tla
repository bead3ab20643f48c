----------------------------- MODULE LinkProofs -----------------------------
(***************************************************************************)
(* Proofs about Link and Delivery, for every number of nodes, row length,  *)
(* error limit, set of disturbances and number of resets and restarts: the *)
(* types, and that commands and events each implement Channel.             *)
(***************************************************************************)
EXTENDS Delivery, FiniteSetTheorems, SequenceTheorems, TLAPS

(* What the types do not say: while its data are under way nobody signals  *)
(* who does not hang, and who hangs does not follow; and the row whose     *)
(* command is in the packet still has it.                                  *)
Rows == row \in [Dests -> Seq(Cmd)]
UnderWay ==
  /\ pkt.at = "data" => tx \subseteq hung /\ synced \cap hung = {}
  /\ pkt.at # "none" /\ pkt.out # 0 => row[pkt.out] # << >>
  /\ pkt.at = "none" => pkt = NoPacket
IInv == TypeOK /\ Rows /\ UnderWay

-----------------------------------------------------------------------------
(* Of finitely many indices one is the last.                               *)
LEMMA LastExists ==
  ASSUME NEW m \in Nat, NEW S \in SUBSET (0..m), S # {}
  PROVE  \E k \in S : \A l \in S : l <= k
<1> DEFINE Above(x) == x..m
           T == {Above(x) : x \in S}
<1>1. \A x \in 0..m : Above(x) \in FiniteSubsetsOf(Nat)
  BY FS_Interval DEF FiniteSubsetsOf
<1>2. T \subseteq FiniteSubsetsOf(Nat) /\ T # {}
  BY <1>1
<1>3. \E t \in T : \A u \in T : ~ (<<u, t>> \in StrictSubsetOrdering(Nat))
  <2> HIDE DEF T
  <2> QED
    BY <1>2, FS_StrictSubsetOrderingWellFounded, WFMin
<1>4. PICK x \in S : \A y \in S : ~ (<<Above(y), Above(x)>> \in StrictSubsetOrdering(Nat))
  BY <1>3
<1>5. SUFFICES ASSUME NEW y \in S, x < y PROVE FALSE
  BY SMT
<1>6. Above(y) \subseteq Above(x) /\ x \in Above(x) /\ x \notin Above(y)
  BY <1>5
<1>7. <<Above(y), Above(x)>> \in StrictSubsetOrdering(Nat)
  BY <1>1, <1>6 DEF StrictSubsetOrdering, FiniteSubsetsOf
<1> QED
  BY <1>4, <1>7

(* The ring yields a node that waits, and without one the preamble, or 0.  *)
LEMMA AskedIsNode ==
  ASSUME TypeOK, NEW preamble
  PROVE  preProcessSNCCmessage(preamble) \in 0..(MaxNodes - 1)
<1>1. MaxNodes \in Nat \ {0}
  BY BusAssumption
<1>2. CASE pending = {}
  BY <1>1, <1>2 DEF preProcessSNCCmessage
<1>3. CASE pending # {}
  <2> DEFINE S == {Ahead(n) : n \in pending}
  <2>1. \A n \in pending : Ahead(n) \in 0..(MaxNodes - 1)
    BY <1>1 DEF Ahead, TypeOK
  <2>2. \E k \in S : \A l \in S : l <= k
    <3>1. MaxNodes - 1 \in Nat /\ S \in SUBSET (0..(MaxNodes - 1)) /\ S # {}
      BY <1>1, <1>3, <2>1
    <3> HIDE DEF S
    <3> QED BY <3>1, LastExists
  <2>3. \E n \in pending : \A m \in pending : Ahead(m) <= Ahead(n)
    BY <2>2
  <2>4. preProcessSNCCmessage(preamble) \in pending
    BY <1>3, <2>3 DEF preProcessSNCCmessage
  <2> QED BY <2>4 DEF TypeOK
<1> QED BY <1>2, <1>3

LEMMA InitIInv == Init => IInv
BY BusAssumption, BoundAssumption
   DEF Init, IInv, TypeOK, PacketOK, NodeOK, Rows, UnderWay, NoPacket, None

-----------------------------------------------------------------------------
(* One lemma per action: the invariant is kept.                            *)
LEMMA AcceptKeeps ==
  ASSUME IInv, NEW n \in Dests, NEW c \in Cmd, Accept(n, c)
  PROVE  IInv'
<1> USE BusAssumption, BoundAssumption DEF IInv
<1>1. row' \in [Dests -> Seq(Cmd)] /\ \A m \in Dests : Len(row'[m]) <= QueueLen
  BY DEF Accept, TypeOK, Rows
<1>2. row'[n] # << >> /\ \A m \in Dests \ {n} : row'[m] = row[m]
  BY DEF Accept, Rows
<1>3. UNCHANGED <<errors, pending, lastNodeServiced, pkt, node, crashes>>
  BY DEF Accept
<1>4. \A m \in Dests : row'[m] \in Seq(Cmd)
  BY <1>1
<1>5. PacketOK' /\ NodeOK'
  BY <1>3 DEF TypeOK, PacketOK, NodeOK, node, commandFlags, signalFlags, main
<1>6. TypeOK'
  BY <1>1, <1>2, <1>3, <1>4, <1>5
     DEF TypeOK, node, commandFlags, signalFlags, main
<1>7. UnderWay'
  BY <1>3 DEF Accept, UnderWay, node
<1> QED
  BY <1>1, <1>6, <1>7 DEF Rows

LEMMA BeginKeeps ==
  ASSUME IInv, NEW out, NEW preamble, NEW sees \in SUBSET (Node \ hung),
         NEW mask \in SUBSET Node, Begin(out, preamble, sees, mask)
  PROVE  IInv'
<1> USE BusAssumption, BoundAssumption DEF IInv
<1>1. out \in Dests \cup {0} /\ (out # 0 => row[out] # << >>)
  BY DEF Begin, Waiting
<1>2. preProcessSNCCmessage(preamble) \in 0..(MaxNodes - 1)
  BY AskedIsNode
<1>3. Streamed(preProcessSNCCmessage(preamble), sees) \in Event \cup {None}
  BY DEF Streamed, TypeOK, NodeOK
<1>4. PacketOK' /\ pkt'.at = "data" /\ pkt'.out = out
  BY <1>1, <1>2, <1>3 DEF Begin, PacketOK, NoPacket
<1>5. /\ UNCHANGED <<row, errors, pending, lastNodeServiced, hung, commandFlags, signalFlags,
                      event, pc, forCmd, crashes>>
      /\ synced' = sees /\ tx' \subseteq tx \cap hung
  BY DEF Begin, daemon, main
<1>6. NodeOK'
  BY <1>5 DEF TypeOK, NodeOK, commandFlags, signalFlags
<1>7. TypeOK'
  BY <1>4, <1>5, <1>6 DEF TypeOK, commandFlags, signalFlags
<1>8. UnderWay'
  BY <1>1, <1>4, <1>5 DEF UnderWay
<1> QED
  BY <1>5, <1>7, <1>8 DEF Rows

LEMMA EndKeeps ==
  ASSUME IInv, NEW bad \in Disturbances, End(bad)
  PROVE  IInv'
<1> USE BusAssumption, BoundAssumption DEF IInv
<1>1. /\ pkt.at = "data"
      /\ UNCHANGED <<row, errors, pending, lastNodeServiced, synced, forCmd, crashes>>
  BY DEF End, daemon
<1>2. PacketOK' /\ pkt'.at = "end" /\ pkt'.out = pkt.out
  BY DEF End, TypeOK, PacketOK
<1>3. PICK hangs \in SUBSET MayHang(bad), slips \in SUBSET MaySlip(bad) :
         /\ hung' = hung \cup hangs
         /\ pc' = [n \in Node |-> IF n \in slips THEN "choose" ELSE pc[n]]
  BY DEF End
<1>4. hangs \subseteq Node /\ \A n \in slips : n \in Node /\ pc[n] = "top"
  BY DEF MayHang, MaySlip, Due, TypeOK, NodeOK
<1>5. masterInquiryCommand' \subseteq Dests \cap Node /\ clearMasterInquiry' \subseteq Node
  BY DEF End, Taken, Acknowledges, TypeOK, NodeOK
<1>6. /\ signalMaster' = SignalsAtEnd(bad) /\ setSignalMaster' = setSignalMaster \ synced
      /\ event' = [n \in Node |-> IF Gone(n, bad) THEN None ELSE event[n]]
      /\ tx' = TriggersAtEnd(bad) \cup (tx \cap hung)
  BY DEF End
<1>7. NodeOK'
  <2>1. /\ signalMaster' \subseteq Node /\ setSignalMaster' \subseteq Node
        /\ event' \in [Node -> Event \cup {None}]
    BY <1>6 DEF SignalsAtEnd, TypeOK, NodeOK
  <2>2. /\ hung' \subseteq Node
        /\ pc' \in [Node -> {"top", "choose", "fill", "setLater", "clear", "clearLater"}]
    BY <1>3, <1>4 DEF TypeOK, NodeOK
  <2> QED
    BY <1>1, <1>5, <2>1, <2>2 DEF TypeOK, NodeOK
<1>8. \A n \in Node : event'[n] # None <=> \/ n \in signalMaster' \cup setSignalMaster'
                                           \/ pc'[n] = "setLater"
  BY <1>3, <1>4, <1>6 DEF Gone, Cleared, Asked, SignalsAtEnd, TypeOK, NodeOK
<1>9. tx' \subseteq signalMaster' \cap (synced' \cup hung')
  <2>1. \A n \in hung : ~Cleared(n, bad)
    BY <1>1 DEF Cleared, Asked, UnderWay
  <2> QED
    BY <1>1, <1>3, <1>6, <2>1 DEF TriggersAtEnd, SignalsAtEnd, TypeOK
<1>10. TypeOK'
  BY <1>1, <1>2, <1>7, <1>8, <1>9 DEF TypeOK
<1>11. UnderWay'
  BY <1>1, <1>2 DEF UnderWay
<1> QED
  BY <1>1, <1>10, <1>11 DEF Rows

LEMMA ConcludeKeeps ==
  ASSUME IInv, Conclude
  PROVE  IInv'
<1> USE BusAssumption, BoundAssumption DEF IInv
<1>1. \A n \in Dests : Settled(n) => row[n] # << >>
  BY DEF Conclude, Settled, UnderWay
<1>2. row' \in [Dests -> Seq(Cmd)] /\ \A n \in Dests : Len(row'[n]) <= QueueLen
  BY <1>1 DEF Conclude, TypeOK, Rows
<1>3. errors' \in [Dests -> 0..(MaxErrors - 1)]
  <2>1. \A n \in Dests : TransferErrors(n) \in 0..(MaxErrors - 1)
    <3> SUFFICES ASSUME NEW n \in Dests PROVE TransferErrors(n) \in 0..(MaxErrors - 1)
      OBVIOUS
    <3>1. errors[n] \in 0..(MaxErrors - 1) /\ MaxErrors \in Nat \ {0}
      BY DEF TypeOK
    <3>2. Failed(n) /\ ~Settled(n) => errors[n] + 1 # MaxErrors
      BY DEF Settled, GivenUp, Failed
    <3> QED
      BY ONLY <3>1, <3>2 DEF TransferErrors
  <2> QED BY <2>1 DEF Conclude
<1>4. \A n \in Dests : row'[n] = << >> => errors'[n] = 0
  <2> SUFFICES ASSUME NEW n \in Dests, row'[n] = << >> PROVE errors'[n] = 0
    OBVIOUS
  <2>1. CASE Settled(n)
    BY <2>1 DEF Conclude, TransferErrors
  <2>2. CASE ~Settled(n)
    <3>1. row[n] = << >>
      BY <2>2 DEF Conclude
    <3>2. n # pkt.out
      BY <3>1 DEF Conclude, UnderWay
    <3> QED BY <2>2, <3>1, <3>2 DEF Conclude, TransferErrors, Failed, TypeOK
  <2> QED BY <2>1, <2>2
<1>5. pkt' = NoPacket /\ UNCHANGED <<node, crashes>>
  BY DEF Conclude
<1>6. pending' \subseteq 0..(MaxNodes - 1) /\ lastNodeServiced' \in 0..(MaxNodes - 1)
  <2>1. /\ pending' = (pending \cup pkt.mask) \ {pkt.inq}
        /\ lastNodeServiced' \in {pkt.inq, lastNodeServiced}
    BY DEF Conclude
  <2>2. Node \subseteq 0..(MaxNodes - 1)
    BY BusAssumption
  <2>3. pkt.mask \subseteq Node /\ pkt.inq \in 0..(MaxNodes - 1)
    BY DEF TypeOK, PacketOK
  <2>4. pending \subseteq 0..(MaxNodes - 1) /\ lastNodeServiced \in 0..(MaxNodes - 1)
    BY DEF TypeOK
  <2> QED BY ONLY <2>1, <2>2, <2>3, <2>4
<1>7. PacketOK' /\ NodeOK'
  BY <1>5 DEF TypeOK, PacketOK, NodeOK, NoPacket, node, commandFlags, signalFlags, main
<1>8. TypeOK'
  BY <1>2, <1>3, <1>4, <1>5, <1>6, <1>7 DEF TypeOK, node, commandFlags, signalFlags, main
<1>9. UnderWay'
  BY <1>5 DEF UnderWay, NoPacket
<1> QED
  BY <1>2, <1>8, <1>9 DEF Rows

(* What main does changes no row, and of the packet only what streams.     *)
LEMMA MainOnly ==
  ASSUME NEW n \in Node, Main(n)
  PROVE  /\ UNCHANGED <<daemon, synced, hung, event, signalMaster, tx, crashes>>
         /\ \/ pkt' = pkt
            \/ /\ pc[n] = "fill" /\ pkt.at = "data" /\ n = pkt.inq /\ pkt.stream \in Event
               /\ pkt' = [pkt EXCEPT !.stream = "torn"]
BY DEF Main, SignalServed, Choose, Tear, SetLater, ClearTests, ClearLater, node, commandFlags,
       signalFlags, daemon

LEMMA MainFlags ==
  ASSUME NodeOK, NEW n \in Node, Main(n)
  PROVE  /\ NodeOK'
         /\ \A m \in Node : (m \in setSignalMaster' \/ pc'[m] = "setLater")
                               <=> (m \in setSignalMaster \/ pc[m] = "setLater")
<1> USE DEF node, commandFlags, signalFlags, main, Goto, NodeOK
<1>1. CASE SignalServed(n)
  BY <1>1 DEF SignalServed
<1>2. CASE Choose(n)
  BY <1>2 DEF Choose
<1>3. CASE Tear(n)
  BY <1>3 DEF Tear
<1>4. CASE SetLater(n)
  BY <1>4 DEF SetLater, AfterService
<1>5. CASE ClearTests(n)
  BY <1>5 DEF ClearTests
<1>6. CASE ClearLater(n)
  BY <1>6 DEF ClearLater
<1> QED
  BY <1>1, <1>2, <1>3, <1>4, <1>5, <1>6 DEF Main

LEMMA MainKeeps ==
  ASSUME IInv, NEW n \in Node, Main(n)
  PROVE  IInv'
<1> USE DEF IInv
<1>1. UNCHANGED <<row, errors, pending, lastNodeServiced, synced, hung, event, signalMaster,
                  tx, crashes>>
  BY MainOnly DEF daemon
<1>2. \/ pkt' = pkt
      \/ pkt.at = "data" /\ pkt' = [pkt EXCEPT !.stream = "torn"]
  BY MainOnly
<1>3. PacketOK' /\ pkt'.at = pkt.at /\ pkt'.out = pkt.out
  BY <1>2 DEF TypeOK, PacketOK
<1>4. NodeOK'
  BY MainFlags DEF TypeOK
<1>5. \A m \in Node : (m \in setSignalMaster' \/ pc'[m] = "setLater")
                        <=> (m \in setSignalMaster \/ pc[m] = "setLater")
  BY MainFlags DEF TypeOK
<1>6. TypeOK'
  BY <1>1, <1>3, <1>4, <1>5 DEF TypeOK
<1>7. UnderWay'
  BY <1>1, <1>2, <1>3 DEF UnderWay
<1> QED
  BY <1>1, <1>6, <1>7 DEF Rows

LEMMA FinishKeeps ==
  ASSUME IInv, NEW n \in Node, NEW return \in Event, NEW trigger \in BOOLEAN,
         Finish(n, return, trigger)
  PROVE  IInv'
<1> USE BusAssumption DEF IInv
<1>1. UNCHANGED <<row, errors, pending, lastNodeServiced, synced, hung,
                  masterInquiryCommand, clearMasterInquiry, setSignalMaster, crashes>>
  BY DEF Finish, daemon, commandFlags
<1>2. PICK late \in {"torn", return, pkt.stream} : pkt' = [pkt EXCEPT !.stream = late]
  BY DEF Finish
<1>3. PacketOK' /\ pkt'.at = pkt.at /\ pkt'.out = pkt.out
  BY <1>2 DEF TypeOK, PacketOK
<1>4. pkt.at = "none" => pkt' = pkt
  <2>1. pkt.at = "none" => ~Asked(n)
    BY DEF UnderWay, NoPacket, Asked
  <2>2. ~Asked(n) => pkt' = [pkt EXCEPT !.stream = pkt.stream]
    BY DEF Finish
  <2> QED
    BY <2>1, <2>2 DEF UnderWay, NoPacket
<1>5. NodeOK'
  BY <1>1 DEF Finish, Goto, AfterService, TypeOK, NodeOK
<1>6. \A m \in Node : event'[m] # None <=> \/ m \in signalMaster' \cup setSignalMaster'
                                           \/ pc'[m] = "setLater"
  <2>1. return # None
    BY DEF None
  <2>2. \A m \in Node \ {n} : event'[m] = event[m] /\ pc'[m] = pc[m]
    BY DEF Finish, Goto, TypeOK, NodeOK
  <2>3. /\ event'[n] = IF trigger \/ event[n] # None THEN return ELSE event[n]
        /\ pc'[n] = IF trigger /\ ~Between(n) THEN "setLater" ELSE AfterService(n)
        /\ pc[n] = "fill" /\ AfterService(n) # "setLater"
        /\ signalMaster' = IF trigger /\ Between(n) THEN signalMaster \cup {n}
                                                    ELSE signalMaster
    BY DEF Finish, Goto, AfterService, TypeOK, NodeOK
  <2> QED
    BY <1>1, <2>1, <2>2, <2>3 DEF TypeOK
<1>7. tx' \subseteq signalMaster' \cap (synced' \cup hung')
  BY <1>1 DEF Finish, Between, TypeOK
<1>8. TypeOK'
  BY <1>1, <1>3, <1>5, <1>6, <1>7 DEF TypeOK
<1>9. UnderWay'
  <2>1. pkt.at = "data" => tx' = tx
    BY DEF Finish, Between
  <2> QED
    BY <1>1, <1>3, <1>4, <2>1 DEF UnderWay
<1> QED
  BY <1>1, <1>8, <1>9 DEF Rows

LEMMA ResetKeeps ==
  ASSUME IInv, NEW n \in Node, Reset(n)
  PROVE  IInv'
<1> USE BusAssumption DEF IInv
<1>1. UNCHANGED <<row, errors, pending, lastNodeServiced, hung>> /\ n \notin hung
  BY DEF Reset, daemon
<1>2. crashes' \in 0..MaxCrashes
  <2>1. crashes < MaxCrashes /\ crashes' = crashes + 1 /\ crashes \in 0..MaxCrashes
    BY DEF Reset, TypeOK
  <2> QED BY <2>1, BoundAssumption
<1>3. /\ pkt' = pkt \/ pkt' = [pkt EXCEPT !.stream = "torn"]
      /\ pkt.at = "none" => pkt' = pkt
  BY DEF Reset
<1>4. PacketOK' /\ pkt'.at = pkt.at /\ pkt'.out = pkt.out
  BY <1>3 DEF TypeOK, PacketOK
<1>5. NodeOK'
  BY <1>1 DEF Reset, Goto, TypeOK, NodeOK
<1>6. \A m \in Node : event'[m] # None <=> \/ m \in signalMaster' \cup setSignalMaster'
                                           \/ pc'[m] = "setLater"
  BY DEF Reset, Goto, TypeOK, NodeOK
<1>7. /\ tx' = tx \ {n} /\ synced' = synced \ {n}
      /\ signalMaster' = signalMaster \ {n}
  BY DEF Reset
<1>8. TypeOK'
  BY <1>1, <1>2, <1>4, <1>5, <1>6, <1>7 DEF TypeOK
<1>9. UnderWay'
  BY <1>1, <1>3, <1>4, <1>7 DEF UnderWay
<1> QED
  BY <1>1, <1>8, <1>9 DEF Rows

LEMMA RestartKeeps ==
  ASSUME IInv, Restart
  PROVE  IInv'
<1> USE BusAssumption, BoundAssumption DEF IInv
<1>1. row' \in [Dests -> Seq(Cmd)]
  BY DEF Restart
<1>2. UNCHANGED <<hung, commandFlags, signalFlags, event, main, tx>> /\ pkt' = NoPacket
  BY DEF Restart
<1>3. /\ \A n \in Dests : row'[n] = << >> /\ errors'[n] = 0
      /\ \A n \in Dests : row'[n] \in Seq(Cmd) /\ Len(row'[n]) <= QueueLen
  BY <1>1 DEF Restart
<1>4. errors' \in [Dests -> 0..(MaxErrors - 1)]
  BY DEF Restart
<1>5. crashes' \in 0..MaxCrashes
  <2>1. crashes < MaxCrashes /\ crashes' = crashes + 1 /\ crashes \in 0..MaxCrashes
    BY DEF Restart, TypeOK
  <2> QED BY <2>1
<1>6. pending' = {} /\ lastNodeServiced' = 0
  BY DEF Restart
<1>7. synced' \subseteq synced /\ tx \subseteq synced' \cup hung
  BY DEF Restart, UnderWay, TypeOK
<1>8. PacketOK' /\ NodeOK'
  BY <1>2, <1>7 DEF TypeOK, PacketOK, NodeOK, NoPacket, commandFlags, signalFlags, main
<1>9. TypeOK'
  BY <1>2, <1>3, <1>4, <1>5, <1>6, <1>7, <1>8 DEF TypeOK, signalFlags, main
<1>10. UnderWay'
  BY <1>2 DEF UnderWay, NoPacket
<1> QED
  BY <1>1, <1>9, <1>10 DEF Rows

LEMMA StutterKeeps == ASSUME IInv, UNCHANGED vars PROVE IInv'
BY DEF IInv, TypeOK, PacketOK, NodeOK, Rows, UnderWay, vars, daemon, node, commandFlags,
       signalFlags, main

LEMMA NextKeeps == IInv /\ [Next]_vars => IInv'
<1> SUFFICES ASSUME IInv, [Next]_vars PROVE IInv'
  OBVIOUS
<1>1. CASE BeginAny
  <2>1. PICK out \in Dests \cup {0}, preamble \in {Or(S) : S \in SUBSET tx} \cup {0},
             sees \in SUBSET (Node \ hung) :
          \E mask \in {{}, sees \cap signalMaster} : Begin(out, preamble, sees, mask)
    BY <1>1 DEF BeginAny
  <2>2. PICK mask \in {{}, sees \cap signalMaster} : Begin(out, preamble, sees, mask)
    BY <2>1
  <2>3. mask \in SUBSET Node
    BY <2>2
  <2> QED BY <2>2, <2>3, BeginKeeps
<1>2. ASSUME NEW bad \in Disturbances, End(bad) PROVE IInv'
  BY <1>2, EndKeeps
<1>3. CASE Conclude
  BY <1>3, ConcludeKeeps
<1>4. ASSUME NEW n \in Dests, NEW c \in Cmd, Accept(n, c) PROVE IInv'
  BY <1>4, AcceptKeeps
<1>5. ASSUME NEW n \in Node, Main(n) PROVE IInv'
  BY <1>5, MainKeeps
<1>6. ASSUME NEW n \in Node, Reset(n) PROVE IInv'
  BY <1>6, ResetKeeps
<1>7. ASSUME NEW n \in Node, NEW e \in Event, NEW t \in BOOLEAN, Finish(n, e, t) PROVE IInv'
  BY <1>7, FinishKeeps
<1>8. CASE Restart
  BY <1>8, RestartKeeps
<1>9. CASE UNCHANGED vars
  BY <1>9, StutterKeeps
<1> QED
  BY <1>1, <1>2, <1>3, <1>4, <1>5, <1>6, <1>7, <1>8, <1>9 DEF Next

LEMMA Invariance == Spec => []IInv
BY InitIInv, NextKeeps, PTL DEF Spec

(* Rows, counters and flags stay in their ranges: no error count outlives  *)
(* its command, what waits to be announced is in outBuffer, and a trigger  *)
(* is on the line only from a node that announces an event, and is in step *)
(* or hangs.                                                               *)
THEOREM TypeCorrect == Spec => []TypeOK
<1>1. IInv => TypeOK
  BY DEF IInv
<1> QED
  BY <1>1, Invariance, PTL

-----------------------------------------------------------------------------
(* Delivery: the same invariant, and of what is in a packet: an event that *)
(* streams whole is the one in outBuffer, or main has just replaced it and *)
(* can not do so again before the packet ends; what the daemon has received*)
(* is in outBuffer, or has left it; and a command acknowledged and not     *)
(* taken has an excuse. Only a message that is there was heard before.     *)
Histories ==
  /\ took \in [Dests -> BOOLEAN] /\ passed \in [Node -> BOOLEAN]
  /\ over \in BOOLEAN /\ lost \subseteq {"sum", "swallowed"}
Replaced(n) == n \in signalMaster /\ pc[n] \notin {"choose", "fill"}
Carried ==
  /\ over => pkt.at # "none" /\ pkt.sum # None /\ pkt.stream = pkt.sum
  /\ pkt.at = "data" /\ pkt.sum # None /\ pkt.stream = pkt.sum =>
       /\ pkt.inq \in signalMaster
       /\ over => Replaced(pkt.inq) /\ event[pkt.inq] \notin {None, pkt.sum}
       /\ ~over => event[pkt.inq] = pkt.sum
  /\ pkt.at = "end" =>
       /\ pkt.stream = pkt.sum
       /\ pkt.sum # None /\ ~over => pkt.inq \in Node /\ event[pkt.inq] = pkt.sum
Excused ==
  /\ pkt.at # "end" => lost = {}
  /\ \A n \in Dests : pkt.at = "end" /\ n = pkt.out /\ "acked" \in pkt.ok /\ ~took[n]
                      => lost # {}
Told == /\ \A n \in Dests : took[n] => row[n] # << >>
        /\ \A n \in Node : passed[n] => Events(n) # << >>
DInv == IInv /\ Histories /\ Carried /\ Excused /\ Told

LEMMA DeliverySteps == DeliveryNext => Next
BY DEF DeliveryNext, Next, Taking, Ending, Concluding, Resetting, Finishing, Restarting

LEMMA DeliveryInits == DeliveryInit => DInv
<1> SUFFICES ASSUME DeliveryInit PROVE DInv
  OBVIOUS
<1>1. IInv
  BY InitIInv DEF DeliveryInit
<1>2. Histories /\ Carried /\ Excused /\ Told
  BY DEF DeliveryInit, Init, NoPacket, Histories, Carried, Excused, Told
<1> QED
  BY <1>1, <1>2 DEF DInv

-----------------------------------------------------------------------------
(* Steps of a channel by what becomes of its queue.                        *)
LEMMA CommandsRest ==
  ASSUME NEW n \in Dests, row'[n] = row[n], took'[n] = took[n], last'.taken[n] = None
  PROVE  CommandChannel(n)!Step
BY DEF CommandChannel!Step, CommandChannel!Next, CommandChannel!Rest

LEMMA EventsRest ==
  ASSUME NEW n \in Node, Events(n)' = Events(n), passed'[n] = passed[n],
         last'.heard[n] = None
  PROVE  EventChannel(n)!Step
BY DEF EventChannel!Step, EventChannel!Next, EventChannel!Rest

(* The queue of events, spelt out: what has left outBuffer, and what is in *)
(* it.                                                                     *)
Over(n) == n = pkt.inq /\ over
Held(left, sum, e) == IF left THEN IF e = None THEN << sum >> ELSE << sum, e >>
                      ELSE IF e = None THEN << >> ELSE << e >>

LEMMA PairIs ==
  ASSUME NEW S, NEW a \in S, NEW b \in S, NEW q \in Seq(S), Len(q) = 2, q[1] = a, q[2] = b
  PROVE  q = << a, b >>
<1>1. << a, b >> \in Seq(S) /\ Len(<< a, b >>) = 2 /\ << a, b >>[1] = a /\ << a, b >>[2] = b
  OBVIOUS
<1>2. \A i \in 1..Len(q) : q[i] = << a, b >>[i]
  BY <1>1
<1> QED
  BY <1>1, <1>2, SeqEqual

LEMMA HeldIs ==
  ASSUME NEW left \in BOOLEAN, NEW sum, NEW e
  PROVE  (IF left THEN << sum >> ELSE << >>) \o (IF e = None THEN << >> ELSE << e >>)
           = Held(left, sum, e)
<1> DEFINE S == {sum, e}
<1>1. << >> \in Seq(S) /\ << sum >> \in Seq(S) /\ << e >> \in Seq(S)
  OBVIOUS
<1>2. << >> \o << >> = << >> /\ << sum >> \o << >> = << sum >> /\ << >> \o << e >> = << e >>
  OBVIOUS
<1>3. << sum >> \o << e >> = << sum, e >>
  <2>1. << sum >> \o << e >> \in Seq(S) /\ Len(<< sum >> \o << e >>) = 2
    OBVIOUS
  <2>2. (<< sum >> \o << e >>)[1] = sum /\ (<< sum >> \o << e >>)[2] = e
    OBVIOUS
  <2> QED
    BY <2>1, <2>2, PairIs
<1> QED
  BY <1>2, <1>3 DEF Held

LEMMA EventsAre ==
  ASSUME NEW n
  PROVE  /\ Events(n) = Held(Over(n), pkt.sum, event[n])
         /\ Events(n)' = Held(Over(n)', pkt'.sum, event'[n])
<1>1. \A sum, e : \A left \in BOOLEAN :
        (IF left THEN << sum >> ELSE << >>) \o (IF e = None THEN << >> ELSE << e >>)
          = Held(left, sum, e)
  BY HeldIs
<1>2. Over(n) \in BOOLEAN /\ Over(n)' \in BOOLEAN
  BY DEF Over
<1>3. /\ Events(n) = (IF Over(n) THEN << pkt.sum >> ELSE << >>)
                       \o (IF event[n] = None THEN << >> ELSE << event[n] >>)
      /\ Events(n)' = (IF Over(n)' THEN << pkt'.sum >> ELSE << >>)
                        \o (IF event'[n] = None THEN << >> ELSE << event'[n] >>)
  BY DEF Events, Over
<1> QED
  BY <1>1, <1>2, <1>3

LEMMA ShortQueues ==
  ASSUME NEW a, NEW b
  PROVE  /\ Tail(<< a >>) = << >> /\ Tail(<< a, b >>) = << b >>
         /\ Head(<< a >>) = a /\ Head(<< a, b >>) = a
         /\ SubSeq(<< a >>, 1, Len(<< a >>) - 1) = << >>
         /\ SubSeq(<< a, b >>, 1, Len(<< a, b >>) - 1) = << a >>
         /\ Append(<< >>, a) = << a >> /\ Append(<< a >>, b) = << a, b >>
         /\ << a >> # << >> /\ << a, b >> # << >>
<1>1. Tail(<< a >>) = << >>
  OBVIOUS
<1>2. Tail(<< a, b >>) = << b >>
  OBVIOUS
<1>3. Head(<< a >>) = a /\ Head(<< a, b >>) = a
  OBVIOUS
<1>4. SubSeq(<< a >>, 1, Len(<< a >>) - 1) = << >>
  OBVIOUS
<1>5. SubSeq(<< a, b >>, 1, Len(<< a, b >>) - 1) = << a >>
  <2> DEFINE q == SubSeq(<< a, b >>, 1, 1)
             S == {a, b}
  <2>1. << a, b >> \in Seq(S) /\ Len(<< a, b >>) = 2 /\ << a, b >>[1] = a /\ << a >> \in Seq(S)
    OBVIOUS
  <2>2. q \in Seq(S) /\ Len(q) = 1 /\ q[1] = a
    BY <2>1
  <2>3. \A i \in 1..Len(q) : q[i] = << a >>[i]
    BY <2>2
  <2>4. q = << a >>
    <3> HIDE DEF q, S
    <3>1. Len(<< a >>) = 1
      OBVIOUS
    <3> QED BY <2>1, <2>2, <2>3, <3>1, SeqEqual
  <2> QED
    BY <2>1, <2>4
<1>6. Append(<< >>, a) = << a >>
  OBVIOUS
<1>7. Append(<< a >>, b) = << a, b >>
  <2>1. << a >> \in Seq({a, b}) /\ Len(<< a >>) = 1 /\ << a >>[1] = a
    OBVIOUS
  <2>2. Append(<< a >>, b) \in Seq({a, b}) /\ Len(Append(<< a >>, b)) = 2
    BY <2>1
  <2>3. Append(<< a >>, b)[1] = a /\ Append(<< a >>, b)[2] = b
    BY <2>1
  <2> QED
    BY <2>2, <2>3, PairIs
<1>8. << a >> # << >> /\ << a, b >> # << >>
  OBVIOUS
<1> QED
  BY <1>1, <1>2, <1>3, <1>4, <1>5, <1>6, <1>7, <1>8

-----------------------------------------------------------------------------
(* What is in the packet, kept by every step.                              *)
Packet == Histories /\ Carried /\ Excused

LEMMA TakingPacket ==
  ASSUME DInv, Taking
  PROVE  Packet'
<1> USE BusAssumption DEF DInv
<1>1. Histories' /\ UNCHANGED <<took, passed, over, lost>>
  BY DEF Taking, Silent, history, Histories
<1>2. ASSUME BeginAny PROVE Carried' /\ Excused'
  <2>1. \E out, preamble, sees, mask : Begin(out, preamble, sees, mask)
    BY <1>2 DEF BeginAny
  <2> PICK out, preamble, sees, mask : Begin(out, preamble, sees, mask)
    BY <2>1
  <2>2. PICK inq : inq = pkt'.inq /\ pkt'.stream = Streamed(inq, sees)
                   /\ pkt'.sum = Streamed(inq, sees) /\ pkt'.at = "data"
    BY DEF Begin, NoPacket
  <2>3. pkt.at = "none" /\ UNCHANGED <<signalMaster, event, pc>>
    BY <1>2 DEF BeginAny, Begin, signalFlags, main
  <2>4. ~over' /\ lost' = {}
    BY <1>1, <2>3 DEF Carried, Excused, Histories
  <2> QED
    BY <2>2, <2>3, <2>4 DEF Carried, Excused, Streamed
<1>3. ASSUME NEW n \in Dests, NEW c \in Cmd, Accept(n, c) PROVE Carried' /\ Excused'
  <2>1. UNCHANGED <<pkt, signalMaster, event, pc>>
    BY <1>3 DEF Accept, node, signalFlags, main
  <2> QED
    BY <1>1, <2>1 DEF Carried, Excused, Replaced
<1>4. ASSUME NEW n \in Node, Main(n) PROVE Carried' /\ Excused'
  <2>1. /\ UNCHANGED <<event, signalMaster>>
        /\ \/ pkt' = pkt
           \/ /\ pc[n] = "fill" /\ pkt.at = "data" /\ n = pkt.inq /\ pkt.stream \in Event
              /\ pkt' = [pkt EXCEPT !.stream = "torn"]
    BY <1>4, MainOnly
  <2>2. \A m \in Node : Replaced(m) => Replaced(m)'
    BY <1>4, <2>1 DEF Main, SignalServed, Choose, Tear, SetLater, ClearTests, ClearLater, Goto,
                     AfterService, Replaced, IInv, TypeOK, NodeOK, node, main
  <2>3. CASE pkt' = pkt
    BY <1>1, <2>1, <2>2, <2>3 DEF Carried, Excused, IInv, TypeOK, NodeOK
  <2>4. CASE /\ pc[n] = "fill" /\ pkt.at = "data" /\ n = pkt.inq /\ pkt.stream \in Event
             /\ pkt' = [pkt EXCEPT !.stream = "torn"]
    <3>1. ~over
      BY <2>4 DEF Carried, Replaced
    <3>2. /\ pkt'.stream = "torn" /\ pkt'.at = "data"
          /\ pkt'.sum = pkt.sum /\ pkt.sum \in Event \cup {None}
      BY <2>4 DEF IInv, TypeOK, PacketOK
    <3>3. "torn" \notin Event \cup {None}
      BY DEF None
    <3> QED
      BY <1>1, <2>4, <3>1, <3>2, <3>3 DEF Carried, Excused
  <2> QED
    BY <2>1, <2>3, <2>4
<1> QED
  BY <1>1, <1>2, <1>3, <1>4 DEF Taking, Packet

LEMMA EndingPacket ==
  ASSUME DInv, NEW bad \in Disturbances, Ending(bad)
  PROVE  Packet'
<1> USE BusAssumption DEF DInv
<1>1. Histories'
  BY DEF Ending, Histories, Received, Unheard
<1>2. PICK heard : /\ heard = IF Received(bad) THEN pkt.sum ELSE None
                   /\ pkt'.at = "end" /\ pkt'.stream = heard /\ pkt'.sum = heard
                   /\ pkt'.inq = pkt.inq /\ pkt'.out = pkt.out
                   /\ "acked" \in pkt'.ok => \E n \in Dests : Acked(n, bad)
                   /\ pkt.at = "data"
  BY DEF Ending, End, IInv, TypeOK, PacketOK
<1>3. over' <=> heard # None /\ (over \/ Gone(pkt.inq, bad))
  BY <1>2 DEF Ending, Received
<1>4. Carried'
  <2>1. heard # None => pkt.inq \in signalMaster /\ pkt.stream = pkt.sum /\ heard = pkt.sum
    BY <1>2 DEF Carried, Received
  <2>2. heard # None /\ ~over' => pkt.inq \in Node /\ event'[pkt.inq] = heard
    <3>1. SUFFICES ASSUME heard # None, ~over'
                   PROVE  pkt.inq \in Node /\ event'[pkt.inq] = heard
      OBVIOUS
    <3>2. pkt.inq \in Node /\ event[pkt.inq] = heard
      BY <1>2, <1>3, <2>1, <3>1 DEF Carried, IInv, TypeOK, NodeOK
    <3> QED
      BY <1>3, <3>1, <3>2 DEF Ending, End
  <2> QED
    BY <1>2, <1>3, <2>2 DEF Carried
<1>5. Excused'
  <2> SUFFICES ASSUME NEW n \in Dests, n = pkt.out, "acked" \in pkt'.ok, ~took'[n]
               PROVE  lost' # {}
    BY <1>2 DEF Excused
  <2>1. Acked(n, bad) /\ ~Taken(n, bad)
    BY <1>2 DEF Ending, Acked
  <2>2. "sum" \in bad \/ n \in clearMasterInquiry
    BY <2>1 DEF Acked, Taken, Acknowledges
  <2>3. lost' = Unheard(bad)
    BY DEF Ending
  <2> QED
    BY <2>1, <2>2, <2>3 DEF Unheard
<1> QED
  BY <1>1, <1>4, <1>5 DEF Packet

LEMMA ConcludingPacket ==
  ASSUME DInv, Concluding
  PROVE  Packet'
BY DEF DInv, Concluding, Conclude, NoPacket, Packet, Histories, Carried, Excused

LEMMA RestartingPacket ==
  ASSUME DInv, Restarting
  PROVE  Packet'
BY DEF DInv, Restarting, Restart, NoPacket, Packet, Histories, Carried, Excused

LEMMA ResettingPacket ==
  ASSUME DInv, NEW n \in Node, Resetting(n)
  PROVE  Packet'
<1> USE BusAssumption DEF DInv
<1>1. Histories'
  BY DEF Resetting, Histories, InHand
<1>2. /\ signalMaster' = signalMaster \ {n}
      /\ \A m \in Node \ {n} : event'[m] = event[m] /\ pc'[m] = pc[m]
      /\ lost' = lost /\ took' = took
  BY DEF Resetting, Reset, Goto, IInv, TypeOK, NodeOK
<1>3. CASE n # pkt.inq
  <2>1. pkt' = pkt /\ over' = over
    BY <1>3 DEF Resetting, Reset
  <2> QED
    BY <1>1, <1>2, <1>3, <2>1 DEF Packet, Carried, Excused, Replaced, IInv, TypeOK, NodeOK
<1>4. CASE n = pkt.inq /\ pkt.at = "data"
  <2>1. ~over'
    BY <1>4 DEF Resetting
  <2>2. CASE pkt.stream = None
    BY <1>1, <1>2, <1>4, <2>1, <2>2 DEF Resetting, Reset, Packet, Carried, Excused
  <2>3. CASE pkt.stream # None
    <3>1. /\ pkt'.stream = "torn" /\ pkt'.at = "data"
          /\ pkt'.sum = pkt.sum /\ pkt.sum \in Event \cup {None}
      BY <1>4, <2>3 DEF Resetting, Reset, IInv, TypeOK, PacketOK
    <3>2. "torn" \notin Event \cup {None}
      BY DEF None
    <3> QED
      BY <1>1, <1>2, <1>4, <2>1, <3>1, <3>2 DEF Packet, Carried, Excused
  <2> QED
    BY <2>2, <2>3
<1>5. CASE n = pkt.inq /\ pkt.at # "data"
  <2>1. pkt' = pkt /\ (over' <=> pkt.at = "end" /\ InHand(n))
    BY <1>5 DEF Resetting, Reset
  <2> QED
    BY <1>1, <1>2, <1>5, <2>1 DEF Packet, Carried, Excused, InHand
<1> QED
  BY <1>3, <1>4, <1>5

LEMMA FinishingPacket ==
  ASSUME DInv, NEW n \in Node, NEW return \in Event, NEW trigger \in BOOLEAN,
         Finishing(n, return, trigger)
  PROVE  Packet'
<1> USE BusAssumption DEF DInv
<1>1. Histories'
  BY DEF Finishing, Histories, InHand
<1>2. /\ pc[n] = "fill" /\ ~Replaced(n)
      /\ event'[n] = IF trigger \/ event[n] # None THEN return ELSE event[n]
      /\ \A m \in Node \ {n} : event'[m] = event[m] /\ pc'[m] = pc[m]
      /\ pc'[n] \notin {"choose", "fill"}
      /\ signalMaster \subseteq signalMaster'
      /\ lost' = lost /\ took' = took
      /\ over' <=> over \/ (InHand(n) /\ event[n] # return)
  BY DEF Finishing, Finish, Goto, AfterService, Replaced, IInv, TypeOK, NodeOK
<1>3. return # None /\ return # "torn" /\ "torn" # None
  BY DEF None
<1>4. PICK late : /\ pkt' = [pkt EXCEPT !.stream = late]
                  /\ late # pkt.stream => Asked(n) /\ pkt.stream = "torn" /\ late = return
  BY DEF Finishing, Finish
<1>5. /\ pkt'.at = pkt.at /\ pkt'.inq = pkt.inq /\ pkt'.out = pkt.out
      /\ pkt'.sum = pkt.sum /\ pkt'.ok = pkt.ok /\ pkt'.stream = late
      /\ pkt.sum # "torn"
  BY <1>3, <1>4 DEF IInv, TypeOK, PacketOK
<1>6. Excused'
  BY <1>2, <1>5 DEF Excused
<1>7. CASE n # pkt.inq
  <2>1. late = pkt.stream /\ (over' <=> over)
    BY <1>2, <1>4, <1>7 DEF Asked, InHand
  <2>2. \A m \in Node \ {n} : Replaced(m) => Replaced(m)'
    BY <1>2 DEF Replaced
  <2>3. Carried'
    BY <1>2, <1>5, <1>7, <2>1, <2>2 DEF Carried, IInv, TypeOK, NodeOK
  <2> QED
    BY <1>1, <1>6, <2>3 DEF Packet
<1>8. CASE n = pkt.inq
  <2>1. CASE pkt.at = "data" /\ late = pkt.stream
    <3>1. ~over
      BY <1>2, <1>8, <2>1 DEF Carried
    <3>2. over' => InHand(n) /\ pkt.sum # None /\ pkt.stream = pkt.sum
      BY <1>2, <3>1 DEF InHand
    <3>3. ASSUME pkt.sum # None, pkt.stream = pkt.sum
          PROVE  /\ pkt.inq \in signalMaster' /\ event[n] = pkt.sum /\ event'[n] = return
                 /\ (over' <=> return # pkt.sum)
      BY <1>2, <1>8, <2>1, <3>1, <3>3 DEF Carried, InHand
    <3>4. Carried'
      BY <1>2, <1>3, <1>5, <1>8, <2>1, <3>2, <3>3 DEF Carried, Replaced
    <3> QED
      BY <1>1, <1>6, <3>4 DEF Packet
  <2>2. CASE pkt.at = "data" /\ late # pkt.stream
    <3>1. pkt.stream = "torn" /\ late = return /\ n \in signalMaster
      BY <1>4, <2>2 DEF Asked
    <3>2. ~over /\ ~over'
      BY <1>2, <1>5, <3>1 DEF Carried, InHand
    <3>3. event'[n] = return
      BY <1>2, <3>1 DEF IInv, TypeOK
    <3>4. Carried'
      BY <1>2, <1>5, <1>8, <2>2, <3>1, <3>2, <3>3 DEF Carried
    <3> QED
      BY <1>1, <1>6, <3>4 DEF Packet
  <2>3. CASE pkt.at = "end"
    <3>1. late = pkt.stream /\ pkt.stream = pkt.sum
      BY <1>4, <1>5, <2>3 DEF Carried
    <3>2. ASSUME pkt.sum # None, ~over' PROVE event'[n] = pkt.sum
      <4>1. InHand(n) /\ ~over /\ event[n] = pkt.sum
        BY <1>2, <1>8, <2>3, <3>1, <3>2 DEF Carried, InHand
      <4> QED
        BY <1>2, <3>2, <4>1
    <3>3. over' => pkt.sum # None
      BY <1>2 DEF Carried, InHand
    <3>4. Carried'
      BY <1>5, <1>8, <2>3, <3>1, <3>2, <3>3 DEF Carried
    <3> QED
      BY <1>1, <1>6, <3>4 DEF Packet
  <2>4. CASE pkt.at = "none"
    BY <1>8, <2>4 DEF IInv, UnderWay, NoPacket
  <2> QED
    BY <2>1, <2>2, <2>3, <2>4 DEF IInv, TypeOK, PacketOK
<1> QED
  BY <1>7, <1>8

-----------------------------------------------------------------------------
(* Commands: every step is a step of the channel of each node.             *)
LEMMA CommandsAccept ==
  ASSUME DInv, Silent, NEW n \in Dests, NEW m \in Dests, NEW c \in Cmd, Accept(m, c)
  PROVE  CommandChannel(n)!Step
<1>1. last'.taken[n] = None /\ took' = took
  BY DEF Silent, history, Delivers, NoCommands
<1>2. CASE n = m
  <2>1. row'[n] = Append(row[n], c)
    BY <1>2 DEF Accept, DInv, IInv, Rows
  <2> QED
    BY <1>1, <2>1 DEF CommandChannel!Step, CommandChannel!Next, CommandChannel!Submit
<1>3. CASE n # m
  <2>1. row'[n] = row[n]
    BY <1>3 DEF Accept, DInv, IInv, Rows
  <2> QED
    BY <1>1, <2>1, CommandsRest
<1> QED
  BY <1>2, <1>3

LEMMA CommandsEnding ==
  ASSUME DInv, NEW n \in Dests, NEW bad \in Disturbances, Ending(bad)
  PROVE  CommandChannel(n)!Step
<1>1. /\ row'[n] = row[n] /\ took'[n] = (took[n] \/ Taken(n, bad))
      /\ last'.taken[n] = IF Taken(n, bad) THEN Head(row[n]) ELSE None
  BY DEF Ending, End, daemon, Delivers
<1>2. CASE Taken(n, bad)
  <2>1. row[n] # << >>
    <3>1. n = pkt.out /\ n # 0 /\ pkt.at = "data"
      BY <1>2, BusAssumption DEF Taken, Ending, End
    <3> QED BY <3>1 DEF DInv, IInv, UnderWay
  <2> QED
    BY <1>1, <1>2, <2>1 DEF CommandChannel!Step, CommandChannel!Next, CommandChannel!Hear
<1>3. CASE ~Taken(n, bad)
  <2>1. took'[n] = took[n] /\ last'.taken[n] = None
    BY <1>1, <1>3 DEF DInv, Histories
  <2> QED
    BY <1>1, <2>1, CommandsRest
<1> QED
  BY <1>2, <1>3

(* A command that leaves its row was taken, in this packet or in one       *)
(* before; or it was acknowledged and has an excuse; or it is given up.    *)
LEMMA CommandsConcluding ==
  ASSUME DInv, NEW n \in Dests, Concluding
  PROVE  CommandChannel(n)!Step
<1>1. /\ row'[n] = IF Settled(n) THEN Tail(row[n]) ELSE row[n]
      /\ took'[n] = (took[n] /\ ~Settled(n))
      /\ last'.taken[n] = None /\ pkt.at = "end"
      /\ last'.cause = lost \cup IF \E m \in Dests : GivenUp(m) THEN {"gaveUp"} ELSE {}
  BY DEF Concluding, Conclude, Delivers, NoCommands
<1>2. CASE ~Settled(n)
  <2>1. row'[n] = row[n] /\ took'[n] = took[n]
    BY <1>1, <1>2 DEF DInv, Histories
  <2> QED
    BY <1>1, <2>1, CommandsRest
<1>3. CASE Settled(n)
  <2>1. row[n] # << >> /\ n = pkt.out
    BY <1>1, <1>3, BusAssumption DEF Settled, DInv, IInv, UnderWay
  <2>2. row'[n] = Tail(row[n]) /\ took'[n] = FALSE
    BY <1>1, <1>3
  <2>3. CASE took[n]
    BY <1>1, <2>1, <2>2, <2>3
       DEF CommandChannel!Step, CommandChannel!Next, CommandChannel!Leave
  <2>4. CASE ~took[n]
    <3>1. last'.cause \cap {"sum", "swallowed", "gaveUp", "restart"} # {}
      <4>1. CASE GivenUp(n)
        BY <1>1, <4>1
      <4>2. CASE ~GivenUp(n)
        <5>1. "acked" \in pkt.ok
          BY <1>3, <2>1, <4>2 DEF Settled, Failed
        <5>2. lost # {} /\ lost \subseteq {"sum", "swallowed"}
          BY <1>1, <2>1, <2>4, <5>1 DEF DInv, Excused, Histories
        <5> QED BY <1>1, <5>2
      <4> QED BY <4>1, <4>2
    <3> QED
      BY <1>1, <2>1, <2>2, <3>1
         DEF CommandChannel!Step, CommandChannel!Next, CommandChannel!LoseOldest
  <2> QED
    BY <2>3, <2>4
<1> QED
  BY <1>2, <1>3

LEMMA CommandsRestarting ==
  ASSUME DInv, NEW n \in Dests, Restarting
  PROVE  CommandChannel(n)!Step
<1>1. /\ row'[n] = << >> /\ took'[n] = FALSE
      /\ last'.taken[n] = None /\ last'.cause = {"restart"}
  BY DEF Restarting, Restart, Delivers, NoCommands
<1>2. CASE row[n] = << >>
  <2>1. took[n] = FALSE
    BY <1>2 DEF DInv, Told, Histories
  <2> QED
    BY <1>1, <1>2, <2>1, CommandsRest
<1>3. CASE row[n] # << >>
  <2>1. last'.cause \cap {"sum", "swallowed", "gaveUp", "restart"} # {}
    BY <1>1
  <2> QED
    BY <1>1, <1>3, <2>1 DEF CommandChannel!Step, CommandChannel!Next, CommandChannel!LoseOldest
<1> QED
  BY <1>2, <1>3

-----------------------------------------------------------------------------
(* Events: the steps of a channel, of queues of none, one or two.          *)
LEMMA EventsSubmit ==
  ASSUME NEW n \in Node, NEW e \in Event, Events(n)' = Append(Events(n), e),
         passed'[n] = passed[n], last'.heard[n] = None
  PROVE  EventChannel(n)!Step
BY DEF EventChannel!Step, EventChannel!Next, EventChannel!Submit

Excusable == last'.cause \cap {"eventSum", "overwritten", "reset", "restart"} # {}

LEMMA EventsLoseOldest ==
  ASSUME NEW n \in Node, Excusable, Events(n) # << >>,
         Events(n)' = Tail(Events(n)) \/ Events(n)' = << >>,
         passed'[n] = FALSE, last'.heard[n] = None
  PROVE  EventChannel(n)!Step
BY DEF EventChannel!Step, EventChannel!Next, EventChannel!LoseOldest, Excusable

(* Two wait, and the newer one is lost, or replaced.                       *)
LEMMA EventsLoseSecond ==
  ASSUME NEW n \in Node, Excusable, NEW a, NEW b, Events(n) = << a, b >>,
         \/ Events(n)' = << a >>
         \/ \E e \in Event : Events(n)' = << a, e >>,
         passed'[n] = passed[n], passed[n] \in BOOLEAN, last'.heard[n] = None
  PROVE  EventChannel(n)!Step
<1>1. SubSeq(Events(n), 1, Len(Events(n)) - 1) = << a >>
  BY ShortQueues
<1>2. \A e : Append(<< a >>, e) = << a, e >>
  BY ShortQueues
<1>3. Events(n) # << >> /\ << a >> # << >>
  BY ShortQueues
<1>4. \/ Events(n)' = EventChannel(n)!Older
      \/ \E e \in Event : Events(n)' = Append(EventChannel(n)!Older, e)
  BY <1>1, <1>2 DEF EventChannel!Older
<1>5. passed'[n] = (passed[n] /\ EventChannel(n)!Older # << >>)
  BY <1>1, <1>3 DEF EventChannel!Older
<1> QED
  BY <1>3, <1>4, <1>5
     DEF EventChannel!Step, EventChannel!Next, EventChannel!LoseNewest, Excusable

(* One waits, and is replaced.                                             *)
LEMMA EventsReplace ==
  ASSUME NEW n \in Node, Excusable, NEW a, NEW e \in Event, Events(n) = << a >>,
         Events(n)' = << e >>, passed'[n] = FALSE, last'.heard[n] = None
  PROVE  EventChannel(n)!Step
<1>1. SubSeq(Events(n), 1, Len(Events(n)) - 1) = << >>
  BY ShortQueues
<1>2. Append(<< >>, e) = << e >> /\ Events(n) # << >>
  BY ShortQueues
<1>3. /\ Events(n)' = Append(EventChannel(n)!Older, e)
      /\ passed'[n] = (passed[n] /\ EventChannel(n)!Older # << >>)
  BY <1>1, <1>2 DEF EventChannel!Older
<1> QED
  BY <1>2, <1>3
     DEF EventChannel!Step, EventChannel!Next, EventChannel!LoseNewest, Excusable

(* Who is not asked, nor changes its event, has the same queue.            *)
LEMMA EventsSame ==
  ASSUME NEW n \in Node, Over(n)' <=> Over(n), event'[n] = event[n],
         Over(n) => pkt'.sum = pkt.sum, passed'[n] = passed[n], last'.heard[n] = None
  PROVE  EventChannel(n)!Step
<1>1. Held(Over(n)', pkt'.sum, event'[n]) = Held(Over(n), pkt.sum, event[n])
  BY DEF Held
<1>2. Events(n)' = Events(n)
  BY <1>1, EventsAre
<1> QED
  BY <1>2, EventsRest

(* At its end a node takes down what it finds acknowledged: the event may  *)
(* be in the packet then, or was heard before, or one of its checksums is  *)
(* to blame; and what main has replaced is lost unless the daemon has it.  *)
LEMMA EventsEnding ==
  ASSUME DInv, NEW n \in Node, NEW bad \in Disturbances, Ending(bad)
  PROVE  EventChannel(n)!Step
<1> USE BusAssumption DEF DInv
<1>1. /\ event'[n] = IF Gone(n, bad) THEN None ELSE event[n]
      /\ passed'[n] = (passed[n] /\ (\/ InHand(n) /\ Received(bad)
                                     \/ ~Gone(n, bad) /\ ~Over(n)))
      /\ last'.heard[n] = None /\ last'.cause = Wasted(bad)
      /\ over' = (Received(bad) /\ pkt.sum # None /\ (over \/ Gone(pkt.inq, bad)))
      /\ pkt'.inq = pkt.inq /\ Over(n)' = (n = pkt.inq /\ over')
      /\ pkt'.sum = IF Received(bad) THEN pkt.sum ELSE None
      /\ pkt.at = "data"
  BY DEF Ending, End, Delivers, NoEvents, Over, IInv, TypeOK, PacketOK
<1>2. Gone(n, bad) => /\ n = pkt.inq /\ event[n] # None /\ pkt.stream = event[n]
                      /\ bad \cap {"event", "echo"} = {}
  BY DEF Gone, Cleared, Asked, Echoed, IInv, TypeOK
<1>3. passed[n] \in BOOLEAN
  BY DEF Histories
<1>4. CASE n # pkt.inq
  <2>1. ~Over(n)' /\ ~Over(n) /\ ~Gone(n, bad)
    BY <1>1, <1>2, <1>4 DEF Over
  <2> QED
    BY <1>1, <1>3, <2>1, EventsSame
<1>5. CASE n = pkt.inq /\ over
  <2>1. /\ Over(n) /\ pkt.sum # None /\ pkt.stream = pkt.sum
        /\ event[n] \notin {None, pkt.sum}
    BY <1>1, <1>5 DEF Carried, Over
  <2>2. ~Gone(n, bad)
    BY <1>2, <2>1
  <2>3. CASE Received(bad)
    <3>1. (Over(n)' <=> Over(n)) /\ pkt'.sum = pkt.sum /\ event'[n] = event[n]
      BY <1>1, <1>5, <2>1, <2>2, <2>3
    <3>2. passed'[n] = passed[n]
      BY <1>1, <1>3, <1>5, <2>1, <2>3 DEF InHand
    <3> QED
      BY <1>1, <3>1, <3>2, EventsSame
  <2>4. CASE ~Received(bad)
    <3>1. Events(n) = << pkt.sum, event[n] >>
      BY <2>1, EventsAre DEF Held
    <3>2. Events(n)' = << event[n] >>
      BY <1>1, <2>1, <2>2, <2>4, EventsAre DEF Held
    <3>3. Events(n)' = Tail(Events(n)) /\ Events(n) # << >>
      BY <3>1, <3>2, ShortQueues
    <3>4. passed'[n] = FALSE
      BY <1>1, <2>1, <2>4
    <3>5. Excusable
      BY <1>1, <1>5 DEF Excusable, Wasted
    <3> QED
      BY <1>1, <3>3, <3>4, <3>5, EventsLoseOldest
  <2> QED
    BY <2>3, <2>4
<1>6. CASE n = pkt.inq /\ ~over /\ ~Gone(n, bad)
  <2>1. ~Over(n) /\ ~Over(n)' /\ event'[n] = event[n] /\ passed'[n] = passed[n]
    BY <1>1, <1>3, <1>6 DEF Over
  <2> QED
    BY <1>1, <2>1, EventsSame
<1>7. CASE n = pkt.inq /\ ~over /\ Gone(n, bad)
  <2>1. ~Over(n) /\ event'[n] = None /\ event[n] # None /\ pkt.stream = event[n]
    BY <1>1, <1>2, <1>7 DEF Over
  <2>2. Events(n) = << event[n] >>
    BY <2>1, EventsAre DEF Held
  <2>3. CASE Received(bad)
    <3>1. pkt.sum = event[n]
      BY <2>1, <2>3 DEF Received
    <3>2. Over(n)' /\ pkt'.sum = event[n]
      BY <1>1, <1>7, <2>1, <2>3, <3>1
    <3>3. Events(n)' = Events(n)
      BY <2>1, <2>2, <3>2, EventsAre DEF Held
    <3>4. passed'[n] = passed[n]
      BY <1>1, <1>3, <1>7, <2>1, <2>3, <3>1 DEF InHand
    <3> QED
      BY <1>1, <3>3, <3>4, EventsRest
  <2>4. CASE ~Received(bad)
    <3>1. ~Over(n)' /\ passed'[n] = FALSE
      BY <1>1, <1>7, <2>4
    <3>2. Events(n)' = << >>
      BY <2>1, <3>1, EventsAre DEF Held
    <3>3. Excusable
      <4>1. pkt.inq # 0
        BY <1>7
      <4>2. pkt.stream # pkt.sum \/ "eventSum" \in bad
        BY <1>2, <1>7, <2>4, <4>1 DEF Received
      <4> QED
        BY <1>1, <1>7, <4>2 DEF Excusable, Wasted
    <3>4. Events(n) # << >>
      BY <2>2, ShortQueues
    <3> QED
      BY <1>1, <3>1, <3>2, <3>3, <3>4, EventsLoseOldest
  <2> QED
    BY <2>3, <2>4
<1> QED
  BY <1>4, <1>5, <1>6, <1>7

(* What the daemon received is passed on, whether it is still in outBuffer *)
(* or not.                                                                 *)
LEMMA EventsConcluding ==
  ASSUME DInv, NEW n \in Node, Concluding
  PROVE  EventChannel(n)!Step
<1> USE BusAssumption DEF DInv
<1>1. /\ event'[n] = event[n] /\ over' = FALSE /\ ~Over(n)'
      /\ passed'[n] = IF InHand(n) THEN ~over ELSE passed[n]
      /\ last'.heard[n] = IF InHand(n) THEN pkt.sum ELSE None
      /\ pkt.at = "end" /\ pkt.stream = pkt.sum
  BY DEF Concluding, Conclude, Delivers, Over, node, Carried
<1>2. CASE ~InHand(n)
  <2>1. ~Over(n)
    BY <1>1, <1>2 DEF Over, InHand, Carried
  <2> QED
    BY <1>1, <1>2, <2>1, EventsSame
<1>3. CASE InHand(n) /\ over
  <2>1. Over(n)
    BY <1>3 DEF Over, InHand
  <2>2. /\ Head(Events(n)) = pkt.sum /\ Events(n) # << >> /\ Events(n)' = Tail(Events(n))
    <3>1. CASE event[n] = None
      <4>1. Events(n) = << pkt.sum >> /\ Events(n)' = << >>
        BY <1>1, <2>1, <3>1, EventsAre DEF Held
      <4> QED BY <4>1, ShortQueues
    <3>2. CASE event[n] # None
      <4>1. Events(n) = << pkt.sum, event[n] >> /\ Events(n)' = << event[n] >>
        BY <1>1, <2>1, <3>2, EventsAre DEF Held
      <4> QED BY <4>1, ShortQueues
    <3> QED BY <3>1, <3>2
  <2> QED
    BY <1>1, <1>3, <2>2 DEF EventChannel!Step, EventChannel!Next, EventChannel!HearAndLeave
<1>4. CASE InHand(n) /\ ~over
  <2>1. ~Over(n) /\ event[n] = pkt.sum /\ event[n] # None
    BY <1>1, <1>4 DEF Over, InHand, Carried
  <2>2. Events(n) = << pkt.sum >> /\ Events(n)' = << pkt.sum >>
    BY <1>1, <2>1, EventsAre DEF Held
  <2>3. Head(Events(n)) = pkt.sum /\ Events(n) # << >>
    BY <2>2, ShortQueues
  <2>4. passed'[n] = TRUE /\ last'.heard[n] = pkt.sum
    BY <1>1, <1>4
  <2> QED
    BY <2>2, <2>3, <2>4 DEF EventChannel!Step, EventChannel!Next, EventChannel!Hear
<1> QED
  BY <1>2, <1>3, <1>4

LEMMA EventsRestarting ==
  ASSUME DInv, NEW n \in Node, Restarting
  PROVE  EventChannel(n)!Step
<1> USE DEF DInv
<1>1. /\ event'[n] = event[n] /\ ~Over(n)'
      /\ passed'[n] = (passed[n] /\ ~Over(n))
      /\ last'.heard[n] = None /\ last'.cause = {"restart"}
  BY DEF Restarting, Restart, Delivers, NoEvents, Over, signalFlags
<1>2. CASE ~Over(n)
  <2>1. passed'[n] = passed[n]
    BY <1>1, <1>2 DEF Histories
  <2> QED
    BY <1>1, <1>2, <2>1, EventsSame
<1>3. CASE Over(n)
  <2>1. Events(n) # << >> /\ Events(n)' = Tail(Events(n))
    <3>1. CASE event[n] = None
      <4>1. Events(n) = << pkt.sum >> /\ Events(n)' = << >>
        BY <1>1, <1>3, <3>1, EventsAre DEF Held
      <4> QED BY <4>1, ShortQueues
    <3>2. CASE event[n] # None
      <4>1. Events(n) = << pkt.sum, event[n] >> /\ Events(n)' = << event[n] >>
        BY <1>1, <1>3, <3>2, EventsAre DEF Held
      <4> QED BY <4>1, ShortQueues
    <3> QED BY <3>1, <3>2
  <2>2. Excusable /\ passed'[n] = FALSE
    BY <1>1, <1>3 DEF Excusable
  <2> QED
    BY <1>1, <2>1, <2>2, EventsLoseOldest
<1> QED
  BY <1>2, <1>3

LEMMA EventsResetting ==
  ASSUME DInv, NEW n \in Node, NEW m \in Node, Resetting(m)
  PROVE  EventChannel(n)!Step
<1> USE BusAssumption DEF DInv
<1>1. /\ pkt'.inq = pkt.inq /\ pkt'.sum = pkt.sum
      /\ Over(n)' <=> n = pkt.inq /\ over'
      /\ over' <=> IF m # pkt.inq THEN over ELSE pkt.at = "end" /\ InHand(m)
      /\ last'.heard[n] = None /\ last'.cause = {"reset"}
      /\ passed' = [passed EXCEPT ![m] = @ /\ pkt.at = "end" /\ InHand(m)]
      /\ event' = [event EXCEPT ![m] = None]
      /\ event \in [Node -> Event \cup {None}] /\ passed \in [Node -> BOOLEAN]
  <2>1. pkt'.inq = pkt.inq /\ pkt'.sum = pkt.sum
    BY DEF Resetting, Reset, IInv, TypeOK, PacketOK
  <2> QED
    BY <2>1 DEF Resetting, Reset, Delivers, NoEvents, Over, IInv, TypeOK, NodeOK, Histories
<1>2. Excusable
  BY <1>1 DEF Excusable
<1>3. CASE n # m
  <2>1. (Over(n)' <=> Over(n)) /\ event'[n] = event[n] /\ passed'[n] = passed[n]
    BY <1>1, <1>3 DEF Over
  <2> QED
    BY <1>1, <2>1, EventsSame
<1>4. CASE n = m
  <2>1. event'[n] = None /\ passed'[n] = (passed[n] /\ pkt.at = "end" /\ InHand(n))
    BY <1>1, <1>4
  <2>2. CASE pkt.at = "end" /\ InHand(n)
    <3>1. Over(n)' /\ passed'[n] = passed[n] /\ passed[n] \in BOOLEAN
      BY <1>1, <1>4, <2>1, <2>2 DEF InHand
    <3>2. Events(n)' = << pkt.sum >>
      BY <1>1, <2>1, <3>1, EventsAre DEF Held
    <3>3. CASE ~Over(n)
      <4>1. event[n] = pkt.sum /\ event[n] # None
        BY <2>2, <3>3 DEF Carried, InHand, Over
      <4>2. Events(n) = << pkt.sum >>
        BY <3>3, <4>1, EventsAre DEF Held
      <4> QED
        BY <1>1, <3>1, <3>2, <4>2, EventsRest
    <3>4. CASE Over(n) /\ event[n] = None
      <4>1. Events(n) = << pkt.sum >>
        BY <3>4, EventsAre DEF Held
      <4> QED
        BY <1>1, <3>1, <3>2, <4>1, EventsRest
    <3>5. CASE Over(n) /\ event[n] # None
      <4>1. Events(n) = << pkt.sum, event[n] >>
        BY <3>5, EventsAre DEF Held
      <4> QED
        BY <1>1, <1>2, <3>1, <3>2, <4>1, EventsLoseSecond
    <3> QED
      BY <3>3, <3>4, <3>5
  <2>3. CASE ~(pkt.at = "end" /\ InHand(n))
    <3>1. ~Over(n)' /\ passed'[n] = FALSE
      <4>1. CASE n = pkt.inq
        BY <1>1, <1>4, <2>1, <2>3, <4>1
      <4>2. CASE n # pkt.inq
        BY <1>1, <2>1, <2>3, <4>2
      <4> QED BY <4>1, <4>2
    <3>2. Events(n)' = << >>
      BY <2>1, <3>1, EventsAre DEF Held
    <3>3. CASE Events(n) = << >>
      <4>1. passed[n] = FALSE
        BY <3>3 DEF Told, Histories
      <4> QED
        BY <1>1, <3>1, <3>2, <3>3, <4>1, EventsRest
    <3>4. CASE Events(n) # << >>
      BY <1>1, <1>2, <3>1, <3>2, <3>4, EventsLoseOldest
    <3> QED
      BY <3>3, <3>4
  <2> QED
    BY <2>2, <2>3
<1> QED
  BY <1>3, <1>4

(* A return that is an event is handed over; one that comes while another  *)
(* is in outBuffer takes its place, and that one is lost unless the packet *)
(* has it whole.                                                           *)
LEMMA EventsFinishing ==
  ASSUME DInv, NEW n \in Node, NEW m \in Node, NEW return \in Event,
         NEW trigger \in BOOLEAN, Finishing(m, return, trigger)
  PROVE  EventChannel(n)!Step
<1> USE BusAssumption DEF DInv
<1>1. /\ pkt'.inq = pkt.inq /\ pkt'.sum = pkt.sum
      /\ Over(n)' <=> n = pkt.inq /\ over'
      /\ over' <=> over \/ (InHand(m) /\ event[m] # return)
      /\ last'.heard[n] = None
      /\ event[m] # None /\ event[m] # return => Excusable
      /\ event \in [Node -> Event \cup {None}] /\ passed \in [Node -> BOOLEAN]
      /\ event' = [event EXCEPT ![m] = IF trigger \/ @ # None THEN return ELSE @]
      /\ passed' = [passed EXCEPT ![m] =
                      @ /\ (InHand(m) \/ (m = pkt.inq /\ over) \/ event[m] = return)]
  <2>1. pkt'.inq = pkt.inq /\ pkt'.sum = pkt.sum
    BY DEF Finishing, Finish, IInv, TypeOK, PacketOK
  <2>2. event[m] # None /\ event[m] # return => Excusable
    BY DEF Finishing, Delivers, Excusable
  <2> QED
    BY <2>1, <2>2 DEF Finishing, Finish, Delivers, NoEvents, Over, IInv, TypeOK, NodeOK,
                      Histories
<1>2. CASE n # m
  <2>1. (Over(n)' <=> Over(n)) /\ event'[n] = event[n] /\ passed'[n] = passed[n]
    BY <1>1, <1>2 DEF Over, InHand
  <2> QED
    BY <1>1, <2>1, EventsSame
<1>3. CASE n = m
  <2>1. /\ event'[n] = IF trigger \/ event[n] # None THEN return ELSE event[n]
        /\ passed'[n] = (passed[n] /\ (InHand(n) \/ Over(n) \/ event[n] = return))
        /\ Over(n)' <=> Over(n) \/ (InHand(n) /\ event[n] # return)
        /\ passed[n] \in BOOLEAN /\ return # None
    BY <1>1, <1>3 DEF Over, InHand, None
  <2>2. InHand(n) /\ ~Over(n) => event[n] = pkt.sum /\ pkt.sum # None
    <3>1. n = pkt.inq => pkt.at # "none"
      BY DEF IInv, UnderWay, NoPacket
    <3> QED
      BY <3>1 DEF InHand, Over, Carried, IInv, TypeOK, PacketOK
  <2>3. CASE event[n] = None
    <3>1. ~(InHand(n) /\ ~Over(n)) /\ (Over(n)' <=> Over(n))
      BY <2>1, <2>2, <2>3
    <3>2. passed'[n] = passed[n]
      <4>1. CASE Over(n)
        BY <2>1, <4>1
      <4>2. CASE ~Over(n)
        <5>1. Events(n) = << >>
          BY <2>3, <4>2, EventsAre DEF Held
        <5> QED BY <2>1, <5>1 DEF Told
      <4> QED BY <4>1, <4>2
    <3>3. CASE ~trigger
      BY <1>1, <2>1, <2>3, <3>1, <3>2, <3>3, EventsSame
    <3>4. CASE trigger
      <4>1. Events(n)' = Append(Events(n), return)
        <5>1. CASE Over(n)
          <6>1. Events(n) = << pkt.sum >> /\ Events(n)' = << pkt.sum, return >>
            BY <1>1, <2>1, <2>3, <3>1, <3>4, <5>1, EventsAre DEF Held
          <6> QED BY <6>1, ShortQueues
        <5>2. CASE ~Over(n)
          <6>1. Events(n) = << >> /\ Events(n)' = << return >>
            BY <1>1, <2>1, <2>3, <3>1, <3>4, <5>2, EventsAre DEF Held
          <6> QED BY <6>1, ShortQueues
        <5> QED BY <5>1, <5>2
      <4> QED
        BY <1>1, <3>2, <4>1, EventsSubmit
    <3> QED
      BY <3>3, <3>4
  <2>4. CASE event[n] # None /\ event[n] = return
    <3>1. event'[n] = event[n] /\ passed'[n] = passed[n] /\ (Over(n)' <=> Over(n))
      BY <2>1, <2>4
    <3> QED
      BY <1>1, <3>1, EventsSame
  <2>5. CASE event[n] # None /\ event[n] # return
    <3>1. event'[n] = return /\ Excusable
      BY <1>1, <1>3, <2>1, <2>5
    <3>2. CASE Over(n)
      <4>1. Events(n) = << pkt.sum, event[n] >> /\ Events(n)' = << pkt.sum, return >>
        BY <1>1, <2>1, <2>5, <3>1, <3>2, EventsAre DEF Held
      <4>2. passed'[n] = passed[n]
        BY <2>1, <3>2
      <4> QED
        BY <1>1, <2>1, <3>1, <4>1, <4>2, EventsLoseSecond
    <3>3. CASE ~Over(n) /\ InHand(n)
      <4>1. Events(n) = << pkt.sum >> /\ Events(n)' = << pkt.sum, return >>
        BY <1>1, <2>1, <2>2, <2>5, <3>1, <3>3, EventsAre DEF Held
      <4>2. Events(n)' = Append(Events(n), return) /\ passed'[n] = passed[n]
        BY <2>1, <3>3, <4>1, ShortQueues
      <4> QED
        BY <1>1, <4>2, EventsSubmit
    <3>4. CASE ~Over(n) /\ ~InHand(n)
      <4>1. Events(n) = << event[n] >> /\ Events(n)' = << return >>
        BY <1>1, <2>1, <2>5, <3>1, <3>4, EventsAre DEF Held
      <4>2. passed'[n] = FALSE
        BY <2>1, <2>5, <3>4
      <4> QED
        BY <1>1, <3>1, <4>1, <4>2, EventsReplace
    <3> QED
      BY <3>2, <3>3, <3>4
  <2> QED
    BY <2>3, <2>4, <2>5
<1> QED
  BY <1>2, <1>3

LEMMA EventsTaking ==
  ASSUME DInv, NEW n \in Node, Taking
  PROVE  EventChannel(n)!Step
<1> USE DEF DInv
<1>1. last'.heard[n] = None /\ passed' = passed /\ over' = over
  BY DEF Taking, Silent, history, Delivers, NoEvents
<1>2. event' = event /\ (over => pkt'.inq = pkt.inq /\ pkt'.sum = pkt.sum)
  <2>1. CASE BeginAny
    <3>1. pkt.at = "none" /\ event' = event
      BY <2>1 DEF BeginAny, Begin
    <3> QED BY <3>1 DEF Carried
  <2>2. ASSUME NEW m \in Dests, NEW c \in Cmd, Accept(m, c)
        PROVE  event' = event /\ pkt' = pkt
    BY <2>2 DEF Accept, node
  <2>3. ASSUME NEW m \in Node, Main(m)
        PROVE  event' = event /\ pkt'.inq = pkt.inq /\ pkt'.sum = pkt.sum
    BY <2>3, MainOnly DEF IInv, TypeOK, PacketOK
  <2> QED
    BY <2>1, <2>2, <2>3 DEF Taking
<1> QED
  BY <1>1, <1>2, EventsSame DEF Over

LEMMA CommandsTaking ==
  ASSUME DInv, NEW n \in Dests, Taking
  PROVE  CommandChannel(n)!Step
<1>1. last'.taken[n] = None /\ took' = took /\ Silent
  BY DEF Taking, Silent, history, Delivers, NoCommands
<1>2. CASE BeginAny
  <2>1. row' = row
    BY <1>2 DEF BeginAny, Begin, daemon
  <2> QED BY <1>1, <2>1, CommandsRest
<1>3. ASSUME NEW m \in Dests, NEW c \in Cmd, Accept(m, c) PROVE CommandChannel(n)!Step
  BY <1>1, <1>3, CommandsAccept
<1>4. ASSUME NEW m \in Node, Main(m) PROVE CommandChannel(n)!Step
  <2>1. row' = row
    BY <1>4, MainOnly DEF daemon
  <2> QED BY <1>1, <2>1, CommandsRest
<1> QED
  BY <1>2, <1>3, <1>4 DEF Taking

-----------------------------------------------------------------------------
ChannelStep == /\ \A n \in Dests : CommandChannel(n)!Step
               /\ \A n \in Node : EventChannel(n)!Step

(* A step that concerns events only leaves the commands, and the other way *)
(* round.                                                                  *)
LEMMA CommandsUntouched ==
  ASSUME NEW n \in Dests, UNCHANGED <<row, took>>, last'.taken = NoCommands
  PROVE  CommandChannel(n)!Step
BY CommandsRest DEF NoCommands

LEMMA StepsAreChannelSteps ==
  ASSUME DInv, DeliveryNext
  PROVE  ChannelStep
<1>1. CASE Taking
  BY <1>1, CommandsTaking, EventsTaking DEF ChannelStep
<1>2. ASSUME NEW bad \in Disturbances, Ending(bad) PROVE ChannelStep
  BY <1>2, CommandsEnding, EventsEnding DEF ChannelStep
<1>3. CASE Concluding
  BY <1>3, CommandsConcluding, EventsConcluding DEF ChannelStep
<1>4. ASSUME NEW m \in Node, Resetting(m) PROVE ChannelStep
  <2>1. UNCHANGED <<row, took>> /\ last'.taken = NoCommands
    BY <1>4 DEF Resetting, Reset, daemon, Delivers
  <2> QED BY <1>4, <2>1, CommandsUntouched, EventsResetting DEF ChannelStep
<1>5. ASSUME NEW m \in Node, NEW e \in Event, NEW t \in BOOLEAN, Finishing(m, e, t)
      PROVE  ChannelStep
  <2>1. UNCHANGED <<row, took>> /\ last'.taken = NoCommands
    BY <1>5 DEF Finishing, Finish, daemon, Delivers
  <2> QED BY <1>5, <2>1, CommandsUntouched, EventsFinishing DEF ChannelStep
<1>6. CASE Restarting
  BY <1>6, CommandsRestarting, EventsRestarting DEF ChannelStep
<1> QED
  BY <1>1, <1>2, <1>3, <1>4, <1>5, <1>6 DEF DeliveryNext

LEMMA AppendedOlder ==
  ASSUME NEW S, NEW q \in Seq(S), NEW m \in S
  PROVE  Append(SubSeq(q, 1, Len(q) - 1), m) # << >>
<1>1. SubSeq(q, 1, Len(q) - 1) \in Seq(S)
  BY LenProperties, SubSeqProperties
<1> QED
  BY <1>1, AppendProperties

(* Only of a message that is there a channel says that it was heard.       *)
LEMMA CommandsTold ==
  ASSUME NEW n \in Dests, CommandChannel(n)!Step, took[n] => row[n] # << >>,
         row[n] \in Seq(Cmd), took'[n] \in BOOLEAN
  PROVE  took'[n] => row'[n] # << >>
<1>1. \A m \in Cmd : Append(row[n], m) # << >>
  BY AppendProperties
<1>2. \A m \in Cmd : Append(CommandChannel(n)!Older, m) # << >>
  BY AppendedOlder DEF CommandChannel!Older
<1> QED
  BY <1>1, <1>2 DEF CommandChannel!Step, CommandChannel!Next, CommandChannel!Submit,
     CommandChannel!Hear, CommandChannel!HearAndLeave, CommandChannel!Leave,
     CommandChannel!LoseOldest, CommandChannel!LoseNewest, CommandChannel!Rest

LEMMA EventsTold ==
  ASSUME NEW n \in Node, EventChannel(n)!Step, passed[n] => Events(n) # << >>,
         Events(n) \in Seq(Event), passed'[n] \in BOOLEAN
  PROVE  passed'[n] => Events(n)' # << >>
<1>1. \A m \in Event : Append(Events(n), m) # << >>
  BY AppendProperties
<1>2. \A m \in Event : Append(EventChannel(n)!Older, m) # << >>
  BY AppendedOlder DEF EventChannel!Older
<1> QED
  BY <1>1, <1>2 DEF EventChannel!Step, EventChannel!Next, EventChannel!Submit,
     EventChannel!Hear, EventChannel!HearAndLeave, EventChannel!Leave,
     EventChannel!LoseOldest, EventChannel!LoseNewest, EventChannel!Rest

LEMMA DeliveryKeeps ==
  ASSUME DInv, DeliveryNext
  PROVE  DInv'
<1>1. IInv'
  BY DeliverySteps, NextKeeps DEF DInv
<1>2. Packet'
  BY TakingPacket, EndingPacket, ConcludingPacket, RestartingPacket, ResettingPacket,
     FinishingPacket DEF DeliveryNext
<1>3. ChannelStep
  BY StepsAreChannelSteps
<1>4. \A n \in Node : Events(n) \in Seq(Event)
  <2> SUFFICES ASSUME NEW n \in Node PROVE Events(n) \in Seq(Event)
    OBVIOUS
  <2>1. event[n] \in Event \cup {None}
    BY DEF DInv, IInv, TypeOK, NodeOK
  <2>2. Over(n) => pkt.sum \in Event
    BY DEF DInv, IInv, TypeOK, PacketOK, Carried, Over
  <2>3. Held(Over(n), pkt.sum, event[n]) \in Seq(Event)
    BY <2>1, <2>2 DEF Held
  <2> QED BY <2>3, EventsAre
<1>5. Told'
  <2>1. \A n \in Dests : took'[n] => row'[n] # << >>
    BY <1>2, <1>3, CommandsTold DEF ChannelStep, DInv, Told, IInv, Rows, Packet, Histories
  <2>2. \A n \in Node : passed'[n] => Events(n)' # << >>
    BY <1>2, <1>3, <1>4, EventsTold DEF ChannelStep, DInv, Told, Packet, Histories
  <2> QED BY <2>1, <2>2 DEF Told
<1> QED
  BY <1>1, <1>2, <1>5 DEF DInv, Packet

LEMMA DeliveryStutters ==
  ASSUME DInv, UNCHANGED <<vars, history, last>>
  PROVE  DInv'
<1>1. IInv'
  BY StutterKeeps DEF DInv
<1>2. UNCHANGED <<row, pkt, signalMaster, pc, event, took, passed, over, lost>>
  BY DEF vars, history, daemon, node, signalFlags, main
<1>3. \A n \in Node : Events(n)' = Events(n)
  BY <1>2 DEF Events
<1> QED
  BY <1>1, <1>2, <1>3 DEF DInv, Histories, Carried, Excused, Told, Replaced

LEMMA DeliveryInvariance == DeliverySpec => []DInv
<1>1. DInv /\ [DeliveryNext]_<<vars, history, last>> => DInv'
  BY DeliveryKeeps, DeliveryStutters
<1> QED
  BY DeliveryInits, <1>1, PTL DEF DeliverySpec

LEMMA ChannelInits ==
  ASSUME DeliveryInit
  PROVE  /\ \A n \in Dests : CommandChannel(n)!Init
         /\ \A n \in Node : EventChannel(n)!Init
<1>1. ASSUME NEW n \in Dests PROVE CommandChannel(n)!Init
  BY DEF DeliveryInit, Init, CommandChannel!Init, Delivers, NoCommands
<1>2. ASSUME NEW n \in Node PROVE EventChannel(n)!Init
  <2>1. ~Over(n) /\ event[n] = None /\ passed[n] = FALSE /\ last.heard[n] = None
    BY DEF DeliveryInit, Init, Over, Delivers, NoEvents
  <2>2. Events(n) = << >>
    BY <2>1, EventsAre DEF Held
  <2> QED
    BY <2>1, <2>2 DEF EventChannel!Init
<1> QED
  BY <1>1, <1>2

(* Commands and events implement a channel each: in order, repeated at     *)
(* worst, and lost only with one of the excuses ChannelSpec names, for any *)
(* number of disturbances, resets and restarts, and wherever main stands   *)
(* when a packet ends (daemon.c:190, :199, node.c:266, :280, :291, :344,   *)
(* :480).                                                                  *)
THEOREM ChannelsAreImplemented == DeliverySpec => ChannelSpec
<1>1. DeliveryInit => /\ \A n \in Dests : CommandChannel(n)!Init
                      /\ \A n \in Node : EventChannel(n)!Init
  BY ChannelInits
<1>2. DInv /\ [DeliveryNext]_<<vars, history, last>>
        => [/\ \A n \in Dests : CommandChannel(n)!Step
            /\ \A n \in Node : EventChannel(n)!Step]_<<vars, history, last>>
  BY StepsAreChannelSteps DEF ChannelStep
<1> QED
  BY <1>1, <1>2, DeliveryInvariance, PTL DEF DeliverySpec, ChannelSpec
=============================================================================

------------------------------- MODULE Daemon -------------------------------
(***************************************************************************)
(* The Raspberry Pi daemon (daemon/src/daemon.c): one thread that moves    *)
(* commands from a UDP socket to the nodes of an SPI bus, with retries and *)
(* bounded queues, and that collects the nodes' events (SNCC messages) in  *)
(* the return direction of the same packets.                               *)
(*                                                                         *)
(* The other ends are parameters of the actions: the datagram recvfrom     *)
(* returns, the level of the latch line, the preamble byte, checksums and  *)
(* signal mask a packet brings back.                                       *)
(***************************************************************************)
EXTENDS Integers, Sequences, FiniteSets

CONSTANTS MaxNodes,      \* MCOM_MAX_NODES
          QueueLen,      \* MCOM_NODE_QUEUE_LEN
          PoolSize,      \* buffers initOutQueuePool allocates (20)
          MaxErrors,     \* MAX_TRANSFER_ERRORS_MESSAGE
          Cmd,           \* payloads of commands
          Dests,         \* destinations that datagrams carry; the negative ones,
                         \* which line 257 lets through as well, are left out
          Masks,         \* sets of nodes a packet's signal mask can name
          Preambles,     \* values of the first byte returned, notify bit off
          SnccLossy,     \* may the checksum of an event come back wrong?
          ShiftStride    \* what the compiler makes of *q++ = *(q+1): the
                         \* right side reads the old q (1) or the new one (2)

ASSUME SizesAssumption ==
  /\ MaxNodes \in Nat \ {0} /\ QueueLen \in Nat \ {0}
  /\ PoolSize \in Nat \ {0} /\ MaxErrors \in Nat \ {0}

ASSUME WireAssumption ==
  /\ Cmd # {} /\ Dests \subseteq 0..MaxNodes
  /\ \A mask \in Masks : mask \subseteq 0..(MaxNodes - 1)
  /\ Preambles \subseteq Nat
  /\ SnccLossy \in BOOLEAN
  /\ ShiftStride \in {1, 2}

Null   == 0
Buffer == 1..PoolSize
Node   == 0..(MaxNodes - 1)
Slot   == 0..(QueueLen - 1)
(* Row MaxNodes is the memory that follows the table: insertNewCmds        *)
(* reaches it (l. 256), and so does the shift of the last row when it      *)
(* reads one pointer too far (l. 220).                                     *)
Row    == 0..MaxNodes

CmdStatus  == {"new", "queued", "transferred", "dropped"}
SnccStatus == {"none", "queued", "signal"}

VARIABLES
  outQueues,         \* outQueues[n][k]: buffer in slot k of row n, or Null
  pool,              \* outQueuePool, a FIFO of free buffers
  msg,               \* the struct message behind each buffer
  inStatus,          \* inQueues[n].status
  lastNodeServiced,
  num,               \* numSNCCRequests
  pc,                \* where main, or sendMessage, is
  i,                 \* main's loop variable: the row being serviced
  seen,              \* this pass met a row with a command (allMsgProcessed=0)
  errors,            \* transferErrorsPresent # 0
  onlyErrors,        \* onlyTransferErrors
  sending,           \* sendMessage's outQueue argument
  inq                \* sendMessage's inQueue: node inquired, or -1

queueVars == <<outQueues, pool>>
snccVars  == <<inStatus, lastNodeServiced, num>>
passVars  == <<i, seen, errors, onlyErrors>>
vars == <<queueVars, msg, snccVars, passVars, pc, sending, inq>>

NoNode == -1

Head0(r) == outQueues[r][0]

FreeSlots(r) == {k \in Slot : outQueues[r][k] = Null}

Pending(status) == {n \in Node : status[n] = "signal"}

LeastOf(S) == CHOOSE x \in S : \A y \in S : x <= y
GreatestOf(S) == CHOOSE x \in S : \A y \in S : x >= y

-----------------------------------------------------------------------------
Init ==
  /\ outQueues = [r \in Row |-> [k \in Slot |-> Null]]
  /\ pool = [b \in Buffer |-> b]
  /\ msg = [b \in Buffer |-> [status |-> "new", transferError |-> 0,
                              destination |-> 0, cmd |-> CHOOSE c \in Cmd : TRUE,
                              waiting |-> FALSE]]
  /\ inStatus = [n \in Node |-> "none"]
  /\ lastNodeServiced = 0
  /\ num = 0
  /\ pc = "idle"
  /\ i = 0 /\ seen = FALSE /\ errors = FALSE /\ onlyErrors = TRUE
  /\ sending = Null /\ inq = NoNode

(* for(i=0;...) with the pass's flags reset *)
StartPass ==
  /\ pc' = "scan"
  /\ i' = 0 /\ seen' = FALSE /\ errors' = FALSE /\ onlyErrors' = TRUE

(* insertNewCmds: the datagram takes the first free slot of its row and a  *)
(* buffer of the pool.  A datagram that finds neither has been read from   *)
(* the socket and is gone.                                                 *)
CanInsert(d) == FreeSlots(d) # {} /\ pool # <<>>

FreeSlot_Last(d) == GreatestOf(FreeSlots(d))

FreeSlot(d) == LeastOf(FreeSlots(d))

InsertNewCmds_KeepsErrors(d, c) ==
  /\ CanInsert(d)
  /\ outQueues' = [outQueues EXCEPT ![d][FreeSlot(d)] = Head(pool)]
  /\ pool' = Tail(pool)
  /\ msg' = [msg EXCEPT ![Head(pool)] =
                [status |-> "new", transferError |-> @.transferError,
                 destination |-> d, cmd |-> c, waiting |-> @.waiting]]

InsertNewCmds(d, c) ==
  /\ CanInsert(d)
  /\ outQueues' = [outQueues EXCEPT ![d][FreeSlot(d)] = Head(pool)]
  /\ pool' = Tail(pool)
  /\ msg' = [msg EXCEPT ![Head(pool)] =
                [status |-> "new", transferError |-> 0, destination |-> d,
                 cmd |-> c, waiting |-> @.waiting]]

(* main's inner while: a command ends it ...                               *)
IdleInsert(d, c) ==
  /\ pc = "idle"
  /\ InsertNewCmds(d, c)
  /\ StartPass
  /\ UNCHANGED <<snccVars, sending, inq>>

(* ... and without one (no datagram, or one that is lost) a node that      *)
(* pulls the latch low, or a signal not yet serviced, makes it send a      *)
(* packet without command.                                                 *)
IdleSend(latchLow) ==
  /\ pc = "idle"
  /\ latchLow \/ num # 0
  /\ pc' = "header"
  /\ UNCHANGED <<queueVars, msg, snccVars, passVars, sending, inq>>

(* One row of a pass whose row is empty, may be tried, or still waits.     *)
NextRow == /\ i' = i + 1
           /\ pc' = IF i + 1 = MaxNodes THEN "endpass" ELSE "scan"

CanRetry(b) == msg[b].transferError = 0 \/ ~msg[b].waiting

ScanEmpty ==
  /\ pc = "scan"
  /\ Head0(i) = Null
  /\ NextRow
  /\ UNCHANGED <<queueVars, msg, snccVars, seen, errors, onlyErrors, sending, inq>>

ScanSend ==
  /\ pc = "scan"
  /\ Head0(i) # Null
  /\ CanRetry(Head0(i))
  /\ sending' = Head0(i)
  /\ pc' = "header"
  /\ UNCHANGED <<queueVars, msg, snccVars, passVars, inq>>

ScanWait ==
  /\ pc = "scan"
  /\ Head0(i) # Null
  /\ ~CanRetry(Head0(i))
  /\ pc' = "settle"
  /\ UNCHANGED <<queueVars, msg, snccVars, passVars, sending, inq>>

-----------------------------------------------------------------------------
(* preProcessSNCCmessage: the node this packet inquires.  With signals     *)
(* pending the loop of l. 291-298 runs once round the ring from the node   *)
(* after lastNodeServiced and keeps the LAST match.  With none pending,    *)
(* a preamble byte that is a node id names the node.                       *)
Ring == {p \in (lastNodeServiced + 1)..(lastNodeServiced + MaxNodes) :
                                    inStatus[p % MaxNodes] = "signal"}

Inquired_LowestFirst(preamble) ==
  IF num # 0 THEN LeastOf(Pending(inStatus))
  ELSE IF preamble \in Node \ {0} THEN preamble ELSE NoNode

Inquired(preamble) ==
  IF num # 0
  THEN IF Ring # {} THEN GreatestOf(Ring) % MaxNodes ELSE NoNode
  ELSE IF preamble \in Node \ {0} THEN preamble ELSE NoNode

(* sendMessage up to the payload *)
Header(preamble) ==
  /\ pc = "header"
  /\ inq' = Inquired(preamble)
  /\ inStatus' = [n \in Node |-> IF n = inq' THEN "queued" ELSE inStatus[n]]
  /\ msg' = IF sending = Null THEN msg
            ELSE [msg EXCEPT ![sending].status = "queued"]
  /\ pc' = "check"
  /\ UNCHANGED <<queueVars, lastNodeServiced, num, passVars, sending>>

PostProcess_MaskReplacesList(snccOk, mask) ==
  LET serviced == inq # NoNode /\ snccOk
  IN  /\ inStatus' = [n \in Node |->
                        IF n \in mask \ {inq} THEN "signal"
                        ELSE IF n = inq /\ ~serviced THEN inStatus[n]
                        ELSE "none"]
      /\ lastNodeServiced' = IF serviced THEN inq ELSE lastNodeServiced
      /\ num' = Cardinality(Pending(inStatus'))

PostProcess_CountsFirst(snccOk, mask) ==
  LET serviced == inq # NoNode /\ snccOk
  IN  /\ inStatus' = [n \in Node |->
                        IF n \in mask \ {inq} THEN "signal"
                        ELSE IF n = inq /\ serviced THEN "none"
                        ELSE inStatus[n]]
      /\ lastNodeServiced' = IF serviced THEN inq ELSE lastNodeServiced
      /\ num' = Cardinality(Pending(inStatus))

(* postProcessSNCCmessage: a node the mask names is pending, unless this   *)
(* packet inquired it ("can't (already) request another one", l. 343).     *)
PostProcess(snccOk, mask) ==
  LET serviced == inq # NoNode /\ snccOk
  IN  /\ inStatus' = [n \in Node |->
                        IF n \in mask \ {inq} THEN "signal"
                        ELSE IF n = inq /\ serviced THEN "none"
                        ELSE inStatus[n]]
      /\ lastNodeServiced' = IF serviced THEN inq ELSE lastNodeServiced
      /\ num' = Cardinality(Pending(inStatus'))

Failed_NotCounted(m) == [m EXCEPT !.waiting = TRUE]

(* transferError++ and setRetryDelay *)
Failed(m) == [m EXCEPT !.transferError = @ + 1, !.waiting = TRUE]

(* the rest of sendMessage: cmdOk and snccOk say whether the checksum that *)
(* came back is the one of the command sent, of the event received         *)
Check(cmdOk, snccOk, mask) ==
  /\ pc = "check"
  /\ msg' = IF sending = Null THEN msg
            ELSE IF cmdOk THEN [msg EXCEPT ![sending].status = "transferred"]
            ELSE [msg EXCEPT ![sending] = Failed(@)]
  /\ PostProcess(snccOk, mask)
  /\ pc' = IF sending = Null THEN "idle" ELSE "settle"
  /\ sending' = Null
  /\ inq' = NoNode
  /\ UNCHANGED <<queueVars, passVars>>

(* setRetryDelay's 50 ms are over *)
DelayElapsed(b) ==
  /\ msg[b].waiting
  /\ msg' = [msg EXCEPT ![b].waiting = FALSE]
  /\ UNCHANGED <<queueVars, snccVars, passVars, pc, sending, inq>>

-----------------------------------------------------------------------------
(* processNodeQueue on row r, at its head.  The shift reads slot k + 1 for *)
(* slot k when the compiler increments q last.  When it increments first   *)
(* it reads slot k + 2, which for the last but one slot is the first slot  *)
(* of the next row.                                                        *)
ShiftSource(r, k) ==
  IF k = QueueLen - 1 THEN Null
  ELSE IF k + ShiftStride < QueueLen THEN outQueues[r][k + ShiftStride]
  ELSE outQueues[r + 1][0]

ProcessNodeQueue_Leaks(r) ==
  /\ outQueues' = [outQueues EXCEPT ![r] = [k \in Slot |-> ShiftSource(r, k)]]
  /\ UNCHANGED pool

ProcessNodeQueue(r) ==
  /\ pool' = Append(pool, Head0(r))
  /\ outQueues' = [outQueues EXCEPT ![r] = [k \in Slot |-> ShiftSource(r, k)]]

Exhausted_OneEarly(b) == msg[b].transferError >= MaxErrors - 1

Exhausted_OneLate(b) == msg[b].transferError > MaxErrors

(* dropMessageOnExcessiveErrors' condition *)
Exhausted(b) == msg[b].transferError >= MaxErrors

(* main after sendMessage (l. 407-418), with dropMessageOnExcessiveErrors  *)
Settle ==
  LET b == Head0(i)
      gone == msg[b].status = "transferred"
      dropped == ~gone /\ Exhausted(b)
  IN  /\ pc = "settle"
      /\ IF gone \/ dropped THEN ProcessNodeQueue(i) ELSE UNCHANGED queueVars
      /\ msg' = IF dropped THEN [msg EXCEPT ![b].status = "dropped"] ELSE msg
      /\ onlyErrors' = (onlyErrors /\ ~gone)
      /\ errors' = (errors \/ (~gone /\ msg[b].transferError # 0))
      /\ seen' = TRUE
      /\ NextRow
      /\ UNCHANGED <<snccVars, sending, inq>>

(* The end of a pass: a pass that only met errors reads the socket once,   *)
(* and a pass that met no command goes back to the inner while.            *)
AfterPass_NeverIdle == StartPass

AfterPass == IF seen THEN StartPass ELSE pc' = "idle" /\ UNCHANGED passVars

EndPass ==
  /\ pc = "endpass"
  /\ AfterPass
  /\ UNCHANGED <<queueVars, msg, snccVars, sending, inq>>

EndPassInsert(d, c) ==
  /\ pc = "endpass"
  /\ errors /\ onlyErrors
  /\ InsertNewCmds(d, c)
  /\ AfterPass
  /\ UNCHANGED <<snccVars, sending, inq>>

-----------------------------------------------------------------------------
(* insertNewCmds lets any destination <= MCOM_MAX_NODES through.           *)
Insert == \E d \in Dests, c \in Cmd : IdleInsert(d, c) \/ EndPassInsert(d, c)

Send == \/ IdleSend(FALSE)
        \/ \E preamble \in Preambles : Header(preamble)
        \/ \E cmdOk, snccOk \in BOOLEAN, mask \in Masks :
             /\ snccOk \/ SnccLossy
             /\ Check(cmdOk, snccOk, mask)

Pass == ScanEmpty \/ ScanSend \/ ScanWait \/ Settle \/ EndPass

Next == Insert \/ IdleSend(TRUE) \/ Send \/ Pass \/ \E b \in Buffer : DelayElapsed(b)

Spec == Init /\ [][Next]_vars

(* The daemon's only thread keeps running, a transfer it started as bus    *)
(* master always completes, and time passes.  Nothing is assumed of the    *)
(* socket, of the latch line or of what packets bring back.                *)
Fairness ==
  /\ WF_vars(Send) /\ WF_vars(Pass)
  /\ \A b \in Buffer : WF_vars(DelayElapsed(b))

FairSpec == Spec /\ Fairness

-----------------------------------------------------------------------------
(* Properties *)

TypeOK ==
  /\ outQueues \in [Row -> [Slot -> Buffer \cup {Null}]]
  /\ pool \in Seq(Buffer)
  /\ msg \in [Buffer -> [status : CmdStatus, transferError : 0..MaxErrors,
                         destination : Row, cmd : Cmd, waiting : BOOLEAN]]
  /\ inStatus \in [Node -> SnccStatus]
  /\ lastNodeServiced \in Node
  /\ num \in 0..MaxNodes
  /\ pc \in {"idle", "scan", "header", "check", "settle", "endpass"}
  /\ i \in Row
  /\ seen \in BOOLEAN /\ errors \in BOOLEAN /\ onlyErrors \in BOOLEAN
  /\ sending \in Buffer \cup {Null}
  /\ inq \in Node \cup {NoNode}

(* Every buffer is in exactly one place, the pool or one slot: none leaks  *)
(* (twenty leaks and the daemon refuses every command) and none is in two  *)
(* rows.  What insertNewCmds takes, processNodeQueue gives back.           *)
PoolDistinct == \A j, k \in 1..Len(pool) : pool[j] = pool[k] => j = k

SlotsDistinct ==
  \A r1, r2 \in Row, k1, k2 \in Slot :
    outQueues[r1][k1] # Null /\ outQueues[r1][k1] = outQueues[r2][k2]
       => r1 = r2 /\ k1 = k2

SlotsNotFree ==
  \A r \in Row, k \in Slot, j \in 1..Len(pool) : outQueues[r][k] # pool[j]

NoneLost ==
  \A b \in Buffer : \/ \E j \in 1..Len(pool) : pool[j] = b
                    \/ \E r \in Row, k \in Slot : outQueues[r][k] = b

BuffersConserved == PoolDistinct /\ SlotsDistinct /\ SlotsNotFree /\ NoneLost

(* A row is filled from its head without holes: main only looks at the     *)
(* head, so a command behind a hole would never be sent.                   *)
RowsContiguous ==
  \A r \in Row, k \in Slot \ {0} :
    outQueues[r][k] # Null => outQueues[r][k - 1] # Null

(* A command is in the row of its destination, and only the head of a row  *)
(* has been tried: a retry never lets a later command overtake.            *)
OnlyHeadTried ==
  \A r \in Row, k \in Slot :
    LET b == outQueues[r][k]
    IN  b # Null => /\ msg[b].destination = r
                    /\ k # 0 => msg[b].status = "new" /\ msg[b].transferError = 0

(* A head that was delivered, or failed MaxErrors times, is only seen      *)
(* between the packet and the bookkeeping for its row: no delivered        *)
(* command is sent twice.                                                  *)
Settled ==
  \A r \in Row :
    LET b == outQueues[r][0]
    IN  b # Null /\ ~(pc = "settle" /\ r = i)
          => msg[b].status \in {"new", "queued"} /\ msg[b].transferError < MaxErrors

(* Where main and sendMessage are decides what i and sending mean.         *)
Control ==
  /\ pc \in {"scan", "settle"} => i \in Node
  /\ sending # Null => /\ pc \in {"header", "check"}
                       /\ i \in Node
                       /\ sending = outQueues[i][0]
  /\ pc = "settle" => /\ outQueues[i][0] # Null
                      /\ msg[outQueues[i][0]].status # "dropped"

(* The inductive invariant *)
IInv == /\ TypeOK /\ BuffersConserved /\ RowsContiguous
        /\ OnlyHeadTried /\ Settled /\ Control

(* The count that keeps main sending packets equals the signals pending,   *)
(* except while the node just chosen is being asked.                       *)
SignalsCounted == pc # "check" => num = Cardinality(Pending(inStatus))

(* A node being inquired is marked so; with the count this is inductive.   *)
SnccInv ==
  /\ inStatus \in [Node -> SnccStatus] /\ lastNodeServiced \in Node
  /\ inq \in Node => pc = "check" /\ inStatus[inq] = "queued"
  /\ inq \in Node \cup {NoNode}
  /\ SignalsCounted

(* A pending signal ends only by that node being inquired.                 *)
SignalKept ==
  [][\A n \in Node : inStatus[n] = "signal" /\ inStatus'[n] # "signal"
                        => inq' = n]_vars

(* A node that signals is inquired, however busy the others are            *)
(* (daemon.c:289 "do not favor a particular node").                        *)
EverySignalAsked == \A n \in Node : inStatus[n] = "signal" ~> inq = n

(* Commands never keep the daemon from its socket: it is back at a         *)
(* recvfrom again and again.                                               *)
SocketServed == []<>(pc = "idle" \/ (pc = "endpass" /\ errors /\ onlyErrors))

(* Only rows of the table hold commands (README "Available IDs range from  *)
(* 1 to 31", daemon.c:37 "ten buffer pointers per device").                *)
TableRowsOnly == \A r \in Row \ Node, k \in Slot : outQueues[r][k] = Null

(* The rows implement the FIFO with bounded retries that Outbox states.    *)
Commands(r) ==
  [k \in 1..(QueueLen - Cardinality(FreeSlots(r))) |-> msg[outQueues[r][k - 1]].cmd]

Outbox == INSTANCE Outbox WITH
  Node  <- Row,
  queue <- [r \in Row |-> Commands(r)],
  tries <- [r \in Row |-> IF Head0(r) = Null THEN 0
                          ELSE msg[Head0(r)].transferError],
  acked <- [r \in Row |-> Head0(r) # Null /\ msg[Head0(r)].status = "transferred"]

OutboxSpec == Outbox!Spec

=============================================================================

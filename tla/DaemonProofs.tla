---------------------------- MODULE DaemonProofs ----------------------------
(***************************************************************************)
(* Theorems about Daemon for every number of nodes, row length, pool size  *)
(* and error limit.                                                        *)
(***************************************************************************)
EXTENDS Daemon, FiniteSetTheorems, SequenceTheorems, TLAPS

-----------------------------------------------------------------------------
(* Least and greatest elements exist where the code's loops look for them. *)

(* insertNewCmds' upward loop stops at a least free slot.                  *)
LEMMA LeastExists ==
  ASSUME NEW S \in SUBSET Nat, S # {}
  PROVE  LeastOf(S) \in S /\ \A y \in S : LeastOf(S) <= y
<1> DEFINE Below(x) == 0..x
          T == {Below(x) : x \in S}
<1>1. \A x \in Nat : Below(x) \in FiniteSubsetsOf(Nat)
  BY FS_Interval DEF FiniteSubsetsOf
<1>2. T \subseteq FiniteSubsetsOf(Nat) /\ T # {}
  BY <1>1
<1>3. \E t \in T : \A u \in T : ~ (<<u, t>> \in StrictSubsetOrdering(Nat))
  <2> HIDE DEF T
  <2> QED
    BY <1>2, FS_StrictSubsetOrderingWellFounded, WFMin
<1>4. PICK x \in S : \A y \in S : ~ (<<Below(y), Below(x)>> \in StrictSubsetOrdering(Nat))
  BY <1>3
<1>5. \A y \in S : x <= y
  <2>1. SUFFICES ASSUME NEW y \in S, y < x PROVE FALSE
    BY SMT
  <2>2. Below(y) \subseteq Below(x) /\ x \in Below(x) /\ x \notin Below(y)
    BY <2>1
  <2>3. <<Below(y), Below(x)>> \in StrictSubsetOrdering(Nat)
    BY <1>1, <2>2 DEF StrictSubsetOrdering, FiniteSubsetsOf
  <2> QED
    BY <1>4, <2>3
<1> QED
  BY <1>5 DEF LeastOf

(* preProcessSNCCmessage's loop keeps the last of finitely many matches.   *)
LEMMA GreatestExists ==
  ASSUME NEW m \in Nat, NEW S \in SUBSET (0..m), S # {}
  PROVE  GreatestOf(S) \in S
<1> DEFINE T == {x \in Nat : \E y \in S : x = m - y}
<1>1. T \in SUBSET Nat /\ T # {}
  <2>1. PICK y \in S : TRUE
    OBVIOUS
  <2>2. y \in Int /\ m - y \in Nat
    BY <2>1
  <2> QED
    BY <2>2
<1>2. LeastOf(T) \in T /\ \A y \in T : LeastOf(T) <= y
  <2> HIDE DEF T
  <2> QED BY <1>1, LeastExists
<1>3. PICK x \in S : LeastOf(T) = m - x
  BY <1>2
<1>4. \A y \in S : x >= y
  <2>1. SUFFICES ASSUME NEW y \in S PROVE x >= y
    OBVIOUS
  <2>2. m - y \in T
    OBVIOUS
  <2>3. m - x <= m - y
    BY <1>2, <1>3, <2>2
  <2> QED
    BY <2>3
<1> QED
  BY <1>4 DEF GreatestOf

(* The number of pending signals fits the type of the counter.             *)
LEMMA PendingCount ==
  ASSUME NEW status
  PROVE  Cardinality(Pending(status)) \in 0..MaxNodes
<1>1. MaxNodes \in Nat /\ MaxNodes > 0
  BY SizesAssumption
<1>2. IsFiniteSet(Node) /\ Cardinality(Node) = MaxNodes
  BY <1>1, FS_Interval DEF Node
<1>3. IsFiniteSet(Pending(status)) /\ Cardinality(Pending(status)) <= MaxNodes
  BY <1>2, FS_Subset DEF Pending
<1> QED
  BY <1>1, <1>3, FS_CardinalityType

(* The slot insertNewCmds takes is free, and no free slot lies before it.  *)
LEMMA FreeSlotIsFirst ==
  ASSUME NEW d, FreeSlots(d) # {}
  PROVE  /\ FreeSlot(d) \in Slot
         /\ outQueues[d][FreeSlot(d)] = Null
         /\ \A k \in Slot : outQueues[d][k] = Null => FreeSlot(d) <= k
<1>1. FreeSlots(d) \in SUBSET Nat
  BY SizesAssumption DEF FreeSlots, Slot
<1> QED
  BY <1>1, LeastExists DEF FreeSlots, FreeSlot

-----------------------------------------------------------------------------
(* The table and the pool by themselves: insertNewCmds and                 *)
(* processNodeQueue are the only operations on them.                       *)
QueueTypes == /\ outQueues \in [Row -> [Slot -> Buffer \cup {Null}]]
              /\ pool \in Seq(Buffer)

QueueInv == QueueTypes /\ BuffersConserved /\ RowsContiguous

(* A datagram moves one buffer from the pool to the end of its row.        *)
LEMMA InsertKeepsQueues ==
  ASSUME QueueInv, NEW d \in Row, NEW c, InsertNewCmds(d, c)
  PROVE  QueueInv'
<1> DEFINE f == FreeSlot(d)
           h == Head(pool)
<1>1. /\ pool \in Seq(Buffer) /\ pool # <<>> /\ FreeSlots(d) # {}
      /\ outQueues \in [Row -> [Slot -> Buffer \cup {Null}]]
      /\ pool' = Tail(pool)
      /\ outQueues' = [outQueues EXCEPT ![d][f] = h]
  BY DEF QueueInv, QueueTypes, InsertNewCmds, CanInsert
<1>2. /\ h \in Buffer /\ h = pool[1]
      /\ Len(pool) \in Nat /\ Len(pool) >= 1
      /\ Tail(pool) \in Seq(Buffer)
      /\ Len(Tail(pool)) = Len(pool) - 1
      /\ \A j \in 1..(Len(pool) - 1) : Tail(pool)[j] = pool[j + 1]
  <2>1. Len(pool) \in Nat /\ Len(pool) >= 1
    BY <1>1, EmptySeq, LenProperties
  <2> QED
    BY <1>1, <2>1, HeadTailProperties
<1>3. /\ f \in Slot /\ outQueues[d][f] = Null
      /\ \A k \in Slot : outQueues[d][k] = Null => f <= k
  BY <1>1, FreeSlotIsFirst
<1>4. \A r \in Row, k \in Slot :
        outQueues'[r][k] = IF r = d /\ k = f THEN h ELSE outQueues[r][k]
  BY <1>1, <1>3
<1> HIDE DEF f, h
<1>5. QueueTypes'
  BY <1>1, <1>2, <1>3 DEF QueueTypes
<1>6. h # Null
  BY <1>2, SizesAssumption DEF Buffer, Null
<1>7. PoolDistinct'
  BY <1>1, <1>2 DEF QueueInv, BuffersConserved, PoolDistinct
<1>8. SlotsDistinct'
  BY <1>2, <1>3, <1>4, <1>6 DEF QueueInv, BuffersConserved, SlotsDistinct, SlotsNotFree
<1>9. SlotsNotFree'
  <2>1. SUFFICES ASSUME NEW r \in Row, NEW k \in Slot, NEW j \in 1..(Len(pool) - 1)
                 PROVE  outQueues'[r][k] # Tail(pool)[j]
    BY <1>1, <1>2 DEF SlotsNotFree
  <2>2. Tail(pool)[j] = pool[j + 1] /\ j + 1 \in 1..Len(pool) /\ j + 1 # 1 /\ 1 \in 1..Len(pool)
    BY <1>2
  <2>3. pool[j + 1] # pool[1] /\ outQueues[r][k] # pool[j + 1]
    BY <2>2 DEF QueueInv, BuffersConserved, PoolDistinct, SlotsNotFree
  <2> QED
    BY <1>2, <1>4, <2>2, <2>3
<1>10. NoneLost'
  <2>1. SUFFICES ASSUME NEW b \in Buffer
                 PROVE \/ \E j \in 1..(Len(pool) - 1) : Tail(pool)[j] = b
                       \/ \E r \in Row, k \in Slot : outQueues'[r][k] = b
    BY <1>1, <1>2 DEF NoneLost
  <2>2. CASE \E j \in 1..Len(pool) : pool[j] = b
    <3>1. PICK j \in 1..Len(pool) : pool[j] = b
      BY <2>2
    <3>2. CASE j = 1
      BY <1>2, <1>3, <1>4, <3>1, <3>2
    <3>3. CASE j # 1
      <4>1. j - 1 \in 1..(Len(pool) - 1) /\ (j - 1) + 1 = j
        BY <1>2, <3>3
      <4> QED
        BY <1>2, <3>1, <4>1
    <3> QED
      BY <3>2, <3>3
  <2>3. CASE \E r \in Row, k \in Slot : outQueues[r][k] = b
    <3>1. b # Null
      BY SizesAssumption DEF Buffer, Null
    <3> QED
      BY <1>3, <1>4, <2>3, <3>1
  <2> QED
    BY <2>2, <2>3 DEF QueueInv, BuffersConserved, NoneLost
<1>11. RowsContiguous'
  <2>1. SUFFICES ASSUME NEW r \in Row, NEW k \in Slot \ {0}, outQueues'[r][k] # Null
                 PROVE  outQueues'[r][k - 1] # Null
    BY DEF RowsContiguous
  <2>2. k - 1 \in Slot /\ k - 1 < k /\ k - 1 # k
    BY SizesAssumption DEF Slot
  <2>3. CASE r = d /\ k = f
    <3>1. outQueues[d][k - 1] # Null
      BY <1>3, <2>2, <2>3 DEF Slot
    <3> QED
      BY <1>4, <2>2, <2>3, <3>1
  <2>4. CASE ~(r = d /\ k = f)
    BY <1>4, <1>6, <2>1, <2>2, <2>4 DEF QueueInv, RowsContiguous
  <2> QED
    BY <2>3, <2>4
<1> QED
  BY <1>5, <1>7, <1>8, <1>9, <1>10, <1>11 DEF QueueInv, BuffersConserved

(* A pop moves the head's buffer to the pool and every later pointer of    *)
(* the row one slot down.                                                  *)
LEMMA PopKeepsQueues ==
  ASSUME ShiftStride = 1, QueueInv,
         NEW r \in Node, outQueues[r][0] # Null, ProcessNodeQueue(r)
  PROVE  /\ QueueInv'
         /\ \A s \in Row, k \in Slot :
              outQueues'[s][k] = IF s # r THEN outQueues[s][k]
                                 ELSE IF k = QueueLen - 1 THEN Null
                                 ELSE outQueues[s][k + 1]
<1> DEFINE h == outQueues[r][0]
           n == Len(pool)
<1>1. /\ r \in Row /\ 0 \in Slot
      /\ \A k \in Slot : k # QueueLen - 1 => k + 1 \in Slot /\ k + ShiftStride < QueueLen
  BY SizesAssumption DEF Row, Node, Slot
<1>2. /\ outQueues \in [Row -> [Slot -> Buffer \cup {Null}]]
      /\ pool \in Seq(Buffer)
      /\ pool' = Append(pool, h)
      /\ outQueues' = [outQueues EXCEPT ![r] = [k \in Slot |-> ShiftSource(r, k)]]
  BY DEF QueueInv, QueueTypes, ProcessNodeQueue, Head0
<1>3. \A k \in Slot : ShiftSource(r, k) = IF k = QueueLen - 1 THEN Null
                                          ELSE outQueues[r][k + 1]
  BY <1>1 DEF ShiftSource
<1>4. \A s \in Row, k \in Slot :
        outQueues'[s][k] = IF s # r THEN outQueues[s][k]
                           ELSE IF k = QueueLen - 1 THEN Null
                           ELSE outQueues[s][k + 1]
  BY <1>1, <1>2, <1>3
<1>5. h \in Buffer
  BY <1>1, <1>2
<1>6. /\ n \in Nat /\ Len(pool') = n + 1 /\ pool' \in Seq(Buffer)
      /\ \A j \in 1..n : pool'[j] = pool[j]
      /\ pool'[n + 1] = h
  <2> HIDE DEF h
  <2> QED
    BY <1>2, <1>5, AppendProperties, LenProperties
<1>7. QueueTypes'
  <2>1. \A k \in Slot : ShiftSource(r, k) \in Buffer \cup {Null}
    BY <1>1, <1>2, <1>3
  <2>2. outQueues' \in [Row -> [Slot -> Buffer \cup {Null}]]
    BY <1>2, <2>1
  <2> QED
    BY <1>6, <2>2 DEF QueueTypes
<1> HIDE DEF n
<1>8. PoolDistinct'
  <2>1. \A j \in 1..n : pool[j] # h
    BY <1>1 DEF QueueInv, BuffersConserved, SlotsNotFree, n
  <2>2. \A j, k \in 1..n : pool[j] = pool[k] => j = k
    BY DEF QueueInv, BuffersConserved, PoolDistinct, n
  <2>3. \A j \in 1..(n + 1) : j \in 1..n \/ j = n + 1
    BY <1>6
  <2> HIDE DEF h
  <2> QED
    BY <1>6, <2>1, <2>2, <2>3 DEF PoolDistinct
<1>9. SlotsDistinct'
  <2>1. SUFFICES ASSUME NEW s \in Row, NEW t \in Row, NEW k \in Slot, NEW l \in Slot,
                        outQueues'[s][k] # Null, outQueues'[s][k] = outQueues'[t][l]
                 PROVE  s = t /\ k = l
    BY DEF SlotsDistinct
  <2> DEFINE kk == IF s = r THEN k + 1 ELSE k
             ll == IF t = r THEN l + 1 ELSE l
  <2>2. kk \in Slot /\ outQueues'[s][k] = outQueues[s][kk]
    BY <1>1, <1>4, <2>1
  <2>3. ll \in Slot /\ outQueues'[t][l] = outQueues[t][ll]
    BY <1>1, <1>4, <2>1
  <2>4. \A x, y \in Slot : outQueues[s][x] # Null /\ outQueues[s][x] = outQueues[t][y]
                            => s = t /\ x = y
    BY DEF QueueInv, BuffersConserved, SlotsDistinct
  <2>5. outQueues[s][kk] # Null /\ outQueues[s][kk] = outQueues[t][ll]
    BY <2>1, <2>2, <2>3
  <2>6. s = t /\ kk = ll
    <3> HIDE DEF kk, ll
    <3> QED
      BY <2>2, <2>3, <2>4, <2>5
  <2> QED
    BY <2>6 DEF Slot
<1>10. SlotsNotFree'
  <2>1. SUFFICES ASSUME NEW s \in Row, NEW k \in Slot, NEW j \in 1..(n + 1),
                        outQueues'[s][k] # Null
                 PROVE  outQueues'[s][k] # pool'[j]
    <3>1. \A j \in 1..(n + 1) : pool'[j] # Null
      BY <1>6, ElementOfSeq, SizesAssumption DEF Buffer, Null
    <3> QED
      BY <1>6, <3>1 DEF SlotsNotFree
  <2> DEFINE kk == IF s = r THEN k + 1 ELSE k
  <2>2. kk \in Slot /\ outQueues'[s][k] = outQueues[s][kk]
    BY <1>1, <1>4, <2>1
  <2>3. ~(s = r /\ kk = 0)
    BY SizesAssumption DEF Slot
  <2>4. outQueues[s][kk] # h
    <3> HIDE DEF kk
    <3> QED
      BY <1>1, <2>1, <2>2, <2>3 DEF QueueInv, BuffersConserved, SlotsDistinct
  <2>5. \A m \in 1..n : outQueues[s][kk] # pool[m]
    <3> HIDE DEF kk
    <3> QED
      BY <2>2 DEF QueueInv, BuffersConserved, SlotsNotFree, n
  <2> HIDE DEF kk, h
  <2>6. CASE j \in 1..n
    BY <1>6, <2>2, <2>5, <2>6
  <2>7. CASE j = n + 1
    BY <1>6, <2>2, <2>4, <2>7
  <2> QED
    BY <1>6, <2>6, <2>7
<1>11. NoneLost'
  <2>1. SUFFICES ASSUME NEW b \in Buffer
                 PROVE  \/ \E j \in 1..(n + 1) : pool'[j] = b
                        \/ \E s \in Row, k \in Slot : outQueues'[s][k] = b
    BY <1>6 DEF NoneLost
  <2>2. CASE \E j \in 1..n : pool[j] = b
    BY <1>6, <2>2
  <2>3. CASE \E s \in Row, k \in Slot : outQueues[s][k] = b
    <3>1. PICK s \in Row, k \in Slot : outQueues[s][k] = b
      BY <2>3
    <3>2. CASE s # r
      BY <1>4, <3>1, <3>2
    <3>3. CASE s = r /\ k = 0
      BY <1>6, <3>1, <3>3
    <3>4. CASE s = r /\ k # 0
      <4>1. k - 1 \in Slot /\ k - 1 # QueueLen - 1 /\ (k - 1) + 1 = k
        BY <3>4, SizesAssumption DEF Slot
      <4> QED
        BY <1>4, <3>1, <3>4, <4>1
    <3> QED
      BY <3>2, <3>3, <3>4
  <2> QED
    BY <2>2, <2>3 DEF QueueInv, BuffersConserved, NoneLost, n
<1>12. RowsContiguous'
  <2>1. SUFFICES ASSUME NEW s \in Row, NEW k \in Slot \ {0}, outQueues'[s][k] # Null
                 PROVE  outQueues'[s][k - 1] # Null
    BY DEF RowsContiguous
  <2>2. k - 1 \in Slot /\ k - 1 # QueueLen - 1 /\ (k - 1) + 1 = k
    BY SizesAssumption DEF Slot
  <2>3. CASE s # r
    BY <1>4, <2>1, <2>2, <2>3 DEF QueueInv, RowsContiguous
  <2>4. CASE s = r
    <3>1. k + 1 \in Slot \ {0} /\ outQueues[r][k + 1] # Null /\ (k + 1) - 1 = k
      BY <1>1, <1>4, <2>1, <2>4, SizesAssumption DEF Slot
    <3>2. outQueues[r][k] # Null
      BY <1>1, <3>1 DEF QueueInv, RowsContiguous
    <3> QED
      BY <1>4, <2>2, <2>4, <3>2
  <2> QED
    BY <2>3, <2>4
<1> QED
  BY <1>4, <1>7, <1>8, <1>9, <1>10, <1>11, <1>12 DEF QueueInv, BuffersConserved

-----------------------------------------------------------------------------
(* The inductive invariant *)

(* What an accepted datagram changes, command by command: its own message  *)
(* is fresh, the others are as they were.                                  *)
LEMMA InsertKeepsMessages ==
  ASSUME IInv, NEW d \in Row, NEW c \in Cmd, InsertNewCmds(d, c)
  PROVE  /\ msg' \in [Buffer -> [status : CmdStatus, transferError : 0..MaxErrors,
                                 destination : Row, cmd : Cmd, waiting : BOOLEAN]]
         /\ OnlyHeadTried'
         /\ \A r \in Row : LET b == outQueues'[r][0] IN
              b # Null => \/ b = outQueues[r][0] /\ msg'[b] = msg[b]
                          \/ /\ outQueues[r][0] = Null
                             /\ msg'[b].status = "new" /\ msg'[b].transferError = 0
<1> DEFINE f == FreeSlot(d)
           h == Head(pool)
<1>1. /\ pool \in Seq(Buffer) /\ pool # <<>> /\ FreeSlots(d) # {}
      /\ outQueues \in [Row -> [Slot -> Buffer \cup {Null}]]
      /\ outQueues' = [outQueues EXCEPT ![d][f] = h]
      /\ msg \in [Buffer -> [status : CmdStatus, transferError : 0..MaxErrors,
                             destination : Row, cmd : Cmd, waiting : BOOLEAN]]
  BY DEF IInv, TypeOK, InsertNewCmds, CanInsert
<1>2. h \in Buffer /\ h = pool[1] /\ 1 \in 1..Len(pool)
  BY <1>1, EmptySeq, LenProperties, HeadTailProperties
<1>3. f \in Slot /\ outQueues[d][f] = Null
  BY <1>1, FreeSlotIsFirst
<1>4. \A r \in Row, k \in Slot :
        outQueues'[r][k] = IF r = d /\ k = f THEN h ELSE outQueues[r][k]
  BY <1>1, <1>3
<1>5. \A r \in Row, k \in Slot : outQueues[r][k] # h
  BY <1>2 DEF IInv, BuffersConserved, SlotsNotFree
<1>6. msg' = [msg EXCEPT ![h] = [status |-> "new", transferError |-> 0, destination |-> d,
                                 cmd |-> c, waiting |-> msg[h].waiting]]
  BY DEF InsertNewCmds
<1> HIDE DEF f, h
<1>7. /\ msg'[h].status = "new" /\ msg'[h].transferError = 0 /\ msg'[h].destination = d
      /\ \A b \in Buffer : b # h => msg'[b] = msg[b]
  BY <1>1, <1>2, <1>6
<1>8. msg' \in [Buffer -> [status : CmdStatus, transferError : 0..MaxErrors,
                          destination : Row, cmd : Cmd, waiting : BOOLEAN]]
  BY <1>1, <1>2, <1>6, SizesAssumption DEF CmdStatus
<1>9. \A r \in Row, k \in Slot : LET b == outQueues'[r][k] IN
        b # Null => \/ b = outQueues[r][k] /\ msg'[b] = msg[b]
                    \/ b = h /\ r = d /\ k = f
  BY <1>1, <1>4, <1>5, <1>7
<1>10. OnlyHeadTried'
  BY <1>7, <1>9 DEF OnlyHeadTried, IInv
<1>11. 0 \in Slot
  BY SizesAssumption DEF Slot
<1>12. \A r \in Row : LET b == outQueues'[r][0] IN
         b # Null => \/ b = outQueues[r][0] /\ msg'[b] = msg[b]
                     \/ b = h /\ outQueues[r][0] = Null
  <2>1. SUFFICES ASSUME NEW r \in Row, outQueues'[r][0] # Null
                 PROVE  LET b == outQueues'[r][0] IN
                          \/ b = outQueues[r][0] /\ msg'[b] = msg[b]
                          \/ b = h /\ outQueues[r][0] = Null
    OBVIOUS
  <2>2. \/ /\ outQueues'[r][0] = outQueues[r][0]
           /\ msg'[outQueues'[r][0]] = msg[outQueues'[r][0]]
        \/ outQueues'[r][0] = h /\ r = d /\ f = 0
    BY <1>9, <1>11, <2>1
  <2> QED
    BY <1>3, <2>2
<1> QED
  BY <1>7, <1>8, <1>10, <1>12

(* Init satisfies the invariant. *)
LEMMA InitIInv ==
  ASSUME Init PROVE IInv
<1>1. TypeOK
  <2>1. pool \in Seq(Buffer)
    <3>1. \A b \in 1..PoolSize : b \in Buffer
      BY DEF Buffer
    <3> QED
      BY <3>1, SizesAssumption, SeqDef DEF Init, Buffer
  <2>2. msg \in [Buffer -> [status : CmdStatus, transferError : 0..MaxErrors,
                           destination : Row, cmd : Cmd, waiting : BOOLEAN]]
    <3>1. (CHOOSE c \in Cmd : TRUE) \in Cmd
      BY WireAssumption
    <3>2. 0 \in Row /\ 0 \in 0..MaxErrors
      BY SizesAssumption DEF Row
    <3> QED
      BY <3>1, <3>2 DEF Init, CmdStatus
  <2>3. outQueues \in [Row -> [Slot -> Buffer \cup {Null}]]
    BY DEF Init
  <2>4. inStatus \in [Node -> SnccStatus]
    BY DEF Init, SnccStatus
  <2>5. lastNodeServiced \in Node /\ num \in 0..MaxNodes /\ i \in Row
    BY SizesAssumption DEF Init, Node, Row
  <2> QED
    BY <2>1, <2>2, <2>3, <2>4, <2>5 DEF Init, TypeOK
<1>2. Len(pool) = PoolSize
  BY SizesAssumption DEF Init, Buffer
<1>3. BuffersConserved
  BY <1>2, SizesAssumption
  DEF Init, BuffersConserved, PoolDistinct, SlotsDistinct, SlotsNotFree, NoneLost, Buffer, Null
<1>4. RowsContiguous /\ OnlyHeadTried /\ Control
  BY DEF Init, RowsContiguous, OnlyHeadTried, Control, Slot
<1>5. Settled
  BY SizesAssumption DEF Init, Settled, Slot
<1> QED
  BY <1>1, <1>3, <1>4, <1>5 DEF IInv

(* The ring scan of preProcessSNCCmessage yields a node id, or none.       *)
LEMMA InquiredIsNode ==
  ASSUME lastNodeServiced \in Node, NEW preamble
  PROVE  Inquired(preamble) \in Node \cup {NoNode}
<1>1. lastNodeServiced + MaxNodes \in Nat /\ MaxNodes \in Nat /\ MaxNodes > 0
  BY SizesAssumption DEF Node
<1>2. Ring \in SUBSET (0..(lastNodeServiced + MaxNodes))
  BY <1>1 DEF Ring, Node
<1>3. \A x \in Nat : x % MaxNodes \in Node
  BY <1>1 DEF Node
<1>4. Ring # {} => GreatestOf(Ring) % MaxNodes \in Node
  <2>1. SUFFICES ASSUME Ring # {} PROVE GreatestOf(Ring) % MaxNodes \in Node
    OBVIOUS
  <2>2. PICK m \in Nat : Ring \in SUBSET (0..m)
    BY <1>1, <1>2
  <2>3. GreatestOf(Ring) \in Ring
    BY <2>1, <2>2, GreatestExists
  <2>4. \A x \in Ring : x \in Nat
    BY <2>2
  <2> QED
    BY <1>3, <2>3, <2>4, Zenon
<1> QED
  BY <1>4 DEF Inquired

(* sendMessage touches no queue; only the message it sends changes.        *)
LEMMA HeaderStep ==
  ASSUME IInv, NEW preamble, Header(preamble)
  PROVE  IInv'
<1>1. UNCHANGED <<outQueues, pool, lastNodeServiced, num, i, seen, errors, onlyErrors, sending>>
  BY DEF Header, queueVars, passVars
<1>2. BuffersConserved' /\ RowsContiguous'
  BY <1>1 DEF IInv, BuffersConserved, PoolDistinct, SlotsDistinct, SlotsNotFree,
              NoneLost, RowsContiguous
<1>3. \A b \in Buffer : \/ msg'[b] = msg[b]
                        \/ /\ b = sending
                           /\ msg'[b] = [msg[b] EXCEPT !.status = "queued"]
  BY DEF Header, IInv, TypeOK
<1>4. TypeOK'
  <2>1. msg' \in [Buffer -> [status : CmdStatus, transferError : 0..MaxErrors,
                            destination : Row, cmd : Cmd, waiting : BOOLEAN]]
    BY DEF Header, IInv, TypeOK, CmdStatus
  <2>2. inq' \in Node \cup {NoNode}
    BY InquiredIsNode DEF Header, IInv, TypeOK
  <2>3. inStatus' \in [Node -> SnccStatus]
    BY DEF Header, IInv, TypeOK, SnccStatus
  <2> QED
    BY <1>1, <2>1, <2>2, <2>3 DEF Header, IInv, TypeOK
<1>5. sending # Null => i \in Node /\ sending = outQueues[i][0]
  BY DEF IInv, Control
<1>6. OnlyHeadTried'
  <2>1. SUFFICES ASSUME NEW r \in Row, NEW k \in Slot, outQueues[r][k] # Null
                 PROVE  /\ msg'[outQueues[r][k]].destination = r
                        /\ k # 0 => /\ msg'[outQueues[r][k]].status = "new"
                                    /\ msg'[outQueues[r][k]].transferError = 0
    BY <1>1 DEF OnlyHeadTried
  <2> DEFINE b == outQueues[r][k]
  <2>2. /\ b \in Buffer /\ msg[b].destination = r
        /\ k # 0 => msg[b].status = "new" /\ msg[b].transferError = 0
    BY <2>1 DEF IInv, TypeOK, OnlyHeadTried
  <2>3. k # 0 => b # sending
    <3>1. i \in Node => i \in Row /\ 0 \in Slot
      BY SizesAssumption DEF Row, Node, Slot
    <3> QED
      BY <1>5, <2>1, <3>1 DEF IInv, BuffersConserved, SlotsDistinct
  <2>4. msg[b] \in [status : CmdStatus, transferError : 0..MaxErrors,
                    destination : Row, cmd : Cmd, waiting : BOOLEAN]
    BY <2>2 DEF IInv, TypeOK
  <2> HIDE DEF b
  <2>5. msg'[b].destination = r /\ (k # 0 => msg'[b] = msg[b])
    BY <1>3, <2>2, <2>3, <2>4
  <2> QED
    BY <2>2, <2>5 DEF b
<1>7. Settled'
  <2>1. SUFFICES ASSUME NEW r \in Row, outQueues[r][0] # Null
                 PROVE  /\ msg'[outQueues[r][0]].status \in {"new", "queued"}
                        /\ msg'[outQueues[r][0]].transferError < MaxErrors
    BY <1>1 DEF Settled
  <2> DEFINE b == outQueues[r][0]
  <2>2. b \in Buffer /\ msg[b].status \in {"new", "queued"} /\ msg[b].transferError < MaxErrors
    <3>1. 0 \in Slot
      BY SizesAssumption DEF Slot
    <3> QED
      BY <2>1, <3>1 DEF IInv, TypeOK, Settled, Header
  <2>3. msg[b] \in [status : CmdStatus, transferError : 0..MaxErrors,
                    destination : Row, cmd : Cmd, waiting : BOOLEAN]
    BY <2>2 DEF IInv, TypeOK
  <2> HIDE DEF b
  <2>4. msg'[b].status \in {"new", "queued"} /\ msg'[b].transferError < MaxErrors
    BY <1>3, <2>2, <2>3
  <2> QED
    BY <2>4 DEF b
<1>8. Control'
  BY <1>1, <1>5 DEF Control, Header
<1> QED
  BY <1>2, <1>4, <1>6, <1>7, <1>8 DEF IInv

(* The outcome of the packet is recorded in the head of row i and nowhere  *)
(* else, so at most that head is ready to leave.                           *)
LEMMA CheckStep ==
  ASSUME IInv, NEW cmdOk, NEW snccOk, NEW mask, Check(cmdOk, snccOk, mask)
  PROVE  IInv'
<1> USE DEF Check, PostProcess
<1>1. UNCHANGED <<outQueues, pool, i, seen, errors, onlyErrors>>
  BY DEF queueVars, passVars
<1>2. BuffersConserved' /\ RowsContiguous'
  BY <1>1 DEF IInv, BuffersConserved, PoolDistinct, SlotsDistinct, SlotsNotFree,
              NoneLost, RowsContiguous
<1>3. sending # Null => /\ i \in Node /\ i \in Row /\ 0 \in Slot
                       /\ sending = outQueues[i][0] /\ sending \in Buffer
                       /\ msg[sending].status \in {"new", "queued"}
                       /\ msg[sending].transferError < MaxErrors
  <2>1. i \in Node => i \in Row /\ 0 \in Slot
    BY SizesAssumption DEF Row, Node, Slot
  <2> QED
    BY <2>1 DEF IInv, Control, TypeOK, Settled
<1>4. /\ msg' \in [Buffer -> [status : CmdStatus, transferError : 0..MaxErrors,
                             destination : Row, cmd : Cmd, waiting : BOOLEAN]]
      /\ \A b \in Buffer : /\ b # sending => msg'[b] = msg[b]
                           /\ msg'[b].destination = msg[b].destination
      /\ sending # Null => msg'[sending].status # "dropped"
  <2>1. CASE sending = Null
    BY <2>1 DEF IInv, TypeOK
  <2>2. CASE sending # Null /\ cmdOk
    BY <1>3, <2>2 DEF IInv, TypeOK, CmdStatus
  <2>3. CASE sending # Null /\ ~cmdOk
    <3> DEFINE m == Failed(msg[sending])
    <3>1. msg[sending] \in [status : CmdStatus, transferError : 0..MaxErrors,
                            destination : Row, cmd : Cmd, waiting : BOOLEAN]
      BY <1>3, <2>3 DEF IInv, TypeOK
    <3>2. msg[sending].transferError + 1 \in 0..MaxErrors
      BY <1>3, <2>3, <3>1, SizesAssumption
    <3>3. msg' = [msg EXCEPT ![sending] = m]
      BY <2>3, Zenon
    <3>4. /\ m \in [status : CmdStatus, transferError : 0..MaxErrors,
                    destination : Row, cmd : Cmd, waiting : BOOLEAN]
          /\ m.status = msg[sending].status /\ m.destination = msg[sending].destination
      <4> HIDE DEF Check
      <4> QED
        BY <3>1, <3>2 DEF Failed
    <3> HIDE DEF m
    <3> QED
      BY <1>3, <2>3, <3>3, <3>4 DEF IInv, TypeOK
  <2> QED
    BY <2>1, <2>2, <2>3
<1>5. TypeOK'
  <2>1. inStatus' \in [Node -> SnccStatus]
    BY DEF IInv, TypeOK, SnccStatus
  <2>2. num' \in 0..MaxNodes
    BY PendingCount
  <2>3. lastNodeServiced' \in Node
    BY DEF IInv, TypeOK
  <2> QED
    BY <1>1, <1>4, <2>1, <2>2, <2>3 DEF IInv, TypeOK
<1>6. \A r \in Row, k \in Slot : outQueues[r][k] # Null
         => /\ outQueues[r][k] \in Buffer
            /\ outQueues[r][k] = sending => r = i /\ k = 0
  BY <1>3 DEF IInv, TypeOK, BuffersConserved, SlotsDistinct
<1>7. OnlyHeadTried'
  BY <1>1, <1>4, <1>6 DEF IInv, OnlyHeadTried
<1>8. Settled'
  <2>1. SUFFICES ASSUME NEW r \in Row, outQueues[r][0] # Null,
                        ~(sending # Null /\ r = i)
                 PROVE  /\ msg'[outQueues[r][0]].status \in {"new", "queued"}
                        /\ msg'[outQueues[r][0]].transferError < MaxErrors
    BY <1>1 DEF Settled
  <2>2. 0 \in Slot
    BY SizesAssumption DEF Slot
  <2>3. outQueues[r][0] # sending /\ outQueues[r][0] \in Buffer
    BY <1>6, <2>1, <2>2
  <2>4. /\ msg[outQueues[r][0]].status \in {"new", "queued"}
        /\ msg[outQueues[r][0]].transferError < MaxErrors
    BY <2>1 DEF IInv, Settled
  <2> QED
    BY <1>4, <2>3, <2>4
<1>9. Control'
  BY <1>1, <1>3, <1>4 DEF Control, Null
<1> QED
  BY <1>2, <1>5, <1>7, <1>8, <1>9 DEF IInv

(* Row 0 of memory and slot 0 of a row exist. *)
LEMMA RowAndSlot == 0 \in Slot /\ Node \subseteq Row /\ (\A n \in Node : n + 1 \in Row)
  BY SizesAssumption DEF Slot, Node, Row

(* The bookkeeping after a packet leaves a row whose head is still to be   *)
(* delivered: popped, or retried with errors to spare.                     *)
LEMMA SettleStep ==
  ASSUME ShiftStride = 1, IInv, Settle
  PROVE  IInv'
<1> DEFINE b == outQueues[i][0]
           leaves == \/ msg[b].status = "transferred"
                     \/ msg[b].transferError >= MaxErrors
<1>1. /\ pc = "settle" /\ i \in Node /\ i \in Row /\ b # Null /\ b \in Buffer
      /\ msg[b].status \in {"new", "queued", "transferred"}
      /\ msg[b].transferError \in Nat
  BY RowAndSlot DEF Settle, IInv, Control, TypeOK, CmdStatus
<1>2. /\ leaves => ProcessNodeQueue(i)
      /\ ~leaves => UNCHANGED queueVars
  BY DEF Settle, Head0, Exhausted
<1>3. /\ UNCHANGED <<inStatus, lastNodeServiced, num, sending, inq>>
      /\ seen' = TRUE /\ errors' \in BOOLEAN /\ onlyErrors' \in BOOLEAN
      /\ i' = i + 1
      /\ pc' \in {"scan", "endpass"} /\ (pc' = "scan" => i + 1 # MaxNodes)
  BY DEF Settle, snccVars, NextRow, IInv, TypeOK
<1>4. /\ msg' \in [Buffer -> [status : CmdStatus, transferError : 0..MaxErrors,
                             destination : Row, cmd : Cmd, waiting : BOOLEAN]]
      /\ \A x \in Buffer : /\ x # b \/ ~leaves => msg'[x] = msg[x]
                           /\ msg'[x].destination = msg[x].destination
  <2>1. msg' = msg \/ (leaves /\ msg' = [msg EXCEPT ![b].status = "dropped"])
    BY DEF Settle, Head0, Exhausted
  <2> HIDE DEF b, leaves
  <2>2. CASE msg' = msg
    BY <2>2 DEF IInv, TypeOK
  <2>3. CASE leaves /\ msg' = [msg EXCEPT ![b].status = "dropped"]
    <3>1. msg' \in [Buffer -> [status : CmdStatus, transferError : 0..MaxErrors,
                              destination : Row, cmd : Cmd, waiting : BOOLEAN]]
      BY <1>1, <2>3 DEF IInv, TypeOK, CmdStatus
    <3>2. \A x \in Buffer : /\ x # b => msg'[x] = msg[x]
                            /\ msg'[x].destination = msg[x].destination
      BY <1>1, <2>3 DEF IInv, TypeOK
    <3> QED
      BY <2>3, <3>1, <3>2
  <2> QED
    BY <2>1, <2>2, <2>3
<1>5. /\ QueueInv'
      /\ \A s \in Row, k \in Slot :
           outQueues'[s][k] = IF s # i \/ ~leaves THEN outQueues[s][k]
                              ELSE IF k = QueueLen - 1 THEN Null
                              ELSE outQueues[s][k + 1]
  <2>1. QueueInv
    BY DEF IInv, TypeOK, QueueInv, QueueTypes
  <2>2. CASE leaves
    <3> HIDE DEF leaves
    <3> QED
      BY <1>1, <1>2, <2>1, <2>2, PopKeepsQueues
  <2>3. CASE ~leaves
    <3>1. UNCHANGED <<outQueues, pool>>
      BY <1>2, <2>3 DEF queueVars
    <3>2. QueueInv'
      BY <2>1, <3>1 DEF QueueInv, QueueTypes, BuffersConserved, PoolDistinct,
                        SlotsDistinct, SlotsNotFree, NoneLost, RowsContiguous
    <3> HIDE DEF leaves
    <3> QED
      BY <2>3, <3>1, <3>2
  <2> QED
    BY <2>2, <2>3
<1>6. TypeOK'
  <2>1. i' \in Row /\ (pc' = "scan" => i' \in Node)
    BY <1>1, <1>3, RowAndSlot, SizesAssumption DEF Node
  <2> QED
    BY <1>3, <1>4, <1>5, <2>1 DEF IInv, TypeOK, QueueInv, QueueTypes
<1>7. \A s \in Row, k \in Slot : outQueues'[s][k] # Null =>
        \/ /\ ~(leaves /\ s = i /\ k = 0)
           /\ outQueues'[s][k] = outQueues[s][k]
           /\ leaves => s # i
        \/ /\ leaves /\ s = i /\ k + 1 \in Slot
           /\ outQueues'[s][k] = outQueues[s][k + 1]
  <2> HIDE DEF leaves
  <2> QED
    BY <1>5, SizesAssumption DEF Slot
<1>8. \A s \in Row, k \in Slot : outQueues[s][k] = b => s = i /\ k = 0
  BY <1>1, RowAndSlot DEF IInv, BuffersConserved, SlotsDistinct
<1> HIDE DEF leaves
<1>9. \A s \in Row, k \in Slot : outQueues'[s][k] # Null =>
        /\ outQueues'[s][k] \in Buffer
        /\ msg'[outQueues'[s][k]] = msg[outQueues'[s][k]]
  <2>1. SUFFICES ASSUME NEW s \in Row, NEW k \in Slot, outQueues'[s][k] # Null
                 PROVE  /\ outQueues'[s][k] \in Buffer
                        /\ msg'[outQueues'[s][k]] = msg[outQueues'[s][k]]
    OBVIOUS
  <2>2. outQueues'[s][k] \in Buffer
    BY <1>6, <2>1 DEF TypeOK
  <2>3. leaves => outQueues'[s][k] # b
    BY <1>7, <1>8, <2>1 DEF Slot
  <2> QED
    BY <1>4, <2>2, <2>3
<1>10. OnlyHeadTried'
  <2>1. SUFFICES ASSUME NEW s \in Row, NEW k \in Slot, outQueues'[s][k] # Null
                 PROVE  /\ msg'[outQueues'[s][k]].destination = s
                        /\ k # 0 => /\ msg'[outQueues'[s][k]].status = "new"
                                    /\ msg'[outQueues'[s][k]].transferError = 0
    BY DEF OnlyHeadTried
  <2>2. CASE outQueues'[s][k] = outQueues[s][k]
    BY <1>9, <2>1, <2>2 DEF IInv, OnlyHeadTried
  <2>3. CASE k + 1 \in Slot /\ outQueues'[s][k] = outQueues[s][k + 1]
    <3>1. k + 1 # 0
      BY DEF Slot
    <3> QED
      BY <1>9, <2>1, <2>3, <3>1 DEF IInv, OnlyHeadTried
  <2> QED
    BY <1>7, <2>1, <2>2, <2>3
<1>11. Settled'
  <2>1. SUFFICES ASSUME NEW s \in Row, outQueues'[s][0] # Null
                 PROVE  /\ msg[outQueues'[s][0]].status \in {"new", "queued"}
                        /\ msg[outQueues'[s][0]].transferError < MaxErrors
    BY <1>9, RowAndSlot DEF Settled
  <2>2. CASE s # i
    <3>1. outQueues'[s][0] = outQueues[s][0]
      BY <1>5, <2>2, RowAndSlot
    <3> QED
      BY <2>1, <2>2, <3>1 DEF IInv, Settled
  <2>3. CASE s = i /\ ~leaves
    <3>1. outQueues'[s][0] = b
      BY <1>5, <2>3, RowAndSlot
    <3> QED
      BY <1>1, <2>3, <3>1, SizesAssumption DEF leaves
  <2>4. CASE s = i /\ leaves
    <3>1. 0 + 1 \in Slot /\ outQueues'[s][0] = outQueues[s][0 + 1]
      BY <1>7, <2>1, <2>4, RowAndSlot
    <3>2. 0 + 1 = 1
      OBVIOUS
    <3>3. /\ msg[outQueues[s][1]].status = "new"
          /\ msg[outQueues[s][1]].transferError = 0
      BY <2>1, <3>1, <3>2 DEF IInv, OnlyHeadTried
    <3> QED
      BY <3>1, <3>2, <3>3, SizesAssumption
  <2> QED
    BY <2>2, <2>3, <2>4
<1>12. Control'
  <2>1. sending = Null /\ (pc' = "scan" => i' \in Node)
    BY <1>1, <1>3, SizesAssumption DEF IInv, Control, Node
  <2> QED
    BY <1>3, <2>1 DEF Control
<1> QED
  BY <1>5, <1>6, <1>10, <1>11, <1>12 DEF IInv, QueueInv

(* An accepted command never disturbs the packet or the row in progress.   *)
LEMMA InsertStep ==
  ASSUME IInv, NEW d \in Row, NEW c \in Cmd, IdleInsert(d, c) \/ EndPassInsert(d, c)
  PROVE  IInv'
<1>1. /\ InsertNewCmds(d, c) /\ UNCHANGED <<inStatus, lastNodeServiced, num, sending, inq>>
      /\ pc \in {"idle", "endpass"} /\ pc' \in {"scan", "idle"}
      /\ i' \in Row /\ (pc' = "scan" => i' = 0)
      /\ seen' \in BOOLEAN /\ errors' \in BOOLEAN /\ onlyErrors' \in BOOLEAN
  <2>1. 0 \in Row
    BY SizesAssumption DEF Row
  <2>2. CASE IdleInsert(d, c)
    BY <2>1, <2>2 DEF IdleInsert, StartPass, snccVars, IInv, TypeOK
  <2>3. CASE EndPassInsert(d, c)
    <3>1. StartPass \/ (pc' = "idle" /\ UNCHANGED passVars)
      BY <2>3 DEF EndPassInsert, AfterPass
    <3> QED
      BY <2>1, <2>3, <3>1 DEF EndPassInsert, StartPass, snccVars, passVars, IInv, TypeOK
  <2> QED
    BY <2>2, <2>3
<1>2. QueueInv'
  <2>1. QueueInv
    BY DEF IInv, TypeOK, QueueInv, QueueTypes
  <2> QED
    BY <1>1, <2>1, InsertKeepsQueues
<1>3. /\ msg' \in [Buffer -> [status : CmdStatus, transferError : 0..MaxErrors,
                             destination : Row, cmd : Cmd, waiting : BOOLEAN]]
      /\ OnlyHeadTried'
      /\ \A r \in Row : LET b == outQueues'[r][0] IN
           b # Null => \/ b = outQueues[r][0] /\ msg'[b] = msg[b]
                       \/ /\ outQueues[r][0] = Null
                          /\ msg'[b].status = "new" /\ msg'[b].transferError = 0
  BY <1>1, InsertKeepsMessages
<1>4. TypeOK'
  BY <1>1, <1>2, <1>3 DEF IInv, TypeOK, QueueInv, QueueTypes
<1>5. Settled'
  <2>1. SUFFICES ASSUME NEW r \in Row, outQueues'[r][0] # Null
                 PROVE  /\ msg'[outQueues'[r][0]].status \in {"new", "queued"}
                        /\ msg'[outQueues'[r][0]].transferError < MaxErrors
    BY DEF Settled
  <2>2. \/ /\ outQueues'[r][0] = outQueues[r][0]
           /\ msg'[outQueues'[r][0]] = msg[outQueues'[r][0]]
        \/ /\ msg'[outQueues'[r][0]].status = "new"
           /\ msg'[outQueues'[r][0]].transferError = 0
    BY <1>3, <2>1
  <2> QED
    BY <1>1, <2>1, <2>2, SizesAssumption DEF IInv, Settled
<1>6. Control'
  BY <1>1, SizesAssumption DEF IInv, Control, Node
<1> QED
  BY <1>2, <1>3, <1>4, <1>5, <1>6 DEF IInv, QueueInv

(* The steps of main between packets that touch neither queue nor message. *)
LEMMA ControlStep ==
  ASSUME IInv,
         \/ \E latchLow \in BOOLEAN : IdleSend(latchLow)
         \/ ScanEmpty \/ ScanSend \/ ScanWait \/ EndPass
  PROVE  IInv'
<1>1. /\ UNCHANGED <<outQueues, pool, msg, inStatus, lastNodeServiced, num, inq>>
      /\ pc # "settle"
  BY DEF IdleSend, ScanEmpty, ScanSend, ScanWait, EndPass, queueVars, snccVars
<1>2. BuffersConserved' /\ RowsContiguous' /\ OnlyHeadTried'
  BY <1>1 DEF IInv, BuffersConserved, PoolDistinct, SlotsDistinct, SlotsNotFree,
              NoneLost, RowsContiguous, OnlyHeadTried
<1>3. Settled'
  BY <1>1 DEF IInv, Settled
<1>4. pc \in {"idle", "scan", "endpass"} /\ sending = Null
  BY DEF IInv, Control, IdleSend, ScanEmpty, ScanSend, ScanWait, EndPass
<1>5. CASE \E latchLow \in BOOLEAN : IdleSend(latchLow)
  <2>1. UNCHANGED <<i, seen, errors, onlyErrors, sending>> /\ pc' = "header"
    BY <1>5 DEF IdleSend, passVars
  <2> QED
    BY <1>1, <1>2, <1>3, <1>4, <2>1 DEF IInv, TypeOK, Control
<1>6. CASE ScanEmpty
  <2>1. i \in Node /\ i' = i + 1 /\ i' \in Row
        /\ pc' \in {"scan", "endpass"} /\ (pc' = "scan" => i' \in Node)
    BY <1>6, RowAndSlot, SizesAssumption DEF IInv, Control, ScanEmpty, NextRow, Node
  <2> QED
    BY <1>1, <1>2, <1>3, <1>4, <1>6, <2>1 DEF IInv, TypeOK, Control, ScanEmpty
<1>7. CASE ScanSend
  <2>1. i \in Node /\ outQueues[i][0] \in Buffer /\ sending' = outQueues[i][0]
    BY <1>7, RowAndSlot DEF IInv, TypeOK, Control, ScanSend, Head0
  <2> QED
    BY <1>1, <1>2, <1>3, <1>7, <2>1 DEF IInv, TypeOK, Control, ScanSend, passVars
<1>8. CASE ScanWait
  <2>1. i \in Node /\ i \in Row /\ outQueues[i][0] # Null
    BY <1>8, RowAndSlot DEF IInv, Control, ScanWait, Head0
  <2>2. msg[outQueues[i][0]].status \in {"new", "queued"}
    BY <1>1, <2>1 DEF IInv, Settled
  <2> QED
    BY <1>1, <1>2, <1>3, <1>4, <1>8, <2>1, <2>2
    DEF IInv, TypeOK, Control, ScanWait, passVars
<1>9. CASE EndPass
  <2>1. 0 \in Node /\ 0 \in Row
    BY SizesAssumption DEF Node, Row
  <2> QED
    BY <1>1, <1>2, <1>3, <1>4, <1>9, <2>1
    DEF IInv, TypeOK, Control, EndPass, AfterPass, StartPass, passVars
<1> QED
  BY <1>5, <1>6, <1>7, <1>8, <1>9

(* Time only ends a retry delay. *)
LEMMA DelayStep ==
  ASSUME IInv, NEW x \in Buffer, DelayElapsed(x)
  PROVE  IInv'
<1>1. UNCHANGED <<outQueues, pool, inStatus, lastNodeServiced, num, i, seen, errors,
                  onlyErrors, pc, sending, inq>>
  BY DEF DelayElapsed, queueVars, snccVars, passVars
<1>2. /\ msg' \in [Buffer -> [status : CmdStatus, transferError : 0..MaxErrors,
                             destination : Row, cmd : Cmd, waiting : BOOLEAN]]
      /\ \A b \in Buffer : /\ msg'[b].status = msg[b].status
                           /\ msg'[b].transferError = msg[b].transferError
                           /\ msg'[b].destination = msg[b].destination
  BY DEF DelayElapsed, IInv, TypeOK
<1>3. BuffersConserved' /\ RowsContiguous'
  BY <1>1 DEF IInv, BuffersConserved, PoolDistinct, SlotsDistinct, SlotsNotFree,
              NoneLost, RowsContiguous
<1>4. \A r \in Row, k \in Slot : outQueues[r][k] # Null => outQueues[r][k] \in Buffer
  BY DEF IInv, TypeOK
<1>5. OnlyHeadTried'
  BY <1>1, <1>2, <1>4 DEF IInv, OnlyHeadTried
<1>6. Settled'
  BY <1>1, <1>2, <1>4, RowAndSlot DEF IInv, Settled
<1>7. Control'
  BY <1>1, <1>2, <1>4, RowAndSlot DEF IInv, Control
<1>8. TypeOK'
  BY <1>1, <1>2 DEF IInv, TypeOK
<1> QED
  BY <1>3, <1>5, <1>6, <1>7, <1>8 DEF IInv

LEMMA StutterStep ==
  ASSUME IInv, UNCHANGED vars PROVE IInv'
<1>1. UNCHANGED <<outQueues, pool, msg, inStatus, lastNodeServiced, num, i, seen, errors,
                  onlyErrors, pc, sending, inq>>
  BY DEF vars, queueVars, snccVars, passVars
<1> QED
  BY <1>1 DEF IInv, TypeOK, BuffersConserved, PoolDistinct, SlotsDistinct, SlotsNotFree,
              NoneLost, RowsContiguous, OnlyHeadTried, Settled, Control

(* The invariant is inductive when the compiler shifts rows as intended.   *)
LEMMA NextIInv ==
  ASSUME ShiftStride = 1, IInv, [Next]_vars
  PROVE  IInv'
<1>1. CASE Insert
  <2>1. Dests \subseteq Row
    BY WireAssumption DEF Row
  <2> QED
    BY <1>1, <2>1, InsertStep DEF Insert
<1>2. CASE IdleSend(TRUE) \/ Send
  <2>1. CASE \E latchLow \in BOOLEAN : IdleSend(latchLow)
    BY <2>1, ControlStep
  <2>2. CASE \E preamble \in Preambles : Header(preamble)
    BY <2>2, HeaderStep
  <2>3. CASE \E cmdOk, snccOk \in BOOLEAN, mask \in Masks : Check(cmdOk, snccOk, mask)
    BY <2>3, CheckStep
  <2> QED
    BY <1>2, <2>1, <2>2, <2>3 DEF Send
<1>3. CASE Pass
  BY <1>3, ControlStep, SettleStep DEF Pass
<1>4. CASE \E b \in Buffer : DelayElapsed(b)
  BY <1>4, DelayStep
<1>5. CASE UNCHANGED vars
  BY <1>5, StutterStep
<1> QED
  BY <1>1, <1>2, <1>3, <1>4, <1>5 DEF Next

-----------------------------------------------------------------------------
(* The inductive invariant holds in every reachable state.                 *)
THEOREM Invariance ==
  ASSUME ShiftStride = 1 PROVE Spec => []IInv
<1>1. Init => IInv
  BY InitIInv
<1>2. IInv /\ [Next]_vars => IInv'
  BY NextIInv
<1> QED
  BY <1>1, <1>2, PTL DEF Spec

(* Every variable of the daemon has its type in every reachable state:     *)
(* i and the indices stay within the tables, counters within their limits. *)
THEOREM TypeCorrect ==
  ASSUME ShiftStride = 1 PROVE Spec => []TypeOK
<1>1. IInv => TypeOK
  BY DEF IInv
<1> QED
  BY <1>1, Invariance, PTL

(* No command buffer is ever lost, shared by two slots, or both free and   *)
(* in use, for any number of nodes, row length and pool size.              *)
THEOREM BuffersAreConserved ==
  ASSUME ShiftStride = 1 PROVE Spec => []BuffersConserved
<1>1. IInv => BuffersConserved
  BY DEF IInv
<1> QED
  BY <1>1, Invariance, PTL

(* Commands of a row are tried strictly in the order they were accepted:   *)
(* rows have no holes and only their head has ever been sent.              *)
THEOREM OnlyHeadsAreTried ==
  ASSUME ShiftStride = 1 PROVE Spec => [](RowsContiguous /\ OnlyHeadTried)
<1>1. IInv => RowsContiguous /\ OnlyHeadTried
  BY DEF IInv
<1> QED
  BY <1>1, Invariance, PTL

(* Free slots of a row are all at its end: a new command joins behind the  *)
(* others, and main, which looks at the head only, strands none of them.   *)
THEOREM RowsAreContiguous ==
  ASSUME ShiftStride = 1 PROVE Spec => []RowsContiguous
<1>1. IInv => RowsContiguous
  BY DEF IInv
<1> QED
  BY <1>1, Invariance, PTL

(* Nothing that was delivered or given up is still in a row when the       *)
(* daemon looks at it again.                                               *)
THEOREM HeadsAreSettled ==
  ASSUME ShiftStride = 1 PROVE Spec => []Settled
<1>1. IInv => Settled
  BY DEF IInv
<1> QED
  BY <1>1, Invariance, PTL

-----------------------------------------------------------------------------
(* The event side, whatever the compiler makes of the shift.               *)
LEMMA NextSnccInv ==
  ASSUME SnccInv, [Next]_vars
  PROVE  /\ SnccInv'
         /\ \A n \in Node : inStatus[n] = "signal" /\ inStatus'[n] # "signal"
                              => inq' = n
<1>1. CASE \E preamble \in Preambles : Header(preamble)
  <2>1. PICK preamble \in Preambles : Header(preamble)
    BY <1>1
  <2>2. inq' \in Node \cup {NoNode}
    BY <2>1, InquiredIsNode DEF Header, SnccInv
  <2>3. /\ inStatus' = [n \in Node |-> IF n = inq' THEN "queued" ELSE inStatus[n]]
        /\ pc' = "check" /\ UNCHANGED lastNodeServiced
    BY <2>1 DEF Header
  <2> QED
    BY <2>2, <2>3 DEF SnccInv, SignalsCounted, SnccStatus
<1>2. CASE \E cmdOk, snccOk \in BOOLEAN, mask \in Masks : Check(cmdOk, snccOk, mask)
  <2>1. PICK snccOk \in BOOLEAN, mask \in Masks : PostProcess(snccOk, mask) /\ inq' = NoNode
    BY <1>2 DEF Check
  <2>2. NoNode \notin Node
    BY SizesAssumption DEF NoNode, Node
  <2>3. num' = Cardinality(Pending(inStatus')) /\ lastNodeServiced' \in Node
    BY <2>1, <2>2 DEF PostProcess, SnccInv
  <2>4. inStatus' \in [Node -> SnccStatus]
    BY <2>1 DEF PostProcess, SnccInv, SnccStatus
  <2>5. \A n \in Node : inStatus[n] = "signal" => inStatus'[n] = "signal"
    BY <2>1 DEF PostProcess, SnccInv
  <2> QED
    BY <2>1, <2>2, <2>3, <2>4, <2>5 DEF SnccInv, SignalsCounted
<1>3. CASE \/ Insert \/ Pass \/ \E latchLow \in BOOLEAN : IdleSend(latchLow)
           \/ \E b \in Buffer : DelayElapsed(b)
           \/ UNCHANGED vars
  <2>1. /\ UNCHANGED <<inStatus, lastNodeServiced, num, inq>>
        /\ pc' = "check" <=> pc = "check"
    <3>1. CASE Insert
      BY <3>1 DEF Insert, IdleInsert, EndPassInsert, StartPass, AfterPass, snccVars
    <3>2. CASE Pass
      BY <3>2 DEF Pass, ScanEmpty, ScanSend, ScanWait, Settle, EndPass, NextRow,
                  StartPass, AfterPass, snccVars
    <3>3. CASE \E latchLow \in BOOLEAN : IdleSend(latchLow)
      BY <3>3 DEF IdleSend, snccVars
    <3>4. CASE \E b \in Buffer : DelayElapsed(b)
      BY <3>4 DEF DelayElapsed, snccVars
    <3>5. CASE UNCHANGED vars
      BY <3>5 DEF vars, snccVars
    <3> QED
      BY <1>3, <3>1, <3>2, <3>3, <3>4, <3>5
  <2> QED
    BY <2>1 DEF SnccInv, SignalsCounted
<1>4. CASE IdleSend(TRUE) \/ Send
  <2>1. CASE \E latchLow \in BOOLEAN : IdleSend(latchLow)
    BY <1>3, <2>1
  <2>2. CASE \/ \E preamble \in Preambles : Header(preamble)
             \/ \E cmdOk, snccOk \in BOOLEAN, mask \in Masks : Check(cmdOk, snccOk, mask)
    BY <1>1, <1>2, <2>2
  <2> QED
    BY <1>4, <2>1, <2>2 DEF Send
<1> QED
  BY <1>3, <1>4 DEF Next

LEMMA SnccInvariance == Spec => []SnccInv
<1>1. Init => SnccInv
  <2>1. SUFFICES ASSUME Init PROVE SnccInv
    OBVIOUS
  <2>2. /\ inStatus = [n \in Node |-> "none"] /\ lastNodeServiced = 0
        /\ num = 0 /\ inq = NoNode
    BY <2>1 DEF Init
  <2>3. \A n \in Node : inStatus[n] # "signal"
    BY <2>2
  <2>4. Pending(inStatus) = {}
    BY <2>3 DEF Pending
  <2>5. SignalsCounted
    BY <2>2, <2>4, FS_EmptySet DEF SignalsCounted
  <2>6. 0 \in Node /\ NoNode \notin Node
    BY SizesAssumption DEF Node, NoNode
  <2> QED
    BY <2>2, <2>5, <2>6 DEF SnccInv, SnccStatus
<1>2. SnccInv /\ [Next]_vars => SnccInv'
  BY NextSnccInv
<1> QED
  BY <1>1, <1>2, PTL DEF Spec

(* numSNCCRequests, which decides whether the idle daemon polls the bus    *)
(* and where it looks for the node to ask, counts the pending signals.     *)
THEOREM SignalsAreCounted == Spec => []SignalsCounted
<1>1. SnccInv => SignalsCounted
  BY DEF SnccInv
<1> QED
  BY <1>1, SnccInvariance, PTL

(* Once the daemon has seen a node's signal it never forgets it before it  *)
(* inquires that node.                                                     *)
THEOREM SignalsAreKept == Spec => SignalKept
<1>1. SnccInv /\ [Next]_vars =>
        [\A n \in Node : inStatus[n] = "signal" /\ inStatus'[n] # "signal"
                            => inq' = n]_vars
  BY NextSnccInv
<1> QED
  BY <1>1, SnccInvariance, PTL DEF Spec, SignalKept

=============================================================================

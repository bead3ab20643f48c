---------------------------- MODULE OutboxProofs ----------------------------
(***************************************************************************)
(* Daemon implements the safety of Outbox, for every number of nodes, row  *)
(* length, pool size and error limit: seen through rows, heads and error   *)
(* counts, each step of the daemon is a step of the FIFO or none.          *)
(***************************************************************************)
EXTENDS DaemonProofs

(* What Outbox sees: a row q, with the messages m behind its buffers.      *)
Filled(q) == QueueLen - Cardinality({k \in Slot : q[k] = Null})
Payloads(q, m) == [k \in 1..Filled(q) |-> m[q[k - 1]].cmd]
Tries(q, m) == IF q[0] = Null THEN 0 ELSE m[q[0]].transferError
Acked(q, m) == q[0] # Null /\ m[q[0]].status = "transferred"

Rowlike(q) == /\ q \in [Slot -> Buffer \cup {Null}]
              /\ \A k \in Slot \ {0} : q[k] # Null => q[k - 1] # Null

Messages == [Buffer -> [status : CmdStatus, transferError : 0..MaxErrors,
                        destination : Row, cmd : Cmd, waiting : BOOLEAN]]

LEMMA SlotZero == 0 \in Slot /\ QueueLen \in Nat \ {0} /\ Null \notin Buffer
BY SizesAssumption DEF Slot, Null, Buffer

(* Counting the free slots of a row without holes tells where it ends.     *)
LEMMA RowEnds ==
  ASSUME NEW q, Rowlike(q), NEW n \in 0..QueueLen,
         \A k \in Slot : q[k] # Null <=> k < n
  PROVE  Filled(q) = n
<1>1. {k \in Slot : q[k] = Null} = n..(QueueLen - 1)
  BY SizesAssumption DEF Slot
<1>2. Cardinality(n..(QueueLen - 1)) = QueueLen - n
  BY SizesAssumption, FS_Interval
<1>3. Filled(q) = QueueLen - (QueueLen - n)
  BY <1>1, <1>2 DEF Filled
<1> QED BY <1>3, SizesAssumption

LEMMA RowFilled ==
  ASSUME NEW q, Rowlike(q)
  PROVE  /\ Filled(q) \in 0..QueueLen
         /\ \A k \in Slot : q[k] # Null <=> k < Filled(q)
<1> DEFINE free == {k \in Slot : q[k] = Null}
<1>1. CASE free = {}
  <2>1. \A k \in Slot : q[k] # Null <=> k < QueueLen
    BY <1>1, SizesAssumption DEF Slot
  <2>2. Filled(q) = QueueLen
    BY <2>1, RowEnds, SizesAssumption
  <2> QED BY <2>1, <2>2, SizesAssumption
<1>2. CASE free # {}
  <2> DEFINE n == LeastOf(free)
  <2>1. n \in free /\ \A k \in free : n <= k
    <3>1. free \in SUBSET Nat
      BY SizesAssumption DEF Slot
    <3> QED BY <1>2, <3>1, LeastExists
  <2>2. ASSUME NEW k \in Slot, q[k] # Null PROVE k < n
    <3> DEFINE late == {l \in Slot : n <= l /\ q[l] # Null}
               l == LeastOf(late)
    <3>1. SUFFICES ASSUME late # {} PROVE FALSE
      <4>1. k \notin late
        BY <3>1
      <4> QED BY <2>1, <2>2, <4>1, SizesAssumption DEF Slot
    <3>2. l \in late /\ \A j \in late : l <= j
      <4>1. late \in SUBSET Nat
        BY SizesAssumption DEF Slot
      <4> QED BY <3>1, <4>1, LeastExists
    <3>3. l \in Slot /\ n \in Slot /\ q[n] = Null /\ n <= l /\ q[l] # Null /\ n # l
      BY <2>1, <3>2
    <3>4. l - 1 \in Slot /\ n <= l - 1 /\ l \in Slot \ {0}
      BY <3>3, SizesAssumption DEF Slot
    <3>5. q[l - 1] # Null
      BY <3>3, <3>4 DEF Rowlike
    <3>6. l - 1 \in late
      BY <3>4, <3>5
    <3>7. l \in Int /\ l <= l - 1
      BY <3>2, <3>3, <3>6, SizesAssumption DEF Slot
    <3> HIDE DEF l
    <3> QED BY <3>7
  <2>3. \A k \in Slot : q[k] # Null <=> k < n
    <3>1. ASSUME NEW k \in Slot, q[k] = Null PROVE ~ (k < n)
      BY <2>1, <3>1, SizesAssumption DEF Slot
    <3> QED BY <2>2, <3>1
  <2>4. n \in 0..QueueLen
    BY <2>1, SizesAssumption DEF Slot
  <2> HIDE DEF n
  <2>5. Filled(q) = n
    BY <2>3, <2>4, RowEnds
  <2> QED BY <2>3, <2>4, <2>5
<1> QED BY <1>1, <1>2

(* A row that is the same, with payloads that are, holds the same commands.*)
LEMMA SamePayloads ==
  ASSUME NEW q, Rowlike(q), NEW m, NEW p,
         \A k \in Slot : q[k] # Null => p[q[k]].cmd = m[q[k]].cmd
  PROVE  Payloads(q, p) = Payloads(q, m)
<1>1. \A k \in 1..Filled(q) : k - 1 \in Slot /\ q[k - 1] # Null
  BY RowFilled, SizesAssumption DEF Slot
<1>2. \A k \in 1..Filled(q) : p[q[k - 1]].cmd = m[q[k - 1]].cmd
  BY <1>1
<1> QED BY <1>2 DEF Payloads

(* insertNewCmds appends to a row, and leaves its head alone.              *)
Inserts(q, m, f, b, rec, s, p) ==
  /\ Rowlike(q) /\ m \in Messages
  /\ f \in Slot /\ q[f] = Null /\ \A k \in Slot : q[k] = Null => f <= k
  /\ b \in Buffer /\ \A k \in Slot : q[k] # b
  /\ rec.transferError = 0 /\ rec.status = "new"
  /\ s = [q EXCEPT ![f] = b] /\ Rowlike(s) /\ p = [m EXCEPT ![b] = rec]

LEMMA InsertAppends ==
  ASSUME NEW q, NEW m, NEW f, NEW b, NEW rec, NEW s, NEW p, Inserts(q, m, f, b, rec, s, p)
  PROVE  /\ Len(Payloads(q, m)) < QueueLen
         /\ Payloads(s, p) = Append(Payloads(q, m), rec.cmd)
         /\ Tries(s, p) = Tries(q, m)
         /\ Acked(s, p) = Acked(q, m)
<1> USE DEF Inserts
<1>1. /\ Filled(q) \in 0..QueueLen
      /\ \A k \in Slot : q[k] # Null <=> k < Filled(q)
  BY RowFilled
<1>2. Filled(q) = f
  <2>1. ~ (f < Filled(q))
    BY <1>1
  <2>2. ASSUME Filled(q) < f PROVE FALSE
    <3>1. Filled(q) \in Slot /\ ~ (Filled(q) < Filled(q))
      BY <1>1, <2>2, SizesAssumption DEF Slot
    <3>2. q[Filled(q)] = Null
      BY <1>1, <3>1
    <3> QED BY <2>2, <3>1, <3>2, SizesAssumption DEF Slot
  <2> QED BY <1>1, <2>1, <2>2, SizesAssumption DEF Slot
<1>3. /\ q \in [Slot -> Buffer \cup {Null}]
      /\ s[f] = b /\ \A k \in Slot \ {f} : s[k] = q[k]
  BY DEF Rowlike
<1>4. Filled(s) = f + 1
  <2>1. \A k \in Slot : s[k] # Null <=> k < f + 1
    BY <1>1, <1>2, <1>3, SlotZero, SizesAssumption DEF Slot
  <2>2. f + 1 \in 0..QueueLen
    BY SizesAssumption DEF Slot
  <2> QED BY <2>1, <2>2, RowEnds
<1>5. p[b] = rec /\ \A x \in Buffer \ {b} : p[x] = m[x]
  BY DEF Messages
<1>6. \A k \in 1..f : k - 1 \in Slot \ {f} /\ q[k - 1] \in Buffer \ {b}
  BY <1>1, <1>2, <1>3, SizesAssumption DEF Slot
<1>7. \A k \in 1..f : p[s[k - 1]].cmd = m[q[k - 1]].cmd
  BY <1>3, <1>5, <1>6
<1>8. f \in Nat /\ f < QueueLen
  BY SizesAssumption DEF Slot
<1>9. Payloads(s, p) = Append(Payloads(q, m), rec.cmd)
  <2>1. Payloads(q, m) = [k \in 1..f |-> m[q[k - 1]].cmd]
    BY <1>2 DEF Payloads
  <2>2. Payloads(s, p) = [k \in 1..(f + 1) |-> p[s[k - 1]].cmd]
    BY <1>4 DEF Payloads
  <2>3. p[s[(f + 1) - 1]].cmd = rec.cmd
    BY <1>3, <1>5, <1>8
  <2>4. Len(Payloads(q, m)) = f
    BY <1>8, <2>1
  <2>5. Append(Payloads(q, m), rec.cmd)
          = [k \in 1..(f + 1) |-> IF k = f + 1 THEN rec.cmd ELSE m[q[k - 1]].cmd]
    BY <1>8, <2>1, <2>4
  <2>6. \A k \in 1..(f + 1) : p[s[k - 1]].cmd = IF k = f + 1 THEN rec.cmd ELSE m[q[k - 1]].cmd
    BY <1>7, <1>8, <2>3
  <2>7. [k \in 1..(f + 1) |-> p[s[k - 1]].cmd]
          = [k \in 1..(f + 1) |-> IF k = f + 1 THEN rec.cmd ELSE m[q[k - 1]].cmd]
    BY <2>6, Zenon
  <2> QED BY <2>2, <2>5, <2>7, Zenon
<1>10. Len(Payloads(q, m)) < QueueLen
  BY <1>2, <1>8 DEF Payloads
<1>11. Tries(s, p) = Tries(q, m) /\ Acked(s, p) = Acked(q, m)
  <2>1. CASE f = 0
    BY <1>3, <1>5, <2>1, SlotZero DEF Tries, Acked
  <2>2. CASE f # 0
    <3>1. s[0] = q[0] /\ q[0] \in Buffer \ {b}
      BY <1>1, <1>2, <1>3, <1>8, <2>2, SlotZero
    <3> QED BY <1>5, <3>1, SlotZero DEF Tries, Acked
  <2> QED BY <2>1, <2>2
<1> QED BY <1>9, <1>10, <1>11

(* processNodeQueue takes the head off a row.                              *)
LEMMA PopIsTail ==
  ASSUME NEW q, Rowlike(q), q[0] # Null, NEW m, NEW p,
         NEW s, Rowlike(s),
         s = [k \in Slot |-> IF k = QueueLen - 1 THEN Null ELSE q[k + 1]],
         \A k \in Slot : s[k] # Null => p[s[k]].cmd = m[s[k]].cmd
  PROVE  /\ Payloads(q, m) # << >>
         /\ Payloads(s, p) = Tail(Payloads(q, m))
<1>1. /\ Filled(q) \in 0..QueueLen
      /\ \A k \in Slot : q[k] # Null <=> k < Filled(q)
  BY RowFilled
<1>2. Filled(q) \in 1..QueueLen
  BY <1>1, SlotZero
<1> DEFINE n == Filled(q)
<1>3. \A k \in Slot : s[k] # Null <=> k < n - 1
  <2>1. SUFFICES ASSUME NEW k \in Slot PROVE s[k] # Null <=> k < n - 1
    OBVIOUS
  <2>2. CASE k = QueueLen - 1
    BY <1>2, <2>2, SizesAssumption
  <2>3. CASE k # QueueLen - 1
    <3>1. k + 1 \in Slot /\ s[k] = q[k + 1]
      BY <2>3, SizesAssumption DEF Slot
    <3> QED BY <1>1, <1>2, <3>1, SizesAssumption DEF Slot
  <2> QED BY <2>2, <2>3
<1>4. Filled(s) = n - 1
  <2>1. n - 1 \in 0..QueueLen
    BY <1>2, SizesAssumption
  <2> QED BY <1>3, <2>1, RowEnds
<1>5. \A k \in 1..(n - 1) : k - 1 \in Slot /\ s[k - 1] = q[k] /\ s[k - 1] # Null
  <2> HIDE DEF n
  <2>1. SUFFICES ASSUME NEW k \in 1..(n - 1)
                 PROVE k - 1 \in Slot /\ s[k - 1] = q[k] /\ s[k - 1] # Null
    OBVIOUS
  <2>2. /\ k - 1 \in Slot /\ k - 1 # QueueLen - 1 /\ (k - 1) + 1 = k
        /\ k - 1 < n - 1
    <3>1. n \in 1..QueueLen
      BY <1>2 DEF n
    <3> QED BY <3>1, SizesAssumption DEF Slot
  <2> QED BY <1>3, <2>2
<1>6. \A k \in 1..(n - 1) : p[s[k - 1]].cmd = m[q[k]].cmd
  BY <1>5
<1>7. Payloads(q, m) = [k \in 1..n |-> m[q[k - 1]].cmd]
  BY DEF Payloads
<1>8. Payloads(s, p) = [k \in 1..(n - 1) |-> p[s[k - 1]].cmd]
  BY <1>4 DEF Payloads
<1>9. n \in Nat \ {0}
  BY <1>2, SizesAssumption
<1> HIDE DEF n
<1>10. Len(Payloads(q, m)) = n
  BY <1>7, <1>9
<1>11. Tail(Payloads(q, m)) = [k \in 1..(n - 1) |-> Payloads(q, m)[k + 1]]
  <2> DEFINE z == Payloads(q, m)
             T == {z[k] : k \in 1..n}
  <2>1. z \in Seq(T) /\ z # << >>
    <3>1. z \in [1..n -> T]
      BY <1>7
    <3>2. n \in Nat
      BY <1>9
    <3> HIDE DEF z, T
    <3>3. z \in Seq(T)
      BY <3>1, <3>2
    <3>4. Len(z) = n
      BY <1>10 DEF z
    <3> QED BY <1>9, <3>3, <3>4
  <2> HIDE DEF z, T
  <2>2. /\ Tail(z) \in Seq(T) /\ Len(Tail(z)) = n - 1
        /\ \A k \in 1..Len(Tail(z)) : Tail(z)[k] = z[k + 1]
    BY <1>10, <2>1, HeadTailProperties DEF z
  <2>3. Tail(z) = [k \in 1..(n - 1) |-> Tail(z)[k]]
    <3> DEFINE t == Tail(z)
    <3>1. t \in Seq(T) /\ Len(t) = n - 1
      BY <2>2
    <3> HIDE DEF t
    <3>2. t = [k \in 1..(n - 1) |-> t[k]]
      BY <3>1
    <3> QED BY <3>2 DEF t
  <2> QED BY <2>2, <2>3 DEF z
<1>12. \A k \in 1..(n - 1) : Payloads(q, m)[k + 1] = m[q[k]].cmd
  <2>1. \A k \in 1..(n - 1) : k + 1 \in 1..n /\ (k + 1) - 1 = k
    BY <1>9
  <2> QED BY <1>7, <2>1
<1>13. [k \in 1..(n - 1) |-> p[s[k - 1]].cmd] = [k \in 1..(n - 1) |-> Payloads(q, m)[k + 1]]
  BY <1>6, <1>12
<1>14. Payloads(q, m) # << >>
  BY <1>9, <1>10
<1> QED BY <1>8, <1>11, <1>13, <1>14

-----------------------------------------------------------------------------
(* The state of Outbox that a state of the daemon stands for, row by row.  *)
HeadTries(r) == IF Head0(r) = Null THEN 0 ELSE msg[Head0(r)].transferError
HeadAcked(r) == Head0(r) # Null /\ msg[Head0(r)].status = "transferred"
Same(r) == /\ Commands(r)' = Commands(r)
           /\ HeadTries(r)' = HeadTries(r) /\ HeadAcked(r)' = HeadAcked(r)
OutboxStep == Outbox!Next \/ UNCHANGED Outbox!vars

LEMMA Seen ==
  ASSUME NEW r
  PROVE  /\ Commands(r) = Payloads(outQueues[r], msg)
         /\ HeadTries(r) = Tries(outQueues[r], msg)
         /\ HeadAcked(r) = Acked(outQueues[r], msg)
         /\ Commands(r)' = Payloads(outQueues'[r], msg')
         /\ HeadTries(r)' = Tries(outQueues'[r], msg')
         /\ HeadAcked(r)' = Acked(outQueues'[r], msg')
BY DEF Commands, Payloads, Filled, FreeSlots, HeadTries, Tries, HeadAcked, Acked, Head0

(* The invariant says both states of a step have rows without holes.       *)
LEMMA RowsAreRowlike ==
  /\ IInv => (\A r \in Row : Rowlike(outQueues[r])) /\ msg \in Messages
  /\ IInv' => (\A r \in Row : Rowlike(outQueues'[r])) /\ msg' \in Messages
BY DEF IInv, TypeOK, RowsContiguous, Rowlike, Messages

(* A row looks the same when its messages keep what Outbox sees of them.   *)
LEMMA QuietRow ==
  ASSUME IInv, NEW r \in Row, outQueues'[r] = outQueues[r],
         \A k \in Slot : outQueues[r][k] # Null =>
            /\ msg'[outQueues[r][k]].cmd = msg[outQueues[r][k]].cmd
            /\ msg'[outQueues[r][k]].transferError = msg[outQueues[r][k]].transferError
            /\ msg'[outQueues[r][k]].status = "transferred"
                 <=> msg[outQueues[r][k]].status = "transferred"
  PROVE  Same(r)
<1> DEFINE q == outQueues[r]
<1>1. Rowlike(q)
  BY RowsAreRowlike
<1>2. Payloads(q, msg') = Payloads(q, msg)
  <2>1. \A k \in Slot : q[k] # Null => msg'[q[k]].cmd = msg[q[k]].cmd
    OBVIOUS
  <2> HIDE DEF q
  <2> DEFINE p == msg'
  <2> HIDE DEF p
  <2>2. \A k \in Slot : q[k] # Null => p[q[k]].cmd = msg[q[k]].cmd
    BY <2>1 DEF p
  <2>3. Payloads(q, p) = Payloads(q, msg)
    BY <1>1, <2>2, SamePayloads
  <2> QED BY <2>3 DEF p
<1>3. Tries(q, msg') = Tries(q, msg) /\ (Acked(q, msg') <=> Acked(q, msg))
  BY SlotZero DEF Tries, Acked
<1>4. Acked(q, msg') \in BOOLEAN /\ Acked(q, msg) \in BOOLEAN
  BY DEF Acked
<1> QED BY <1>2, <1>3, <1>4, Seen DEF Same

LEMMA NothingSeen ==
  ASSUME \A r \in Row : Same(r)
  PROVE  OutboxStep
BY DEF OutboxStep, Outbox!vars, Same, HeadTries, HeadAcked

LEMMA AcceptSeen ==
  ASSUME NEW n \in Row, NEW c \in Cmd,
         Len(Commands(n)) < QueueLen, Outbox!Held < PoolSize,
         Commands(n)' = Append(Commands(n), c),
         HeadTries(n)' = HeadTries(n), HeadAcked(n)' = HeadAcked(n),
         \A r \in Row \ {n} : Same(r)
  PROVE  OutboxStep
<1>1. Outbox!Accept(n, c)
  BY DEF Outbox!Accept, Same, HeadTries, HeadAcked
<1> QED BY <1>1 DEF OutboxStep, Outbox!Next

LEMMA AcknowledgeSeen ==
  ASSUME NEW n \in Row, Commands(n) # << >>, ~HeadAcked(n), HeadTries(n) < MaxErrors,
         Commands(n)' = Commands(n), HeadTries(n)' = HeadTries(n), HeadAcked(n)',
         \A r \in Row \ {n} : Same(r)
  PROVE  OutboxStep
<1>1. HeadAcked(n)' = TRUE
  BY DEF HeadAcked
<1>2. Outbox!Acknowledge(n)
  BY <1>1 DEF Outbox!Acknowledge, Outbox!Trying, Same, HeadTries, HeadAcked
<1> QED BY <1>2 DEF OutboxStep, Outbox!Next

LEMMA FailSeen ==
  ASSUME NEW n \in Row, Commands(n) # << >>, ~HeadAcked(n), HeadTries(n) < MaxErrors,
         Commands(n)' = Commands(n), HeadTries(n)' = HeadTries(n) + 1,
         HeadAcked(n)' = HeadAcked(n),
         \A r \in Row \ {n} : Same(r)
  PROVE  OutboxStep
<1>1. Outbox!Fail(n)
  BY DEF Outbox!Fail, Outbox!Trying, Same, HeadTries, HeadAcked
<1> QED BY <1>1 DEF OutboxStep, Outbox!Next

LEMMA LeaveSeen ==
  ASSUME NEW n \in Row, Commands(n) # << >>, HeadAcked(n) \/ HeadTries(n) = MaxErrors,
         Commands(n)' = Tail(Commands(n)), HeadTries(n)' = 0, ~HeadAcked(n)',
         \A r \in Row \ {n} : Same(r)
  PROVE  OutboxStep
<1>1. HeadAcked(n)' = FALSE
  BY DEF HeadAcked
<1>2. Outbox!Leave(n)
  BY <1>1 DEF Outbox!Leave, Same, HeadTries, HeadAcked
<1> QED BY <1>2 DEF OutboxStep, Outbox!Next

(* While a buffer is free, the rows hold fewer commands than there are     *)
(* buffers: each command has a buffer of its own, and the free one is none *)
(* of them.                                                                *)
LEMMA RoomInPool ==
  ASSUME IInv, pool # << >>
  PROVE  Outbox!Held < PoolSize
<1> DEFINE P == UNION {{n} \X DOMAIN [r \in Row |-> Commands(r)][n] : n \in Row}
           f == [x \in P |-> outQueues[x[1]][x[2] - 1]]
           h == Head(pool)
<1>1. h \in Buffer /\ \A r \in Row, k \in Slot : outQueues[r][k] # h
  <2>1. pool \in Seq(Buffer)
    BY DEF IInv, TypeOK
  <2>2. 1 \in 1..Len(pool) /\ h = pool[1] /\ h \in Buffer
    BY <2>1
  <2> QED BY <2>2 DEF IInv, BuffersConserved, SlotsNotFree
<1>2. ASSUME NEW x \in P
      PROVE  /\ x[1] \in Row /\ x[2] - 1 \in Slot /\ x[2] \in Nat
             /\ f[x] \in Buffer \ {h} /\ x = <<x[1], x[2]>>
  <2>1. PICK n \in Row : x \in {n} \X DOMAIN Commands(n)
    BY <1>2
  <2>2. x[1] = n /\ x[2] \in DOMAIN Commands(n) /\ x = <<x[1], x[2]>>
    BY <2>1
  <2>3. x[2] \in 1..Filled(outQueues[n])
    BY <2>2, Seen DEF Payloads
  <2>4. /\ Filled(outQueues[n]) \in 0..QueueLen
        /\ \A k \in Slot : outQueues[n][k] # Null <=> k < Filled(outQueues[n])
    BY RowsAreRowlike, RowFilled
  <2>5. x[2] \in Nat /\ x[2] - 1 \in Slot /\ x[2] - 1 < Filled(outQueues[n])
    BY <2>3, <2>4, SizesAssumption DEF Slot
  <2>6. outQueues[n][x[2] - 1] \in Buffer
    BY <2>4, <2>5 DEF IInv, TypeOK
  <2> QED BY <1>1, <2>2, <2>5, <2>6
<1>3. ASSUME NEW x \in P, NEW y \in P, f[x] = f[y] PROVE x = y
  <2>1. outQueues[x[1]][x[2] - 1] = outQueues[y[1]][y[2] - 1]
    BY <1>3
  <2>2. x[1] = y[1] /\ x[2] - 1 = y[2] - 1
    <3>1. outQueues[x[1]][x[2] - 1] # Null
      BY <1>2, SlotZero
    <3> HIDE DEF P
    <3> QED BY <1>2, <2>1, <3>1 DEF IInv, BuffersConserved, SlotsDistinct
  <2>3. x[2] = y[2]
    <3>1. x[2] \in Nat /\ y[2] \in Nat
      BY <1>2
    <3> QED BY <2>2, <3>1
  <2> QED BY <1>2, <2>2, <2>3
<1>4. f \in Injection(P, Buffer \ {h})
  <2>1. f \in [P -> Buffer \ {h}]
    BY <1>2
  <2>2. \A x, y \in P : f[x] = f[y] => x = y
    BY <1>3
  <2> HIDE DEF P, f
  <2> QED BY <2>1, <2>2 DEF Injection, IsInjective
<1>5. IsFiniteSet(Buffer) /\ Cardinality(Buffer) = PoolSize
  BY SizesAssumption, FS_Interval DEF Buffer
<1>6. IsFiniteSet(Buffer \ {h}) /\ Cardinality(Buffer \ {h}) = PoolSize - 1
  BY <1>1, <1>5, FS_RemoveElement
<1>7. IsFiniteSet(P) /\ Cardinality(P) <= PoolSize - 1
  <2> HIDE DEF P, f
  <2> QED BY <1>4, <1>6, FS_Injection
<1>8. Cardinality(P) \in Nat
  <2> HIDE DEF P
  <2> QED BY <1>7, FS_CardinalityType
<1>9. Outbox!Held = Cardinality(P)
  <2>1. P = UNION {{n} \X DOMAIN [r \in Row |-> Commands(r)][n] : n \in Row}
    OBVIOUS
  <2> HIDE DEF P, f, h
  <2>2. Outbox!Held = Outbox!Cardinality(P)
    BY <2>1 DEF Outbox!Held
  <2>3. Outbox!Cardinality(P) = Cardinality(P)
    BY DEF Cardinality, Outbox!Cardinality
  <2> QED BY <2>2, <2>3
<1> HIDE DEF P
<1> QED BY <1>7, <1>8, <1>9, SizesAssumption

-----------------------------------------------------------------------------
(* One lemma per kind of step of the daemon.                               *)

(* A buffer is in one row only: its message says nothing of the others.    *)
LEMMA OtherRowsQuiet ==
  ASSUME IInv, NEW n \in Row,
         \A r \in Row \ {n} : outQueues'[r] = outQueues[r],
         \A b \in Buffer : b # Head0(n) => msg'[b] = msg[b], Head0(n) # Null
  PROVE  \A r \in Row \ {n} : Same(r)
<1>1. SUFFICES ASSUME NEW r \in Row \ {n} PROVE Same(r)
  OBVIOUS
<1>2. \A k \in Slot : outQueues[r][k] # Null =>
         outQueues[r][k] \in Buffer /\ outQueues[r][k] # Head0(n)
  BY SlotZero DEF IInv, TypeOK, BuffersConserved, SlotsDistinct, Head0
<1>3. \A k \in Slot : outQueues[r][k] # Null => msg'[outQueues[r][k]] = msg[outQueues[r][k]]
  BY <1>2
<1> QED BY <1>3, QuietRow

LEMMA InsertSeen ==
  ASSUME IInv, IInv', NEW d \in Row, NEW c \in Cmd, InsertNewCmds(d, c)
  PROVE  OutboxStep
<1> DEFINE q == outQueues[d]
           f == FreeSlot(d)
           b == Head(pool)
           rec == [status |-> "new", transferError |-> 0, destination |-> d,
                   cmd |-> c, waiting |-> msg[b].waiting]
           s == outQueues'[d]
           p == msg'
<1>1. /\ pool # << >> /\ FreeSlots(d) # {}
      /\ outQueues' = [outQueues EXCEPT ![d][f] = b]
      /\ msg' = [msg EXCEPT ![b] = rec]
  BY DEF InsertNewCmds, CanInsert
<1>2. f \in Slot /\ q[f] = Null /\ \A k \in Slot : q[k] = Null => f <= k
  BY <1>1, FreeSlotIsFirst
<1>3. b \in Buffer /\ \A r \in Row, k \in Slot : outQueues[r][k] # b
  <2>1. pool \in Seq(Buffer)
    BY DEF IInv, TypeOK
  <2>2. 1 \in 1..Len(pool) /\ b = pool[1] /\ b \in Buffer
    BY <1>1, <2>1
  <2> QED BY <2>2 DEF IInv, BuffersConserved, SlotsNotFree
<1>4. outQueues \in [Row -> [Slot -> Buffer \cup {Null}]] /\ msg \in Messages
  BY DEF IInv, TypeOK, Messages
<1>5. s = [q EXCEPT ![f] = b] /\ \A r \in Row \ {d} : outQueues'[r] = outQueues[r]
  BY <1>1, <1>4
<1>6. Rowlike(q) /\ Rowlike(s)
  BY RowsAreRowlike
<1>7. /\ Len(Payloads(q, msg)) < QueueLen
      /\ Payloads(s, p) = Append(Payloads(q, msg), c)
      /\ Tries(s, p) = Tries(q, msg)
      /\ Acked(s, p) = Acked(q, msg)
  <2>1. rec.cmd = c /\ rec.transferError = 0 /\ rec.status = "new"
    OBVIOUS
  <2>2. p = [msg EXCEPT ![b] = rec]
    BY <1>1
  <2>3. \A k \in Slot : q[k] # b
    BY <1>3
  <2>4. b \in Buffer
    BY <1>3
  <2> HIDE DEF q, f, b, rec, s, p
  <2>5. s = [q EXCEPT ![f] = b]
    BY <1>5
  <2>6. Inserts(q, msg, f, b, rec, s, p)
    BY <1>2, <1>4, <1>6, <2>1, <2>2, <2>3, <2>4, <2>5 DEF Inserts
  <2>7. /\ Len(Payloads(q, msg)) < QueueLen
        /\ Payloads(s, p) = Append(Payloads(q, msg), rec.cmd)
        /\ Tries(s, p) = Tries(q, msg)
        /\ Acked(s, p) = Acked(q, msg)
    BY <2>6, InsertAppends
  <2> QED BY <2>1, <2>7
<1>8. \A r \in Row \ {d} : Same(r)
  <2>1. SUFFICES ASSUME NEW r \in Row \ {d} PROVE Same(r)
    OBVIOUS
  <2>2. \A k \in Slot : outQueues[r][k] # Null =>
           outQueues[r][k] \in Buffer \ {b}
    BY <1>3, <1>4
  <2>3. \A x \in Buffer \ {b} : msg'[x] = msg[x]
    BY <1>1, <1>4 DEF Messages
  <2>4. \A k \in Slot : outQueues[r][k] # Null =>
           msg'[outQueues[r][k]] = msg[outQueues[r][k]]
    BY <2>2, <2>3
  <2> QED BY <1>5, <2>4, QuietRow
<1>9. Outbox!Held < PoolSize
  BY <1>1, RoomInPool
<1>10. /\ Len(Commands(d)) < QueueLen
       /\ Commands(d)' = Append(Commands(d), c)
       /\ HeadTries(d)' = HeadTries(d) /\ HeadAcked(d)' = HeadAcked(d)
  BY <1>7, Seen
<1> QED BY <1>8, <1>9, <1>10, AcceptSeen

(* Before the bookkeeping, a head that is sent is untried or to be retried.*)
LEMMA HeadOpen ==
  ASSUME IInv, pc \in {"header", "check"}, sending # Null
  PROVE  /\ i \in Row /\ sending = Head0(i) /\ sending \in Buffer
         /\ Head0(i) # Null
         /\ msg[sending].status \in {"new", "queued"}
         /\ msg[sending].transferError < MaxErrors
         /\ Commands(i) # << >> /\ ~HeadAcked(i) /\ HeadTries(i) < MaxErrors
<1>1. i \in Row /\ sending = outQueues[i][0] /\ sending \in Buffer
  BY RowAndSlot DEF IInv, TypeOK, Control
<1>2. msg[sending].status \in {"new", "queued"} /\ msg[sending].transferError < MaxErrors
  BY <1>1 DEF IInv, Settled
<1>3. Commands(i) # << >>
  <2>1. Filled(outQueues[i]) \in 0..QueueLen /\ 0 < Filled(outQueues[i])
    BY <1>1, RowsAreRowlike, RowFilled, SlotZero
  <2>2. 1 \in DOMAIN Commands(i)
    BY <2>1, Seen, SizesAssumption DEF Payloads
  <2> QED BY <2>2
<1> QED BY <1>1, <1>2, <1>3 DEF Head0, HeadAcked, HeadTries

LEMMA CheckSeen ==
  ASSUME IInv, NEW cmdOk \in BOOLEAN, NEW snccOk, NEW mask, Check(cmdOk, snccOk, mask)
  PROVE  OutboxStep
<1>1. outQueues' = outQueues /\ pc = "check" /\ msg \in Messages
  BY RowsAreRowlike DEF Check, queueVars
<1>2. CASE sending = Null
  <2>1. msg' = msg
    BY <1>2 DEF Check
  <2> QED BY <1>1, <2>1, QuietRow, NothingSeen
<1>3. CASE sending # Null
  <2>1. PICK n \in Row : n = i
    BY <1>1, <1>3, HeadOpen
  <2>2. /\ sending = Head0(n) /\ sending \in Buffer /\ Head0(n) # Null
        /\ msg[sending].status \in {"new", "queued"}
        /\ msg[sending].transferError < MaxErrors
        /\ Commands(n) # << >> /\ ~HeadAcked(n) /\ HeadTries(n) < MaxErrors
    BY <1>1, <1>3, <2>1, HeadOpen
  <2>3. \A b \in Buffer : b # sending => msg'[b] = msg[b]
    BY <1>1, <1>3 DEF Check, Messages
  <2>4. \A r \in Row \ {n} : Same(r)
    BY <1>1, <2>2, <2>3, OtherRowsQuiet
  <2>5. Head0(n)' = sending
    BY <1>1, <2>2 DEF Head0
  <2>6. Commands(n)' = Commands(n)
    <3>1. \A b \in Buffer : msg'[b].cmd = msg[b].cmd
      BY <1>1, <1>3, <2>2 DEF Check, Messages, Failed
    <3> DEFINE p == msg'
    <3>2. \A k \in Slot : outQueues[n][k] # Null =>
             p[outQueues[n][k]].cmd = msg[outQueues[n][k]].cmd
      BY <3>1 DEF IInv, TypeOK
    <3> HIDE DEF p
    <3>3. Payloads(outQueues[n], p) = Payloads(outQueues[n], msg)
      BY <3>2, RowsAreRowlike, SamePayloads
    <3> QED BY <1>1, <3>3, Seen DEF p
  <2>7. CASE cmdOk
    <3>1. msg' = [msg EXCEPT ![sending].status = "transferred"]
      BY <1>3, <2>7 DEF Check
    <3>2. /\ msg'[sending].status = "transferred"
          /\ msg'[sending].transferError = msg[sending].transferError
      BY <1>1, <2>2, <3>1 DEF Messages
    <3>3. HeadTries(n)' = HeadTries(n) /\ HeadAcked(n)'
      BY <1>3, <2>2, <2>5, <3>2 DEF HeadTries, HeadAcked
    <3> QED BY <2>2, <2>4, <2>6, <3>3, AcknowledgeSeen
  <2>8. CASE ~cmdOk
    <3>1. msg' = [msg EXCEPT ![sending] = Failed(@)]
      BY <1>3, <2>8 DEF Check
    <3>2. /\ msg'[sending].status = msg[sending].status
          /\ msg'[sending].transferError = msg[sending].transferError + 1
      BY <1>1, <2>2, <3>1 DEF Messages, Failed
    <3>3. HeadTries(n)' = HeadTries(n) + 1 /\ HeadAcked(n)' = HeadAcked(n)
      BY <1>3, <2>2, <2>5, <3>2 DEF HeadTries, HeadAcked
    <3> QED BY <2>2, <2>4, <2>6, <3>3, FailSeen
  <2> QED BY <2>7, <2>8
<1> QED BY <1>2, <1>3

(* The head that leaves takes its message with it; the next one is untried.*)
LEMMA SettleSeen ==
  ASSUME ShiftStride = 1, IInv, IInv', Settle
  PROVE  OutboxStep
<1>1. PICK n \in Row : n = i
  BY DEF IInv, TypeOK
<1> DEFINE b == Head0(n)
           gone == msg[b].status = "transferred"
           leaves == gone \/ Exhausted(b)
<1>2. /\ n \in Node /\ b # Null /\ b \in Buffer /\ msg \in Messages
      /\ outQueues \in [Row -> [Slot -> Buffer \cup {Null}]]
  BY <1>1, RowAndSlot, RowsAreRowlike DEF IInv, TypeOK, Control, Settle, Head0
<1>3. CASE ~leaves
  <2>1. outQueues' = outQueues /\ msg' = msg
    BY <1>1, <1>3 DEF Settle, queueVars
  <2> QED BY <2>1, QuietRow, NothingSeen
<1>4. CASE leaves
  <2>1. ProcessNodeQueue(n)
    BY <1>1, <1>4 DEF Settle
  <2>2. \A x \in Buffer : x # b => msg'[x] = msg[x]
    BY <1>1, <1>2 DEF Settle, Messages
  <2>3. \A x \in Buffer : msg'[x].cmd = msg[x].cmd
    BY <1>1, <1>2 DEF Settle, Messages
  <2>4. \A r \in Row \ {n} : outQueues'[r] = outQueues[r]
    BY <1>2, <2>1 DEF ProcessNodeQueue
  <2>5. \A r \in Row \ {n} : Same(r)
    BY <1>2, <2>2, <2>4, OtherRowsQuiet
  <2> DEFINE q == outQueues[n]
             s == outQueues'[n]
             p == msg'
  <2>6. s = [k \in Slot |-> IF k = QueueLen - 1 THEN Null ELSE q[k + 1]]
    <3>1. \A k \in Slot : ShiftSource(n, k) = IF k = QueueLen - 1 THEN Null ELSE q[k + 1]
      BY SizesAssumption DEF ShiftSource, Slot
    <3>2. s = [k \in Slot |-> ShiftSource(n, k)]
      BY <1>2, <2>1 DEF ProcessNodeQueue
    <3> QED BY <3>1, <3>2
  <2>7. Rowlike(q) /\ Rowlike(s) /\ q[0] # Null
    BY <1>2, RowsAreRowlike DEF Head0
  <2>8. Payloads(q, msg) # << >> /\ Payloads(s, p) = Tail(Payloads(q, msg))
    <3>1. \A k \in Slot : s[k] # Null => p[s[k]].cmd = msg[s[k]].cmd
      BY <2>3, <2>7 DEF Rowlike
    <3>2. q[0] # Null
      BY <2>7
    <3> HIDE DEF q, s, p
    <3> QED BY <2>6, <2>7, <3>1, <3>2, PopIsTail
  <2>9. Commands(n) # << >> /\ Commands(n)' = Tail(Commands(n))
    BY <2>8, Seen
  <2>10. HeadTries(n)' = 0 /\ ~HeadAcked(n)'
    <3>1. CASE s[0] = Null
      BY <3>1 DEF HeadTries, HeadAcked, Head0
    <3>2. CASE s[0] # Null
      <4>1. 0 \in Slot /\ 1 \in Slot \ {0} /\ s[0] = q[1]
        BY <2>6, <3>2, SlotZero, SizesAssumption DEF Slot
      <4>2. q[1] \in Buffer /\ q[1] # b
        BY <1>2, <3>2, <4>1 DEF Head0, IInv, BuffersConserved, SlotsDistinct
      <4>3. msg[q[1]].status = "new" /\ msg[q[1]].transferError = 0
        BY <3>2, <4>1 DEF IInv, OnlyHeadTried
      <4>4. p[s[0]].status = "new" /\ p[s[0]].transferError = 0
        BY <2>2, <4>1, <4>2, <4>3
      <4> QED BY <4>4 DEF HeadTries, HeadAcked, Head0
    <3> QED BY <3>1, <3>2
  <2>11. HeadAcked(n) \/ HeadTries(n) = MaxErrors
    <3>1. CASE gone
      BY <1>2, <3>1 DEF HeadAcked
    <3>2. CASE Exhausted(b)
      <4>1. msg[b].transferError \in 0..MaxErrors
        BY <1>2 DEF Messages
      <4> QED BY <1>2, <3>2, <4>1, SizesAssumption DEF Exhausted, HeadTries
    <3> QED BY <1>4, <3>1, <3>2
  <2> QED BY <2>5, <2>9, <2>10, <2>11, LeaveSeen
<1> QED BY <1>3, <1>4

LEMMA HeaderSeen ==
  ASSUME IInv, NEW preamble, Header(preamble)
  PROVE  OutboxStep
<1>1. outQueues' = outQueues /\ pc = "header" /\ msg \in Messages
  BY RowsAreRowlike DEF Header, queueVars
<1>2. \A b \in Buffer : /\ msg'[b].cmd = msg[b].cmd
                        /\ msg'[b].transferError = msg[b].transferError
                        /\ msg'[b].status = "transferred" <=> msg[b].status = "transferred"
  <2>1. CASE sending = Null
    BY <2>1 DEF Header
  <2>2. CASE sending # Null
    <3>1. sending \in Buffer /\ msg[sending].status \in {"new", "queued"}
      BY <1>1, <2>2, HeadOpen
    <3>2. msg' = [msg EXCEPT ![sending].status = "queued"]
      BY <2>2 DEF Header
    <3> QED BY <1>1, <3>1, <3>2 DEF Messages
  <2> QED BY <2>1, <2>2
<1>3. \A r \in Row, k \in Slot : outQueues[r][k] # Null => outQueues[r][k] \in Buffer
  BY DEF IInv, TypeOK
<1> QED BY <1>1, <1>2, <1>3, QuietRow, NothingSeen

LEMMA DelaySeen ==
  ASSUME IInv, NEW x \in Buffer, DelayElapsed(x)
  PROVE  OutboxStep
<1>1. outQueues' = outQueues /\ msg \in Messages
  BY RowsAreRowlike DEF DelayElapsed, queueVars
<1>2. \A b \in Buffer : /\ msg'[b].cmd = msg[b].cmd
                        /\ msg'[b].transferError = msg[b].transferError
                        /\ msg'[b].status = msg[b].status
  BY <1>1 DEF DelayElapsed, Messages
<1>3. \A r \in Row, k \in Slot : outQueues[r][k] # Null => outQueues[r][k] \in Buffer
  BY DEF IInv, TypeOK
<1> QED BY <1>1, <1>2, <1>3, QuietRow, NothingSeen

LEMMA StepSeen ==
  ASSUME ShiftStride = 1, IInv, [Next]_vars
  PROVE  OutboxStep
<1>1. IInv'
  BY NextIInv
<1>2. CASE Insert
  <2>1. Dests \subseteq Row
    BY WireAssumption DEF Row
  <2> QED BY <1>1, <1>2, <2>1, InsertSeen DEF Insert, IdleInsert, EndPassInsert
<1>3. CASE \E preamble \in Preambles : Header(preamble)
  BY <1>3, HeaderSeen
<1>4. CASE \E cmdOk, snccOk \in BOOLEAN, mask \in Masks : Check(cmdOk, snccOk, mask)
  BY <1>4, CheckSeen
<1>5. CASE Settle
  BY <1>1, <1>5, SettleSeen
<1>6. CASE \E b \in Buffer : DelayElapsed(b)
  BY <1>6, DelaySeen
<1>7. CASE \/ UNCHANGED vars \/ IdleSend(TRUE) \/ IdleSend(FALSE)
           \/ ScanEmpty \/ ScanSend \/ ScanWait \/ EndPass
  <2>1. outQueues' = outQueues /\ msg' = msg
    BY <1>7 DEF vars, queueVars, IdleSend, ScanEmpty, ScanSend, ScanWait, EndPass
  <2> QED BY <2>1, QuietRow, NothingSeen
<1> QED
  BY <1>2, <1>3, <1>4, <1>5, <1>6, <1>7 DEF Next, Send, Pass

(* The rows of the daemon are bounded FIFOs with bounded retries: commands *)
(* leave in the order they came, one at a time, acknowledged or after      *)
(* MaxErrors failed transfers and never otherwise (daemon.c:190, :212,     *)
(* :236). This is OutboxSpec without its fairness.                         *)
THEOREM OutboxIsImplemented ==
  ASSUME ShiftStride = 1 PROVE Spec => Outbox!Init /\ [][Outbox!Next]_Outbox!vars
<1>1. Init => Outbox!Init
  <2>1. SUFFICES ASSUME Init PROVE Outbox!Init
    OBVIOUS
  <2>2. \A r \in Row : Head0(r) = Null
    BY <2>1, SlotZero DEF Init, Head0
  <2>3. \A r \in Row : Commands(r) = << >>
    <3>1. SUFFICES ASSUME NEW r \in Row PROVE Commands(r) = << >>
      OBVIOUS
    <3>2. Filled(outQueues[r]) = 0
      <4>1. IInv
        BY <2>1, InitIInv
      <4>2. \A k \in Slot : outQueues[r][k] # Null <=> k < 0
        BY <2>1, SizesAssumption DEF Init, Slot
      <4> QED BY <4>1, <4>2, RowsAreRowlike, RowEnds, SizesAssumption
    <3> QED BY <3>2, Seen DEF Payloads
  <2> QED BY <2>2, <2>3 DEF Outbox!Init
<1>2. IInv /\ [Next]_vars => [Outbox!Next]_Outbox!vars
  BY StepSeen DEF OutboxStep
<1> QED
  BY <1>1, <1>2, Invariance, PTL DEF Spec
=============================================================================

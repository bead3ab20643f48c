--------------------------- MODULE OutQueueProofs ---------------------------
(***************************************************************************)
(* Theorems about OutQueue, for every set of outputs and channels, every   *)
(* duty cycle and every bound on the messages under way.                   *)
(*                                                                         *)
(* The argument: a write toggles the cached value of a digital output,     *)
(* because repeated values are suppressed, so that the first write of a    *)
(* window agrees with the last exactly if their number is odd. From the    *)
(* flush on, the last message that names an output decides about its pin.  *)
(***************************************************************************)
EXTENDS OutQueue, TLAPS

(* k is the last message of n that names io.                               *)
LastNaming(n, k, io) ==
  /\ k \in 1..Len(n) /\ Names(n[k], io)
  /\ \A j \in 1..Len(n) : j > k => ~Names(n[j], io)

(* A pin at level pin will be at e when the messages n have arrived.       *)
Shows(n, pin, io, e) ==
  \/ \E k \in 1..Len(n) : LastNaming(n, k, io) /\ Carried(n[k], io) = e
  \/ ~NamedIn(n, io) /\ pin = e

Pin(io) == IF io \in Dig THEN out[io] ELSE ccr[io]

CacheInv ==
  \A io \in Io : (/\ value[io] # Undef
                  /\ writes[io] = 0
                  /\ blame[io] = "none") => Shows(net, Pin(io), io, Expected(io))

(* What was written was pushed, and pushing defines the value.             *)
WindowInv ==
  /\ \A d \in Dig : writes[d] # 0 => pending.bits /\ value[d] # Undef
  /\ \A p \in Pwm : writes[p] # 0 => pending.received
  /\ \A p \in Pwm : writes[p] # 2

IInv == TypeOK /\ WindowInv /\ FoldKeepsFirst /\ LevelForgotten /\ CacheInv

-----------------------------------------------------------------------------
(* The duty cycle is at least two steps and below the mark for "leave alone". *)
LEMMA DutyRange == Keep \in Int /\ Duty \in Int /\ 2 <= Duty /\ Duty < Keep
<1>1. Keep \in Int
  BY DEF Keep
<1>2. Duty \in 2..(Keep - 1)
  BY ONLY LevelAssumption, Zenon
<1> QED
  BY ONLY <1>1, <1>2

(* Levels on the wire are neither zero nor the mark for "leave alone".     *)
LEMMA WireLevels ==
  /\ Wire \subseteq Nat \ {0} /\ Keep \notin Wire /\ Wire \subseteq 0..(Duty - 1)
  /\ \A io, v : v \in Nat \cup {Undef} => getValuePWM(io, v) \in Wire
  /\ \A data \in PwmData : getPWMMessage(data) = data
<1>1. Wire \subseteq Nat \ {0} /\ Keep \notin Wire /\ Wire \subseteq 0..(Duty - 1)
  BY DutyRange DEF Wire
<1>2. ASSUME NEW io, NEW v, v \in Nat \cup {Undef} PROVE getValuePWM(io, v) \in Wire
  <2>1. v \in Int /\ Duty \in Int /\ 1 <= Duty - 1
    BY <1>2, DutyRange DEF Undef
  <2>2. Clamp(v) \in 1..(Duty - 1)
    BY <2>1 DEF Clamp
  <2>3. Duty - Clamp(v) \in 1..(Duty - 1)
    BY <2>1, <2>2
  <2> QED
    BY <2>2, <2>3 DEF getValuePWM, Wire
<1>3. ASSUME NEW data \in PwmData PROVE getPWMMessage(data) = data
  <2>1. \A p \in Pwm : data[p] # 0
    BY <1>1 DEF PwmData, Keep
  <2> QED
    BY <2>1 DEF getPWMMessage, PwmData
<1> QED
  BY <1>1, <1>2, <1>3

LEMMA DigitalLevels ==
  ASSUME NEW io, NEW v \in {0, 1}
  PROVE  getValueDigital(io, v) \in {0, 1} /\ getValueDigital(io, 1 - v) = 1 - getValueDigital(io, v)
  BY DEF getValueDigital

(* Messages that do not name an output do not change what it will show.    *)
LEMMA AppendUnnamed ==
  ASSUME NEW n \in Seq(Message), NEW s \in Seq(Message), NEW io, NEW pin, NEW e,
         Shows(n, pin, io, e), ~NamedIn(s, io)
  PROVE  Shows(n \o s, pin, io, e)
<1> DEFINE t == n \o s
<1>1. /\ Len(t) = Len(n) + Len(s) /\ Len(n) \in Nat /\ Len(s) \in Nat
      /\ \A k \in 1..Len(n) : t[k] = n[k]
      /\ \A k \in (Len(n) + 1)..Len(t) : t[k] = s[k - Len(n)] /\ k - Len(n) \in 1..Len(s)
  OBVIOUS
<1>2. \A k \in (Len(n) + 1)..Len(t) : ~Names(t[k], io)
  BY <1>1 DEF NamedIn
<1>3. ASSUME ~NamedIn(n, io), pin = e PROVE Shows(t, pin, io, e)
  <2>1. ~NamedIn(t, io)
    <3>1. \A k \in 1..Len(n) : ~Names(t[k], io)
      BY <1>1, <1>3 DEF NamedIn
    <3>2. DOMAIN t = 1..Len(t)
      OBVIOUS
    <3> QED
      BY <1>1, <1>2, <3>1, <3>2 DEF NamedIn
  <2> QED
    BY <1>3, <2>1 DEF Shows
<1>4. ASSUME NEW k \in 1..Len(n), LastNaming(n, k, io), Carried(n[k], io) = e
      PROVE  Shows(t, pin, io, e)
  <2>1. k \in 1..Len(t) /\ t[k] = n[k]
    BY <1>1
  <2>2. LastNaming(t, k, io)
    BY <1>1, <1>2, <1>4, <2>1 DEF LastNaming
  <2> QED
    BY <1>4, <2>1, <2>2 DEF Shows
<1> HIDE DEF t
<1>5. Shows(t, pin, io, e)
  BY <1>3, <1>4 DEF Shows
<1> QED
  BY <1>5 DEF t

(* The last message that names an output decides, whatever came before.    *)
LEMMA AppendNamed ==
  ASSUME NEW n \in Seq(Message), NEW s \in Seq(Message), NEW io, NEW pin, NEW e,
         NEW k \in 1..Len(s), LastNaming(s, k, io), Carried(s[k], io) = e
  PROVE  Shows(n \o s, pin, io, e)
<1> DEFINE t == n \o s
<1>1. /\ Len(t) = Len(n) + Len(s) /\ Len(n) \in Nat /\ Len(s) \in Nat
      /\ \A j \in 1..Len(s) : t[Len(n) + j] = s[j]
      /\ \A j \in (Len(n) + 1)..Len(t) : t[j] = s[j - Len(n)] /\ j - Len(n) \in 1..Len(s)
  OBVIOUS
<1> HIDE DEF t
<1>2. Carried(t[Len(n) + k], io) = e /\ Len(n) + k \in 1..Len(t)
  BY <1>1
<1>3. LastNaming(t, Len(n) + k, io)
  <2>1. Names(t[Len(n) + k], io)
    BY <1>1 DEF LastNaming
  <2>2. ASSUME NEW j \in 1..Len(t), j > Len(n) + k PROVE ~Names(t[j], io)
    <3>1. t[j] = s[j - Len(n)] /\ j - Len(n) \in 1..Len(s) /\ j - Len(n) > k
      BY <1>1, <2>2
    <3> QED
      BY <3>1 DEF LastNaming
  <2> QED
    BY <1>2, <2>1, <2>2 DEF LastNaming
<1> QED
  BY <1>2, <1>3 DEF Shows, t

(* Delivering the first message.                                           *)
LEMMA DeliverFirst ==
  ASSUME NEW n \in Seq(Message), n # <<>>, NEW io, NEW pin, NEW pin2, NEW e,
         Shows(n, pin, io, e),
         \/ NamedIn(Tail(n), io)
         \/ pin2 = IF Names(n[1], io) THEN Carried(n[1], io) ELSE pin
  PROVE  Shows(Tail(n), pin2, io, e)
<1> DEFINE t == Tail(n)
<1>1. /\ Len(n) \in Nat \ {0} /\ Len(t) = Len(n) - 1 /\ DOMAIN t = 1..Len(t)
      /\ DOMAIN n = 1..Len(n)
      /\ \A k \in 1..Len(t) : t[k] = n[k + 1]
  OBVIOUS
<1> HIDE DEF t
<1>2. \A j \in 2..Len(n) : j - 1 \in 1..Len(t) /\ t[j - 1] = n[j]
  BY <1>1
<1>3. ASSUME NEW k \in 2..Len(n), LastNaming(n, k, io), Carried(n[k], io) = e
      PROVE  Shows(t, pin2, io, e)
  <2>1. LastNaming(t, k - 1, io)
    BY <1>1, <1>2, <1>3 DEF LastNaming
  <2> QED
    BY <1>2, <1>3, <2>1 DEF Shows
<1>4. ASSUME LastNaming(n, 1, io), Carried(n[1], io) = e PROVE Shows(t, pin2, io, e)
  <2>1. ~NamedIn(t, io)
    BY <1>1, <1>4 DEF LastNaming, NamedIn
  <2>2. pin2 = e
    BY <1>4, <2>1 DEF LastNaming, t
  <2> QED
    BY <2>1, <2>2 DEF Shows
<1>5. ASSUME ~NamedIn(n, io), pin = e PROVE Shows(t, pin2, io, e)
  <2>1. ~NamedIn(t, io) /\ ~Names(n[1], io)
    BY <1>1, <1>5 DEF NamedIn
  <2> QED
    BY <1>5, <2>1 DEF Shows, t
<1>6. Shows(t, pin2, io, e)
  BY <1>1, <1>3, <1>4, <1>5 DEF Shows
<1> QED
  BY <1>6 DEF t

(* The elements of a concatenation, and of a sequence without one element. *)
LEMMA ConcatElements ==
  ASSUME NEW S, NEW a \in Seq(S), NEW b \in Seq(S)
  PROVE  /\ Len(a) \in Nat /\ Len(b) \in Nat
         /\ Len(a \o b) = Len(a) + Len(b) /\ DOMAIN (a \o b) = 1..Len(a \o b)
         /\ \A k \in 1..Len(a) : (a \o b)[k] = a[k]
         /\ \A k \in 1..Len(b) : (a \o b)[Len(a) + k] = b[k]
  OBVIOUS

LEMMA RemoveElements ==
  ASSUME NEW S, NEW n \in Seq(S), NEW l \in 1..Len(n)
  PROVE  /\ Len(n) \in Nat /\ DOMAIN n = 1..Len(n)
         /\ Len(RemoveAt(n, l)) = Len(n) - 1
         /\ DOMAIN RemoveAt(n, l) = 1..Len(RemoveAt(n, l))
         /\ \A k \in 1..Len(RemoveAt(n, l)) :
                RemoveAt(n, l)[k] = IF k < l THEN n[k] ELSE n[k + 1]
<1> DEFINE t == RemoveAt(n, l)
           a == SubSeq(n, 1, l - 1)
           b == SubSeq(n, l + 1, Len(n))
<1>1. Len(n) \in Nat /\ DOMAIN n = 1..Len(n) /\ l \in Int /\ 1 <= l /\ l <= Len(n)
  OBVIOUS
<1>2. a \in Seq(S) /\ Len(a) = l - 1 /\ \A k \in 1..(l - 1) : a[k] = n[k]
  OBVIOUS
<1>3. b \in Seq(S) /\ Len(b) = Len(n) - l /\ \A k \in 1..(Len(n) - l) : b[k] = n[l + k]
  OBVIOUS
<1>4. t = a \o b
  BY DEF RemoveAt
<1> HIDE DEF a, b, t
<1>5. /\ Len(t) = Len(a) + Len(b) /\ DOMAIN t = 1..Len(t)
      /\ \A k \in 1..Len(a) : t[k] = a[k]
      /\ \A k \in 1..Len(b) : t[Len(a) + k] = b[k]
  <2>1. a \in Seq(S) /\ b \in Seq(S)
    BY <1>2, <1>3
  <2>2. /\ Len(a \o b) = Len(a) + Len(b) /\ DOMAIN (a \o b) = 1..Len(a \o b)
        /\ \A k \in 1..Len(a) : (a \o b)[k] = a[k]
        /\ \A k \in 1..Len(b) : (a \o b)[Len(a) + k] = b[k]
    BY <2>1, ConcatElements, SMTT(30)
  <2> QED
    BY <1>4, <2>2, Zenon
<1>6. Len(t) = Len(n) - 1
  BY <1>1, <1>2, <1>3, <1>5
<1>7. ASSUME NEW k \in 1..Len(t), k < l PROVE t[k] = n[k]
  <2>1. k \in 1..(l - 1) /\ k \in 1..Len(a)
    BY <1>1, <1>2, <1>7
  <2> QED
    BY <1>2, <1>5, <2>1
<1>8. ASSUME NEW k \in 1..Len(t), ~(k < l) PROVE t[k] = n[k + 1]
  <2> DEFINE j == k - l + 1
  <2>1. j \in 1..(Len(n) - l) /\ j \in 1..Len(b)
    BY <1>1, <1>3, <1>6, <1>8
  <2>2. Len(a) + j = k /\ l + j = k + 1
    BY <1>1, <1>2, <1>6, <1>8
  <2> HIDE DEF j
  <2>3. t[Len(a) + j] = b[j] /\ b[j] = n[l + j]
    BY <1>3, <1>5, <2>1
  <2> QED
    BY <2>2, <2>3
<1>9. \A k \in 1..Len(t) : t[k] = IF k < l THEN n[k] ELSE n[k + 1]
  BY <1>7, <1>8
<1> QED
  BY <1>1, <1>5, <1>6, <1>9 DEF t

(* Losing a message that was not the last one to name the output.          *)
LEMMA LoseOne ==
  ASSUME NEW n \in Seq(Message), NEW l \in 1..Len(n), NEW io, NEW pin, NEW e,
         Shows(n, pin, io, e), ~LastNaming(n, l, io)
  PROVE  Shows(RemoveAt(n, l), pin, io, e)
<1> DEFINE t == RemoveAt(n, l)
<1>1. /\ Len(n) \in Nat /\ Len(t) = Len(n) - 1 /\ DOMAIN t = 1..Len(t) /\ DOMAIN n = 1..Len(n)
      /\ \A k \in 1..Len(t) : t[k] = IF k < l THEN n[k] ELSE n[k + 1]
  BY RemoveElements
<1> HIDE DEF t
<1>2. ASSUME ~NamedIn(n, io), pin = e PROVE Shows(t, pin, io, e)
  <2>1. ~NamedIn(t, io)
    BY <1>1, <1>2 DEF NamedIn
  <2> QED
    BY <1>2, <2>1 DEF Shows
<1>3. ASSUME NEW k \in 1..Len(n), LastNaming(n, k, io), Carried(n[k], io) = e
      PROVE  Shows(t, pin, io, e)
  <2> DEFINE q == IF k < l THEN k ELSE k - 1
  <2>1. k # l /\ k \in Nat /\ l \in Nat
    BY <1>3
  <2>2. q \in 1..Len(t) /\ t[q] = n[k]
    BY <1>1, <2>1
  <2>3. ASSUME NEW j \in 1..Len(t), j > q PROVE ~Names(t[j], io)
    <3>1. PICK i \in 1..Len(n) : t[j] = n[i] /\ i = IF j < l THEN j ELSE j + 1
      BY <1>1
    <3>2. i > k
      BY <1>1, <2>1, <2>3, <3>1
    <3> QED
      BY <1>3, <3>1, <3>2 DEF LastNaming
  <2>4. LastNaming(t, q, io)
    BY <1>3, <2>2, <2>3 DEF LastNaming
  <2> QED
    BY <1>3, <2>2, <2>4 DEF Shows
<1>4. Shows(t, pin, io, e)
  BY <1>2, <1>3 DEF Shows
<1> QED
  BY <1>4 DEF t

-----------------------------------------------------------------------------
(* Nothing is cached at first, and nothing under way. *)
LEMMA InitIInv == Init => IInv
  <1> SUFFICES ASSUME Init PROVE IInv
    OBVIOUS
  <1>1. Nothing \in [bits : BOOLEAN, or : SUBSET Dig, and : SUBSET Dig,
                     received : BOOLEAN, data : PwmData]
    BY DEF Nothing, PwmData
  <1>2. TypeOK
    BY <1>1, WireLevels, LevelAssumption DEF Init, TypeOK, Wire, Undef
  <1>3. WindowInv /\ FoldKeepsFirst /\ LevelForgotten /\ CacheInv
    BY DEF Init, WindowInv, FoldKeepsFirst, LevelForgotten, CacheInv, Nothing,
           Window, Names, Io, Undef
  <1> QED
    BY <1>2, <1>3 DEF IInv

(* A push of a digital write keeps the window in order. *)
LEMMA PushDigitalKeeps ==
  ASSUME IInv, NEW io \in Dig, NEW v \in {0, 1}, value[io] # v,
         PushDigital(io, v), Queued(io)
  PROVE  IInv'
<1> DEFINE level == getValueDigital(io, v)
           item == getMessageIoWriteDigital(io, level)
<1>1. io \in Io /\ io \notin Pwm /\ Dig \subseteq Io /\ Pwm \subseteq Io
  BY IoAssumption DEF Io
<1>2. level \in {0, 1}
  BY DigitalLevels
<1>3. item.or \subseteq Dig /\ item.and \subseteq Dig
  BY DEF getMessageIoWriteDigital
<1>4. /\ pending' = [pending EXCEPT !.bits = TRUE,
                       !.or = pending.or \cup (item.or \cap pending.and),
                       !.and = pending.and \cap (pending.or \cup item.and)]
      /\ value' = [value EXCEPT ![io] = v]
      /\ writes' = [writes EXCEPT ![io] = IF @ = 1 THEN 2 ELSE 1]
      /\ UNCHANGED <<lastPWM, net, configured, out, ccr, blame>> /\ timer' = "armed"
  BY DEF PushDigital, Queued, AggregateBits, CountWrite, throttleMessageQueue, extVars
<1>5. TypeOK'
  <2>1. pending' \in [bits : BOOLEAN, or : SUBSET Dig, and : SUBSET Dig,
                      received : BOOLEAN, data : PwmData]
    BY <1>3, <1>4 DEF IInv, TypeOK
  <2>2. value' \in [Io -> {Undef, 0, 1}] /\ writes' \in [Io -> 0..2]
    BY <1>1, <1>4 DEF IInv, TypeOK
  <2> QED
    BY <1>4, <2>1, <2>2 DEF IInv, TypeOK
<1>6. WindowInv'
  BY <1>1, <1>4 DEF IInv, TypeOK, WindowInv, Undef
<1>7. FoldKeepsFirst'
  <2> DEFINE Bit(d) == IF d \in pending.and THEN 1 ELSE 0
             NewBit(d) == IF d \in pending'.and THEN 1 ELSE 0
             Written(d) == d \in pending.or \/ d \notin pending.and
             NewWritten(d) == d \in pending'.or \/ d \notin pending'.and
  <2>1. /\ pending'.or = pending.or \cup (item.or \cap pending.and)
        /\ pending'.and = pending.and \cap (pending.or \cup item.and)
        /\ pending'.data = pending.data
    BY <1>4 DEF IInv, TypeOK
  <2>2. pending.or \subseteq pending.and /\ pending.and \subseteq Dig
    BY DEF IInv, FoldKeepsFirst, TypeOK
  <2>3. /\ item.or = IF level = 1 THEN {io} ELSE {}
        /\ item.and = IF level = 1 THEN Dig ELSE Dig \ {io}
    BY DEF getMessageIoWriteDigital
  <2>4. pending'.or \subseteq pending'.and
    BY <2>1, <2>2, <2>3
  <2>5. \A d \in Dig : d # io => (NewWritten(d) <=> Written(d)) /\ NewBit(d) = Bit(d)
    BY <2>1, <2>2, <2>3
  <2>6. NewWritten(io) /\ NewBit(io) = IF Written(io) THEN Bit(io) ELSE level
    BY <1>2, <2>1, <2>2, <2>3
  <2>7. /\ \A d \in Dig : Names(Window, d) <=> Written(d)
        /\ \A d \in Dig : Carried(Window, d) = Bit(d)
        /\ \A d \in Dig : Names(Window, d)' <=> NewWritten(d)
        /\ \A d \in Dig : Carried(Window, d)' = NewBit(d)
    BY DEF Names, Carried, Window
  <2> HIDE DEF Bit, NewBit, Written, NewWritten, item
  <2>8. /\ Expected(io)' = level
        /\ \A d \in Dig : d # io => Expected(d)' = Expected(d) /\ writes'[d] = writes[d]
    BY <1>1, <1>4 DEF Expected, IInv, TypeOK
  <2>9. ASSUME NEW d \in Dig
        PROVE  (IF writes[d] = 0 THEN ~Names(Window, d)
                ELSE /\ Names(Window, d)
                     /\ Carried(Window, d) = IF writes[d] = 1 THEN Expected(d)
                                                              ELSE 1 - Expected(d))'
    <3>1. CASE d # io
      BY <2>5, <2>7, <2>8, <3>1 DEF IInv, FoldKeepsFirst
    <3>2. CASE d = io
      <4>1. CASE writes[io] = 0
        <5>1. ~Written(io) /\ writes'[io] = 1
          BY <1>1, <1>4, <2>7, <4>1 DEF IInv, FoldKeepsFirst, TypeOK
        <5> QED
          BY <2>6, <2>7, <2>8, <3>2, <5>1
      <4>2. CASE writes[io] # 0
        <5>1. value[io] = 1 - v
          BY <1>1, <4>2 DEF IInv, WindowInv, TypeOK, Undef
        <5>2. level = 1 - Expected(io)
          <6>1. Expected(io) = getValueDigital(io, 1 - v)
            BY <5>1 DEF Expected
          <6> QED
            BY <1>2, <6>1, DigitalLevels
        <5>3. Written(io) /\ Bit(io) = IF writes[io] = 1 THEN Expected(io) ELSE 1 - Expected(io)
          BY <2>7, <4>2 DEF IInv, FoldKeepsFirst
        <5>4. writes'[io] = IF writes[io] = 1 THEN 2 ELSE 1
          BY <1>1, <1>4 DEF IInv, TypeOK
        <5>5. Expected(io) = 1 - level
          BY <1>2, <5>2, <5>1 DEF Expected, getValueDigital
        <5> QED
          BY <1>2, <2>6, <2>7, <2>8, <3>2, <5>3, <5>4, <5>5
      <4> QED
        BY <4>1, <4>2
    <3> QED
      BY <3>1, <3>2
  <2>10. \A p \in Pwm : pending'.data[p] = IF writes'[p] = 0 THEN Keep ELSE Expected(p)'
    BY <1>1, <1>4, <2>1 DEF Expected, IInv, TypeOK, FoldKeepsFirst
  <2> QED
    BY <2>4, <2>9, <2>10 DEF FoldKeepsFirst
<1>8. LevelForgotten'
  BY <1>1, <1>4 DEF IInv, TypeOK, LevelForgotten
<1>9. CacheInv'
  <2> SUFFICES ASSUME NEW x \in Io, value'[x] # Undef, writes'[x] = 0, blame'[x] = "none"
               PROVE  Shows(net, Pin(x), x, Expected(x))'
    BY DEF CacheInv
  <2>1. x # io
    BY <1>4, <1>1 DEF IInv, TypeOK
  <2>2. Expected(x)' = Expected(x) /\ Pin(x)' = Pin(x) /\ net' = net
    BY <2>1, <1>1, <1>4 DEF Expected, Pin, IInv, TypeOK
  <2>3. Shows(net, Pin(x), x, Expected(x))
    BY <1>1, <1>4, <2>1 DEF IInv, TypeOK, CacheInv
  <2> QED
    BY <2>2, <2>3 DEF Shows, LastNaming, NamedIn, Names, Carried
<1> QED
  BY <1>5, <1>6, <1>7, <1>8, <1>9 DEF IInv

(* A push of a level keeps the window in order. *)
LEMMA PushPwmKeeps ==
  ASSUME IInv, NEW io \in Pwm, NEW level \in Nat, NEW v \in {0, 1},
         v = 0 => level = 0,
         PushPwm(io, level, v), Queued(io)
  PROVE  IInv'
<1> DEFINE l == getValuePWM(io, level)
           asked == [[p \in Pwm |-> Keep] EXCEPT ![io] = l]
<1>1. io \in Io /\ io \notin Dig /\ Dig \subseteq Io /\ Pwm \subseteq Io
  BY IoAssumption DEF Io
<1>2. l \in Wire
  BY WireLevels
<1>3. getPWMMessage(asked) = asked
  <2>1. asked \in PwmData
    BY <1>2 DEF PwmData
  <2> HIDE DEF asked
  <2> QED
    BY <2>1, WireLevels
<1>4. /\ pending' = [pending EXCEPT !.received = TRUE,
           !.data = [c \in Pwm |-> IF asked[c] = Keep THEN pending.data[c] ELSE asked[c]]]
      /\ lastPWM' = [lastPWM EXCEPT ![io] = level]
      /\ value' = [value EXCEPT ![io] = v]
      /\ writes' = [writes EXCEPT ![io] = 1]
      /\ UNCHANGED <<net, configured, out, ccr, blame>> /\ timer' = "armed"
  BY <1>1, <1>3 DEF PushPwm, Queued, AggregatePwm, CountWrite, throttleMessageQueue, extVars
<1>5. [c \in Pwm |-> IF asked[c] = Keep THEN pending.data[c] ELSE asked[c]]
        = [pending.data EXCEPT ![io] = l]
  BY <1>2, WireLevels DEF IInv, TypeOK, PwmData
<1>6. /\ pending'.data = [pending.data EXCEPT ![io] = l]
      /\ pending'.or = pending.or /\ pending'.and = pending.and
      /\ pending'.bits = pending.bits /\ pending'.received = TRUE
  BY <1>4, <1>5 DEF IInv, TypeOK
<1> HIDE DEF l, asked
<1>7. TypeOK'
  <2>1. [pending.data EXCEPT ![io] = l] \in PwmData
    BY <1>2 DEF IInv, TypeOK, PwmData
  <2>2. pending' \in [bits : BOOLEAN, or : SUBSET Dig, and : SUBSET Dig,
                      received : BOOLEAN, data : PwmData]
    BY <1>4, <1>5, <2>1 DEF IInv, TypeOK
  <2>3. /\ value' \in [Io -> {Undef, 0, 1}] /\ writes' \in [Io -> 0..2]
        /\ lastPWM' \in [Pwm -> Nat \cup {Undef}]
    BY <1>1, <1>4 DEF IInv, TypeOK
  <2> QED
    BY <1>4, <2>2, <2>3 DEF IInv, TypeOK
<1>8. WindowInv'
  BY <1>1, <1>4, <1>6 DEF IInv, TypeOK, WindowInv
<1>9. FoldKeepsFirst'
  <2>1. \A d \in Dig : /\ Names(Window, d)' <=> Names(Window, d)
                       /\ Carried(Window, d)' = Carried(Window, d)
                       /\ Expected(d)' = Expected(d) /\ writes'[d] = writes[d]
    BY <1>1, <1>4, <1>6 DEF Names, Carried, Window, Expected, IInv, TypeOK
  <2>2. \A p \in Pwm : pending'.data[p] = IF writes'[p] = 0 THEN Keep ELSE Expected(p)'
    <3>1. Expected(io)' = l
      BY <1>1, <1>4 DEF Expected, IInv, TypeOK, l
    <3>2. \A p \in Pwm : p # io => Expected(p)' = Expected(p) /\ writes'[p] = writes[p]
      BY <1>1, <1>4, IoAssumption DEF Expected, IInv, TypeOK
    <3> QED
      BY <1>1, <1>4, <1>6, <3>1, <3>2 DEF IInv, TypeOK, FoldKeepsFirst, PwmData
  <2> QED
    BY <1>6, <2>1, <2>2 DEF IInv, FoldKeepsFirst
<1>10. LevelForgotten'
  BY <1>1, <1>4 DEF IInv, TypeOK, LevelForgotten
<1>11. CacheInv'
  <2> SUFFICES ASSUME NEW x \in Io, value'[x] # Undef, writes'[x] = 0, blame'[x] = "none"
               PROVE  Shows(net, Pin(x), x, Expected(x))'
    BY DEF CacheInv
  <2>1. x # io
    BY <1>4, <1>1 DEF IInv, TypeOK
  <2>2. Expected(x)' = Expected(x) /\ Pin(x)' = Pin(x) /\ net' = net
    BY <2>1, <1>1, <1>4 DEF Expected, Pin, IInv, TypeOK, Io
  <2>3. Shows(net, Pin(x), x, Expected(x))
    BY <1>1, <1>4, <2>1 DEF IInv, TypeOK, CacheInv
  <2> QED
    BY <2>2, <2>3 DEF Shows, LastNaming, NamedIn, Names, Carried
<1> QED
  BY <1>7, <1>8, <1>9, <1>10, <1>11 DEF IInv

(* Every write is one push. *)
LEMMA WriteKeeps ==
  ASSUME IInv, NEW io \in Io, Write(io) PROVE IInv'
<1>1. Duty \in Nat /\ Levels \subseteq Nat /\ Dim \in Nat
  BY LevelAssumption
<1>2. ASSUME disable(io) PROVE IInv'
  <2>1. CASE io \in Pwm
    BY <1>2, <2>1, PushPwmKeeps DEF disable
  <2>2. CASE io \notin Pwm
    BY <1>2, <2>2, PushDigitalKeeps DEF disable, Io
  <2> QED
    BY <2>1, <2>2
<1>3. ASSUME enable(io) PROVE IInv'
  <2>1. CASE io \in Pwm
    <3> DEFINE level == IF lastPWM[io] < Dim THEN Duty ELSE lastPWM[io]
    <3>1. level \in Nat
      BY <1>1, <2>1 DEF IInv, TypeOK, Undef
    <3>2. PushPwm(io, level, 1) /\ Queued(io)
      BY <1>3, <2>1 DEF enable
    <3> HIDE DEF level
    <3> QED
      BY <2>1, <3>1, <3>2, PushPwmKeeps
  <2>2. CASE io \notin Pwm
    BY <1>3, <2>2, PushDigitalKeeps DEF enable, Io
  <2> QED
    BY <2>1, <2>2
<1>4. ASSUME io \in Pwm, NEW level \in Levels, pwm(io, level) PROVE IInv'
  BY <1>1, <1>4, PushPwmKeeps DEF pwm
<1> QED
  BY <1>2, <1>3, <1>4 DEF Write, toggle

-----------------------------------------------------------------------------
(* Steps that leave the window and the cached values alone. *)
LEMMA WindowUntouched ==
  ASSUME IInv, UNCHANGED <<ioVars, pending, writes>>
  PROVE  WindowInv' /\ FoldKeepsFirst' /\ LevelForgotten' /\ \A io : Expected(io)' = Expected(io)
  BY DEF IInv, WindowInv, FoldKeepsFirst, LevelForgotten, ioVars, Window,
         Names, Carried, Expected

(* What Flush sends is what the window says. *)
LEMMA FoldedWindow ==
  ASSUME IInv
  PROVE  /\ Folded \in Seq(Message)
         /\ \A io \in Io : writes[io] = 0 => ~NamedIn(Folded, io)
         /\ \A io \in Io : writes[io] = 1 =>
              \E k \in 1..Len(Folded) : /\ LastNaming(Folded, k, io)
                                       /\ Carried(Folded[k], io) = Expected(io)
<1> DEFINE b == [kind |-> "bits", or |-> pending.or, and |-> pending.and]
           m == [kind |-> "pwm", data |-> pending.data]
<1>1. getPWMMessage(pending.data) = pending.data
  BY WireLevels DEF IInv, TypeOK
<1>2. b \in Message /\ m \in Message
  BY DEF IInv, TypeOK, Message, Bits
<1>3. /\ \A d \in Dig : Names(b, d) <=> Names(Window, d)
      /\ \A d \in Dig : Carried(b, d) = Carried(Window, d) /\ ~Names(m, d)
      /\ \A p \in Pwm : ~Names(b, p) /\ (Names(m, p) <=> pending.data[p] # Keep)
      /\ \A p \in Pwm : Carried(m, p) = pending.data[p]
  BY IoAssumption DEF Names, Carried, Window
<1> HIDE DEF b, m
<1>4. Folded = CASE pending.bits /\ pending.received -> <<b, m>>
                 [] pending.bits /\ ~pending.received -> <<b>>
                 [] ~pending.bits /\ pending.received -> <<m>>
                 [] ~pending.bits /\ ~pending.received -> <<>>
  <2>1. Folded = (IF pending.bits THEN <<b>> ELSE <<>>) \o
                 (IF pending.received THEN <<m>> ELSE <<>>)
    BY <1>1 DEF Folded, b, m
  <2>2. <<b>> \o <<m>> = <<b, m>> /\ <<b>> \o <<>> = <<b>>
        /\ <<>> \o <<m>> = <<m>> /\ <<>> \o <<>> = <<>>
    <3>1. <<b>> \o <<m>> = <<b, m>>
      <4>1. <<b>> \in Seq(Message) /\ <<m>> \in Seq(Message) /\ <<b, m>> \in Seq(Message)
        BY <1>2
      <4> DEFINE u == <<b>> \o <<m>>
                 w == <<b, m>>
      <4>2. u \in Seq(Message) /\ Len(u) = 2 /\ u[1] = b /\ u[2] = m
        BY <4>1
      <4>3. w \in Seq(Message) /\ Len(w) = 2 /\ w[1] = b /\ w[2] = m
        BY <4>1
      <4> HIDE DEF u, w
      <4>4. \A k \in 1..2 : u[k] = w[k]
        BY <4>2, <4>3
      <4>5. u = w
        BY <4>2, <4>3, <4>4
      <4> QED
        BY <4>5 DEF u, w
    <3>2. <<b>> \o <<>> = <<b>>
      OBVIOUS
    <3>3. <<>> \o <<m>> = <<m>>
      OBVIOUS
    <3>4. <<>> \o <<>> = <<>>
      OBVIOUS
    <3> QED
      BY <3>1, <3>2, <3>3, <3>4
  <2>3. pending.bits \in BOOLEAN /\ pending.received \in BOOLEAN
    BY DEF IInv, TypeOK
  <2> QED
    BY <2>1, <2>2, <2>3
<1>5. Folded \in Seq(Message)
  BY <1>2, <1>4
<1>6. ASSUME NEW io \in Io, writes[io] = 0 PROVE ~NamedIn(Folded, io)
  <2>1. ~Names(b, io) /\ ~Names(m, io)
    BY <1>3, <1>6 DEF IInv, FoldKeepsFirst, Io
  <2> QED
    BY <1>4, <2>1 DEF NamedIn
<1>7. ASSUME NEW io \in Io, writes[io] = 1
      PROVE  \E k \in 1..Len(Folded) : /\ LastNaming(Folded, k, io)
                                      /\ Carried(Folded[k], io) = Expected(io)
  <2>1. CASE io \in Dig
    <3>1. pending.bits /\ Names(b, io) /\ Carried(b, io) = Expected(io) /\ ~Names(m, io)
      BY <1>3, <1>7, <2>1 DEF IInv, FoldKeepsFirst, WindowInv
    <3>2. Folded[1] = b /\ Len(Folded) \in 1..2 /\ (Len(Folded) = 2 => Folded[2] = m)
      BY <1>4, <3>1
    <3>3. 1 \in 1..Len(Folded) /\ LastNaming(Folded, 1, io)
      BY <3>1, <3>2 DEF LastNaming
    <3> QED
      BY <3>1, <3>2, <3>3
  <2>2. CASE io \in Pwm
    <3>1. Expected(io) = pending.data[io] /\ pending.received /\ io \notin Dig
      BY <1>7, <2>2, IoAssumption DEF IInv, FoldKeepsFirst, WindowInv
    <3>2. pending.data[io] # Keep
      <4>1. lastPWM[io] \in Nat \cup {Undef}
        BY <2>2 DEF IInv, TypeOK
      <4>2. Expected(io) \in Wire
        BY <3>1, <4>1, WireLevels DEF Expected
      <4> QED
        BY <3>1, <4>2, WireLevels
    <3>3. Names(m, io) /\ Carried(m, io) = Expected(io)
      BY <1>3, <2>2, <3>1, <3>2
    <3>4. Len(Folded) \in 1..2 /\ Folded[Len(Folded)] = m
      BY <1>4, <3>1
    <3>5. Len(Folded) \in 1..Len(Folded) /\ LastNaming(Folded, Len(Folded), io)
      BY <3>3, <3>4 DEF LastNaming
    <3> QED
      BY <3>3, <3>4, <3>5
  <2> QED
    BY <2>1, <2>2 DEF Io
<1> QED
  BY <1>5, <1>6, <1>7

LEMMA FlushKeeps == ASSUME IInv, Flush PROVE IInv'
<1>1. /\ net' = net \o Folded /\ Len(net) + Len(Folded) <= MaxNet
      /\ pending' = Nothing /\ timer' = "off" /\ writes' = [io \in Io |-> 0]
      /\ blame' = [io \in Io |-> CASE writes[io] = 0 -> blame[io]
                                   [] writes[io] = 1 -> "none"
                                   [] writes[io] = 2 -> "fold"]
      /\ UNCHANGED <<value, lastPWM, configured, out, ccr>>
  BY DEF Flush, ioVars, extVars
<1>2. TypeOK'
  <2>1. pending' \in [bits : BOOLEAN, or : SUBSET Dig, and : SUBSET Dig,
                      received : BOOLEAN, data : PwmData]
    BY <1>1 DEF Nothing, PwmData
  <2>2. net' \in Seq(Message) /\ Len(net') <= MaxNet
    BY <1>1, FoldedWindow, LevelAssumption DEF IInv, TypeOK
  <2>3. blame' \in [Io -> {"none", "fold", "loss"}] /\ writes' \in [Io -> 0..2]
    BY <1>1 DEF IInv, TypeOK
  <2> QED
    BY <1>1, <2>1, <2>2, <2>3 DEF IInv, TypeOK
<1>3. WindowInv' /\ LevelForgotten' /\ FoldKeepsFirst'
  <2>1. WindowInv' /\ LevelForgotten'
    BY <1>1 DEF IInv, WindowInv, LevelForgotten, Io
  <2>2. /\ pending'.or = {} /\ pending'.and = Dig
        /\ \A p \in Pwm : pending'.data[p] = Keep
    BY <1>1 DEF Nothing
  <2>3. \A d \in Dig : ~Names(Window, d)'
    BY <2>2 DEF Names, Window
  <2>4. \A io \in Dig \cup Pwm : writes'[io] = 0
    BY <1>1 DEF Io
  <2> QED
    BY <2>1, <2>2, <2>3, <2>4 DEF FoldKeepsFirst
<1>4. CacheInv'
  <2> SUFFICES ASSUME NEW io \in Io, value'[io] # Undef, blame'[io] = "none"
               PROVE  Shows(net, Pin(io), io, Expected(io))'
    BY DEF CacheInv
  <2>1. Expected(io)' = Expected(io) /\ Pin(io)' = Pin(io)
    BY <1>1 DEF Expected, Pin
  <2>2. writes[io] \in {0, 1}
    BY <1>1 DEF IInv, TypeOK
  <2>3. Shows(net \o Folded, Pin(io), io, Expected(io))
    <3>1. CASE writes[io] = 0
      <4>1. Shows(net, Pin(io), io, Expected(io))
        BY <1>1, <3>1 DEF IInv, CacheInv
      <4> QED
        BY <3>1, <4>1, FoldedWindow, AppendUnnamed DEF IInv, TypeOK
    <3>2. CASE writes[io] = 1
      BY <3>2, FoldedWindow, AppendNamed DEF IInv, TypeOK
    <3> QED
      BY <2>2, <3>1, <3>2
  <2> QED
    BY <1>1, <2>1, <2>3 DEF Shows, LastNaming, NamedIn, Names, Carried
<1> QED
  BY <1>2, <1>3, <1>4 DEF IInv

LEMMA RefreshKeeps == ASSUME IInv, refresh PROVE IInv'
<1> DEFINE s == <<[kind |-> "config"]>>
<1>1. /\ net' = net \o s /\ s \in Seq(Message) /\ Len(net) + 2 <= MaxNet
      /\ UNCHANGED <<value, lastPWM, pending, timer, configured, out, ccr, writes, blame>>
  BY DEF refresh, ioVars, extVars, Message, IInv, TypeOK
<1>2. TypeOK'
  <2>1. net' \in Seq(Message) /\ Len(net') <= MaxNet
    BY <1>1, LevelAssumption DEF IInv, TypeOK
  <2> QED
    BY <1>1, <2>1 DEF IInv, TypeOK
<1>3. CacheInv'
  <2> SUFFICES ASSUME NEW io \in Io, value[io] # Undef, writes[io] = 0, blame[io] = "none"
               PROVE  Shows(net, Pin(io), io, Expected(io))'
    BY <1>1 DEF CacheInv
  <2>1. Expected(io)' = Expected(io) /\ Pin(io)' = Pin(io)
    BY <1>1 DEF Expected, Pin
  <2>2. Shows(net, Pin(io), io, Expected(io))
    BY DEF IInv, CacheInv
  <2>3. ~NamedIn(s, io)
    BY DEF NamedIn, Names
  <2>4. Shows(net \o s, Pin(io), io, Expected(io))
    BY <1>1, <2>2, <2>3, AppendUnnamed DEF IInv, TypeOK
  <2> QED
    BY <1>1, <2>1, <2>4 DEF Shows, LastNaming, NamedIn, Names, Carried
<1> QED
  BY <1>1, <1>2, <1>3, WindowUntouched DEF IInv, ioVars

LEMMA DeliverKeeps == ASSUME IInv, Deliver PROVE IInv'
<1> DEFINE m == net[1]
           rest == Tail(net)
<1>1. /\ net # <<>> /\ m \in Message /\ rest \in Seq(Message) /\ Len(rest) <= MaxNet
      /\ net' = rest /\ UNCHANGED <<value, lastPWM, pending, timer, writes>>
  BY LevelAssumption DEF Deliver, ioVars, IInv, TypeOK
<1>2. \/ m.kind = "bits" /\ m \in Bits /\ msp430BitMaskPorts(m)
      \/ m.kind = "pwm" /\ m.data \in PwmData /\ pwmSetChannelValues(m)
      \/ m.kind = "config" /\ flashConfig
  BY <1>1 DEF Deliver, Message, Bits
<1> HIDE DEF m
<1>3. TypeOK'
  <2>1. /\ out' \in [Dig -> {0, 1}] /\ ccr' \in [Pwm -> 0..(Duty - 1)]
        /\ configured' \in BOOLEAN /\ blame' \in [Io -> {"none", "fold", "loss"}]
    <3>1. CASE msp430BitMaskPorts(m)
      BY <3>1 DEF msp430BitMaskPorts, IInv, TypeOK
    <3>2. CASE m.data \in PwmData /\ pwmSetChannelValues(m)
      BY <3>2, WireLevels DEF pwmSetChannelValues, IInv, TypeOK, PwmData
    <3>3. CASE flashConfig
      BY <3>3, LevelAssumption DEF flashConfig, Restart, IInv, TypeOK
    <3> QED
      BY <1>2, <3>1, <3>2, <3>3
  <2> QED
    BY <1>1, <2>1 DEF IInv, TypeOK
<1>4. CacheInv'
  <2> SUFFICES ASSUME NEW io \in Io, value[io] # Undef, writes[io] = 0, blame'[io] = "none"
               PROVE  Shows(net, Pin(io), io, Expected(io))'
    BY <1>1 DEF CacheInv
  <2>1. Expected(io)' = Expected(io)
    BY <1>1 DEF Expected
  <2>2. /\ blame[io] = "none"
        /\ \/ NamedIn(rest, io)
           \/ Pin(io)' = IF Names(m, io) THEN Carried(m, io) ELSE Pin(io)
    <3>1. CASE m.kind = "bits" /\ msp430BitMaskPorts(m)
      <4>1. blame[io] = "none" /\ ~(io \in Dig \ Outputs /\ Names(m, io) /\ ~NamedIn(rest, io))
        BY <3>1 DEF msp430BitMaskPorts
      <4>2. CASE io \in Dig
        <5>1. Pin(io) = out[io] /\ Pin(io)' = out'[io] /\ out[io] \in {0, 1}
          BY <4>2 DEF Pin, IInv, TypeOK
        <5>2. out'[io] = IF io \notin Outputs THEN out[io]
                         ELSE IF (io \in m.or \/ out[io] = 1) /\ io \in m.and THEN 1 ELSE 0
          BY <3>1, <4>2 DEF msp430BitMaskPorts
        <5>3. /\ Names(m, io) <=> (io \in m.or \/ io \notin m.and)
              /\ Carried(m, io) = IF io \in m.and THEN 1 ELSE 0
          BY <3>1, <4>2 DEF Names, Carried
        <5> QED
          BY <4>1, <4>2, <5>1, <5>2, <5>3
      <4>3. CASE io \notin Dig
        BY <3>1, <4>1, <4>3 DEF msp430BitMaskPorts, Names, Pin
      <4> QED
        BY <4>2, <4>3
    <3>2. CASE m.kind = "pwm" /\ pwmSetChannelValues(m)
      BY <3>2, IoAssumption DEF pwmSetChannelValues, Names, Carried, Pin, Io
    <3>3. CASE m.kind = "config" /\ flashConfig
      BY <3>3, IoAssumption DEF flashConfig, Restart, Names, Pin, Io
    <3> QED
      BY <1>2, <3>1, <3>2, <3>3
  <2>3. Shows(net, Pin(io), io, Expected(io))
    BY <2>2 DEF IInv, CacheInv
  <2>4. Shows(rest, Pin(io)', io, Expected(io))
    BY <1>1, <2>2, <2>3, DeliverFirst DEF IInv, TypeOK, m
  <2> QED
    BY <1>1, <2>1, <2>4 DEF Shows, LastNaming, NamedIn, Names, Carried
<1> QED
  BY <1>1, <1>3, <1>4, WindowUntouched DEF IInv, ioVars

LEMMA LoseKeeps == ASSUME IInv, Lose PROVE IInv'
<1>1. PICK k \in DOMAIN net :
        /\ net' = RemoveAt(net, k)
        /\ blame' = [io \in Io |->
             IF Names(net[k], io) /\ (\A j \in DOMAIN net : j > k => ~Names(net[j], io))
             THEN "loss" ELSE blame[io]]
        /\ UNCHANGED <<value, lastPWM, pending, timer, configured, out, ccr, writes>>
  BY DEF Lose, ioVars, extVars
<1>2. net \in Seq(Message) /\ DOMAIN net = 1..Len(net) /\ k \in 1..Len(net) /\ Len(net) <= MaxNet
  BY DEF IInv, TypeOK
<1>3. TypeOK'
  <2>1. RemoveAt(net, k) \in Seq(Message) /\ Len(RemoveAt(net, k)) <= MaxNet
    BY <1>2, LevelAssumption DEF RemoveAt
  <2>2. blame' \in [Io -> {"none", "fold", "loss"}]
    BY <1>1 DEF IInv, TypeOK
  <2> QED
    BY <1>1, <2>1, <2>2 DEF IInv, TypeOK
<1>4. CacheInv'
  <2> SUFFICES ASSUME NEW io \in Io, value[io] # Undef, writes[io] = 0, blame'[io] = "none"
               PROVE  Shows(net, Pin(io), io, Expected(io))'
    BY <1>1 DEF CacheInv
  <2>1. Expected(io)' = Expected(io) /\ Pin(io)' = Pin(io)
    BY <1>1 DEF Expected, Pin
  <2>2. blame[io] = "none" /\ ~LastNaming(net, k, io)
    BY <1>1, <1>2 DEF LastNaming
  <2>3. Shows(net, Pin(io), io, Expected(io))
    BY <2>2 DEF IInv, CacheInv
  <2>4. Shows(RemoveAt(net, k), Pin(io), io, Expected(io))
    BY <1>2, <2>2, <2>3, LoseOne
  <2> QED
    BY <1>1, <2>1, <2>4 DEF Shows, LastNaming, NamedIn, Names, Carried
<1> QED
  BY <1>1, <1>3, <1>4, WindowUntouched DEF IInv, ioVars

LEMMA PowerCutKeeps == ASSUME IInv, PowerCut PROVE IInv'
<1>1. /\ out' = [d \in Dig |-> 0] /\ ccr' = [p \in Pwm |-> 0]
      /\ blame' = [io \in Io |-> IF NamedIn(net, io) THEN blame[io] ELSE "loss"]
      /\ UNCHANGED <<value, lastPWM, pending, timer, net, configured, writes>>
  BY DEF PowerCut, Restart, ioVars
<1>2. TypeOK'
  <2>1. /\ out' \in [Dig -> {0, 1}] /\ ccr' \in [Pwm -> 0..(Duty - 1)]
        /\ blame' \in [Io -> {"none", "fold", "loss"}]
    BY <1>1, LevelAssumption DEF IInv, TypeOK
  <2> QED
    BY <1>1, <2>1 DEF IInv, TypeOK
<1>3. CacheInv'
  <2> SUFFICES ASSUME NEW io \in Io, value[io] # Undef, writes[io] = 0, blame'[io] = "none"
               PROVE  Shows(net, Pin(io), io, Expected(io))'
    BY <1>1 DEF CacheInv
  <2>1. Expected(io)' = Expected(io)
    BY <1>1 DEF Expected
  <2>2. NamedIn(net, io) /\ blame[io] = "none"
    BY <1>1
  <2>3. Shows(net, Pin(io)', io, Expected(io))
    BY <2>2 DEF IInv, CacheInv, Shows
  <2> QED
    BY <1>1, <2>1, <2>3 DEF Shows, LastNaming, NamedIn, Names, Carried
<1> QED
  BY <1>1, <1>2, <1>3, WindowUntouched DEF IInv, ioVars

-----------------------------------------------------------------------------
LEMMA NextIInv == IInv /\ [Next]_vars => IInv'
<1> SUFFICES ASSUME IInv, [Next]_vars PROVE IInv'
  OBVIOUS
<1>1. CASE SomeWrite
  BY <1>1, WriteKeeps, IoAssumption DEF SomeWrite
<1>2. CASE Elapse
  <2>1. /\ timer' = "due"
        /\ UNCHANGED <<value, lastPWM, pending, net, configured, out, ccr, writes, blame>>
    BY <1>2 DEF Elapse, ioVars, extVars
  <2>2. TypeOK'
    BY <2>1 DEF IInv, TypeOK
  <2>3. CacheInv'
    BY <2>1 DEF IInv, CacheInv, Shows, LastNaming, NamedIn, Names, Carried, Pin, Expected
  <2> QED
    BY <2>1, <2>2, <2>3, WindowUntouched DEF IInv, ioVars
<1>3. CASE UNCHANGED vars
  <2>1. UNCHANGED <<value, lastPWM, pending, timer, net, configured, out, ccr, writes, blame>>
    BY <1>3 DEF vars, ioVars, extVars
  <2>2. TypeOK'
    BY <2>1 DEF IInv, TypeOK
  <2>3. CacheInv'
    BY <2>1 DEF IInv, CacheInv, Shows, LastNaming, NamedIn, Names, Carried, Pin, Expected
  <2> QED
    BY <2>1, <2>2, <2>3, WindowUntouched DEF IInv, ioVars
<1> QED
  BY <1>1, <1>2, <1>3, FlushKeeps, RefreshKeeps, DeliverKeeps, LoseKeeps, PowerCutKeeps DEF Next

LEMMA Invariance == Spec => []IInv
<1> QED
  BY InitIInv, NextIInv, PTL DEF Spec

(* Values, masks and levels stay in their ranges. In particular no level   *)
(* on the wire is zero, which Interface.js:239 would turn into "leave      *)
(* alone", and none reaches the duty cycle.                                *)
THEOREM TypeCorrect == Spec => []TypeOK
<1>1. IInv => TypeOK
  BY DEF IInv
<1> QED
  BY <1>1, Invariance, PTL

(* Whatever is written in a window, the fold keeps the first write of each *)
(* bit and the last level of each channel, and touches nothing else.       *)
THEOREM FoldsKeepTheFirst == Spec => []FoldKeepsFirst
<1>1. IInv => FoldKeepsFirst
  BY DEF IInv
<1> QED
  BY <1>1, Invariance, PTL

(* The branch of enable() that restores a level is never taken.            *)
THEOREM LevelsAreForgotten == Spec => []LevelForgotten
<1>1. IInv => LevelForgotten
  BY DEF IInv
<1> QED
  BY <1>1, Invariance, PTL

(* Apart from losses and even windows, which blame names, every output     *)
(* shows, or will show, the value the controller has cached.               *)
THEOREM CacheIsFollowed == Spec => []CacheFollowed
<1>1. ASSUME IInv PROVE CacheFollowed
  <2> SUFFICES ASSUME NEW io \in Io, value[io] # Undef, writes[io] = 0, blame[io] = "none"
               PROVE  Coming(io) = Expected(io)
    BY DEF CacheFollowed
  <2>1. Shows(net, Pin(io), io, Expected(io)) /\ DOMAIN net = 1..Len(net)
    BY <1>1 DEF IInv, CacheInv, TypeOK
  <2>2. CASE ~NamedIn(net, io)
    <3>1. Pin(io) = Expected(io)
      BY <2>1, <2>2 DEF Shows, LastNaming, NamedIn
    <3> QED
      BY <2>2, <3>1 DEF Coming, Pin
  <2>3. CASE NamedIn(net, io)
    <3>1. PICK k \in 1..Len(net) : LastNaming(net, k, io) /\ Carried(net[k], io) = Expected(io)
      BY <2>1, <2>3 DEF Shows
    <3> DEFINE P(i) == /\ i \in DOMAIN net /\ Names(net[i], io)
                       /\ \A j \in DOMAIN net : j > i => ~Names(net[j], io)
               c == CHOOSE i \in DOMAIN net :
                      Names(net[i], io) /\ \A j \in DOMAIN net : j > i => ~Names(net[j], io)
    <3>2. k \in DOMAIN net /\ Names(net[k], io)
          /\ \A j \in DOMAIN net : j > k => ~Names(net[j], io)
      BY <2>1, <3>1 DEF LastNaming
    <3>3. c \in DOMAIN net /\ Names(net[c], io)
          /\ \A j \in DOMAIN net : j > c => ~Names(net[j], io)
      BY <3>2
    <3>4. Coming(io) = Carried(net[c], io)
      BY <2>3 DEF Coming
    <3> HIDE DEF c
    <3>5. c = k
      BY <2>1, <3>2, <3>3
    <3> QED
      BY <3>1, <3>4, <3>5
  <2> QED
    BY <2>2, <2>3
<1> QED
  BY <1>1, Invariance, PTL

=============================================================================

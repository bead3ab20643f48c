------------------------------ MODULE OutQueue ------------------------------
(***************************************************************************)
(* How a call such as enable() on an output of the controller reaches a    *)
(* pin: Io.js caches the value and queues a write, Interface.js folds the  *)
(* writes of a debounce window into one message of bit masks and one of    *)
(* PWM levels, and the extension (adce2.c) applies the messages in order.  *)
(* One interface of the controller and the extension behind it; the daemon *)
(* and the node between them are a queue that may lose messages, since the *)
(* daemon drops commands when it is full and when it gives up.             *)
(***************************************************************************)
EXTENDS Integers, Sequences, SequencesExt

CONSTANTS Dig,        \* IOs added as "digital out"
          Pwm,        \* IOs added as "pwm out", each on a PWM channel
          Inverted,   \* IOs whose inverted() was called
          Driven,     \* IOs the services write; the rest share their ports
          Factory,    \* outputs of an extension that was never configured
          Duty,       \* dutyCycle of the channels
          Dim,        \* a remembered level below this is not restored (10)
          Levels,     \* arguments pwm() is called with
          MaxNet      \* bound: messages under way

Keep == 65535         \* 0xFFFF, "leave this channel alone"
Undef == -1           \* undefined
Io == Dig \cup Pwm

ASSUME IoAssumption ==
  /\ Dig \cap Pwm = {} /\ Inverted \subseteq Io
  /\ Factory \subseteq Dig /\ Driven \subseteq Io

ASSUME LevelAssumption ==
  /\ Duty \in 2..(Keep - 1) /\ Dim \in Nat
  /\ Levels \subseteq Nat /\ MaxNet \in Nat

VARIABLES
  value,      \* value[io] of Io.js; true is 1, false is 0
  lastPWM,    \* _lastPWM[io]
  pending,    \* what _outMessageQueue will be folded to
  timer,      \* the debounce timer: off, armed, or due
  net,        \* messages between the interface and its extension
  configured, \* the extension has this configuration in its flash
  out,        \* the bits of P1OUT, P2OUT, P3OUT
  ccr,        \* the compare registers of the PWM channels
  writes,     \* history: 0, an odd number (1) or an even number (2) of
              \* writes of io since the last flush
  blame       \* history: why the pin of io may differ from value[io]

ioVars  == <<value, lastPWM>>
extVars == <<configured, out, ccr>>
vars == <<ioVars, pending, timer, net, extVars, writes, blame>>

Wire == 1..(Duty - 1)
Bits == [kind : {"bits"}, or : SUBSET Dig, and : SUBSET Dig]
PwmData == [Pwm -> Wire \cup {Keep}]
Message == Bits \cup [kind : {"pwm"}, data : PwmData] \cup [kind : {"config"}]

Nothing == [bits |-> FALSE, or |-> {}, and |-> Dig,
            received |-> FALSE, data |-> [p \in Pwm |-> Keep]]

TypeOK ==
  /\ value \in [Io -> {Undef, 0, 1}]
  /\ lastPWM \in [Pwm -> Nat \cup {Undef}]
  /\ pending \in [bits : BOOLEAN, or : SUBSET Dig, and : SUBSET Dig,
                  received : BOOLEAN, data : PwmData]
  /\ timer \in {"off", "armed", "due"}
  /\ net \in Seq(Message) /\ Len(net) <= MaxNet
  /\ configured \in BOOLEAN
  /\ out \in [Dig -> {0, 1}]
  /\ ccr \in [Pwm -> 0..(Duty - 1)]
  /\ writes \in [Io -> 0..2]
  /\ blame \in [Io -> {"none", "fold", "loss"}]

(* A controller starts with undefined values; the extension may have been  *)
(* running under an earlier one.                                           *)
Init ==
  /\ value = [io \in Io |-> Undef]
  /\ lastPWM = [p \in Pwm |-> Undef]
  /\ pending = Nothing /\ timer = "off" /\ net = <<>>
  /\ configured \in BOOLEAN
  /\ out \in [Dig -> {0, 1}] /\ ccr \in [Pwm -> {0} \cup Wire]
  /\ writes = [io \in Io |-> 0] /\ blame = [io \in Io |-> "none"]

-----------------------------------------------------------------------------
(* Io.js.                                                                  *)

getValueDigital(io, v) == IF io \in Inverted THEN 1 - v ELSE v

(* Mutant: the upper end of the range forgotten.                           *)
Clamp_NoTop(v) == IF v < 1 THEN 1 ELSE v

Clamp(v) == IF v < 1 THEN 1 ELSE IF v > Duty - 1 THEN Duty - 1 ELSE v
getValuePWM(io, v) == IF io \in Inverted THEN Duty - Clamp(v) ELSE Clamp(v)

getMessageIoWriteDigital(io, v) ==
  [or  |-> IF v = 1 THEN {io} ELSE {},
   and |-> IF v = 1 THEN Dig ELSE Dig \ {io}]

(* Mutant: both masks simply accumulated.                                  *)
AggregateBits_Accumulated(p, item) ==
  [p EXCEPT !.bits = TRUE, !.or = p.or \cup item.or, !.and = p.and \cap item.and]

(* One step of the fold over the queue, for a write of bits.               *)
AggregateBits(p, item) ==
  [p EXCEPT !.bits = TRUE,
            !.or   = p.or \cup (item.or \cap p.and),
            !.and  = p.and \cap (p.or \cup item.and)]

(* value || 0xFFFF: a level of zero would read as "leave alone".           *)
getPWMMessage(data) == [p \in Pwm |-> IF data[p] = 0 THEN Keep ELSE data[p]]

(* One step of the fold over the queue, for a write of PWM levels.         *)
AggregatePwm(p, item) ==
  [p EXCEPT !.received = TRUE,
            !.data = [c \in Pwm |-> IF item[c] = Keep THEN p.data[c]
                                                      ELSE item[c]]]

(* Mutant: a push while the timer runs stops it.                           *)
throttleMessageQueue_Cancels ==
  timer' = IF timer = "off" THEN "armed" ELSE "off"

(* Every push restarts the 35 ms of the debounce.                          *)
throttleMessageQueue == timer' = "armed"

CountWrite(io) ==
  writes' = [writes EXCEPT ![io] = IF @ = 1 /\ io \in Dig THEN 2 ELSE 1]

PushDigital(io, v) ==
  /\ pending' = AggregateBits(pending,
                  getMessageIoWriteDigital(io, getValueDigital(io, v)))
  /\ value' = [value EXCEPT ![io] = v]
  /\ lastPWM' = lastPWM

(* pwm(level), with _pwm of the interface. What disable and enable assign  *)
(* to value afterwards is v.                                               *)
PushPwm(io, level, v) ==
  /\ lastPWM' = [lastPWM EXCEPT ![io] = level]
  /\ pending' = AggregatePwm(pending,
                  getPWMMessage([[p \in Pwm |-> Keep]
                                 EXCEPT ![io] = getValuePWM(io, level)]))
  /\ value' = [value EXCEPT ![io] = v]

Queued(io) == /\ throttleMessageQueue
              /\ CountWrite(io)
              /\ UNCHANGED <<net, extVars, blame>>

disable(io) ==
  /\ value[io] # 0
  /\ IF io \in Pwm THEN PushPwm(io, 0, 0) ELSE PushDigital(io, 0)
  /\ Queued(io)

enable(io) ==
  /\ value[io] # 1
  /\ IF io \in Pwm
     THEN PushPwm(io, IF lastPWM[io] < Dim THEN Duty ELSE lastPWM[io], 1)
     ELSE PushDigital(io, 1)
  /\ Queued(io)

toggle(io) == IF value[io] = 1 THEN disable(io) ELSE enable(io)

(* Mutant: the cached value is left to enable and disable.                 *)
pwm_LevelOnly(io, level) == PushPwm(io, level, value[io]) /\ Queued(io)

pwm(io, level) ==
  /\ PushPwm(io, level, IF level # 0 THEN 1 ELSE 0)
  /\ Queued(io)

-----------------------------------------------------------------------------
(* Interface.js.                                                           *)

(* 35 ms without a push.                                                   *)
Elapse == /\ timer = "armed"
          /\ timer' = "due"
          /\ UNCHANGED <<ioVars, pending, net, extVars, writes, blame>>

Folded ==
  (IF pending.bits
   THEN <<[kind |-> "bits", or |-> pending.or, and |-> pending.and]>>
   ELSE <<>>) \o
  (IF pending.received
   THEN <<[kind |-> "pwm", data |-> getPWMMessage(pending.data)]>>
   ELSE <<>>)

Flush ==
  /\ timer = "due"
  /\ Len(net) + Len(Folded) <= MaxNet
  /\ net' = net \o Folded
  /\ pending' = Nothing
  /\ timer' = "off"
  /\ writes' = [io \in Io |-> 0]
  /\ blame' = [io \in Io |-> CASE writes[io] = 0 -> blame[io]
                               [] writes[io] = 1 -> "none"
                               [] writes[io] = 2 -> "fold"]
  /\ UNCHANGED <<ioVars, extVars>>

(* The refresh goes round the queue. Its second message, the period of the *)
(* PWM channels, touches no state of this module; the bound leaves room    *)
(* for it, so that refreshing alone cannot keep net full.                  *)
refresh ==
  /\ Len(net) + 2 <= MaxNet
  /\ net' = Append(net, [kind |-> "config"])
  /\ UNCHANGED <<ioVars, pending, timer, extVars, writes, blame>>

-----------------------------------------------------------------------------
(* The way to the extension, and adce2.c.                                  *)

(* Does message m write io, and what?                                      *)
Names(m, io) ==
  IF io \in Dig THEN m.kind = "bits" /\ (io \in m.or \/ io \notin m.and)
                ELSE m.kind = "pwm" /\ m.data[io] # Keep
Carried(m, io) ==
  IF io \in Dig THEN IF io \in m.and THEN 1 ELSE 0
                ELSE m.data[io]

NamedIn(s, io) == \E k \in DOMAIN s : Names(s[k], io)

Outputs == IF configured THEN Dig ELSE Factory

(* Mutant: the second half of the masks is not applied.                    *)
msp430BitMaskPorts_SetsOnly(m) ==
  /\ out' = [d \in Dig |-> IF d \in Outputs \cap m.or THEN 1 ELSE out[d]]
  /\ UNCHANGED <<configured, ccr, blame>>

(* P1OUT |= or & P1DIR, then P1OUT &= and | ~P1DIR.                        *)
msp430BitMaskPorts(m) ==
  /\ out' = [d \in Dig |->
       IF d \notin Outputs THEN out[d]
       ELSE IF (d \in m.or \/ out[d] = 1) /\ d \in m.and THEN 1 ELSE 0]
  /\ blame' = [io \in Io |->
       IF io \in Dig \ Outputs /\ Names(m, io) /\ ~NamedIn(Tail(net), io)
       THEN "loss" ELSE blame[io]]
  /\ UNCHANGED <<configured, ccr>>

pwmSetChannelValues(m) ==
  /\ ccr' = [p \in Pwm |-> IF m.data[p] # Keep THEN m.data[p] ELSE ccr[p]]
  /\ UNCHANGED <<configured, out, blame>>

(* A reset starts the ports as the configuration says, with outputs low;   *)
(* the outputs of an unconfigured extension start low as well. A reset     *)
(* that cuts the power clears the timers too.                              *)
Restart(rest, timersLost) ==
  /\ out' = [d \in Dig |-> 0]
  /\ ccr' = IF timersLost THEN [p \in Pwm |-> 0] ELSE ccr
  /\ blame' = [io \in Io |->
       IF NamedIn(rest, io) \/ (io \in Pwm /\ ~timersLost)
       THEN blame[io] ELSE "loss"]

(* A configuration that is in flash already is not written again, and the  *)
(* extension does not restart.                                             *)
flashConfig ==
  /\ configured' = TRUE
  /\ IF configured THEN UNCHANGED <<out, ccr, blame>>
                   ELSE Restart(Tail(net), FALSE)

Deliver ==
  /\ net # <<>>
  /\ CASE net[1].kind = "bits"   -> msp430BitMaskPorts(net[1])
       [] net[1].kind = "pwm"    -> pwmSetChannelValues(net[1])
       [] net[1].kind = "config" -> flashConfig
  /\ net' = Tail(net)
  /\ UNCHANGED <<ioVars, pending, timer, writes>>

(* The daemon found no room for the message, or gave it up.                *)
Lose ==
  \E k \in DOMAIN net :
    /\ net' = RemoveAt(net, k)
    /\ blame' = [io \in Io |->
         IF Names(net[k], io) /\ (\A j \in DOMAIN net :
                                    j > k => ~Names(net[j], io))
         THEN "loss" ELSE blame[io]]
    /\ UNCHANGED <<ioVars, pending, timer, extVars, writes>>

PowerCut ==
  /\ Restart(net, TRUE)
  /\ UNCHANGED <<ioVars, pending, timer, net, configured, writes>>

-----------------------------------------------------------------------------
Write(io) == disable(io) \/ enable(io) \/ toggle(io)
                \/ (io \in Pwm /\ \E level \in Levels : pwm(io, level))

SomeWrite == \E io \in Driven : Write(io)

Next == SomeWrite \/ Elapse \/ Flush \/ refresh \/ Deliver \/ Lose \/ PowerCut

Spec == Init /\ [][Next]_vars

(* The timer of the event loop fires and the daemon goes on. Flush is      *)
(* strongly fair because the bound MaxNet, which the code does not have,   *)
(* may disable it.                                                         *)
FairSpec == Spec /\ WF_vars(Elapse) /\ SF_vars(Flush) /\ WF_vars(Deliver)

-----------------------------------------------------------------------------
(* Properties.                                                             *)

Expected(io) == IF io \in Dig THEN getValueDigital(io, value[io])
                              ELSE getValuePWM(io, lastPWM[io])

(* What the pin will show when everything under way has arrived.           *)
Coming(io) ==
  IF NamedIn(net, io)
  THEN LET k == CHOOSE k \in DOMAIN net :
                  Names(net[k], io) /\ \A j \in DOMAIN net :
                                         j > k => ~Names(net[j], io)
       IN  Carried(net[k], io)
  ELSE IF io \in Dig THEN out[io] ELSE ccr[io]

(* The suppression of repeated values (Io.js:142, 162) relies on it: an    *)
(* output whose writes were flushed shows, or will show, the value the     *)
(* controller has cached, as long as no message was lost, the extension    *)
(* kept its power and no window held an even number of writes.             *)
CacheFollowed ==
  \A io \in Io : (/\ value[io] # Undef
                  /\ writes[io] = 0
                  /\ blame[io] = "none") => Coming(io) = Expected(io)

(* A window is folded to what its first write of every bit says and to     *)
(* its last level of every channel, and leaves every other output alone    *)
(* (Interface.js:57-75): the masks the extension gets never set a bit and  *)
(* clear it as well.                                                       *)
Window == [kind |-> "bits", or |-> pending.or, and |-> pending.and,
           data |-> pending.data]
FoldKeepsFirst ==
  /\ pending.or \subseteq pending.and
  /\ \A d \in Dig :
       IF writes[d] = 0 THEN ~Names(Window, d)
       ELSE /\ Names(Window, d)
            /\ Carried(Window, d) = IF writes[d] = 1 THEN Expected(d)
                                                     ELSE 1 - Expected(d)
  /\ \A p \in Pwm : pending.data[p] = IF writes[p] = 0 THEN Keep
                                                      ELSE Expected(p)

(* A level set with pwm() is never there for enable() to restore, although *)
(* Io.js:166-170 tries to: an output that is off has forgotten it.         *)
LevelForgotten == \A p \in Pwm : value[p] # 1 => lastPWM[p] <= 0

(* Writes are flushed, provided the callers pause for 35 ms some time: the *)
(* debounce (Interface.js:101) has no maximum wait.                        *)
FlushedInPause ==
  []<><<SomeWrite>>_vars \/ (pending # Nothing ~> pending = Nothing)

(* README.md:26 "sets my-io to logical high": at rest, and unless a        *)
(* message was lost, an output shows the value last asked for.             *)
PinsFollow ==
  timer = "off" /\ net = <<>> =>
    \A d \in Dig : value[d] # Undef /\ blame[d] # "loss" =>
                     out[d] = getValueDigital(d, value[d])

=============================================================================

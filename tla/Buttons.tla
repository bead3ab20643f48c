------------------------------- MODULE Buttons -------------------------------
(***************************************************************************)
(* From a key to the lamps. An extension samples its inputs and reports a  *)
(* change as the ports it triggers with a snapshot of their pins; reports  *)
(* may be lost, or delivered twice, on their way. The controller passes    *)
(* one to every IO of the triggered ports, and an IO calls its handlers if *)
(* the value differs from the one they were told before.                   *)
(* The handlers are those of impl/helper.js and living-service.js. They    *)
(* are closures with a state of their own, shared by the keys they are put *)
(* on, and colorCycle sets two timers.                                     *)
(*                                                                         *)
(* A step of the controller is one turn of its event loop. All services    *)
(* run, and all selections find what they look for (see Services).         *)
(***************************************************************************)
EXTENDS House, SequencesExt

CONSTANTS Walls,       \* the nodes whose keys this instance has
          Used,        \* bound: the sets of keys touched in a behaviour, each with
                       \* the number of reloads of a service in that behaviour
          NColours,    \* bound: colours of colorCycle (21 in the code)
          Steps,       \* bound: steps of the intensity between 0 and 1 (50)
          NLevels,     \* bound: levels of a "level" handler (15)
          MaxNet       \* bound: reports under way per node

Key == UNION { {<<w.node, w.io>> : w \in {x \in Wires[s] : x.node \in Walls}} : s \in Service }
Closure(s, h) == [service |-> s, handler |-> h]
Closures == UNION { {Closure(s, w.handler) : w \in {x \in Wires[s] : x.node \in Walls}} :
                     s \in Service }
On(k) == {c \in Closures : \E w \in Wires[c.service] :
             w.node = k[1] /\ w.io = k[2] /\ w.handler = c.handler}
Cycles == {c \in Closures : c.handler.kind \in {"cycle", "cycleLEDs"}}
Colours == {c \in Closures : c.handler.kind = "colorCycle"}
HandlersOf == [k \in Key |-> On(k)]
KeysOf == [c \in Closures |-> {k \in Key : c \in HandlersOf[k]}]
Pin(x) == <<x.node, x.io.key>>
Port == [k \in Key |-> (CHOOSE x \in AllIos : Pin(x) = k).io.port]
At(n) == {k \in Key : k[1] = n}

ASSUME InstanceAssumption ==
  /\ Walls \subseteq {x.node : x \in AllIos}
  /\ Used \subseteq [keys : SUBSET Key, reloads : {0, 1}]
ASSUME BoundAssumption ==
  /\ {NColours, Steps, NLevels} \subseteq Nat \ {0}
  /\ MaxNet \in Nat

(* The lamps each selection finds, for the selections that occur.          *)
Kitchen == OutsOf("kitchen-lightning")
Selections == {Kitchen} \cup (UNION {Range(c.handler.targets) : c \in Closures})
                        \cup (UNION {Range(Resets[c.service]) : c \in Closures})
LampsOf == [sel \in Selections |->
              {<<x.node, x.interface.key, x.io.key>> : x \in Selected(sel)}]
Lamp == LampsOf[Kitchen] \cup
        UNION { UNION {LampsOf[sel] : sel \in Range(c.handler.targets)} :
                 c \in {d \in Closures : d.handler.kind # "allDown"} }

VARIABLES
  used,        \* the keys that are touched, and how many reloads there are
  sampled,     \* keys that were down when their extension last reported
  net,         \* per node, reports on their way to the controller
  told,        \* previousValue of a key's events; null is -1
  closure,     \* per handler, the variables of its closure
  orphan,      \* closures of replaced instances that still have a timer set
  shows,       \* what each lamp was last set to
  reloads,
  presses,     \* history: reported presses of the keys of a handler, mod 4
  missed       \* history: handlers that cannot have seen every press

device == <<used, sampled, net>>
history == <<presses, missed>>
vars == <<device, told, closure, orphan, shows, reloads, history>>

Off == <<0>>
Lit == <<1>>
Colour(i, level) == IF level = 0 THEN Off ELSE <<i, level>>
Fresh == [state |-> 0, start |-> "none", speed |-> FALSE, captured |-> 0,
          intensity |-> Steps, delta |-> 1]
Report == [ports : SUBSET Range(Port), down : SUBSET Key]
Variables == [state : Nat, start : {"none", "armed", "fired"}, speed : BOOLEAN,
              captured : 0..(NColours - 1), intensity : 0..Steps, delta : {1, -1}]
Shown == {Off, Lit} \cup ((0..(NColours - 1)) \X (1..Steps))

TypeOK ==
  /\ used \in Used /\ sampled \subseteq used.keys
  /\ net \in [Walls -> Seq(Report)] /\ \A n \in Walls : Len(net[n]) <= MaxNet
  /\ told \in [Key -> {-1, 0, 1}]
  /\ closure \in [Closures -> Variables] /\ orphan \in [Closures -> Variables]
  /\ shows \in [Lamp -> Shown]
  /\ reloads \in 0..used.reloads
  /\ presses \in [Cycles -> 0..3] /\ missed \subseteq Cycles \cup Colours

Init ==
  /\ used \in Used /\ sampled = {}
  /\ net = [n \in Walls |-> << >>]
  /\ told = [k \in Key |-> -1]
  /\ closure = [c \in Closures |-> Fresh] /\ orphan = closure
  /\ shows = [l \in Lamp |-> Off]
  /\ reloads = 0 /\ presses = [c \in Cycles |-> 0] /\ missed = {}

-----------------------------------------------------------------------------
(* The handlers, as functions of the closure, of the lamps and of the      *)
(* value: 0 for a key that is down.                                        *)

Set(lamps, sel, v) == [l \in Lamp |-> IF l \in LampsOf[sel] THEN v ELSE lamps[l]]
SetAll(lamps, sels, v) ==
  [l \in Lamp |-> IF \E sel \in Range(sels) : l \in LampsOf[sel] THEN v ELSE lamps[l]]

(* Mutant: the last circuit that should be enabled is not.                 *)
Circuit_Short(lamps, sels, n) ==
  LET Enable(m, j) == Set(m, sels[j], IF j < n THEN Lit ELSE Off)
  IN Enable(Enable(Enable(lamps, 1), 2), 3)

(* Circuits 1 to n of the three are enabled, the rest is disabled, one     *)
(* after the other.                                                        *)
Circuit(lamps, sels, n) ==
  LET Enable(m, j) == Set(m, sels[j], IF j <= n THEN Lit ELSE Off)
  IN Enable(Enable(Enable(lamps, 1), 2), 3)

toggleLighting(lamps) ==
  [l \in Lamp |-> IF l \notin LampsOf[Kitchen] THEN lamps[l]
                  ELSE IF lamps[l] = Off THEN Lit ELSE Off]

cycle(x, h, v) ==
  IF v = 1 THEN x
  ELSE LET n == (x.closure.state + 1) % 4 IN
       [closure |-> [x.closure EXCEPT !.state = n], shows |-> Circuit(x.shows, h.targets, n)]

(* The cycle of the dining table takes the kitchen along when it wraps.    *)
cycleLEDs(x, h, v) ==
  IF v = 0 /\ h.state = "interface-dining" /\ x.closure.state = 3
  THEN cycle([x EXCEPT !.shows = toggleLighting(x.shows)], h, v)
  ELSE cycle(x, h, v)

level(x, h, v) ==
  IF v = 1 THEN x
  ELSE LET n == (x.closure.state + 1) % NLevels IN
       [closure |-> [x.closure EXCEPT !.state = n],
        shows |-> Set(x.shows, h.targets[1], IF n = 0 THEN Off ELSE Lit)]

allDown(x, h, v) ==
  IF v = 1 THEN x ELSE [x EXCEPT !.shows = SetAll(x.shows, h.targets, Off)]

(* Mutant: a release only clears the start timer if the gradient runs.     *)
colorCycle_KeepsTimer(x, h, v) ==
  LET f == x.closure IN
  IF v = 0 THEN
    IF f.start # "none" THEN x
    ELSE [x EXCEPT !.closure = [f EXCEPT !.start = "armed", !.captured = f.state]]
  ELSE IF f.speed THEN
    [x EXCEPT !.closure = [f EXCEPT !.start = "none", !.speed = FALSE, !.captured = 0]]
  ELSE
    [closure |-> [f EXCEPT !.state = (f.state + 1) % NColours],
     shows |-> SetAll(x.shows, h.targets, Colour(f.state, f.intensity))]

(* Mutant: a release does not clear the interval of the gradient.          *)
colorCycle_KeepsInterval(x, h, v) ==
  LET f == x.closure IN
  IF v = 0 THEN
    IF f.start # "none" THEN x
    ELSE [x EXCEPT !.closure = [f EXCEPT !.start = "armed", !.captured = f.state]]
  ELSE IF f.speed THEN [x EXCEPT !.closure = [f EXCEPT !.start = "none"]]
  ELSE
    [closure |-> [f EXCEPT !.start = "none", !.captured = 0,
                        !.state = (f.state + 1) % NColours],
     shows |-> SetAll(x.shows, h.targets, Colour(f.state, f.intensity))]

(* A press sets a timer unless one is set; a release clears both timers,   *)
(* and moves on to the next colour if the gradient was not running.        *)
colorCycle(x, h, v) ==
  LET f == x.closure IN
  IF v = 0 THEN
    IF f.start # "none" THEN x
    ELSE [x EXCEPT !.closure = [f EXCEPT !.start = "armed", !.captured = f.state]]
  ELSE IF f.speed THEN
    [x EXCEPT !.closure = [f EXCEPT !.start = "none", !.speed = FALSE, !.captured = 0]]
  ELSE
    [closure |-> [f EXCEPT !.start = "none", !.captured = 0,
                        !.state = (f.state + 1) % NColours],
     shows |-> SetAll(x.shows, h.targets, Colour(f.state, f.intensity))]

Call(x, h, v) ==
  CASE h.kind = "cycle"      -> cycle(x, h, v)
    [] h.kind = "cycleLEDs"  -> cycleLEDs(x, h, v)
    [] h.kind = "colorCycle" -> colorCycle(x, h, v)
    [] h.kind = "level"      -> level(x, h, v)
    [] h.kind = "allDown"    -> allDown(x, h, v)

-----------------------------------------------------------------------------
(* The controller: a report is handed to the keys of its ports in the      *)
(* order in which they were added to their interface.                      *)

(* The handlers of a key are called in turn. Two of one key share no lamp, *)
(* so each finds and leaves its lamps as if it were the only one.          *)
Called(x, k, v) ==
  [c \in HandlersOf[k] |-> Call([closure |-> x.closure[c], shows |-> x.shows], c.handler, v)]

(* What the handlers leave, y, put together. (It is chosen from a set of   *)
(* one so that it is computed once.)                                       *)
Joined(x, k, v, y) ==
  LET by(l) == {c \in HandlersOf[k] : y[c].shows[l] # x.shows[l]}
  IN [told |-> [x.told EXCEPT ![k] = v],
      closure |-> [c \in Closures |-> IF c \in HandlersOf[k] THEN y[c].closure
                                                             ELSE x.closure[c]],
      shows |-> [l \in Lamp |-> IF by(l) = {} THEN x.shows[l]
                                ELSE y[CHOOSE c \in by(l) : TRUE].shows[l]]]

Handed(x, k, v) ==
  CHOOSE z \in {Joined(x, k, v, y) : y \in {Called(x, k, v)}} : TRUE

(* Mutant: previousValue is not looked at.                                 *)
callback_Always(x, k, v) == Handed(x, k, v)

callback(x, k, v) == IF x.told[k] = v THEN x ELSE Handed(x, k, v)

Triggered(x, k, r) ==
  IF k \in Key /\ Port[k] \in r.ports THEN callback(x, k, IF k \in r.down THEN 0 ELSE 1) ELSE x

Dispatch(n, r) ==
  LET Turn(x, i) == Triggered(x, <<n, KeyName[i]>>, r)
      now == [told |-> told, closure |-> closure, shows |-> shows]
  IN \E x1 \in {Turn(now, 1)} : \E x2 \in {Turn(x1, 2)} : \E x3 \in {Turn(x2, 3)} :
       \E x4 \in {Turn(x3, 4)} : told' = x4.told /\ closure' = x4.closure /\ shows' = x4.shows

(* A report arrives; it may arrive once more.                              *)
Deliver(n) ==
  /\ net[n] # << >>
  /\ Dispatch(n, Head(net[n]))
  /\ net' = [net EXCEPT ![n] = Tail(@)]
  /\ UNCHANGED <<used, sampled, orphan, reloads, history>>

DeliverTwice(n) ==
  /\ net[n] # << >>
  /\ Dispatch(n, Head(net[n]))
  /\ UNCHANGED <<device, orphan, reloads, history>>

Lose(n) ==
  /\ net[n] # << >>
  /\ net' = [net EXCEPT ![n] = Tail(@)]
  /\ missed' = missed \cup {c \in Cycles \cup Colours : \E k \in KeysOf[c] :
                              k[1] = n /\ Port[k] \in Head(net[n]).ports}
  /\ UNCHANGED <<used, sampled, told, closure, orphan, shows, reloads, presses>>

(* The timers of colorCycle: the gradient starts, and makes a step. A      *)
(* closure that was replaced keeps its timers.                             *)
StartFires(f) == [f EXCEPT !.start = "fired", !.speed = TRUE]

(* Mutant: the gradient does not turn at the bottom.                       *)
Step_Down(f) == [f EXCEPT !.delta = -1, !.intensity = @ - 1]

Step(f) ==
  LET d == IF f.intensity = 0 THEN 1 ELSE IF f.intensity = Steps THEN -1 ELSE f.delta
  IN [f EXCEPT !.delta = d, !.intensity = @ + d]

Timer(c) ==
  /\ \/ closure[c].start = "armed" /\ closure' = [closure EXCEPT ![c] = StartFires(@)]
                                   /\ UNCHANGED orphan
     \/ orphan[c].start = "armed" /\ orphan' = [orphan EXCEPT ![c] = StartFires(@)]
                                  /\ UNCHANGED closure
  /\ UNCHANGED <<device, told, shows, reloads, history>>

Gradient(c) ==
  /\ \/ /\ closure[c].speed
        /\ closure' = [closure EXCEPT ![c] = Step(@)]
        /\ shows' = SetAll(shows, c.handler.targets,
                           Colour(closure[c].captured, closure'[c].intensity))
        /\ UNCHANGED orphan
     \/ /\ orphan[c].speed
        /\ orphan' = [orphan EXCEPT ![c] = Step(@)]
        /\ shows' = SetAll(shows, c.handler.targets,
                           Colour(orphan[c].captured, orphan'[c].intensity))
        /\ UNCHANGED closure
  /\ UNCHANGED <<device, told, reloads, history>>

(* A service is reloaded: its callbacks go, a new instance makes closures  *)
(* of its own, and resets its outputs. Timers that are set stay set.       *)
reloadService(s) ==
  LET mine == {c \in Closures : c.service = s}
      keys == {k \in Key : HandlersOf[k] \cap mine # {}}
  IN /\ reloads < used.reloads /\ reloads' = reloads + 1
     /\ told' = [k \in Key |-> IF k \in keys THEN -1 ELSE told[k]]
     /\ closure' = [c \in Closures |-> IF c \in mine THEN Fresh ELSE closure[c]]
     /\ orphan' = [c \in Closures |->
                    IF c \in mine /\ (closure[c].start = "armed" \/ closure[c].speed)
                    THEN [closure[c] EXCEPT !.state = 0] ELSE orphan[c]]
     /\ shows' = SetAll(shows, Resets[s], Off)
     /\ presses' = [c \in Cycles |-> IF c \in mine THEN 0 ELSE presses[c]]
     /\ missed' = missed \cup {c \in mine \cap (Cycles \cup Colours) : \E k \in KeysOf[c] :
                                     k \in sampled \/ net[k[1]] # << >>}
     /\ UNCHANGED device

-----------------------------------------------------------------------------
(* The extension samples its inputs and finds a change. What the keys do   *)
(* between two samples nobody sees.                                        *)
Sample(n) ==
  /\ Len(net[n]) < MaxNet
  /\ \E now \in SUBSET (used.keys \cap At(n)) :
       LET changed == {k \in At(n) : (k \in now) # (k \in sampled)} IN
       /\ changed # {}
       /\ sampled' = (sampled \ At(n)) \cup now
       /\ net' = [net EXCEPT ![n] = Append(@, [ports |-> {Port[k] : k \in changed}, down |-> now])]
       /\ presses' = [c \in Cycles |->
                        (presses[c] + Cardinality(KeysOf[c] \cap changed \cap now)) % 4]
  /\ UNCHANGED <<used, told, closure, orphan, shows, reloads, missed>>

Next ==
  \/ \E n \in Walls : Sample(n) \/ Deliver(n) \/ DeliverTwice(n) \/ Lose(n)
  \/ \E c \in Closures : Timer(c) \/ Gradient(c)
  \/ \E s \in {c.service : c \in Closures} : reloadService(s)

Spec == Init /\ [][Next]_vars

(* What is reported arrives, or is lost. Nobody has to touch a key.        *)
Taken(n) == net[n] # << >> /\ net' = [net EXCEPT ![n] = Tail(@)]
FairSpec == Spec /\ \A n \in Walls : WF_net(Taken(n))

-----------------------------------------------------------------------------
Rivals(c) == {d \in Closures \ {c} : /\ d.handler.kind # "allDown"
                                     /\ \E a \in Range(c.handler.targets) :
                                         \E b \in Range(d.handler.targets) :
                                           LampsOf[a] \cap LampsOf[b] # {}}

(* Whether a service, when it starts, turns off the lamps of its handler.  *)
(* (Office does not: its strips are those of living and room.)             *)
Resettable(c) == \A sel \in Range(c.handler.targets) : \A l \in LampsOf[sel] :
                   \E r \in Range(Resets[c.service]) : l \in LampsOf[r]

(* The lamps and the closures agree, although allDown and a reload change  *)
(* one without the other: of a cycle the circuits 1 to state are lit, or   *)
(* none; a strip is dark or shows, at the intensity its closure has, the   *)
(* current colour or the one before (helper.js:49, :76).                   *)
LampsFollow ==
  \A c \in Cycles \cup Colours : Rivals(c) = {} /\ (Resettable(c) \/ reloads = 0) =>
    /\ c \in Cycles =>
         \E n \in {0, closure[c].state} : \A j \in 1..3 :
           \A l \in LampsOf[c.handler.targets[j]] : shows[l] = IF j <= n THEN Lit ELSE Off
    /\ c \in Colours /\ ~orphan[c].speed =>
         \E i \in {Off} \cup {Colour((closure[c].state + d) % NColours, closure[c].intensity) :
                               d \in {0, NColours - 1}} :
           \A l \in LampsOf[c.handler.targets[1]] : shows[l] = i

(* While a timer of colorCycle is set, the last the handler heard of some  *)
(* key is that it is down, whichever of its keys were pressed and released *)
(* in which order; and the colour it will use is still the current one     *)
(* (helper.js:67, :87).                                                    *)
GradientHeld ==
  \A c \in Colours : closure[c].start = "armed" \/ closure[c].speed =>
    /\ \E k \in KeysOf[c] : told[k] = 0
    /\ closure[c].captured = closure[c].state

(* A cycle advances once for every press that is reported, also if the     *)
(* report comes twice, comes with those of other keys, or is the first     *)
(* after the start; unless a report was lost, or the service was reloaded  *)
(* with a key down (Io.js:67, helper.js:43).                               *)
PressesCount ==
  \A c \in Cycles : c \notin missed /\ (\A k \in KeysOf[c] : net[k[1]] = << >>) =>
    closure[c].state = presses[c]

(* A gradient ends when the keys of its handler are released, unless the   *)
(* report of it is lost (helper.js:79).                                    *)
GradientStops ==
  \A c \in Colours :
    closure[c].speed ~> (~closure[c].speed \/ KeysOf[c] \cap sampled # {} \/ c \in missed)

(* README.md:28, "subscribe to an I/O as input changes": an IO only calls  *)
(* its handlers when its pin has changed since they last heard of it, or   *)
(* since they were put there.                                              *)
CalledOnChange ==
  [][\A k \in Key : told'[k] # told[k] /\ told[k] = -1 /\ reloads' = reloads => told'[k] = 0]_vars
=============================================================================

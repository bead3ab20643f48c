--------------------------- MODULE ButtonsProofs ----------------------------
(***************************************************************************)
(* Proofs about Buttons, for the house as it is wired, any of its walls    *)
(* and any numbers of colours, steps, levels and reports under way: the    *)
(* types, that a gradient is held by a key, that the lamps follow their    *)
(* handlers, and that a cycle counts every press once. The house is data:  *)
(* the lemmas about it name what the proofs need, and are proved by        *)
(* looking at every wire and every output.                                 *)
(***************************************************************************)
EXTENDS Buttons, SequenceTheorems, FiniteSetTheorems, TLAPS

(* The wiring.                                                             *)

LEMMA ServiceNames == Service = {"helper", "kitchen", "office", "living", "room"}
BY DEF Service, Items
LEMMA WiresOfServices ==
  /\ Wires["helper"] = {} /\ Wires["kitchen"] = {}
  /\ Wires["office"] = officeWires /\ Wires["living"] = livingWires
  /\ Wires["room"] = roomWires
BY ServiceNames DEF Wires, ByService

(* Keys and handlers.                                                      *)
Kinds == {"cycle", "cycleLEDs", "colorCycle", "level", "allDown"}

LEMMA WireFields ==
  \A n, b, h : Wire(n, b, h).node = n /\ Wire(n, b, h).io = b /\ Wire(n, b, h).handler = h
BY DEF Wire

colourOf(key, t) == Handler("colorCycle", key, << << t, T({"rgb"}) >> >>)
cycleOf(t)  == Handler("cycle", "mainLEDCycle", Whites(t))
ledsOf(i)   == Handler("cycleLEDs", i, Outs(K(i)))
levelOf(key, i) == Handler("level", key, << << K(i), T({"out1"}) >> >>)
officeHandlers == {cycleOf(K("main-led-office")), colourOf("color3", T({"room"})),
                   colourOf("color1", K("main-led-north")), colourOf("color2", K("main-led-south"))}
livingHandlers == {ledsOf("interface-living"), ledsOf("interface-dining"), allDownFn,
                   levelOf("livingPWM", "interface-living"),
                   levelOf("diningPWM", "interface-dining")}
roomHandlers == {cycleOf(T({"room"})), allDownFn,
                 colourOf("color1", K("room-led")), colourOf("color2", K("room-led-2"))}

LEMMA OfficeHandlersAre == \A w \in officeWires : w.handler \in officeHandlers
BY WireFields DEF officeWires, officeHandlers, colourOf, cycleOf
LEMMA LivingHandlersAre == \A w \in livingWires : w.handler \in livingHandlers
BY WireFields DEF livingWires, livingHandlers, ledsOf, levelOf
LEMMA RoomHandlersAre == \A w \in roomWires : w.handler \in roomHandlers
BY WireFields DEF roomWires, roomHandlers, colourOf, cycleOf

LEMMA WiresHaveHandlers ==
  \A s \in Service : \A w \in Wires[s] :
    \/ s = "office" /\ w.handler \in officeHandlers
    \/ s = "living" /\ w.handler \in livingHandlers
    \/ s = "room" /\ w.handler \in roomHandlers
BY OfficeHandlersAre, LivingHandlersAre, RoomHandlersAre, ServiceNames, WiresOfServices

LEMMA HandlerKinds ==
  /\ \A key, t : colourOf(key, t).kind = "colorCycle"
  /\ \A t : cycleOf(t).kind = "cycle"
  /\ \A i : ledsOf(i).kind = "cycleLEDs"
  /\ \A key, i : levelOf(key, i).kind = "level"
  /\ allDownFn.kind = "allDown"
BY DEF Handler, colourOf, cycleOf, ledsOf, levelOf, allDownFn

LEMMA WiresHaveKinds ==
  \A s \in Service : \A w \in Wires[s] : w.handler.kind \in Kinds
BY WiresHaveHandlers, HandlerKinds DEF Kinds, officeHandlers, livingHandlers, roomHandlers

LEMMA ClosuresAre ==
  ASSUME NEW c \in Closures
  PROVE  /\ c.service \in Service /\ c = Closure(c.service, c.handler)
         /\ \E w \in Wires[c.service] : w.node \in Walls /\ w.handler = c.handler
<1>1. PICK s \in Service : c \in {Closure(s, w.handler) : w \in {x \in Wires[s] : x.node \in Walls}}
  BY DEF Closures
<1>2. PICK w \in Wires[s] : w.node \in Walls /\ c = Closure(s, w.handler)
  BY <1>1
<1> QED BY <1>1, <1>2 DEF Closure

LEMMA ClosureKinds == \A c \in Closures : c.handler.kind \in Kinds
BY ClosuresAre, WiresHaveKinds

(* No key has handlers of two services.                                    *)
LEMMA WiresApart ==
  \A s, t \in Service : \A w \in Wires[s], x \in Wires[t] :
    w.node = x.node /\ w.io = x.io => s = t
<1>1. \A w \in officeWires, x \in livingWires : ~(w.node = x.node /\ w.io = x.io)
  BY DEF officeWires, livingWires, Wire
<1>2. \A w \in officeWires, x \in roomWires : ~(w.node = x.node /\ w.io = x.io)
  BY DEF officeWires, roomWires, Wire
<1>3. \A w \in livingWires, x \in roomWires : ~(w.node = x.node /\ w.io = x.io)
  BY DEF livingWires, roomWires, Wire
<1> QED BY <1>1, <1>2, <1>3, ServiceNames, WiresOfServices

LEMMA OneServiceAKey ==
  ASSUME NEW k \in Key, NEW c \in HandlersOf[k], NEW d \in HandlersOf[k]
  PROVE  c.service = d.service
<1>1. c \in On(k) /\ d \in On(k)
  BY DEF HandlersOf
<1>2. PICK w \in Wires[c.service] : w.node = k[1] /\ w.io = k[2]
  BY <1>1 DEF On
<1>3. PICK x \in Wires[d.service] : x.node = k[1] /\ x.io = k[2]
  BY <1>1 DEF On
<1>4. c.service \in Service /\ d.service \in Service
  BY <1>1, ClosuresAre DEF On
<1> QED BY <1>2, <1>3, <1>4, WiresApart

LEMMA KeysOfHandlers ==
  ASSUME NEW c \in Closures, NEW k \in Key
  PROVE  k \in KeysOf[c] <=> c \in HandlersOf[k]
BY DEF KeysOf

LEMMA HandlersAre == \A k \in Key : HandlersOf[k] \subseteq Closures
BY DEF HandlersOf, On

-----------------------------------------------------------------------------
(* The handlers and their types.                                           *)

(* The parameters are natural numbers, and the remainders what they should *)
(* be.                                                                     *)
LEMMA Bounds == /\ NColours \in Nat /\ NColours > 0 /\ Steps \in Nat /\ Steps > 0
                /\ NLevels \in Nat /\ NLevels > 0 /\ MaxNet \in Nat
BY BoundAssumption

LEMMA Remainder == ASSUME NEW a \in Nat, NEW n \in Nat, n > 0 PROVE a % n \in 0..(n - 1)
OBVIOUS

LEMMA ShownAre ==
  /\ Off \in Shown /\ Lit \in Shown
  /\ \A i \in 0..(NColours - 1), v \in 0..Steps : Colour(i, v) \in Shown
<1>1. ASSUME NEW i \in 0..(NColours - 1), NEW v \in 0..Steps PROVE Colour(i, v) \in Shown
  <2>1. CASE v = 0
    BY <2>1 DEF Colour, Shown
  <2>2. CASE v # 0
    <3>1. v \in 1..Steps
      BY <2>2, Bounds
    <3> QED BY <2>2, <3>1 DEF Colour, Shown
  <2> QED BY <2>1, <2>2
<1> QED BY <1>1 DEF Shown

(* What the handlers do to the lamps leaves lamps.                         *)
LEMMA SetType ==
  ASSUME NEW m \in [Lamp -> Shown], NEW sel, NEW v \in Shown
  PROVE  Set(m, sel, v) \in [Lamp -> Shown]
BY DEF Set
LEMMA SetAllType ==
  ASSUME NEW m \in [Lamp -> Shown], NEW sels, NEW v \in Shown
  PROVE  SetAll(m, sels, v) \in [Lamp -> Shown]
BY DEF SetAll
LEMMA CircuitType ==
  ASSUME NEW m \in [Lamp -> Shown], NEW sels, NEW n
  PROVE  Circuit(m, sels, n) \in [Lamp -> Shown]
<1> DEFINE v(j) == IF j <= n THEN Lit ELSE Off
           a == Set(m, sels[1], v(1))
           b == Set(a, sels[2], v(2))
           c == Set(b, sels[3], v(3))
<1>1. \A j : v(j) \in Shown
  BY ShownAre
<1> HIDE DEF v
<1>2. a \in [Lamp -> Shown]
  BY <1>1, SetType
<1> HIDE DEF a
<1>3. b \in [Lamp -> Shown]
  BY <1>1, <1>2, SetType
<1> HIDE DEF b
<1>4. c \in [Lamp -> Shown]
  BY <1>1, <1>3, SetType
<1> QED BY <1>4 DEF Circuit, a, b, v
LEMMA toggleType ==
  ASSUME NEW m \in [Lamp -> Shown]
  PROVE  toggleLighting(m) \in [Lamp -> Shown]
BY ShownAre DEF toggleLighting

(* The closure of a handler after a call, and after a step of its timer.   *)
Within(c, f) == f \in Variables /\ (c.handler.kind = "colorCycle" => f.state < NColours)
Result(c, y) == Within(c, y.closure) /\ y.shows \in [Lamp -> Shown]

LEMMA CycleType ==
  ASSUME NEW c, c.handler.kind # "colorCycle", NEW f, Within(c, f), NEW m \in [Lamp -> Shown],
         NEW v
  PROVE  Result(c, cycle([closure |-> f, shows |-> m], c.handler, v))
<1> DEFINE x == [closure |-> f, shows |-> m]
           n == (f.state + 1) % 4
<1>1. CASE v = 1
  BY <1>1 DEF cycle, Result
<1>2. CASE v # 1
  <2>1. n \in Nat
    <3>1. f.state + 1 \in Nat
      BY DEF Within, Variables
    <3> QED BY <3>1, Remainder
  <2> HIDE DEF n
  <2>2. [f EXCEPT !.state = n] \in Variables
    BY <2>1 DEF Within, Variables
  <2>3. Circuit(m, c.handler.targets, n) \in [Lamp -> Shown]
    BY CircuitType
  <2>4. cycle(x, c.handler, v) = [closure |-> [f EXCEPT !.state = n],
                                  shows |-> Circuit(m, c.handler.targets, n)]
    BY <1>2 DEF cycle, n
  <2> QED BY <2>2, <2>3, <2>4 DEF Result, Within
<1> QED BY <1>1, <1>2

LEMMA cycleLEDsType ==
  ASSUME NEW c, c.handler.kind # "colorCycle", NEW f, Within(c, f), NEW m \in [Lamp -> Shown],
         NEW v
  PROVE  Result(c, cycleLEDs([closure |-> f, shows |-> m], c.handler, v))
<1>1. [[closure |-> f, shows |-> m] EXCEPT !.shows = toggleLighting(m)]
        = [closure |-> f, shows |-> toggleLighting(m)]
  OBVIOUS
<1>2. Result(c, cycle([closure |-> f, shows |-> toggleLighting(m)], c.handler, v))
  BY CycleType, toggleType
<1> QED BY <1>1, <1>2, CycleType DEF cycleLEDs

LEMMA LevelType ==
  ASSUME NEW c, c.handler.kind # "colorCycle", NEW f, Within(c, f), NEW m \in [Lamp -> Shown],
         NEW v
  PROVE  Result(c, level([closure |-> f, shows |-> m], c.handler, v))
<1> DEFINE x == [closure |-> f, shows |-> m]
           n == (f.state + 1) % NLevels
<1>1. CASE v = 1
  BY <1>1 DEF level, Result
<1>2. CASE v # 1
  <2>1. n \in Nat
    <3>1. f.state + 1 \in Nat
      BY DEF Within, Variables
    <3> QED BY <3>1, Bounds, Remainder
  <2> HIDE DEF n
  <2>2. [f EXCEPT !.state = n] \in Variables
    BY <2>1 DEF Within, Variables
  <2> DEFINE w == Set(m, c.handler.targets[1], IF n = 0 THEN Off ELSE Lit)
  <2>3. w \in [Lamp -> Shown]
    BY SetType, ShownAre
  <2>4. level(x, c.handler, v) = [closure |-> [f EXCEPT !.state = n], shows |-> w]
    BY <1>2 DEF level, n
  <2> HIDE DEF w
  <2> QED BY <2>2, <2>3, <2>4 DEF Result, Within
<1> QED BY <1>1, <1>2

LEMMA AllDownType ==
  ASSUME NEW c, NEW f, Within(c, f), NEW m \in [Lamp -> Shown], NEW v
  PROVE  Result(c, allDown([closure |-> f, shows |-> m], c.handler, v))
<1>1. SetAll(m, c.handler.targets, Off) \in [Lamp -> Shown]
  BY SetAllType, ShownAre
<1> QED BY <1>1 DEF allDown, Result

LEMMA ColorCycleType ==
  ASSUME NEW c, NEW f, Within(c, f), f.state < NColours, NEW m \in [Lamp -> Shown], NEW v
  PROVE  Result(c, colorCycle([closure |-> f, shows |-> m], c.handler, v))
<1> DEFINE x == [closure |-> f, shows |-> m]
<1>1. f \in Variables /\ f.state \in 0..(NColours - 1) /\ 0 \in 0..(NColours - 1)
  <2>1. f \in Variables /\ f.state \in Nat
    BY DEF Within, Variables
  <2> QED BY <2>1, Bounds
<1>2. CASE v = 0 /\ f.start # "none"
  BY <1>2 DEF colorCycle, Result
<1>3. CASE v = 0 /\ f.start = "none"
  <2> DEFINE g == [f EXCEPT !.start = "armed", !.captured = f.state]
  <2>1. g \in Variables /\ g.state = f.state
    BY <1>1 DEF Variables
  <2>2. colorCycle(x, c.handler, v) = [closure |-> g, shows |-> m]
    BY <1>3 DEF colorCycle
  <2> HIDE DEF g
  <2> QED BY <2>1, <2>2 DEF Result, Within
<1>4. CASE v # 0 /\ f.speed
  <2> DEFINE g == [f EXCEPT !.start = "none", !.speed = FALSE, !.captured = 0]
  <2>1. g \in Variables /\ g.state = f.state
    BY <1>1 DEF Variables
  <2>2. colorCycle(x, c.handler, v) = [closure |-> g, shows |-> m]
    BY <1>4 DEF colorCycle
  <2> HIDE DEF g
  <2> QED BY <2>1, <2>2 DEF Result, Within
<1>5. CASE v # 0 /\ ~f.speed
  <2> DEFINE n == (f.state + 1) % NColours
             g == [f EXCEPT !.start = "none", !.captured = 0, !.state = n]
             w == SetAll(m, c.handler.targets, Colour(f.state, f.intensity))
  <2>1. n \in Nat /\ n < NColours
    <3>1. n \in 0..(NColours - 1)
      BY <1>1, Bounds, Remainder
    <3> QED BY <3>1, Bounds
  <2>2. colorCycle(x, c.handler, v) = [closure |-> g, shows |-> w]
    BY <1>5 DEF colorCycle
  <2> HIDE DEF n
  <2>3. g \in Variables /\ g.state = n
    BY <1>1, <2>1 DEF Variables
  <2>4. w \in [Lamp -> Shown]
    BY <1>1, ShownAre, SetAllType DEF Variables
  <2> HIDE DEF g, w
  <2> QED BY <2>1, <2>2, <2>3, <2>4 DEF Result, Within
<1> QED BY <1>2, <1>3, <1>4, <1>5

LEMMA CallIs ==
  ASSUME NEW x, NEW h, NEW v
  PROVE  /\ h.kind = "cycle"      => Call(x, h, v) = cycle(x, h, v)
         /\ h.kind = "cycleLEDs"  => Call(x, h, v) = cycleLEDs(x, h, v)
         /\ h.kind = "colorCycle" => Call(x, h, v) = colorCycle(x, h, v)
         /\ h.kind = "level"      => Call(x, h, v) = level(x, h, v)
         /\ h.kind = "allDown"    => Call(x, h, v) = allDown(x, h, v)
BY DEF Call

LEMMA CallType ==
  ASSUME NEW c \in Closures, NEW f, Within(c, f), NEW m \in [Lamp -> Shown], NEW v
  PROVE  Result(c, Call([closure |-> f, shows |-> m], c.handler, v))
<1>1. c.handler.kind \in Kinds
  BY ClosureKinds
<1>2. CASE c.handler.kind = "cycle"
  <2>1. Result(c, cycle([closure |-> f, shows |-> m], c.handler, v))
    BY <1>2, CycleType
  <2> QED BY <1>2, <2>1, CallIs
<1>3. CASE c.handler.kind = "cycleLEDs"
  <2>1. Result(c, cycleLEDs([closure |-> f, shows |-> m], c.handler, v))
    BY <1>3, cycleLEDsType
  <2> QED BY <1>3, <2>1, CallIs
<1>4. CASE c.handler.kind = "colorCycle"
  BY <1>4, CallIs, ColorCycleType DEF Within
<1>5. CASE c.handler.kind = "level"
  <2>1. Result(c, level([closure |-> f, shows |-> m], c.handler, v))
    BY <1>5, LevelType
  <2> QED BY <1>5, <2>1, CallIs
<1>6. CASE c.handler.kind = "allDown"
  BY <1>6, CallIs, AllDownType
<1> QED BY <1>1, <1>2, <1>3, <1>4, <1>5, <1>6 DEF Kinds

-----------------------------------------------------------------------------
(* The keys of the house are few.                                          *)
KeyNodes == {"office-east", "office-west", "living-fire", "hall-east", "hall-west",
             "dressing", "room-north", "room-south"}
KeyNames == {"b1", "b2", "b3", "b4"}

LEMMA WiresOnKeys == \A s \in Service : \A w \in Wires[s] : w.node \in KeyNodes /\ w.io \in KeyNames
<1>1. \A w \in officeWires : w.node \in KeyNodes /\ w.io \in KeyNames
  BY WireFields DEF officeWires, KeyNodes, KeyNames
<1>2. \A w \in livingWires : w.node \in KeyNodes /\ w.io \in KeyNames
  BY WireFields DEF livingWires, KeyNodes, KeyNames
<1>3. \A w \in roomWires : w.node \in KeyNodes /\ w.io \in KeyNames
  BY WireFields DEF roomWires, KeyNodes, KeyNames
<1> QED BY <1>1, <1>2, <1>3, ServiceNames, WiresOfServices

LEMMA KeysAre == \A k \in Key : k \in KeyNodes \X KeyNames /\ k[1] \in Walls
<1> SUFFICES ASSUME NEW k \in Key PROVE k \in KeyNodes \X KeyNames /\ k[1] \in Walls
  OBVIOUS
<1>1. PICK s \in Service : k \in {<<w.node, w.io>> : w \in {x \in Wires[s] : x.node \in Walls}}
  BY DEF Key
<1>2. PICK w \in Wires[s] : w.node \in Walls /\ k = <<w.node, w.io>>
  BY <1>1
<1>3. w.node \in KeyNodes /\ w.io \in KeyNames
  BY WiresOnKeys
<1> QED BY <1>2, <1>3

LEMMA KeyIsFinite == IsFiniteSet(Key)
<1>1. IsFiniteSet({"office-east", "office-west", "living-fire", "hall-east", "hall-west",
                   "dressing", "room-north", "room-south"})
  <2> DEFINE a == {"office-east"} b == a \cup {"office-west"} c == b \cup {"living-fire"}
             d == c \cup {"hall-east"} e == d \cup {"hall-west"} f == e \cup {"dressing"}
             g == f \cup {"room-north"} h == g \cup {"room-south"}
  <2>1. IsFiniteSet(a)
    BY FS_Singleton
  <2> HIDE DEF a
  <2>2. IsFiniteSet(b) /\ IsFiniteSet(c) /\ IsFiniteSet(d) /\ IsFiniteSet(e)
        /\ IsFiniteSet(f) /\ IsFiniteSet(g) /\ IsFiniteSet(h)
    BY <2>1, FS_AddElement
  <2>3. h = KeyNodes
    BY DEF KeyNodes, a
  <2> HIDE DEF h
  <2> QED BY <2>2, <2>3 DEF KeyNodes
<1>2. IsFiniteSet({"b1", "b2", "b3", "b4"})
  <2> DEFINE a == {"b1"} b == a \cup {"b2"} c == b \cup {"b3"} d == c \cup {"b4"}
  <2>1. IsFiniteSet(a)
    BY FS_Singleton
  <2> HIDE DEF a
  <2>2. IsFiniteSet(b) /\ IsFiniteSet(c) /\ IsFiniteSet(d)
    BY <2>1, FS_AddElement
  <2>3. d = KeyNames
    BY DEF KeyNames, a
  <2> HIDE DEF d
  <2> QED BY <2>2, <2>3 DEF KeyNames
<1>3. IsFiniteSet(KeyNodes \X KeyNames)
  BY <1>1, <1>2, FS_Product DEF KeyNodes, KeyNames
<1>4. Key \subseteq KeyNodes \X KeyNames
  BY KeysAre
<1> QED BY <1>3, <1>4, FS_Subset

(* While a timer of the handler is set, a key of it is down as far as the  *)
(* handler knows, and the colour is the one of its state.                  *)
Holding(f) == f.start = "armed" \/ f.speed
HeldBy(c, heard, f) ==
  Holding(f) => (\E k \in KeysOf[c] : heard[k] = 0) /\ f.captured = f.state
Sound(x) ==
  /\ x.told \in [Key -> {-1, 0, 1}]
  /\ x.closure \in [Closures -> Variables]
  /\ x.shows \in [Lamp -> Shown]
  /\ \A c \in Closures : Within(c, x.closure[c])
  /\ \A c \in Colours : HeldBy(c, x.told, x.closure[c])

(* A press arms the timer with the current colour; a release clears it.    *)
LEMMA ColorCycleHeld ==
  ASSUME NEW c, NEW f \in Variables, NEW m, NEW v \in {0, 1}, Holding(f) => f.captured = f.state,
         NEW g, g = colorCycle([closure |-> f, shows |-> m], c.handler, v).closure
  PROVE  Holding(g) => v = 0 /\ g.captured = g.state
<1>1. CASE v = 0 /\ f.start # "none"
  BY <1>1 DEF colorCycle
<1>2. CASE v = 0 /\ f.start = "none"
  <2>1. g = [f EXCEPT !.start = "armed", !.captured = f.state]
    BY <1>2 DEF colorCycle
  <2>2. g.captured = g.state
    BY <2>1 DEF Variables
  <2> QED BY <1>2, <2>2
<1>3. CASE v = 1 /\ f.speed
  <2>1. g = [f EXCEPT !.start = "none", !.speed = FALSE, !.captured = 0]
    BY <1>3 DEF colorCycle
  <2>2. g.start = "none" /\ g.speed = FALSE
    BY <2>1 DEF Variables
  <2> QED BY <2>2 DEF Holding
<1>4. CASE v = 1 /\ ~f.speed
  <2>1. g = [f EXCEPT !.start = "none", !.captured = 0, !.state = (f.state + 1) % NColours]
    BY <1>4 DEF colorCycle
  <2>2. g.start = "none" /\ g.speed = f.speed
    BY <2>1 DEF Variables
  <2> QED BY <1>4, <2>2 DEF Holding
<1> QED BY <1>1, <1>2, <1>3, <1>4

HandedAs(x, k, v) == Joined(x, k, v, Called(x, k, v))

LEMMA HandedIs == \A x, k, v : Handed(x, k, v) = HandedAs(x, k, v)
<1> SUFFICES ASSUME NEW x, NEW k, NEW v PROVE Handed(x, k, v) = HandedAs(x, k, v)
  OBVIOUS
<1>1. {Joined(x, k, v, y) : y \in {Called(x, k, v)}} = {HandedAs(x, k, v)}
  BY DEF HandedAs
<1>2. Handed(x, k, v) = CHOOSE z \in {HandedAs(x, k, v)} : TRUE
  BY <1>1 DEF Handed
<1> HIDE DEF Handed, HandedAs
<1>3. (CHOOSE z \in {HandedAs(x, k, v)} : TRUE) \in {HandedAs(x, k, v)}
  OBVIOUS
<1> QED BY <1>2, <1>3

LEMMA HandedSound ==
  ASSUME NEW x, Sound(x), NEW k \in Key, NEW v \in {0, 1}
  PROVE  Sound(Handed(x, k, v))
<1> DEFINE call(c) == Call([closure |-> x.closure[c], shows |-> x.shows], c.handler, v)
           y == [c \in HandlersOf[k] |-> call(c)]
           by(l) == {c \in HandlersOf[k] : y[c].shows[l] # x.shows[l]}
           to == [x.told EXCEPT ![k] = v]
           cl == [c \in Closures |-> IF c \in HandlersOf[k] THEN y[c].closure ELSE x.closure[c]]
           sh == [l \in Lamp |-> IF by(l) = {} THEN x.shows[l]
                                 ELSE y[CHOOSE c \in by(l) : TRUE].shows[l]]
<1>1. Handed(x, k, v) = [told |-> to, closure |-> cl, shows |-> sh]
  BY HandedIs DEF HandedAs, Joined, Called
<1>2. \A c \in HandlersOf[k] : c \in Closures /\ y[c] = call(c) /\ Result(c, y[c])
  BY HandlersAre, CallType DEF Sound
<1>3. \A c \in Colours \cap HandlersOf[k] :
        y[c] = colorCycle([closure |-> x.closure[c], shows |-> x.shows], c.handler, v)
  BY <1>2, CallIs DEF Colours
<1> HIDE DEF y
<1>4. to \in [Key -> {-1, 0, 1}] /\ to[k] = v
  BY DEF Sound
<1>5. cl \in [Closures -> Variables] /\ \A c \in Closures : Within(c, cl[c])
  BY <1>2 DEF Sound, Result, Within
<1>6. sh \in [Lamp -> Shown]
  <2> SUFFICES ASSUME NEW l \in Lamp PROVE sh[l] \in Shown
    OBVIOUS
  <2>1. CASE by(l) = {}
    BY <2>1 DEF Sound
  <2>2. CASE by(l) # {}
    <3>1. (CHOOSE c \in by(l) : TRUE) \in HandlersOf[k]
      BY <2>2
    <3> QED BY <1>2, <2>2, <3>1 DEF Result
  <2> QED BY <2>1, <2>2
<1>7. ASSUME NEW c \in Colours PROVE HeldBy(c, to, cl[c])
  <2>1. c \in Closures /\ HeldBy(c, x.told, x.closure[c]) /\ x.closure[c] \in Variables
    BY DEF Colours, Sound
  <2>2. CASE c \in HandlersOf[k]
    <3>1. cl[c] = colorCycle([closure |-> x.closure[c], shows |-> x.shows], c.handler, v).closure
      BY <1>3, <2>1, <2>2
    <3>2. Holding(x.closure[c]) => x.closure[c].captured = x.closure[c].state
      BY <2>1 DEF HeldBy
    <3> HIDE DEF cl
    <3>3. Holding(cl[c]) => v = 0 /\ cl[c].captured = cl[c].state
      BY <2>1, <3>1, <3>2, ColorCycleHeld
    <3>4. k \in KeysOf[c]
      BY <2>1, <2>2, KeysOfHandlers
    <3> QED BY <1>4, <3>3, <3>4 DEF HeldBy
  <2>3. CASE c \notin HandlersOf[k]
    <3>1. k \notin KeysOf[c] /\ KeysOf[c] \subseteq Key
      BY <2>1, <2>3, KeysOfHandlers DEF KeysOf
    <3>2. \A j \in KeysOf[c] : to[j] = x.told[j]
      BY <3>1 DEF Sound
    <3>3. cl[c] = x.closure[c]
      BY <2>1, <2>3
    <3> QED BY <2>1, <3>2, <3>3 DEF HeldBy
  <2> QED BY <2>2, <2>3
<1> HIDE DEF to, cl, sh
<1> QED BY <1>1, <1>4, <1>5, <1>6, <1>7 DEF Sound

LEMMA TriggeredSound ==
  ASSUME NEW x, Sound(x), NEW k, NEW r PROVE Sound(Triggered(x, k, r))
BY HandedSound DEF Triggered, callback

Now == [told |-> told, closure |-> closure, shows |-> shows]
After(n, r) ==
  Triggered(Triggered(Triggered(Triggered(Now, <<n, KeyName[1]>>, r),
                                <<n, KeyName[2]>>, r), <<n, KeyName[3]>>, r), <<n, KeyName[4]>>, r)

LEMMA DispatchIs ==
  ASSUME NEW n, NEW r, Dispatch(n, r)
  PROVE  told' = After(n, r).told /\ closure' = After(n, r).closure /\ shows' = After(n, r).shows
BY DEF Dispatch, After, Now

LEMMA AfterSound == ASSUME NEW n, NEW r, Sound(Now) PROVE Sound(After(n, r))
<1> DEFINE a == Triggered(Now, <<n, KeyName[1]>>, r)
           b == Triggered(a, <<n, KeyName[2]>>, r)
           c == Triggered(b, <<n, KeyName[3]>>, r)
           d == Triggered(c, <<n, KeyName[4]>>, r)
<1>1. Sound(a)
  BY TriggeredSound
<1> HIDE DEF a
<1>2. Sound(b)
  BY <1>1, TriggeredSound
<1> HIDE DEF b
<1>3. Sound(c)
  BY <1>2, TriggeredSound
<1> HIDE DEF c
<1>4. Sound(d)
  BY <1>3, TriggeredSound
<1> QED BY <1>4 DEF After, a, b, c

LEMMA DispatchSound == ASSUME NEW n, NEW r, Sound(Now), Dispatch(n, r) PROVE Sound(Now)'
<1>1. Sound(After(n, r))
  BY AfterSound
<1> DEFINE z == After(n, r)
<1>2. told' = z.told /\ closure' = z.closure /\ shows' = z.shows
  BY DispatchIs
<1> HIDE DEF z
<1>3. Sound(z)
  BY <1>1 DEF z
<1>4. Sound([told |-> z.told, closure |-> z.closure, shows |-> z.shows])
  BY <1>3 DEF Sound
<1> QED BY <1>2, <1>4 DEF Now

-----------------------------------------------------------------------------
(* The invariant: types, colours within bounds, and what is held.          *)
Others ==
  /\ used \in Used /\ sampled \subseteq used.keys
  /\ net \in [Walls -> Seq(Report)] /\ \A n \in Walls : Len(net[n]) <= MaxNet
  /\ orphan \in [Closures -> Variables]
  /\ reloads \in 0..used.reloads
  /\ presses \in [Cycles -> 0..3] /\ missed \subseteq Cycles \cup Colours
HouseInv == Others /\ Sound(Now)

LEMMA HouseImplies == HouseInv => TypeOK /\ GradientHeld
BY DEF HouseInv, Others, Sound, Now, TypeOK, GradientHeld, HeldBy, Holding

LEMMA UsedAre == used \in Used => used.keys \subseteq Key /\ used.reloads \in {0, 1}
BY InstanceAssumption

LEMMA FreshIs == Fresh \in Variables /\ Fresh.state = 0 /\ ~Holding(Fresh) /\ 0 < NColours
BY Bounds DEF Fresh, Variables, Holding

LEMMA HouseInit == Init => HouseInv
<1> SUFFICES ASSUME Init PROVE HouseInv
  OBVIOUS
<1>1. used \in Used /\ sampled \subseteq used.keys
  BY DEF Init
<1>2. net \in [Walls -> Seq(Report)] /\ \A n \in Walls : Len(net[n]) <= MaxNet
  BY Bounds DEF Init
<1>3. closure \in [Closures -> Variables] /\ orphan \in [Closures -> Variables]
  BY FreshIs DEF Init
<1>4. reloads \in 0..used.reloads
  BY <1>1, UsedAre DEF Init
<1>5. presses \in [Cycles -> 0..3] /\ missed \subseteq Cycles \cup Colours
  BY DEF Init
<1>6. told \in [Key -> {-1, 0, 1}] /\ shows \in [Lamp -> Shown]
  BY ShownAre DEF Init
<1>7. \A c \in Closures : closure[c] = Fresh
  BY DEF Init
<1>8. \A c \in Closures : Within(c, closure[c]) /\ HeldBy(c, told, closure[c])
  BY <1>7, FreshIs DEF Within, HeldBy
<1>9. \A c \in Colours : HeldBy(c, told, closure[c])
  BY <1>8 DEF Colours
<1> QED BY <1>1, <1>2, <1>3, <1>4, <1>5, <1>6, <1>8, <1>9 DEF HouseInv, Others, Sound, Now

LEMMA SoundStays == Sound(Now) /\ UNCHANGED <<told, closure, shows>> => Sound(Now)'
BY DEF Now, Sound

LEMMA TailKeeps ==
  ASSUME HouseInv, NEW n \in Walls, net[n] # << >>, net' = [net EXCEPT ![n] = Tail(@)]
  PROVE  net' \in [Walls -> Seq(Report)] /\ \A m \in Walls : Len(net'[m]) <= MaxNet
<1>1. net[n] \in Seq(Report) /\ Len(net[n]) <= MaxNet /\ net \in [Walls -> Seq(Report)]
  BY DEF HouseInv, Others
<1>2. Tail(net[n]) \in Seq(Report) /\ Len(Tail(net[n])) = Len(net[n]) - 1 /\ Len(net[n]) \in Nat
  BY <1>1, HeadTailProperties
<1>3. Len(Tail(net[n])) <= MaxNet
  BY <1>1, <1>2, Bounds
<1> QED BY <1>1, <1>2, <1>3 DEF HouseInv, Others

LEMMA DeliverHouse ==
  ASSUME HouseInv, NEW n \in Walls, Deliver(n) \/ DeliverTwice(n) \/ Lose(n)
  PROVE  HouseInv'
<1>1. CASE Deliver(n)
  <2>1. Sound(Now)'
    BY <1>1, DispatchSound DEF Deliver, HouseInv
  <2>2. net' \in [Walls -> Seq(Report)] /\ \A m \in Walls : Len(net'[m]) <= MaxNet
    BY <1>1, TailKeeps DEF Deliver
  <2> QED BY <1>1, <2>1, <2>2 DEF Deliver, HouseInv, Others, history
<1>2. CASE DeliverTwice(n)
  <2>1. Sound(Now)'
    BY <1>2, DispatchSound DEF DeliverTwice, HouseInv
  <2> QED BY <1>2, <2>1 DEF DeliverTwice, HouseInv, Others, history, device
<1>3. CASE Lose(n)
  <2>1. Sound(Now)'
    BY <1>3, SoundStays DEF Lose, HouseInv
  <2>2. net' \in [Walls -> Seq(Report)] /\ \A m \in Walls : Len(net'[m]) <= MaxNet
    BY <1>3, TailKeeps DEF Lose
  <2> QED BY <1>3, <2>1, <2>2 DEF Lose, HouseInv, Others
<1> QED BY <1>1, <1>2, <1>3

(* The timers.                                                             *)
LEMMA StartFiresKeeps ==
  ASSUME NEW f \in Variables
  PROVE  /\ StartFires(f) \in Variables /\ StartFires(f).state = f.state
         /\ StartFires(f).captured = f.captured /\ StartFires(f).intensity = f.intensity
BY DEF StartFires, Variables

LEMMA StepKeeps ==
  ASSUME NEW f \in Variables
  PROVE  /\ Step(f) \in Variables /\ Step(f).state = f.state /\ Step(f).start = f.start
         /\ Step(f).captured = f.captured /\ Step(f).speed = f.speed
<1> DEFINE d == IF f.intensity = 0 THEN 1 ELSE IF f.intensity = Steps THEN -1 ELSE f.delta
<1>1. f.intensity \in 0..Steps /\ f.delta \in {1, -1}
  BY DEF Variables
<1>2. d \in {1, -1} /\ f.intensity + d \in 0..Steps
  BY <1>1, Bounds
<1> HIDE DEF d
<1>3. Step(f) = [f EXCEPT !.delta = d, !.intensity = f.intensity + d]
  BY DEF Step, d
<1> QED BY <1>2, <1>3 DEF Variables

LEMMA ClosureChanges ==
  ASSUME HouseInv, NEW c \in Closures, NEW f, Within(c, f),
         c \in Colours => HeldBy(c, told, f),
         closure' = [closure EXCEPT ![c] = f], UNCHANGED told, shows' \in [Lamp -> Shown]
  PROVE  Sound(Now)'
<1>1. \A d \in Closures : closure'[d] = IF d = c THEN f ELSE closure[d]
  BY DEF HouseInv, Sound, Now
<1>2. closure' \in [Closures -> Variables]
  BY DEF HouseInv, Sound, Now, Within
<1>3. \A d \in Closures : Within(d, closure'[d])
  BY <1>1 DEF HouseInv, Sound, Now
<1>4. \A d \in Colours : HeldBy(d, told', closure'[d])
  BY <1>1 DEF HouseInv, Sound, Now, Colours
<1> QED BY <1>2, <1>3, <1>4 DEF HouseInv, Sound, Now

LEMMA TimerHouse ==
  ASSUME HouseInv, NEW c \in Closures, Timer(c) PROVE HouseInv'
<1>1. closure[c] \in Variables /\ orphan[c] \in Variables /\ Within(c, closure[c])
  BY DEF HouseInv, Others, Sound, Now
<1>2. CASE closure[c].start = "armed" /\ closure' = [closure EXCEPT ![c] = StartFires(@)]
           /\ UNCHANGED orphan
  <2> DEFINE f == StartFires(closure[c])
  <2>1. Within(c, f)
    BY <1>1, StartFiresKeeps DEF Within
  <2>2. c \in Colours => HeldBy(c, told, f)
    <3>1. Holding(closure[c])
      BY <1>2 DEF Holding
    <3>2. c \in Colours => HeldBy(c, told, closure[c])
      BY DEF HouseInv, Sound, Now
    <3> QED BY <1>1, <3>1, <3>2, StartFiresKeeps DEF HeldBy
  <2> HIDE DEF f
  <2>3. closure' = [closure EXCEPT ![c] = f]
    BY <1>2 DEF f
  <2>4. UNCHANGED told /\ shows' \in [Lamp -> Shown]
    BY DEF Timer, HouseInv, Sound, Now
  <2>5. Sound(Now)'
    BY <2>1, <2>2, <2>3, <2>4, ClosureChanges
  <2> QED BY <1>2, <2>5 DEF Timer, HouseInv, Others, history, device
<1>3. CASE orphan[c].start = "armed" /\ orphan' = [orphan EXCEPT ![c] = StartFires(@)]
           /\ UNCHANGED closure
  <2>1. orphan' \in [Closures -> Variables]
    BY <1>1, <1>3, StartFiresKeeps DEF HouseInv, Others
  <2>2. Sound(Now)'
    BY <1>3, SoundStays DEF Timer, HouseInv
  <2> QED BY <2>1, <2>2 DEF Timer, HouseInv, Others, history, device
<1> QED BY <1>2, <1>3 DEF Timer

LEMMA GradientHouse ==
  ASSUME HouseInv, NEW c \in Closures, Gradient(c) PROVE HouseInv'
<1>1. closure[c] \in Variables /\ orphan[c] \in Variables /\ Within(c, closure[c])
      /\ shows \in [Lamp -> Shown]
  BY DEF HouseInv, Others, Sound, Now
<1>2. CASE /\ closure[c].speed
           /\ closure' = [closure EXCEPT ![c] = Step(@)]
           /\ shows' = SetAll(shows, c.handler.targets,
                              Colour(closure[c].captured, closure'[c].intensity))
           /\ UNCHANGED orphan
  <2> DEFINE f == Step(closure[c])
  <2>1. Within(c, f) /\ f \in Variables
    BY <1>1, StepKeeps DEF Within
  <2>2. c \in Colours => HeldBy(c, told, f)
    <3>1. c \in Colours => HeldBy(c, told, closure[c])
      BY DEF HouseInv, Sound, Now
    <3> QED BY <1>1, <1>2, <3>1, StepKeeps DEF HeldBy, Holding
  <2>3. f.captured = closure[c].captured
    BY <1>1, StepKeeps
  <2> HIDE DEF f
  <2>4. closure' = [closure EXCEPT ![c] = f] /\ closure'[c] = f
    BY <1>2 DEF f, HouseInv, Sound, Now
  <2>5. shows' \in [Lamp -> Shown]
    <3>1. closure[c].captured \in 0..(NColours - 1) /\ f.intensity \in 0..Steps
      BY <1>1, <2>1 DEF Variables
    <3> QED BY <1>1, <1>2, <2>4, <3>1, ShownAre, SetAllType
  <2>6. Sound(Now)'
    BY <2>1, <2>2, <2>4, <2>5, ClosureChanges DEF Gradient
  <2> QED BY <1>2, <2>6 DEF Gradient, HouseInv, Others, history, device
<1>3. CASE /\ orphan[c].speed
           /\ orphan' = [orphan EXCEPT ![c] = Step(@)]
           /\ shows' = SetAll(shows, c.handler.targets,
                              Colour(orphan[c].captured, orphan'[c].intensity))
           /\ UNCHANGED closure
  <2>1. orphan' \in [Closures -> Variables] /\ orphan'[c] = Step(orphan[c])
    BY <1>1, <1>3, StepKeeps DEF HouseInv, Others
  <2>2. shows' \in [Lamp -> Shown]
    <3>1. orphan[c].captured \in 0..(NColours - 1) /\ orphan'[c].intensity \in 0..Steps
      BY <1>1, <2>1, StepKeeps DEF Variables
    <3> QED BY <1>1, <1>3, <3>1, ShownAre, SetAllType
  <2>3. Sound(Now)'
    BY <1>3, <2>2 DEF Gradient, HouseInv, Sound, Now
  <2> QED BY <2>1, <2>3 DEF Gradient, HouseInv, Others, history, device
<1> QED BY <1>2, <1>3 DEF Gradient

(* The keys a reload makes forget what they were told are keys of handlers *)
(* that start anew.                                                        *)
LEMMA ReloadHouse ==
  ASSUME HouseInv, NEW s, reloadService(s) PROVE HouseInv'
<1> DEFINE mine == {c \in Closures : c.service = s}
           keys == {k \in Key : HandlersOf[k] \cap mine # {}}
<1>1. /\ told \in [Key -> {-1, 0, 1}] /\ closure \in [Closures -> Variables]
      /\ orphan \in [Closures -> Variables] /\ shows \in [Lamp -> Shown]
      /\ presses \in [Cycles -> 0..3] /\ missed \subseteq Cycles \cup Colours
      /\ reloads \in 0..used.reloads /\ used \in Used
  BY DEF HouseInv, Others, Sound, Now
<1>2. /\ told' = [k \in Key |-> IF k \in keys THEN -1 ELSE told[k]]
      /\ closure' = [c \in Closures |-> IF c \in mine THEN Fresh ELSE closure[c]]
      /\ shows' = SetAll(shows, Resets[s], Off)
  BY DEF reloadService
<1>3. told' \in [Key -> {-1, 0, 1}] /\ closure' \in [Closures -> Variables]
      /\ shows' \in [Lamp -> Shown]
  BY <1>1, <1>2, FreshIs, ShownAre, SetAllType
<1>4. \A c \in Closures : Within(c, closure'[c])
  BY <1>2, FreshIs DEF HouseInv, Sound, Now, Within
<1>5. ASSUME NEW c \in Colours PROVE HeldBy(c, told', closure'[c])
  <2>1. c \in Closures /\ KeysOf[c] \subseteq Key /\ HeldBy(c, told, closure[c])
    BY DEF Colours, KeysOf, HouseInv, Sound, Now
  <2>2. CASE c \in mine
    BY <1>2, <2>1, <2>2, FreshIs DEF HeldBy
  <2>3. CASE c \notin mine
    <3>1. ASSUME NEW k \in KeysOf[c], k \in keys PROVE FALSE
      <4>1. PICK d \in HandlersOf[k] : d \in mine
        BY <3>1
      <4>2. c \in HandlersOf[k]
        BY <2>1, <3>1, KeysOfHandlers
      <4> QED BY <2>1, <2>3, <4>1, <4>2, OneServiceAKey
    <3>2. \A k \in KeysOf[c] : told'[k] = told[k]
      BY <1>2, <2>1, <3>1
    <3>3. closure'[c] = closure[c]
      BY <1>2, <2>1, <2>3
    <3> QED BY <2>1, <3>2, <3>3 DEF HeldBy
  <2> QED BY <2>2, <2>3
<1>6. Sound(Now)'
  BY <1>3, <1>4, <1>5 DEF Sound, Now
<1>7. orphan' \in [Closures -> Variables]
  <2>1. \A c \in Closures : [closure[c] EXCEPT !.state = 0] \in Variables
    BY <1>1 DEF Variables
  <2> QED BY <1>1, <2>1 DEF reloadService
<1>8. presses' \in [Cycles -> 0..3] /\ missed' \subseteq Cycles \cup Colours
  BY <1>1 DEF reloadService
<1>9. reloads' \in 0..used.reloads
  BY <1>1, UsedAre DEF reloadService
<1> HIDE DEF mine, keys
<1> QED BY <1>6, <1>7, <1>8, <1>9 DEF reloadService, HouseInv, Others, device

LEMMA SampleHouse ==
  ASSUME HouseInv, NEW n \in Walls, Sample(n) PROVE HouseInv'
<1>1. PICK now \in SUBSET (used.keys \cap At(n)) :
        LET changed == {k \in At(n) : (k \in now) # (k \in sampled)} IN
        /\ changed # {}
        /\ sampled' = (sampled \ At(n)) \cup now
        /\ net' = [net EXCEPT ![n] = Append(@, [ports |-> {Port[k] : k \in changed}, down |-> now])]
        /\ presses' = [c \in Cycles |->
                         (presses[c] + Cardinality(KeysOf[c] \cap changed \cap now)) % 4]
  BY DEF Sample
<1> DEFINE changed == {k \in At(n) : (k \in now) # (k \in sampled)}
           r == [ports |-> {Port[k] : k \in changed}, down |-> now]
<1>2. changed \subseteq Key /\ now \subseteq Key /\ sampled' \subseteq used.keys
  BY <1>1, UsedAre DEF At, HouseInv, Others
<1>3. r \in Report
  <2>1. DOMAIN Port = Key
    BY DEF Port
  <2> QED BY <1>2, <2>1 DEF Report, Range
<1>4. net' = [net EXCEPT ![n] = Append(net[n], r)]
  BY <1>1
<1>5. /\ net \in [Walls -> Seq(Report)] /\ Len(net[n]) < MaxNet
      /\ \A m \in Walls : Len(net[m]) <= MaxNet
  BY DEF HouseInv, Others, Sample
<1> HIDE DEF r
<1>6. Append(net[n], r) \in Seq(Report) /\ Len(Append(net[n], r)) = Len(net[n]) + 1
      /\ Len(net[n]) \in Nat
  BY <1>3, <1>5
<1>7. Len(Append(net[n], r)) <= MaxNet
  BY <1>5, <1>6, Bounds
<1>8. net' \in [Walls -> Seq(Report)] /\ \A m \in Walls : Len(net'[m]) <= MaxNet
  BY <1>4, <1>5, <1>6, <1>7
<1>9. presses' \in [Cycles -> 0..3]
  <2>1. ASSUME NEW c \in Cycles
        PROVE  (presses[c] + Cardinality(KeysOf[c] \cap changed \cap now)) % 4 \in 0..3
    <3>1. IsFiniteSet(KeysOf[c] \cap changed \cap now)
      BY <1>2, KeyIsFinite, FS_Subset
    <3>2. Cardinality(KeysOf[c] \cap changed \cap now) \in Nat
      BY <3>1, FS_CardinalityType
    <3> HIDE DEF changed
    <3>3. presses[c] + Cardinality(KeysOf[c] \cap changed \cap now) \in Nat
      BY <3>2 DEF HouseInv, Others
    <3> QED BY <3>3, Remainder
  <2> QED BY <1>1, <2>1
<1>10. Sound(Now)'
  BY SoundStays DEF Sample, HouseInv
<1> QED BY <1>2, <1>8, <1>9, <1>10 DEF Sample, HouseInv, Others

LEMMA HouseStep == HouseInv /\ [Next]_vars => HouseInv'
<1> SUFFICES ASSUME HouseInv, [Next]_vars PROVE HouseInv'
  OBVIOUS
<1>1. ASSUME NEW n \in Walls, Sample(n) PROVE HouseInv'
  BY <1>1, SampleHouse
<1>2. ASSUME NEW n \in Walls, Deliver(n) \/ DeliverTwice(n) \/ Lose(n) PROVE HouseInv'
  BY <1>2, DeliverHouse
<1>3. ASSUME NEW c \in Closures, Timer(c) PROVE HouseInv'
  BY <1>3, TimerHouse
<1>4. ASSUME NEW c \in Closures, Gradient(c) PROVE HouseInv'
  BY <1>4, GradientHouse
<1>5. ASSUME NEW s, reloadService(s) PROVE HouseInv'
  BY <1>5, ReloadHouse
<1>6. CASE UNCHANGED vars
  BY <1>6, SoundStays DEF vars, device, history, HouseInv, Others
<1> QED BY <1>1, <1>2, <1>3, <1>4, <1>5, <1>6 DEF Next

(* The closures, the lamps and the reports have their types: a state of    *)
(* colorCycle is a colour, an intensity stays between dark and bright.     *)
THEOREM TypeCorrect == Spec => []TypeOK
BY HouseInit, HouseStep, HouseImplies, PTL DEF Spec

(* While a timer of colorCycle is set, the handler last heard of one of    *)
(* its keys that it is down, and the colour it captured is the current one.*)
THEOREM GradientHeldSafe == Spec => []GradientHeld
BY HouseInit, HouseStep, HouseImplies, PTL DEF Spec

-----------------------------------------------------------------------------
(* What the house is made of.                                              *)

(* Where the outputs of the house are, and how they are tagged.            *)
Circuit1 == {"white1", "out1"}
Circuit2 == {"white2", "out2"}
Circuit3 == {"white3", "out3"}
LedTags == Circuit1 \cup Circuit2 \cup Circuit3 \cup {"rgb"}
OfficeLeds == {"main-led-office"}
LivingLeds == {"main-led-north", "main-led-south"}
RoomLeds == {"room-led", "room-led-2"}
LedNodes == OfficeLeds \cup LivingLeds \cup RoomLeds
Bars == {"interface-living", "interface-dining"}
PlainNodes == {"kitchen-lightning", "office-east", "office-west", "living-fire", "hall-east",
               "hall-west", "room-north", "room-south", "dressing"}
(* The output that is on the first, second and third circuit.              *)
OnCircuit(n, key, i) ==
  IF n \in OfficeLeds THEN key = <<"led-3", "led-2", "led-1">>[i]
  ELSE IF n \in LivingLeds THEN key = <<"led-4", "led-2", "led-6">>[i]
  ELSE key = <<"led-2", "led-4", "led-6">>[i]
IoNames == {"b1", "b2", "b3", "b4", "led-b1", "led-b2", "led-b3", "led-b4",
            "led-1", "led-2", "led-3", "led-4", "led-5", "led-6", "led-7",
            "iled-2", "iled-4", "iled-6", "iled-7", "eled-2", "eled-4", "eled-6", "eled-7"}

IoFits(n, o) ==
  /\ o.key \in IoNames /\ "room" \notin o.tags
  /\ n \in PlainNodes => o.tags \cap LedTags = {}
  /\ n \in LedNodes => /\ "out" \in o.tags /\ "hall" \notin o.tags /\ "orange" \notin o.tags
                       /\ o.tags \cap Circuit1 # {} => OnCircuit(n, o.key, 1)
                       /\ o.tags \cap Circuit2 # {} => OnCircuit(n, o.key, 2)
                       /\ o.tags \cap Circuit3 # {} => OnCircuit(n, o.key, 3)
InterfaceFits(i) ==
  /\ i.node \in PlainNodes \cup OfficeLeds => i.key = "interface" /\ i.tags = {}
  /\ i.node \in LivingLeds => i.key \in Bars /\ i.tags = {}
  /\ i.node \in RoomLeds => i.key = "interface-south" /\ i.tags = {"room"}
  /\ i.node \in PlainNodes \cup LedNodes
  /\ \A o \in i.ios : IoFits(i.node, o)

LEMMA HardwareOfServices ==
  /\ Hardware["helper"] = {} /\ Hardware["kitchen"] = kitchenHardware
  /\ Hardware["office"] = officeHardware /\ Hardware["living"] = livingHardware
  /\ Hardware["room"] = roomHardware
BY ServiceNames DEF Hardware, ByService

LEMMA InterfaceFields ==
  \A n, i, d, t, ios : LET x == Interface(n, i, d, t, ios) IN
    x.node = n /\ x.key = i /\ x.tags = t /\ x.ios = ios
BY DEF Interface
LEMMA IoFields ==
  /\ \A k, p, t : In(k, p, t).key = k /\ In(k, p, t).tags = {"switch", "in"} \cup t
  /\ \A k, p, t : Out(k, p, t).key = k /\ Out(k, p, t).tags = {"out"} \cup t
  /\ \A k, p, t : Pwm(k, p, t).key = k /\ Pwm(k, p, t).tags = {"out"} \cup t
BY DEF In, Out, Pwm, Io

LampColours == {"blue", "red", "green", "orange", "hall", "ok"}
LEMMA SwitchFits ==
  ASSUME NEW n \in PlainNodes, NEW keys, NEW lamps, NEW colour,
         \A i \in 1..4 : colour[i] \subseteq LampColours,
         NEW o \in Switch(keys, lamps, colour)
  PROVE  IoFits(n, o)
<1>1. \A i \in 1..4 : KeyName[i] \in IoNames /\ LampName[i] \in IoNames
                      /\ Side[i] \subseteq {"left", "right", "top", "bottom"}
  BY DEF KeyName, LampName, IoNames, Side
<1>2. n \notin LedNodes
  BY DEF PlainNodes, LedNodes, OfficeLeds, LivingLeds, RoomLeds
<1>3. CASE o \in {In(KeyName[i], keys[i], Side[i]) : i \in 1..4}
  <2>1. PICK i \in 1..4 : o = In(KeyName[i], keys[i], Side[i])
    BY <1>3
  <2> QED BY <1>1, <1>2, <2>1, IoFields DEF IoFits, LedTags, Circuit1, Circuit2, Circuit3
<1>4. CASE o \in {Out(LampName[i], lamps[i], {"led"} \cup Side[i] \cup colour[i]) : i \in 1..4}
  <2>1. PICK i \in 1..4 : o = Out(LampName[i], lamps[i], {"led"} \cup Side[i] \cup colour[i])
    BY <1>4
  <2> QED BY <1>1, <1>2, <2>1, IoFields DEF IoFits, LedTags, Circuit1, Circuit2, Circuit3,
             LampColours
<1> QED BY <1>3, <1>4 DEF Switch

LEMMA KitchenFits == \A i \in kitchenHardware : InterfaceFits(i)
<1> SUFFICES ASSUME NEW i \in kitchenHardware PROVE InterfaceFits(i)
  OBVIOUS
<1>1. i.node = "kitchen-lightning" /\ i.key = "interface" /\ i.tags = {}
  BY InterfaceFields DEF kitchenHardware
<1>2. \A o \in i.ios : o.key \in IoNames /\ o.tags = {"out", "white"}
  BY InterfaceFields, IoFields DEF kitchenHardware, IoNames
<1> QED BY <1>1, <1>2 DEF InterfaceFits, IoFits, PlainNodes, LedNodes, OfficeLeds, LivingLeds,
           RoomLeds, LedTags, Circuit1, Circuit2, Circuit3

LEMMA ColoursAre ==
  \A a, b, c, d \in SUBSET LampColours : \A i \in 1..4 : <<a, b, c, d>>[i] \subseteq LampColours
<1> SUFFICES ASSUME NEW a \in SUBSET LampColours, NEW b \in SUBSET LampColours,
                    NEW c \in SUBSET LampColours, NEW d \in SUBSET LampColours, NEW i \in 1..4
             PROVE  <<a, b, c, d>>[i] \subseteq LampColours
  OBVIOUS
<1>1. i = 1 \/ i = 2 \/ i = 3 \/ i = 4
  OBVIOUS
<1> QED BY <1>1

LEMMA SwitchInterfaceFits ==
  ASSUME NEW n \in PlainNodes, NEW keys, NEW lamps, NEW a \in SUBSET LampColours,
         NEW b \in SUBSET LampColours, NEW c \in SUBSET LampColours, NEW d \in SUBSET LampColours
  PROVE  InterfaceFits(Interface(n, "interface", 0, {}, Switch(keys, lamps, <<a, b, c, d>>)))
<1> DEFINE i == Interface(n, "interface", 0, {}, Switch(keys, lamps, <<a, b, c, d>>))
<1>1. i.node = n /\ i.key = "interface" /\ i.tags = {}
      /\ i.ios = Switch(keys, lamps, <<a, b, c, d>>)
  BY InterfaceFields
<1>2. \A o \in Switch(keys, lamps, <<a, b, c, d>>) : IoFits(n, o)
  BY SwitchFits, ColoursAre
<1>3. n \notin LivingLeds /\ n \notin RoomLeds
  BY DEF PlainNodes, LivingLeds, RoomLeds
<1> HIDE DEF i
<1>4. InterfaceFits(i)
  BY <1>1, <1>2, <1>3 DEF InterfaceFits
<1> QED BY <1>4 DEF i

LEMMA OfficeFits == \A i \in officeHardware : InterfaceFits(i)
<1> SUFFICES ASSUME NEW i \in officeHardware PROVE InterfaceFits(i)
  OBVIOUS
<1> DEFINE leds == { Out("led-1", <<2, 3>>, {"white3"}), Out("led-2", <<3, 4>>, {"white2"}),
                     Out("led-3", <<2, 5>>, {"white1"}) }
<1>1. CASE i = Interface("main-led-office", "interface", 0, {}, leds)
  <2>1. /\ i.node = "main-led-office" /\ i.key = "interface" /\ i.tags = {} /\ i.ios = leds
    BY <1>1, InterfaceFields
  <2>2. \A o \in leds : /\ o.key \in IoNames /\ "out" \in o.tags /\ "room" \notin o.tags
                        /\ "hall" \notin o.tags /\ "orange" \notin o.tags
                        /\ o.tags \cap Circuit1 # {} => o.key = "led-3"
                        /\ o.tags \cap Circuit2 # {} => o.key = "led-2"
                        /\ o.tags \cap Circuit3 # {} => o.key = "led-1"
    BY IoFields DEF IoNames, Circuit1, Circuit2, Circuit3
  <2> HIDE DEF leds
  <2> QED BY <2>1, <2>2 DEF InterfaceFits, IoFits, OnCircuit, PlainNodes, LedNodes, OfficeLeds,
             LivingLeds, RoomLeds
<1>2. {"blue"} \in SUBSET LampColours /\ {"red"} \in SUBSET LampColours
      /\ {"green"} \in SUBSET LampColours /\ {"orange"} \in SUBSET LampColours
  BY DEF LampColours
<1>3. "office-east" \in PlainNodes /\ "office-west" \in PlainNodes
  BY DEF PlainNodes
<1> DEFINE OfficeSwitch(n) ==
        Interface(n, "interface", 0, {},
          Switch(<< <<1, 3>>, <<2, 4>>, <<1, 2>>, <<2, 5>> >>,
                 << <<3, 3>>, <<2, 3>>, <<2, 1>>, <<3, 4>> >>,
                 << {"blue"}, {"red"}, {"green"}, {"orange"} >>))
<1>4. \A n \in PlainNodes : InterfaceFits(OfficeSwitch(n))
  BY <1>2, SwitchInterfaceFits
<1>5. officeHardware = { Interface("main-led-office", "interface", 0, {}, leds),
                         OfficeSwitch("office-east"), OfficeSwitch("office-west") }
  BY DEF officeHardware
<1> HIDE DEF OfficeSwitch
<1> QED BY <1>1, <1>3, <1>4, <1>5

LEMMA BarFits ==
  ASSUME NEW i, NEW r, NEW ios, NEW n \in LivingLeds \cup RoomLeds,
         i.node = n, i.tags = r, i.ios = ios,
         n \in LivingLeds => i.key \in Bars /\ r = {},
         n \in RoomLeds => i.key = "interface-south" /\ r = {"room"},
         \A o \in ios : /\ o.key \in IoNames /\ "out" \in o.tags /\ "room" \notin o.tags
                        /\ "hall" \notin o.tags /\ "orange" \notin o.tags
                        /\ o.tags \cap Circuit1 # {} => OnCircuit(n, o.key, 1)
                        /\ o.tags \cap Circuit2 # {} => OnCircuit(n, o.key, 2)
                        /\ o.tags \cap Circuit3 # {} => OnCircuit(n, o.key, 3)
  PROVE  InterfaceFits(i)
BY DEF InterfaceFits, IoFits, PlainNodes, LedNodes, OfficeLeds, LivingLeds, RoomLeds

LEMMA OnBars ==
  /\ \A n \in LivingLeds : \A k : /\ OnCircuit(n, k, 1) <=> k = "led-4"
                                  /\ OnCircuit(n, k, 2) <=> k = "led-2"
                                  /\ OnCircuit(n, k, 3) <=> k = "led-6"
  /\ \A n \in RoomLeds : \A k : /\ OnCircuit(n, k, 1) <=> k = "led-2"
                                /\ OnCircuit(n, k, 2) <=> k = "led-4"
                                /\ OnCircuit(n, k, 3) <=> k = "led-6"
BY DEF OnCircuit, OfficeLeds, LivingLeds, RoomLeds

LEMMA LivingBarFits ==
  ASSUME NEW n \in LivingLeds, NEW k \in Bars, NEW d, NEW c1 \in LampColours \ {"hall", "orange"},
         NEW c2 \in LampColours \ {"hall", "orange"}
  PROVE  InterfaceFits(Interface(n, k, d, {},
          { Pwm("led-1", <<2, 1>>, {"red", "rgb"}), Out("led-2", <<2, 3>>, {"out2", "white"}),
            Pwm("led-3", <<3, 3>>, {c1, "rgb"}), Pwm("led-4", <<3, 5>>, {"out1", "white"}),
            Pwm("led-5", <<3, 6>>, {c2, "rgb"}), Out("led-6", <<2, 4>>, {"out3", "white"}) }))
<1> DEFINE ios ==
          { Pwm("led-1", <<2, 1>>, {"red", "rgb"}), Out("led-2", <<2, 3>>, {"out2", "white"}),
            Pwm("led-3", <<3, 3>>, {c1, "rgb"}), Pwm("led-4", <<3, 5>>, {"out1", "white"}),
            Pwm("led-5", <<3, 6>>, {c2, "rgb"}), Out("led-6", <<2, 4>>, {"out3", "white"}) }
<1>1. \A o \in ios : /\ o.key \in IoNames /\ "out" \in o.tags /\ "room" \notin o.tags
                     /\ "hall" \notin o.tags /\ "orange" \notin o.tags
                     /\ o.tags \cap Circuit1 # {} => o.key = "led-4"
                     /\ o.tags \cap Circuit2 # {} => o.key = "led-2"
                     /\ o.tags \cap Circuit3 # {} => o.key = "led-6"
  BY IoFields DEF IoNames, Circuit1, Circuit2, Circuit3, LampColours
<1> HIDE DEF ios
<1>2. n \notin RoomLeds
  BY DEF LivingLeds, RoomLeds
<1> DEFINE i == Interface(n, k, d, {}, ios)
<1>3. i.node = n /\ i.key = k /\ i.tags = {} /\ i.ios = ios
  BY InterfaceFields
<1> HIDE DEF i
<1>4. InterfaceFits(i)
  BY <1>1, <1>2, <1>3, OnBars, BarFits
<1> QED BY <1>4 DEF i, ios

LEMMA RoomBarFits ==
  ASSUME NEW n \in RoomLeds
  PROVE  InterfaceFits(Interface(n, "interface-south", 0, {"room"},
          { Pwm("led-1", <<2, 1>>, {"red", "rgb"}), Out("led-2", <<2, 3>>, {"white1"}),
            Pwm("led-3", <<3, 3>>, {"green", "rgb"}), Out("led-4", <<3, 5>>, {"white2"}),
            Pwm("led-5", <<3, 6>>, {"blue", "rgb"}), Out("led-6", <<2, 4>>, {"white3"}) }))
<1> DEFINE ios ==
          { Pwm("led-1", <<2, 1>>, {"red", "rgb"}), Out("led-2", <<2, 3>>, {"white1"}),
            Pwm("led-3", <<3, 3>>, {"green", "rgb"}), Out("led-4", <<3, 5>>, {"white2"}),
            Pwm("led-5", <<3, 6>>, {"blue", "rgb"}), Out("led-6", <<2, 4>>, {"white3"}) }
<1>1. \A o \in ios : /\ o.key \in IoNames /\ "out" \in o.tags /\ "room" \notin o.tags
                     /\ "hall" \notin o.tags /\ "orange" \notin o.tags
                     /\ o.tags \cap Circuit1 # {} => o.key = "led-2"
                     /\ o.tags \cap Circuit2 # {} => o.key = "led-4"
                     /\ o.tags \cap Circuit3 # {} => o.key = "led-6"
  BY IoFields DEF IoNames, Circuit1, Circuit2, Circuit3
<1> HIDE DEF ios
<1>2. n \notin LivingLeds
  BY DEF LivingLeds, RoomLeds
<1> DEFINE i == Interface(n, "interface-south", 0, {"room"}, ios)
<1>3. i.node = n /\ i.key = "interface-south" /\ i.tags = {"room"} /\ i.ios = ios
  BY InterfaceFields
<1> HIDE DEF i
<1>4. InterfaceFits(i)
  BY <1>1, <1>2, <1>3, OnBars, BarFits
<1> QED BY <1>4 DEF i, ios

LEMMA WallFits ==
  ASSUME NEW n \in PlainNodes, NEW a \in SUBSET LampColours,
         NEW b \in SUBSET LampColours, NEW c \in SUBSET LampColours, NEW d \in SUBSET LampColours
  PROVE  InterfaceFits(WallSwitch(n, <<a, b, c, d>>))
BY SwitchInterfaceFits DEF WallSwitch

LEMMA LivingFits == \A i \in livingHardware : InterfaceFits(i)
<1>1. /\ {"blue"} \in SUBSET LampColours /\ {"green"} \in SUBSET LampColours
      /\ {"red"} \in SUBSET LampColours /\ {"orange"} \in SUBSET LampColours
      /\ {"orange", "hall"} \in SUBSET LampColours
      /\ {"green", "ok", "hall"} \in SUBSET LampColours
      /\ {"red", "hall"} \in SUBSET LampColours
      /\ {"blue", "ok", "hall"} \in SUBSET LampColours
      /\ {"orange", "ok", "hall"} \in SUBSET LampColours
  BY DEF LampColours
<1>2. {"hall-east", "hall-west", "living-fire"} \subseteq PlainNodes
  BY DEF PlainNodes
<1>3. /\ "blue" \in LampColours \ {"hall", "orange"} /\ "green" \in LampColours \ {"hall", "orange"}
      /\ "main-led-north" \in LivingLeds /\ "main-led-south" \in LivingLeds
      /\ "interface-living" \in Bars /\ "interface-dining" \in Bars
  BY DEF LampColours, LivingLeds, Bars
<1> DEFINE Bar(n, i, c1, c2) ==
        Interface(n, i, IF i = "interface-living" THEN 0 ELSE 1, {},
          { Pwm("led-1", <<2, 1>>, {"red", "rgb"}), Out("led-2", <<2, 3>>, {"out2", "white"}),
            Pwm("led-3", <<3, 3>>, {c1, "rgb"}), Pwm("led-4", <<3, 5>>, {"out1", "white"}),
            Pwm("led-5", <<3, 6>>, {c2, "rgb"}), Out("led-6", <<2, 4>>, {"out3", "white"}) })
<1>4. \A n \in LivingLeds : \A i \in Bars : \A c1, c2 \in LampColours \ {"hall", "orange"} :
        InterfaceFits(Bar(n, i, c1, c2))
  BY LivingBarFits
<1> HIDE DEF Bar
<1>5. /\ InterfaceFits(Bar("main-led-north", "interface-living", "blue", "green"))
      /\ InterfaceFits(Bar("main-led-north", "interface-dining", "blue", "green"))
      /\ InterfaceFits(Bar("main-led-south", "interface-living", "green", "blue"))
      /\ InterfaceFits(Bar("main-led-south", "interface-dining", "blue", "green"))
  BY <1>3, <1>4
<1> DEFINE fire == WallSwitch("living-fire", << {"blue"}, {"green"}, {"red"}, {"orange"} >>)
           east == WallSwitch("hall-east", << {"orange", "hall"}, {"green", "ok", "hall"},
                                  {"red", "hall"}, {"blue", "ok", "hall"} >>)
           west == WallSwitch("hall-west", << {"blue", "ok", "hall"}, {"orange", "ok", "hall"},
                                  {"green", "ok", "hall"}, {"red", "hall"} >>)
<1>6. InterfaceFits(fire) /\ InterfaceFits(east) /\ InterfaceFits(west)
  BY <1>1, <1>2, WallFits
<1>7. livingHardware = { Bar("main-led-north", "interface-living", "blue", "green"),
       Bar("main-led-north", "interface-dining", "blue", "green"),
       Bar("main-led-south", "interface-living", "green", "blue"),
       Bar("main-led-south", "interface-dining", "blue", "green"), fire, east, west}
  BY DEF livingHardware, Bar
<1> HIDE DEF fire, east, west
<1> QED BY <1>5, <1>6, <1>7

LEMMA RoomFits == \A i \in roomHardware : InterfaceFits(i)
<1>1. /\ {"blue"} \in SUBSET LampColours /\ {"green"} \in SUBSET LampColours
      /\ {"red"} \in SUBSET LampColours /\ {"orange"} \in SUBSET LampColours
  BY DEF LampColours
<1>2. {"room-north", "room-south", "dressing"} \subseteq PlainNodes
      /\ "room-led" \in RoomLeds /\ "room-led-2" \in RoomLeds
  BY DEF PlainNodes, RoomLeds
<1> DEFINE Bar(n) ==
        Interface(n, "interface-south", 0, {"room"},
          { Pwm("led-1", <<2, 1>>, {"red", "rgb"}), Out("led-2", <<2, 3>>, {"white1"}),
            Pwm("led-3", <<3, 3>>, {"green", "rgb"}), Out("led-4", <<3, 5>>, {"white2"}),
            Pwm("led-5", <<3, 6>>, {"blue", "rgb"}), Out("led-6", <<2, 4>>, {"white3"}) })
           Wall(n) == WallSwitch(n, << {"blue"}, {"red"}, {"green"}, {"orange"} >>)
<1>3. \A n \in RoomLeds : InterfaceFits(Bar(n))
  BY RoomBarFits
<1>4. \A n \in PlainNodes : InterfaceFits(Wall(n))
  BY <1>1, WallFits
<1>5. roomHardware = {Bar("room-led"), Bar("room-led-2"), Wall("room-north"),
                      Wall("room-south"), Wall("dressing")}
  BY DEF roomHardware
<1> HIDE DEF Bar, Wall
<1> QED BY <1>2, <1>3, <1>4, <1>5

LEMMA AllFit == \A x \in AllIos : /\ x.node = x.interface.node /\ x.io \in x.interface.ios
                                  /\ InterfaceFits(x.interface) /\ IoFits(x.node, x.io)
<1> SUFFICES ASSUME NEW x \in AllIos
             PROVE  /\ x.node = x.interface.node /\ x.io \in x.interface.ios
                    /\ InterfaceFits(x.interface) /\ IoFits(x.node, x.io)
  OBVIOUS
<1>1. PICK s \in Service :
        x \in UNION { {[node |-> i.node, interface |-> i, io |-> o] : o \in i.ios} : i \in Hardware[s] }
  BY DEF AllIos
<1>2. PICK i \in Hardware[s] : x \in {[node |-> i.node, interface |-> i, io |-> o] : o \in i.ios}
  BY <1>1
<1>3. PICK o \in i.ios : x = [node |-> i.node, interface |-> i, io |-> o]
  BY <1>2
<1>4. InterfaceFits(i)
  BY ServiceNames, HardwareOfServices, KitchenFits, OfficeFits, LivingFits, RoomFits
<1> QED BY <1>3, <1>4 DEF InterfaceFits

-----------------------------------------------------------------------------
(* Selections.                                                             *)

(* What a selection of one or two terms finds.                             *)
NodeObject(x) == [key |-> x.node, tags |-> {}]
LEMMA OneTerm ==
  ASSUME NEW u, NEW x PROVE x \in Selected(<<u>>) <=> x \in AllIos /\ Matches(x.io, u)
BY DEF Selected
LEMMA TwoTerms ==
  ASSUME NEW t, NEW u, NEW x
  PROVE  x \in Selected(<<t, u>>) <=>
           /\ x \in AllIos /\ Matches(x.io, u)
           /\ Matches(x.io, t) \/ Matches(x.interface, t) \/ Matches(NodeObject(x), t)
<1>1. Len(<<t, u>>) = 2 /\ <<t, u>>[1] = t /\ <<t, u>>[2] = u
  OBVIOUS
<1> QED BY <1>1 DEF Selected, NodeObject

LEMMA MatchesTags == \A o, t : Matches(o, T(t)) <=> t \subseteq o.tags
BY DEF Matches, T
LEMMA MatchesKey == \A o, k : k # "" => (Matches(o, K(k)) <=> o.key = k)
BY DEF Matches, K
LEMMA NodeMatches ==
  \A x : /\ \A k : k # "" => (Matches(NodeObject(x), K(k)) <=> x.node = k)
         /\ \A t : Matches(NodeObject(x), T(t)) <=> t = {}
BY DEF Matches, T, K, NodeObject

(* A term that names a place finds what is there.                          *)
GroupOf(s) == CASE s = "office" -> OfficeLeds [] s = "living" -> LivingLeds [] OTHER -> RoomLeds
InterfaceNames == {"interface", "interface-living", "interface-dining", "interface-south"}
LEMMA PlaceOf ==
  ASSUME NEW x \in AllIos
  PROVE  /\ x.io.key \in IoNames /\ "room" \notin x.io.tags
         /\ x.interface.key \in InterfaceNames
         /\ x.interface.key \in Bars <=> x.node \in LivingLeds
         /\ "room" \in x.interface.tags <=> x.node \in RoomLeds
         /\ x.node \in PlainNodes \cup LedNodes
         /\ x.node \in LedNodes => /\ "out" \in x.io.tags /\ "hall" \notin x.io.tags
                                   /\ "orange" \notin x.io.tags
         /\ x.io.tags \cap LedTags # {} => x.node \in LedNodes
BY AllFit DEF InterfaceFits, IoFits, InterfaceNames, Bars, PlainNodes, LedNodes, OfficeLeds,
     LivingLeds, RoomLeds

LEMMA NodeTerm ==
  ASSUME NEW k, k \notin IoNames, k \notin InterfaceNames, k # "",
         NEW u, NEW x \in Selected(<<K(k), u>>)
  PROVE  x.node = k
<1>1. x \in AllIos /\ (Matches(x.io, K(k)) \/ Matches(x.interface, K(k)) \/ Matches(NodeObject(x), K(k)))
  BY TwoTerms
<1>2. x.io.key # k /\ x.interface.key # k
  BY <1>1, PlaceOf
<1> QED BY <1>1, <1>2, MatchesKey, NodeMatches
LEMMA BarTerm ==
  ASSUME NEW k \in Bars, NEW u, NEW x \in Selected(<<K(k), u>>)
  PROVE  x.node \in LivingLeds
<1>1. k \notin IoNames /\ k # "" /\ k \notin PlainNodes \cup LedNodes
  BY DEF Bars, IoNames, PlainNodes, LedNodes, OfficeLeds, LivingLeds, RoomLeds
<1>2. x \in AllIos /\ (Matches(x.io, K(k)) \/ Matches(x.interface, K(k)) \/ Matches(NodeObject(x), K(k)))
  BY TwoTerms
<1>3. x.io.key # k /\ x.node # k
  BY <1>1, <1>2, PlaceOf
<1>4. x.interface.key = k
  BY <1>1, <1>2, <1>3, MatchesKey, NodeMatches
<1> QED BY <1>2, <1>4, PlaceOf
LEMMA RoomTerm ==
  ASSUME NEW u, NEW x \in Selected(<<T({"room"}), u>>)
  PROVE  x.node \in RoomLeds
<1>1. x \in AllIos /\ (\/ Matches(x.io, T({"room"})) \/ Matches(x.interface, T({"room"}))
                       \/ Matches(NodeObject(x), T({"room"})))
  BY TwoTerms
<1>2. "room" \in x.io.tags \/ "room" \in x.interface.tags
  BY <1>1, MatchesTags, NodeMatches
<1> QED BY <1>1, <1>2, PlaceOf

(* The places of the lamps that cycle and colorCycle drive.                *)
PlaceTerms == {K("main-led-office"), T({"room"}), K("main-led-north"), K("main-led-south"),
               K("interface-living"), K("interface-dining"), K("room-led"), K("room-led-2")}
LEMMA PlaceTermsAre ==
  ASSUME NEW t \in PlaceTerms
  PROVE  \E s \in {"office", "living", "room"} : \A u : \A x \in Selected(<<t, u>>) :
           x.node \in GroupOf(s)
<1>1. GroupOf("office") = OfficeLeds /\ GroupOf("living") = LivingLeds /\ GroupOf("room") = RoomLeds
  BY DEF GroupOf
<1> DEFINE names == {"main-led-office", "main-led-north", "main-led-south", "room-led", "room-led-2"}
<1>2. \A k \in names : k \notin IoNames /\ k \notin InterfaceNames /\ k # ""
  BY DEF IoNames, InterfaceNames
<1>3. \A k \in names : \A u : \A x \in Selected(<<K(k), u>>) : x.node = k
  BY <1>2, NodeTerm
<1>4. CASE t \in {K("main-led-north"), K("main-led-south")}
  <2>1. \A u : \A x \in Selected(<<t, u>>) : x.node \in LivingLeds
    BY <1>3, <1>4 DEF LivingLeds
  <2> QED BY <1>1, <2>1
<1>5. CASE t = K("main-led-office")
  <2>1. \A u : \A x \in Selected(<<t, u>>) : x.node \in OfficeLeds
    BY <1>3, <1>5 DEF OfficeLeds
  <2> QED BY <1>1, <2>1
<1>6. CASE t \in {K("room-led"), K("room-led-2")}
  <2>1. \A u : \A x \in Selected(<<t, u>>) : x.node \in RoomLeds
    BY <1>3, <1>6 DEF RoomLeds
  <2> QED BY <1>1, <2>1
<1>7. CASE t \in {K("interface-living"), K("interface-dining")}
  <2>1. \A u : \A x \in Selected(<<t, u>>) : x.node \in LivingLeds
    BY <1>7, BarTerm DEF Bars
  <2> QED BY <1>1, <2>1
<1>8. CASE t = T({"room"})
  <2>1. \A u : \A x \in Selected(<<t, u>>) : x.node \in RoomLeds
    BY <1>8, RoomTerm
  <2> QED BY <1>1, <2>1
<1> QED BY <1>4, <1>5, <1>6, <1>7, <1>8 DEF PlaceTerms

(* The reset of a service turns off all lamps of its group, and none of    *)
(* another.                                                                *)
LEMMA ResetsOfServices ==
  Resets["office"] = officeResets /\ Resets["living"] = livingResets /\ Resets["room"] = roomResets
BY ServiceNames DEF Resets, ByService
LEMMA ResetRanges ==
  /\ Range(officeResets) = {OutsOf("main-led-office"), OutsOf("office-east"), OutsOf("office-west")}
  /\ Range(livingResets) = {<< T({"hall", "out"}) >>, OutsOf("living-fire"),
                            << K("living-fire"), T({"orange"}) >>,
                            OutsOf("interface-living"), OutsOf("interface-dining")}
  /\ Range(roomResets) = {OutsOf("room-north"), OutsOf("room-south"), OutsOf("dressing"),
                          << T({"room"}), T({"out"}) >>, << T({"room"}), T({"rgb"}) >>}
<1>1. \A a, b, c : Range(<<a, b, c>>) = {a, b, c}
  BY DEF Range
<1>2. \A a, b, c, d, e : Range(<<a, b, c, d, e>>) = {a, b, c, d, e}
  BY DEF Range
<1> QED BY <1>1, <1>2 DEF officeResets, livingResets, roomResets

LEMMA Groups ==
  /\ GroupOf("office") = OfficeLeds /\ GroupOf("living") = LivingLeds /\ GroupOf("room") = RoomLeds
  /\ \A s, z \in {"office", "living", "room"} : s # z => GroupOf(s) \cap GroupOf(z) = {}
  /\ \A s \in {"office", "living", "room"} : GroupOf(s) \subseteq LedNodes
<1>1. GroupOf("office") = OfficeLeds /\ GroupOf("living") = LivingLeds /\ GroupOf("room") = RoomLeds
  BY DEF GroupOf
<1> QED BY <1>1 DEF OfficeLeds, LivingLeds, RoomLeds, LedNodes

LEMMA ResetsCover ==
  ASSUME NEW s \in {"office", "living", "room"}, NEW x \in AllIos, x.node \in GroupOf(s)
  PROVE  \E r \in Range(Resets[s]) : x \in Selected(r)
<1>1. "out" \in x.io.tags
  BY PlaceOf, Groups
<1>2. Matches(x.io, T({"out"}))
  BY <1>1, MatchesTags
<1>3. CASE s = "office"
  <2>1. x.node = "main-led-office"
    BY <1>3, Groups DEF OfficeLeds
  <2>2. x \in Selected(<<K("main-led-office"), T({"out"})>>)
    BY <1>2, <2>1, TwoTerms, NodeMatches
  <2> QED BY <1>3, <2>2, ResetsOfServices, ResetRanges DEF OutsOf
<1>4. CASE s = "living"
  <2>1. x.interface.key \in Bars
    BY <1>4, Groups, PlaceOf
  <2>2. x \in Selected(OutsOf("interface-living")) \/ x \in Selected(OutsOf("interface-dining"))
    BY <1>2, <2>1, TwoTerms, MatchesKey DEF OutsOf, Bars
  <2> QED BY <1>4, <2>2, ResetsOfServices, ResetRanges
<1>5. CASE s = "room"
  <2>1. "room" \in x.interface.tags
    BY <1>5, Groups, PlaceOf
  <2>2. x \in Selected(<< T({"room"}), T({"out"}) >>)
    BY <1>2, <2>1, TwoTerms, MatchesTags
  <2> QED BY <1>5, <2>2, ResetsOfServices, ResetRanges
<1> QED BY <1>3, <1>4, <1>5

LEMMA ResetsKeepOut ==
  ASSUME NEW s \in {"office", "living", "room"}, NEW r \in Range(Resets[s]), NEW x \in Selected(r),
         x.node \in LedNodes
  PROVE  x.node \in GroupOf(s)
<1> DEFINE names == {"main-led-office", "office-east", "office-west", "living-fire", "room-north",
                     "room-south", "dressing"}
<1>1. \A k \in names : k \notin IoNames /\ k \notin InterfaceNames /\ k # ""
  BY DEF IoNames, InterfaceNames
<1>2. \A k \in names : \A u, y : y \in Selected(<<K(k), u>>) => y.node = k
  BY <1>1, NodeTerm
<1>3. \A k \in names \ {"main-led-office"} : k \notin LedNodes
  BY DEF LedNodes, OfficeLeds, LivingLeds, RoomLeds
<1>4. x \in AllIos
  BY DEF Selected
<1> HIDE DEF names
<1>5. CASE s = "office"
  <2>1. r \in {OutsOf("main-led-office"), OutsOf("office-east"), OutsOf("office-west")}
    BY <1>5, ResetsOfServices, ResetRanges
  <2>2. x.node = "main-led-office" \/ x.node = "office-east" \/ x.node = "office-west"
    BY <1>2, <2>1 DEF OutsOf, names
  <2> QED BY <1>3, <1>5, <2>2, Groups DEF names, OfficeLeds
<1>6. CASE s = "living"
  <2>1. r \in {<< T({"hall", "out"}) >>, OutsOf("living-fire"), << K("living-fire"), T({"orange"}) >>,
               OutsOf("interface-living"), OutsOf("interface-dining")}
    BY <1>6, ResetsOfServices, ResetRanges
  <2>2. CASE r = << T({"hall", "out"}) >>
    <3>1. "hall" \in x.io.tags
      BY <2>2, OneTerm, MatchesTags
    <3> QED BY <1>4, <3>1, PlaceOf
  <2>3. CASE r \in {OutsOf("living-fire"), << K("living-fire"), T({"orange"}) >>}
    <3>1. x.node = "living-fire"
      BY <1>2, <2>3 DEF OutsOf, names
    <3> QED BY <1>3, <3>1 DEF names
  <2>4. CASE r \in {OutsOf("interface-living"), OutsOf("interface-dining")}
    <3>1. x.node \in LivingLeds
      BY <2>4, BarTerm DEF OutsOf, Bars
    <3> QED BY <1>6, <3>1, Groups
  <2> QED BY <2>1, <2>2, <2>3, <2>4
<1>7. CASE s = "room"
  <2>1. r \in {OutsOf("room-north"), OutsOf("room-south"), OutsOf("dressing"),
               << T({"room"}), T({"out"}) >>, << T({"room"}), T({"rgb"}) >>}
    BY <1>7, ResetsOfServices, ResetRanges
  <2>2. CASE r \in {OutsOf("room-north"), OutsOf("room-south"), OutsOf("dressing")}
    <3>1. x.node = "room-north" \/ x.node = "room-south" \/ x.node = "dressing"
      BY <1>2, <2>2 DEF OutsOf, names
    <3> QED BY <1>3, <3>1 DEF names
  <2>3. CASE r \in {<< T({"room"}), T({"out"}) >>, << T({"room"}), T({"rgb"}) >>}
    <3>1. x.node \in RoomLeds
      BY <2>3, RoomTerm
    <3> QED BY <1>7, <3>1, Groups
  <2> QED BY <2>1, <2>2, <2>3
<1> QED BY <1>5, <1>6, <1>7

-----------------------------------------------------------------------------
(* The lamps of the handlers.                                              *)

(* The targets of cycles and colours.                                      *)
Followed == Cycles \cup Colours
LEMMA FollowedAre == \A c \in Followed : c \in Closures /\ c.handler.kind \in {"cycle", "cycleLEDs", "colorCycle"}
BY DEF Followed, Cycles, Colours

LEMMA HandlerTargets ==
  /\ \A key, t : colourOf(key, t).targets = << << t, T({"rgb"}) >> >>
  /\ \A t : cycleOf(t).targets = Circuits(t, "white1", "white2", "white3")
  /\ \A i : ledsOf(i).targets = Circuits(K(i), "out1", "out2", "out3")
  /\ allDownFn.targets = << << T({"out"}) >>, << T({"rgb"}) >> >>
BY DEF Handler, colourOf, cycleOf, ledsOf, allDownFn, Whites, Outs

CircuitsOf(h) == \E t \in PlaceTerms : \E x \in Circuit1 : \E y \in Circuit2 : \E z \in Circuit3 :
                   h.targets = Circuits(t, x, y, z)
StripOf(h) == \E t \in PlaceTerms : h.targets = << << t, T({"rgb"}) >> >>
TargetsFit(h) ==
  /\ h.kind \in {"cycle", "cycleLEDs"} => CircuitsOf(h)
  /\ h.kind = "colorCycle" => StripOf(h)
  /\ h.kind = "allDown" => h = allDownFn

LEMMA CycleFits == \A t \in PlaceTerms : TargetsFit(cycleOf(t))
BY HandlerTargets, HandlerKinds DEF TargetsFit, CircuitsOf, Circuit1, Circuit2, Circuit3
LEMMA LedsFits == \A i \in Bars : TargetsFit(ledsOf(i))
BY HandlerTargets, HandlerKinds DEF TargetsFit, CircuitsOf, Circuit1, Circuit2, Circuit3, Bars, PlaceTerms
LEMMA ColourFits == \A key : \A t \in PlaceTerms : TargetsFit(colourOf(key, t))
BY HandlerTargets, HandlerKinds DEF TargetsFit, StripOf
LEMMA LevelFits == \A key, i : TargetsFit(levelOf(key, i))
BY HandlerKinds DEF TargetsFit
LEMMA AllDownFits == TargetsFit(allDownFn)
BY HandlerKinds DEF TargetsFit

LEMMA HandlersFit ==
  \A h \in officeHandlers \cup livingHandlers \cup roomHandlers : TargetsFit(h)
<1> SUFFICES ASSUME NEW h \in officeHandlers \cup livingHandlers \cup roomHandlers
             PROVE  TargetsFit(h)
  OBVIOUS
<1>1. CASE h \in officeHandlers
  BY <1>1, CycleFits, ColourFits DEF officeHandlers, PlaceTerms
<1>2. CASE h \in livingHandlers
  BY <1>2, LedsFits, LevelFits, AllDownFits DEF livingHandlers, Bars
<1>3. CASE h \in roomHandlers
  BY <1>3, CycleFits, ColourFits, AllDownFits DEF roomHandlers, PlaceTerms
<1> QED BY <1>1, <1>2, <1>3

LEMMA ClosuresFit ==
  ASSUME NEW c \in Closures
  PROVE  TargetsFit(c.handler) /\ c.service \in {"office", "living", "room"}
BY ClosuresAre, WiresHaveHandlers, HandlersFit

LEMMA FollowedFit ==
  /\ \A c \in Cycles : CircuitsOf(c.handler)
  /\ \A c \in Colours : StripOf(c.handler)
BY ClosuresFit DEF Cycles, Colours, TargetsFit

LEMMA TripleRange ==
  ASSUME NEW a, NEW b, NEW c
  PROVE  /\ Range(<<a, b, c>>) = {a, b, c}
         /\ <<a, b, c>>[1] = a /\ <<a, b, c>>[2] = b /\ <<a, b, c>>[3] = c
BY DEF Range
LEMMA CircuitsRange ==
  ASSUME NEW t, NEW x, NEW y, NEW z
  PROVE  LET targets == Circuits(t, x, y, z) IN
         /\ \A sel \in Range(targets) : \E j \in 1..3 : sel = targets[j]
         /\ \A j \in 1..3 : targets[j] \in Range(targets)
<1> DEFINE targets == Circuits(t, x, y, z)
           a == <<t, T({x})>> b == <<t, T({y})>> c == <<t, T({z})>>
<1>1. targets = <<a, b, c>>
  BY DEF Circuits
<1> HIDE DEF a, b, c, targets
<1>2. targets[1] = a /\ targets[2] = b /\ targets[3] = c /\ Range(targets) = {a, b, c}
  BY <1>1, TripleRange
<1>3. \A j \in 1..3 : j = 1 \/ j = 2 \/ j = 3
  OBVIOUS
<1>4. \A j \in 1..3 : targets[j] \in Range(targets)
  BY <1>2, <1>3
<1>5. 1 \in 1..3 /\ 2 \in 1..3 /\ 3 \in 1..3
  OBVIOUS
<1>6. \A sel \in Range(targets) : \E j \in 1..3 : sel = targets[j]
  BY <1>2, <1>5
<1> QED BY <1>4, <1>6 DEF targets

(* A cycle has three circuits at one place.                                *)
LEMMA CircuitsAre ==
  ASSUME NEW c \in Cycles
  PROVE  /\ \A sel \in Range(c.handler.targets) : \E j \in 1..3 : sel = c.handler.targets[j]
         /\ \A j \in 1..3 : c.handler.targets[j] \in Range(c.handler.targets)
         /\ \E t \in PlaceTerms : \E x \in Circuit1 : \E y \in Circuit2 : \E z \in Circuit3 :
              /\ c.handler.targets[1] = <<t, T({x})>> /\ c.handler.targets[2] = <<t, T({y})>>
              /\ c.handler.targets[3] = <<t, T({z})>>
<1> DEFINE g == c.handler.targets
<1>1. PICK t \in PlaceTerms, x \in Circuit1, y \in Circuit2, z \in Circuit3 :
        g = Circuits(t, x, y, z)
  BY FollowedFit DEF CircuitsOf
<1> HIDE DEF g
<1>2. g[1] = <<t, T({x})>> /\ g[2] = <<t, T({y})>> /\ g[3] = <<t, T({z})>>
  BY <1>1 DEF Circuits
<1>3. /\ \A sel \in Range(g) : \E j \in 1..3 : sel = g[j]
      /\ \A j \in 1..3 : g[j] \in Range(g)
  BY <1>1, CircuitsRange
<1> QED BY <1>2, <1>3 DEF g
LEMMA StripRange == ASSUME NEW s PROVE <<s>>[1] = s /\ Range(<<s>>) = {s}
BY DEF Range
LEMMA PairRange == ASSUME NEW s, NEW t PROVE Range(<<s, t>>) = {s, t}
BY DEF Range

(* All their targets are of one place, and find outputs with a tag.        *)
LEMMA TargetsOfFollowed ==
  ASSUME NEW c \in Followed
  PROVE  \E t \in PlaceTerms : \A sel \in Range(c.handler.targets) :
           \E tag \in LedTags : sel = <<t, T({tag})>>
<1>1. CASE c \in Cycles
  <2> DEFINE g == c.handler.targets
  <2>1. PICK t \in PlaceTerms, x \in Circuit1, y \in Circuit2, z \in Circuit3 :
          g[1] = <<t, T({x})>> /\ g[2] = <<t, T({y})>> /\ g[3] = <<t, T({z})>>
    BY <1>1, CircuitsAre
  <2>2. \A sel \in Range(g) : \E j \in 1..3 : sel = g[j]
    BY <1>1, CircuitsAre
  <2>3. x \in LedTags /\ y \in LedTags /\ z \in LedTags
    BY DEF LedTags
  <2> HIDE DEF g
  <2>4. \A j \in 1..3 : j = 1 \/ j = 2 \/ j = 3
    OBVIOUS
  <2>5. \A sel \in Range(g) : \E tag \in LedTags : sel = <<t, T({tag})>>
    BY <2>1, <2>2, <2>3, <2>4
  <2> QED BY <2>5 DEF g
<1>2. CASE c \in Colours
  <2>1. PICK t \in PlaceTerms : c.handler.targets = << << t, T({"rgb"}) >> >>
    BY <1>2, FollowedFit DEF StripOf
  <2>2. Range(c.handler.targets) = {<<t, T({"rgb"})>>}
    BY <2>1, StripRange
  <2>3. "rgb" \in LedTags
    BY DEF LedTags
  <2> QED BY <2>2, <2>3
<1> QED BY <1>1, <1>2 DEF Followed

LampAt(x) == <<x.node, x.interface.key, x.io.key>>
Lamps(c) == UNION {LampsOf[sel] : sel \in Range(c.handler.targets)}
LEMMA LampsOfAre == \A sel \in Selections : LampsOf[sel] = {LampAt(x) : x \in Selected(sel)}
BY DEF LampsOf, LampAt
LEMMA TargetsSelected == \A c \in Closures : Range(c.handler.targets) \subseteq Selections
BY DEF Selections
LEMMA ResetsSelected == \A c \in Closures : Range(Resets[c.service]) \subseteq Selections
BY DEF Selections
LEMMA KitchenSelected == Kitchen \in Selections
BY DEF Selections

LEMMA LampsAreLamps ==
  ASSUME NEW c \in Closures, c.handler.kind # "allDown" PROVE Lamps(c) \subseteq Lamp
BY DEF Lamps, Lamp

(* A lamp of a followed handler is an output of one group of leds.         *)
LEMMA LampsOfFollowed ==
  ASSUME NEW c \in Followed
  PROVE  \E s \in {"office", "living", "room"} : \A sel \in Range(c.handler.targets) :
           \A l \in LampsOf[sel] : \E x \in Selected(sel) :
             l = LampAt(x) /\ x \in AllIos /\ x.node \in GroupOf(s) /\ x.node \in LedNodes
             /\ "out" \in x.io.tags
<1>1. PICK t \in PlaceTerms : \A sel \in Range(c.handler.targets) :
        \E tag \in LedTags : sel = <<t, T({tag})>>
  BY TargetsOfFollowed
<1>2. PICK s \in {"office", "living", "room"} : \A u : \A x \in Selected(<<t, u>>) :
        x.node \in GroupOf(s)
  BY PlaceTermsAre
<1>3. ASSUME NEW sel \in Range(c.handler.targets), NEW l \in LampsOf[sel]
      PROVE  \E x \in Selected(sel) :
               l = LampAt(x) /\ x \in AllIos /\ x.node \in GroupOf(s) /\ x.node \in LedNodes
               /\ "out" \in x.io.tags
  <2>1. sel \in Selections
    BY FollowedAre, TargetsSelected
  <2>2. PICK x \in Selected(sel) : l = LampAt(x)
    BY <2>1, LampsOfAre
  <2>3. x \in AllIos
    BY DEF Selected
  <2>4. x.node \in GroupOf(s)
    BY <1>1, <1>2
  <2> QED BY <2>2, <2>3, <2>4, Groups, PlaceOf
<1> QED BY <1>3

(* The circuits of a cycle share no lamp.                                  *)
LEMMA OnTheCircuit ==
  ASSUME NEW c \in Cycles, NEW j \in 1..3, NEW l \in LampsOf[c.handler.targets[j]]
  PROVE  OnCircuit(l[1], l[3], j) /\ l[1] \in LedNodes
<1> DEFINE g == c.handler.targets sel == g[j]
<1>1. PICK t \in PlaceTerms, x \in Circuit1, y \in Circuit2, z \in Circuit3 :
        g[1] = <<t, T({x})>> /\ g[2] = <<t, T({y})>> /\ g[3] = <<t, T({z})>>
  BY CircuitsAre
<1> DEFINE tags == <<x, y, z>>
<1>2. sel = <<t, T({tags[j]})>> /\ sel \in Range(c.handler.targets)
  <2>1. j = 1 \/ j = 2 \/ j = 3
    OBVIOUS
  <2>2. tags[1] = x /\ tags[2] = y /\ tags[3] = z
    BY TripleRange
  <2> HIDE DEF tags, g
  <2>3. sel = <<t, T({tags[j]})>>
    BY <1>1, <2>1, <2>2
  <2>4. \A i \in 1..3 : c.handler.targets[i] \in Range(c.handler.targets)
    BY CircuitsAre
  <2> QED BY <2>3, <2>4 DEF g
<1>3. sel \in Selections
  BY <1>2, TargetsSelected DEF Cycles
<1>4. PICK o \in Selected(sel) : l = LampAt(o)
  BY <1>3, LampsOfAre
<1>5. o \in AllIos /\ tags[j] \in o.io.tags
  <2>1. o \in Selected(<<t, T({tags[j]})>>)
    BY <1>2
  <2> QED BY <2>1, TwoTerms, MatchesTags
<1>6. l[1] = o.node /\ l[3] = o.io.key
  BY <1>4 DEF LampAt
<1>7. o.node \in LedNodes
  <2>1. tags[j] \in LedTags
    <3>1. j = 1 \/ j = 2 \/ j = 3
      OBVIOUS
    <3> QED BY <3>1 DEF LedTags
  <2> QED BY <1>5, <2>1, PlaceOf
<1>8. IoFits(o.node, o.io)
  BY <1>5, AllFit
<1>9. OnCircuit(o.node, o.io.key, j)
  <2>1. CASE j = 1
    BY <1>5, <1>7, <1>8, <2>1 DEF IoFits
  <2>2. CASE j = 2
    BY <1>5, <1>7, <1>8, <2>2 DEF IoFits
  <2>3. CASE j = 3
    BY <1>5, <1>7, <1>8, <2>3 DEF IoFits
  <2> QED BY <2>1, <2>2, <2>3
<1> QED BY <1>6, <1>7, <1>9

LEMMA OneCircuit ==
  ASSUME NEW n, NEW k, NEW i \in 1..3, NEW j \in 1..3, OnCircuit(n, k, i), OnCircuit(n, k, j)
  PROVE  i = j
<1>1. (i = 1 \/ i = 2 \/ i = 3) /\ (j = 1 \/ j = 2 \/ j = 3)
  OBVIOUS
<1> QED BY <1>1 DEF OnCircuit

LEMMA CircuitsApart ==
  ASSUME NEW c \in Cycles, NEW i \in 1..3, NEW j \in 1..3, NEW l \in LampsOf[c.handler.targets[i]],
         l \in LampsOf[c.handler.targets[j]]
  PROVE  i = j
BY OnTheCircuit, OneCircuit

LEMMA LampsOfCycle ==
  ASSUME NEW c \in Cycles, NEW l \in Lamps(c)
  PROVE  \E j \in 1..3 : l \in LampsOf[c.handler.targets[j]]
<1>1. PICK sel \in Range(c.handler.targets) : l \in LampsOf[sel]
  BY DEF Lamps
<1>2. \E j \in 1..3 : sel = c.handler.targets[j]
  BY CircuitsAre
<1> QED BY <1>1, <1>2

LEMMA CircuitsInLamps ==
  ASSUME NEW c \in Cycles, NEW j \in 1..3
  PROVE  LampsOf[c.handler.targets[j]] \subseteq Lamps(c)
BY CircuitsAre DEF Lamps

LEMMA StripIsLamps ==
  ASSUME NEW c \in Colours
  PROVE  LampsOf[c.handler.targets[1]] = Lamps(c)
<1>1. PICK t \in PlaceTerms : c.handler.targets = << << t, T({"rgb"}) >> >>
  BY FollowedFit DEF StripOf
<1>2. Range(c.handler.targets) = {c.handler.targets[1]}
  BY <1>1, StripRange
<1> QED BY <1>2 DEF Lamps

(* The kitchen is nobody's.                                                *)
LEMMA KitchenApart ==
  ASSUME NEW c \in Followed, NEW l \in Lamps(c) PROVE l \notin LampsOf[Kitchen]
<1>1. PICK sel \in Range(c.handler.targets) : l \in LampsOf[sel]
  BY DEF Lamps
<1>2. \E x \in Selected(sel) : l = LampAt(x) /\ x.node \in LedNodes
  BY <1>1, LampsOfFollowed
<1>3. l[1] \in LedNodes
  BY <1>2 DEF LampAt
<1>4. ASSUME l \in LampsOf[Kitchen] PROVE FALSE
  <2>1. PICK x \in Selected(Kitchen) : l = LampAt(x)
    BY <1>4, KitchenSelected, LampsOfAre
  <2>2. "kitchen-lightning" \notin IoNames /\ "kitchen-lightning" \notin InterfaceNames
    BY DEF IoNames, InterfaceNames
  <2>3. x.node = "kitchen-lightning"
    BY <2>2, NodeTerm DEF Kitchen, OutsOf
  <2>4. l[1] = "kitchen-lightning"
    BY <2>1, <2>3 DEF LampAt
  <2> QED BY <1>3, <2>4 DEF LedNodes, OfficeLeds, LivingLeds, RoomLeds
<1> QED BY <1>4

(* allDown is about all of them.                                           *)
LEMMA AllDownCovers ==
  ASSUME NEW d \in Closures, d.handler.kind = "allDown", NEW c \in Followed, NEW l \in Lamps(c)
  PROVE  \E sel \in Range(d.handler.targets) : l \in LampsOf[sel]
<1>1. d.handler = allDownFn
  BY ClosuresFit DEF TargetsFit
<1>2. << T({"out"}) >> \in Range(d.handler.targets)
  BY <1>1, HandlerTargets, PairRange
<1>3. << T({"out"}) >> \in Selections
  BY <1>2, TargetsSelected
<1>4. PICK sel \in Range(c.handler.targets) : l \in LampsOf[sel]
  BY DEF Lamps
<1>5. \E x \in Selected(sel) : l = LampAt(x) /\ x \in AllIos /\ "out" \in x.io.tags
  BY <1>4, LampsOfFollowed
<1>6. l \in LampsOf[<< T({"out"}) >>]
  BY <1>3, <1>5, LampsOfAre, OneTerm, MatchesTags
<1> QED BY <1>2, <1>6

(* A service that starts turns off all lamps of a handler, or none.        *)
IsReset(s, l) == \E r \in Range(Resets[s]) : l \in LampsOf[r]
LEMMA ResetsWhole ==
  ASSUME NEW e \in Closures, NEW c \in Followed
  PROVE  \/ \A l \in Lamps(c) : IsReset(e.service, l)
         \/ \A l \in Lamps(c) : ~IsReset(e.service, l)
<1>1. PICK z \in {"office", "living", "room"} : \A sel \in Range(c.handler.targets) :
           \A l \in LampsOf[sel] : \E x \in Selected(sel) :
             l = LampAt(x) /\ x \in AllIos /\ x.node \in GroupOf(z) /\ x.node \in LedNodes
             /\ "out" \in x.io.tags
  BY LampsOfFollowed
<1>2. \A l \in Lamps(c) : \E x \in AllIos :
        l = LampAt(x) /\ x.node \in GroupOf(z) /\ x.node \in LedNodes
  BY <1>1 DEF Lamps
<1>3. e.service \in {"office", "living", "room"}
  BY ClosuresFit
<1>4. CASE e.service = z
  <2>1. ASSUME NEW l \in Lamps(c) PROVE IsReset(e.service, l)
    <3>1. PICK x \in AllIos : l = LampAt(x) /\ x.node \in GroupOf(z)
      BY <1>2
    <3>2. PICK r \in Range(Resets[e.service]) : x \in Selected(r)
      BY <1>3, <1>4, <3>1, ResetsCover
    <3> QED BY <3>1, <3>2, ResetsSelected, LampsOfAre DEF IsReset
  <2> QED BY <2>1
<1>5. CASE e.service # z
  <2>1. ASSUME NEW l \in Lamps(c), NEW r \in Range(Resets[e.service]), l \in LampsOf[r] PROVE FALSE
    <3>1. PICK x \in AllIos : l = LampAt(x) /\ x.node \in GroupOf(z) /\ x.node \in LedNodes
      BY <1>2
    <3>2. PICK y \in Selected(r) : l = LampAt(y)
      BY <2>1, ResetsSelected, LampsOfAre
    <3>3. y.node = x.node
      BY <3>1, <3>2 DEF LampAt
    <3>4. y.node \in GroupOf(e.service)
      BY <1>3, <3>1, <3>3, ResetsKeepOut
    <3> QED BY <1>3, <1>5, <3>1, <3>3, <3>4, Groups
  <2> QED BY <2>1 DEF IsReset
<1> QED BY <1>4, <1>5

(* A key that turns everything off does nothing else.                      *)
LEMMA AllDownWires ==
  \A s \in Service : \A w, x \in Wires[s] :
    w.handler.kind = "allDown" /\ w.node = x.node /\ w.io = x.io => w.handler = x.handler
<1>1. \A w \in officeWires : w.handler.kind # "allDown"
  BY OfficeHandlersAre, HandlerKinds DEF officeHandlers
<1>2. \A w \in livingWires : w.handler.kind = "allDown" => w.node = "hall-east" /\ w.io = "b4"
  BY WireFields, HandlerKinds DEF livingWires, ledsOf, levelOf
<1>3. \A w \in livingWires : w.node = "hall-east" /\ w.io = "b4" => w.handler = allDownFn
  BY WireFields DEF livingWires
<1>4. \A w \in roomWires : w.handler.kind = "allDown" => w.io = "b2"
  BY WireFields, HandlerKinds DEF roomWires, colourOf, cycleOf
<1>5. \A w \in roomWires : w.io = "b2" => w.handler = allDownFn
  BY WireFields DEF roomWires
<1> QED BY <1>1, <1>2, <1>3, <1>4, <1>5, ServiceNames, WiresOfServices

LEMMA AllDownAlone ==
  ASSUME NEW k \in Key, NEW c \in HandlersOf[k], NEW d \in HandlersOf[k], d.handler.kind = "allDown"
  PROVE  c = d
<1>1. c \in On(k) /\ d \in On(k) /\ c \in Closures /\ d \in Closures
  BY DEF HandlersOf, On
<1>2. c.service = d.service
  BY OneServiceAKey
<1>3. PICK w \in Wires[c.service] : w.node = k[1] /\ w.io = k[2] /\ w.handler = c.handler
  BY <1>1 DEF On
<1>4. PICK x \in Wires[c.service] : x.node = k[1] /\ x.io = k[2] /\ x.handler = d.handler
  BY <1>1, <1>2 DEF On
<1>5. c.handler = d.handler
  BY <1>1, <1>3, <1>4, AllDownWires, ClosuresAre
<1> QED BY <1>1, <1>2, <1>5, ClosuresAre

-----------------------------------------------------------------------------
(* What a call does to the lamps.                                          *)

(* What LampsFollow says of one handler, of its closure and of the lamps.  *)
FollowsCycle(c, f, m) ==
  \E n \in {0, f.state} : \A j \in 1..3 :
    \A l \in LampsOf[c.handler.targets[j]] : m[l] = IF j <= n THEN Lit ELSE Off
FollowsColour(c, f, m) ==
  \E i \in {Off} \cup {Colour((f.state + d) % NColours, f.intensity) : d \in {0, NColours - 1}} :
    \A l \in LampsOf[c.handler.targets[1]] : m[l] = i
Follows(c, f, m) == /\ c \in Cycles => FollowsCycle(c, f, m)
                    /\ c \in Colours => FollowsColour(c, f, m)
Agree(c, m, w) == \A l \in Lamps(c) : m[l] = w[l]

LEMMA FollowsSame ==
  ASSUME NEW c \in Followed, NEW f, NEW g, g.state = f.state, g.intensity = f.intensity,
         NEW m, NEW w, Agree(c, m, w), Follows(c, f, m)
  PROVE  Follows(c, g, w)
<1>1. c \in Cycles => FollowsCycle(c, g, w)
  BY CircuitsInLamps DEF Follows, FollowsCycle, Agree
<1>2. ASSUME c \in Colours PROVE FollowsColour(c, g, w)
  <2> DEFINE I(h) == {Off} \cup {Colour((h.state + d) % NColours, h.intensity) : d \in {0, NColours - 1}}
  <2>1. PICK i \in I(f) : \A l \in LampsOf[c.handler.targets[1]] : m[l] = i
    BY <1>2 DEF Follows, FollowsColour
  <2>2. i \in I(g)
    BY <2>1
  <2>3. \A l \in LampsOf[c.handler.targets[1]] : w[l] = i
    BY <1>2, <2>1, StripIsLamps DEF Agree
  <2> QED BY <2>2, <2>3 DEF FollowsColour
<1> QED BY <1>1, <1>2 DEF Follows

LEMMA FollowsDark ==
  ASSUME NEW c \in Followed, NEW f, NEW m, \A l \in Lamps(c) : m[l] = Off
  PROVE  Follows(c, f, m)
<1>1. ASSUME c \in Cycles PROVE FollowsCycle(c, f, m)
  <2>1. \A j \in 1..3 : ~(j <= 0)
    OBVIOUS
  <2>2. \A j \in 1..3 : \A l \in LampsOf[c.handler.targets[j]] : m[l] = Off
    BY <1>1, CircuitsInLamps
  <2>3. \A j \in 1..3 : \A l \in LampsOf[c.handler.targets[j]] : m[l] = IF j <= 0 THEN Lit ELSE Off
    BY <2>1, <2>2
  <2> QED BY <2>3 DEF FollowsCycle
<1>2. ASSUME c \in Colours PROVE FollowsColour(c, f, m)
  BY <1>2, StripIsLamps DEF FollowsColour
<1> QED BY <1>1, <1>2 DEF Follows

(* A cycle lights its circuits up to the new state.                        *)
LEMMA SetIs == ASSUME NEW m, NEW sel, NEW v, NEW l \in Lamp
               PROVE  Set(m, sel, v)[l] = IF l \in LampsOf[sel] THEN v ELSE m[l]
BY DEF Set
LEMMA SetAllIs ==
  ASSUME NEW m, NEW sels, NEW v, NEW l \in Lamp
  PROVE  SetAll(m, sels, v)[l] = IF \E sel \in Range(sels) : l \in LampsOf[sel] THEN v ELSE m[l]
BY DEF SetAll

LEMMA CircuitIs ==
  ASSUME NEW m, NEW sels, NEW n, NEW l \in Lamp
  PROVE  LET v(j) == IF j <= n THEN Lit ELSE Off IN
         Circuit(m, sels, n)[l] = IF l \in LampsOf[sels[3]] THEN v(3)
                                  ELSE IF l \in LampsOf[sels[2]] THEN v(2)
                                  ELSE IF l \in LampsOf[sels[1]] THEN v(1) ELSE m[l]
<1> DEFINE v(j) == IF j <= n THEN Lit ELSE Off
           a == Set(m, sels[1], v(1))
           b == Set(a, sels[2], v(2))
           c == Set(b, sels[3], v(3))
<1>1. Circuit(m, sels, n) = c
  BY DEF Circuit
<1> HIDE DEF v
<1>2. a[l] = IF l \in LampsOf[sels[1]] THEN v(1) ELSE m[l]
  BY SetIs
<1> HIDE DEF a
<1>3. b[l] = IF l \in LampsOf[sels[2]] THEN v(2) ELSE a[l]
  BY SetIs
<1> HIDE DEF b
<1>4. c[l] = IF l \in LampsOf[sels[3]] THEN v(3) ELSE b[l]
  BY SetIs
<1> HIDE DEF c
<1>5. Circuit(m, sels, n)[l] = IF l \in LampsOf[sels[3]] THEN v(3)
                                  ELSE IF l \in LampsOf[sels[2]] THEN v(2)
                                  ELSE IF l \in LampsOf[sels[1]] THEN v(1) ELSE m[l]
  BY <1>1, <1>2, <1>3, <1>4
<1> QED BY <1>5 DEF v

LEMMA FollowedLamps == \A c \in Followed : Lamps(c) \subseteq Lamp
BY FollowedAre, LampsAreLamps

LEMMA CircuitLights ==
  ASSUME NEW c \in Cycles, NEW m, NEW n, NEW j \in 1..3, NEW l \in LampsOf[c.handler.targets[j]]
  PROVE  Circuit(m, c.handler.targets, n)[l] = IF j <= n THEN Lit ELSE Off
<1> DEFINE g == c.handler.targets
           v(i) == IF i <= n THEN Lit ELSE Off
<1>1. l \in Lamp
  BY CircuitsInLamps, FollowedLamps DEF Followed
<1>2. \A i \in 1..3 : l \in LampsOf[g[i]] => i = j
  BY CircuitsApart
<1>3. Circuit(m, g, n)[l] = IF l \in LampsOf[g[3]] THEN v(3)
                            ELSE IF l \in LampsOf[g[2]] THEN v(2)
                            ELSE IF l \in LampsOf[g[1]] THEN v(1) ELSE m[l]
  BY <1>1, CircuitIs
<1>4. l \in LampsOf[g[j]]
  OBVIOUS
<1>5. j = 1 \/ j = 2 \/ j = 3
  OBVIOUS
<1>6. 1 \in 1..3 /\ 2 \in 1..3 /\ 3 \in 1..3
  OBVIOUS
<1> HIDE DEF g, v
<1>7. Circuit(m, g, n)[l] = v(j)
  BY <1>2, <1>3, <1>4, <1>5, <1>6
<1> QED BY <1>7 DEF g, v

Pair(f, m) == [closure |-> f, shows |-> m]
LEMMA CycleFollows ==
  ASSUME NEW c \in Cycles, NEW f \in Variables, NEW m, Follows(c, f, m), NEW v,
         NEW y, y = cycle(Pair(f, m), c.handler, v)
  PROVE  Follows(c, y.closure, y.shows)
<1>1. CASE v = 1
  BY <1>1 DEF cycle, Pair
<1>2. CASE v # 1
  <2> DEFINE n == (f.state + 1) % 4
             w == Circuit(m, c.handler.targets, n)
             g == [f EXCEPT !.state = n]
  <2>1. y = [closure |-> g, shows |-> w]
    BY <1>2 DEF cycle, Pair
  <2> HIDE DEF n
  <2>2. g.state = n
    BY DEF Variables
  <2> HIDE DEF g
  <2>3. \A j \in 1..3 : \A l \in LampsOf[c.handler.targets[j]] :
          w[l] = IF j <= n THEN Lit ELSE Off
    BY CircuitLights
  <2> HIDE DEF w
  <2>4. y.closure.state = n /\ y.shows = w
    BY <2>1, <2>2
  <2>5. FollowsCycle(c, y.closure, y.shows)
    BY <2>3, <2>4 DEF FollowsCycle
  <2>6. c \notin Colours
    BY DEF Cycles, Colours
  <2> QED BY <2>5, <2>6 DEF Follows
<1> QED BY <1>1, <1>2

LEMMA toggleAgrees ==
  ASSUME NEW c \in Followed, NEW m PROVE Agree(c, m, toggleLighting(m))
BY KitchenApart, FollowedLamps DEF Agree, toggleLighting

LEMMA cycleLEDsFollows ==
  ASSUME NEW c \in Cycles, NEW f \in Variables, NEW m, Follows(c, f, m), NEW v,
         NEW y, y = cycleLEDs(Pair(f, m), c.handler, v)
  PROVE  Follows(c, y.closure, y.shows)
<1>1. [Pair(f, m) EXCEPT !.shows = toggleLighting(m)] = Pair(f, toggleLighting(m))
      /\ Pair(f, m).shows = m
  BY DEF Pair
<1>2. Follows(c, f, toggleLighting(m))
  BY toggleAgrees, FollowsSame DEF Followed
<1>3. y = cycle(Pair(f, m), c.handler, v) \/ y = cycle(Pair(f, toggleLighting(m)), c.handler, v)
  BY <1>1 DEF cycleLEDs
<1> QED BY <1>2, <1>3, CycleFollows

(* A colour is the one of the state, or of the state before.               *)
LEMMA Remains ==
  ASSUME NEW n \in Nat, n > 0, NEW s \in Nat, s < n
  PROVE  (s + 0) % n = s /\ (((s + 1) % n) + (n - 1)) % n = s
<1>1. s % n = s
  OBVIOUS
<1>2. CASE s + 1 < n
  <2>1. (s + 1) % n = s + 1
    BY <1>2
  <2>2. (s + n) % n = s
    OBVIOUS
  <2> QED BY <1>1, <2>1, <2>2
<1>3. CASE s + 1 = n
  <2>1. n % n = 0
    OBVIOUS
  <2>2. (n - 1) % n = n - 1
    OBVIOUS
  <2> QED BY <1>1, <1>3, <2>1, <2>2
<1> QED BY <1>2, <1>3

LEMMA ColourFollows ==
  ASSUME NEW c \in Colours, NEW f \in Variables, f.state < NColours, NEW m, Follows(c, f, m),
         NEW v, NEW y, y = colorCycle(Pair(f, m), c.handler, v)
  PROVE  Follows(c, y.closure, y.shows)
<1>1. Pair(f, m).closure = f /\ Pair(f, m).shows = m /\ Pair(f, m) = [closure |-> f, shows |-> m]
  BY DEF Pair
<1>2. c \in Followed /\ c \notin Cycles /\ Agree(c, m, m)
  BY DEF Followed, Cycles, Colours, Agree
<1>3. CASE v = 0 /\ f.start # "none"
  BY <1>1, <1>3 DEF colorCycle
<1>4. CASE v = 0 /\ f.start = "none"
  <2> DEFINE g == [f EXCEPT !.start = "armed", !.captured = f.state]
  <2>1. y = [closure |-> g, shows |-> m]
    BY <1>1, <1>4 DEF colorCycle
  <2>2. g.state = f.state /\ g.intensity = f.intensity
    BY DEF Variables
  <2> HIDE DEF g
  <2> QED BY <1>2, <2>1, <2>2, FollowsSame
<1>5. CASE v # 0 /\ f.speed
  <2> DEFINE g == [f EXCEPT !.start = "none", !.speed = FALSE, !.captured = 0]
  <2>1. y = [closure |-> g, shows |-> m]
    BY <1>1, <1>5 DEF colorCycle
  <2>2. g.state = f.state /\ g.intensity = f.intensity
    BY DEF Variables
  <2> HIDE DEF g
  <2> QED BY <1>2, <2>1, <2>2, FollowsSame
<1>6. CASE v # 0 /\ ~f.speed
  <2> DEFINE n == (f.state + 1) % NColours
             g == [f EXCEPT !.start = "none", !.captured = 0, !.state = n]
             i == Colour(f.state, f.intensity)
             w == SetAll(m, c.handler.targets, i)
  <2>1. y = [closure |-> g, shows |-> w]
    BY <1>1, <1>6 DEF colorCycle
  <2>2. (n + (NColours - 1)) % NColours = f.state
    BY Bounds, Remains DEF Variables
  <2> HIDE DEF n
  <2>3. g.state = n /\ g.intensity = f.intensity
    BY DEF Variables
  <2> HIDE DEF g
  <2>4. i \in {Colour((g.state + d) % NColours, g.intensity) : d \in {0, NColours - 1}}
    BY <2>2, <2>3
  <2> HIDE DEF i
  <2>5. \A l \in Lamps(c) : w[l] = i
    BY <1>2, FollowedLamps, SetAllIs DEF Lamps
  <2> HIDE DEF w
  <2>6. FollowsColour(c, g, w)
    BY <2>4, <2>5, StripIsLamps DEF FollowsColour
  <2> QED BY <1>2, <2>1, <2>6 DEF Follows
<1> QED BY <1>3, <1>4, <1>5, <1>6

LEMMA OwnCall ==
  ASSUME NEW c \in Followed, NEW f, Within(c, f), NEW m, Follows(c, f, m), NEW v,
         NEW y, y = Call(Pair(f, m), c.handler, v)
  PROVE  Follows(c, y.closure, y.shows)
<1>1. CASE c.handler.kind = "cycle"
  BY <1>1, CallIs, CycleFollows DEF Followed, Cycles, Colours, Within
<1>2. CASE c.handler.kind = "cycleLEDs"
  BY <1>2, CallIs, cycleLEDsFollows DEF Followed, Cycles, Colours, Within
<1>3. CASE c.handler.kind = "colorCycle"
  BY <1>3, CallIs, ColourFollows DEF Followed, Cycles, Colours, Within
<1> QED BY <1>1, <1>2, <1>3, FollowedAre

(* The other handlers leave its lamps alone.                               *)
Foreign(c, d) == /\ d \in Closures /\ d.handler.kind # "allDown"
                 /\ \A l \in Lamps(c) : \A sel \in Range(d.handler.targets) : l \notin LampsOf[sel]
LEMMA NoRival ==
  ASSUME NEW c \in Followed, Rivals(c) = {}, NEW d \in Closures, d # c,
         d.handler.kind # "allDown"
  PROVE  Foreign(c, d)
BY DEF Foreign, Rivals, Lamps

LEMMA LevelTargets ==
  ASSUME NEW d \in Closures, d.handler.kind = "level"
  PROVE  d.handler.targets[1] \in Range(d.handler.targets)
<1>1. \A key, i : levelOf(key, i).targets = << << K(i), T({"out1"}) >> >>
  BY DEF levelOf, Handler
<1>2. \E key, i : d.handler = levelOf(key, i)
  <2>1. PICK w \in Wires[d.service] : w.handler = d.handler /\ d.service \in Service
    BY ClosuresAre
  <2>2. d.handler \in officeHandlers \/ d.handler \in livingHandlers \/ d.handler \in roomHandlers
    BY <2>1, WiresHaveHandlers
  <2>3. d.handler \notin officeHandlers /\ d.handler \notin roomHandlers
    BY HandlerKinds DEF officeHandlers, roomHandlers
  <2>4. d.handler = levelOf("livingPWM", "interface-living")
        \/ d.handler = levelOf("diningPWM", "interface-dining")
    BY <2>2, <2>3, HandlerKinds DEF livingHandlers
  <2> QED BY <2>4
<1>3. \A key, i : levelOf(key, i).targets[1] \in Range(levelOf(key, i).targets)
  BY <1>1, StripRange
<1> QED BY <1>2, <1>3

LEMMA SetAgrees ==
  ASSUME NEW c \in Followed, NEW d, Foreign(c, d), NEW sel \in Range(d.handler.targets),
         NEW m, NEW v
  PROVE  Agree(c, m, Set(m, sel, v))
BY FollowedLamps, SetIs DEF Agree, Foreign
LEMMA AgreeTwice ==
  ASSUME NEW c, NEW m, NEW w, NEW z, Agree(c, m, w), Agree(c, w, z) PROVE Agree(c, m, z)
BY DEF Agree
LEMMA CircuitAgrees ==
  ASSUME NEW c \in Followed, NEW d \in Cycles, Foreign(c, d), NEW m, NEW n
  PROVE  Agree(c, m, Circuit(m, d.handler.targets, n))
<1> SUFFICES ASSUME NEW l \in Lamps(c) PROVE m[l] = Circuit(m, d.handler.targets, n)[l]
  BY DEF Agree
<1>1. \A j \in 1..3 : l \notin LampsOf[d.handler.targets[j]]
  BY CircuitsAre DEF Foreign
<1>2. 1 \in 1..3 /\ 2 \in 1..3 /\ 3 \in 1..3
  OBVIOUS
<1> QED BY <1>1, <1>2, FollowedLamps, CircuitIs

LEMMA Untouched ==
  ASSUME NEW c \in Followed, NEW d, Foreign(c, d), NEW f, NEW m, NEW v,
         NEW y, y = Call(Pair(f, m), d.handler, v)
  PROVE  Agree(c, m, y.shows)
<1>1. d \in Closures /\ d.handler.kind \in Kinds \ {"allDown"}
  BY ClosureKinds DEF Foreign
<1>2. Pair(f, m).closure = f /\ Pair(f, m).shows = m /\ Agree(c, m, m)
  BY DEF Pair, Agree
<1>3. ASSUME d \in Cycles, NEW w, NEW z, z = cycle(Pair(f, w), d.handler, v) PROVE Agree(c, w, z.shows)
  <2>1. CASE v = 1
    BY <1>3, <2>1 DEF cycle, Agree, Pair
  <2>2. CASE v # 1
    <3>1. z.shows = Circuit(w, d.handler.targets, (f.state + 1) % 4)
      BY <1>3, <2>2 DEF cycle, Pair
    <3> QED BY <1>3, <3>1, CircuitAgrees
  <2> QED BY <2>1, <2>2
<1>4. CASE d.handler.kind = "cycle"
  BY <1>1, <1>3, <1>4, CallIs DEF Cycles
<1>5. CASE d.handler.kind = "cycleLEDs"
  <2>1. [Pair(f, m) EXCEPT !.shows = toggleLighting(m)] = Pair(f, toggleLighting(m))
    BY DEF Pair
  <2>2. y = cycleLEDs(Pair(f, m), d.handler, v)
    BY <1>5, CallIs
  <2>3. y = cycle(Pair(f, m), d.handler, v) \/ y = cycle(Pair(f, toggleLighting(m)), d.handler, v)
    BY <1>2, <2>1, <2>2 DEF cycleLEDs
  <2>4. d \in Cycles
    BY <1>1, <1>5 DEF Cycles
  <2> QED BY <1>3, <2>3, <2>4, toggleAgrees, AgreeTwice
<1>6. CASE d.handler.kind = "colorCycle"
  <2>1. y = colorCycle(Pair(f, m), d.handler, v)
    BY <1>6, CallIs
  <2>2. y.shows = m \/ y.shows = SetAll(m, d.handler.targets, Colour(f.state, f.intensity))
    BY <1>2, <2>1 DEF colorCycle, Pair
  <2>3. Agree(c, m, SetAll(m, d.handler.targets, Colour(f.state, f.intensity)))
    BY FollowedLamps, SetAllIs DEF Foreign, Agree
  <2> QED BY <1>2, <2>2, <2>3
<1>7. CASE d.handler.kind = "level"
  <2>1. y = level(Pair(f, m), d.handler, v)
    BY <1>7, CallIs
  <2>2. y.shows = m \/ \E w : y.shows = Set(m, d.handler.targets[1], w)
    BY <1>2, <2>1 DEF level, Pair
  <2> QED BY <1>1, <1>2, <1>7, <2>2, LevelTargets, SetAgrees
<1> QED BY <1>1, <1>4, <1>5, <1>6, <1>7 DEF Kinds

-----------------------------------------------------------------------------
(* The steps.                                                              *)

(* Only colorCycle sets timers.                                            *)
Idle(c, f) == c \notin Colours => f.start = "none" /\ ~f.speed
LEMMA CallIdle ==
  ASSUME NEW c \in Closures, NEW f \in Variables, Idle(c, f), NEW m, NEW v,
         NEW y, y = Call(Pair(f, m), c.handler, v)
  PROVE  Idle(c, y.closure)
<1> SUFFICES ASSUME c \notin Colours PROVE y.closure.start = "none" /\ ~y.closure.speed
  BY DEF Idle
<1>1. c.handler.kind \in Kinds \ {"colorCycle"}
  BY ClosureKinds DEF Colours
<1>2. f.start = "none" /\ ~f.speed /\ Pair(f, m).closure = f
  BY DEF Idle, Pair
<1> DEFINE Still(g) == g.start = "none" /\ ~g.speed
<1>3. \A n : Still([f EXCEPT !.state = n])
  BY <1>2 DEF Variables
<1>4. \A w : Still(cycle(Pair(f, w), c.handler, v).closure)
  <2> SUFFICES ASSUME NEW w PROVE Still(cycle(Pair(f, w), c.handler, v).closure)
    OBVIOUS
  <2>1. CASE v = 1
    BY <1>2, <2>1 DEF cycle, Pair
  <2>2. CASE v # 1
    <3> DEFINE n == (f.state + 1) % 4
    <3>1. cycle(Pair(f, w), c.handler, v).closure = [f EXCEPT !.state = n]
      BY <2>2 DEF cycle, Pair
    <3> HIDE DEF n, Still
    <3> QED BY <1>3, <3>1
  <2> QED BY <2>1, <2>2
<1>5. CASE c.handler.kind = "cycle"
  <2>1. y = cycle(Pair(f, m), c.handler, v)
    BY <1>5, CallIs
  <2> QED BY <1>4, <2>1
<1>6. CASE c.handler.kind = "cycleLEDs"
  <2>1. [Pair(f, m) EXCEPT !.shows = toggleLighting(m)] = Pair(f, toggleLighting(m))
        /\ Pair(f, m).shows = m
    BY DEF Pair
  <2>2. y = cycleLEDs(Pair(f, m), c.handler, v)
    BY <1>6, CallIs
  <2>3. \E w : y = cycle(Pair(f, w), c.handler, v)
    BY <2>1, <2>2 DEF cycleLEDs
  <2> HIDE DEF Still
  <2>4. Still(y.closure)
    BY <1>4, <2>3
  <2> QED BY <2>4 DEF Still
<1>7. CASE c.handler.kind = "level"
  <2>1. y = level(Pair(f, m), c.handler, v)
    BY <1>7, CallIs
  <2>2. CASE v = 1
    BY <1>2, <2>1, <2>2 DEF level
  <2>3. CASE v # 1
    <3> DEFINE n == (f.state + 1) % NLevels
    <3>1. y.closure = [f EXCEPT !.state = n]
      BY <2>1, <2>3 DEF level, Pair
    <3> HIDE DEF n, Still
    <3>2. Still(y.closure)
      BY <1>3, <3>1
    <3> QED BY <3>2 DEF Still
  <2> QED BY <2>2, <2>3
<1>8. CASE c.handler.kind = "allDown"
  <2>1. y.closure = f
    BY <1>8, CallIs DEF allDown, Pair
  <2> QED BY <1>2, <2>1
<1> QED BY <1>1, <1>5, <1>6, <1>7, <1>8 DEF Kinds

(* The lamps of the handlers of a set follow them.                         *)
Lonely == {c \in Followed : Rivals(c) = {}}
Following(S, x) ==
  /\ Sound(x)
  /\ \A c \in Closures : Idle(c, x.closure[c])
  /\ \A c \in S : Follows(c, x.closure[c], x.shows)

Dark(c, m) == \A l \in Lamps(c) : m[l] = Off
LEMMA AllDownIs ==
  ASSUME NEW c \in Followed, NEW d \in Closures, d.handler.kind = "allDown", NEW f, NEW m, NEW v,
         NEW y, y = Call(Pair(f, m), d.handler, v)
  PROVE  Dark(c, y.shows) \/ y.shows = m
<1>1. y = allDown(Pair(f, m), d.handler, v)
  BY CallIs
<1>2. y.shows = m \/ y.shows = SetAll(m, d.handler.targets, Off)
  BY <1>1 DEF allDown, Pair
<1>3. \A l \in Lamps(c) : SetAll(m, d.handler.targets, Off)[l] = Off
  BY AllDownCovers, FollowedLamps, SetAllIs
<1> QED BY <1>2, <1>3 DEF Dark

LEMMA HandedFollows ==
  ASSUME NEW S \in SUBSET Lonely, NEW x, Following(S, x), NEW k \in Key, NEW v \in {0, 1}
  PROVE  Following(S, Handed(x, k, v))
<1> DEFINE call(c) == Call(Pair(x.closure[c], x.shows), c.handler, v)
           y == [c \in HandlersOf[k] |-> call(c)]
           by(l) == {c \in HandlersOf[k] : y[c].shows[l] # x.shows[l]}
           to == [x.told EXCEPT ![k] = v]
           cl == [c \in Closures |-> IF c \in HandlersOf[k] THEN y[c].closure ELSE x.closure[c]]
           sh == [l \in Lamp |-> IF by(l) = {} THEN x.shows[l]
                                 ELSE y[CHOOSE c \in by(l) : TRUE].shows[l]]
<1>1. Handed(x, k, v) = [told |-> to, closure |-> cl, shows |-> sh]
  BY HandedIs DEF HandedAs, Joined, Called, Pair
<1>2. Sound(Handed(x, k, v))
  BY HandedSound DEF Following
<1>3. \A c \in HandlersOf[k] : c \in Closures /\ y[c] = call(c)
  BY HandlersAre
<1>4. \A c \in Closures : x.closure[c] \in Variables /\ Within(c, x.closure[c]) /\ Idle(c, x.closure[c])
  BY DEF Following, Sound
<1> HIDE DEF y
<1>5. \A c \in Closures : Idle(c, cl[c])
  BY <1>3, <1>4, CallIdle
<1>6. ASSUME NEW c \in S PROVE Follows(c, cl[c], sh)
  <2>1. /\ c \in Followed /\ c \in Closures /\ Rivals(c) = {} /\ Lamps(c) \subseteq Lamp
        /\ Follows(c, x.closure[c], x.shows)
    BY FollowedAre, FollowedLamps DEF Lonely, Following
  <2>2. ASSUME NEW d \in HandlersOf[k], d # c, d.handler.kind # "allDown"
        PROVE  \A l \in Lamps(c) : y[d].shows[l] = x.shows[l]
    <3>1. Foreign(c, d)
      BY <1>3, <2>1, <2>2, NoRival
    <3>2. Agree(c, x.shows, y[d].shows)
      BY <1>3, <2>1, <3>1, Untouched
    <3> QED BY <3>2 DEF Agree
  <2>3. CASE c \in HandlersOf[k]
    <3>1. c.handler.kind # "allDown"
      BY <2>1, FollowedAre
    <3>2. ASSUME NEW d \in HandlersOf[k], d # c PROVE d.handler.kind # "allDown"
      BY <2>3, <3>2, AllDownAlone
    <3>3. \A l \in Lamps(c) : \A d \in by(l) : d = c
      BY <2>2, <3>2
    <3>4. \A l \in Lamps(c) : sh[l] = y[c].shows[l]
      <4> SUFFICES ASSUME NEW l \in Lamps(c) PROVE sh[l] = y[c].shows[l]
        OBVIOUS
      <4>1. CASE by(l) = {}
        <5>1. y[c].shows[l] = x.shows[l]
          BY <2>3, <4>1
        <5> QED BY <2>1, <4>1, <5>1
      <4>2. CASE by(l) # {}
        <5>1. (CHOOSE d \in by(l) : TRUE) \in by(l)
          BY <4>2
        <5>2. (CHOOSE d \in by(l) : TRUE) = c
          BY <3>3, <5>1
        <5> HIDE DEF by
        <5> QED BY <2>1, <4>2, <5>2
      <4> QED BY <4>1, <4>2
    <3>5. Follows(c, y[c].closure, y[c].shows)
      BY <1>3, <1>4, <2>1, <2>3, OwnCall
    <3>6. cl[c] = y[c].closure
      BY <2>1, <2>3
    <3> HIDE DEF cl, sh
    <3>7. Agree(c, y[c].shows, sh)
      BY <3>4 DEF Agree
    <3> QED BY <2>1, <3>5, <3>6, <3>7, FollowsSame
  <2>4. CASE c \notin HandlersOf[k]
    <3>1. cl[c] = x.closure[c]
      BY <2>1, <2>4
    <3>2. CASE \E d \in HandlersOf[k] : d.handler.kind = "allDown"
      <4>1. PICK d \in HandlersOf[k] : d.handler.kind = "allDown"
        BY <3>2
      <4>2. HandlersOf[k] = {d}
        BY <4>1, AllDownAlone
      <4>3. \A l \in Lamp : sh[l] = y[d].shows[l]
        <5> SUFFICES ASSUME NEW l \in Lamp PROVE sh[l] = y[d].shows[l]
          OBVIOUS
        <5>1. CASE by(l) = {}
          BY <5>1
        <5>2. CASE by(l) # {}
          <6>1. (CHOOSE e \in by(l) : TRUE) \in by(l)
            BY <5>2
          <6>2. (CHOOSE e \in by(l) : TRUE) = d
            BY <4>2, <6>1
          <6> HIDE DEF by
          <6> QED BY <5>2, <6>2
        <5> QED BY <5>1, <5>2
      <4>4. (\A l \in Lamps(c) : y[d].shows[l] = Off) \/ y[d].shows = x.shows
        <5> DEFINE z == y[d]
        <5>1. d \in Closures /\ z = Call(Pair(x.closure[d], x.shows), d.handler, v)
          BY <1>3
        <5> HIDE DEF z
        <5>2. Dark(c, z.shows) \/ z.shows = x.shows
          BY <2>1, <4>1, <5>1, AllDownIs
        <5> QED BY <5>2 DEF z, Dark
      <4> HIDE DEF cl, sh
      <4>5. CASE \A l \in Lamps(c) : y[d].shows[l] = Off
        BY <2>1, <4>3, <4>5, FollowsDark
      <4>6. CASE y[d].shows = x.shows
        <5>1. Agree(c, x.shows, sh)
          BY <2>1, <4>3, <4>6 DEF Agree
        <5> QED BY <2>1, <3>1, <5>1, FollowsSame
      <4> QED BY <4>4, <4>5, <4>6
    <3>3. CASE \A d \in HandlersOf[k] : d.handler.kind # "allDown"
      <4>1. \A l \in Lamps(c) : by(l) = {}
        BY <2>2, <2>4, <3>3
      <4>2. \A l \in Lamps(c) : sh[l] = x.shows[l]
        BY <2>1, <4>1
      <4> HIDE DEF cl, sh
      <4>3. Agree(c, x.shows, sh)
        BY <4>2 DEF Agree
      <4> QED BY <2>1, <3>1, <4>3, FollowsSame
    <3> QED BY <3>2, <3>3
  <2> QED BY <2>3, <2>4
<1> HIDE DEF to, cl, sh
<1> QED BY <1>1, <1>2, <1>5, <1>6 DEF Following

LEMMA TriggeredFollows ==
  ASSUME NEW S \in SUBSET Lonely, NEW x, Following(S, x), NEW k, NEW r
  PROVE  Following(S, Triggered(x, k, r))
BY HandedFollows DEF Triggered, callback

LEMMA DispatchFollows ==
  ASSUME NEW S \in SUBSET Lonely, NEW n, NEW r, Following(S, Now), Dispatch(n, r)
  PROVE  \A c \in Closures : Idle(c, closure'[c])
         /\ (c \in S => Follows(c, closure'[c], shows'))
<1> DEFINE a == Triggered(Now, <<n, KeyName[1]>>, r)
           b == Triggered(a, <<n, KeyName[2]>>, r)
           c == Triggered(b, <<n, KeyName[3]>>, r)
           d == Triggered(c, <<n, KeyName[4]>>, r)
<1>0. closure' = d.closure /\ shows' = d.shows
  BY DispatchIs DEF After
<1>1. Following(S, a)
  BY TriggeredFollows
<1> HIDE DEF a
<1>2. Following(S, b)
  BY <1>1, TriggeredFollows
<1> HIDE DEF b
<1>3. Following(S, c)
  BY <1>2, TriggeredFollows
<1> HIDE DEF c
<1>4. Following(S, d)
  BY <1>3, TriggeredFollows
<1> HIDE DEF d
<1> QED BY <1>0, <1>4 DEF Following

-----------------------------------------------------------------------------
(* The handlers LampsFollow is about, in a state.                          *)
Covered == {c \in Lonely : /\ Resettable(c) \/ reloads = 0
                           /\ c \in Colours => ~orphan[c].speed}
FollowInv ==
  /\ HouseInv
  /\ \A c \in Closures : Idle(c, closure[c]) /\ Idle(c, orphan[c])
  /\ \A c \in Covered : Follows(c, closure[c], shows)

LEMMA FollowImplies == FollowInv => LampsFollow
<1> SUFFICES ASSUME FollowInv, NEW c \in Cycles \cup Colours, Rivals(c) = {},
                    Resettable(c) \/ reloads = 0
             PROVE  /\ c \in Cycles => FollowsCycle(c, closure[c], shows)
                    /\ c \in Colours /\ ~orphan[c].speed => FollowsColour(c, closure[c], shows)
  BY DEF LampsFollow, FollowsCycle, FollowsColour
<1>1. c \in Cycles => c \notin Colours
  BY DEF Cycles, Colours
<1>2. c \in Cycles \/ ~orphan[c].speed => c \in Covered
  BY <1>1 DEF Covered, Lonely, Followed
<1> QED BY <1>2 DEF FollowInv, Follows

LEMMA FollowInit == Init => FollowInv
<1> SUFFICES ASSUME Init PROVE FollowInv
  OBVIOUS
<1>1. HouseInv
  BY HouseInit
<1>2. \A c \in Closures : closure[c] = Fresh /\ orphan[c] = Fresh
  BY DEF Init
<1>3. \A c \in Closures : Idle(c, Fresh)
  BY DEF Fresh, Idle
<1>4. \A l \in Lamp : shows[l] = Off
  BY DEF Init
<1>5. \A c \in Followed : Follows(c, closure[c], shows)
  BY <1>4, FollowedLamps, FollowsDark
<1> QED BY <1>1, <1>2, <1>3, <1>5 DEF FollowInv, Covered, Lonely

LEMMA NowFollows == FollowInv => Following(Covered, Now) /\ Covered \in SUBSET Lonely
BY DEF FollowInv, Following, HouseInv, Covered, Now

LEMMA StutterFollows ==
  ASSUME FollowInv, UNCHANGED <<closure, orphan, shows, reloads>>
  PROVE  /\ \A c \in Closures : Idle(c, closure'[c]) /\ Idle(c, orphan'[c])
         /\ \A c \in Covered' : Follows(c, closure'[c], shows')
BY DEF FollowInv, Covered

LEMMA DeliverFollows ==
  ASSUME FollowInv, NEW n \in Walls, Deliver(n) \/ DeliverTwice(n)
  PROVE  /\ \A c \in Closures : Idle(c, closure'[c]) /\ Idle(c, orphan'[c])
         /\ \A c \in Covered' : Follows(c, closure'[c], shows')
<1>1. Dispatch(n, Head(net[n])) /\ UNCHANGED <<orphan, reloads>>
  BY DEF Deliver, DeliverTwice
<1>2. Covered' = Covered
  BY <1>1 DEF Covered
<1> DEFINE S == Covered
<1>3. S \in SUBSET Lonely /\ Following(S, Now)
  BY NowFollows
<1> HIDE DEF S
<1>4. \A c \in Closures : Idle(c, closure'[c]) /\ (c \in S => Follows(c, closure'[c], shows'))
  BY <1>1, <1>3, DispatchFollows
<1>5. S \subseteq Closures
  BY <1>3, FollowedAre DEF Lonely
<1>6. \A c \in Closures : Idle(c, orphan'[c])
  BY <1>1 DEF FollowInv
<1> QED BY <1>2, <1>4, <1>5, <1>6 DEF S

(* The timer of a handler, its own or one left behind, changes no state of *)
(* it, and the gradient shows the colour of the state.                     *)
LEMMA TimerFollows ==
  ASSUME FollowInv, NEW e \in Closures, Timer(e)
  PROVE  /\ \A c \in Closures : Idle(c, closure'[c]) /\ Idle(c, orphan'[c])
         /\ \A c \in Covered' : Follows(c, closure'[c], shows')
<1>1. /\ closure \in [Closures -> Variables] /\ orphan \in [Closures -> Variables]
      /\ \A c \in Closures : Idle(c, closure[c]) /\ Idle(c, orphan[c])
      /\ UNCHANGED <<shows, reloads>>
  BY DEF FollowInv, HouseInv, Others, Sound, Now, Timer
<1>2. CASE closure[e].start = "armed" /\ closure' = [closure EXCEPT ![e] = StartFires(@)]
           /\ UNCHANGED orphan
  <2>1. \A c \in Closures : closure'[c].state = closure[c].state
                            /\ closure'[c].intensity = closure[c].intensity
    BY <1>1, <1>2, StartFiresKeeps
  <2>2. e \in Colours
    BY <1>1, <1>2 DEF Idle
  <2>3. \A c \in Closures : Idle(c, closure'[c])
    BY <1>1, <1>2, <2>2 DEF Idle
  <2>4. Covered' = Covered
    BY <1>1, <1>2 DEF Covered
  <2>5. ASSUME NEW c \in Covered PROVE Follows(c, closure'[c], shows)
    <3>1. c \in Followed /\ Follows(c, closure[c], shows) /\ Agree(c, shows, shows)
      BY DEF Covered, Lonely, FollowInv, Agree
    <3> QED BY <2>1, <3>1, FollowedAre, FollowsSame
  <2> QED BY <1>1, <1>2, <2>3, <2>4, <2>5
<1>3. CASE orphan[e].start = "armed" /\ orphan' = [orphan EXCEPT ![e] = StartFires(@)]
           /\ UNCHANGED closure
  <2>1. e \in Colours
    BY <1>1, <1>3 DEF Idle
  <2>2. \A c \in Closures : Idle(c, orphan'[c])
    BY <1>1, <1>3, <2>1 DEF Idle
  <2>3. ASSUME NEW c \in Covered' PROVE c \in Covered
    <3>1. c \in Closures
      BY FollowedAre DEF Covered, Lonely
    <3>2. ASSUME c \in Colours PROVE ~orphan[c].speed
      <4>1. ~orphan'[c].speed
        BY <3>2 DEF Covered
      <4>2. StartFires(orphan[e]).speed
        BY <1>1 DEF StartFires, Variables
      <4>3. c # e
        BY <1>1, <1>3, <4>1, <4>2
      <4> QED BY <1>1, <1>3, <3>1, <4>1, <4>3
    <3> QED BY <1>1, <3>2 DEF Covered
  <2> QED BY <1>1, <1>3, <2>2, <2>3 DEF FollowInv
<1> QED BY <1>2, <1>3 DEF Timer

LEMMA ForeignGradient ==
  ASSUME NEW c \in Lonely, NEW e \in Colours, e # c, NEW m, NEW v
  PROVE  Agree(c, m, SetAll(m, e.handler.targets, v))
<1>1. c \in Followed /\ Rivals(c) = {} /\ e \in Closures /\ e.handler.kind # "allDown"
  BY DEF Lonely, Colours
<1>2. Foreign(c, e)
  BY <1>1, NoRival
<1> QED BY <1>1, <1>2, FollowedLamps, SetAllIs DEF Agree, Foreign

LEMMA GradientFollows ==
  ASSUME FollowInv, NEW e \in Closures, Gradient(e)
  PROVE  /\ \A c \in Closures : Idle(c, closure'[c]) /\ Idle(c, orphan'[c])
         /\ \A c \in Covered' : Follows(c, closure'[c], shows')
<1>1. /\ closure \in [Closures -> Variables] /\ orphan \in [Closures -> Variables]
      /\ \A c \in Closures : Idle(c, closure[c]) /\ Idle(c, orphan[c])
      /\ UNCHANGED reloads
  BY DEF FollowInv, HouseInv, Others, Sound, Now, Gradient
<1>2. CASE /\ closure[e].speed
           /\ closure' = [closure EXCEPT ![e] = Step(@)]
           /\ shows' = SetAll(shows, e.handler.targets,
                              Colour(closure[e].captured, closure'[e].intensity))
           /\ UNCHANGED orphan
  <2> DEFINE f == Step(closure[e])
             i == Colour(closure[e].captured, f.intensity)
  <2>1. e \in Colours
    BY <1>1, <1>2 DEF Idle
  <2>2. \A c \in Closures : Idle(c, closure'[c])
    BY <1>1, <1>2, <2>1 DEF Idle
  <2>3. Covered' = Covered
    BY <1>1, <1>2 DEF Covered
  <2>4. closure'[e] = f /\ shows' = SetAll(shows, e.handler.targets, i)
    BY <1>1, <1>2
  <2>5. f.state = closure[e].state /\ closure[e].captured = closure[e].state
        /\ closure[e].state \in Nat /\ closure[e].state < NColours
    <3>1. Within(e, closure[e]) /\ HeldBy(e, told, closure[e]) /\ Holding(closure[e])
      BY <1>2, <2>1 DEF FollowInv, HouseInv, Sound, Now, Holding
    <3> QED BY <1>1, <2>1, <3>1, StepKeeps DEF Within, HeldBy, Colours, Variables
  <2>6. i = Colour((f.state + 0) % NColours, f.intensity)
    BY <2>5, Bounds, Remains
  <2> HIDE DEF f, i
  <2>7. ASSUME NEW c \in Covered PROVE Follows(c, closure'[c], shows')
    <3>1. c \in Followed /\ c \in Lonely /\ c \in Closures /\ Follows(c, closure[c], shows)
      BY FollowedAre DEF Covered, Lonely, FollowInv
    <3>2. CASE c = e
      <4>1. \A l \in Lamps(c) : shows'[l] = i
        BY <2>4, <3>1, <3>2, FollowedLamps, SetAllIs DEF Lamps
      <4>2. FollowsColour(c, f, shows')
        BY <2>1, <2>6, <3>2, <4>1, StripIsLamps DEF FollowsColour
      <4>3. c \notin Cycles
        BY <2>1, <3>2 DEF Cycles, Colours
      <4> QED BY <2>4, <3>2, <4>2, <4>3 DEF Follows
    <3>3. CASE c # e
      <4>1. closure'[c] = closure[c]
        BY <1>1, <1>2, <3>1, <3>3
      <4>2. Agree(c, shows, shows')
        BY <2>1, <2>4, <3>1, <3>3, ForeignGradient
      <4> QED BY <3>1, <4>1, <4>2, FollowsSame
    <3> QED BY <3>2, <3>3
  <2> QED BY <1>1, <1>2, <2>2, <2>3, <2>7
<1>3. CASE /\ orphan[e].speed
           /\ orphan' = [orphan EXCEPT ![e] = Step(@)]
           /\ shows' = SetAll(shows, e.handler.targets,
                              Colour(orphan[e].captured, orphan'[e].intensity))
           /\ UNCHANGED closure
  <2>1. e \in Colours
    BY <1>1, <1>3 DEF Idle
  <2>2. \A c \in Closures : Idle(c, orphan'[c])
    BY <1>1, <1>3, <2>1 DEF Idle
  <2>3. orphan'[e].speed /\ \A c \in Closures : c # e => orphan'[c] = orphan[c]
    BY <1>1, <1>3, StepKeeps
  <2>4. ASSUME NEW c \in Covered' PROVE c \in Covered /\ c # e /\ c \in Lonely /\ c \in Followed
    <3>1. c \in Closures /\ c \in Lonely /\ c \in Followed
      BY FollowedAre DEF Covered, Lonely
    <3>2. c # e
      BY <2>1, <2>3 DEF Covered
    <3> QED BY <1>1, <2>3, <3>1, <3>2 DEF Covered
  <2>5. ASSUME NEW c \in Covered' PROVE Follows(c, closure'[c], shows')
    <3>1. Agree(c, shows, shows')
      BY <1>3, <2>1, <2>4, ForeignGradient
    <3>2. Follows(c, closure[c], shows)
      BY <2>4 DEF FollowInv
    <3> QED BY <1>3, <2>4, <3>1, <3>2, FollowsSame
  <2> QED BY <1>1, <1>3, <2>2, <2>5
<1> QED BY <1>2, <1>3 DEF Gradient

(* A reload makes its own handlers anew, and turns their lamps off, unless *)
(* they are not covered any more; the lamps of another handler are turned  *)
(* off together, or not at all.                                            *)
LEMMA ReloadFollows ==
  ASSUME FollowInv, NEW e \in Closures, reloadService(e.service)
  PROVE  /\ \A c \in Closures : Idle(c, closure'[c]) /\ Idle(c, orphan'[c])
         /\ \A c \in Covered' : Follows(c, closure'[c], shows')
<1> DEFINE s == e.service
           mine == {c \in Closures : c.service = s}
<1>1. /\ reloads' = reloads + 1 /\ reloads \in Nat
      /\ closure' = [c \in Closures |-> IF c \in mine THEN Fresh ELSE closure[c]]
      /\ orphan' = [c \in Closures |->
                     IF c \in mine /\ (closure[c].start = "armed" \/ closure[c].speed)
                     THEN [closure[c] EXCEPT !.state = 0] ELSE orphan[c]]
      /\ shows' = SetAll(shows, Resets[s], Off)
  BY UsedAre DEF reloadService, FollowInv, HouseInv, Others
<1>2. /\ closure \in [Closures -> Variables] /\ orphan \in [Closures -> Variables]
      /\ \A c \in Closures : Idle(c, closure[c]) /\ Idle(c, orphan[c])
  BY DEF FollowInv, HouseInv, Others, Sound, Now
<1>3. \A c \in Closures : Idle(c, closure'[c])
  BY <1>1, <1>2 DEF Idle, Fresh
<1>4. ASSUME NEW c \in Closures PROVE Idle(c, orphan'[c])
  <2>1. CASE c \in mine /\ (closure[c].start = "armed" \/ closure[c].speed)
    <3>1. c \in Colours
      BY <1>2, <2>1 DEF Idle
    <3> QED BY <3>1 DEF Idle
  <2>2. CASE ~(c \in mine /\ (closure[c].start = "armed" \/ closure[c].speed))
    <3>1. orphan'[c] = orphan[c]
      BY <1>1, <2>2
    <3> QED BY <1>2, <3>1
  <2> QED BY <2>1, <2>2
<1>5. \A l \in Lamp : shows'[l] = IF IsReset(s, l) THEN Off ELSE shows[l]
  BY <1>1, SetAllIs DEF IsReset
<1>6. reloads' # 0
  BY <1>1
<1>7. ASSUME NEW c \in Covered' PROVE Follows(c, closure'[c], shows')
  <2>1. c \in Followed /\ c \in Closures /\ c \in Lonely /\ Resettable(c) /\ Lamps(c) \subseteq Lamp
    BY <1>6, FollowedAre, FollowedLamps DEF Covered, Lonely
  <2>2. CASE \A l \in Lamps(c) : IsReset(s, l)
    <3>1. \A l \in Lamps(c) : shows'[l] = Off
      BY <1>5, <2>1, <2>2
    <3> QED BY <2>1, <3>1, FollowsDark
  <2>3. CASE ~\A l \in Lamps(c) : IsReset(s, l)
    <3>1. \A l \in Lamps(c) : ~IsReset(s, l)
      BY <2>1, <2>3, ResetsWhole
    <3>2. c \notin mine
      <4>1. ASSUME c.service = s PROVE \A l \in Lamps(c) : IsReset(s, l)
        BY <2>1, <4>1 DEF Resettable, Lamps, IsReset
      <4> QED BY <2>3, <4>1
    <3>3. closure'[c] = closure[c] /\ orphan'[c] = orphan[c]
      BY <1>1, <2>1, <3>2
    <3>4. c \in Covered
      BY <2>1, <3>3 DEF Covered
    <3>5. Agree(c, shows, shows')
      BY <1>5, <2>1, <3>1 DEF Agree
    <3> QED BY <2>1, <3>3, <3>4, <3>5, FollowsSame DEF FollowInv
  <2> QED BY <2>2, <2>3
<1> QED BY <1>3, <1>4, <1>7

LEMMA FollowStep == FollowInv /\ [Next]_vars => FollowInv'
<1> SUFFICES ASSUME FollowInv, [Next]_vars PROVE FollowInv'
  OBVIOUS
<1>1. HouseInv'
  BY HouseStep DEF FollowInv
<1>2. SUFFICES /\ \A c \in Closures : Idle(c, closure'[c]) /\ Idle(c, orphan'[c])
               /\ \A c \in Covered' : Follows(c, closure'[c], shows')
  BY <1>1 DEF FollowInv
<1>3. CASE \E n \in Walls : Sample(n)
  BY <1>3, StutterFollows DEF Sample
<1>4. CASE \E n \in Walls : Deliver(n) \/ DeliverTwice(n)
  BY <1>4, DeliverFollows
<1>5. CASE \E n \in Walls : Lose(n)
  BY <1>5, StutterFollows DEF Lose
<1>6. CASE \E c \in Closures : Timer(c)
  BY <1>6, TimerFollows
<1>7. CASE \E c \in Closures : Gradient(c)
  BY <1>7, GradientFollows
<1>8. CASE \E s \in {c.service : c \in Closures} : reloadService(s)
  BY <1>8, ReloadFollows
<1>9. CASE UNCHANGED vars
  BY <1>9, StutterFollows DEF vars
<1> QED BY <1>3, <1>4, <1>5, <1>6, <1>7, <1>8, <1>9 DEF Next

(* The lamps and the closures agree: no press, release, loss, repetition,  *)
(* timer, other handler, allDown or reload leaves a cycle half lit, or a   *)
(* strip in a colour that is not its handler's.                            *)
THEOREM LampsFollowSafe == Spec => []LampsFollow
BY FollowInit, FollowStep, FollowImplies, PTL DEF Spec

-----------------------------------------------------------------------------
(* How far a cycle is, and what is on its way to it.                       *)

(* Whether the controller, when it comes to the i-th report under way that *)
(* has the port of a key, takes the key for down.                          *)
Before(t, q, k, i) == IF i = 1 THEN t[k] = 0 ELSE k \in q[k[1]][i - 1].down

(* The presses the controller has not heard of: a key and a report.        *)
Pending(t, q, c) ==
  {p \in KeysOf[c] \X (1..MaxNet) :
     /\ p[2] <= Len(q[p[1][1]])
     /\ p[1] \in q[p[1][1]][p[2]].down
     /\ ~Before(t, q, p[1], p[2])}

(* A report that does not name the port of a key has it as it was before,  *)
(* and the last report has it as it was sampled.                           *)
Tracks(t, q, z, c) ==
  \A k \in KeysOf[c] :
    /\ \A i \in 1..Len(q[k[1]]) :
         Port[k] \notin q[k[1]][i].ports => (k \in q[k[1]][i].down <=> Before(t, q, k, i))
    /\ k \in z <=> Before(t, q, k, Len(q[k[1]]) + 1)

Nets == {q \in [Walls -> Seq(Report)] : \A n \in Walls : Len(q[n]) <= MaxNet}

LEMMA CyclesAre == \A c \in Cycles : c \in Closures /\ c.handler.kind \in {"cycle", "cycleLEDs"}
BY DEF Cycles

LEMMA KeysOfAre == \A c \in Closures : KeysOf[c] \subseteq Key
BY DEF KeysOf

LEMMA PendingFinite ==
  ASSUME NEW c \in Closures, NEW t, NEW q
  PROVE  IsFiniteSet(Pending(t, q, c)) /\ Cardinality(Pending(t, q, c)) \in Nat
<1>1. IsFiniteSet(KeysOf[c])
  BY KeysOfAre, KeyIsFinite, FS_Subset
<1>2. IsFiniteSet(1..MaxNet)
  BY Bounds, FS_Interval
<1>3. IsFiniteSet(KeysOf[c] \X (1..MaxNet))
  BY <1>1, <1>2, FS_Product
<1>4. Pending(t, q, c) \subseteq KeysOf[c] \X (1..MaxNet)
  BY DEF Pending
<1>5. IsFiniteSet(Pending(t, q, c))
  BY <1>3, <1>4, FS_Subset
<1> QED BY <1>5, FS_CardinalityType

Same(c, A, B) == \A j \in KeysOf[c] : \A i \in 1..MaxNet : <<j, i>> \in A <=> <<j, i>> \in B

LEMMA SamePending ==
  ASSUME NEW c, NEW A, NEW B, Same(c, A, B),
         A \subseteq KeysOf[c] \X (1..MaxNet), B \subseteq KeysOf[c] \X (1..MaxNet)
  PROVE  A = B
<1>1. ASSUME NEW p \in KeysOf[c] \X (1..MaxNet) PROVE p \in A <=> p \in B
  <2>1. p = <<p[1], p[2]>> /\ p[1] \in KeysOf[c] /\ p[2] \in 1..MaxNet
    OBVIOUS
  <2> QED BY <2>1 DEF Same
<1> QED BY <1>1

LEMMA PendingIn == \A t, q, c : Pending(t, q, c) \subseteq KeysOf[c] \X (1..MaxNet)
BY DEF Pending

(* A key is told what the first report says of it: its press is no longer  *)
(* pending, if it was one.                                                 *)
PressTaken(t, u, q, c, k, v) ==
  /\ k \in KeysOf[c] /\ v = 0 =>
       /\ <<k, 1>> \in Pending(t, q, c)
       /\ Pending(u, q, c) = Pending(t, q, c) \ {<<k, 1>>}
  /\ ~(k \in KeysOf[c] /\ v = 0) => Pending(u, q, c) = Pending(t, q, c)

LEMMA TurnPending ==
  ASSUME NEW c \in Closures, NEW t \in [Key -> {-1, 0, 1}], NEW q \in Nets,
         NEW k \in Key, q[k[1]] # << >>, NEW v, v = (IF k \in Head(q[k[1]]).down THEN 0 ELSE 1),
         t[k] # v, NEW u, u = [t EXCEPT ![k] = v]
  PROVE  PressTaken(t, u, q, c, k, v)
<1>1. \A j \in Key : u[j] = IF j = k THEN v ELSE t[j]
  OBVIOUS
<1>2. /\ k[1] \in Walls /\ q[k[1]] \in Seq(Report) /\ Len(q[k[1]]) \in Nat
      /\ Len(q[k[1]]) <= MaxNet /\ Len(q[k[1]]) >= 1
  <2>1. k[1] \in Walls
    BY KeysAre
  <2>2. q[k[1]] \in Seq(Report) /\ Len(q[k[1]]) <= MaxNet
    BY <2>1 DEF Nets
  <2>3. Len(q[k[1]]) \in Nat /\ Len(q[k[1]]) # 0
    BY <2>2, EmptySeq, LenProperties
  <2> QED BY <2>1, <2>2, <2>3
<1>3. Head(q[k[1]]) = q[k[1]][1] /\ 1 \in 1..MaxNet
  BY <1>2, Bounds, HeadTailProperties
<1>4. ASSUME NEW j \in KeysOf[c], NEW i \in 1..MaxNet, ~(j = k /\ i = 1)
      PROVE  Before(u, q, j, i) <=> Before(t, q, j, i)
  BY <1>1, <1>4, KeysOfAre DEF Before
<1>5. Before(u, q, k, 1) <=> v = 0
  BY <1>1 DEF Before
<1>6. Before(t, q, k, 1) <=> t[k] = 0
  BY DEF Before
<1>7. CASE k \in KeysOf[c] /\ v = 0
  <2>1. <<k, 1>> \in Pending(t, q, c)
    BY <1>2, <1>3, <1>6, <1>7 DEF Pending
  <2>2. <<k, 1>> \notin Pending(u, q, c)
    BY <1>5, <1>7 DEF Pending
  <2>3. ASSUME NEW j \in KeysOf[c], NEW i \in 1..MaxNet, ~(j = k /\ i = 1)
        PROVE  <<j, i>> \in Pending(u, q, c) <=> <<j, i>> \in Pending(t, q, c)
    BY <1>4, <2>3 DEF Pending
  <2>4. Pending(u, q, c) = Pending(t, q, c) \ {<<k, 1>>}
    <3> DEFINE B == Pending(t, q, c) \ {<<k, 1>>}
    <3>1. B \subseteq KeysOf[c] \X (1..MaxNet)
      BY PendingIn
    <3>2. ASSUME NEW j \in KeysOf[c], NEW i \in 1..MaxNet
          PROVE  <<j, i>> \in Pending(u, q, c) <=> <<j, i>> \in B
      <4>1. CASE j = k /\ i = 1
        BY <4>1, <2>2
      <4>2. CASE ~(j = k /\ i = 1)
        BY <4>2, <2>3
      <4> QED BY <4>1, <4>2
    <3> HIDE DEF B
    <3>3. Same(c, Pending(u, q, c), B)
      BY <3>2 DEF Same
    <3>4. Pending(u, q, c) = B
      BY <3>1, <3>3, PendingIn, SamePending
    <3> QED BY <3>4 DEF B
  <2> QED BY <1>7, <2>1, <2>4 DEF PressTaken
<1>8. CASE ~(k \in KeysOf[c] /\ v = 0)
  <2>1. ASSUME NEW j \in KeysOf[c], NEW i \in 1..MaxNet
        PROVE  <<j, i>> \in Pending(u, q, c) <=> <<j, i>> \in Pending(t, q, c)
    <3>1. CASE j = k /\ i = 1
      <4>1. k \notin q[k[1]][1].down
        BY <1>3, <1>8, <3>1
      <4> QED BY <3>1, <4>1 DEF Pending
    <3>2. CASE ~(j = k /\ i = 1)
      BY <1>4, <3>2 DEF Pending
    <3> QED BY <3>1, <3>2
  <2>2. Pending(u, q, c) = Pending(t, q, c)
    <3>1. Same(c, Pending(u, q, c), Pending(t, q, c))
      BY <2>1 DEF Same
    <3> QED BY <3>1, PendingIn, SamePending
  <2> QED BY <1>8, <2>2 DEF PressTaken
<1> QED BY <1>7, <1>8

(* What a call does to the state of a cycle.                               *)
LEMMA CycleState ==
  ASSUME NEW f \in Variables, NEW m, NEW h, NEW v \in {0, 1}
  PROVE  cycle([closure |-> f, shows |-> m], h, v).closure.state
           = IF v = 0 THEN (f.state + 1) % 4 ELSE f.state
<1>1. CASE v = 1
  BY <1>1 DEF cycle
<1>2. CASE v = 0
  <2> DEFINE n == (f.state + 1) % 4
  <2>1. cycle([closure |-> f, shows |-> m], h, v)
          = [closure |-> [f EXCEPT !.state = n], shows |-> Circuit(m, h.targets, n)]
    BY <1>2 DEF cycle
  <2> HIDE DEF n
  <2>2. [f EXCEPT !.state = n].state = n
    BY DEF Variables
  <2>3. cycle([closure |-> f, shows |-> m], h, v).closure.state = n
    <3> DEFINE g == [f EXCEPT !.state = n]
               w == Circuit(m, h.targets, n)
    <3>1. cycle([closure |-> f, shows |-> m], h, v) = [closure |-> g, shows |-> w] /\ g.state = n
      BY <2>1, <2>2
    <3> HIDE DEF g, w
    <3> QED BY <3>1
  <2> QED BY <1>2, <2>3 DEF n
<1> QED BY <1>1, <1>2

LEMMA CallState ==
  ASSUME NEW c \in Cycles, NEW f \in Variables, NEW m, NEW v \in {0, 1}
  PROVE  Call([closure |-> f, shows |-> m], c.handler, v).closure.state
           = IF v = 0 THEN (f.state + 1) % 4 ELSE f.state
<1>1. CASE c.handler.kind = "cycle"
  BY <1>1, CallIs, CycleState
<1>2. CASE c.handler.kind = "cycleLEDs"
  <2>1. [[closure |-> f, shows |-> m] EXCEPT !.shows = toggleLighting(m)]
          = [closure |-> f, shows |-> toggleLighting(m)]
    OBVIOUS
  <2>2. Call([closure |-> f, shows |-> m], c.handler, v)
          = cycleLEDs([closure |-> f, shows |-> m], c.handler, v)
    BY <1>2, CallIs
  <2>3. \E w : Call([closure |-> f, shows |-> m], c.handler, v)
                 = cycle([closure |-> f, shows |-> w], c.handler, v)
    BY <2>1, <2>2 DEF cycleLEDs
  <2> QED BY <2>3, CycleState
<1> QED BY <1>1, <1>2, CyclesAre

(* The state of a cycle and the presses it has not heard of make up what   *)
(* was pressed.                                                            *)
Makes(n, p, total) == n \in 0..3 /\ (n + p) % 4 = total
Counted(x, q, c, total) ==
  Sound(x) /\ Makes(x.closure[c].state, Cardinality(Pending(x.told, q, c)), total)

LEMMA Mod4 == ASSUME NEW a \in Nat, NEW b \in Nat PROVE ((a % 4) + b) % 4 = (a + b) % 4
OBVIOUS

LEMMA MakesNext ==
  ASSUME NEW n \in 0..3, NEW p \in Nat, NEW total, Makes(n, p, total), p # 0
  PROVE  Makes((n + 1) % 4, p - 1, total)
<1>1. (n + 1) % 4 \in 0..3
  OBVIOUS
<1>2. (((n + 1) % 4) + (p - 1)) % 4 = ((n + 1) + (p - 1)) % 4
  BY Mod4
<1>3. (n + 1) + (p - 1) = n + p
  OBVIOUS
<1> QED BY <1>1, <1>2, <1>3 DEF Makes

LEMMA HandedCounts ==
  ASSUME NEW c \in Cycles, NEW q \in Nets, NEW total, NEW x, Counted(x, q, c, total),
         NEW k \in Key, q[k[1]] # << >>, NEW v, v = (IF k \in Head(q[k[1]]).down THEN 0 ELSE 1),
         x.told[k] # v
  PROVE  Counted(Handed(x, k, v), q, c, total)
<1> DEFINE y == Handed(x, k, v)
           t == x.told
           f == x.closure[c]
           P == Pending(t, q, c)
<1>1. /\ c \in Closures /\ t \in [Key -> {-1, 0, 1}] /\ f \in Variables /\ v \in {0, 1}
      /\ Makes(f.state, Cardinality(P), total)
  BY CyclesAre DEF Counted, Sound
<1>2. Sound(y)
  BY <1>1, HandedSound DEF Counted
<1>3. y.told = [t EXCEPT ![k] = v]
  BY HandedIs DEF HandedAs, Joined, Called
<1>4. y.closure[c].state = IF k \in KeysOf[c] /\ v = 0 THEN (f.state + 1) % 4 ELSE f.state
  <2>1. y.closure[c] = IF c \in HandlersOf[k]
                       THEN Call([closure |-> f, shows |-> x.shows], c.handler, v).closure ELSE f
    BY <1>1, HandedIs DEF HandedAs, Joined, Called
  <2>2. Call([closure |-> f, shows |-> x.shows], c.handler, v).closure.state
          = IF v = 0 THEN (f.state + 1) % 4 ELSE f.state
    BY <1>1, CallState
  <2>3. k \in KeysOf[c] <=> c \in HandlersOf[k]
    BY <1>1, KeysOfHandlers
  <2> HIDE DEF y, f
  <2> QED BY <2>1, <2>2, <2>3
<1>5. IsFiniteSet(P) /\ Cardinality(P) \in Nat
  BY <1>1, PendingFinite
<1>6. /\ k \in KeysOf[c] /\ v = 0 => <<k, 1>> \in P /\ Pending(y.told, q, c) = P \ {<<k, 1>>}
      /\ ~(k \in KeysOf[c] /\ v = 0) => Pending(y.told, q, c) = P
  <2> HIDE DEF t, y
  <2>1. t[k] # v
    BY DEF t
  <2>2. PressTaken(t, y.told, q, c, k, v)
    BY <1>1, <1>3, <2>1, TurnPending
  <2> QED BY <2>2 DEF PressTaken
<1> DEFINE s == f.state
           p == Cardinality(P)
<1>7. s \in 0..3 /\ p \in Nat /\ Makes(s, p, total)
  BY <1>1, <1>5 DEF Makes
<1>8. Makes(y.closure[c].state, Cardinality(Pending(y.told, q, c)), total)
  <2> HIDE DEF y, P, s
  <2>1. CASE k \in KeysOf[c] /\ v = 0
    <3>1. Cardinality(P \ {<<k, 1>>}) = p - 1 /\ p # 0
      <4>1. <<k, 1>> \in P
        BY <1>6, <2>1
      <4>2. Cardinality(P) # 0
        BY <1>5, <4>1, FS_EmptySet
      <4> QED BY <1>5, <4>1, <4>2, FS_RemoveElement
    <3>2. Pending(y.told, q, c) = P \ {<<k, 1>>}
      BY <1>6, <2>1
    <3>3. y.closure[c].state = (s + 1) % 4
      BY <1>4, <2>1 DEF s
    <3> HIDE DEF p
    <3>4. Makes((s + 1) % 4, p - 1, total)
      BY <1>7, <3>1, MakesNext
    <3> QED BY <3>1, <3>2, <3>3, <3>4
  <2>2. CASE ~(k \in KeysOf[c] /\ v = 0)
    <3>1. Pending(y.told, q, c) = P
      BY <1>6, <2>2
    <3>2. y.closure[c].state = s
      BY <1>4, <2>2 DEF s
    <3> QED BY <1>7, <3>1, <3>2
  <2> QED BY <2>1, <2>2
<1> QED BY <1>2, <1>8 DEF Counted

LEMMA TriggeredCounts ==
  ASSUME NEW c \in Cycles, NEW q \in Nets, NEW total, NEW x, Counted(x, q, c, total),
         NEW n, q[n] # << >>, NEW b
  PROVE  Counted(Triggered(x, <<n, b>>, Head(q[n])), q, c, total)
<1> DEFINE k == <<n, b>>
           r == Head(q[n])
           v == IF k \in r.down THEN 0 ELSE 1
<1>1. k[1] = n
  OBVIOUS
<1> HIDE DEF k
<1>2. CASE k \in Key /\ Port[k] \in r.ports /\ x.told[k] # v
  <2>1. Triggered(x, k, r) = Handed(x, k, v)
    BY <1>2 DEF Triggered, callback
  <2>2. Counted(Handed(x, k, v), q, c, total)
    BY <1>1, <1>2, HandedCounts
  <2> QED BY <2>1, <2>2 DEF k
<1>3. CASE ~(k \in Key /\ Port[k] \in r.ports /\ x.told[k] # v)
  <2>1. Triggered(x, k, r) = x
    BY <1>3 DEF Triggered, callback
  <2> QED BY <2>1 DEF k
<1> QED BY <1>2, <1>3

LEMMA AfterCounts ==
  ASSUME NEW c \in Cycles, NEW q \in Nets, NEW total, Counted(Now, q, c, total),
         NEW n, q[n] # << >>
  PROVE  Counted(After(n, Head(q[n])), q, c, total)
<1> DEFINE r == Head(q[n])
           a == Triggered(Now, <<n, KeyName[1]>>, r)
           b == Triggered(a, <<n, KeyName[2]>>, r)
           d == Triggered(b, <<n, KeyName[3]>>, r)
           e == Triggered(d, <<n, KeyName[4]>>, r)
<1>1. Counted(a, q, c, total)
  BY TriggeredCounts
<1> HIDE DEF a
<1>2. Counted(b, q, c, total)
  BY <1>1, TriggeredCounts
<1> HIDE DEF b
<1>3. Counted(d, q, c, total)
  BY <1>2, TriggeredCounts
<1> HIDE DEF d
<1>4. Counted(e, q, c, total)
  BY <1>3, TriggeredCounts
<1> QED BY <1>4 DEF After, a, b, d

(* What the keys of a node are told.                                       *)
Told(t, ks, r) ==
  [k \in Key |-> IF k \in ks /\ Port[k] \in r.ports THEN IF k \in r.down THEN 0 ELSE 1 ELSE t[k]]

LEMMA TriggeredTold ==
  ASSUME NEW x, x.told \in [Key -> {-1, 0, 1}], NEW k, NEW r
  PROVE  Triggered(x, k, r).told = Told(x.told, {k}, r)
<1> DEFINE v == IF k \in r.down THEN 0 ELSE 1
           y == Triggered(x, k, r)
<1>1. y.told = IF k \in Key /\ Port[k] \in r.ports THEN [x.told EXCEPT ![k] = v] ELSE x.told
  <2>1. CASE k \in Key /\ Port[k] \in r.ports /\ x.told[k] # v
    <3>1. y = Handed(x, k, v)
      BY <2>1 DEF Triggered, callback
    <3>2. Handed(x, k, v).told = [x.told EXCEPT ![k] = v]
      BY HandedIs DEF HandedAs, Joined, Called
    <3> QED BY <2>1, <3>1, <3>2
  <2>2. CASE ~(k \in Key /\ Port[k] \in r.ports /\ x.told[k] # v)
    <3>1. y = x
      BY <2>2 DEF Triggered, callback
    <3> HIDE DEF y, v
    <3>2. k \in Key /\ Port[k] \in r.ports => [x.told EXCEPT ![k] = v] = x.told
      BY <2>2
    <3> QED BY <3>1, <3>2
  <2> QED BY <2>1, <2>2
<1> HIDE DEF y
<1>2. y.told = Told(x.told, {k}, r)
  BY <1>1 DEF Told
<1> QED BY <1>2 DEF y

LEMMA ToldStep ==
  ASSUME NEW t \in [Key -> {-1, 0, 1}], NEW A, NEW r, NEW x, x.told = Told(t, A, r), NEW k
  PROVE  Triggered(x, k, r).told = Told(t, A \cup {k}, r)
<1>1. Told(t, A, r) \in [Key -> {-1, 0, 1}]
  BY DEF Told
<1>2. Triggered(x, k, r).told = Told(Told(t, A, r), {k}, r)
  BY <1>1, TriggeredTold
<1>3. Told(Told(t, A, r), {k}, r) = Told(t, A \cup {k}, r)
  BY DEF Told
<1> QED BY <1>2, <1>3

LEMMA AfterTold ==
  ASSUME told \in [Key -> {-1, 0, 1}], NEW n, NEW r
  PROVE  After(n, r).told = Told(told, At(n), r)
<1> DEFINE k1 == <<n, KeyName[1]>>
           k2 == <<n, KeyName[2]>>
           k3 == <<n, KeyName[3]>>
           k4 == <<n, KeyName[4]>>
           a == Triggered(Now, k1, r)
           b == Triggered(a, k2, r)
           d == Triggered(b, k3, r)
           e == Triggered(d, k4, r)
           ks == ((({} \cup {k1}) \cup {k2}) \cup {k3}) \cup {k4}
<1>1. After(n, r) = e /\ Now.told = told
  BY DEF After, Now
<1>2. \A k \in Key : k \in ks <=> k \in At(n)
  <2>1. \A k \in Key : k[1] = n => k \in {<<n, "b1">>, <<n, "b2">>, <<n, "b3">>, <<n, "b4">>}
    BY KeysAre DEF KeyNames
  <2> QED BY <2>1 DEF At, KeyName
<1> HIDE DEF k1, k2, k3, k4
<1>a. Now.told = Told(told, {}, r)
  BY DEF Told, Now
<1>3. a.told = Told(told, {} \cup {k1}, r)
  BY <1>a, ToldStep
<1> HIDE DEF a
<1>4. b.told = Told(told, ({} \cup {k1}) \cup {k2}, r)
  BY <1>3, ToldStep
<1> HIDE DEF b
<1>5. d.told = Told(told, (({} \cup {k1}) \cup {k2}) \cup {k3}, r)
  BY <1>4, ToldStep
<1> HIDE DEF d
<1>6. e.told = Told(told, ks, r)
  BY <1>5, ToldStep
<1> HIDE DEF e, ks
<1>7. Told(told, ks, r) = Told(told, At(n), r)
  BY <1>2 DEF Told
<1> QED BY <1>1, <1>6, <1>7

-----------------------------------------------------------------------------
(* A report leaves the head of a node's reports: the controller knows of   *)
(* the keys of a handler what it said.                                     *)
Heard(t, q, n, c) ==
  \A k \in KeysOf[c] : k[1] = n => (t[k] = 0 <=> k \in Head(q[n]).down)

LEMMA NetFacts ==
  ASSUME NEW q \in Nets, NEW n \in Walls
  PROVE  /\ q[n] \in Seq(Report) /\ Len(q[n]) \in Nat /\ Len(q[n]) <= MaxNet
         /\ q[n] # << >> => /\ Len(q[n]) >= 1 /\ Head(q[n]) = q[n][1]
                            /\ Tail(q[n]) \in Seq(Report) /\ Len(Tail(q[n])) = Len(q[n]) - 1
                            /\ \A i \in 1..(Len(q[n]) - 1) : Tail(q[n])[i] = q[n][i + 1]
<1>1. q[n] \in Seq(Report) /\ Len(q[n]) <= MaxNet
  BY DEF Nets
<1>2. Len(q[n]) \in Nat
  BY <1>1, LenProperties
<1>3. ASSUME q[n] # << >>
      PROVE  /\ Len(q[n]) >= 1 /\ Head(q[n]) = q[n][1]
             /\ Tail(q[n]) \in Seq(Report) /\ Len(Tail(q[n])) = Len(q[n]) - 1
             /\ \A i \in 1..(Len(q[n]) - 1) : Tail(q[n])[i] = q[n][i + 1]
  <2> DEFINE w == q[n]
  <2>1. w \in Seq(Report) /\ w # << >>
    BY <1>1, <1>3
  <2> HIDE DEF w
  <2>2. /\ Tail(w) \in Seq(Report) /\ Len(Tail(w)) = Len(w) - 1
        /\ \A i \in 1..Len(Tail(w)) : Tail(w)[i] = w[i + 1]
        /\ Head(w) = w[1] /\ Len(w) >= 1
    BY <2>1, HeadTailProperties
  <2> QED BY <2>2 DEF w
<1> QED BY <1>1, <1>2, <1>3

LEMMA KeyWalls == \A k \in Key : k[1] \in Walls
BY KeysAre

LEMMA ToldTracks ==
  ASSUME NEW c \in Closures, NEW t \in [Key -> {-1, 0, 1}], NEW q \in Nets, NEW n \in Walls,
         q[n] # << >>, NEW z, Tracks(t, q, z, c), NEW u, u = Told(t, At(n), Head(q[n]))
  PROVE  Tracks(u, q, z, c) /\ Heard(u, q, n, c)
<1>1. ASSUME NEW k \in KeysOf[c], k[1] # n PROVE u[k] = t[k]
  BY <1>1, KeysOfAre DEF Told, At
<1>2. ASSUME NEW k \in KeysOf[c], k[1] = n PROVE u[k] = 0 <=> k \in Head(q[n]).down
  <2>1. k \in Key /\ k \in At(n)
    BY <1>2, KeysOfAre DEF At
  <2>2. CASE Port[k] \in Head(q[n]).ports
    BY <2>1, <2>2 DEF Told
  <2>3. CASE Port[k] \notin Head(q[n]).ports
    <3>1. u[k] = t[k]
      BY <2>1, <2>3 DEF Told
    <3>2. Head(q[n]) = q[k[1]][1] /\ 1 \in 1..Len(q[k[1]])
      BY <1>2, NetFacts
    <3>3. k \in q[k[1]][1].down <=> Before(t, q, k, 1)
      BY <2>3, <3>2 DEF Tracks
    <3> QED BY <3>1, <3>2, <3>3 DEF Before
  <2> QED BY <2>2, <2>3
<1>3. Heard(u, q, n, c)
  BY <1>2 DEF Heard
<1>4. ASSUME NEW k \in KeysOf[c]
      PROVE  /\ \A i \in 1..Len(q[k[1]]) :
                  Port[k] \notin q[k[1]][i].ports => (k \in q[k[1]][i].down <=> Before(u, q, k, i))
             /\ k \in z <=> Before(u, q, k, Len(q[k[1]]) + 1)
  <2>1. /\ \A i \in 1..Len(q[k[1]]) :
             Port[k] \notin q[k[1]][i].ports => (k \in q[k[1]][i].down <=> Before(t, q, k, i))
        /\ k \in z <=> Before(t, q, k, Len(q[k[1]]) + 1)
    BY DEF Tracks
  <2>2. CASE k[1] # n
    <3>1. \A i : Before(u, q, k, i) <=> Before(t, q, k, i)
      BY <1>1, <2>2 DEF Before
    <3> QED BY <2>1, <3>1
  <2>3. CASE k[1] = n
    <3>1. Len(q[n]) \in Nat /\ Len(q[n]) >= 1 /\ Head(q[n]) = q[n][1]
      BY NetFacts
    <3>2. \A i : i # 1 => (Before(u, q, k, i) <=> Before(t, q, k, i))
      BY DEF Before
    <3>3. k \in q[n][1].down <=> Before(u, q, k, 1)
      BY <1>2, <2>3, <3>1 DEF Before
    <3>4. Len(q[n]) + 1 # 1
      BY <3>1
    <3> QED BY <2>1, <2>3, <3>2, <3>3, <3>4
  <2> QED BY <2>2, <2>3
<1> QED BY <1>3, <1>4 DEF Tracks

LEMMA LoseHeard ==
  ASSUME NEW c \in Closures, NEW t, NEW q \in Nets, NEW n \in Walls, q[n] # << >>, NEW z,
         Tracks(t, q, z, c), \A k \in KeysOf[c] : k[1] = n => Port[k] \notin Head(q[n]).ports
  PROVE  Heard(t, q, n, c)
<1> SUFFICES ASSUME NEW k \in KeysOf[c], k[1] = n PROVE t[k] = 0 <=> k \in Head(q[n]).down
  BY DEF Heard
<1>1. Head(q[n]) = q[k[1]][1] /\ 1 \in 1..Len(q[k[1]])
  BY NetFacts
<1>2. k \in q[k[1]][1].down <=> Before(t, q, k, 1)
  BY <1>1 DEF Tracks
<1> QED BY <1>1, <1>2 DEF Before

(* What was second is first.                                               *)
Dropped(q, n) == [q EXCEPT ![n] = Tail(q[n])]

Shifts(t, q, q2, n, c) ==
  /\ \A m \in Walls : m # n => q2[m] = q[m]
  /\ Len(q2[n]) = Len(q[n]) - 1
  /\ \A i \in 1..(Len(q[n]) - 1) : q2[n][i] = q[n][i + 1]
  /\ \A k \in KeysOf[c] : k[1] = n =>
       \A i \in 1..Len(q[n]) : Before(t, q2, k, i) <=> Before(t, q, k, i + 1)

LEMMA DropShifts ==
  ASSUME NEW c \in Closures, NEW t, NEW q \in Nets, NEW n \in Walls, q[n] # << >>,
         Heard(t, q, n, c), NEW q2, q2 = Dropped(q, n)
  PROVE  Shifts(t, q, q2, n, c)
<1>1. q2[n] = Tail(q[n]) /\ \A m \in Walls : m # n => q2[m] = q[m]
  BY DEF Dropped, Nets
<1>2. /\ Len(q[n]) \in Nat /\ Len(q[n]) >= 1 /\ Head(q[n]) = q[n][1]
      /\ Len(q2[n]) = Len(q[n]) - 1
      /\ \A i \in 1..(Len(q[n]) - 1) : q2[n][i] = q[n][i + 1]
  BY <1>1, NetFacts
<1>3. ASSUME NEW k \in KeysOf[c], k[1] = n, NEW i \in 1..Len(q[n])
      PROVE  Before(t, q2, k, i) <=> Before(t, q, k, i + 1)
  <2>1. CASE i = 1
    <3>1. Before(t, q2, k, i) <=> t[k] = 0
      BY <2>1 DEF Before
    <3>2. Before(t, q, k, i + 1) <=> k \in q[n][1].down
      BY <1>3, <2>1 DEF Before
    <3> QED BY <1>2, <1>3, <3>1, <3>2 DEF Heard
  <2>2. CASE i # 1
    <3>1. i - 1 \in 1..(Len(q[n]) - 1) /\ (i - 1) + 1 = i /\ (i + 1) - 1 = i /\ i + 1 # 1
      BY <1>2, <2>2
    <3>2. q2[n][i - 1] = q[n][i]
      BY <1>2, <3>1
    <3>3. Before(t, q2, k, i) <=> k \in q2[n][i - 1].down
      BY <1>3, <2>2 DEF Before
    <3>4. Before(t, q, k, i + 1) <=> k \in q[n][i].down
      BY <1>3, <3>1 DEF Before
    <3> QED BY <3>2, <3>3, <3>4
  <2> QED BY <2>1, <2>2
<1> QED BY <1>1, <1>2, <1>3 DEF Shifts

LEMMA DropTracks ==
  ASSUME NEW c \in Closures, NEW t, NEW q \in Nets, NEW n \in Walls, q[n] # << >>, NEW z,
         Tracks(t, q, z, c), Heard(t, q, n, c), NEW q2, q2 = Dropped(q, n)
  PROVE  Tracks(t, q2, z, c)
<1> SUFFICES ASSUME NEW k \in KeysOf[c]
             PROVE  /\ \A i \in 1..Len(q2[k[1]]) : Port[k] \notin q2[k[1]][i].ports =>
                         (k \in q2[k[1]][i].down <=> Before(t, q2, k, i))
                    /\ k \in z <=> Before(t, q2, k, Len(q2[k[1]]) + 1)
  BY DEF Tracks
<1>1. /\ \A i \in 1..Len(q[k[1]]) :
           Port[k] \notin q[k[1]][i].ports => (k \in q[k[1]][i].down <=> Before(t, q, k, i))
      /\ k \in z <=> Before(t, q, k, Len(q[k[1]]) + 1)
  BY DEF Tracks
<1>2. k[1] \in Walls /\ Shifts(t, q, q2, n, c)
  BY KeysOfAre, KeyWalls, DropShifts
<1>3. CASE k[1] # n
  <2>1. q2[k[1]] = q[k[1]]
    BY <1>2, <1>3 DEF Shifts
  <2>2. \A i : Before(t, q2, k, i) <=> Before(t, q, k, i)
    BY <2>1 DEF Before
  <2> QED BY <1>1, <2>1, <2>2
<1>4. CASE k[1] = n
  <2>1. Len(q[n]) \in Nat /\ Len(q[n]) >= 1
    BY NetFacts
  <2>2. /\ Len(q2[n]) = Len(q[n]) - 1
        /\ \A i \in 1..(Len(q[n]) - 1) : q2[n][i] = q[n][i + 1]
        /\ \A i \in 1..Len(q[n]) : Before(t, q2, k, i) <=> Before(t, q, k, i + 1)
    BY <1>2, <1>4 DEF Shifts
  <2>3. ASSUME NEW i \in 1..Len(q2[n]), Port[k] \notin q2[n][i].ports
        PROVE  k \in q2[n][i].down <=> Before(t, q2, k, i)
    <3>1. i \in 1..(Len(q[n]) - 1) /\ i \in 1..Len(q[n]) /\ i + 1 \in 1..Len(q[n])
      BY <2>1, <2>2
    <3>2. q2[n][i] = q[n][i + 1] /\ (Before(t, q2, k, i) <=> Before(t, q, k, i + 1))
      BY <2>2, <3>1
    <3> QED BY <1>1, <1>4, <2>3, <3>1, <3>2
  <2>4. k \in z <=> Before(t, q2, k, Len(q2[n]) + 1)
    <3>1. Len(q2[n]) + 1 = Len(q[n]) /\ Len(q[n]) \in 1..Len(q[n])
      BY <2>1, <2>2
    <3> QED BY <1>1, <1>4, <2>2, <3>1
  <2> QED BY <1>4, <2>3, <2>4
<1> QED BY <1>3, <1>4

LEMMA DropPending ==
  ASSUME NEW c \in Closures, NEW t, NEW q \in Nets, NEW n \in Walls, q[n] # << >>,
         Heard(t, q, n, c), NEW q2, q2 = Dropped(q, n)
  PROVE  Cardinality(Pending(t, q2, c)) = Cardinality(Pending(t, q, c))
<1> DEFINE S == Pending(t, q2, c)
           R == Pending(t, q, c)
           to(p) == IF p[1][1] = n THEN <<p[1], p[2] + 1>> ELSE p
           f == [p \in S |-> to(p)]
<1>1. /\ Shifts(t, q, q2, n, c) /\ Len(q[n]) \in Nat /\ Len(q[n]) >= 1 /\ Len(q[n]) <= MaxNet
      /\ Head(q[n]) = q[n][1] /\ MaxNet \in Nat
  BY DropShifts, NetFacts, Bounds
<1>2. ASSUME NEW k \in KeysOf[c], k[1] # n, NEW i \in 1..MaxNet
      PROVE  <<k, i>> \in S <=> <<k, i>> \in R
  <2>1. q2[k[1]] = q[k[1]]
    BY <1>1, <1>2, KeysOfAre, KeyWalls DEF Shifts
  <2>2. Before(t, q2, k, i) <=> Before(t, q, k, i)
    BY <2>1 DEF Before
  <2> QED BY <2>1, <2>2 DEF Pending
<1>3. ASSUME NEW k \in KeysOf[c], k[1] = n, NEW i \in 1..MaxNet
      PROVE  /\ <<k, i>> \in S <=> i < Len(q[n]) /\ <<k, i + 1>> \in R
             /\ <<k, i>> \in R => i # 1 /\ i <= Len(q[n])
  <2>1. <<k, i>> \in S <=> i <= Len(q2[n]) /\ k \in q2[n][i].down /\ ~Before(t, q2, k, i)
    BY <1>3 DEF Pending
  <2>2. \A j \in 1..MaxNet :
          <<k, j>> \in R <=> j <= Len(q[n]) /\ k \in q[n][j].down /\ ~Before(t, q, k, j)
    BY <1>3 DEF Pending
  <2>3. <<k, i>> \in R => i # 1 /\ i <= Len(q[n])
    BY <1>1, <1>3, <2>2 DEF Before, Heard
  <2>4. <<k, i>> \in S <=> i < Len(q[n]) /\ <<k, i + 1>> \in R
    <3>1. CASE i < Len(q[n])
      <4>1. i \in 1..(Len(q[n]) - 1) /\ i \in 1..Len(q[n]) /\ i + 1 \in 1..MaxNet
            /\ i <= Len(q[n]) - 1 /\ i + 1 <= Len(q[n])
        BY <1>1, <3>1
      <4>2. q2[n][i] = q[n][i + 1] /\ (Before(t, q2, k, i) <=> Before(t, q, k, i + 1))
            /\ Len(q2[n]) = Len(q[n]) - 1
        BY <1>1, <1>3, <4>1 DEF Shifts
      <4> QED BY <2>1, <2>2, <3>1, <4>1, <4>2
    <3>2. CASE ~(i < Len(q[n]))
      <4>1. Len(q2[n]) = Len(q[n]) - 1
        BY <1>1 DEF Shifts
      <4>2. ~(i <= Len(q2[n]))
        BY <1>1, <3>2, <4>1
      <4> QED BY <2>1, <3>2, <4>2
    <3> QED BY <3>1, <3>2
  <2> QED BY <2>3, <2>4
<1>4. S \subseteq KeysOf[c] \X (1..MaxNet) /\ R \subseteq KeysOf[c] \X (1..MaxNet)
  BY PendingIn
<1> HIDE DEF S, R
<1>5. ASSUME NEW p \in S PROVE to(p) \in R
  <2>1. p = <<p[1], p[2]>> /\ p[1] \in KeysOf[c] /\ p[2] \in 1..MaxNet
    BY <1>4
  <2> QED BY <1>2, <1>3, <2>1
<1>6. ASSUME NEW p \in S, NEW r \in S, to(p) = to(r) PROVE p = r
  <2>1. /\ p = <<p[1], p[2]>> /\ p[2] \in 1..MaxNet
        /\ r = <<r[1], r[2]>> /\ r[2] \in 1..MaxNet
    BY <1>4
  <2>2. to(p)[1] = p[1] /\ to(r)[1] = r[1]
    OBVIOUS
  <2>3. p[1] = r[1]
    BY <1>6, <2>2
  <2>4. p[2] = r[2]
    BY <1>6, <2>1, <2>3
  <2> QED BY <2>1, <2>3, <2>4
<1>7. ASSUME NEW p \in R PROVE \E r \in S : to(r) = p
  <2>1. p = <<p[1], p[2]>> /\ p[1] \in KeysOf[c] /\ p[2] \in 1..MaxNet
    BY <1>4
  <2>2. CASE p[1][1] = n
    <3> DEFINE j == p[2] - 1
    <3>1. p[2] # 1 /\ p[2] <= Len(q[n])
      BY <1>3, <2>1, <2>2
    <3>2. j \in 1..MaxNet /\ j + 1 = p[2] /\ j < Len(q[n])
      BY <1>1, <2>1, <3>1
    <3> HIDE DEF j
    <3>3. <<p[1], j>> \in S
      BY <1>3, <2>1, <2>2, <3>2
    <3>4. to(<<p[1], j>>) = p
      BY <2>1, <2>2, <3>2
    <3> QED BY <3>3, <3>4
  <2>3. CASE p[1][1] # n
    BY <1>2, <2>1, <2>3
  <2> QED BY <2>2, <2>3
<1>8. f \in [S -> R]
  BY <1>5
<1>9. \A p \in S : f[p] = to(p)
  OBVIOUS
<1> HIDE DEF f, to
<1>10. f \in Bijection(S, R)
  <2>1. \A p, r \in S : f[p] = f[r] => p = r
    BY <1>6, <1>9
  <2>2. \A p \in R : \E r \in S : f[r] = p
    BY <1>7, <1>9
  <2> QED BY <1>8, <2>1, <2>2 DEF Bijection, Injection, Surjection, IsInjective
<1>11. IsFiniteSet(S)
  BY PendingFinite DEF S
<1>12. Cardinality(R) = Cardinality(S)
  BY <1>10, <1>11, FS_Bijection DEF ExistsBijection
<1> QED BY <1>12 DEF S, R

-----------------------------------------------------------------------------
(* A report comes in at the end: its presses are new.                      *)
Changed(n, now, z) == {k \in At(n) : (k \in now) # (k \in z)}
Added(q, n, r) == [q EXCEPT ![n] = Append(q[n], r)]
Sampled(n, now, z) == (z \ At(n)) \cup now

Extended(t, q, q2, n, r) ==
  /\ \A m \in Walls : m # n => q2[m] = q[m]
  /\ Len(q2[n]) = Len(q[n]) + 1 /\ q2[n][Len(q[n]) + 1] = r
  /\ \A i \in 1..Len(q[n]) : q2[n][i] = q[n][i]
  /\ \A k \in At(n) : \A i \in 1..(Len(q[n]) + 1) : Before(t, q2, k, i) <=> Before(t, q, k, i)
  /\ \A k \in At(n) : Before(t, q2, k, (Len(q[n]) + 1) + 1) <=> k \in r.down

LEMMA AddExtends ==
  ASSUME NEW t, NEW q \in Nets, NEW n \in Walls, NEW r \in Report, NEW q2, q2 = Added(q, n, r)
  PROVE  Extended(t, q, q2, n, r)
<1> DEFINE m == Len(q[n])
<1>1. q2[n] = Append(q[n], r) /\ \A w \in Walls : w # n => q2[w] = q[w]
  BY DEF Added, Nets
<1>2. q[n] \in Seq(Report) /\ m \in Nat
  BY NetFacts
<1>3. /\ Len(q2[n]) = m + 1 /\ q2[n][m + 1] = r
      /\ \A i \in 1..m : q2[n][i] = q[n][i]
  BY <1>1, <1>2, AppendProperties
<1> HIDE DEF m
<1>4. ASSUME NEW k \in At(n), NEW i \in 1..(m + 1)
      PROVE  Before(t, q2, k, i) <=> Before(t, q, k, i)
  <2>1. k[1] = n
    BY DEF At
  <2>2. CASE i = 1
    BY <2>2 DEF Before
  <2>3. CASE i # 1
    <3>1. i - 1 \in 1..m
      BY <1>2, <2>3
    <3> QED BY <1>3, <2>1, <2>3, <3>1 DEF Before
  <2> QED BY <2>2, <2>3
<1>5. ASSUME NEW k \in At(n) PROVE Before(t, q2, k, (m + 1) + 1) <=> k \in r.down
  <2>1. k[1] = n /\ (m + 1) + 1 # 1 /\ ((m + 1) + 1) - 1 = m + 1
    BY <1>2 DEF At
  <2> QED BY <1>3, <2>1 DEF Before
<1> QED BY <1>1, <1>3, <1>4, <1>5 DEF Extended, m

LEMMA AddTracks ==
  ASSUME NEW c \in Closures, NEW t, NEW q \in Nets, NEW n \in Walls, NEW z, Tracks(t, q, z, c),
         NEW now \in SUBSET At(n), NEW r \in Report,
         r.ports = {Port[k] : k \in Changed(n, now, z)}, r.down = now,
         NEW q2, q2 = Added(q, n, r)
  PROVE  Tracks(t, q2, Sampled(n, now, z), c)
<1> DEFINE y == Sampled(n, now, z)
           m == Len(q[n])
<1>1. Extended(t, q, q2, n, r) /\ m \in Nat
  BY AddExtends, NetFacts
<1> SUFFICES ASSUME NEW k \in KeysOf[c]
             PROVE  /\ \A i \in 1..Len(q2[k[1]]) : Port[k] \notin q2[k[1]][i].ports =>
                         (k \in q2[k[1]][i].down <=> Before(t, q2, k, i))
                    /\ k \in y <=> Before(t, q2, k, Len(q2[k[1]]) + 1)
  BY DEF Tracks
<1>2. /\ \A i \in 1..Len(q[k[1]]) :
           Port[k] \notin q[k[1]][i].ports => (k \in q[k[1]][i].down <=> Before(t, q, k, i))
      /\ k \in z <=> Before(t, q, k, Len(q[k[1]]) + 1)
  BY DEF Tracks
<1>3. k \in Key /\ k[1] \in Walls
  BY KeysOfAre, KeyWalls
<1>4. CASE k[1] # n
  <2>1. q2[k[1]] = q[k[1]]
    BY <1>1, <1>3, <1>4 DEF Extended
  <2>2. \A i : Before(t, q2, k, i) <=> Before(t, q, k, i)
    BY <2>1 DEF Before
  <2>3. k \in y <=> k \in z
    BY <1>4 DEF Sampled, At
  <2> HIDE DEF y
  <2> QED BY <1>2, <2>1, <2>2, <2>3
<1>5. CASE k[1] = n
  <2>1. k \in At(n)
    BY <1>3, <1>5 DEF At
  <2>2. k \in y <=> k \in now
    BY <2>1 DEF Sampled
  <2>3. /\ Len(q2[n]) = m + 1 /\ q2[n][m + 1] = r
        /\ \A i \in 1..m : q2[n][i] = q[n][i]
        /\ \A i \in 1..(m + 1) : Before(t, q2, k, i) <=> Before(t, q, k, i)
        /\ Before(t, q2, k, (m + 1) + 1) <=> k \in now
    BY <1>1, <2>1 DEF Extended
  <2> HIDE DEF m, y
  <2>4. ASSUME NEW i \in 1..(m + 1), Port[k] \notin q2[n][i].ports
        PROVE  k \in q2[n][i].down <=> Before(t, q2, k, i)
    <3>1. CASE i = m + 1
      <4>1. k \notin Changed(n, now, z)
        BY <2>3, <2>4, <3>1
      <4>2. k \in now <=> k \in z
        BY <2>1, <4>1 DEF Changed
      <4>3. k \in z <=> Before(t, q, k, m + 1)
        BY <1>2, <1>5 DEF m
      <4> QED BY <2>3, <3>1, <4>2, <4>3
    <3>2. CASE i # m + 1
      <4>1. i \in 1..m
        BY <1>1, <3>2
      <4> QED BY <1>2, <1>5, <2>3, <2>4, <4>1 DEF m
    <3> QED BY <3>1, <3>2
  <2> QED BY <1>5, <2>2, <2>3, <2>4
<1> QED BY <1>4, <1>5

LEMMA TaggedCount ==
  ASSUME NEW S, IsFiniteSet(S), NEW i
  PROVE  /\ IsFiniteSet({<<k, i>> : k \in S})
         /\ Cardinality({<<k, i>> : k \in S}) = Cardinality(S)
<1> DEFINE R == {<<k, i>> : k \in S}
           f == [k \in S |-> <<k, i>>]
<1>1. f \in Bijection(S, R)
  BY DEF Bijection, Injection, Surjection, IsInjective
<1> HIDE DEF R, f
<1>2. IsFiniteSet(R) /\ Cardinality(R) = Cardinality(S)
  BY <1>1, FS_Bijection DEF ExistsBijection
<1> QED BY <1>2 DEF R

Grows(S, R, N) == Cardinality(N) \in Nat /\ Cardinality(R) = Cardinality(S) + Cardinality(N)

LEMMA AddPending ==
  ASSUME NEW c \in Closures, NEW t, NEW q \in Nets, NEW n \in Walls, NEW z, Tracks(t, q, z, c),
         NEW now \in SUBSET At(n), NEW r \in Report, r.down = now, Len(q[n]) < MaxNet,
         NEW q2, q2 = Added(q, n, r)
  PROVE  Grows(Pending(t, q, c), Pending(t, q2, c), KeysOf[c] \cap Changed(n, now, z) \cap now)
<1> DEFINE m == Len(q[n])
           N == KeysOf[c] \cap Changed(n, now, z) \cap now
           S == Pending(t, q2, c)
           R == Pending(t, q, c)
           U == {<<k, m + 1>> : k \in N}
<1>1. Extended(t, q, q2, n, r) /\ m \in Nat /\ m + 1 \in 1..MaxNet
  BY AddExtends, NetFacts, Bounds
<1>2. ASSUME NEW k \in KeysOf[c], NEW i \in 1..MaxNet
      PROVE  <<k, i>> \in S <=> <<k, i>> \in R \/ (k \in N /\ i = m + 1)
  <2>1. k \in Key /\ k[1] \in Walls
    BY KeysOfAre, KeyWalls
  <2>2. /\ <<k, i>> \in S <=> i <= Len(q2[k[1]]) /\ k \in q2[k[1]][i].down /\ ~Before(t, q2, k, i)
        /\ <<k, i>> \in R <=> i <= Len(q[k[1]]) /\ k \in q[k[1]][i].down /\ ~Before(t, q, k, i)
    BY DEF Pending
  <2>3. CASE k[1] # n
    <3>1. q2[k[1]] = q[k[1]]
      BY <1>1, <2>1, <2>3 DEF Extended
    <3>2. Before(t, q2, k, i) <=> Before(t, q, k, i)
      BY <3>1 DEF Before
    <3>3. k \notin N
      BY <2>3 DEF At
    <3> QED BY <2>2, <3>1, <3>2, <3>3
  <2>4. CASE k[1] = n
    <3>1. k \in At(n)
      BY <2>1, <2>4 DEF At
    <3>2. /\ Len(q2[n]) = m + 1 /\ q2[n][m + 1] = r
          /\ \A j \in 1..m : q2[n][j] = q[n][j]
          /\ \A j \in 1..(m + 1) : Before(t, q2, k, j) <=> Before(t, q, k, j)
      BY <1>1, <3>1 DEF Extended
    <3>3. k \in N <=> k \in now /\ ~Before(t, q, k, m + 1)
      <4>1. k \in z <=> Before(t, q, k, m + 1)
        BY <2>4 DEF Tracks
      <4> QED BY <3>1, <4>1 DEF Changed
    <3> HIDE DEF S, R, N, m
    <3>4. CASE i < m + 1
      <4>1. i \in 1..m /\ i \in 1..(m + 1) /\ i <= m /\ i <= m + 1 /\ i # m + 1
        BY <1>1, <3>4
      <4>2. q2[n][i] = q[n][i] /\ (Before(t, q2, k, i) <=> Before(t, q, k, i))
        BY <3>2, <4>1
      <4> QED BY <2>2, <2>4, <3>2, <4>1, <4>2 DEF m
    <3>5. CASE i = m + 1
      <4>1. ~(i <= m) /\ i <= m + 1 /\ i \in 1..(m + 1)
        BY <1>1, <3>5
      <4>2. <<k, i>> \notin R
        BY <2>2, <2>4, <4>1 DEF m
      <4>3. <<k, i>> \in S <=> k \in now /\ ~Before(t, q, k, m + 1)
        BY <2>2, <2>4, <3>2, <3>5, <4>1
      <4> QED BY <3>3, <3>5, <4>2, <4>3
    <3>6. CASE i > m + 1
      <4>1. ~(i <= m) /\ ~(i <= m + 1) /\ i # m + 1
        BY <1>1, <3>6
      <4> QED BY <2>2, <2>4, <3>2, <4>1 DEF m
    <3> QED BY <1>1, <3>4, <3>5, <3>6
  <2> QED BY <2>3, <2>4
<1>3. ASSUME NEW k \in KeysOf[c], NEW i \in 1..MaxNet
      PROVE  <<k, i>> \in U <=> k \in N /\ i = m + 1
  <2> HIDE DEF N, m
  <2> QED OBVIOUS
<1>4. R \cap U = {}
  <2> SUFFICES ASSUME NEW p \in R, p \in U PROVE FALSE
    OBVIOUS
  <2>1. PICK k \in N : p = <<k, m + 1>>
    OBVIOUS
  <2>2. m + 1 <= Len(q[k[1]])
    BY <2>1 DEF Pending
  <2>3. k[1] = n
    BY DEF At
  <2> QED BY <1>1, <2>2, <2>3
<1>5. S = R \cup U
  <2>1. R \cup U \subseteq KeysOf[c] \X (1..MaxNet)
    <3>1. N \subseteq KeysOf[c]
      OBVIOUS
    <3> HIDE DEF N, m, R
    <3> QED BY <1>1, <3>1, PendingIn DEF R
  <2> HIDE DEF S, R, U, N, m
  <2>2. Same(c, S, R \cup U)
    BY <1>2, <1>3 DEF Same
  <2>3. S \subseteq KeysOf[c] \X (1..MaxNet)
    BY PendingIn DEF S
  <2> QED BY <2>1, <2>2, <2>3, SamePending
<1>6. IsFiniteSet(N) /\ Cardinality(N) \in Nat
  <2>1. N \subseteq Key
    BY KeysOfAre
  <2> HIDE DEF N
  <2>2. IsFiniteSet(N)
    BY <2>1, KeyIsFinite, FS_Subset
  <2> QED BY <2>2, FS_CardinalityType
<1>7. IsFiniteSet(R) /\ Cardinality(R) \in Nat
  BY PendingFinite
<1> HIDE DEF N, S, R
<1>8. IsFiniteSet(U) /\ Cardinality(U) = Cardinality(N)
  BY <1>6, TaggedCount
<1> HIDE DEF U
<1>9. Cardinality(R \cup U) = Cardinality(R) + Cardinality(U)
  <2>1. Cardinality(R \cup U) = Cardinality(R) + Cardinality(U) - Cardinality(R \cap U)
    BY <1>7, <1>8, FS_Union
  <2>2. Cardinality(R \cap U) = 0
    BY <1>4, FS_EmptySet
  <2> QED BY <1>6, <1>7, <1>8, <2>1, <2>2
<1>10. Cardinality(N) \in Nat /\ Cardinality(S) = Cardinality(R) + Cardinality(N)
  BY <1>5, <1>6, <1>8, <1>9
<1> QED BY <1>10 DEF N, S, R, Grows

-----------------------------------------------------------------------------
(* The invariant: of a cycle that missed nothing, the state and what is    *)
(* under way make up what was pressed.                                     *)
CountOf(c, s, t, q, z, total) ==
  Tracks(t, q, z, c) /\ Makes(s, Cardinality(Pending(t, q, c)), total)
CountInv ==
  /\ HouseInv
  /\ \A c \in Cycles \ missed : CountOf(c, closure[c].state, told, net, sampled, presses[c])

LEMMA NetIsNets == HouseInv => net \in Nets
BY DEF HouseInv, Others, Nets

LEMMA DropCounts ==
  ASSUME NEW c \in Closures, NEW s, NEW t, NEW q \in Nets, NEW z, NEW total,
         CountOf(c, s, t, q, z, total), NEW n \in Walls, q[n] # << >>, Heard(t, q, n, c),
         NEW q2, q2 = Dropped(q, n)
  PROVE  CountOf(c, s, t, q2, z, total)
<1>1. Tracks(t, q, z, c) /\ Makes(s, Cardinality(Pending(t, q, c)), total)
  BY DEF CountOf
<1>2. Tracks(t, q2, z, c)
  BY <1>1, DropTracks
<1>3. Cardinality(Pending(t, q2, c)) = Cardinality(Pending(t, q, c))
  BY DropPending
<1> QED BY <1>1, <1>2, <1>3 DEF CountOf

LEMMA AddCounts ==
  ASSUME NEW c \in Closures, NEW s, NEW t, NEW q \in Nets, NEW z, NEW total,
         CountOf(c, s, t, q, z, total), NEW n \in Walls, Len(q[n]) < MaxNet,
         NEW now \in SUBSET At(n), NEW r \in Report,
         r.ports = {Port[k] : k \in Changed(n, now, z)}, r.down = now,
         NEW q2, q2 = Added(q, n, r)
  PROVE  CountOf(c, s, t, q2, Sampled(n, now, z),
                 (total + Cardinality(KeysOf[c] \cap Changed(n, now, z) \cap now)) % 4)
<1>1. Tracks(t, q, z, c) /\ Makes(s, Cardinality(Pending(t, q, c)), total)
  BY DEF CountOf
<1>2. Tracks(t, q2, Sampled(n, now, z), c)
  BY <1>1, AddTracks
<1>a. Grows(Pending(t, q, c), Pending(t, q2, c), KeysOf[c] \cap Changed(n, now, z) \cap now)
  BY <1>1, AddPending
<1> DEFINE p == Cardinality(Pending(t, q, c))
           d == Cardinality(KeysOf[c] \cap Changed(n, now, z) \cap now)
<1>3. d \in Nat /\ Cardinality(Pending(t, q2, c)) = p + d
  BY <1>a DEF Grows
<1>4. p \in Nat
  BY PendingFinite
<1>5. Makes(s, p, total)
  BY <1>1
<1> HIDE DEF p, d
<1>6. s \in Nat /\ s \in 0..3 /\ (s + p) % 4 = total
  BY <1>5 DEF Makes
<1>7. s + (p + d) = (s + p) + d /\ s + p \in Nat
  BY <1>3, <1>4, <1>6
<1>8. (s + (p + d)) % 4 = (total + d) % 4
  BY <1>3, <1>6, <1>7, Mod4
<1>9. Makes(s, p + d, (total + d) % 4)
  BY <1>6, <1>8 DEF Makes
<1> QED BY <1>2, <1>3, <1>9 DEF CountOf, d

LEMMA CountInit == Init => CountInv
<1> SUFFICES ASSUME Init PROVE CountInv
  OBVIOUS
<1>1. HouseInv
  BY HouseInit
<1>2. ASSUME NEW c \in Cycles PROVE CountOf(c, closure[c].state, told, net, sampled, presses[c])
  <2>1. c \in Closures /\ closure[c].state = 0 /\ presses[c] = 0
    BY CyclesAre DEF Init, Fresh
  <2>2. \A k \in KeysOf[c] : k \in Key /\ net[k[1]] = << >> /\ told[k] = -1 /\ k \notin sampled
    BY <2>1, KeysOfAre, KeyWalls DEF Init
  <2>3. Tracks(told, net, sampled, c) /\ Pending(told, net, c) = {}
    BY <2>2 DEF Tracks, Pending, Before
  <2>4. Cardinality(Pending(told, net, c)) = 0
    BY <2>3, FS_EmptySet
  <2>5. Makes(0, 0, 0)
    BY DEF Makes
  <2> QED BY <2>1, <2>3, <2>4, <2>5 DEF CountOf
<1> QED BY <1>1, <1>2 DEF CountInv

LEMMA CountImplies == CountInv => PressesCount
<1> SUFFICES ASSUME CountInv, NEW c \in Cycles, c \notin missed,
                    \A k \in KeysOf[c] : net[k[1]] = << >>
             PROVE  closure[c].state = presses[c]
  BY DEF PressesCount
<1>1. Pending(told, net, c) = {}
  BY DEF Pending
<1>2. Cardinality(Pending(told, net, c)) = 0
  BY <1>1, FS_EmptySet
<1>3. Makes(closure[c].state, 0, presses[c])
  BY <1>2 DEF CountInv, CountOf
<1> QED BY <1>3 DEF Makes

(* A report is handled: the presses in it, that were pending, are counted. *)
LEMMA DispatchCounts ==
  ASSUME HouseInv, NEW c \in Cycles, NEW n \in Walls, net[n] # << >>, Dispatch(n, Head(net[n])),
         CountOf(c, closure[c].state, told, net, sampled, presses[c])
  PROVE  /\ CountOf(c, closure'[c].state, told', net, sampled, presses[c])
         /\ Heard(told', net, n, c)
<1>1. net \in Nets /\ told \in [Key -> {-1, 0, 1}] /\ Sound(Now) /\ c \in Closures
  BY NetIsNets, CyclesAre DEF HouseInv, Sound, Now
<1>2. Tracks(told, net, sampled, c)
      /\ Makes(closure[c].state, Cardinality(Pending(told, net, c)), presses[c])
  BY DEF CountOf
<1>3. Counted(Now, net, c, presses[c])
  BY <1>1, <1>2 DEF Counted, Now
<1> DEFINE y == After(n, Head(net[n]))
<1>4. told' = y.told /\ closure' = y.closure
  BY DispatchIs
<1>5. Counted(y, net, c, presses[c])
  BY <1>1, <1>3, AfterCounts
<1>6. y.told = Told(told, At(n), Head(net[n]))
  BY <1>1, AfterTold
<1> HIDE DEF y
<1>7. Tracks(y.told, net, sampled, c) /\ Heard(y.told, net, n, c)
  BY <1>1, <1>2, <1>6, ToldTracks
<1> QED BY <1>4, <1>5, <1>7 DEF Counted, CountOf

LEMMA DeliverCounts ==
  ASSUME CountInv, NEW n \in Walls, Deliver(n) \/ DeliverTwice(n)
  PROVE  \A c \in Cycles \ missed' :
           CountOf(c, closure'[c].state, told', net', sampled', presses'[c])
<1> SUFFICES ASSUME NEW c \in Cycles, c \notin missed'
             PROVE  CountOf(c, closure'[c].state, told', net', sampled', presses'[c])
  OBVIOUS
<1>1. /\ net[n] # << >> /\ Dispatch(n, Head(net[n]))
      /\ sampled' = sampled /\ presses' = presses /\ missed' = missed
  BY DEF Deliver, DeliverTwice, device, history
<1>2. HouseInv /\ c \in Closures /\ net \in Nets
      /\ CountOf(c, closure[c].state, told, net, sampled, presses[c])
  BY <1>1, NetIsNets, CyclesAre DEF CountInv
<1>3. CountOf(c, closure'[c].state, told', net, sampled, presses[c]) /\ Heard(told', net, n, c)
  BY <1>1, <1>2, DispatchCounts
<1>4. CASE Deliver(n)
  <2>1. net' = Dropped(net, n)
    BY <1>4 DEF Deliver, Dropped
  <2>2. PICK q2 : q2 = net'
    OBVIOUS
  <2>3. CountOf(c, closure'[c].state, told', q2, sampled, presses[c])
    BY <1>1, <1>2, <1>3, <2>1, <2>2, DropCounts
  <2> QED BY <1>1, <2>2, <2>3
<1>5. CASE DeliverTwice(n)
  <2>1. net' = net
    BY <1>5 DEF DeliverTwice, device
  <2> QED BY <1>1, <1>3, <2>1
<1> QED BY <1>4, <1>5

(* A report is lost: it did not name the keys of a handler that missed     *)
(* nothing, and says of them what the controller knows.                    *)
LEMMA LoseCounts ==
  ASSUME CountInv, NEW n \in Walls, Lose(n)
  PROVE  \A c \in Cycles \ missed' :
           CountOf(c, closure'[c].state, told', net', sampled', presses'[c])
<1> SUFFICES ASSUME NEW c \in Cycles, c \notin missed'
             PROVE  CountOf(c, closure'[c].state, told', net', sampled', presses'[c])
  OBVIOUS
<1>1. /\ net[n] # << >> /\ net' = Dropped(net, n)
      /\ UNCHANGED <<sampled, presses, closure, told>>
      /\ c \notin missed /\ \A k \in KeysOf[c] : k[1] = n => Port[k] \notin Head(net[n]).ports
  BY DEF Lose, Dropped
<1>2. net \in Nets /\ c \in Closures /\ CountOf(c, closure[c].state, told, net, sampled, presses[c])
  BY <1>1, NetIsNets, CyclesAre DEF CountInv
<1>3. Heard(told, net, n, c)
  BY <1>1, <1>2, LoseHeard DEF CountOf
<1>4. PICK q2 : q2 = net'
  OBVIOUS
<1>5. CountOf(c, closure[c].state, told, q2, sampled, presses[c])
  BY <1>1, <1>2, <1>3, <1>4, DropCounts
<1> QED BY <1>1, <1>4, <1>5

LEMMA SampleCounts ==
  ASSUME CountInv, NEW n \in Walls, Sample(n)
  PROVE  \A c \in Cycles \ missed' :
           CountOf(c, closure'[c].state, told', net', sampled', presses'[c])
<1> SUFFICES ASSUME NEW c \in Cycles, c \notin missed'
             PROVE  CountOf(c, closure'[c].state, told', net', sampled', presses'[c])
  OBVIOUS
<1>1. PICK now \in SUBSET (used.keys \cap At(n)) :
        /\ sampled' = Sampled(n, now, sampled)
        /\ net' = [net EXCEPT ![n] = Append(@, [ports |-> {Port[k] : k \in Changed(n, now, sampled)},
                                                down |-> now])]
        /\ presses' = [d \in Cycles |->
             (presses[d] + Cardinality(KeysOf[d] \cap Changed(n, now, sampled) \cap now)) % 4]
  BY DEF Sample, Changed, Sampled
<1>2. PICK r : r = [ports |-> {Port[k] : k \in Changed(n, now, sampled)}, down |-> now]
  OBVIOUS
<1>3. /\ UNCHANGED <<told, closure, missed>> /\ Len(net[n]) < MaxNet
      /\ net' = Added(net, n, r) /\ now \in SUBSET At(n)
  BY <1>1, <1>2 DEF Sample, Added
<1>4. r \in Report
  <2>1. Changed(n, now, sampled) \subseteq Key /\ now \subseteq Key
    BY <1>3 DEF Changed, At
  <2>2. DOMAIN Port = Key
    BY DEF Port
  <2> QED BY <1>2, <2>1, <2>2 DEF Report, Range
<1>5. net \in Nets /\ c \in Closures /\ CountOf(c, closure[c].state, told, net, sampled, presses[c])
  BY <1>3, NetIsNets, CyclesAre DEF CountInv
<1>6. PICK q2 : q2 = net'
  OBVIOUS
<1>7. r.ports = {Port[k] : k \in Changed(n, now, sampled)} /\ r.down = now
  BY <1>2
<1>8. CountOf(c, closure[c].state, told, q2, Sampled(n, now, sampled),
              (presses[c] + Cardinality(KeysOf[c] \cap Changed(n, now, sampled) \cap now)) % 4)
  BY <1>3, <1>4, <1>5, <1>6, <1>7, AddCounts
<1>9. presses'[c]
        = (presses[c] + Cardinality(KeysOf[c] \cap Changed(n, now, sampled) \cap now)) % 4
  BY <1>1
<1> QED BY <1>1, <1>3, <1>6, <1>8, <1>9

(* The timers leave the state of a closure as it is.                       *)
LEMMA TimersCount ==
  ASSUME CountInv, NEW e \in Closures, Timer(e) \/ Gradient(e)
  PROVE  \A c \in Cycles \ missed' :
           CountOf(c, closure'[c].state, told', net', sampled', presses'[c])
<1>1. UNCHANGED <<told, net, sampled, presses, missed>>
  BY DEF Timer, Gradient, device, history
<1>2. closure \in [Closures -> Variables]
  BY DEF CountInv, HouseInv, Sound, Now
<1>3. StartFires(closure[e]).state = closure[e].state /\ Step(closure[e]).state = closure[e].state
  BY <1>2, StartFiresKeeps, StepKeeps
<1>4. \/ closure' = closure
      \/ closure' = [closure EXCEPT ![e] = StartFires(closure[e])]
      \/ closure' = [closure EXCEPT ![e] = Step(closure[e])]
  BY DEF Timer, Gradient
<1>5. \A c \in Closures : closure'[c].state = closure[c].state
  BY <1>2, <1>3, <1>4
<1> QED BY <1>1, <1>5, CyclesAre DEF CountInv

(* A service is reloaded: a handler of it that missed nothing starts with  *)
(* its keys up and nothing under way; those of others hear of no change.   *)
LEMMA ReloadCounts ==
  ASSUME CountInv, NEW s, reloadService(s)
  PROVE  \A c \in Cycles \ missed' :
           CountOf(c, closure'[c].state, told', net', sampled', presses'[c])
<1> SUFFICES ASSUME NEW c \in Cycles, c \notin missed'
             PROVE  CountOf(c, closure'[c].state, told', net', sampled', presses'[c])
  OBVIOUS
<1> DEFINE mine == {d \in Closures : d.service = s}
           keys == {k \in Key : HandlersOf[k] \cap mine # {}}
<1>1. /\ told' = [k \in Key |-> IF k \in keys THEN -1 ELSE told[k]]
      /\ closure' = [d \in Closures |-> IF d \in mine THEN Fresh ELSE closure[d]]
      /\ presses' = [d \in Cycles |-> IF d \in mine THEN 0 ELSE presses[d]]
      /\ missed' = missed \cup {d \in mine \cap (Cycles \cup Colours) : \E k \in KeysOf[d] :
                                     k \in sampled \/ net[k[1]] # << >>}
      /\ UNCHANGED <<net, sampled>>
  BY DEF reloadService, device
<1>2. c \in Closures /\ c \notin missed /\ KeysOf[c] \subseteq Key
  BY <1>1, CyclesAre, KeysOfAre
<1>3. CASE c \in mine
  <2>1. \A k \in KeysOf[c] : k \in Key /\ k \notin sampled /\ net[k[1]] = << >>
    BY <1>1, <1>2, <1>3
  <2>2. \A k \in KeysOf[c] : told'[k] = -1
    <3>1. \A k \in KeysOf[c] : k \in keys
      BY <1>2, <1>3, KeysOfHandlers
    <3> QED BY <1>1, <1>2, <3>1
  <2>3. closure'[c].state = 0 /\ presses'[c] = 0
    BY <1>1, <1>2, <1>3, FreshIs
  <2>4. Tracks(told', net, sampled, c) /\ Pending(told', net, c) = {}
    BY <2>1, <2>2 DEF Tracks, Pending, Before
  <2>5. Cardinality(Pending(told', net, c)) = 0
    BY <2>4, FS_EmptySet
  <2>6. Makes(0, 0, 0)
    BY DEF Makes
  <2> QED BY <1>1, <2>3, <2>4, <2>5, <2>6 DEF CountOf
<1>4. CASE c \notin mine
  <2>1. \A k \in KeysOf[c] : k \notin keys
    <3> SUFFICES ASSUME NEW k \in KeysOf[c], k \in keys PROVE FALSE
      OBVIOUS
    <3>1. PICK d \in HandlersOf[k] : d \in mine
      OBVIOUS
    <3>2. c \in HandlersOf[k]
      BY <1>2, KeysOfHandlers
    <3> QED BY <1>2, <1>4, <3>1, <3>2, OneServiceAKey
  <2>2. \A k \in KeysOf[c] : told'[k] = told[k]
    BY <1>1, <1>2, <2>1
  <2>3. PICK u : u = told'
    OBVIOUS
  <2>4. \A k \in KeysOf[c] : \A i : Before(u, net, k, i) <=> Before(told, net, k, i)
    BY <2>2, <2>3 DEF Before
  <2>5. CountOf(c, closure[c].state, told, net, sampled, presses[c])
    BY <1>2 DEF CountInv
  <2>6. Tracks(u, net, sampled, c)
    BY <2>4, <2>5 DEF Tracks, CountOf
  <2>7. Pending(u, net, c) = Pending(told, net, c)
    <3>1. Same(c, Pending(u, net, c), Pending(told, net, c))
      BY <2>4 DEF Same, Pending
    <3> QED BY <3>1, PendingIn, SamePending
  <2>8. closure'[c] = closure[c] /\ presses'[c] = presses[c]
    BY <1>1, <1>2, <1>4
  <2> QED BY <1>1, <2>3, <2>5, <2>6, <2>7, <2>8 DEF CountOf
<1> QED BY <1>3, <1>4

LEMMA CountStep == CountInv /\ [Next]_vars => CountInv'
<1> SUFFICES ASSUME CountInv, [Next]_vars PROVE CountInv'
  OBVIOUS
<1>1. HouseInv'
  BY HouseStep DEF CountInv
<1>2. SUFFICES \A c \in Cycles \ missed' :
                 CountOf(c, closure'[c].state, told', net', sampled', presses'[c])
  BY <1>1 DEF CountInv
<1>3. CASE \E n \in Walls : Sample(n)
  BY <1>3, SampleCounts
<1>4. CASE \E n \in Walls : Deliver(n) \/ DeliverTwice(n)
  BY <1>4, DeliverCounts
<1>5. CASE \E n \in Walls : Lose(n)
  BY <1>5, LoseCounts
<1>6. CASE \E c \in Closures : Timer(c) \/ Gradient(c)
  BY <1>6, TimersCount
<1>7. CASE \E s \in {c.service : c \in Closures} : reloadService(s)
  BY <1>7, ReloadCounts
<1>8. CASE UNCHANGED vars
  BY <1>8 DEF CountInv, vars, device, history
<1> QED BY <1>3, <1>4, <1>5, <1>6, <1>7, <1>8 DEF Next

(* A cycle advances once for every press that is reported, whatever order  *)
(* reports of its keys come in, however often they come, and with which    *)
(* other keys: what is under way makes up the difference.                  *)
THEOREM PressesCountSafe == Spec => []PressesCount
BY CountInit, CountStep, CountImplies, PTL DEF Spec
=============================================================================

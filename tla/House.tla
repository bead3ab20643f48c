------------------------------- MODULE House -------------------------------
(***************************************************************************)
(* The installation the controller is written for, as the services of      *)
(* controller/src/impl register it: which service adds which node, with    *)
(* which id, what hangs on its interfaces (key, pin, direction, tags), and *)
(* which selections a service makes when it starts.  Data only; Services   *)
(* and Buttons are about what happens to it.                               *)
(***************************************************************************)
EXTENDS Integers, Sequences, FiniteSets

Items == <<"helper", "kitchen", "office", "living", "room">>
Service == {Items[i] : i \in 1..Len(Items)}

(* Every "digital in" is tagged "switch in", every output "out".           *)
Io(k, ty, d, p, t) ==
  [key |-> k, type |-> ty, direction |-> d, port |-> p[1], bit |-> p[2], tags |-> t]
In(k, p, t)  == Io(k, "digital", "in", p, {"switch", "in"} \cup t)
Out(k, p, t) == Io(k, "digital", "out", p, {"out"} \cup t)
Pwm(k, p, t) == Io(k, "pwm", "out", p, {"out"} \cup t)

(* A switch: four keys, and a lamp (of some colour) behind each.           *)
Side == << {"left", "top"}, {"right", "top"}, {"left", "bottom"}, {"right", "bottom"} >>
KeyName  == << "b1", "b2", "b3", "b4" >>
LampName == << "led-b1", "led-b2", "led-b3", "led-b4" >>
Switch(keys, lamps, colour) ==
  {In(KeyName[i], keys[i], Side[i]) : i \in 1..4}
    \cup {Out(LampName[i], lamps[i], {"led"} \cup Side[i] \cup colour[i]) : i \in 1..4}

(* Most switches are wired alike.                                          *)
KeyPins  == << <<2, 5>>, <<1, 2>>, <<2, 4>>, <<1, 3>> >>
LampPins == << <<3, 4>>, <<2, 1>>, <<2, 3>>, <<3, 3>> >>

Interface(n, i, d, t, ios) == [node |-> n, key |-> i, id |-> d, tags |-> t, ios |-> ios]
WallSwitch(n, colour) == Interface(n, "interface", 0, {}, Switch(KeyPins, LampPins, colour))
Node(n, d) == [key |-> n, id |-> d]

(* A selection is a sequence of terms, by key or by tags.                  *)
K(k) == [key |-> k, tags |-> {}]
T(t) == [key |-> "", tags |-> t]
OutsOf(n) == << K(n), T({"out"}) >>

(* on("change", ...) of a key: what kind of handler, under which name its  *)
(* service keeps the state, and the selections it drives.                  *)
Wire(n, b, h) == [node |-> n, io |-> b, handler |-> h]
Handler(kind, state, targets) == [kind |-> kind, state |-> state, targets |-> targets]
allDownFn == Handler("allDown", "", << << T({"out"}) >>, << T({"rgb"}) >> >>)
Circuits(t, x, y, z) == << << t, T({x}) >>, << t, T({y}) >>, << t, T({z}) >> >>
Whites(t) == Circuits(t, "white1", "white2", "white3")
Outs(t)   == Circuits(t, "out1", "out2", "out3")

-----------------------------------------------------------------------------
(* kitchen-service.js *)
kitchenNodes == << Node("kitchen-lightning", 20) >>
kitchenHardware ==
  LET Pins == { <<"led-2", 1, 1>>, <<"led-4", 1, 3>>, <<"led-6", 3, 3>>, <<"led-7", 3, 5>>,
                <<"iled-2", 2, 3>>, <<"iled-4", 2, 4>>, <<"iled-6", 1, 0>>, <<"iled-7", 1, 2>>,
                <<"eled-2", 1, 4>>, <<"eled-4", 3, 6>>, <<"eled-6", 3, 4>>, <<"eled-7", 2, 5>> }
  IN { Interface("kitchen-lightning", "interface", 0, {},
                 {Out(p[1], <<p[2], p[3]>>, {"white"}) : p \in Pins}) }

kitchenResets == << OutsOf("kitchen-lightning") >>

(* office-service.js *)
officeNodes == << Node("main-led-office", 18), Node("office-east", 26), Node("office-west", 27) >>
officeHardware ==
  LET OfficeSwitch(n) ==
        Interface(n, "interface", 0, {},
          Switch(<< <<1, 3>>, <<2, 4>>, <<1, 2>>, <<2, 5>> >>,
                 << <<3, 3>>, <<2, 3>>, <<2, 1>>, <<3, 4>> >>,
                 << {"blue"}, {"red"}, {"green"}, {"orange"} >>))
  IN { Interface("main-led-office", "interface", 0, {},
                 { Out("led-1", <<2, 3>>, {"white3"}), Out("led-2", <<3, 4>>, {"white2"}),
                   Out("led-3", <<2, 5>>, {"white1"}) }),
       OfficeSwitch("office-east"), OfficeSwitch("office-west") }

officeResets == << OutsOf("main-led-office"), OutsOf("office-east"), OutsOf("office-west") >>
officeWires ==
  LET cycleFn == Handler("cycle", "mainLEDCycle", Whites(K("main-led-office")))
      colour(key, t) == Handler("colorCycle", key, << << t, T({"rgb"}) >> >>)
  IN { Wire("office-east", "b1", cycleFn), Wire("office-west", "b1", cycleFn),
       Wire("office-east", "b4", colour("color3", T({"room"}))),
       Wire("office-west", "b3", colour("color1", K("main-led-north"))),
       Wire("office-west", "b4", colour("color2", K("main-led-south"))) }

(* living-service.js; the bars differ in where blue and green are wired.   *)
livingNodes == << Node("main-led-north", 16), Node("main-led-south", 17), Node("living-fire", 24),
                 Node("hall-east", 21), Node("hall-west", 29) >>
livingHardware ==
  LET Bar(n, i, c1, c2) ==
        Interface(n, i, IF i = "interface-living" THEN 0 ELSE 1, {},
          { Pwm("led-1", <<2, 1>>, {"red", "rgb"}), Out("led-2", <<2, 3>>, {"out2", "white"}),
            Pwm("led-3", <<3, 3>>, {c1, "rgb"}), Pwm("led-4", <<3, 5>>, {"out1", "white"}),
            Pwm("led-5", <<3, 6>>, {c2, "rgb"}), Out("led-6", <<2, 4>>, {"out3", "white"}) })
  IN { Bar("main-led-north", "interface-living", "blue", "green"),
       Bar("main-led-north", "interface-dining", "blue", "green"),
       Bar("main-led-south", "interface-living", "green", "blue"),
       Bar("main-led-south", "interface-dining", "blue", "green"),
       WallSwitch("living-fire", << {"blue"}, {"green"}, {"red"}, {"orange"} >>),
       WallSwitch("hall-east", << {"orange", "hall"}, {"green", "ok", "hall"},
                                  {"red", "hall"}, {"blue", "ok", "hall"} >>),
       WallSwitch("hall-west", << {"blue", "ok", "hall"}, {"orange", "ok", "hall"},
                                  {"green", "ok", "hall"}, {"red", "hall"} >>) }

livingResets ==
  << << T({"hall", "out"}) >>, OutsOf("living-fire"), << K("living-fire"), T({"orange"}) >>,
     OutsOf("interface-living"), OutsOf("interface-dining") >>
livingWires ==
  LET cycleLEDs(i) == Handler("cycleLEDs", i, Outs(K(i)))
      level(key, i) == Handler("level", key, << << K(i), T({"out1"}) >> >>)
      Both == {"interface-living", "interface-dining"}
  IN { Wire(n, "b2", cycleLEDs("interface-living")) : n \in {"living-fire", "hall-east", "hall-west"} }
     \cup { Wire(n, "b1", cycleLEDs("interface-dining")) : n \in {"living-fire", "hall-east", "hall-west"} }
     \cup { Wire("dressing", "b3", cycleLEDs(i)) : i \in Both }
     \cup { Wire("office-west", "b2", cycleLEDs(i)) : i \in Both }
     \cup { Wire("hall-east", "b4", allDownFn),
            Wire("living-fire", "b4", level("livingPWM", "interface-living")),
            Wire("living-fire", "b3", level("diningPWM", "interface-dining")) }

(* room-service.js *)
roomNodes == << Node("room-led", 15), Node("room-led-2", 14), Node("room-north", 23),
               Node("room-south", 22), Node("dressing", 30) >>
roomHardware ==
  LET Bar(n) ==
        Interface(n, "interface-south", 0, {"room"},
          { Pwm("led-1", <<2, 1>>, {"red", "rgb"}), Out("led-2", <<2, 3>>, {"white1"}),
            Pwm("led-3", <<3, 3>>, {"green", "rgb"}), Out("led-4", <<3, 5>>, {"white2"}),
            Pwm("led-5", <<3, 6>>, {"blue", "rgb"}), Out("led-6", <<2, 4>>, {"white3"}) })
      Colours == << {"blue"}, {"red"}, {"green"}, {"orange"} >>
  IN { Bar("room-led"), Bar("room-led-2"), WallSwitch("room-north", Colours),
       WallSwitch("room-south", Colours), WallSwitch("dressing", Colours) }
roomResets ==
  << OutsOf("room-north"), OutsOf("room-south"), OutsOf("dressing"),
     << T({"room"}), T({"out"}) >>, << T({"room"}), T({"rgb"}) >> >>
roomWires ==
  LET cycleFn == Handler("cycle", "mainLEDCycle", Whites(T({"room"})))
      colour(key, n) == Handler("colorCycle", key, << << K(n), T({"rgb"}) >> >>)
      sides == {"room-north", "room-south"}
  IN { Wire(n, "b1", cycleFn) : n \in sides }
     \cup { Wire("office-east", "b3", cycleFn), Wire("dressing", "b4", cycleFn) }
     \cup { Wire(n, "b2", allDownFn) : n \in sides }
     \cup { Wire(n, "b3", colour("color1", "room-led")) : n \in sides }
     \cup { Wire(n, "b4", colour("color2", "room-led-2")) : n \in sides }

-----------------------------------------------------------------------------
ByService(k, o, l, r, none) ==
  [s \in Service |-> CASE s = "kitchen" -> k [] s = "office" -> o
                       [] s = "living" -> l [] s = "room" -> r [] OTHER -> none]
Nodes    == ByService(kitchenNodes, officeNodes, livingNodes, roomNodes, << >>)
Hardware == ByService(kitchenHardware, officeHardware, livingHardware, roomHardware, {})
Resets   == ByService(kitchenResets, officeResets, livingResets, roomResets, << >>)
Wires    == ByService({}, officeWires, livingWires, roomWires, {})

(* Every input and output with where it is, and which of them a selection  *)
(* of one or two terms finds once all are registered (Selector is about    *)
(* how): the first term may match the node, the interface or the IO.       *)
AllIos == UNION { UNION { {[node |-> i.node, interface |-> i, io |-> o] : o \in i.ios} :
                            i \in Hardware[s] } : s \in Service }
Matches(object, term) == /\ term.key \in {"", object.key}
                         /\ term.tags \subseteq object.tags
Selected(sel) ==
  {x \in AllIos : /\ Matches(x.io, sel[Len(sel)])
                  /\ \E above \in {x.io, x.interface, [key |-> x.node, tags |-> {}]} :
                       Matches(above, sel[1])}
=============================================================================

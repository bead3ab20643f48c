--------------------------- MODULE ServicesProofs ---------------------------
(***************************************************************************)
(* Proofs about Services, for every number of reloads and of failures:     *)
(* every variable keeps its type, a key is answered by one generation of   *)
(* its service, no node is added twice, and no search is made too early.   *)
(***************************************************************************)
EXTENDS Services, SequenceTheorems, TLAPS

(* The callbacks of a service are at most those of one run, made by the    *)
(* instance that lives. (That a service may only be run while it does not  *)
(* run is what keeps this: a stopped service has no callbacks.)            *)
OneRun(s) ==
  \/ callbacks[s] = << >>
  \/ /\ running[s] /\ loaded[s]
     /\ \E w : callbacks[s] = << [gen |-> live[s], wires |-> w] >>

GenInv ==
  /\ DOMAIN loaded = Service /\ DOMAIN running = Service
  /\ DOMAIN live = Service /\ DOMAIN callbacks = Service
  /\ \A s \in Service : OneRun(s)

LEMMA GenInvInit == Init => GenInv
BY DEF Init, GenInv, OneRun

LEMMA GenInvImplies == GenInv => OneGeneration
<1> SUFFICES ASSUME GenInv, NEW s \in Service
             PROVE  /\ Len(callbacks[s]) <= 1
                    /\ callbacks[s] # << >> =>
                         running[s] /\ loaded[s] /\ callbacks[s][1].gen = live[s]
  BY DEF OneGeneration
<1>1. OneRun(s)
  BY DEF GenInv
<1>2. CASE callbacks[s] = << >>
  BY <1>2
<1>3. CASE callbacks[s] # << >>
  <2>1. PICK w : callbacks[s] = << [gen |-> live[s], wires |-> w] >>
    BY <1>1, <1>3 DEF OneRun
  <2>2. Len(callbacks[s]) = 1 /\ callbacks[s][1] = [gen |-> live[s], wires |-> w]
    BY <2>1
  <2> QED BY <1>1, <1>3, <2>2 DEF OneRun
<1> QED BY <1>2, <1>3

(* Loading a service that has callbacks changes nothing: it is loaded.     *)
LEMMA LoadKeeps ==
  ASSUME GenInv, NEW s, Load(s), UNCHANGED <<running, callbacks>>
  PROVE  GenInv'
<1>1. DOMAIN loaded' = Service /\ DOMAIN live' = Service
  BY DEF GenInv, Load
<1>2. ASSUME NEW t \in Service PROVE OneRun(t)'
  <2>1. OneRun(t)
    BY DEF GenInv
  <2>2. CASE callbacks[t] = << >>
    BY <2>2 DEF OneRun
  <2>3. CASE callbacks[t] # << >>
    <3>1. running[t] /\ loaded[t]
      BY <2>1, <2>3 DEF OneRun
    <3>2. live'[t] = live[t] /\ loaded'[t]
      BY <3>1 DEF GenInv, Load
    <3> QED BY <2>1, <2>3, <3>1, <3>2 DEF OneRun
  <2> QED BY <2>2, <2>3
<1> QED BY <1>1, <1>2 DEF GenInv

LEMMA RunKeeps ==
  ASSUME GenInv, NEW c, NEW s, ~running[s], Load(s), run(c, s)
  PROVE  GenInv'
<1>1. /\ DOMAIN loaded' = Service /\ DOMAIN live' = Service
      /\ DOMAIN running' = Service /\ DOMAIN callbacks' = Service
  BY DEF GenInv, Load, run, Starts, FailsToStart
<1>2. ASSUME NEW t \in Service PROVE OneRun(t)'
  <2>1. OneRun(t)
    BY DEF GenInv
  <2>2. CASE t # s
    <3>1. /\ running'[t] = running[t] /\ callbacks'[t] = callbacks[t]
          /\ loaded'[t] = loaded[t] /\ live'[t] = live[t]
      BY <2>2 DEF GenInv, Load, run, Starts, FailsToStart
    <3> QED BY <2>1, <3>1 DEF OneRun
  <2>3. CASE t = s
    <3>1. callbacks[t] = << >>
      BY <2>1, <2>3 DEF OneRun
    <3>2. running'[t] /\ loaded'[t]
      BY <2>3 DEF GenInv, Load, run
    <3>3. CASE FailsToStart(c, s)
      BY <3>1, <3>3 DEF FailsToStart, OneRun
    <3>4. CASE Starts(c, s)
      <4> DEFINE W == {w \in Wires[s] : w.node \in cache'[K(w.node)]}
      <4>1. callbacks'[t] = Append(callbacks[t], [gen |-> live'[s], wires |-> W])
        BY <2>3, <3>4 DEF Starts, GenInv
      <4>2. callbacks'[t] = << [gen |-> live'[t], wires |-> W] >>
        BY <2>3, <3>1, <4>1
      <4> QED BY <3>2, <4>2 DEF OneRun
    <3> QED BY <3>3, <3>4 DEF run
  <2> QED BY <2>2, <2>3
<1> QED BY <1>1, <1>2 DEF GenInv

LEMMA ReloadKeeps ==
  ASSUME GenInv, NEW s \in Service, reloadService(s)
  PROVE  GenInv'
<1>1. /\ DOMAIN loaded' = Service /\ DOMAIN live' = Service
      /\ DOMAIN running' = Service /\ DOMAIN callbacks' = Service
  BY DEF GenInv, reloadService
<1>2. ASSUME NEW t \in Service PROVE OneRun(t)'
  <2>1. OneRun(t)
    BY DEF GenInv
  <2>2. CASE t = s
    <3>1. callbacks'[t] = << >>
      BY <2>2 DEF GenInv, reloadService
    <3> QED BY <3>1 DEF OneRun
  <2>3. CASE t # s
    <3>1. /\ running'[t] = running[t] /\ callbacks'[t] = callbacks[t]
          /\ loaded'[t] = loaded[t] /\ live'[t] = live[t]
      BY <2>3 DEF GenInv, reloadService
    <3> QED BY <2>1, <3>1 DEF OneRun
  <2> QED BY <2>2, <2>3
<1> QED BY <1>1, <1>2 DEF GenInv

(* A step that leaves flags, instances and callbacks alone.                *)
LEMMA StutterKeepsGen ==
  ASSUME GenInv, UNCHANGED <<loaded, running, live, callbacks>>
  PROVE  GenInv'
BY DEF GenInv, OneRun

LEMMA GenInvStep == GenInv /\ [Next]_vars => GenInv'
<1> SUFFICES ASSUME GenInv, [Next]_vars PROVE GenInv'
  OBVIOUS
<1>1. ASSUME NEW c \in DOMAIN chains, NEW s \in Service,
             singleServiceRunner(c, s) PROVE GenInv'
  <2>1. CASE FailsToLoad(c, s)
    BY <2>1, StutterKeepsGen DEF FailsToLoad, flags
  <2>2. CASE ~initialized[s] /\ Load(s) /\ init(c, s)
    BY <2>2, LoadKeeps DEF init
  <2>3. CASE initialized[s] /\ ~running[s] /\ Load(s) /\ run(c, s)
    BY <2>3, RunKeeps
  <2>4. CASE /\ initialized[s] /\ running[s] /\ Load(s) /\ Proceeds(c, "no")
             /\ UNCHANGED <<initialized, running, hardware, cache, callbacks, faults>>
    BY <2>4, LoadKeeps
  <2> QED BY <1>1, <2>1, <2>2, <2>3, <2>4 DEF singleServiceRunner
<1>2. ASSUME NEW c \in DOMAIN chains, Resolve(c) PROVE GenInv'
  BY <1>2, StutterKeepsGen DEF Resolve, flags
<1>3. ASSUME NEW s \in Service, Event(s) PROVE GenInv'
  BY <1>3, StutterKeepsGen DEF Event, flags
<1>4. ASSUME NEW s \in Service, reloadService(s) PROVE GenInv'
  BY <1>4, ReloadKeeps
<1>5. CASE UNCHANGED vars
  BY <1>5, StutterKeepsGen DEF vars, flags
<1> QED BY <1>1, <1>2, <1>3, <1>4, <1>5 DEF Next

(* Whatever is reloaded, and whatever fails: the callbacks of a service    *)
(* are those of one run of the instance that lives (Network.js:175, :217). *)
THEOREM GenerationSafe == Spec => []OneGeneration
<1>1. Init => GenInv
  BY GenInvInit
<1>2. GenInv /\ [Next]_vars => GenInv'
  BY GenInvStep
<1>3. GenInv => OneGeneration
  BY GenInvImplies
<1> QED BY <1>1, <1>2, <1>3, PTL DEF Spec

-----------------------------------------------------------------------------
(* What is added: a service that was not initialized has added nothing,    *)
(* and a service that is never counts as not initialized again. No node is *)
(* registered by two services.                                             *)
AddInv ==
  /\ DOMAIN initialized = Service
  /\ added \in [NodeKey -> Nat]
  /\ AddedOnce
  /\ \A s \in Service : ~initialized[s] => \A n \in NodeKeys(s) : added[n] = 0

LEMMA NodesOfServices ==
  /\ NodeKeys("helper") = {}
  /\ NodeKeys("kitchen") = {"kitchen-lightning"}
  /\ NodeKeys("office") = {"main-led-office", "office-east", "office-west"}
  /\ NodeKeys("living") = {"main-led-north", "main-led-south", "living-fire",
                           "hall-east", "hall-west"}
  /\ NodeKeys("room") = {"room-led", "room-led-2", "room-north", "room-south", "dressing"}
<1>1. Service = {"helper", "kitchen", "office", "living", "room"}
  BY DEF Service, Items
<1>2. /\ Nodes["helper"] = << >> /\ Nodes["kitchen"] = kitchenNodes
      /\ Nodes["office"] = officeNodes /\ Nodes["living"] = livingNodes
      /\ Nodes["room"] = roomNodes
  BY <1>1 DEF Nodes, ByService
<1>3. NodeKeys("helper") = {}
  BY <1>2 DEF NodeKeys
<1>4. NodeKeys("kitchen") = {"kitchen-lightning"}
  BY <1>2 DEF NodeKeys, kitchenNodes, Node
<1>5. NodeKeys("office") = {"main-led-office", "office-east", "office-west"}
  BY <1>2 DEF NodeKeys, officeNodes, Node
<1>6. NodeKeys("living") = {"main-led-north", "main-led-south", "living-fire",
                            "hall-east", "hall-west"}
  BY <1>2 DEF NodeKeys, livingNodes, Node
<1>7. NodeKeys("room") = {"room-led", "room-led-2", "room-north", "room-south", "dressing"}
  BY <1>2 DEF NodeKeys, roomNodes, Node
<1> QED BY <1>3, <1>4, <1>5, <1>6, <1>7

LEMMA NodesAreApart ==
  \A s, t \in Service : s # t => NodeKeys(s) \cap NodeKeys(t) = {}
<1>1. Service = {"helper", "kitchen", "office", "living", "room"}
  BY DEF Service, Items
<1> QED BY <1>1, NodesOfServices

LEMMA ReachedAreIts ==
  ASSUME NEW s \in Service
  PROVE  KeysAt(s, Reached(s)) \subseteq NodeKeys(s)
BY DEF KeysAt, Reached, NodeKeys

LEMMA AddInvInit == Init => AddInv
<1> SUFFICES ASSUME Init PROVE AddInv
  OBVIOUS
<1>1. added = [n \in NodeKey |-> 0] /\ DOMAIN initialized = Service
  BY DEF Init
<1>2. \A s \in Service : NodeKeys(s) \subseteq NodeKey
  BY DEF NodeKey
<1> QED BY <1>1, <1>2 DEF AddInv, AddedOnce

LEMMA InitKeepsAdded ==
  ASSUME AddInv, NEW c, NEW s \in Service, ~initialized[s], init(c, s)
  PROVE  AddInv'
<1>1. DOMAIN initialized' = Service /\ initialized'[s]
  BY DEF AddInv, init
<1>2. added' = [n \in NodeKey |-> IF n \in KeysAt(s, Reached(s)) THEN added[n] + 1 ELSE added[n]]
  BY DEF init, onRegisterHardware
<1>3. \A n \in KeysAt(s, Reached(s)) : n \in NodeKeys(s) /\ added[n] = 0
  BY ReachedAreIts DEF AddInv
<1>4. added' \in [NodeKey -> Nat]
  BY <1>2 DEF AddInv
<1>5. AddedOnce'
  BY <1>2, <1>3 DEF AddInv, AddedOnce
<1>6. ASSUME NEW t \in Service, ~initialized'[t], NEW n \in NodeKeys(t)
      PROVE  added'[n] = 0
  <2>1. t # s /\ ~initialized[t]
    BY <1>1, <1>6 DEF AddInv, init
  <2>2. n \notin KeysAt(s, Reached(s)) /\ n \in NodeKey
    BY <2>1, <1>3, NodesAreApart DEF NodeKey
  <2> QED BY <1>2, <2>1, <2>2 DEF AddInv
<1> QED BY <1>1, <1>4, <1>5, <1>6 DEF AddInv

LEMMA StutterKeepsAdded ==
  ASSUME AddInv, UNCHANGED added, DOMAIN initialized' = Service,
         \A t \in Service : initialized[t] => initialized'[t]
  PROVE  AddInv'
BY DEF AddInv, AddedOnce

LEMMA AddInvStep == AddInv /\ [Next]_vars => AddInv'
<1> SUFFICES ASSUME AddInv, [Next]_vars PROVE AddInv'
  OBVIOUS
<1>1. ASSUME UNCHANGED <<initialized, added>> PROVE AddInv'
  BY <1>1, StutterKeepsAdded DEF AddInv
<1>2. ASSUME NEW c \in DOMAIN chains, NEW s \in Service,
             singleServiceRunner(c, s) PROVE AddInv'
  <2>1. CASE FailsToLoad(c, s)
    BY <2>1, <1>1 DEF FailsToLoad, flags, hardware
  <2>2. CASE ~initialized[s] /\ Load(s) /\ init(c, s)
    BY <2>2, InitKeepsAdded
  <2>3. CASE initialized[s] /\ ~running[s] /\ Load(s) /\ run(c, s)
    BY <2>3, <1>1 DEF run, hardware
  <2>4. CASE /\ initialized[s] /\ running[s] /\ Load(s) /\ Proceeds(c, "no")
             /\ UNCHANGED <<initialized, running, hardware, cache, callbacks, faults>>
    BY <2>4, <1>1 DEF hardware
  <2> QED BY <1>2, <2>1, <2>2, <2>3, <2>4 DEF singleServiceRunner
<1>3. ASSUME NEW c \in DOMAIN chains, Resolve(c) PROVE AddInv'
  BY <1>3, <1>1 DEF Resolve, flags, hardware
<1>4. ASSUME NEW s \in Service, Event(s) PROVE AddInv'
  BY <1>4, <1>1 DEF Event, flags, hardware
<1>5. ASSUME NEW s \in Service, reloadService(s) PROVE AddInv'
  BY <1>5, StutterKeepsAdded DEF reloadService, hardware, AddInv
<1>6. CASE UNCHANGED vars
  BY <1>6, <1>1 DEF vars, flags, hardware
<1> QED BY <1>2, <1>3, <1>4, <1>5, <1>6 DEF Next

(* No node is added to the network twice, whatever is reloaded when        *)
(* (Network.js:160, :221).                                                 *)
THEOREM AddedOnceSafe == Spec => []AddedOnce
<1>1. Init => AddInv
  BY AddInvInit
<1>2. AddInv /\ [Next]_vars => AddInv'
  BY AddInvStep
<1>3. AddInv => AddedOnce
  BY DEF AddInv
<1> QED BY <1>1, <1>2, <1>3, PTL DEF Spec

-----------------------------------------------------------------------------
(* The types of a chain, of what on() keeps and of what the cache holds.   *)
Step == [todo : Seq(Service), waits : {"no", "init", "ever"}]
Kept == [gen : Nat, wires : SUBSET UNION {Wires[s] : s \in Service}]
Found == {NotSearched} \cup SUBSET NodeKey

LEMMA RemainingType == ASSUME NEW done PROVE Remaining(done) \in Seq(Service)
<1>1. \A s \in Service : Todo(s, done) \in Seq(Service)
  BY DEF Todo
<1>2. Service = {"helper", "kitchen", "office", "living", "room"}
  BY DEF Service, Items
<1> HIDE DEF Service
<1> DEFINE a == Todo("helper", done) b == Todo("kitchen", done) c == Todo("office", done)
           d == Todo("living", done) e == Todo("room", done)
<1>3. a \in Seq(Service) /\ b \in Seq(Service) /\ c \in Seq(Service)
      /\ d \in Seq(Service) /\ e \in Seq(Service)
  BY <1>1, <1>2
<1> HIDE DEF a, b, c, d, e
<1>4. a \o b \in Seq(Service)
  BY <1>3, ConcatProperties
<1>5. a \o b \o c \in Seq(Service)
  BY <1>3, <1>4, ConcatProperties
<1>6. a \o b \o c \o d \in Seq(Service)
  BY <1>3, <1>5, ConcatProperties
<1>7. a \o b \o c \o d \o e \in Seq(Service)
  BY <1>3, <1>6, ConcatProperties
<1> QED BY <1>7 DEF Remaining, a, b, c, d, e

LEMMA ChainType ==
  ASSUME NEW ini, NEW ran PROVE Chain(registerServices(ini, ran)) \in Step
<1>1. registerServices(ini, ran) \in Seq(Service)
  BY RemainingType, ConcatProperties DEF registerServices
<1> QED BY <1>1 DEF Chain, Step

LEMMA TypeFolds ==
  TypeOK <=>
    /\ loaded \in [Service -> BOOLEAN] /\ initialized \in [Service -> BOOLEAN]
    /\ running \in [Service -> BOOLEAN]
    /\ live \in [Service -> Nat]
    /\ nodes \subseteq NodeKey /\ added \in [NodeKey -> Nat]
    /\ cache \in [Heads -> Found]
    /\ callbacks \in [Service -> Seq(Kept)]
    /\ chains \in Seq(Step)
    /\ early \in BOOLEAN /\ reloads \in 0..MaxReloads /\ faults \in 0..MaxFaults
BY DEF TypeOK, Found, Kept, Step

LEMMA TypeInit == Init => TypeOK
<1> SUFFICES ASSUME Init PROVE TypeOK
  OBVIOUS
<1>1. /\ loaded = [s \in Service |-> FALSE] /\ initialized = loaded /\ running = loaded
      /\ live = [s \in Service |-> 0] /\ nodes = {} /\ added = [n \in NodeKey |-> 0]
      /\ cache = [t \in Heads |-> NotSearched] /\ callbacks = [s \in Service |-> << >>]
      /\ early = FALSE /\ reloads = 0 /\ faults = 0
  BY DEF Init
<1>2. chains \in Seq(Step)
  BY ChainType DEF Init
<1>3. cache \in [Heads -> Found]
  BY <1>1 DEF Found
<1>4. /\ \A f \in {loaded, initialized, running} : f \in [Service -> BOOLEAN]
      /\ live \in [Service -> Nat] /\ nodes \subseteq NodeKey /\ added \in [NodeKey -> Nat]
  BY <1>1
<1>5. callbacks \in [Service -> Seq(Kept)]
  BY <1>1
<1>6. early \in BOOLEAN /\ reloads \in 0..MaxReloads /\ faults \in 0..MaxFaults
  <2>1. 0 \in 0..MaxReloads /\ 0 \in 0..MaxFaults
    BY BoundAssumption
  <2> QED BY <1>1, <2>1, Zenon
<1> QED BY <1>2, <1>3, <1>4, <1>5, <1>6 DEF TypeOK, Found, Kept, Step

LEMMA SearchedType ==
  ASSUME TypeOK, NEW terms PROVE Searched(terms) \in [Heads -> Found]
<1>1. \A t \in Heads : Providers[t] \cap nodes \in Found /\ cache[t] \in Found
  BY TypeFolds DEF Found
<1> QED BY <1>1 DEF Searched

LEMMA ProceedsType ==
  ASSUME TypeOK, NEW c \in DOMAIN chains, NEW waits \in {"no", "init", "ever"},
         chains[c].todo # << >>, Proceeds(c, waits)
  PROVE  chains' \in Seq(Step)
<1>1. chains \in Seq(Step) /\ c \in 1..Len(chains)
  BY TypeFolds
<1>2. chains[c] \in Step
  BY <1>1, ElementOfSeq
<1>3. Tail(chains[c].todo) \in Seq(Service)
  BY <1>2, HeadTailProperties DEF Step
<1>4. [todo |-> Tail(chains[c].todo), waits |-> waits] \in Step
  BY <1>3 DEF Step
<1> QED BY <1>1, <1>4, ExceptSeq DEF Proceeds

LEMMA ChainsType ==
  ASSUME TypeOK, NEW c \in DOMAIN chains
  PROVE  /\ Rejected(c) => chains' \in Seq(Step)
         /\ [chains EXCEPT ![c].waits = "no"] \in Seq(Step)
<1>1. chains \in Seq(Step) /\ c \in 1..Len(chains)
  BY TypeFolds
<1>2. chains[c] \in Step
  BY <1>1, ElementOfSeq
<1>3. /\ [chains[c] EXCEPT !.todo = << >>] \in Step
      /\ [chains[c] EXCEPT !.waits = "no"] \in Step
  <2>1. << >> \in Seq(Service)
    OBVIOUS
  <2>2. \A e \in Step : [e EXCEPT !.todo = << >>] \in Step /\ [e EXCEPT !.waits = "no"] \in Step
    BY <2>1 DEF Step
  <2> QED BY <1>2, <2>2
<1>4. /\ [chains EXCEPT ![c] = [chains[c] EXCEPT !.todo = << >>]] \in Seq(Step)
      /\ [chains EXCEPT ![c] = [chains[c] EXCEPT !.waits = "no"]] \in Seq(Step)
  BY <1>1, <1>3, ExceptSeq
<1> QED BY <1>4 DEF Rejected

LEMMA RegisterType ==
  ASSUME TypeOK, NEW s \in Service, onRegisterHardware(s)
  PROVE  nodes' \subseteq NodeKey /\ added' \in [NodeKey -> Nat] /\ cache' \in [Heads -> Found]
<1>1. KeysAt(s, Usable(s)) \subseteq NodeKey
  BY DEF KeysAt, Usable, NodeKey, NodeKeys
<1>2. nodes' \subseteq NodeKey
  BY <1>1, TypeFolds DEF onRegisterHardware
<1>3. added' \in [NodeKey -> Nat]
  BY TypeFolds DEF onRegisterHardware
<1>4. \A t \in Heads : /\ cache[t] \in Found /\ {} \in Found
                       /\ t.key \in KeysAt(s, Usable(s)) => {t.key} \in Found
  BY <1>1, TypeFolds DEF Found
<1>5. cache' \in [Heads -> Found]
  BY <1>4 DEF onRegisterHardware
<1> QED BY <1>2, <1>3, <1>5

LEMMA LoadType ==
  ASSUME TypeOK, NEW s \in Service, Load(s)
  PROVE  loaded' \in [Service -> BOOLEAN] /\ live' \in [Service -> Nat]
BY TypeFolds DEF Load

LEMMA StartsType ==
  ASSUME TypeOK, NEW s \in Service, NEW c \in DOMAIN chains, chains[c].todo # << >>,
         live' \in [Service -> Nat], Starts(c, s)
  PROVE  /\ cache' \in [Heads -> Found] /\ callbacks' \in [Service -> Seq(Kept)]
         /\ chains' \in Seq(Step) /\ faults' \in 0..MaxFaults
<1>1. cache' \in [Heads -> Found]
  BY SearchedType DEF Starts
<1>2. chains' \in Seq(Step) /\ faults' \in 0..MaxFaults
  BY ProceedsType, TypeFolds DEF Starts
<1> DEFINE e == [gen |-> live'[s], wires |-> {w \in Wires[s] : w.node \in cache'[K(w.node)]}]
<1>3. e \in Kept
  BY DEF Kept
<1>4. callbacks' = [callbacks EXCEPT ![s] = Append(callbacks[s], e)]
  BY DEF Starts
<1>5. callbacks \in [Service -> Seq(Kept)]
  BY TypeFolds
<1> HIDE DEF e
<1>6. Append(callbacks[s], e) \in Seq(Kept)
  BY <1>3, <1>5
<1>7. callbacks' \in [Service -> Seq(Kept)]
  BY <1>4, <1>5, <1>6
<1> QED BY <1>1, <1>2, <1>7

LEMMA FailsType ==
  ASSUME TypeOK, NEW s \in Service, NEW c \in DOMAIN chains, chains[c].todo # << >>,
         FailsToStart(c, s)
  PROVE  /\ cache' \in [Heads -> Found] /\ callbacks' \in [Service -> Seq(Kept)]
         /\ chains' \in Seq(Step) /\ faults' \in 0..MaxFaults
<1>1. cache' \in [Heads -> Found]
  BY SearchedType DEF FailsToStart
<1>2. chains' \in Seq(Step)
  BY ProceedsType, ChainsType DEF FailsToStart
<1>3. callbacks' \in [Service -> Seq(Kept)] /\ faults' \in 0..MaxFaults
  BY TypeFolds, BoundAssumption DEF FailsToStart
<1> QED BY <1>1, <1>2, <1>3

LEMMA RunnerType ==
  ASSUME TypeOK, NEW s \in Service, NEW c \in DOMAIN chains, singleServiceRunner(c, s)
  PROVE  TypeOK'
<1>1. chains[c].todo # << >> /\ early' \in BOOLEAN /\ reloads' \in 0..MaxReloads
  BY TypeFolds DEF singleServiceRunner, Due
<1>2. CASE FailsToLoad(c, s)
  <2>1. chains' \in Seq(Step)
    BY <1>1, <1>2, ProceedsType DEF FailsToLoad
  <2>2. faults' \in 0..MaxFaults
    BY <1>2, TypeFolds, BoundAssumption DEF FailsToLoad
  <2> QED BY <1>1, <1>2, <2>1, <2>2, TypeFolds DEF FailsToLoad, flags, hardware, TypeOK, Step
<1>3. CASE ~initialized[s] /\ Load(s) /\ init(c, s)
  <2>1. loaded' \in [Service -> BOOLEAN] /\ live' \in [Service -> Nat]
    BY <1>3, LoadType
  <2>2. nodes' \subseteq NodeKey /\ added' \in [NodeKey -> Nat] /\ cache' \in [Heads -> Found]
    BY <1>3, RegisterType DEF init
  <2>3. chains' \in Seq(Step)
    BY <1>1, <1>3, ProceedsType DEF init
  <2>4. /\ initialized' \in [Service -> BOOLEAN] /\ running' \in [Service -> BOOLEAN]
        /\ callbacks' \in [Service -> Seq(Kept)] /\ faults' \in 0..MaxFaults
    BY <1>3, TypeFolds DEF init
  <2> QED BY <1>1, <2>1, <2>2, <2>3, <2>4 DEF TypeOK, Found, Kept, Step
<1>4. CASE initialized[s] /\ ~running[s] /\ Load(s) /\ run(c, s)
  <2>1. loaded' \in [Service -> BOOLEAN] /\ live' \in [Service -> Nat]
    BY <1>4, LoadType
  <2>2. /\ initialized' \in [Service -> BOOLEAN] /\ running' \in [Service -> BOOLEAN]
        /\ nodes' \subseteq NodeKey /\ added' \in [NodeKey -> Nat]
    BY <1>4, TypeFolds DEF run, hardware
  <2>3. /\ cache' \in [Heads -> Found] /\ callbacks' \in [Service -> Seq(Kept)]
        /\ chains' \in Seq(Step) /\ faults' \in 0..MaxFaults
    BY <1>1, <1>4, <2>1, StartsType, FailsType DEF run
  <2> QED BY <1>1, <2>1, <2>2, <2>3 DEF TypeOK, Found, Kept, Step
<1>5. CASE /\ initialized[s] /\ running[s] /\ Load(s) /\ Proceeds(c, "no")
           /\ UNCHANGED <<initialized, running, hardware, cache, callbacks, faults>>
  <2>1. loaded' \in [Service -> BOOLEAN] /\ live' \in [Service -> Nat]
    BY <1>5, LoadType
  <2>2. chains' \in Seq(Step)
    BY <1>1, <1>5, ProceedsType
  <2> QED BY <1>1, <1>5, <2>1, <2>2, TypeFolds DEF hardware, TypeOK, Found, Kept, Step
<1> QED BY <1>2, <1>3, <1>4, <1>5 DEF singleServiceRunner

LEMMA ReloadType ==
  ASSUME TypeOK, NEW s \in Service, reloadService(s)
  PROVE  TypeOK'
<1>1. /\ loaded' \in [Service -> BOOLEAN] /\ initialized' \in [Service -> BOOLEAN]
      /\ running' \in [Service -> BOOLEAN]
  BY TypeFolds DEF reloadService
<1>2. callbacks' \in [Service -> Seq(Kept)]
  BY TypeFolds DEF reloadService
<1>3. chains' \in Seq(Step)
  BY TypeFolds, ChainType DEF reloadService
<1>4. reloads' \in 0..MaxReloads /\ early' \in BOOLEAN
  BY TypeFolds, BoundAssumption DEF reloadService
<1>5. /\ live' \in [Service -> Nat] /\ nodes' \subseteq NodeKey /\ added' \in [NodeKey -> Nat]
      /\ cache' \in [Heads -> Found] /\ faults' \in 0..MaxFaults
  BY TypeFolds DEF reloadService, hardware
<1> QED BY <1>1, <1>2, <1>3, <1>4, <1>5 DEF TypeOK, Found, Kept, Step

LEMMA TypeStep == TypeOK /\ [Next]_vars => TypeOK'
<1> SUFFICES ASSUME TypeOK, [Next]_vars PROVE TypeOK'
  OBVIOUS
<1>1. ASSUME NEW c \in DOMAIN chains, NEW s \in Service,
             singleServiceRunner(c, s) PROVE TypeOK'
  BY <1>1, RunnerType
<1>2. ASSUME NEW c \in DOMAIN chains, Resolve(c) PROVE TypeOK'
  <2>1. chains' \in Seq(Step)
    BY <1>2, ChainsType DEF Resolve
  <2> QED BY <1>2, <2>1, TypeFolds DEF Resolve, flags, hardware, TypeOK, Step
<1>3. ASSUME NEW s \in Service, Event(s) PROVE TypeOK'
  <2>1. cache' \in [Heads -> Found]
    BY <1>3, SearchedType DEF Event
  <2> QED BY <1>3, <2>1, TypeFolds DEF Event, flags, hardware, TypeOK, Found
<1>4. ASSUME NEW s \in Service, reloadService(s) PROVE TypeOK'
  BY <1>4, ReloadType
<1>5. CASE UNCHANGED vars
  BY <1>5 DEF vars, flags, hardware, TypeOK
<1> QED BY <1>1, <1>2, <1>3, <1>4, <1>5 DEF Next

(* Every variable keeps its type (Network.js:124).                         *)
THEOREM TypeCorrect == Spec => []TypeOK
BY TypeInit, TypeStep, PTL DEF Spec

-----------------------------------------------------------------------------
(* The house: what its nodes, interfaces and IOs are called, and the terms *)
(* its services search for.                                                *)
LEMMA ServiceNames == Service = {"helper", "kitchen", "office", "living", "room"}
BY DEF Service, Items

(* What the house has: the keys of its nodes, interfaces and IOs.          *)
HouseNodes == {"kitchen-lightning", "main-led-office", "office-east", "office-west",
               "main-led-north", "main-led-south", "living-fire", "hall-east", "hall-west",
               "room-led", "room-led-2", "room-north", "room-south", "dressing"}
InterfaceKeys == {"interface", "interface-living", "interface-dining", "interface-south"}
SwitchKeys == {"b1", "b2", "b3", "b4", "led-b1", "led-b2", "led-b3", "led-b4"}
BarKeys == {"led-1", "led-2", "led-3", "led-4", "led-5", "led-6", "led-7",
            "iled-2", "iled-4", "iled-6", "iled-7", "eled-2", "eled-4", "eled-6", "eled-7"}
Below(i) == /\ i.key \in InterfaceKeys
            /\ \A io \in i.ios : io.key \in SwitchKeys \cup BarKeys

LEMMA NodesOfHouse == NodeKey = HouseNodes
BY ServiceNames, NodesOfServices DEF NodeKey, HouseNodes

LEMMA HardwareOfServices ==
  /\ Hardware["helper"] = {} /\ Hardware["kitchen"] = kitchenHardware
  /\ Hardware["office"] = officeHardware /\ Hardware["living"] = livingHardware
  /\ Hardware["room"] = roomHardware
BY ServiceNames DEF Hardware, ByService

LEMMA SwitchHasKeys ==
  ASSUME NEW keys, NEW lamps, NEW colour, NEW io \in Switch(keys, lamps, colour)
  PROVE  io.key \in SwitchKeys
<1>1. \A i \in 1..4 : KeyName[i] \in SwitchKeys /\ LampName[i] \in SwitchKeys
  BY DEF KeyName, LampName, SwitchKeys
<1> QED BY <1>1 DEF Switch, In, Out, Io

LEMMA WallSwitchBelow == ASSUME NEW n, NEW c PROVE Below(WallSwitch(n, c))
BY SwitchHasKeys DEF Below, WallSwitch, Interface, InterfaceKeys

LEMMA KitchenBelow == \A i \in kitchenHardware : Below(i)
BY DEF kitchenHardware, Below, Interface, Out, Io, InterfaceKeys, BarKeys
LEMMA OfficeBelow == \A i \in officeHardware : Below(i)
BY SwitchHasKeys DEF officeHardware, Below, Interface, Out, Io, InterfaceKeys, BarKeys
LEMMA LivingBelow == \A i \in livingHardware : Below(i)
BY WallSwitchBelow DEF livingHardware, Below, Interface, Out, Io, Pwm, InterfaceKeys, BarKeys
LEMMA RoomBelow == \A i \in roomHardware : Below(i)
BY WallSwitchBelow DEF roomHardware, Below, Interface, Out, Io, Pwm, InterfaceKeys, BarKeys

LEMMA AllBelow == \A n \in NodeKey : \A i \in OfNode[n] : Below(i)
BY ServiceNames, HardwareOfServices, KitchenBelow, OfficeBelow, LivingBelow, RoomBelow DEF OfNode

LEMMA NodeProvidesItself ==
  ASSUME NEW n \in NodeKey, K(n) \in Heads
  PROVE  Providers[K(n)] = {n}
<1>1. n \notin InterfaceKeys \cup SwitchKeys \cup BarKeys \cup {""}
  BY NodesOfHouse DEF HouseNodes, InterfaceKeys, SwitchKeys, BarKeys
<1>2. \A m \in NodeKey : \A i \in OfNode[m] : ~Matches(i, K(n)) /\ \A io \in i.ios : ~Matches(io, K(n))
  BY <1>1, AllBelow DEF Matches, K, Below
<1>3. \A m \in NodeKey : Matches([key |-> m, tags |-> {}], K(n)) <=> m = n
  BY <1>1 DEF Matches, K
<1> QED BY <1>2, <1>3 DEF Providers

(* The terms selections start with: the keys of nodes and of interfaces,   *)
(* and tags.                                                               *)
HouseTags == {{"hall", "out"}, {"room"}, {"out"}, {"rgb"}}
IsHead(t) == \/ t.tags = {} /\ t = K(t.key) /\ t.key \in HouseNodes \cup {"interface-living", "interface-dining"}
             \/ t.key = "" /\ t = T(t.tags) /\ t.tags \in HouseTags

LEMMA TermIsHead ==
  /\ \A n \in HouseNodes \cup {"interface-living", "interface-dining"} : IsHead(K(n))
  /\ \A tags \in HouseTags : IsHead(T(tags))
BY DEF IsHead, K, T

LEMMA ResetsOfServices ==
  /\ Resets["helper"] = << >> /\ Resets["kitchen"] = kitchenResets
  /\ Resets["office"] = officeResets /\ Resets["living"] = livingResets
  /\ Resets["room"] = roomResets
BY ServiceNames DEF Resets, ByService
LEMMA WiresOfServices ==
  /\ Wires["helper"] = {} /\ Wires["kitchen"] = {}
  /\ Wires["office"] = officeWires /\ Wires["living"] = livingWires
  /\ Wires["room"] = roomWires
BY ServiceNames DEF Wires, ByService

HeadsAre(sels) == \A i \in DOMAIN sels : IsHead(Head(sels[i]))

LEMMA ResetsHeads == \A s \in Service : HeadsAre(Resets[s])
<1>1. HeadsAre(kitchenResets)
  BY TermIsHead DEF HeadsAre, kitchenResets, OutsOf, HouseNodes
<1>2. HeadsAre(officeResets)
  BY TermIsHead DEF HeadsAre, officeResets, OutsOf, HouseNodes
<1>3. HeadsAre(livingResets)
  BY TermIsHead DEF HeadsAre, livingResets, OutsOf, HouseNodes, HouseTags
<1>4. HeadsAre(roomResets)
  BY TermIsHead DEF HeadsAre, roomResets, OutsOf, HouseNodes, HouseTags
<1>5. HeadsAre(<< >>)
  BY DEF HeadsAre
<1> QED BY <1>1, <1>2, <1>3, <1>4, <1>5, ResetsOfServices, ServiceNames

WiredRight(w) == w.node \in HouseNodes /\ HeadsAre(w.handler.targets)

LEMMA CircuitsHeads ==
  ASSUME NEW t, IsHead(t) PROVE HeadsAre(Whites(t)) /\ HeadsAre(Outs(t))
BY DEF HeadsAre, Whites, Outs, Circuits

LEMMA AllDownHeads == HeadsAre(allDownFn.targets)
BY TermIsHead DEF HeadsAre, allDownFn, Handler, HouseTags

LEMMA OfficeWired == \A w \in officeWires : WiredRight(w)
<1>1. \A key, t : IsHead(t) => HeadsAre(Handler("colorCycle", key, << << t, T({"rgb"}) >> >>).targets)
  BY DEF HeadsAre, Handler
<1>2. /\ IsHead(K("main-led-office")) /\ IsHead(T({"room"}))
      /\ IsHead(K("main-led-north")) /\ IsHead(K("main-led-south"))
  BY TermIsHead DEF HouseNodes, HouseTags
<1> QED BY <1>1, <1>2, CircuitsHeads DEF officeWires, WiredRight, Wire, Handler, HouseNodes

LEMMA LivingWired == \A w \in livingWires : WiredRight(w)
<1>1. \A key, t : IsHead(t) => HeadsAre(Handler("level", key, << << t, T({"out1"}) >> >>).targets)
  BY DEF HeadsAre, Handler
<1>2. IsHead(K("interface-living")) /\ IsHead(K("interface-dining"))
  BY TermIsHead
<1> QED BY <1>1, <1>2, CircuitsHeads, AllDownHeads DEF livingWires, WiredRight, Wire, Handler, HouseNodes

LEMMA RoomWired == \A w \in roomWires : WiredRight(w)
<1>1. \A key, t : IsHead(t) => HeadsAre(Handler("colorCycle", key, << << t, T({"rgb"}) >> >>).targets)
  BY DEF HeadsAre, Handler
<1>2. IsHead(T({"room"})) /\ IsHead(K("room-led")) /\ IsHead(K("room-led-2"))
  BY TermIsHead DEF HouseNodes, HouseTags
<1> QED BY <1>1, <1>2, CircuitsHeads, AllDownHeads DEF roomWires, WiredRight, Wire, Handler, HouseNodes

LEMMA AllWired == \A s \in Service : \A w \in Wires[s] : WiredRight(w)
BY ServiceNames, WiresOfServices, OfficeWired, LivingWired, RoomWired

LEMMA AllHeads == \A t \in Heads : IsHead(t)
<1>1. \A n \in NodeKey : IsHead(K(n))
  BY NodesOfHouse, TermIsHead
<1>2. \A s \in Service : \A sel \in Range(Resets[s]) : IsHead(Head(sel))
  BY ResetsHeads DEF HeadsAre, Range
<1>3. \A s \in Service : \A w \in Wires[s] :
        IsHead(K(w.node)) /\ \A sel \in Range(w.handler.targets) : IsHead(Head(sel))
  BY AllWired, TermIsHead DEF WiredRight, HeadsAre, Range
<1> SUFFICES ASSUME NEW t \in Heads PROVE IsHead(t)
  OBVIOUS
<1>4. CASE t \in {K(n) : n \in NodeKey}
  BY <1>1, <1>4
<1>5. CASE \E s \in Service : t \in ResetHeads(s)
  BY <1>2, <1>5 DEF ResetHeads
<1>6. CASE \E s \in Service : \E w \in Wires[s] : t \in WireHeads(w)
  BY <1>3, <1>6 DEF WireHeads
<1>7. CASE t \in UNION {ResetHeads(s) : s \in Service}
  BY <1>5, <1>7
<1>8. CASE t \in UNION { UNION {WireHeads(w) : w \in Wires[s]} : s \in Service }
  <2>1. PICK s \in Service : t \in UNION {WireHeads(w) : w \in Wires[s]}
    BY <1>8
  <2> QED BY <1>6, <2>1
<1> QED BY <1>4, <1>7, <1>8 DEF Heads

(* Every term is answered by some node of the house.                       *)
Answers(n, i, o, t) ==
  /\ \E s \in Service : i \in Hardware[s]
  /\ i.node = n /\ o \in i.ios
  /\ Matches(i, t) \/ Matches(o, t)

LEMMA AnswersProvides ==
  ASSUME NEW t \in Heads, NEW n \in NodeKey, NEW i, NEW o, Answers(n, i, o, t)
  PROVE  n \in Providers[t]
<1>1. i \in OfNode[n]
  BY DEF Answers, OfNode
<1> QED BY <1>1 DEF Providers, Answers

LEMMA BarAnswers ==
  \A key \in {"interface-living", "interface-dining"} :
    \E i, o : Answers("main-led-north", i, o, K(key))
<1>1. \A key \in {"interface-living", "interface-dining"} :
        \E i \in livingHardware : i.node = "main-led-north" /\ i.key = key /\ i.tags = {} /\ i.ios # {}
  BY DEF livingHardware, Interface
<1> QED BY <1>1, ServiceNames, HardwareOfServices DEF Answers, Matches, K

LEMMA TagsAnswered ==
  \A tags \in HouseTags : \E n \in HouseNodes : \E i, o : Answers(n, i, o, T(tags))
<1>1. \E i \in livingHardware : /\ i.node = "main-led-north"
                                /\ \E o \in i.ios : {"out"} \subseteq o.tags
  BY DEF livingHardware, Interface, Out, Io
<1>2. \E i \in livingHardware : /\ i.node = "main-led-north"
                                /\ \E o \in i.ios : {"rgb"} \subseteq o.tags
  BY DEF livingHardware, Interface, Pwm, Io
<1>3. \E i \in livingHardware : /\ i.node = "hall-east"
                                /\ \E o \in i.ios : {"hall", "out"} \subseteq o.tags
  <2> DEFINE cols == << {"orange", "hall"}, {"green", "ok", "hall"}, {"red", "hall"}, {"blue", "ok", "hall"} >>
             i == WallSwitch("hall-east", cols)
             o == Out(LampName[1], LampPins[1], {"led"} \cup Side[1] \cup cols[1])
  <2>1. i \in livingHardware
    BY DEF livingHardware
  <2>2. i.node = "hall-east" /\ o \in i.ios
    BY DEF WallSwitch, Interface, Switch
  <2>3. {"hall", "out"} \subseteq o.tags
    BY DEF Out, Io
  <2> QED BY <2>1, <2>2, <2>3
<1>4. \E i \in roomHardware : /\ i.node = "room-led" /\ i.tags = {"room"} /\ i.ios # {}
  BY DEF roomHardware, Interface
<1> QED BY <1>1, <1>2, <1>3, <1>4, ServiceNames, HardwareOfServices
        DEF HouseTags, HouseNodes, Answers, Matches, T

LEMMA HeadsProvided == \A t \in Heads : Providers[t] # {}
<1> SUFFICES ASSUME NEW t \in Heads PROVE Providers[t] # {}
  OBVIOUS
<1>1. CASE t.key \in HouseNodes /\ t = K(t.key)
  BY <1>1, NodesOfHouse, NodeProvidesItself
<1>2. CASE t.key \in {"interface-living", "interface-dining"} /\ t = K(t.key)
  BY <1>2, BarAnswers, AnswersProvides, NodesOfHouse DEF HouseNodes
<1>3. CASE t = T(t.tags) /\ t.tags \in HouseTags
  BY <1>3, TagsAnswered, AnswersProvides, NodesOfHouse
<1> QED BY <1>1, <1>2, <1>3, AllHeads DEF IsHead

-----------------------------------------------------------------------------
(* While services are being initialized there is one chain, and the next   *)
(* callbacks of it initialize the rest in the order of the list; nothing   *)
(* ran, so what was searched for are nodes already registered.             *)
InOrder(k) ==
  /\ Len(chains) = 1
  /\ Len(chains[1].todo) >= 5 - k
  /\ \A j \in 1..(5 - k) : chains[1].todo[j] = Items[k + j]
  /\ \A i \in 1..5 : initialized[Items[i]] <=> i <= k
Starting ==
  /\ \E k \in 0..4 : InOrder(k)
  /\ \A s \in Service : callbacks[s] = << >>
  /\ \A t \in Heads : cache[t] # NotSearched => t.key \in nodes
Ready(ini) == UNION {NodeKeys(s) : s \in {x \in Service : ini[x]}}
Searches ==
  /\ nodes = Ready(initialized)
  /\ \A t \in Heads : cache[t] \in {NotSearched, Providers[t]}
  /\ (\A s \in Service : initialized[s]) \/ Starting
SearchInv == TypeOK /\ (early \/ faults > 0 \/ Searches)

LEMMA ItemsAre ==
  /\ Service = {Items[i] : i \in 1..5}
  /\ \A i \in 1..5 : Items[i] \in Service
  /\ \A i, j \in 1..5 : Items[i] = Items[j] => i = j
BY DEF Service, Items

LEMMA ReadyAll == ASSUME NEW ini, \A s \in Service : ini[s] PROVE Ready(ini) = NodeKey
BY DEF Ready, NodeKey

(* The list of the services, written out in the chain.                     *)
Lists(q, n) == q \in Seq(Service) /\ Len(q) = n /\ \A i \in 1..n : q[i] = Items[i]

LEMMA OneMore ==
  ASSUME NEW done, \A s \in Service : ~done[s], NEW n \in 0..4, NEW q, Lists(q, n),
         NEW s, s = Items[n + 1]
  PROVE  Lists(q \o Todo(s, done), n + 1)
<1> DEFINE x == Todo(s, done)
<1>1. n + 1 \in 1..5 /\ s \in Service
  BY ItemsAre
<1>2. x = <<s>>
  BY <1>1 DEF Todo
<1>3. x \in Seq(Service) /\ Len(x) = 1 /\ x[1] = Items[n + 1]
  BY <1>1, <1>2
<1> HIDE DEF x
<1>4. q \in Seq(Service) /\ Len(q) = n /\ \A i \in 1..n : q[i] = Items[i]
  BY DEF Lists
<1>5. /\ q \o x \in Seq(Service) /\ Len(q \o x) = Len(q) + Len(x)
      /\ \A i \in 1..(Len(q) + Len(x)) : (q \o x)[i] = IF i <= Len(q) THEN q[i] ELSE x[i - Len(q)]
  BY <1>3, <1>4, ConcatProperties
<1>6. ASSUME NEW i \in 1..(n + 1) PROVE (q \o x)[i] = Items[i]
  <2>1. i \in 1..n \/ i = n + 1
    OBVIOUS
  <2>2. i \in 1..(Len(q) + Len(x))
    BY <1>3, <1>4
  <2>3. CASE i \in 1..n
    BY <1>4, <1>5, <2>2, <2>3
  <2>4. CASE i = n + 1
    <3>1. i - n = 1 /\ ~(i <= n)
      BY <2>4
    <3> QED BY <1>3, <1>4, <1>5, <2>2, <2>4, <3>1
  <2> QED BY <2>1, <2>3, <2>4
<1> QED BY <1>3, <1>4, <1>5, <1>6 DEF Lists, x

LEMMA AllOfThem ==
  ASSUME NEW done, \A s \in Service : ~done[s]
  PROVE  Lists(Remaining(done), 5)
<1>1. Lists(<< >>, 0)
  BY DEF Lists
<1>2. /\ "helper" = Items[0 + 1] /\ "kitchen" = Items[1 + 1] /\ "office" = Items[2 + 1]
      /\ "living" = Items[3 + 1] /\ "room" = Items[4 + 1]
  BY DEF Items
<1> DEFINE a == Todo("helper", done)
           b == a \o Todo("kitchen", done)
           c == b \o Todo("office", done)
           d == c \o Todo("living", done)
           e == d \o Todo("room", done)
<1>3. Lists(a, 1)
  <2>1. Todo("helper", done) = <<"helper">>
    BY ServiceNames DEF Todo
  <2>2. a \in Seq(Service) /\ Len(a) = 1 /\ a[1] = "helper"
    <3>1. \A x \in Service : <<x>> \in Seq(Service) /\ Len(<<x>>) = 1 /\ <<x>>[1] = x
      OBVIOUS
    <3>2. "helper" \in Service
      BY ServiceNames
    <3> QED BY <2>1, <3>1, <3>2, Zenon
  <2>3. Items[1] = "helper"
    BY DEF Items
  <2> HIDE DEF a
  <2> QED BY <2>2, <2>3 DEF Lists
<1> HIDE DEF a
<1>4. Lists(b, 1 + 1)
  BY <1>2, <1>3, OneMore
<1> HIDE DEF b
<1>5. Lists(c, 2 + 1)
  BY <1>2, <1>4, OneMore
<1> HIDE DEF c
<1>6. Lists(d, 3 + 1)
  BY <1>2, <1>5, OneMore
<1> HIDE DEF d
<1>7. Lists(e, 4 + 1)
  BY <1>2, <1>6, OneMore
<1>8. Remaining(done) = e
  BY DEF Remaining, a, b, c, d
<1> QED BY <1>7, <1>8

LEMMA SearchInit == Init => SearchInv
<1> SUFFICES ASSUME Init PROVE Searches
  BY TypeInit DEF SearchInv
<1>1. \A s \in Service : ~initialized[s] /\ ~running[s] /\ callbacks[s] = << >>
  BY DEF Init
<1>2. nodes = Ready(initialized)
  BY <1>1 DEF Ready, Init
<1>3. \A t \in Heads : cache[t] = NotSearched
  BY DEF Init
<1> DEFINE r == registerServices(initialized, running)
<1>4. Len(r) = 10 /\ \A j \in 1..5 : r[j] = Items[j]
  <2> DEFINE a == Remaining(initialized) b == Remaining(running)
  <2>1. /\ a \in Seq(Service) /\ Len(a) = 5 /\ \A i \in 1..5 : a[i] = Items[i]
        /\ b \in Seq(Service) /\ Len(b) = 5
    BY <1>1, AllOfThem DEF Lists
  <2> HIDE DEF a, b
  <2>2. /\ Len(a \o b) = Len(a) + Len(b)
        /\ \A j \in 1..(Len(a) + Len(b)) : (a \o b)[j] = IF j <= Len(a) THEN a[j] ELSE b[j - Len(a)]
    BY <2>1, ConcatProperties
  <2>3. Len(a \o b) = 10 /\ \A j \in 1..5 : (a \o b)[j] = Items[j]
    BY <2>1, <2>2
  <2> QED BY <2>3 DEF registerServices, a, b
<1> HIDE DEF r
<1>5. Len(chains) = 1 /\ chains[1].todo = r
  BY DEF Init, Chain, r
<1>6. \A i \in 1..5 : initialized[Items[i]] <=> i <= 0
  BY <1>1, ItemsAre
<1>7. InOrder(0)
  <2>1. Len(r) >= 5 - 0 /\ \A j \in 1..(5 - 0) : r[j] = Items[0 + j]
    BY <1>4
  <2> QED BY <1>5, <1>6, <2>1 DEF InOrder
<1> QED BY <1>1, <1>2, <1>3, <1>7 DEF Searches, Starting

(* Once all services are initialized a search finds all there is.          *)
LEMMA SearchedFinds ==
  ASSUME TypeOK, Searches, \A s \in Service : initialized[s], NEW terms,
         cache' = Searched(terms)
  PROVE  \A t \in Heads : cache'[t] \in {NotSearched, Providers[t]}
<1>1. nodes = NodeKey
  BY ReadyAll DEF Searches
<1>2. \A t \in Heads : Providers[t] \cap nodes = Providers[t]
  BY <1>1 DEF Providers
<1>3. \A t \in Heads : cache[t] \in {NotSearched, Providers[t]}
  BY DEF Searches
<1> QED BY <1>2, <1>3 DEF Searched

LEMMA SearchesAgain ==
  ASSUME TypeOK, Searches, \A s \in Service : initialized[s],
         UNCHANGED <<initialized, nodes>>,
         \A t \in Heads : cache'[t] \in {NotSearched, Providers[t]}
  PROVE  Searches'
BY DEF Searches

(* The services in the middle of being initialized: whose turn it is.      *)
LEMMA NextIsNext ==
  ASSUME TypeOK, NEW k \in 0..4, InOrder(k), NEW c \in DOMAIN chains, Due(c)
  PROVE  c = 1 /\ Head(chains[c].todo) = Items[k + 1] /\ ~initialized[Items[k + 1]]
<1>1. c = 1
  BY TypeFolds DEF InOrder
<1>2. chains[1] \in Step
  BY <1>1, TypeFolds
<1>3. chains[1].todo \in Seq(Service) /\ chains[1].todo # << >>
  BY <1>1, <1>2 DEF Step, Due
<1>4. Head(chains[1].todo) = chains[1].todo[1]
  BY <1>3
<1>5. 1 \in 1..(5 - k) /\ k + 1 \in 1..5 /\ ~(k + 1 <= k)
  OBVIOUS
<1>6. chains[1].todo[1] = Items[k + 1] /\ ~initialized[Items[k + 1]]
  BY <1>5 DEF InOrder
<1> QED BY <1>1, <1>4, <1>6

LEMMA InOrderNext ==
  ASSUME TypeOK, NEW k \in 0..4, InOrder(k), NEW waits, Proceeds(1, waits),
         chains[1].todo # << >>,
         initialized' = [initialized EXCEPT ![Items[k + 1]] = TRUE]
  PROVE  InOrder(k + 1)'
<1>1. Len(chains) = 1 /\ chains \in Seq(Step)
  BY TypeFolds DEF InOrder
<1>2. chains[1].todo \in Seq(Service)
  <2>1. 1 \in 1..Len(chains)
    BY <1>1
  <2>2. chains[1] \in Step
    BY <1>1, <2>1, ElementOfSeq
  <2> QED BY <2>2 DEF Step
<1>3. Len(chains') = 1 /\ chains'[1].todo = Tail(chains[1].todo)
  BY <1>1 DEF Proceeds
<1>4. /\ Len(Tail(chains[1].todo)) >= 5 - (k + 1)
      /\ \A j \in 1..(5 - (k + 1)) : Tail(chains[1].todo)[j] = Items[k + 1 + j]
  <2> DEFINE q == chains[1].todo
  <2>1. /\ q \in Seq(Service) /\ q # << >> /\ Len(q) >= 5 - k
        /\ \A j \in 1..(5 - k) : q[j] = Items[k + j]
    BY <1>2 DEF InOrder
  <2> HIDE DEF q
  <2>2. /\ Len(Tail(q)) = Len(q) - 1 /\ Len(q) \in Nat
        /\ \A j \in 1..Len(Tail(q)) : Tail(q)[j] = q[j + 1]
    BY <2>1, HeadTailProperties
  <2>3. ASSUME NEW j \in 1..(5 - (k + 1)) PROVE Tail(q)[j] = Items[k + 1 + j]
    <3>1. j \in 1..Len(Tail(q)) /\ j + 1 \in 1..(5 - k)
      BY <2>1, <2>2
    <3>2. Tail(q)[j] = Items[k + (j + 1)]
      BY <2>1, <2>2, <3>1
    <3>3. k + (j + 1) = k + 1 + j
      OBVIOUS
    <3> QED BY <3>2, <3>3
  <2>4. Len(Tail(q)) >= 5 - (k + 1)
    BY <2>1, <2>2
  <2> QED BY <2>3, <2>4 DEF q
<1>5. ASSUME NEW i \in 1..5 PROVE initialized'[Items[i]] <=> i <= k + 1
  <2>1. Items[k + 1] = Items[i] <=> i = k + 1
    BY ItemsAre
  <2>2. initialized[Items[i]] <=> i <= k
    BY DEF InOrder
  <2>3. DOMAIN initialized = Service /\ Items[i] \in Service
    BY TypeFolds, ItemsAre
  <2>4. CASE i = k + 1
    BY <2>1, <2>3, <2>4
  <2>5. CASE i # k + 1
    <3>1. initialized'[Items[i]] = initialized[Items[i]]
      BY <2>1, <2>3, <2>5
    <3>2. i <= k <=> i <= k + 1
      BY <2>5
    <3> QED BY <3>1, <3>2, <2>2
  <2> QED BY <2>4, <2>5
<1> QED BY <1>3, <1>4, <1>5 DEF InOrder

(* init() of a service while they start: all its nodes are found.          *)
LEMMA AllUsable ==
  ASSUME TypeOK, Searches, Starting, NEW s \in Service, ~initialized[s]
  PROVE  KeysAt(s, Usable(s)) = NodeKeys(s) /\ KeysAt(s, Reached(s)) = NodeKeys(s)
<1>1. \A n \in NodeKeys(s) : n \notin nodes
  BY NodesAreApart DEF Searches, Ready
<1>2. \A n \in NodeKeys(s) : K(n) \in Heads /\ K(n).key = n
  BY DEF Heads, NodeKey, K
<1>3. \A n \in NodeKeys(s) : ~Hidden(n)
  BY <1>1, <1>2 DEF Starting, Hidden
<1>4. \A i \in DOMAIN Nodes[s] : Nodes[s][i].key \in NodeKeys(s)
  BY DEF NodeKeys
<1>5. \A i \in DOMAIN Nodes[s] : 1..i \subseteq DOMAIN Nodes[s]
  <2>1. /\ Nodes["helper"] = << >> /\ Nodes["kitchen"] = kitchenNodes
        /\ Nodes["office"] = officeNodes /\ Nodes["living"] = livingNodes
        /\ Nodes["room"] = roomNodes
    BY ServiceNames DEF Nodes, ByService
  <2> QED BY <2>1, ServiceNames DEF kitchenNodes, officeNodes, livingNodes, roomNodes
<1>6. Usable(s) = DOMAIN Nodes[s]
  BY <1>3, <1>4, <1>5 DEF Usable
<1>7. Reached(s) = DOMAIN Nodes[s]
  BY <1>6 DEF Reached
<1> QED BY <1>6, <1>7 DEF KeysAt, NodeKeys

LEMMA InitSearches ==
  ASSUME TypeOK, Searches, Starting, NEW c \in DOMAIN chains, NEW s \in Service,
         ~initialized[s], Due(c), Head(chains[c].todo) = s, init(c, s)
  PROVE  Searches'
<1>1. /\ nodes' = nodes \cup NodeKeys(s)
      /\ \A t \in Heads : cache'[t] = IF cache[t] # NotSearched \/ t.key \notin NodeKeys(s)
                                      THEN cache[t] ELSE {t.key}
  BY AllUsable DEF init, onRegisterHardware
<1>2. DOMAIN initialized = Service /\ initialized' = [initialized EXCEPT ![s] = TRUE]
  BY TypeFolds DEF init
<1>3. nodes' = Ready(initialized)'
  <2>1. {x \in Service : initialized'[x]} = {x \in Service : initialized[x]} \cup {s}
    BY <1>2
  <2> QED BY <1>1, <2>1 DEF Searches, Ready
<1>4. ASSUME NEW t \in Heads PROVE /\ cache'[t] \in {NotSearched, Providers[t]}
                                   /\ cache'[t] # NotSearched => t.key \in nodes'
  <2>1. CASE cache[t] # NotSearched \/ t.key \notin NodeKeys(s)
    BY <1>1, <2>1 DEF Searches, Starting
  <2>2. CASE cache[t] = NotSearched /\ t.key \in NodeKeys(s)
    <3>1. t.key \in NodeKey
      BY <2>2 DEF NodeKey
    <3>2. t = K(t.key)
      BY <3>1, AllHeads, NodesOfHouse DEF IsHead, HouseNodes
    <3>3. Providers[t] = {t.key}
      BY <3>1, <3>2, NodeProvidesItself
    <3> QED BY <1>1, <2>2, <3>3
  <2> QED BY <2>1, <2>2
<1>5. \A x \in Service : callbacks'[x] = << >>
  BY DEF init, Starting
<1>6. PICK k \in 0..4 : InOrder(k)
  BY DEF Starting
<1>7. c = 1 /\ s = Items[k + 1] /\ chains[1].todo # << >>
  BY <1>6, NextIsNext DEF Due
<1>8. InOrder(k + 1)'
  <2>1. \E waits : Proceeds(1, waits)
    BY <1>7 DEF init
  <2> QED BY <1>2, <1>6, <1>7, <2>1, InOrderNext
<1>9. CASE k = 4
  <2>1. \A i \in 1..5 : initialized'[Items[i]]
    BY <1>8, <1>9 DEF InOrder
  <2>2. \A x \in Service : initialized'[x]
    BY <2>1, ItemsAre
  <2> QED BY <1>3, <1>4, <2>2 DEF Searches
<1>10. CASE k # 4
  <2>1. k + 1 \in 0..4
    BY <1>10
  <2> QED BY <1>3, <1>4, <1>5, <1>8, <2>1 DEF Searches, Starting
<1> QED BY <1>9, <1>10

LEMMA SearchStep == SearchInv /\ [Next]_vars => SearchInv'
<1> SUFFICES ASSUME SearchInv, [Next]_vars, ~early', ~(faults' > 0) PROVE Searches'
  BY TypeStep DEF SearchInv
<1>1. TypeOK
  BY DEF SearchInv
<1>2. ASSUME Searches, UNCHANGED <<initialized, nodes, cache, callbacks, chains>>
      PROVE  Searches'
  BY <1>2 DEF Searches, Starting, InOrder
<1>3. ASSUME NEW c \in DOMAIN chains, NEW s \in Service,
             singleServiceRunner(c, s) PROVE Searches'
  <2>1. Due(c) /\ Head(chains[c].todo) = s /\ early' = early
    BY <1>3 DEF singleServiceRunner
  <2>2. ~FailsToLoad(c, s)
    <3>1. faults \in 0..MaxFaults
      BY <1>1, TypeFolds
    <3> QED BY <3>1, BoundAssumption DEF FailsToLoad
  <2>3. Searches
    <3>1. ~(faults > 0)
      <4>1. faults \in Nat /\ (faults' = faults \/ faults' = faults + 1)
        BY <1>1, <1>3, <2>2, TypeFolds, BoundAssumption
           DEF singleServiceRunner, init, run, Starts, FailsToStart
      <4> QED BY <4>1
    <3> QED BY <2>1, <3>1 DEF SearchInv
  <2>4. CASE ~initialized[s] /\ Load(s) /\ init(c, s)
    <3>1. Starting
      BY <2>3, <2>4 DEF Searches
    <3> QED BY <1>1, <2>1, <2>3, <2>4, <3>1, InitSearches
  <2>5. CASE initialized[s] /\ (run(c, s) \/ UNCHANGED <<initialized, hardware, cache>>)
    <3>1. \A x \in Service : initialized[x]
      <4>1. ~Starting
        BY <1>1, <2>1, <2>5, NextIsNext DEF Starting
      <4> QED BY <2>3, <4>1 DEF Searches
    <3>2. UNCHANGED <<initialized, nodes>>
      BY <2>5 DEF run, hardware
    <3>3. \A t \in Heads : cache'[t] \in {NotSearched, Providers[t]}
      <4>1. (\E terms : cache' = Searched(terms)) \/ UNCHANGED cache
        BY <2>5 DEF run, Starts, FailsToStart
      <4> QED BY <1>1, <2>3, <3>1, <4>1, SearchedFinds DEF Searches
    <3> QED BY <1>1, <2>3, <3>1, <3>2, <3>3, SearchesAgain
  <2> QED BY <1>3, <2>2, <2>4, <2>5 DEF singleServiceRunner
<1>4. ASSUME NEW c \in DOMAIN chains, Resolve(c) PROVE Searches'
  <2>1. Searches /\ UNCHANGED <<initialized, nodes, cache, callbacks>>
    BY <1>4 DEF Resolve, SearchInv, flags, hardware
  <2>2. Len(chains') = Len(chains) /\ chains'[1].todo = chains[1].todo
    <3>1. chains' = [chains EXCEPT ![c].waits = "no"] /\ chains \in Seq(Step)
      BY <1>1, <1>4, TypeFolds DEF Resolve
    <3>2. chains[1] \in Step \/ 1 # c
      BY <3>1
    <3> QED BY <3>1, <3>2 DEF Step
  <2> QED BY <2>1, <2>2 DEF Searches, Starting, InOrder
<1>5. ASSUME NEW s \in Service, Event(s) PROVE Searches'
  <2>1. Searches /\ UNCHANGED <<initialized, nodes>>
    BY <1>5 DEF Event, SearchInv, flags, hardware
  <2>2. \A x \in Service : initialized[x]
    <3>1. callbacks[s] # << >>
      BY <1>5 DEF Event
    <3> QED BY <2>1, <3>1 DEF Searches, Starting
  <2>3. \E terms : cache' = Searched(terms)
    BY <1>5 DEF Event
  <2> QED BY <1>1, <2>1, <2>2, <2>3, SearchedFinds, SearchesAgain
<1>6. ASSUME NEW s \in Service, reloadService(s) PROVE Searches'
  <2>1. Searches /\ UNCHANGED <<nodes, cache>> /\ \A x \in Service : initialized[x]
    BY <1>6 DEF reloadService, SearchInv, hardware
  <2>2. UNCHANGED initialized
    BY <1>1, <1>6, <2>1, TypeFolds DEF reloadService
  <2> QED BY <1>1, <2>1, <2>2, SearchesAgain DEF Searches
<1>7. CASE UNCHANGED vars
  BY <1>2, <1>7 DEF vars, flags, hardware, SearchInv
<1> QED BY <1>3, <1>4, <1>5, <1>6, <1>7 DEF Next

LEMMA SearchImplies == SearchInv => SearchesFind
BY HeadsProvided DEF SearchInv, Searches, SearchesFind

(* Whatever is reloaded once all services are initialized, and whenever    *)
(* timers and events come: a search finds all the hardware of the house    *)
(* that its term is about, and finds some (Network.js:184-200).            *)
THEOREM SearchesFindSafe == Spec => []SearchesFind
BY SearchInit, SearchStep, SearchImplies, PTL DEF Spec
=============================================================================

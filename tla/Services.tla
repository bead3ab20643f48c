------------------------------ MODULE Services ------------------------------
(***************************************************************************)
(* The life of the controller's services: Network.registerServices builds  *)
(* one chain of promises that loads, initializes and runs them, reload     *)
(* builds another for the same services, and either may still be waiting   *)
(* for a service when an event or a reload comes.  init() registers the    *)
(* hardware of a service, run() searches for hardware, its own and others';*)
(* a search is answered from a cache from the second time on.              *)
(*                                                                         *)
(* One step is one turn of the event loop's work: a callback of a chain,   *)
(* the timer that resolves an init, an event, a request to reload.         *)
(***************************************************************************)
EXTENDS House, SequencesExt

CONSTANTS MaxReloads,   \* bound: reloads
          MaxFaults     \* bound: services that fail to load or to start

ASSUME BoundAssumption == MaxReloads \in Nat /\ MaxFaults \in Nat

VARIABLES
  loaded, initialized, running,   \* the flags of services.items
  live,        \* how many instances there were; the last is liveInstance
  nodes,       \* keys of the nodes whose hardware is registered
  added,       \* how often net.add was called for a node
  cache,       \* _selectors of the network: what the first term of a
               \* selection found when it was searched first
  callbacks,   \* per service, one entry per run() that came to on()
  chains,      \* promise chains: the callbacks to come, and what is awaited
  early,       \* history: a reload came before every service was initialized
  reloads, faults

flags == <<loaded, initialized, running>>
hardware == <<nodes, added>>
vars == <<flags, live, hardware, cache, callbacks, chains, early, reloads, faults>>

NodeKeys(s) == {Nodes[s][i].key : i \in DOMAIN Nodes[s]}
NodeKey == UNION {NodeKeys(s) : s \in Service}
OfNode == [n \in NodeKey |-> {i \in UNION {Hardware[s] : s \in Service} : i.node = n}]

(* The terms selections start with.                                        *)
ResetHeads(s) == {Head(sel) : sel \in Range(Resets[s])}
WireHeads(w) == {K(w.node)} \cup {Head(sel) : sel \in Range(w.handler.targets)}
Heads == {K(n) : n \in NodeKey}
           \cup (UNION {ResetHeads(s) : s \in Service})
           \cup (UNION { UNION {WireHeads(w) : w \in Wires[s]} : s \in Service })
NotSearched == {"not searched"}

(* The nodes on which a search for a term would find something, if all     *)
(* hardware were registered.                                               *)
Providers == [t \in Heads |-> {n \in NodeKey :
                \/ Matches([key |-> n, tags |-> {}], t)
                \/ \E i \in OfNode[n] : Matches(i, t) \/ \E io \in i.ios : Matches(io, t)}]

Chain(todo) == [todo |-> todo, waits |-> "no"]

(* A request is only taken when no callback is due: promises are settled   *)
(* before the loop looks at sockets and timers.                            *)
Due(c) == chains[c].todo # << >> /\ chains[c].waits = "no"
Idle == \A c \in DOMAIN chains : ~Due(c)

TypeOK ==
  /\ \A f \in {loaded, initialized, running} : f \in [Service -> BOOLEAN]
  /\ live \in [Service -> Nat]
  /\ nodes \subseteq NodeKey /\ added \in [NodeKey -> Nat]
  /\ cache \in [Heads -> {NotSearched} \cup SUBSET NodeKey]
  /\ callbacks \in [Service -> Seq([gen : Nat, wires : SUBSET UNION {Wires[s] : s \in Service}])]
  /\ chains \in Seq([todo : Seq(Service), waits : {"no", "init", "ever"}])
  /\ early \in BOOLEAN /\ reloads \in 0..MaxReloads /\ faults \in 0..MaxFaults

-----------------------------------------------------------------------------
(* Mutant: every service is initialized and run before the next.           *)
registerServices_OneByOne(ini, run) ==
  FoldLeft(LAMBDA todo, s : todo \o (IF ~ini[s] THEN <<s>> ELSE << >>)
                                 \o (IF ~run[s] THEN <<s>> ELSE << >>), << >>, Items)

(* The callbacks chained for the services, in the order of the list: those *)
(* not initialized, then those not running, as they are when the chain is  *)
(* built. The list is fixed, and the loops over it are written out.        *)
Todo(s, done) == IF done[s] THEN << >> ELSE <<s>>
Remaining(done) == Todo("helper", done) \o Todo("kitchen", done) \o Todo("office", done)
                     \o Todo("living", done) \o Todo("room", done)
registerServices(ini, run) == Remaining(ini) \o Remaining(run)

Init ==
  /\ loaded = [s \in Service |-> FALSE]
  /\ initialized = loaded /\ running = loaded
  /\ live = [s \in Service |-> 0]
  /\ nodes = {} /\ added = [n \in NodeKey |-> 0]
  /\ cache = [t \in Heads |-> NotSearched]
  /\ callbacks = [s \in Service |-> << >>]
  /\ chains = << Chain(registerServices(initialized, running)) >>
  /\ early = FALSE /\ reloads = 0 /\ faults = 0

(* A search of the network for terms: what is cached stays.                *)
Searched(terms) ==
  [t \in Heads |-> IF t \in terms /\ cache[t] = NotSearched
                   THEN Providers[t] \cap nodes ELSE cache[t]]

HeadsOf(sels) == {Head(sel) : sel \in Range(sels)}

(* The chain after its first callback.                                     *)
Proceeds(c, waits) ==
  chains' = [chains EXCEPT ![c] = [todo |-> Tail(chains[c].todo), waits |-> waits]]
Rejected(c) == chains' = [chains EXCEPT ![c].todo = << >>]

-----------------------------------------------------------------------------
(* init() of a service: each node is added and then searched for by its    *)
(* key, to be given its interfaces; one that was searched for too early is *)
(* not found now, and the next call on what was found instead throws,      *)
(* which registerServices catches. Living adds its first two nodes before  *)
(* it uses either.                                                         *)
Hidden(n) == cache[K(n)] \notin {NotSearched, {n}}
Turn(s, i) == IF s = "living" /\ i = 2 THEN 1 ELSE i
Usable(s) == {i \in DOMAIN Nodes[s] : \A j \in 1..i : ~Hidden(Nodes[s][j].key)}
Reached(s) == {i \in DOMAIN Nodes[s] :
                 \A j \in DOMAIN Nodes[s] : Turn(s, j) < Turn(s, i) => j \in Usable(s)}
KeysAt(s, is) == {Nodes[s][i].key : i \in is}

(* Mutant: the interfaces are added to the network, not to their node.     *)
onRegisterHardware_Flat(s) ==
  /\ nodes' = nodes \cup {i.key : i \in Hardware[s]}
  /\ added' = [n \in NodeKey |-> IF n \in KeysAt(s, Reached(s)) THEN added[n] + 1 ELSE added[n]]
  /\ cache' = cache

onRegisterHardware(s) ==
  /\ nodes' = nodes \cup KeysAt(s, Usable(s))
  /\ added' = [n \in NodeKey |-> IF n \in KeysAt(s, Reached(s)) THEN added[n] + 1 ELSE added[n]]
  /\ cache' = [t \in Heads |->
                 IF cache[t] # NotSearched \/ t.key \notin KeysAt(s, Reached(s)) THEN cache[t]
                 ELSE IF t.key \in KeysAt(s, Usable(s)) THEN {t.key} ELSE {}]

init(c, s) ==
  /\ initialized' = [initialized EXCEPT ![s] = TRUE]
  /\ onRegisterHardware(s)
  /\ Proceeds(c, IF Nodes[s] # << >> /\ Usable(s) = DOMAIN Nodes[s] THEN "init" ELSE "no")
  /\ UNCHANGED <<running, callbacks, faults>>

(* onStart() of a service: resets its outputs, takes its handlers from the *)
(* helper service, and puts them on the keys it finds.                     *)
UsesHelper(s) == Wires[s] # {}
HelperIsThere == live'["helper"] # 0

Starts(c, s) ==
  /\ UsesHelper(s) => HelperIsThere
  /\ cache' = Searched(HeadsOf(Resets[s]) \cup {K(w.node) : w \in Wires[s]})
  /\ callbacks' = [callbacks EXCEPT ![s] = Append(@,
                     [gen |-> live'[s], wires |-> {w \in Wires[s] : w.node \in cache'[K(w.node)]}])]
  /\ Proceeds(c, "no")
  /\ UNCHANGED faults

(* office-service catches what its onStart throws and then resolves        *)
(* nothing; with the others the chain is rejected, callbacks and all.      *)
FailsToStart(c, s) ==
  /\ \/ UsesHelper(s) /\ ~HelperIsThere /\ UNCHANGED faults
     \/ faults < MaxFaults /\ faults' = faults + 1
  /\ cache' = Searched(HeadsOf(Resets[s]))
  /\ IF s = "office" THEN Proceeds(c, "ever") ELSE Rejected(c)
  /\ UNCHANGED callbacks

run(c, s) ==
  /\ running' = [running EXCEPT ![s] = TRUE]
  /\ Starts(c, s) \/ FailsToStart(c, s)
  /\ UNCHANGED <<initialized, hardware>>

-----------------------------------------------------------------------------
(* One callback of a chain: load the service if it is not, then one of     *)
(* init, run and nothing.                                                  *)
Load(s) ==
  /\ loaded' = [loaded EXCEPT ![s] = TRUE]
  /\ live' = IF loaded[s] THEN live ELSE [live EXCEPT ![s] = @ + 1]

FailsToLoad(c, s) ==
  /\ ~loaded[s] /\ faults < MaxFaults
  /\ faults' = faults + 1
  /\ Proceeds(c, "no")
  /\ UNCHANGED <<flags, live, hardware, cache, callbacks>>

singleServiceRunner(c, s) ==
  /\ Due(c) /\ Head(chains[c].todo) = s
  /\ \/ FailsToLoad(c, s)
     \/ ~initialized[s] /\ Load(s) /\ init(c, s)
     \/ initialized[s] /\ ~running[s] /\ Load(s) /\ run(c, s)
     \/ /\ initialized[s] /\ running[s] /\ Load(s) /\ Proceeds(c, "no")
        /\ UNCHANGED <<initialized, running, hardware, cache, callbacks, faults>>
  /\ UNCHANGED <<early, reloads>>

(* The hardware has had its 200 or 300 ms.                                 *)
Resolve(c) ==
  /\ Idle /\ chains[c].waits = "init"
  /\ chains' = [chains EXCEPT ![c].waits = "no"]
  /\ UNCHANGED <<flags, live, hardware, cache, callbacks, early, reloads, faults>>

(* An event reaches a handler, which searches for what it drives.          *)
Event(s) ==
  /\ Idle
  /\ \E k \in DOMAIN callbacks[s] : \E w \in callbacks[s][k].wires :
       cache' = Searched(HeadsOf(w.handler.targets))
  /\ UNCHANGED <<flags, live, hardware, callbacks, chains, early, reloads, faults>>

(* Mutant: the callbacks of the instance that goes are left in place.      *)
reloadService_KeepsCallbacks(s) ==
  /\ Idle /\ reloads < MaxReloads
  /\ loaded' = [loaded EXCEPT ![s] = FALSE]
  /\ running' = [running EXCEPT ![s] = FALSE]
  /\ initialized' = [initialized EXCEPT ![s] = TRUE]
  /\ chains' = Append(chains, Chain(registerServices(initialized', running')))
  /\ early' = (early \/ \E x \in Service : ~initialized[x])
  /\ reloads' = reloads + 1
  /\ UNCHANGED <<live, hardware, cache, callbacks, faults>>

(* Mutant: the service is to be initialized again.                         *)
reloadService_FromScratch(s) ==
  /\ Idle /\ reloads < MaxReloads
  /\ callbacks' = [callbacks EXCEPT ![s] = << >>]
  /\ loaded' = [loaded EXCEPT ![s] = FALSE]
  /\ running' = [running EXCEPT ![s] = FALSE]
  /\ initialized' = [initialized EXCEPT ![s] = FALSE]
  /\ chains' = Append(chains, Chain(registerServices(initialized', running')))
  /\ early' = (early \/ \E x \in Service : ~initialized[x])
  /\ reloads' = reloads + 1
  /\ UNCHANGED <<live, hardware, cache, faults>>

(* Mutant: the service still counts as running.                            *)
reloadService_StillRunning(s) ==
  /\ Idle /\ reloads < MaxReloads
  /\ callbacks' = [callbacks EXCEPT ![s] = << >>]
  /\ loaded' = [loaded EXCEPT ![s] = FALSE]
  /\ initialized' = [initialized EXCEPT ![s] = TRUE]
  /\ chains' = Append(chains, Chain(registerServices(initialized', running)))
  /\ early' = (early \/ \E x \in Service : ~initialized[x])
  /\ reloads' = reloads + 1
  /\ UNCHANGED <<running, live, hardware, cache, faults>>

reloadService(s) ==
  /\ Idle /\ reloads < MaxReloads
  /\ callbacks' = [callbacks EXCEPT ![s] = << >>]
  /\ loaded' = [loaded EXCEPT ![s] = FALSE]
  /\ running' = [running EXCEPT ![s] = FALSE]
  /\ initialized' = [initialized EXCEPT ![s] = TRUE]
  /\ chains' = Append(chains, Chain(registerServices(initialized', running')))
  /\ early' = (early \/ \E x \in Service : ~initialized[x])
  /\ reloads' = reloads + 1
  /\ UNCHANGED <<live, hardware, cache, faults>>

Next ==
  \/ \E c \in DOMAIN chains : Resolve(c) \/ \E s \in Service : singleServiceRunner(c, s)
  \/ \E s \in Service : Event(s) \/ reloadService(s)

Spec == Init /\ [][Next]_vars

(* The event loop runs what is due, and timers fire. Nobody has to press a *)
(* key or to reload anything.                                              *)
FairSpec ==
  Spec /\ \A c \in 1..(MaxReloads + 1) :
            WF_vars(/\ c \in DOMAIN chains
                    /\ Resolve(c) \/ \E s \in Service : singleServiceRunner(c, s))

-----------------------------------------------------------------------------
(* The callbacks of a service are those of one run() of its live instance: *)
(* whatever was reloaded, in whatever state of the chains, no key is       *)
(* answered twice, or by code that was replaced (Network.js:217, :175).    *)
OneGeneration ==
  \A s \in Service : /\ Len(callbacks[s]) <= 1
                     /\ callbacks[s] # << >> =>
                          running[s] /\ loaded[s] /\ callbacks[s][1].gen = live[s]

(* No node is added to the network twice: of two with one id only the      *)
(* first would be given events, of two with one key the search would       *)
(* return a collection, which has no pins (Network.js:160, :221).          *)
AddedOnce == \A n \in NodeKey : added[n] <= 1

(* Searches are made when everything they look for is registered, so that  *)
(* no cached result hides hardware, and every selection a service makes    *)
(* has an output or a key in it: unless a reload came while services were  *)
(* being initialized, or one failed (Network.js:184-200, Object.js:48).    *)
SearchesFind ==
  (early \/ faults > 0) \/ \A t \in Heads : cache[t] # NotSearched => cache[t] = Providers[t] /\ cache[t] # {}

(* Unless one fails, all services come to run, each with its handlers on   *)
(* its keys, reloads or not.                                               *)
AllRun == <>[](\/ early \/ faults > 0
               \/ \A s \in Service : /\ running[s]
                                     /\ callbacks[s] # << >> /\ callbacks[s][1].wires = Wires[s])

(* The comment of init() (Service.js:60): by the time a service runs, its  *)
(* hardware is registered.                                                 *)
RunsOnItsHardware ==
  \A s \in Service : running[s] => NodeKeys(s) \subseteq nodes
=============================================================================

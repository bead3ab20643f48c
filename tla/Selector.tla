------------------------------ MODULE Selector ------------------------------
(***************************************************************************)
(* MCU/Object.js: the tree of nodes, interfaces and IOs, and find(), which *)
(* turns a selector into the objects it is about: one object, or an object *)
(* of its own ("mixed-multiple") whose children they are. Every object     *)
(* remembers each search made at it and never forgets it, so what is added *)
(* or tagged later is not found by it.                                     *)
(*                                                                         *)
(* A call is $(selector).method(...), the way all code uses the tree. In   *)
(* which order a collection is walked makes no difference to the tree, but *)
(* how often it holds an object does: a collection is a bag.               *)
(***************************************************************************)
EXTENDS Integers, Sequences

CONSTANTS Key, Tag, Service,
          Terms,        \* the terms selectors are made of
          MaxObjects,   \* bound: nodes, interfaces and IOs
          MaxCalls      \* bound: calls on a selection

(* A term names a key, or none (NoKey), and tags: "key:tag:tag".           *)
CONSTANT NoKey
Selectors == {<<t>> : t \in Terms} \cup (Terms \X Terms)

ASSUME TermAssumption ==
  /\ NoKey \notin Key
  /\ Terms \subseteq [key : Key \cup {NoKey}, tags : SUBSET Tag]
ASSUME BoundAssumption == MaxObjects \in Nat /\ MaxCalls \in Nat

VARIABLES
  tree,        \* the objects in the order they were added: parent, key, tags
  found,       \* _selectors of all objects: at which, term -> what was found
  lit,         \* IOs whose value is true
  callbacks,   \* per object, how many handlers of a service are on it
  running,     \* services with handlers
  calls        \* number of calls so far

vars == <<tree, found, lit, callbacks, running, calls>>

Network == 0
Object == DOMAIN tree
Parent(o) == IF o \in Object THEN tree[o].parent ELSE Network

(* The network has nodes, these have interfaces, and these have IOs.       *)
Above(o) == {Parent(o), Parent(Parent(o)), Parent(Parent(Parent(o)))}
IsIO(o) == Parent(Parent(o)) # Network

(* A collection: how often it holds each object that is, or will be there. *)
Ids == 1..MaxObjects
Bag == [Ids -> Nat]
In(b) == {o \in Ids : b[o] > 0}
One(o) == [x \in Ids |-> IF x = o THEN 1 ELSE 0]
Children(p) == [x \in Ids |-> IF x \in Object /\ Parent(x) = p THEN 1 ELSE 0]

Matches(o, t) == t.key \in {NoKey, tree[o].key} /\ t.tags \subseteq tree[o].tags

(* A search is a place and a term. A place is the network or an object,    *)
(* <<o>>, or a mixed-multiple, which is named by the search that returned  *)
(* it.                                                                     *)
Handle(f, search) ==
  IF \E o \in Ids : f[search] = One(o) THEN <<CHOOSE o \in Ids : f[search] = One(o)>> ELSE search
IsMixed(place) == Len(place) = 2
AtNetwork(t) == << <<Network>>, t >>

TypeOK ==
  /\ tree \in Seq([parent : {Network} \cup Ids, key : Key, tags : SUBSET Tag])
  /\ Len(tree) <= MaxObjects
  /\ \A o \in Object : Parent(o) < o /\ Network \in Above(o)
  /\ \A s \in DOMAIN found : /\ s[2] \in Terms /\ found[s] \in Bag /\ In(found[s]) \subseteq Object
                             /\ IsMixed(s[1]) => s[1] \in DOMAIN found
                             /\ ~IsMixed(s[1]) => s[1][1] \in {Network} \cup Object
  /\ lit \subseteq {o \in Object : IsIO(o)}
  /\ callbacks \in [Object -> [Service -> Nat]]
  /\ \A o \in Object : \A s \in Service : callbacks[o][s] > 0 => IsIO(o)
  /\ running \subseteq Service /\ calls \in 0..MaxCalls

Init ==
  /\ tree = << >> /\ found = << >> /\ lit = {} /\ callbacks = << >>
  /\ running = {} /\ calls = 0

-----------------------------------------------------------------------------
(* Mutant: children that match are not looked into.                        *)
parseChildren_Outermost(children, t) ==
  LET Times(o) == IF o \in Ids THEN children[o] ELSE 0
      Open(o) == o \notin Object \/ ~Matches(o, t)
  IN [o \in Ids |-> IF o \notin Object \/ ~Matches(o, t) THEN 0
                    ELSE Times(o) + (IF Open(Parent(o)) THEN Times(Parent(o)) ELSE 0)
                         + (IF Open(Parent(o)) /\ Open(Parent(Parent(o)))
                            THEN Times(Parent(Parent(o))) ELSE 0)]

(* The matching children of a place, then those of each of them, and so on:*)
(* an object is found once for every child that it is or that it is under. *)
parseChildren(children, t) ==
  LET Times(o) == IF o \in Ids THEN children[o] ELSE 0
  IN [o \in Ids |-> IF o \notin Object \/ ~Matches(o, t) THEN 0
                    ELSE Times(o) + Times(Parent(o)) + Times(Parent(Parent(o)))]

cacheSelector(f, search, value) ==
  [x \in DOMAIN f \cup {search} |-> IF x = search THEN value ELSE f[x]]

(* Mutant: the children of the network are searched, wherever it is asked. *)
find_FromNetwork(f, place, t) ==
  IF <<place, t>> \in DOMAIN f THEN f
  ELSE cacheSelector(f, <<place, t>>, parseChildren(Children(Network), t))

(* find() of one term at a place: what is remembered, or what is found now.*)
find(f, place, t) ==
  IF <<place, t>> \in DOMAIN f THEN f
  ELSE cacheSelector(f, <<place, t>>,
                     parseChildren(IF IsMixed(place) THEN f[place] ELSE Children(place[1]), t))

(* A selector of two terms: the second is searched for in what the first   *)
(* returned. (That the selector as a whole is remembered at the network    *)
(* too changes nothing, since both of its searches are.)                   *)
Walk(sel) ==
  LET first == find(found, <<Network>>, sel[1])
  IN IF Len(sel) = 1 THEN first ELSE find(first, Handle(first, AtNetwork(sel[1])), sel[2])
Search(f, sel) ==
  IF Len(sel) = 1 THEN AtNetwork(sel[1]) ELSE << Handle(f, AtNetwork(sel[1])), sel[2] >>

(* Mutant: nodes and interfaces react as well.                             *)
Targets_All(f, sel, o) == f[Search(f, sel)][o]

(* How often a method is called on an object: on every child of a mixed-   *)
(* multiple in turn, or on the one object. Nodes and interfaces do not     *)
(* react.                                                                  *)
Targets(f, sel, o) == IF IsIO(o) THEN f[Search(f, sel)][o] ELSE 0

Called ==
  /\ calls < MaxCalls /\ calls' = calls + 1
  /\ UNCHANGED tree

toggle(sel) ==
  /\ Called
  /\ \E f \in {Walk(sel)} :
       /\ found' = f
       /\ lit' = {o \in Object : (o \in lit) # (Targets(f, sel, o) % 2 = 1)}
  /\ UNCHANGED <<callbacks, running>>

enable(sel, v) ==
  /\ Called
  /\ \E f \in {Walk(sel)} :
       /\ found' = f
       /\ lit' = {o \in Object : IF Targets(f, sel, o) > 0 THEN v ELSE o \in lit}
  /\ UNCHANGED <<callbacks, running>>

on(sel, s) ==
  /\ Called
  /\ \E f \in {Walk(sel)} :
       /\ found' = f
       /\ callbacks' = [o \in Object |-> [callbacks[o] EXCEPT ![s] = @ + Targets(f, sel, o)]]
  /\ running' = running \cup {s}
  /\ UNCHANGED lit

(* Mutant: only the children of the network are asked.                     *)
clearCallbacks_Shallow(o, s) ==
  [x \in Object |-> IF Parent(x) = o THEN [callbacks[x] EXCEPT ![s] = 0] ELSE callbacks[x]]

(* _clearCallbacks at an object: everything below it is asked.             *)
clearCallbacks(o, s) ==
  [x \in Object |-> IF o \in Above(x) THEN [callbacks[x] EXCEPT ![s] = 0] ELSE callbacks[x]]

reloadService(s) ==
  /\ callbacks' = clearCallbacks(Network, s)
  /\ running' = running \ {s}
  /\ UNCHANGED <<tree, found, lit, calls>>

(* A node is added to the network, an interface to a node, an IO to an     *)
(* interface; tags are added to those there are.                           *)
add(o, k, ts) ==
  /\ Len(tree) < MaxObjects
  /\ o \in Object => ~IsIO(o)
  /\ tree' = Append(tree, [parent |-> o, key |-> k, tags |-> ts])
  /\ callbacks' = Append(callbacks, [s \in Service |-> 0])
  /\ UNCHANGED <<found, lit, running, calls>>

tag(o, ts) ==
  /\ tree' = [tree EXCEPT ![o].tags = @ \cup ts]
  /\ UNCHANGED <<found, lit, callbacks, running, calls>>

Next ==
  \/ \E o \in {Network} \cup Object, k \in Key, ts \in SUBSET Tag : add(o, k, ts)
  \/ \E o \in Object, ts \in SUBSET Tag \ {{}} : tag(o, ts)
  \/ \E sel \in Selectors :
       \/ toggle(sel)
       \/ \E v \in BOOLEAN : enable(sel, v)
       \/ \E s \in Service : on(sel, s)
  \/ \E s \in Service : reloadService(s)

Spec == Init /\ [][Next]_vars

-----------------------------------------------------------------------------
(* What a selector says: objects that match its last term, in or below one *)
(* that matches the first. An object that is the only one to match the     *)
(* first term is not among its own results.                                *)
Matching(t) == {o \in Object : Matches(o, t)}
Below(t) == {o \in Object : ({o} \cup Above(o)) \cap Matching(t) # {}}
Selected(t1, t2) ==
  LET both == Matching(t2) \cap Below(t1)
  IN IF \E o \in Object : Matching(t1) = {o} THEN both \ Matching(t1) ELSE both

(* A search that is made finds what the selector says, exactly, if what    *)
(* its first term found is not out of date (Object.js:60, :68).            *)
FindsWhatItSays ==
  [][\A s \in DOMAIN found' \ DOMAIN found :
       IF s = AtNetwork(s[2]) THEN In(found'[s]) = Matching(s[2])
       ELSE \A t \in Terms :
              LET first == AtNetwork(t) IN
              (/\ first \in DOMAIN found' /\ Handle(found', first) = s[1]
               /\ In(found'[first]) = Matching(t))
                => In(found'[s]) = Selected(t, s[2])]_vars

(* What is remembered may be too little, but is never wrong: everything in *)
(* it matches, and is where the selector says (Object.js:48, :116).        *)
CachedStillHolds ==
  \A s \in DOMAIN found : \A o \in In(found[s]) :
    /\ Matches(o, s[2])
    /\ IsMixed(s[1]) => ({o} \cup Above(o)) \cap In(found[s[1]]) # {}
    /\ ~IsMixed(s[1]) => s[1][1] \in Above(o)

(* A reloaded service leaves no handler behind, on whatever selections,    *)
(* old or new, it had put them (Object.js:171, Network.js:217).            *)
NoneLeftBehind ==
  \A o \in Object : \A s \in Service : callbacks[o][s] > 0 => s \in running

(* README.md:74, "disable all IO tagged with out under my-ext-0": after    *)
(* $('key:tag').disable() no IO of that tag under that object is lit.      *)
DisablesUnder ==
  [][\A t \in Terms : enable(<<t>>, FALSE) /\ t.key # NoKey /\ t.tags # {} =>
       \A o \in lit' : ~(/\ t.tags \subseteq tree[o].tags
                         /\ \E a \in Above(o) \ {Network} : tree[a].key = t.key)]_vars
=============================================================================

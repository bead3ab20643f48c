--------------------------- MODULE SelectorProofs ---------------------------
(***************************************************************************)
(* Proofs about Selector, for trees of any size and any number of calls:   *)
(* the collections keep their type, nothing wrong is remembered, a         *)
(* reloaded service leaves no handler behind, and a new search finds what  *)
(* its selector says.                                                      *)
(***************************************************************************)
EXTENDS Selector, SequenceTheorems, TLAPS

-----------------------------------------------------------------------------
(* The tree: a parent is older than its children, and the network is at    *)
(* most three steps up.                                                    *)
Made == [parent : {Network} \cup Ids, key : Key, tags : SUBSET Tag]
TreeOK ==
  /\ tree \in Seq(Made) /\ Len(tree) <= MaxObjects
  /\ \A o \in Object : Parent(o) < o /\ Network \in Above(o)

LEMMA IdFacts == MaxObjects \in Nat /\ Network \notin Ids /\ Ids \subseteq Nat
BY BoundAssumption DEF Network, Ids

LEMMA ObjectFacts ==
  ASSUME TreeOK
  PROVE  Object = 1..Len(tree) /\ Len(tree) \in Nat /\ Object \subseteq Ids
<1>1. Len(tree) \in Nat /\ Object = 1..Len(tree)
  BY LenProperties DEF TreeOK, Object
<1> QED BY <1>1, BoundAssumption DEF TreeOK, Ids

LEMMA MadeFacts ==
  ASSUME TreeOK, NEW o \in Object
  PROVE  /\ tree[o] \in Made
         /\ Parent(o) = tree[o].parent
<1>1. tree[o] \in Made
  BY ElementOfSeq, ObjectFacts DEF TreeOK
<1> QED BY <1>1 DEF Parent

LEMMA ParentFacts ==
  ASSUME TreeOK
  PROVE  /\ Parent(Network) = Network
         /\ \A o \in Object : Parent(o) \in {Network} \cup Object
         /\ \A o \in Object : Parent(o) < o /\ Parent(o) # o
         /\ \A o \in Object : Parent(Parent(Parent(o))) = Network
<1>1. Network \notin Object
  BY ObjectFacts, IdFacts
<1>2. Parent(Network) = Network
  BY <1>1 DEF Parent
<1>3. ASSUME NEW o \in Object PROVE Parent(o) \in {Network} \cup Object
  <2>1. Parent(o) \in {Network} \cup Ids
    BY MadeFacts DEF Made
  <2>2. Parent(o) < o /\ o \in 1..Len(tree) /\ Len(tree) \in Nat
    BY ObjectFacts DEF TreeOK
  <2>3. Object = 1..Len(tree)
    BY ObjectFacts
  <2> QED BY <2>1, <2>2, <2>3, BoundAssumption DEF Network, Ids
<1>4. ASSUME NEW o \in Object PROVE Parent(o) < o /\ Parent(o) # o
  <2>1. Parent(o) < o
    BY DEF TreeOK
  <2>2. o \in Nat /\ Parent(o) \in Nat
    BY <1>3, ObjectFacts, IdFacts DEF Network
  <2> QED BY <2>1, <2>2
<1>5. ASSUME NEW o \in Object PROVE Parent(Parent(Parent(o))) = Network
  <2>1. Network \in {Parent(o), Parent(Parent(o)), Parent(Parent(Parent(o)))}
    BY DEF TreeOK, Above
  <2> QED BY <2>1, <1>2
<1> QED BY <1>2, <1>3, <1>4, <1>5

-----------------------------------------------------------------------------
(* Collections.                                                            *)
LEMMA OneFacts ==
  ASSUME NEW o \in Ids
  PROVE  One(o) \in Bag /\ In(One(o)) = {o}
BY DEF One, Bag, In

LEMMA ChildrenFacts ==
  ASSUME NEW p
  PROVE  /\ Children(p) \in Bag
         /\ \A x \in Ids : Children(p)[x] = IF x \in Object /\ Parent(x) = p THEN 1 ELSE 0
BY DEF Children, Bag

(* How often parseChildren finds an object.                                *)
Times(b, o) == IF o \in Ids THEN b[o] ELSE 0

LEMMA TimesFacts ==
  ASSUME NEW b \in Bag, NEW o
  PROVE  Times(b, o) \in Nat /\ (Times(b, o) > 0 <=> o \in In(b))
BY DEF Times, Bag, In

LEMMA ParseValue ==
  ASSUME NEW b, NEW t, NEW o \in Ids
  PROVE  parseChildren(b, t)[o] =
           IF o \notin Object \/ ~Matches(o, t) THEN 0
           ELSE Times(b, o) + Times(b, Parent(o)) + Times(b, Parent(Parent(o)))
BY DEF parseChildren, Times

LEMMA ParseFacts ==
  ASSUME NEW b \in Bag, NEW t
  PROVE  /\ parseChildren(b, t) \in Bag
         /\ \A o \in Ids : o \in In(parseChildren(b, t)) <=>
              /\ o \in Object /\ Matches(o, t)
              /\ \/ o \in In(b)
                 \/ Parent(o) \in In(b)
                 \/ Parent(Parent(o)) \in In(b)
<1> DEFINE p == parseChildren(b, t)
<1>1. p = [o \in Ids |-> p[o]]
  BY DEF parseChildren
<1>2. ASSUME NEW o \in Ids
      PROVE  /\ p[o] \in Nat
             /\ p[o] > 0 <=> /\ o \in Object /\ Matches(o, t)
                             /\ \/ o \in In(b)
                                \/ Parent(o) \in In(b)
                                \/ Parent(Parent(o)) \in In(b)
  <2> DEFINE x == Times(b, o)
             y == Times(b, Parent(o))
             z == Times(b, Parent(Parent(o)))
  <2>1. /\ x \in Nat /\ (x > 0 <=> o \in In(b))
        /\ y \in Nat /\ (y > 0 <=> Parent(o) \in In(b))
        /\ z \in Nat /\ (z > 0 <=> Parent(Parent(o)) \in In(b))
    BY TimesFacts
  <2>2. p[o] = IF o \notin Object \/ ~Matches(o, t) THEN 0 ELSE x + y + z
    BY ParseValue
  <2> HIDE DEF p, x, y, z
  <2>3. x + y + z \in Nat /\ (x + y + z > 0 <=> x > 0 \/ y > 0 \/ z > 0)
    BY <2>1
  <2>4. CASE o \notin Object \/ ~Matches(o, t)
    BY <2>2, <2>4
  <2>5. CASE o \in Object /\ Matches(o, t)
    <3>1. p[o] = x + y + z
      BY <2>2, <2>5
    <3> QED BY <3>1, <2>1, <2>3, <2>5
  <2> QED BY <2>4, <2>5
<1>3. p \in Bag
  <2> HIDE DEF p
  <2> QED BY <1>1, <1>2 DEF Bag
<1>4. \A o \in Ids : o \in In(p) <=> p[o] > 0
  BY DEF In
<1> QED BY <1>2, <1>3, <1>4

(* A search at an object, or at the network, finds what is below it.       *)
LEMMA ParseBelow ==
  ASSUME TreeOK, NEW p \in {Network} \cup Ids, NEW t
  PROVE  \A o \in Ids : o \in In(parseChildren(Children(p), t)) <=>
           o \in Object /\ Matches(o, t) /\ p \in Above(o)
<1> SUFFICES ASSUME NEW o \in Object, Matches(o, t)
             PROVE  p \in Above(o) <=> \/ o \in In(Children(p))
                                       \/ Parent(o) \in In(Children(p))
                                       \/ Parent(Parent(o)) \in In(Children(p))
  BY ParseFacts, ChildrenFacts, ObjectFacts
<1>1. \A x : x \in In(Children(p)) <=> x \in Object /\ Parent(x) = p
  BY ChildrenFacts, ObjectFacts DEF In
<1>2. /\ Parent(Network) = Network
      /\ Parent(o) \in {Network} \cup Object
      /\ Parent(o) \in Object => Parent(Parent(o)) \in {Network} \cup Object
      /\ Parent(Parent(Parent(o))) = Network
      /\ Network \notin Object
  BY ParentFacts, ObjectFacts, IdFacts
<1> QED BY <1>1, <1>2 DEF Above

(* At the network, it finds each of them once.                             *)
LEMMA ParseOnce ==
  ASSUME TreeOK, NEW t, NEW o \in Ids
  PROVE  parseChildren(Children(Network), t)[o] <= 1
<1> DEFINE b == Children(Network)
<1>1. CASE o \notin Object \/ ~Matches(o, t)
  BY <1>1, ParseValue
<1>2. CASE o \in Object /\ Matches(o, t)
  <2>1. /\ Parent(Network) = Network
        /\ Parent(o) \in {Network} \cup Object
        /\ Parent(o) \in Object => Parent(Parent(o)) \in {Network} \cup Object
        /\ Parent(Parent(Parent(o))) = Network
        /\ Network \notin Object
    BY <1>2, ParentFacts, ObjectFacts, IdFacts
  <2>2. \A x : Times(b, x) = IF x \in Object /\ Parent(x) = Network THEN 1 ELSE 0
    BY ChildrenFacts, ObjectFacts DEF Times
  <2>3. Times(b, o) + Times(b, Parent(o)) + Times(b, Parent(Parent(o))) <= 1
    <3>1. CASE Parent(o) = Network
      BY <3>1, <2>1, <2>2
    <3>2. CASE Parent(o) # Network /\ Parent(Parent(o)) = Network
      BY <3>2, <2>1, <2>2
    <3>3. CASE Parent(o) # Network /\ Parent(Parent(o)) # Network
      BY <3>3, <2>1, <2>2
    <3> QED BY <3>1, <3>2, <3>3
  <2> QED BY <1>2, <2>3, ParseValue
<1> QED BY <1>1, <1>2

-----------------------------------------------------------------------------
(* Places and searches.                                                    *)
LEMMA PlaceFacts ==
  /\ \A o : ~IsMixed(<<o>>) /\ <<o>>[1] = o
  /\ \A t : IsMixed(AtNetwork(t)) /\ AtNetwork(t)[1] = <<Network>> /\ AtNetwork(t)[2] = t
BY DEF IsMixed, AtNetwork

LEMMA HandleFacts ==
  ASSUME NEW f, NEW t
  PROVE  \/ /\ ~\E x \in Ids : f[AtNetwork(t)] = One(x)
            /\ Handle(f, AtNetwork(t)) = AtNetwork(t)
         \/ \E x \in Ids : /\ f[AtNetwork(t)] = One(x)
                           /\ Handle(f, AtNetwork(t)) = <<x>>
<1> DEFINE s == AtNetwork(t)
<1>1. CASE \E x \in Ids : f[s] = One(x)
  <2> DEFINE x == CHOOSE o \in Ids : f[s] = One(o)
  <2>1. x \in Ids /\ f[s] = One(x)
    BY <1>1
  <2>2. Handle(f, s) = <<x>>
    BY <1>1 DEF Handle
  <2> QED BY <2>1, <2>2
<1>2. CASE ~\E x \in Ids : f[s] = One(x)
  BY <1>2 DEF Handle
<1> QED BY <1>1, <1>2

(* A place that can be searched, given the searches made, f.               *)
Place(f, p) ==
  \/ \E o \in {Network} \cup Object : p = <<o>>
  \/ \E t \in Terms : p = AtNetwork(t) /\ p \in DOMAIN f

(* What is remembered of a search: the conjuncts of CachedStillHolds, and  *)
(* that a search at the network has found nothing twice.                   *)
Remembered(f, s) ==
  /\ s = <<s[1], s[2]>> /\ Place(f, s[1]) /\ s[2] \in Terms
  /\ f[s] \in Bag /\ In(f[s]) \subseteq Object
Holds(f, s) ==
  \A o \in In(f[s]) :
    /\ Matches(o, s[2])
    /\ IsMixed(s[1]) => ({o} \cup Above(o)) \cap In(f[s[1]]) # {}
    /\ ~IsMixed(s[1]) => s[1][1] \in Above(o)
Once(f, s) == s[1] = <<Network>> => \A o \in Ids : f[s][o] <= 1
FoundOK(f) == \A s \in DOMAIN f : Remembered(f, s) /\ Holds(f, s) /\ Once(f, s)

LEMMA PlaceKinds ==
  ASSUME NEW f, NEW p, Place(f, p)
  PROVE  /\ IsMixed(p) => /\ p \in DOMAIN f
                          /\ \E t \in Terms : p = AtNetwork(t)
         /\ ~IsMixed(p) => p[1] \in {Network} \cup Object /\ p = <<p[1]>>
<1>1. CASE \E o \in {Network} \cup Object : p = <<o>>
  BY <1>1, PlaceFacts
<1>2. CASE \E t \in Terms : p = AtNetwork(t) /\ p \in DOMAIN f
  BY <1>2, PlaceFacts
<1> QED BY <1>1, <1>2 DEF Place

(* What is found now, at a place where nothing is remembered.              *)
Result(f, p, t) == parseChildren(IF IsMixed(p) THEN f[p] ELSE Children(p[1]), t)

LEMMA MixedResult ==
  ASSUME TreeOK, NEW f, FoundOK(f), NEW p, Place(f, p), NEW t, IsMixed(p)
  PROVE  /\ Result(f, p, t) \in Bag
         /\ \A o \in Ids : o \in In(Result(f, p, t)) <=>
              /\ o \in Object /\ Matches(o, t)
              /\ ({o} \cup Above(o)) \cap In(f[p]) # {}
<1>1. f[p] \in Bag /\ Result(f, p, t) = parseChildren(f[p], t)
  BY PlaceKinds DEF FoundOK, Remembered, Result
<1>2. Network \notin In(f[p])
  BY IdFacts DEF In
<1>3. ASSUME NEW o \in Object
      PROVE  ({o} \cup Above(o)) \cap In(f[p]) # {}
               <=> o \in In(f[p]) \/ Parent(o) \in In(f[p]) \/ Parent(Parent(o)) \in In(f[p])
  <2>1. Above(o) = {Parent(o), Parent(Parent(o)), Network}
    BY ParentFacts DEF Above
  <2> QED BY <2>1, <1>2
<1> QED BY <1>1, <1>3, ParseFacts

LEMMA ObjectResult ==
  ASSUME TreeOK, NEW f, NEW p, Place(f, p), NEW t, ~IsMixed(p)
  PROVE  /\ Result(f, p, t) \in Bag
         /\ \A o \in Ids : o \in In(Result(f, p, t)) <=>
              o \in Object /\ Matches(o, t) /\ p[1] \in Above(o)
<1>1. p[1] \in {Network} \cup Ids
  BY PlaceKinds, ObjectFacts
<1>2. Result(f, p, t) = parseChildren(Children(p[1]), t)
  BY DEF Result
<1> QED BY <1>1, <1>2, ParseBelow, ParseFacts, ChildrenFacts

(* find() adds one search, or none, and what it adds is in order.          *)
LEMMA FindKeeps ==
  ASSUME NEW f, NEW p, NEW t
  PROVE  /\ DOMAIN find(f, p, t) = DOMAIN f \cup {<<p, t>>}
         /\ \A x \in DOMAIN f : find(f, p, t)[x] = f[x]
         /\ <<p, t>> \notin DOMAIN f => find(f, p, t)[<<p, t>>] = Result(f, p, t)
<1> DEFINE s == <<p, t>>
<1>1. CASE s \in DOMAIN f
  BY <1>1 DEF find
<1>2. CASE s \notin DOMAIN f
  <2>1. find(f, p, t) = cacheSelector(f, s, Result(f, p, t))
    BY <1>2 DEF find, Result
  <2> HIDE DEF s
  <2>2. /\ DOMAIN find(f, p, t) = DOMAIN f \cup {s}
        /\ find(f, p, t)[s] = Result(f, p, t)
        /\ \A x \in DOMAIN f : x # s => find(f, p, t)[x] = f[x]
    <3> DEFINE g == find(f, p, t)
               r == Result(f, p, t)
    <3>1. g = cacheSelector(f, s, r)
      BY <2>1
    <3> HIDE DEF g, r
    <3>2. DOMAIN g = DOMAIN f \cup {s} /\ g[s] = r /\ \A x \in DOMAIN f : x # s => g[x] = f[x]
      BY <3>1 DEF cacheSelector
    <3> QED BY <3>2 DEF g, r
  <2>3. /\ DOMAIN find(f, p, t) = DOMAIN f \cup {s}
        /\ \A x \in DOMAIN f : find(f, p, t)[x] = f[x]
        /\ s \notin DOMAIN f => find(f, p, t)[s] = Result(f, p, t)
    BY <1>2, <2>2
  <2> QED BY <2>3 DEF s
<1> QED BY <1>1, <1>2

(* A search that is in order stays so when others are added.               *)
LEMMA SearchKept ==
  ASSUME NEW f, NEW g, DOMAIN f \subseteq DOMAIN g, \A x \in DOMAIN f : g[x] = f[x],
         NEW s \in DOMAIN f, Remembered(f, s), Holds(f, s), Once(f, s)
  PROVE  Remembered(g, s) /\ Holds(g, s) /\ Once(g, s)
<1>1. g[s] = f[s]
  OBVIOUS
<1>2. Place(f, s[1]) /\ (IsMixed(s[1]) => s[1] \in DOMAIN f)
  BY PlaceKinds DEF Remembered
<1>3. Place(g, s[1])
  BY <1>2 DEF Place
<1>4. Remembered(g, s)
  BY <1>1, <1>3 DEF Remembered
<1>5. IsMixed(s[1]) => g[s[1]] = f[s[1]]
  BY <1>2
<1>6. Holds(g, s)
  BY <1>1, <1>5 DEF Holds
<1> QED BY <1>1, <1>4, <1>6 DEF Once

LEMMA FindOK ==
  ASSUME TreeOK, NEW f, FoundOK(f), NEW p, Place(f, p), NEW t \in Terms
  PROVE  FoundOK(find(f, p, t))
<1> DEFINE g == find(f, p, t)
           s == <<p, t>>
           r == Result(f, p, t)
<1>1. /\ DOMAIN g = DOMAIN f \cup {s}
      /\ \A x \in DOMAIN f : g[x] = f[x]
      /\ s \notin DOMAIN f => g[s] = r
  BY FindKeeps
<1>2. s[1] = p /\ s[2] = t
  OBVIOUS
<1>3. ASSUME NEW x \in DOMAIN f PROVE Remembered(g, x) /\ Holds(g, x) /\ Once(g, x)
  <2>1. Remembered(f, x) /\ Holds(f, x) /\ Once(f, x)
    BY DEF FoundOK
  <2> HIDE DEF g
  <2> QED BY <1>1, <2>1, SearchKept
<1>4. ASSUME s \notin DOMAIN f PROVE Remembered(g, s) /\ Holds(g, s) /\ Once(g, s)
  <2>1. g[s] = r
    BY <1>1, <1>4
  <2>2. r \in Bag /\ In(r) \subseteq Object /\ \A o \in In(r) : Matches(o, t)
    <3>1. In(r) \subseteq Ids
      BY DEF In
    <3> HIDE DEF r
    <3>2. CASE IsMixed(p)
      BY <3>1, <3>2, MixedResult DEF r
    <3>3. CASE ~IsMixed(p)
      BY <3>1, <3>3, ObjectResult DEF r
    <3> QED BY <3>2, <3>3
  <2>3. Place(g, p)
    BY <1>1 DEF Place
  <2>4. Remembered(g, s)
    <3> HIDE DEF g, r
    <3> QED BY <1>2, <2>1, <2>2, <2>3 DEF Remembered
  <2>5. IsMixed(p) => \A o \in In(r) : ({o} \cup Above(o)) \cap In(g[p]) # {}
    <3> SUFFICES ASSUME IsMixed(p) PROVE \A o \in In(r) : ({o} \cup Above(o)) \cap In(g[p]) # {}
      OBVIOUS
    <3>1. g[p] = f[p]
      BY <1>1, PlaceKinds
    <3>2. In(r) \subseteq Ids
      BY DEF In
    <3> QED BY <3>1, <3>2, MixedResult
  <2>6. ~IsMixed(p) => \A o \in In(r) : p[1] \in Above(o)
    <3>1. In(r) \subseteq Ids
      BY DEF In
    <3> QED BY <3>1, ObjectResult
  <2>7. Holds(g, s)
    <3> HIDE DEF g, r
    <3> QED BY <1>2, <2>1, <2>2, <2>5, <2>6 DEF Holds
  <2>8. Once(g, s)
    <3> SUFFICES ASSUME p = <<Network>>, NEW o \in Ids PROVE g[s][o] <= 1
      BY <1>2 DEF Once
    <3>1. r = parseChildren(Children(Network), t)
      BY PlaceFacts DEF Result
    <3> HIDE DEF g
    <3> QED BY <2>1, <3>1, ParseOnce
  <2> QED BY <2>4, <2>7, <2>8
<1> HIDE DEF g
<1>5. \A x \in DOMAIN g : Remembered(g, x) /\ Holds(g, x) /\ Once(g, x)
  BY <1>1, <1>3, <1>4
<1> QED BY <1>5 DEF FoundOK, g

-----------------------------------------------------------------------------
(* Walking a selector.                                                     *)
LEMMA HandlePlace ==
  ASSUME NEW f, FoundOK(f), NEW t \in Terms, AtNetwork(t) \in DOMAIN f
  PROVE  Place(f, Handle(f, AtNetwork(t)))
<1>1. CASE Handle(f, AtNetwork(t)) = AtNetwork(t)
  BY <1>1 DEF Place
<1>2. CASE \E x \in Ids : f[AtNetwork(t)] = One(x) /\ Handle(f, AtNetwork(t)) = <<x>>
  <2>1. PICK x \in Ids : f[AtNetwork(t)] = One(x) /\ Handle(f, AtNetwork(t)) = <<x>>
    BY <1>2
  <2>2. In(f[AtNetwork(t)]) \subseteq Object
    BY DEF FoundOK, Remembered
  <2>3. x \in Object
    BY <2>1, <2>2, OneFacts
  <2> QED BY <2>1, <2>3 DEF Place
<1> QED BY <1>1, <1>2, HandleFacts

LEMMA NetworkPlace ==
  ASSUME NEW f
  PROVE  Place(f, <<Network>>)
BY DEF Place

(* g remembers what f does, and what is new in it was found now.           *)
Extends(f, g) ==
  /\ DOMAIN f \subseteq DOMAIN g /\ \A x \in DOMAIN f : g[x] = f[x]
  /\ \A s \in DOMAIN g \ DOMAIN f : g[s] = Result(g, s[1], s[2])

LEMMA FindExtends ==
  ASSUME NEW f, NEW p, Place(f, p), NEW t
  PROVE  Extends(f, find(f, p, t)) /\ <<p, t>> \in DOMAIN find(f, p, t)
<1> DEFINE g == find(f, p, t)
           s == <<p, t>>
<1>1. /\ DOMAIN g = DOMAIN f \cup {s}
      /\ \A x \in DOMAIN f : g[x] = f[x]
      /\ s \notin DOMAIN f => g[s] = Result(f, p, t)
  BY FindKeeps
<1>2. s[1] = p /\ s[2] = t
  OBVIOUS
<1>3. IsMixed(p) => p \in DOMAIN f
  BY PlaceKinds
<1> HIDE DEF g, s
<1>4. Result(g, p, t) = Result(f, p, t)
  BY <1>1, <1>3 DEF Result
<1>5. Extends(f, g) /\ s \in DOMAIN g
  BY <1>1, <1>2, <1>4 DEF Extends
<1> QED BY <1>5 DEF g, s

LEMMA ExtendsTwice ==
  ASSUME NEW f, NEW g, FoundOK(g), NEW h, Extends(f, g), Extends(g, h)
  PROVE  Extends(f, h)
<1>1. DOMAIN f \subseteq DOMAIN h /\ \A x \in DOMAIN f : h[x] = f[x]
  BY DEF Extends
<1>2. ASSUME NEW s \in DOMAIN h \ DOMAIN f PROVE h[s] = Result(h, s[1], s[2])
  <2>1. CASE s \notin DOMAIN g
    BY <2>1 DEF Extends
  <2>2. CASE s \in DOMAIN g
    <3>1. h[s] = g[s] /\ g[s] = Result(g, s[1], s[2])
      BY <2>2 DEF Extends
    <3>2. IsMixed(s[1]) => s[1] \in DOMAIN g
      BY <2>2, PlaceKinds DEF FoundOK, Remembered
    <3>3. IsMixed(s[1]) => h[s[1]] = g[s[1]]
      BY <3>2 DEF Extends
    <3> QED BY <3>1, <3>3 DEF Result
  <2> QED BY <2>1, <2>2
<1> QED BY <1>1, <1>2 DEF Extends

LEMMA WalkFacts ==
  ASSUME TreeOK, FoundOK(found), NEW sel \in Selectors
  PROVE  /\ FoundOK(Walk(sel)) /\ Extends(found, Walk(sel))
         /\ Search(Walk(sel), sel) \in DOMAIN Walk(sel)
<1> DEFINE t == sel[1]
           f == find(found, <<Network>>, t)
           h == Handle(f, AtNetwork(t))
           g == find(f, h, sel[2])
<1>1. t \in Terms
  BY DEF Selectors
<1>2. FoundOK(f) /\ Extends(found, f) /\ AtNetwork(t) \in DOMAIN f
  <2>1. FoundOK(f)
    BY <1>1, NetworkPlace, FindOK
  <2>2. Extends(found, f) /\ AtNetwork(t) \in DOMAIN f
    BY NetworkPlace, FindExtends DEF AtNetwork
  <2> QED BY <2>1, <2>2
<1>3. CASE Len(sel) = 1
  <2>1. Walk(sel) = f /\ Search(Walk(sel), sel) = AtNetwork(t)
    BY <1>3 DEF Walk, Search
  <2> QED BY <1>2, <2>1
<1>4. CASE Len(sel) # 1
  <2>1. sel[2] \in Terms
    BY <1>4 DEF Selectors
  <2>2. Walk(sel) = g
    BY <1>4 DEF Walk
  <2>3. Place(f, h)
    <3> HIDE DEF f
    <3> QED BY <1>1, <1>2, HandlePlace
  <2>4. FoundOK(g)
    <3> HIDE DEF f, h
    <3> QED BY <1>2, <2>1, <2>3, FindOK
  <2>5. Extends(f, g) /\ <<h, sel[2]>> \in DOMAIN g
    <3> HIDE DEF f, h
    <3> QED BY <2>3, FindExtends
  <2>6. Extends(found, g)
    <3> HIDE DEF f, g
    <3> QED BY <1>2, <2>5, ExtendsTwice
  <2>7. Search(g, sel) = <<h, sel[2]>>
    <3>1. g[AtNetwork(t)] = f[AtNetwork(t)]
      BY <1>2, <2>5 DEF Extends
    <3>2. Handle(g, AtNetwork(t)) = h
      <4> HIDE DEF g, f
      <4> QED BY <3>1 DEF Handle
    <3> QED BY <1>4, <3>2 DEF Search
  <2> HIDE DEF g, h
  <2> QED BY <2>2, <2>4, <2>5, <2>6, <2>7
<1> QED BY <1>3, <1>4

LEMMA TargetsFacts ==
  ASSUME TreeOK, NEW f, FoundOK(f), NEW sel, Search(f, sel) \in DOMAIN f, NEW o \in Object
  PROVE  Targets(f, sel, o) \in Nat /\ (~IsIO(o) => Targets(f, sel, o) = 0)
<1>1. f[Search(f, sel)] \in Bag
  BY DEF FoundOK, Remembered
<1>2. f[Search(f, sel)][o] \in Nat
  BY <1>1, ObjectFacts DEF Bag
<1> QED BY <1>2 DEF Targets

-----------------------------------------------------------------------------
(* Every step lets the tree stay, or grow: a parent and a key are for good,*)
(* and tags are added only.                                                *)
Grows ==
  \A o \in Object : /\ o \in Object' /\ tree'[o].parent = tree[o].parent
                    /\ tree'[o].key = tree[o].key /\ tree[o].tags \subseteq tree'[o].tags

LEMMA GrowsFacts ==
  ASSUME TreeOK, Grows, Network \notin Object'
  PROVE  /\ \A o \in Object : /\ o \in Object' /\ Parent(o)' = Parent(o)
                             /\ Above(o)' = Above(o) /\ IsIO(o)' = IsIO(o)
         /\ \A o \in Object : \A t : Matches(o, t) => Matches(o, t)'
<1>1. /\ \A o \in {Network} \cup Object : Parent(o)' = Parent(o)
      /\ \A o \in {Network} \cup Object : Parent(o) \in {Network} \cup Object
  <2>1. Parent(Network)' = Network /\ Parent(Network) = Network
    BY ParentFacts DEF Parent, Network
  <2>2. ASSUME NEW o \in Object PROVE Parent(o)' = Parent(o)
    BY DEF Grows, Parent
  <2> QED BY <2>1, <2>2, ParentFacts
<1>2. ASSUME NEW o \in Object
      PROVE  o \in Object' /\ Above(o)' = Above(o) /\ IsIO(o)' = IsIO(o)
  <2> DEFINE p == Parent(o)
             q == Parent(p)
  <2>1. p \in {Network} \cup Object /\ q \in {Network} \cup Object
    BY <1>1
  <2>2. Parent(o)' = p /\ Parent(Parent(o))' = q /\ Parent(Parent(Parent(o)))' = Parent(q)
    <3>1. Parent(o)' = p
      BY <1>1
    <3>2. Parent(Parent(o))' = Parent(p)'
      BY <3>1 DEF Parent
    <3>3. Parent(Parent(Parent(o)))' = Parent(q)'
      BY <3>1, <3>2, <1>1, <2>1 DEF Parent
    <3> QED BY <3>1, <3>2, <3>3, <1>1, <2>1
  <2>3. o \in Object'
    BY DEF Grows
  <2> QED BY <2>2, <2>3 DEF Above, IsIO, Network
<1>3. ASSUME NEW o \in Object, NEW t, Matches(o, t) PROVE Matches(o, t)'
  BY <1>3 DEF Grows, Matches
<1> QED BY <1>1, <1>2, <1>3

LEMMA FoundGrows ==
  ASSUME TreeOK, Grows, Network \notin Object', NEW g, FoundOK(g)
  PROVE  FoundOK(g)'
<1> SUFFICES ASSUME NEW s \in DOMAIN g
             PROVE  Remembered(g, s)' /\ Holds(g, s)' /\ Once(g, s)'
  BY DEF FoundOK
<1>1. Remembered(g, s) /\ Holds(g, s) /\ Once(g, s)
  BY DEF FoundOK
<1>2. Object \subseteq Object'
  BY DEF Grows
<1>3. Remembered(g, s)'
  BY <1>1, <1>2 DEF Remembered, Place, In, Bag, Ids, Network, AtNetwork
<1>4. Holds(g, s)'
  <2> SUFFICES ASSUME NEW o \in In(g[s])
               PROVE  /\ Matches(o, s[2])'
                      /\ IsMixed(s[1]) => ({o} \cup Above(o)') \cap In(g[s[1]]) # {}
                      /\ ~IsMixed(s[1]) => s[1][1] \in Above(o)'
    BY DEF Holds, In, IsMixed, Ids
  <2>1. o \in Object
    BY <1>1 DEF Remembered
  <2>2. Above(o)' = Above(o) /\ (Matches(o, s[2]) => Matches(o, s[2])')
    BY <2>1, GrowsFacts
  <2> QED BY <1>1, <2>2 DEF Holds
<1>5. Once(g, s)'
  BY <1>1 DEF Once, Network, Ids
<1> QED BY <1>3, <1>4, <1>5

(* The rest of the state: handlers and values are those of IOs, and only a *)
(* running service has handlers.                                           *)
RestOK ==
  /\ lit \subseteq {o \in Object : IsIO(o)}
  /\ callbacks \in [Object -> [Service -> Nat]]
  /\ \A o \in Object : \A s \in Service : callbacks[o][s] > 0 => IsIO(o) /\ s \in running
  /\ running \subseteq Service /\ calls \in 0..MaxCalls
SelInv == TreeOK /\ FoundOK(found) /\ RestOK

LEMMA SelInvInit == Init => SelInv
<1> SUFFICES ASSUME Init PROVE SelInv
  OBVIOUS
<1>1. tree = << >> /\ DOMAIN found = {} /\ Object = {}
  BY DEF Init, Object
<1>2. TreeOK
  <2>1. << >> \in Seq(Made) /\ Len(<< >>) = 0
    BY EmptySeq
  <2> QED BY <1>1, <2>1, BoundAssumption DEF TreeOK
<1>3. FoundOK(found)
  BY <1>1 DEF FoundOK
<1>4. RestOK
  BY <1>1, BoundAssumption DEF Init, RestOK
<1> QED BY <1>2, <1>3, <1>4 DEF SelInv

(* A step that leaves the tree as it is.                                   *)
LEMMA TreeSame ==
  ASSUME TreeOK, UNCHANGED tree
  PROVE  /\ TreeOK' /\ Grows /\ Object' = Object /\ Network \notin Object'
         /\ \A o \in Object : IsIO(o)' = IsIO(o)
<1>1. Object' = Object /\ TreeOK'
  BY DEF TreeOK, Object, Made, Parent, Above, Ids, Network
<1>2. Grows
  BY <1>1 DEF Grows
<1>3. Network \notin Object'
  BY <1>1, ObjectFacts, IdFacts
<1> QED BY <1>1, <1>2, <1>3, GrowsFacts

LEMMA CallFacts ==
  ASSUME SelInv, NEW sel \in Selectors, NEW f, f = Walk(sel), Called, found' = f
  PROVE  /\ TreeOK' /\ FoundOK(found)'
         /\ Object' = Object /\ (\A o \in Object : IsIO(o)' = IsIO(o))
         /\ calls' \in 0..MaxCalls
         /\ \A o \in Object : Targets(f, sel, o) \in Nat /\ (~IsIO(o) => Targets(f, sel, o) = 0)
<1>1. FoundOK(f) /\ Search(f, sel) \in DOMAIN f
  BY WalkFacts DEF SelInv
<1>2. /\ TreeOK' /\ Object' = Object /\ \A o \in Object : IsIO(o)' = IsIO(o)
  BY TreeSame DEF SelInv, Called
<1>3. FoundOK(f)'
  BY <1>1, TreeSame, FoundGrows DEF SelInv, Called
<1>4. FoundOK(found)'
  BY <1>3
<1>5. calls' \in 0..MaxCalls
  BY BoundAssumption DEF SelInv, RestOK, Called
<1> QED BY <1>1, <1>2, <1>4, <1>5, TargetsFacts DEF SelInv

LEMMA ToggleKeeps ==
  ASSUME SelInv, NEW sel \in Selectors, toggle(sel)
  PROVE  SelInv'
<1>1. PICK f : f = Walk(sel) /\ found' = f
               /\ lit' = {o \in Object : (o \in lit) # (Targets(f, sel, o) % 2 = 1)}
  BY DEF toggle
<1>2. Called /\ UNCHANGED <<callbacks, running>>
  BY DEF toggle
<1>3. /\ TreeOK' /\ FoundOK(found)' /\ calls' \in 0..MaxCalls
      /\ Object' = Object /\ \A o \in Object : IsIO(o)' = IsIO(o)
  BY <1>1, <1>2, CallFacts
<1>4. ASSUME NEW o \in lit' PROVE o \in Object /\ IsIO(o)
  <2>1. o \in Object /\ ((o \in lit) # (Targets(f, sel, o) % 2 = 1))
    BY <1>1
  <2>2. CASE o \in lit
    BY <2>2 DEF SelInv, RestOK
  <2>3. CASE Targets(f, sel, o) % 2 = 1
    <3>1. Targets(f, sel, o) # 0
      BY <2>3
    <3> QED BY <2>1, <3>1, <1>1, <1>2, CallFacts
  <2> QED BY <2>1, <2>2, <2>3
<1>5. RestOK'
  BY <1>2, <1>3, <1>4 DEF SelInv, RestOK
<1> QED BY <1>3, <1>5 DEF SelInv

LEMMA EnableKeeps ==
  ASSUME SelInv, NEW sel \in Selectors, NEW v \in BOOLEAN, enable(sel, v)
  PROVE  SelInv'
<1>1. PICK f : f = Walk(sel) /\ found' = f
               /\ lit' = {o \in Object : IF Targets(f, sel, o) > 0 THEN v ELSE o \in lit}
  BY DEF enable
<1>2. Called /\ UNCHANGED <<callbacks, running>>
  BY DEF enable
<1>3. /\ TreeOK' /\ FoundOK(found)' /\ calls' \in 0..MaxCalls
      /\ Object' = Object /\ \A o \in Object : IsIO(o)' = IsIO(o)
  BY <1>1, <1>2, CallFacts
<1>4. ASSUME NEW o \in lit' PROVE o \in Object /\ IsIO(o)
  <2>1. o \in Object /\ (Targets(f, sel, o) > 0 \/ o \in lit)
    BY <1>1
  <2>2. CASE o \in lit
    BY <2>2 DEF SelInv, RestOK
  <2>3. CASE Targets(f, sel, o) > 0
    <3>1. Targets(f, sel, o) # 0
      BY <2>3
    <3> QED BY <2>1, <3>1, <1>1, <1>2, CallFacts
  <2> QED BY <2>1, <2>2, <2>3
<1>5. RestOK'
  BY <1>2, <1>3, <1>4 DEF SelInv, RestOK
<1> QED BY <1>3, <1>5 DEF SelInv

LEMMA OnKeeps ==
  ASSUME SelInv, NEW sel \in Selectors, NEW s \in Service, on(sel, s)
  PROVE  SelInv'
<1>1. PICK f : f = Walk(sel) /\ found' = f
        /\ callbacks' = [o \in Object |-> [callbacks[o] EXCEPT ![s] = @ + Targets(f, sel, o)]]
  BY DEF on
<1>2. Called /\ UNCHANGED lit /\ running' = running \cup {s}
  BY DEF on
<1>3. /\ TreeOK' /\ FoundOK(found)' /\ calls' \in 0..MaxCalls
      /\ Object' = Object /\ \A o \in Object : IsIO(o)' = IsIO(o)
      /\ \A o \in Object : Targets(f, sel, o) \in Nat /\ (~IsIO(o) => Targets(f, sel, o) = 0)
  BY <1>1, <1>2, CallFacts
<1>4. ASSUME NEW o \in Object
      PROVE  /\ callbacks'[o] \in [Service -> Nat]
             /\ \A r \in Service : callbacks'[o][r] > 0 => IsIO(o) /\ r \in running'
  <2> DEFINE c == callbacks[o]
             n == Targets(f, sel, o)
  <2>1. c \in [Service -> Nat] /\ \A r \in Service : c[r] > 0 => IsIO(o) /\ r \in running
    BY DEF SelInv, RestOK
  <2>2. n \in Nat /\ (~IsIO(o) => n = 0)
    BY <1>3
  <2>3. callbacks'[o] = [c EXCEPT ![s] = @ + n]
    BY <1>1
  <2> HIDE DEF c, n
  <2>4. callbacks'[o] \in [Service -> Nat]
    BY <2>1, <2>2, <2>3
  <2>5. ASSUME NEW r \in Service, callbacks'[o][r] > 0 PROVE IsIO(o) /\ r \in running'
    <3>1. CASE r # s
      BY <2>1, <2>3, <2>5, <3>1, <1>2
    <3>2. CASE r = s
      <4>1. c[s] + n > 0
        BY <2>1, <2>3, <2>5, <3>2
      <4>2. c[s] > 0 \/ n # 0
        BY <2>1, <2>2, <4>1
      <4> QED BY <4>2, <3>2, <2>1, <2>2, <1>2
    <3> QED BY <3>1, <3>2
  <2> QED BY <2>4, <2>5
<1>5. callbacks' \in [Object -> [Service -> Nat]]
  BY <1>1, <1>4
<1>6. RestOK'
  <2>1. lit' \subseteq {o \in Object' : IsIO(o)'} /\ running' \subseteq Service
    BY <1>2, <1>3 DEF SelInv, RestOK
  <2> QED BY <2>1, <1>3, <1>4, <1>5 DEF RestOK
<1> QED BY <1>3, <1>6 DEF SelInv

LEMMA ReloadKeeps ==
  ASSUME SelInv, NEW s \in Service, reloadService(s)
  PROVE  SelInv'
<1>1. /\ callbacks' = clearCallbacks(Network, s) /\ running' = running \ {s}
      /\ UNCHANGED <<tree, found, lit, calls>>
  BY DEF reloadService
<1>2. /\ TreeOK' /\ Object' = Object /\ \A o \in Object : IsIO(o)' = IsIO(o)
  BY <1>1, TreeSame DEF SelInv
<1>3. FoundOK(found)'
  <2>1. PICK g : g = found /\ found' = g
    BY <1>1
  <2>2. FoundOK(g)'
    BY <1>1, <2>1, TreeSame, FoundGrows DEF SelInv
  <2> QED BY <2>1, <2>2
<1>4. ASSUME NEW o \in Object
      PROVE  /\ callbacks'[o] \in [Service -> Nat]
             /\ \A r \in Service : callbacks'[o][r] > 0 => IsIO(o) /\ r \in running'
  <2>1. callbacks[o] \in [Service -> Nat]
        /\ \A r \in Service : callbacks[o][r] > 0 => IsIO(o) /\ r \in running
    BY DEF SelInv, RestOK
  <2>2. callbacks'[o] = [callbacks[o] EXCEPT ![s] = 0]
    BY <1>1 DEF clearCallbacks, SelInv, TreeOK
  <2> QED BY <2>1, <2>2, <1>1
<1>5. callbacks' \in [Object -> [Service -> Nat]]
  BY <1>1, <1>4 DEF clearCallbacks
<1>6. RestOK'
  <2>1. lit' \subseteq {o \in Object' : IsIO(o)'} /\ running' \subseteq Service /\ calls' \in 0..MaxCalls
    BY <1>1, <1>2 DEF SelInv, RestOK
  <2> QED BY <2>1, <1>2, <1>4, <1>5 DEF RestOK
<1> QED BY <1>2, <1>3, <1>6 DEF SelInv

(* The tree after a step at it: it grows, and what is in it stays an IO.   *)
LEMMA GrowKeeps ==
  ASSUME SelInv, TreeOK', Grows, UNCHANGED <<found, lit, running, calls>>,
         callbacks' \in [Object' -> [Service -> Nat]],
         \A o \in Object : callbacks'[o] = callbacks[o],
         \A o \in Object' \ Object : \A s \in Service : callbacks'[o][s] = 0
  PROVE  SelInv'
<1>1. Network \notin Object'
  BY ObjectFacts, IdFacts DEF Network, Ids, Object, TreeOK, Made, Parent, Above
<1>2. \A o \in Object : o \in Object' /\ IsIO(o)' = IsIO(o)
  BY <1>1, GrowsFacts DEF SelInv
<1>3. FoundOK(found)'
  <2>1. PICK g : g = found /\ found' = g
    OBVIOUS
  <2>2. FoundOK(g)'
    BY <1>1, <2>1, FoundGrows DEF SelInv
  <2> QED BY <2>1, <2>2
<1>4. RestOK'
  <2>1. lit' \subseteq {o \in Object' : IsIO(o)'} /\ running' \subseteq Service /\ calls' \in 0..MaxCalls
    BY <1>2 DEF SelInv, RestOK
  <2>2. \A o \in Object' : \A s \in Service : callbacks'[o][s] > 0 => IsIO(o)' /\ s \in running'
    BY <1>2 DEF SelInv, RestOK
  <2> QED BY <2>1, <2>2 DEF RestOK
<1> QED BY <1>3, <1>4 DEF SelInv

LEMMA TagKeeps ==
  ASSUME SelInv, NEW p \in Object, NEW ts \in SUBSET Tag, tag(p, ts)
  PROVE  SelInv'
<1>1. /\ tree' = [tree EXCEPT ![p].tags = @ \cup ts]
      /\ UNCHANGED <<found, lit, callbacks, running, calls>>
  BY DEF tag
<1>2. tree \in Seq(Made) /\ tree[p] \in Made /\ Len(tree) <= MaxObjects
  BY MadeFacts DEF SelInv, TreeOK
<1>3. tree' \in Seq(Made) /\ Len(tree') = Len(tree) /\ Object' = Object
  <2> DEFINE e == [tree[p] EXCEPT !.tags = @ \cup ts]
  <2>1. e \in Made
    BY <1>2 DEF Made
  <2>2. tree' = [tree EXCEPT ![p] = e]
    BY <1>1
  <2> HIDE DEF e
  <2>3. p \in 1..Len(tree)
    BY ObjectFacts DEF SelInv
  <2>4. tree' \in Seq(Made) /\ Len(tree') = Len(tree)
    BY <1>2, <2>1, <2>2, <2>3, ExceptSeq
  <2>5. DOMAIN tree' = DOMAIN tree
    BY <2>2
  <2> QED BY <2>4, <2>5 DEF Object
<1>4. Grows
  <2> SUFFICES ASSUME NEW o \in Object
               PROVE  /\ tree'[o].parent = tree[o].parent /\ tree'[o].key = tree[o].key
                      /\ tree[o].tags \subseteq tree'[o].tags
    BY <1>3 DEF Grows
  <2>1. tree[o] \in Made
    BY MadeFacts DEF SelInv
  <2>2. tree'[o] = IF o = p THEN [tree[o] EXCEPT !.tags = @ \cup ts] ELSE tree[o]
    BY <1>1 DEF Object
  <2> QED BY <2>1, <2>2 DEF Made
<1>5. Network \notin Object'
  BY <1>3, ObjectFacts, IdFacts DEF SelInv
<1>6. TreeOK'
  <2>1. \A o \in Object : Parent(o)' = Parent(o) /\ Above(o)' = Above(o)
    BY <1>4, <1>5, GrowsFacts DEF SelInv
  <2>2. \A o \in Object' : Parent(o)' < o /\ Network \in Above(o)'
    BY <1>3, <2>1 DEF SelInv, TreeOK
  <2> QED BY <1>2, <1>3, <2>2 DEF TreeOK, Made, Ids, Network
<1>7. callbacks' \in [Object' -> [Service -> Nat]]
  BY <1>1, <1>3 DEF SelInv, RestOK
<1> QED BY <1>1, <1>3, <1>4, <1>6, <1>7, GrowKeeps

LEMMA AddKeeps ==
  ASSUME SelInv, NEW p \in {Network} \cup Object, NEW k \in Key, NEW ts \in SUBSET Tag,
         add(p, k, ts)
  PROVE  SelInv'
<1>n. PICK n : n = Len(tree) + 1
  OBVIOUS
<1> DEFINE e == [parent |-> p, key |-> k, tags |-> ts]
           z == [s \in Service |-> 0]
<1>1. /\ Len(tree) < MaxObjects /\ (p \in Object => ~IsIO(p))
      /\ tree' = Append(tree, e) /\ callbacks' = Append(callbacks, z)
      /\ UNCHANGED <<found, lit, running, calls>>
  BY DEF add
<1>2. /\ tree \in Seq(Made) /\ Len(tree) \in Nat /\ Object = 1..Len(tree)
      /\ Object \subseteq Ids
  BY ObjectFacts DEF SelInv, TreeOK
<1>3. e \in Made
  BY <1>2 DEF Made
<1>4. /\ tree' \in Seq(Made) /\ Len(tree') = n /\ Object' = 1..n
      /\ \A i \in 1..Len(tree) : tree'[i] = tree[i]
      /\ tree'[n] = e
  <2> HIDE DEF e
  <2>1. /\ tree' \in Seq(Made) /\ Len(tree') = n
        /\ \A i \in 1..Len(tree) : tree'[i] = tree[i]
        /\ tree'[n] = e
    BY <1>n, <1>1, <1>2, <1>3, AppendProperties
  <2>2. DOMAIN tree' = 1..n
    BY <2>1, LenProperties
  <2> QED BY <2>1, <2>2 DEF Object
<1>5. Object' = Object \cup {n} /\ n \notin Object /\ n \in Ids
  BY <1>n, <1>1, <1>2, <1>4, BoundAssumption DEF Ids
<1>6. Grows
  BY <1>n, <1>2, <1>4, <1>5 DEF Grows
<1>7. Network \notin Object'
  BY <1>5, <1>2, IdFacts
<1>8. /\ \A o \in Object : Parent(o)' = Parent(o) /\ Above(o)' = Above(o)
      /\ Parent(Network)' = Network /\ Parent(n)' = p
  <2>1. \A o \in Object : Parent(o)' = Parent(o) /\ Above(o)' = Above(o)
    BY <1>6, <1>7, GrowsFacts DEF SelInv
  <2>2. Parent(Network)' = Network
    BY <1>7 DEF Parent, Network
  <2>3. Parent(n)' = p
    BY <1>4, <1>5 DEF Parent
  <2> QED BY <2>1, <2>2, <2>3
<1>9. Parent(n)' < n /\ Network \in Above(n)'
  <2>1. Parent(n)' < n
    BY <1>n, <1>2, <1>8 DEF Network
  <2>2. CASE p = Network
    BY <1>8, <2>1, <2>2 DEF Above
  <2>3. CASE p \in Object
    <3>1. Parent(Parent(p)) = Network /\ Parent(p) \in {Network} \cup Object
          /\ Parent(Network) = Network
      BY <1>1, <2>3, ParentFacts DEF IsIO, SelInv
    <3>2. Parent(Parent(n))' = Parent(p)
      BY <1>8, <2>3 DEF Parent
    <3>3. Parent(Parent(Parent(n)))' = Parent(Parent(p))
      <4>1. Parent(Parent(Parent(n)))' = IF Parent(p) \in Object' THEN tree'[Parent(p)].parent ELSE Network
        BY <3>2 DEF Parent, Network
      <4>2. \A o \in Object : o \in Object' /\ tree'[o].parent = Parent(o)
        BY <1>n, <1>2, <1>4, <1>5 DEF Parent
      <4> QED BY <3>1, <4>1, <4>2, <1>7
    <3> QED BY <2>1, <3>1, <3>3 DEF Above, Network
  <2> QED BY <2>1, <2>2, <2>3
<1>10. TreeOK'
  <2>1. \A o \in Object' : Parent(o)' < o /\ Network \in Above(o)'
    BY <1>5, <1>8, <1>9 DEF SelInv, TreeOK
  <2>2. Len(tree') <= MaxObjects
    BY <1>n, <1>1, <1>2, <1>4, BoundAssumption
  <2> QED BY <1>4, <2>1, <2>2 DEF TreeOK, Made, Ids, Network
<1>11. /\ callbacks' \in [Object' -> [Service -> Nat]]
       /\ \A o \in Object : callbacks'[o] = callbacks[o]
       /\ callbacks'[n] = z
  <2> DEFINE C == [Service -> Nat]
  <2>1. callbacks \in [1..Len(tree) -> C] /\ z \in C
    BY <1>2 DEF SelInv, RestOK
  <2> HIDE DEF C, z
  <2>2. callbacks \in Seq(C) /\ Len(callbacks) = Len(tree)
    BY <1>2, <2>1, SeqDef
  <2>3. /\ callbacks' \in Seq(C) /\ Len(callbacks') = n
        /\ \A i \in 1..Len(tree) : callbacks'[i] = callbacks[i]
        /\ callbacks'[n] = z
    BY <1>n, <1>1, <2>1, <2>2, AppendProperties
  <2>4. callbacks' \in [1..n -> C]
    BY <2>3, LenProperties
  <2> QED BY <2>3, <2>4, <1>2, <1>4 DEF C
<1>12. \A o \in Object' \ Object : \A s \in Service : callbacks'[o][s] = 0
  BY <1>5, <1>11
<1> QED BY <1>1, <1>6, <1>10, <1>11, <1>12, GrowKeeps

LEMMA SelInvNext ==
  ASSUME SelInv, [Next]_vars
  PROVE  SelInv'
<1>1. ASSUME NEW p \in {Network} \cup Object, NEW k \in Key, NEW ts \in SUBSET Tag, add(p, k, ts)
      PROVE  SelInv'
  BY <1>1, AddKeeps
<1>2. ASSUME NEW p \in Object, NEW ts \in SUBSET Tag \ {{}}, tag(p, ts)
      PROVE  SelInv'
  BY <1>2, TagKeeps
<1>3. ASSUME NEW sel \in Selectors, toggle(sel)
      PROVE  SelInv'
  BY <1>3, ToggleKeeps
<1>4. ASSUME NEW sel \in Selectors, NEW v \in BOOLEAN, enable(sel, v)
      PROVE  SelInv'
  BY <1>4, EnableKeeps
<1>5. ASSUME NEW sel \in Selectors, NEW s \in Service, on(sel, s)
      PROVE  SelInv'
  BY <1>5, OnKeeps
<1>6. ASSUME NEW s \in Service, reloadService(s)
      PROVE  SelInv'
  BY <1>6, ReloadKeeps
<1>7. CASE UNCHANGED vars
  <2>1. UNCHANGED <<tree, found, lit, callbacks, running, calls>>
    BY <1>7 DEF vars
  <2>2. TreeOK' /\ Grows /\ Object' = Object
    BY <2>1, TreeSame DEF SelInv
  <2>3. callbacks' \in [Object' -> [Service -> Nat]]
    BY <2>1, <2>2 DEF SelInv, RestOK
  <2> QED BY <2>1, <2>2, <2>3, GrowKeeps
<1> QED BY <1>1, <1>2, <1>3, <1>4, <1>5, <1>6, <1>7 DEF Next

LEMMA SelInvAlways == Spec => []SelInv
BY SelInvInit, SelInvNext, PTL DEF Spec

LEMMA SelInvImplies == SelInv => TypeOK /\ CachedStillHolds /\ NoneLeftBehind
<1> SUFFICES ASSUME SelInv PROVE TypeOK /\ CachedStillHolds /\ NoneLeftBehind
  OBVIOUS
<1>1. TreeOK /\ FoundOK(found) /\ RestOK
  BY DEF SelInv
<1>2. \A s \in DOMAIN found : /\ s[2] \in Terms /\ found[s] \in Bag /\ In(found[s]) \subseteq Object
                              /\ IsMixed(s[1]) => s[1] \in DOMAIN found
                              /\ ~IsMixed(s[1]) => s[1][1] \in {Network} \cup Object
  BY <1>1, PlaceKinds DEF FoundOK, Remembered
<1>3. TypeOK
  BY <1>1, <1>2 DEF TypeOK, TreeOK, RestOK, Made
<1>4. CachedStillHolds
  BY <1>1 DEF FoundOK, Holds, CachedStillHolds
<1>5. NoneLeftBehind
  BY <1>1 DEF RestOK, NoneLeftBehind
<1> QED BY <1>3, <1>4, <1>5

(* Objects, searches and handlers keep their types, whatever is added,     *)
(* tagged, searched and reloaded, and only IOs have values and handlers    *)
(* (MCU/Object.js, MCU/Io.js).                                             *)
THEOREM TypeCorrect == Spec => []TypeOK
BY SelInvAlways, SelInvImplies, PTL

(* The searches an object remembers are never wrong, though they may be    *)
(* too little (Object.js:48).                                              *)
THEOREM CachedStillHoldsSafe == Spec => []CachedStillHolds
BY SelInvAlways, SelInvImplies, PTL

(* A reloaded service has no handler left on any IO (Network.js:217).      *)
THEOREM NoneLeftBehindSafe == Spec => []NoneLeftBehind
BY SelInvAlways, SelInvImplies, PTL

-----------------------------------------------------------------------------
(* What a new search finds.                                                *)
LEMMA InOnce ==
  ASSUME NEW b \in Bag, NEW x \in Ids, In(b) = {x}, b[x] <= 1
  PROVE  b = One(x)
<1>1. ASSUME NEW o \in Ids PROVE b[o] = IF o = x THEN 1 ELSE 0
  <2>1. b[o] \in Nat
    BY DEF Bag
  <2>2. b[o] > 0 <=> o = x
    BY DEF In
  <2> QED BY <2>1, <2>2
<1>2. b = [o \in Ids |-> b[o]]
  BY DEF Bag
<1> QED BY <1>1, <1>2 DEF One

LEMMA SaysAtNetwork ==
  ASSUME TreeOK, NEW g, NEW t
  PROVE  In(Result(g, <<Network>>, t)) = Matching(t)
<1> DEFINE r == Result(g, <<Network>>, t)
<1>1. r = parseChildren(Children(Network), t)
  BY PlaceFacts DEF Result
<1>2. \A o \in Ids : o \in In(r) <=> o \in Object /\ Matches(o, t)
  <2> HIDE DEF r
  <2>1. \A o \in Object : Network \in Above(o)
    BY DEF TreeOK
  <2> QED BY <1>1, <2>1, ParseBelow
<1>3. In(r) \subseteq Ids /\ Object \subseteq Ids
  BY ObjectFacts DEF In
<1> HIDE DEF r
<1>4. In(r) = Matching(t)
  BY <1>2, <1>3 DEF Matching
<1> QED BY <1>4 DEF r

LEMMA SaysElsewhere ==
  ASSUME TreeOK, NEW g, FoundOK(g), NEW s \in DOMAIN g, g[s] = Result(g, s[1], s[2]),
         NEW t \in Terms, AtNetwork(t) \in DOMAIN g,
         Handle(g, AtNetwork(t)) = s[1], In(g[AtNetwork(t)]) = Matching(t)
  PROVE  In(g[s]) = Selected(t, s[2])
<1> DEFINE p == s[1]
           u == s[2]
           first == g[AtNetwork(t)]
           both == Matching(u) \cap Below(t)
<1>1. /\ Place(g, p) /\ Object \subseteq Ids /\ In(g[s]) \subseteq Ids
  BY ObjectFacts DEF FoundOK, Remembered, In
<1>2. first \in Bag /\ \A o \in Ids : first[o] <= 1
  BY PlaceFacts DEF FoundOK, Remembered, Once
<1>3. CASE IsMixed(p)
  <2>1. p = AtNetwork(t) /\ ~\E x \in Ids : first = One(x)
    <3>1. \A x : p # <<x>>
      BY <1>3, PlaceFacts
    <3> QED BY <3>1, HandleFacts
  <2>2. ~\E o \in Object : Matching(t) = {o}
    BY <1>1, <1>2, <2>1, InOnce
  <2>3. Selected(t, u) = both
    BY <2>2 DEF Selected
  <2>4. \A o \in Ids : o \in In(g[s]) <=>
          o \in Object /\ Matches(o, u) /\ ({o} \cup Above(o)) \cap Matching(t) # {}
    BY <1>1, <1>3, <2>1, MixedResult
  <2>5. In(g[s]) = both
    BY <1>1, <2>4 DEF Matching, Below
  <2> QED BY <2>3, <2>5
<1>4. CASE ~IsMixed(p)
  <2>1. PICK x \in Ids : first = One(x) /\ p = <<x>>
    <3>1. p # AtNetwork(t)
      BY <1>4, PlaceFacts
    <3> QED BY <3>1, HandleFacts
  <2>2. Matching(t) = {x} /\ x \in Object
    BY <2>1, OneFacts DEF Matching
  <2>3. Selected(t, u) = both \ {x}
    BY <2>2 DEF Selected
  <2>4. \A o \in Ids : o \in In(g[s]) <=> o \in Object /\ Matches(o, u) /\ x \in Above(o)
    BY <1>1, <1>4, <2>1, ObjectResult
  <2>5. x \notin Above(x)
    <3>1. x # Network
      BY IdFacts
    <3> QED BY <2>2, <3>1, ParentFacts DEF Above, Network
  <2>6. In(g[s]) = both \ {x}
    BY <1>1, <2>2, <2>4, <2>5 DEF Matching, Below
  <2> QED BY <2>3, <2>6
<1> QED BY <1>3, <1>4

Says ==
  \A s \in DOMAIN found' \ DOMAIN found :
    IF s = AtNetwork(s[2]) THEN In(found'[s]) = Matching(s[2])
    ELSE \A t \in Terms :
           LET first == AtNetwork(t) IN
           (/\ first \in DOMAIN found' /\ Handle(found', first) = s[1]
            /\ In(found'[first]) = Matching(t))
             => In(found'[s]) = Selected(t, s[2])

LEMMA WalkSays ==
  ASSUME SelInv, NEW sel \in Selectors, NEW g, g = Walk(sel), found' = g
  PROVE  Says
<1>1. TreeOK /\ FoundOK(g) /\ Extends(found, g)
  BY WalkFacts DEF SelInv
<1>2. ASSUME NEW s \in DOMAIN g \ DOMAIN found
      PROVE  /\ s = AtNetwork(s[2]) => In(g[s]) = Matching(s[2])
             /\ \A t \in Terms :
                  (/\ AtNetwork(t) \in DOMAIN g /\ Handle(g, AtNetwork(t)) = s[1]
                   /\ In(g[AtNetwork(t)]) = Matching(t))
                    => In(g[s]) = Selected(t, s[2])
  <2>1. g[s] = Result(g, s[1], s[2])
    BY <1>1 DEF Extends
  <2>2. s = AtNetwork(s[2]) => In(g[s]) = Matching(s[2])
    <3> SUFFICES ASSUME s = AtNetwork(s[2]) PROVE In(g[s]) = Matching(s[2])
      OBVIOUS
    <3>1. s[1] = <<Network>>
      BY PlaceFacts
    <3> QED BY <1>1, <2>1, <3>1, SaysAtNetwork
  <2> QED BY <1>1, <2>1, <2>2, SaysElsewhere
<1> QED BY <1>2 DEF Says

LEMMA StepSays ==
  ASSUME SelInv, [Next]_vars
  PROVE  Says \/ UNCHANGED vars
<1>1. ASSUME found' = found PROVE Says
  BY <1>1 DEF Says
<1>2. ASSUME NEW sel \in Selectors, \E g : g = Walk(sel) /\ found' = g PROVE Says
  BY <1>2, WalkSays
<1>3. ASSUME NEW sel \in Selectors,
             toggle(sel) \/ (\E v \in BOOLEAN : enable(sel, v)) \/ (\E s \in Service : on(sel, s))
      PROVE  \E g : g = Walk(sel) /\ found' = g
  BY <1>3 DEF toggle, enable, on
<1>4. CASE Next
  <2>1. CASE \E o \in {Network} \cup Object, k \in Key, ts \in SUBSET Tag : add(o, k, ts)
    BY <2>1, <1>1 DEF add
  <2>2. CASE \E o \in Object, ts \in SUBSET Tag \ {{}} : tag(o, ts)
    BY <2>2, <1>1 DEF tag
  <2>3. CASE \E sel \in Selectors : \/ toggle(sel)
                                   \/ \E v \in BOOLEAN : enable(sel, v)
                                   \/ \E s \in Service : on(sel, s)
    BY <2>3, <1>2, <1>3
  <2>4. CASE \E s \in Service : reloadService(s)
    BY <2>4, <1>1 DEF reloadService
  <2> QED BY <1>4, <2>1, <2>2, <2>3, <2>4 DEF Next
<1> QED BY <1>4

(* A search that is made finds exactly what its selector says, for every   *)
(* tree and every history, unless what it builds on has become out of date *)
(* (Object.js:60, :68).                                                    *)
THEOREM FindsWhatItSaysSafe == Spec => FindsWhatItSays
<1>1. SelInv /\ [Next]_vars => [Says]_vars
  BY StepSays
<1>2. Spec => [][Says]_vars
  BY <1>1, SelInvAlways, PTL DEF Spec
<1> QED BY <1>2 DEF FindsWhatItSays, Says
=============================================================================

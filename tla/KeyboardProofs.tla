--------------------------- MODULE KeyboardProofs ---------------------------
(***************************************************************************)
(* Theorems about the input core and the keyboard handler, for any number  *)
(* of devices, handlers, VTs, consoles and keys and any key maps.          *)
(*                                                                         *)
(* The lists of the core lose elements in the middle while others walk     *)
(* them, so the first part is about Kept: what is left of a list is in the *)
(* order it was.  The second part follows two walks (registration), the    *)
(* third the binding of keyboards to VTs, the last an event through the    *)
(* receivers of a device, one after the other.                             *)
(***************************************************************************)
EXTENDS Keyboard, FiniteSetTheorems, TLAPS

-----------------------------------------------------------------------------
(* Natural numbers.                                                         *)

(* A set of numbers that is not empty has a smallest one: what FirstFree    *)
(* finds.                                                                   *)
LEMMA Smallest ==
  ASSUME NEW S \in SUBSET Nat, S # {}
  PROVE  \E n \in S : \A m \in S : n <= m
<1>1. IsWellFoundedOn(OpToRel(<, Nat), Nat)
  BY NatLessThanWellFounded
<1>2. PICK n \in S : \A m \in S : ~ (<<m, n>> \in OpToRel(<, Nat))
  BY <1>1, WFMin
<1>3. \A m \in S : ~ (m < n)
  BY <1>2 DEF OpToRel
<1> QED  BY <1>3

(* Induction, for a set instead of a predicate: the loops over lists.       *)
LEMMA Inductive ==
  ASSUME NEW S, 0 \in S, \A n \in Nat : n \in S => n + 1 \in S
  PROVE  \A n \in Nat : n \in S
<1> SUFFICES ASSUME NEW k \in Nat, k \notin S PROVE FALSE
  OBVIOUS
<1> DEFINE T == {n \in Nat : n \notin S}
<1>1. PICK n \in T : \A m \in T : n <= m
  <2> T \in SUBSET Nat /\ T # {}  OBVIOUS
  <2> HIDE DEF T
  <2> QED  BY Smallest
<1>2. n # 0 /\ n - 1 \in Nat /\ n - 1 \notin T
  BY <1>1
<1> QED  BY <1>1, <1>2

-----------------------------------------------------------------------------
(* Lists.                                                                   *)

Once(list) == \A i, j \in DOMAIN list : list[i] = list[j] => i = j
Before(list, x, y) == \E i, j \in DOMAIN list : i <= j /\ list[i] = x /\ list[j] = y

(* Kept takes the places one after the other and leaves none out (the       *)
(* elements of a list_head list once some are deleted).                     *)
LEMMA KeptPlaces ==
  ASSUME NEW list, NEW places \in SUBSET Nat, IsFiniteSet(places)
  PROVE  /\ Cardinality(places) \in Nat
         /\ \E at \in [1 .. Cardinality(places) -> places] :
              /\ Kept(list, places) = [n \in 1 .. Cardinality(places) |-> list[at[n]]]
              /\ \A p \in places : \E n \in 1 .. Cardinality(places) : at[n] = p
              /\ \A m, n \in 1 .. Cardinality(places) : m < n => at[m] < at[n]
<1> DEFINE C == Cardinality(places)
           Upto(p) == {q \in places : q <= p}
           rank == [p \in places |-> Cardinality(Upto(p))]
<1>0. \A p \in places : p \in Nat
  OBVIOUS
<1>1. C \in Nat
  BY FS_CardinalityType
<1>2. \A p \in places : /\ IsFiniteSet(Upto(p)) /\ Cardinality(Upto(p)) \in 1 .. C
  <2> SUFFICES ASSUME NEW p \in places
               PROVE IsFiniteSet(Upto(p)) /\ Cardinality(Upto(p)) \in 1 .. C
    OBVIOUS
  <2>1. IsFiniteSet(Upto(p)) /\ Cardinality(Upto(p)) <= C
    <3>1. Upto(p) \in SUBSET places
      OBVIOUS
    <3> HIDE DEF Upto
    <3> QED  BY <3>1, FS_Subset
  <2>2. Cardinality(Upto(p)) \in Nat
    BY <2>1, FS_CardinalityType
  <2>3. p \in Upto(p)
    OBVIOUS
  <2>4. Cardinality(Upto(p)) # 0
    BY <2>1, <2>3, FS_EmptySet
  <2> QED  BY <2>1, <2>2, <2>4, <1>1
<1>3. \A p, r \in places : p < r => rank[p] < rank[r]
  <2> SUFFICES ASSUME NEW p \in places, NEW r \in places, p < r
               PROVE Cardinality(Upto(p)) < Cardinality(Upto(r))
    OBVIOUS
  <2>1. Upto(p) \subseteq Upto(r) /\ r \in Upto(r) /\ r \notin Upto(p)
    <3>1. p \in Nat /\ r \in Nat
      BY <1>0
    <3>2. ASSUME NEW q \in Upto(p) PROVE q \in Upto(r)
      <4>1. q \in places /\ q \in Nat /\ q <= p
        BY <1>0
      <4>2. q <= r
        BY <3>1, <4>1
      <4> QED  BY <4>1, <4>2
    <3>3. r <= r /\ ~ (r <= p)
      BY <3>1
    <3> QED  BY <3>2, <3>3
  <2>2. Upto(p) # Upto(r)
    BY <2>1
  <2>3. Cardinality(Upto(p)) <= Cardinality(Upto(r))
         /\ (Cardinality(Upto(r)) = Cardinality(Upto(p)) <=> Upto(p) = Upto(r))
    BY <2>1, <1>2, FS_Subset
  <2>4. Cardinality(Upto(p)) \in Nat /\ Cardinality(Upto(r)) \in Nat
    BY <1>2, FS_CardinalityType
  <2> QED  BY <2>2, <2>3, <2>4
<1>4. rank \in Injection(places, 1 .. C)
  <2>1. rank \in [places -> 1 .. C]
    BY <1>2
  <2>2. \A p, r \in places : rank[p] = rank[r] => p = r
    <3> SUFFICES ASSUME NEW p \in places, NEW r \in places, p # r
                 PROVE rank[p] # rank[r]
      OBVIOUS
    <3>1. p < r \/ r < p
      OBVIOUS
    <3>2. rank[p] \in Nat /\ rank[r] \in Nat
      BY <2>1
    <3> HIDE DEF rank
    <3> QED  BY <3>1, <3>2, <1>3
  <2> QED  BY <2>1, <2>2 DEF Injection, IsInjective
<1>5. rank \in Surjection(places, 1 .. C)
  <2>1. IsFiniteSet(1 .. C) /\ Cardinality(1 .. C) = C
    BY <1>1, FS_Interval
  <2> HIDE DEF rank
  <2> QED  BY <1>4, <2>1, FS_Injection
<1>6. \A n \in 1 .. C : \E p \in places : Cardinality(Upto(p)) = n
  BY <1>5 DEF Surjection
<1> DEFINE at == [n \in 1 .. C |-> Nth(places, n)]
<1>7. \A n \in 1 .. C : at[n] \in places /\ Cardinality(Upto(at[n])) = n
  BY <1>6 DEF Nth
<1>8. \A p \in places : \E n \in 1 .. C : at[n] = p
  <2> SUFFICES ASSUME NEW p \in places PROVE \E n \in 1 .. C : at[n] = p
    OBVIOUS
  <2>1. Cardinality(Upto(p)) \in 1 .. C
    BY <1>2
  <2>2. at[Cardinality(Upto(p))] \in places
         /\ rank[at[Cardinality(Upto(p))]] = rank[p]
    BY <2>1, <1>7
  <2>3. at[Cardinality(Upto(p))] = p
    <3> HIDE DEF rank, at
    <3> QED  BY <2>2, <1>4 DEF Injection, IsInjective
  <2> QED  BY <2>1, <2>3
<1>9. \A m, n \in 1 .. C : m < n => at[m] < at[n]
  <2> SUFFICES ASSUME NEW m \in 1 .. C, NEW n \in 1 .. C, m < n, ~ (at[m] < at[n])
               PROVE FALSE
    OBVIOUS
  <2>1. at[m] \in places /\ at[n] \in places /\ rank[at[m]] = m /\ rank[at[n]] = n
    BY <1>7
  <2>2. at[m] \in Nat /\ at[n] \in Nat
    BY <2>1, <1>0
  <2> HIDE DEF at, rank
  <2>3. at[n] < at[m] \/ at[n] = at[m]
    BY <2>2
  <2>4. ~ (rank[at[n]] < rank[at[m]])
    BY <2>1
  <2> QED  BY <2>1, <2>3, <2>4, <1>3
<1>10. Kept(list, places) = [n \in 1 .. C |-> list[at[n]]]
  BY DEF Kept
<1>11. at \in [1 .. C -> places]
  <2>1. at = [n \in 1 .. C |-> at[n]]
    OBVIOUS
  <2> HIDE DEF at
  <2> QED  BY <1>7, <2>1
<1> HIDE DEF at
<1> QED  BY <1>1, <1>8, <1>9, <1>10, <1>11

(* The same for a list of elements of X: what Kept returns is such a list,  *)
(* of the elements at the places, each once if the list has each once, in   *)
(* their order.                                                             *)
LEMMA KeptList ==
  ASSUME NEW X, NEW list \in Seq(X), NEW places \in SUBSET (DOMAIN list)
  PROVE  /\ Kept(list, places) \in Seq(X)
         /\ Range(Kept(list, places)) = {list[p] : p \in places}
         /\ Once(list) => Once(Kept(list, places))
         /\ \A x, y : /\ Before(list, x, y)
                      /\ \A p \in DOMAIN list : list[p] \in {x, y} => p \in places
                      => Before(Kept(list, places), x, y)
<1>1. DOMAIN list = 1 .. Len(list) /\ Len(list) \in Nat /\ places \in SUBSET Nat
  OBVIOUS
<1>2. IsFiniteSet(places)
  <2>1. IsFiniteSet(1 .. Len(list))
    BY <1>1, FS_Interval
  <2> QED  BY <1>1, <2>1, FS_Subset
<1> DEFINE C == Cardinality(places)
           kept == Kept(list, places)
<1>3. C \in Nat
  BY <1>1, <1>2, KeptPlaces
<1>4. PICK at \in [1 .. C -> places] :
        /\ kept = [n \in 1 .. C |-> list[at[n]]]
        /\ \A p \in places : \E n \in 1 .. C : at[n] = p
        /\ \A m, n \in 1 .. C : m < n => at[m] < at[n]
  BY <1>1, <1>2, KeptPlaces
<1> HIDE DEF kept, C
<1>5. \A n \in 1 .. C : at[n] \in places /\ at[n] \in DOMAIN list /\ list[at[n]] \in X
  BY <1>1
<1>6. DOMAIN kept = 1 .. C /\ \A n \in 1 .. C : kept[n] = list[at[n]]
  BY <1>4
<1>7. kept \in Seq(X)
  BY <1>3, <1>4, <1>5
<1>8. Range(kept) = {list[p] : p \in places}
  BY <1>4, <1>5, <1>6 DEF Range
<1>9. Once(list) => Once(kept)
  <2> SUFFICES ASSUME Once(list), NEW m \in 1 .. C, NEW n \in 1 .. C, kept[m] = kept[n], m # n
               PROVE FALSE
    BY <1>6 DEF Once
  <2>1. at[m] = at[n]
    BY <1>5, <1>6 DEF Once
  <2>2. m < n \/ n < m
    BY <1>3
  <2>3. at[m] \in Nat
    BY <1>1, <1>5
  <2> QED  BY <1>4, <2>1, <2>2, <2>3
<1>10. ASSUME NEW x, NEW y, Before(list, x, y),
              \A p \in DOMAIN list : list[p] \in {x, y} => p \in places
       PROVE  Before(kept, x, y)
  <2>1. PICK i \in DOMAIN list, j \in DOMAIN list : i <= j /\ list[i] = x /\ list[j] = y
    BY <1>10 DEF Before
  <2>2. i \in places /\ j \in places
    BY <1>10, <2>1
  <2>3. PICK m \in 1 .. C, n \in 1 .. C : at[m] = i /\ at[n] = j
    BY <1>4, <2>2
  <2>4. m <= n
    <3> SUFFICES ASSUME n < m PROVE FALSE
      BY <1>3
    <3>1. j < i
      BY <1>4, <2>3
    <3> QED  BY <1>1, <2>1, <3>1
  <2> QED  BY <1>6, <2>1, <2>3, <2>4 DEF Before
<1> QED  BY <1>7, <1>8, <1>9, <1>10 DEF kept

(* list_del_init: the others stay, in their order.                          *)
LEMMA WithoutList ==
  ASSUME NEW X, NEW list \in Seq(X), NEW gone
  PROVE  /\ Without(list, gone) \in Seq(X)
         /\ Range(Without(list, gone)) = Range(list) \ gone
         /\ Once(list) => Once(Without(list, gone))
         /\ \A x, y : Before(list, x, y) /\ x \notin gone /\ y \notin gone
                      => Before(Without(list, gone), x, y)
<1> DEFINE places == {n \in DOMAIN list : list[n] \notin gone}
<1>1. places \in SUBSET (DOMAIN list)
  OBVIOUS
<1>2. {list[p] : p \in places} = Range(list) \ gone
  BY DEF Range
<1>3. \A x, y : x \notin gone /\ y \notin gone =>
        \A p \in DOMAIN list : list[p] \in {x, y} => p \in places
  OBVIOUS
<1>4. Without(list, gone) = Kept(list, places)
  BY DEF Without
<1> HIDE DEF places
<1> QED  BY <1>1, <1>2, <1>3, <1>4, KeptList

(* list_add_tail.                                                           *)
LEMMA AppendList ==
  ASSUME NEW X, NEW list \in Seq(X), NEW z \in X
  PROVE  /\ Append(list, z) \in Seq(X)
         /\ Range(Append(list, z)) = Range(list) \cup {z}
         /\ Once(list) /\ z \notin Range(list) => Once(Append(list, z))
         /\ \A x, y : Before(list, x, y) => Before(Append(list, z), x, y)
         /\ \A x \in Range(list) : Before(Append(list, z), x, z)
<1> DEFINE l == Append(list, z)
<1>1. /\ l \in Seq(X) /\ Len(list) \in Nat /\ Len(l) = Len(list) + 1
      /\ DOMAIN list = 1 .. Len(list) /\ DOMAIN l = 1 .. Len(list) + 1
      /\ \A n \in 1 .. Len(list) : l[n] = list[n]
      /\ l[Len(list) + 1] = z
  OBVIOUS
<1> HIDE DEF l
<1>2. \A n \in DOMAIN l : n \in DOMAIN list \/ n = Len(list) + 1
  BY <1>1
<1>3. \A n \in DOMAIN list : n \in DOMAIN l /\ n <= Len(list) + 1 /\ l[n] = list[n]
  BY <1>1
<1>4. Len(list) + 1 \in DOMAIN l
  BY <1>1
<1>5. Range(l) = Range(list) \cup {z}
  BY <1>1, <1>2, <1>3, <1>4 DEF Range
<1>6. Once(list) /\ z \notin Range(list) => Once(l)
  BY <1>1, <1>2, <1>3 DEF Range, Once
<1>7. \A x, y : Before(list, x, y) => Before(l, x, y)
  BY <1>3 DEF Before
<1>8. \A x \in Range(list) : Before(l, x, z)
  BY <1>1, <1>3, <1>4 DEF Before, Range
<1> QED  BY <1>1, <1>5, <1>6, <1>7, <1>8 DEF l

(* A walk (list_for_each_entry) starts before everything that is there ...  *)
LEMMA FirstList ==
  ASSUME NEW X, NEW list \in Seq(X), NULL \notin X
  PROVE  /\ FirstOf(list) \in X \cup {NULL}
         /\ \A y \in Range(list) : FirstOf(list) # NULL /\ Before(list, FirstOf(list), y)
<1>1. DOMAIN list = 1 .. Len(list) /\ Len(list) \in Nat
  OBVIOUS
<1>2. CASE list = <<>>
  BY <1>2 DEF FirstOf, Range
<1>3. CASE list # <<>>
  <2>1. 1 \in DOMAIN list /\ FirstOf(list) = list[1] /\ list[1] \in X
    BY <1>1, <1>3 DEF FirstOf
  <2> QED  BY <1>1, <2>1 DEF Range, Before
<1> QED  BY <1>2, <1>3

(* ... and a step leaves behind only the element it was at.                 *)
LEMMA NextList ==
  ASSUME NEW X, NEW list \in Seq(X), NULL \notin X, Once(list), NEW x \in X
  PROVE  /\ NextOf(list, x) \in X \cup {NULL}
         /\ x \notin Range(list) => NextOf(list, x) = x
         /\ \A y : Before(list, x, y) /\ y # x =>
              NextOf(list, x) # NULL /\ Before(list, NextOf(list, x), y)
<1>1. DOMAIN list = 1 .. Len(list) /\ Len(list) \in Nat /\ \A n \in 1 .. Len(list) : list[n] \in X
  OBVIOUS
<1> DEFINE at == {i \in DOMAIN list : list[i] = x}
<1>2. CASE at = {}
  BY <1>2 DEF NextOf, Before, Range
<1>3. CASE at # {}
  <2> DEFINE i == CHOOSE j \in at : TRUE
  <2>1. i \in DOMAIN list /\ list[i] = x
    BY <1>3
  <2>2. NextOf(list, x) = IF i = Len(list) THEN NULL ELSE list[i + 1]
    BY <1>3 DEF NextOf
  <2> HIDE DEF i
  <2>3. NextOf(list, x) \in X \cup {NULL}
    BY <1>1, <2>1, <2>2
  <2>4. x \in Range(list)
    BY <2>1 DEF Range
  <2>5. ASSUME NEW y, Before(list, x, y), y # x
        PROVE  NextOf(list, x) # NULL /\ Before(list, NextOf(list, x), y)
    <3>1. PICK m \in DOMAIN list, n \in DOMAIN list : m <= n /\ list[m] = x /\ list[n] = y
      BY <2>5 DEF Before
    <3>2. m = i
      BY <2>1, <3>1 DEF Once
    <3>3. i + 1 \in DOMAIN list /\ i + 1 <= n /\ i # Len(list)
      BY <1>1, <2>5, <3>1, <3>2
    <3>4. NextOf(list, x) = list[i + 1] /\ list[i + 1] \in X
      BY <1>1, <2>2, <3>3
    <3> QED  BY <3>1, <3>3, <3>4 DEF Before
  <2> QED  BY <2>3, <2>4, <2>5
<1> QED  BY <1>2, <1>3

-----------------------------------------------------------------------------
(* Registration: two walks.                                                 *)

HandleType == [dev : Devices, handler : Handlers, open : {0, 1}]

RegTypes ==
  /\ devList \in Seq(Devices) /\ Once(devList)
  /\ handlerList \in Seq(Handlers) /\ Once(handlerList)
  /\ dpc \in [Devices -> {"out", "walk", "in", "del"}]
  /\ hpc \in [Handlers -> {"out", "walk", "in"}]
  /\ dcur \in [Devices -> Handlers \cup {NULL}]
  /\ hcur \in [Handlers -> Devices \cup {NULL}]
  /\ links \in Seq(HandleIds) /\ Once(links)
  /\ handle \in [HandleIds -> HandleType \cup {NULL}]

Members ==
  /\ \A d \in Devices : d \in Range(devList) <=> dpc[d] # "out"
  /\ \A h \in Handlers : h \in Range(handlerList) <=> hpc[h] # "out"
  /\ \A i \in Range(links) : handle[i] # NULL

(* Whoever's walk is behind the other one's node will connect the two; a    *)
(* walk that stands on a removed node never ends.                           *)
Ahead(list, x, y) == x # NULL /\ (x \notin Range(list) \/ Before(list, x, y))
Connected(d, h) == \E i \in Range(links) : handle[i].dev = d /\ handle[i].handler = h
Met(d, h) ==
  \/ Connected(d, h)
  \/ dpc[d] = "walk" /\ Ahead(handlerList, dcur[d], h)
  \/ hpc[h] = "walk" /\ Ahead(devList, hcur[h], d)
Pair(d, h) == dpc[d] \in {"walk", "in"} /\ hpc[h] \in {"walk", "in"} /\ Accepts(d, h)
WalksMeet == \A d \in Devices, h \in Handlers : Pair(d, h) => Met(d, h)

RegInv == RegTypes /\ Members /\ WalksMeet

regVars == <<dpc, dcur, hpc, hcur, devList, handlerList, handle, links>>

(* No registration, nothing plugged (RegInv at the start).                  *)
LEMMA RegInit == Init => RegInv
<1> SUFFICES ASSUME Init PROVE RegInv
  OBVIOUS
<1>1. PICK x \in Scenarios : sc = x /\ CoreInit(x.loaded)
  BY DEF Init
<1>2. x.loaded \in Seq(Handlers) /\ Once(x.loaded)
  BY ScenarioAssumption DEF Once
<1>3. RegTypes
  BY <1>1, <1>2 DEF CoreInit, RegTypes, Once, HandleType
<1>4. Members
  BY <1>1 DEF CoreInit, Members, Range
<1>5. WalksMeet
  BY <1>1 DEF CoreInit, WalksMeet, Pair
<1> QED  BY <1>3, <1>4, <1>5 DEF RegInv

(* Events, requests and lights leave the core's lists alone.                *)
LEMMA RegUnchanged ==
  ASSUME RegInv, UNCHANGED regVars
  PROVE  RegInv'
<1>1. RegTypes' /\ Members'
  BY DEF RegInv, RegTypes, Members, Once, regVars
<1>2. WalksMeet'
  BY DEF RegInv, WalksMeet, Pair, Met, Connected, Ahead, Before, regVars, Accepts
<1> QED  BY <1>1, <1>2 DEF RegInv

(* input_register_device: the device is shown before the walk starts, so no *)
(* handler there or to come is missed.                                      *)
LEMMA RegDevice ==
  ASSUME RegInv, NEW d \in Devices, RegisterDevice(d)
  PROVE  RegInv'
<1>1. /\ dpc[d] = "out" /\ dpc' = [dpc EXCEPT ![d] = "walk"]
      /\ devList' = Append(devList, d)
      /\ dcur' = [dcur EXCEPT ![d] = FirstOf(handlerList)]
      /\ UNCHANGED <<hpc, hcur, handlerList, handle>>
      /\ \A h \in Handlers : hcur[h] # d
  BY DEF RegisterDevice, input_register_device
<1> DEFINE gone == {i \in HandleIds : handle[i] # NULL /\ handle[i].dev = d}
<1>2. links' = Without(links, gone)
  BY DEF RegisterDevice, input_register_device
<1> HIDE DEF gone
<1>3. RegTypes /\ Members /\ WalksMeet
  BY DEF RegInv
<1>4. d \notin Range(devList)
  BY <1>1, <1>3 DEF Members
<1>5. /\ devList' \in Seq(Devices) /\ Once(devList') /\ Range(devList') = Range(devList) \cup {d}
      /\ \A x, y : Before(devList, x, y) => Before(devList', x, y)
  BY <1>1, <1>3, <1>4, AppendList DEF RegTypes
<1>6. /\ links' \in Seq(HandleIds) /\ Once(links') /\ Range(links') = Range(links) \ gone
  BY <1>2, <1>3, WithoutList DEF RegTypes
<1>7. /\ FirstOf(handlerList) \in Handlers \cup {NULL}
      /\ \A h \in Range(handlerList) : FirstOf(handlerList) # NULL
                                       /\ Before(handlerList, FirstOf(handlerList), h)
  BY <1>3, NullAssumption, FirstList DEF RegTypes
<1>8. RegTypes'
  BY <1>1, <1>3, <1>5, <1>6, <1>7 DEF RegTypes, Once
<1>9. Members'
  BY <1>1, <1>3, <1>5, <1>6 DEF RegTypes, Members
<1>10. ASSUME NEW e \in Devices, NEW h \in Handlers, Pair(e, h)'
       PROVE  Met(e, h)'
  <2>1. CASE e = d
    <3>1. hpc[h] # "out" /\ h \in Range(handlerList)
      BY <1>1, <1>3, <1>10 DEF Pair, Members
    <3>2. dpc'[d] = "walk" /\ dcur'[d] = FirstOf(handlerList)
      BY <1>1, <1>3 DEF RegTypes
    <3> QED  BY <1>1, <1>7, <2>1, <3>1, <3>2 DEF Met, Ahead
  <2>2. CASE e # d
    <3>1. dpc'[e] = dpc[e] /\ dcur'[e] = dcur[e]
      BY <1>1, <1>3, <2>2 DEF RegTypes
    <3>2. Met(e, h)
      BY <1>1, <1>3, <1>10, <3>1 DEF WalksMeet, Pair, Accepts
    <3>3. CASE Connected(e, h)
      <4>1. PICK i \in Range(links) : handle[i].dev = e /\ handle[i].handler = h
        BY <3>3 DEF Connected
      <4>2. i \in Range(links')
        BY <1>6, <2>2, <4>1 DEF gone
      <4> QED  BY <1>1, <4>1, <4>2 DEF Met, Connected
    <3>4. CASE dpc[e] = "walk" /\ Ahead(handlerList, dcur[e], h)
      BY <1>1, <3>1, <3>4 DEF Met, Ahead, Before
    <3>5. CASE hpc[h] = "walk" /\ Ahead(devList, hcur[h], e)
      <4>1. hcur[h] # NULL /\ hcur[h] # d
        BY <1>1, <3>5 DEF Ahead
      <4>2. Ahead(devList', hcur[h], e)
        BY <1>5, <3>5, <4>1 DEF Ahead
      <4>3. Ahead(devList, hcur[h], e)'
        BY <1>1, <4>2 DEF Ahead, Before
      <4> QED  BY <1>1, <3>5, <4>3 DEF Met
    <3> QED  BY <3>2, <3>3, <3>4, <3>5 DEF Met
  <2> QED  BY <2>1, <2>2
<1> QED  BY <1>8, <1>9, <1>10 DEF RegInv, WalksMeet

(* input_register_handler: the same from the other side.                    *)
LEMMA RegHandler ==
  ASSUME RegInv, NEW h \in Handlers, RegisterHandler(h)
  PROVE  RegInv'
<1>1. /\ hpc[h] = "out" /\ hpc' = [hpc EXCEPT ![h] = "walk"]
      /\ handlerList' = Append(handlerList, h)
      /\ hcur' = [hcur EXCEPT ![h] = FirstOf(devList)]
      /\ UNCHANGED <<dpc, dcur, devList, handle, links>>
      /\ \A d \in Devices : dcur[d] # h
  BY DEF RegisterHandler, input_register_handler
<1>2. RegTypes /\ Members /\ WalksMeet
  BY DEF RegInv
<1>3. h \notin Range(handlerList)
  BY <1>1, <1>2 DEF Members
<1>4. /\ handlerList' \in Seq(Handlers) /\ Once(handlerList')
      /\ Range(handlerList') = Range(handlerList) \cup {h}
      /\ \A x, y : Before(handlerList, x, y) => Before(handlerList', x, y)
  BY <1>1, <1>2, <1>3, AppendList DEF RegTypes
<1>5. /\ FirstOf(devList) \in Devices \cup {NULL}
      /\ \A d \in Range(devList) : FirstOf(devList) # NULL /\ Before(devList, FirstOf(devList), d)
  BY <1>2, NullAssumption, FirstList DEF RegTypes
<1>6. RegTypes'
  BY <1>1, <1>2, <1>4, <1>5 DEF RegTypes, Once
<1>7. Members'
  BY <1>1, <1>2, <1>4 DEF RegTypes, Members
<1>8. ASSUME NEW d \in Devices, NEW g \in Handlers, Pair(d, g)'
      PROVE  Met(d, g)'
  <2>1. CASE g = h
    <3>1. d \in Range(devList)
      BY <1>1, <1>2, <1>8 DEF Pair, Members
    <3>2. hpc'[h] = "walk" /\ hcur'[h] = FirstOf(devList)
      BY <1>1, <1>2 DEF RegTypes
    <3> QED  BY <1>1, <1>5, <2>1, <3>1, <3>2 DEF Met, Ahead
  <2>2. CASE g # h
    <3>1. hpc'[g] = hpc[g] /\ hcur'[g] = hcur[g]
      BY <1>1, <1>2, <2>2 DEF RegTypes
    <3>2. Met(d, g)
      BY <1>1, <1>2, <1>8, <3>1 DEF WalksMeet, Pair, Accepts
    <3>3. CASE Connected(d, g)
      BY <1>1, <3>3 DEF Met, Connected
    <3>4. CASE hpc[g] = "walk" /\ Ahead(devList, hcur[g], d)
      BY <1>1, <3>1, <3>4 DEF Met, Ahead, Before
    <3>5. CASE dpc[d] = "walk" /\ Ahead(handlerList, dcur[d], g)
      <4>1. Ahead(handlerList', dcur[d], g)
        BY <1>1, <1>4, <3>5 DEF Ahead
      <4>2. Ahead(handlerList, dcur[d], g)'
        BY <1>1, <4>1 DEF Ahead, Before
      <4> QED  BY <1>1, <3>5, <4>2 DEF Met
    <3> QED  BY <3>2, <3>3, <3>4, <3>5 DEF Met
  <2> QED  BY <2>1, <2>2
<1> QED  BY <1>6, <1>7, <1>8 DEF RegInv, WalksMeet

(* What a connection may change of the core: one new handle, linked at      *)
(* once, or nothing at all.                                                 *)
Linked(d, h) ==
  \/ UNCHANGED <<handle, links>>
  \/ \E i \in HandleIds, open \in {0, 1} :
       /\ handle[i] = NULL
       /\ handle' = [handle EXCEPT ![i] = NewHandle(d, h, open)]
       /\ links' = Append(links, i)

(* A walk's step links a new handle (input_link_handle) or changes no link. *)
LEMMA ConnectLinks ==
  ASSUME NEW d \in Devices, NEW h \in Handlers, Connect(d, h)
  PROVE  /\ Linked(d, h)
         /\ Accepts(d, h) => \E i \in HandleIds, open \in {0, 1} :
              /\ handle[i] = NULL
              /\ handle' = [handle EXCEPT ![i] = NewHandle(d, h, open)]
              /\ links' = Append(links, i)
  BY DEF Connect, Linked, kbd_connect, input_link_handle

(* A new handle disturbs no other; connect() returned one for this pair.    *)
LEMMA NewLink ==
  ASSUME RegTypes, Members, NEW d \in Devices, NEW h \in Handlers, Linked(d, h)
  PROVE  /\ links' \in Seq(HandleIds) /\ Once(links')
         /\ handle' \in [HandleIds -> HandleType \cup {NULL}]
         /\ \A i \in Range(links') : handle'[i] # NULL
         /\ \A i \in Range(links) : i \in Range(links') /\ handle'[i] = handle[i]
         /\ ~ UNCHANGED <<handle, links>> => Connected(d, h)'
<1>1. CASE UNCHANGED <<handle, links>>
  BY <1>1 DEF RegTypes, Members, Once
<1>2. CASE ~ UNCHANGED <<handle, links>>
  <2>1. PICK i \in HandleIds, open \in {0, 1} :
               /\ handle[i] = NULL
               /\ handle' = [handle EXCEPT ![i] = NewHandle(d, h, open)]
               /\ links' = Append(links, i)
    BY <1>2 DEF Linked
  <2>2. i \notin Range(links)
    BY <2>1 DEF Members
  <2>3. /\ links' \in Seq(HandleIds) /\ Once(links') /\ Range(links') = Range(links) \cup {i}
    BY <2>1, <2>2, AppendList DEF RegTypes
  <2>4. NewHandle(d, h, open) \in HandleType /\ NewHandle(d, h, open) # NULL
         /\ NewHandle(d, h, open).dev = d /\ NewHandle(d, h, open).handler = h
    BY NullAssumption DEF NewHandle, HandleType
  <2>5. handle' \in [HandleIds -> HandleType \cup {NULL}]
    BY <2>1, <2>4 DEF RegTypes
  <2>6. handle'[i] = NewHandle(d, h, open) /\ \A j \in HandleIds : j # i => handle'[j] = handle[j]
    BY <2>1 DEF RegTypes
  <2>7. \A j \in Range(links) : j \in HandleIds
    BY DEF RegTypes, Range
  <2> QED  BY <2>2, <2>3, <2>4, <2>5, <2>6, <2>7 DEF Members, Connected
<1> QED  BY <1>1, <1>2

(* One step of input_register_device's walk.                                *)
LEMMA RegWalk ==
  ASSUME RegInv, NEW d \in Devices, RegisterWalk(d)
  PROVE  RegInv'
<1>0. PICK x : x = dcur[d]
  OBVIOUS
<1>1. /\ dpc[d] = "walk" /\ x # NULL
      /\ dcur' = [dcur EXCEPT ![d] = NextOf(handlerList, x)]
      /\ UNCHANGED <<dpc, hpc, hcur, devList, handlerList>>
  BY <1>0 DEF RegisterWalk, DeviceWalk
<1>2. RegTypes /\ Members /\ WalksMeet
  BY DEF RegInv
<1>3. x \in Handlers
  BY <1>0, <1>1, <1>2 DEF RegTypes
<1>4. Linked(d, x) /\ (hpc[x] # "out" /\ Accepts(d, x) => ~ UNCHANGED <<handle, links>>)
  <2>1. CASE hpc[x] = "out"
    BY <1>0, <2>1 DEF RegisterWalk, WalkStep, Linked
  <2>2. CASE hpc[x] # "out"
    <3>1. Connect(d, x)
      BY <1>0, <2>2 DEF RegisterWalk, WalkStep
    <3>2. ASSUME Accepts(d, x) PROVE handle' # handle
      <4>1. PICK i \in HandleIds, open \in {0, 1} :
                   handle[i] = NULL /\ handle' = [handle EXCEPT ![i] = NewHandle(d, x, open)]
        BY <1>3, <3>1, <3>2, ConnectLinks
      <4>2. handle'[i] = NewHandle(d, x, open) /\ NewHandle(d, x, open) # NULL
        BY <1>2, <1>3, <4>1, NullAssumption DEF RegTypes, NewHandle
      <4> QED  BY <4>1, <4>2
    <3> QED  BY <1>3, <3>1, <3>2, ConnectLinks
  <2> QED  BY <2>1, <2>2
<1>5. /\ links' \in Seq(HandleIds) /\ Once(links')
      /\ handle' \in [HandleIds -> HandleType \cup {NULL}]
      /\ \A i \in Range(links') : handle'[i] # NULL
      /\ \A i \in Range(links) : i \in Range(links') /\ handle'[i] = handle[i]
      /\ ~ UNCHANGED <<handle, links>> => Connected(d, x)'
  BY <1>2, <1>3, <1>4, NewLink
<1>6. /\ NextOf(handlerList, x) \in Handlers \cup {NULL}
      /\ x \notin Range(handlerList) => NextOf(handlerList, x) = x
      /\ \A y : Before(handlerList, x, y) /\ y # x =>
           NextOf(handlerList, x) # NULL /\ Before(handlerList, NextOf(handlerList, x), y)
  BY <1>2, <1>3, NullAssumption, NextList DEF RegTypes
<1>7. dcur'[d] = NextOf(handlerList, x) /\ \A e \in Devices : e # d => dcur'[e] = dcur[e]
  BY <1>1, <1>2 DEF RegTypes
<1>8. RegTypes'
  BY <1>1, <1>2, <1>5, <1>6 DEF RegTypes, Once
<1>9. Members'
  BY <1>1, <1>2, <1>5 DEF Members
<1>10. ASSUME NEW e \in Devices, NEW h \in Handlers, Pair(e, h)'
       PROVE  Met(e, h)'
  <2>1. Pair(e, h) /\ Met(e, h)
    BY <1>1, <1>2, <1>10 DEF WalksMeet, Pair, Accepts
  <2>2. CASE Connected(e, h)
    BY <1>5, <2>2 DEF Connected, Met
  <2>3. CASE hpc[h] = "walk" /\ Ahead(devList, hcur[h], e)
    BY <1>1, <2>3 DEF Met, Ahead, Before
  <2>4. CASE dpc[e] = "walk" /\ Ahead(handlerList, dcur[e], h)
    <3>1. CASE e # d
      BY <1>0, <1>1, <1>7, <2>4, <3>1 DEF Met, Ahead, Before
    <3>2. CASE e = d /\ x \notin Range(handlerList)
      <4>1. dcur'[d] = x
        BY <1>0, <1>6, <1>7, <3>2
      <4> QED  BY <1>0, <1>1, <2>4, <3>2, <4>1 DEF Met, Ahead
    <3>3. CASE e = d /\ x \in Range(handlerList) /\ h # x
      <4>1. Before(handlerList, x, h)
        BY <1>0, <2>4, <3>3 DEF Ahead
      <4>2. dcur'[d] # NULL /\ Before(handlerList, dcur'[d], h)
        BY <1>6, <1>7, <3>3, <4>1
      <4>3. Ahead(handlerList, dcur[d], h)'
        BY <1>1, <4>2 DEF Ahead, Before
      <4> QED  BY <1>1, <2>4, <3>3, <4>3 DEF Met
    <3>4. CASE e = d /\ h = x
      BY <1>4, <1>5, <2>1, <3>4 DEF Pair, Met
    <3> QED  BY <3>1, <3>2, <3>3, <3>4
  <2> QED  BY <2>1, <2>2, <2>3, <2>4 DEF Met
<1> QED  BY <1>8, <1>9, <1>10 DEF RegInv, WalksMeet

(* One step of input_register_handler's walk.                               *)
LEMMA RegHandlerWalk ==
  ASSUME RegInv, NEW h \in Handlers, RegisterHandlerWalk(h)
  PROVE  RegInv'
<1>0. PICK x : x = hcur[h]
  OBVIOUS
<1>1. /\ hpc[h] = "walk" /\ x # NULL
      /\ hcur' = [hcur EXCEPT ![h] = NextOf(devList, x)]
      /\ UNCHANGED <<dpc, dcur, hpc, devList, handlerList>>
  BY <1>0 DEF RegisterHandlerWalk, HandlerWalk
<1>2. RegTypes /\ Members /\ WalksMeet
  BY DEF RegInv
<1>3. x \in Devices
  BY <1>0, <1>1, <1>2 DEF RegTypes
<1>4. Linked(x, h) /\ (dpc[x] # "out" /\ Accepts(x, h) => ~ UNCHANGED <<handle, links>>)
  <2>1. CASE dpc[x] = "out"
    BY <1>0, <2>1 DEF RegisterHandlerWalk, WalkStep, Linked
  <2>2. CASE dpc[x] # "out"
    <3>1. Connect(x, h)
      BY <1>0, <2>2 DEF RegisterHandlerWalk, WalkStep
    <3>2. ASSUME Accepts(x, h) PROVE handle' # handle
      <4>1. PICK i \in HandleIds, open \in {0, 1} :
                   handle[i] = NULL /\ handle' = [handle EXCEPT ![i] = NewHandle(x, h, open)]
        BY <1>3, <3>1, <3>2, ConnectLinks
      <4>2. handle'[i] = NewHandle(x, h, open) /\ NewHandle(x, h, open) # NULL
        BY <1>2, <1>3, <4>1, NullAssumption DEF RegTypes, NewHandle
      <4> QED  BY <4>1, <4>2
    <3> QED  BY <1>3, <3>1, <3>2, ConnectLinks
  <2> QED  BY <2>1, <2>2
<1>5. /\ links' \in Seq(HandleIds) /\ Once(links')
      /\ handle' \in [HandleIds -> HandleType \cup {NULL}]
      /\ \A i \in Range(links') : handle'[i] # NULL
      /\ \A i \in Range(links) : i \in Range(links') /\ handle'[i] = handle[i]
      /\ ~ UNCHANGED <<handle, links>> => Connected(x, h)'
  BY <1>2, <1>3, <1>4, NewLink
<1>6. /\ NextOf(devList, x) \in Devices \cup {NULL}
      /\ x \notin Range(devList) => NextOf(devList, x) = x
      /\ \A y : Before(devList, x, y) /\ y # x =>
           NextOf(devList, x) # NULL /\ Before(devList, NextOf(devList, x), y)
  BY <1>2, <1>3, NullAssumption, NextList DEF RegTypes
<1>7. hcur'[h] = NextOf(devList, x) /\ \A g \in Handlers : g # h => hcur'[g] = hcur[g]
  BY <1>1, <1>2 DEF RegTypes
<1>8. RegTypes'
  BY <1>1, <1>2, <1>5, <1>6 DEF RegTypes, Once
<1>9. Members'
  BY <1>1, <1>2, <1>5 DEF Members
<1>10. ASSUME NEW e \in Devices, NEW g \in Handlers, Pair(e, g)'
       PROVE  Met(e, g)'
  <2>1. Pair(e, g) /\ Met(e, g)
    BY <1>1, <1>2, <1>10 DEF WalksMeet, Pair, Accepts
  <2>2. CASE Connected(e, g)
    BY <1>5, <2>2 DEF Connected, Met
  <2>3. CASE dpc[e] = "walk" /\ Ahead(handlerList, dcur[e], g)
    BY <1>1, <2>3 DEF Met, Ahead, Before
  <2>4. CASE hpc[g] = "walk" /\ Ahead(devList, hcur[g], e)
    <3>1. CASE g # h
      BY <1>0, <1>1, <1>7, <2>4, <3>1 DEF Met, Ahead, Before
    <3>2. CASE g = h /\ x \notin Range(devList)
      <4>1. hcur'[h] = x
        BY <1>0, <1>6, <1>7, <3>2
      <4> QED  BY <1>0, <1>1, <2>4, <3>2, <4>1 DEF Met, Ahead
    <3>3. CASE g = h /\ x \in Range(devList) /\ e # x
      <4>1. Before(devList, x, e)
        BY <1>0, <2>4, <3>3 DEF Ahead
      <4>2. hcur'[h] # NULL /\ Before(devList, hcur'[h], e)
        BY <1>6, <1>7, <3>3, <4>1
      <4>3. Ahead(devList, hcur[h], e)'
        BY <1>1, <4>2 DEF Ahead, Before
      <4> QED  BY <1>1, <2>4, <3>3, <4>3 DEF Met
    <3>4. CASE g = h /\ e = x
      BY <1>4, <1>5, <2>1, <3>4 DEF Pair, Met
    <3> QED  BY <3>1, <3>2, <3>3, <3>4
  <2> QED  BY <2>1, <2>2, <2>3, <2>4 DEF Met
<1> QED  BY <1>8, <1>9, <1>10 DEF RegInv, WalksMeet

(* The end of a walk: nothing was ahead of it any more.                     *)
LEMMA RegReady ==
  ASSUME RegInv,
         \/ \E d \in Devices : RegisterDone(d)
         \/ \E h \in Handlers : RegisterHandlerDone(h)
  PROVE  RegInv'
<1>1. ASSUME NEW d \in Devices, RegisterDone(d) PROVE RegInv'
  <2>1. /\ dpc[d] = "walk" /\ dcur[d] = NULL /\ dpc' = [dpc EXCEPT ![d] = "in"]
        /\ UNCHANGED <<dcur, hpc, hcur, devList, handlerList, handle, links>>
    BY <1>1 DEF RegisterDone, DeviceReady
  <2>2. RegTypes /\ Members /\ WalksMeet
    BY DEF RegInv
  <2>3. dpc'[d] = "in" /\ \A e \in Devices : e # d => dpc'[e] = dpc[e]
    BY <2>1, <2>2 DEF RegTypes
  <2>4. RegTypes' /\ Members'
    BY <2>1, <2>2, <2>3 DEF RegTypes, Members, Once
  <2>5. ASSUME NEW e \in Devices, NEW h \in Handlers, Pair(e, h)' PROVE Met(e, h)'
    <3>1. Pair(e, h) /\ Met(e, h)
      BY <2>1, <2>2, <2>3, <2>5 DEF Pair, WalksMeet, Accepts
    <3> QED  BY <2>1, <2>3, <3>1 DEF Met, Connected, Ahead, Before
  <2> QED  BY <2>4, <2>5 DEF RegInv, WalksMeet
<1>2. ASSUME NEW h \in Handlers, RegisterHandlerDone(h) PROVE RegInv'
  <2>1. /\ hpc[h] = "walk" /\ hcur[h] = NULL /\ hpc' = [hpc EXCEPT ![h] = "in"]
        /\ UNCHANGED <<dpc, dcur, hcur, devList, handlerList, handle, links>>
    BY <1>2 DEF RegisterHandlerDone, HandlerReady
  <2>2. RegTypes /\ Members /\ WalksMeet
    BY DEF RegInv
  <2>3. hpc'[h] = "in" /\ \A g \in Handlers : g # h => hpc'[g] = hpc[g]
    BY <2>1, <2>2 DEF RegTypes
  <2>4. RegTypes' /\ Members'
    BY <2>1, <2>2, <2>3 DEF RegTypes, Members, Once
  <2>5. ASSUME NEW d \in Devices, NEW g \in Handlers, Pair(d, g)' PROVE Met(d, g)'
    <3>1. Pair(d, g) /\ Met(d, g)
      BY <2>1, <2>2, <2>3, <2>5 DEF Pair, WalksMeet, Accepts
    <3> QED  BY <2>1, <2>3, <3>1 DEF Met, Connected, Ahead, Before
  <2> QED  BY <2>4, <2>5 DEF RegInv, WalksMeet
<1> QED  BY <1>1, <1>2

(* The handles a device or a handler gives back on the way out.             *)
LEMMA HandlesSets ==
  ASSUME links \in Seq(HandleIds)
  PROVE  /\ \A d : /\ HandlesOf(d) \in Seq(HandleIds)
                   /\ Range(HandlesOf(d)) = {i \in Range(links) : handle[i].dev = d}
                   /\ Once(links) => Once(HandlesOf(d))
         /\ \A h : /\ HandlesOfHandler(h) \in Seq(HandleIds)
                   /\ Range(HandlesOfHandler(h)) = {i \in Range(links) : handle[i].handler = h}
<1>1. ASSUME NEW d
      PROVE  /\ HandlesOf(d) \in Seq(HandleIds)
             /\ Range(HandlesOf(d)) = {i \in Range(links) : handle[i].dev = d}
             /\ Once(links) => Once(HandlesOf(d))
  <2> DEFINE places == {n \in DOMAIN links : handle[links[n]].dev = d}
  <2>1. places \in SUBSET (DOMAIN links)
    OBVIOUS
  <2>2. {links[p] : p \in places} = {i \in Range(links) : handle[i].dev = d}
    BY DEF Range
  <2> HIDE DEF places
  <2>3. Kept(links, places) = HandlesOf(d)
    BY DEF HandlesOf, places
  <2> QED  BY <2>1, <2>2, <2>3, KeptList
<1>2. ASSUME NEW h
      PROVE  /\ HandlesOfHandler(h) \in Seq(HandleIds)
             /\ Range(HandlesOfHandler(h)) = {i \in Range(links) : handle[i].handler = h}
  <2> DEFINE places == {n \in DOMAIN links : handle[links[n]].handler = h}
  <2>1. places \in SUBSET (DOMAIN links)
    OBVIOUS
  <2>2. {links[p] : p \in places} = {i \in Range(links) : handle[i].handler = h}
    BY DEF Range
  <2> HIDE DEF places
  <2>3. Kept(links, places) = HandlesOfHandler(h)
    BY DEF HandlesOfHandler, places
  <2> QED  BY <2>1, <2>2, <2>3, KeptList
<1> QED  BY <1>1, <1>2

(* Freed handles are linked nowhere.                                        *)
LEMMA ReleaseLinks ==
  ASSUME RegTypes, Members, NEW gone, Release(gone)
  PROVE  /\ links' \in Seq(HandleIds) /\ Once(links') /\ Range(links') = Range(links) \ gone
         /\ handle' \in [HandleIds -> HandleType \cup {NULL}]
         /\ \A i \in HandleIds : i \notin gone => handle'[i] = handle[i]
         /\ \A i \in Range(links') : handle'[i] # NULL
<1>1. links' = Without(links, gone)
      /\ handle' = [i \in HandleIds |-> IF i \in gone THEN NULL ELSE handle[i]]
  BY DEF Release
<1>2. links' \in Seq(HandleIds) /\ Once(links') /\ Range(links') = Range(links) \ gone
  BY <1>1, WithoutList DEF RegTypes
<1>3. handle' \in [HandleIds -> HandleType \cup {NULL}]
      /\ \A i \in HandleIds : i \notin gone => handle'[i] = handle[i]
  BY <1>1 DEF RegTypes
<1>4. \A i \in Range(links) : i \in HandleIds
  BY DEF RegTypes, Range
<1> QED  BY <1>2, <1>3, <1>4 DEF Members

(* input_unregister_device: first its handles ...                           *)
LEMMA RegUnplug ==
  ASSUME RegInv, NEW d \in Devices, UnregisterDevice(d)
  PROVE  RegInv'
<1>1. PICK gone : gone = Range(HandlesOf(d))
  OBVIOUS
<1>2. /\ dpc[d] = "in" /\ dpc' = [dpc EXCEPT ![d] = "del"] /\ Release(gone)
      /\ UNCHANGED <<dcur, hpc, hcur, devList, handlerList>>
  BY <1>1 DEF UnregisterDevice, input_unregister_device
<1>3. RegTypes /\ Members /\ WalksMeet
  BY DEF RegInv
<1>4. gone = {i \in Range(links) : handle[i].dev = d}
  BY <1>1, <1>3, HandlesSets DEF RegTypes
<1>5. /\ links' \in Seq(HandleIds) /\ Once(links') /\ Range(links') = Range(links) \ gone
      /\ handle' \in [HandleIds -> HandleType \cup {NULL}]
      /\ \A i \in HandleIds : i \notin gone => handle'[i] = handle[i]
      /\ \A i \in Range(links') : handle'[i] # NULL
  BY <1>2, <1>3, ReleaseLinks
<1>6. dpc'[d] = "del" /\ \A e \in Devices : e # d => dpc'[e] = dpc[e]
  BY <1>2, <1>3 DEF RegTypes
<1>7. RegTypes'
  BY <1>2, <1>3, <1>5 DEF RegTypes, Once
<1>8. Members'
  BY <1>2, <1>3, <1>5, <1>6 DEF Members
<1>9. ASSUME NEW e \in Devices, NEW h \in Handlers, Pair(e, h)' PROVE Met(e, h)'
  <2>1. e # d /\ dpc'[e] = dpc[e]
    BY <1>6, <1>9 DEF Pair
  <2>2. Pair(e, h) /\ Met(e, h)
    BY <1>2, <1>3, <1>9, <2>1 DEF Pair, WalksMeet, Accepts
  <2>3. CASE Connected(e, h)
    <3>1. PICK i \in Range(links) : handle[i].dev = e /\ handle[i].handler = h
      BY <2>3 DEF Connected
    <3>2. i \in HandleIds
      BY <1>3 DEF RegTypes, Range
    <3>3. i \notin gone
      BY <1>4, <2>1, <3>1
    <3>4. i \in Range(links')
      BY <1>5, <3>3
    <3>5. handle'[i] = handle[i]
      BY <1>5, <3>2, <3>3
    <3> QED  BY <3>1, <3>4, <3>5 DEF Met, Connected
  <2>4. CASE ~ Connected(e, h)
    BY <1>2, <2>1, <2>2, <2>4 DEF Met, Ahead, Before
  <2> QED  BY <2>3, <2>4
<1> QED  BY <1>7, <1>8, <1>9 DEF RegInv, WalksMeet

(* ... and last its place in the list.                                      *)
LEMMA RegGone ==
  ASSUME RegInv, NEW d \in Devices, DeviceRemoved(d)
  PROVE  RegInv'
<1>1. /\ dpc[d] = "del" /\ dpc' = [dpc EXCEPT ![d] = "out"] /\ devList' = Without(devList, {d})
      /\ UNCHANGED <<dcur, hpc, hcur, handlerList, handle, links>>
  BY DEF DeviceRemoved, DeviceGone
<1>2. RegTypes /\ Members /\ WalksMeet
  BY DEF RegInv
<1>3. /\ devList' \in Seq(Devices) /\ Once(devList') /\ Range(devList') = Range(devList) \ {d}
      /\ \A x, y : Before(devList, x, y) /\ x # d /\ y # d => Before(devList', x, y)
  BY <1>1, <1>2, WithoutList DEF RegTypes
<1>4. dpc'[d] = "out" /\ \A e \in Devices : e # d => dpc'[e] = dpc[e]
  BY <1>1, <1>2 DEF RegTypes
<1>5. RegTypes'
  BY <1>1, <1>2, <1>3 DEF RegTypes, Once
<1>6. Members'
  BY <1>1, <1>2, <1>3, <1>4 DEF Members
<1>7. ASSUME NEW e \in Devices, NEW h \in Handlers, Pair(e, h)' PROVE Met(e, h)'
  <2>1. e # d /\ dpc'[e] = dpc[e]
    BY <1>4, <1>7 DEF Pair
  <2>2. Pair(e, h) /\ Met(e, h)
    BY <1>1, <1>2, <1>7, <2>1 DEF Pair, WalksMeet, Accepts
  <2>3. CASE hpc[h] = "walk" /\ Ahead(devList, hcur[h], e)
    <3>1. Ahead(devList', hcur[h], e)
      BY <1>3, <2>1, <2>3 DEF Ahead
    <3>2. Ahead(devList, hcur[h], e)'
      BY <1>1, <3>1 DEF Ahead, Before
    <3> QED  BY <1>1, <2>3, <3>2 DEF Met
  <2>4. CASE ~ (hpc[h] = "walk" /\ Ahead(devList, hcur[h], e))
    BY <1>1, <2>1, <2>2, <2>4 DEF Met, Connected, Ahead, Before
  <2> QED  BY <2>3, <2>4
<1> QED  BY <1>5, <1>6, <1>7 DEF RegInv, WalksMeet

(* input_unregister_handler.                                                *)
LEMMA RegHandlerGone ==
  ASSUME RegInv, NEW h \in Handlers, UnregisterHandler(h)
  PROVE  RegInv'
<1>1. PICK gone : gone = Range(HandlesOfHandler(h))
  OBVIOUS
<1>2. /\ hpc[h] = "in" /\ hpc' = [hpc EXCEPT ![h] = "out"] /\ Release(gone)
      /\ handlerList' = Without(handlerList, {h})
      /\ UNCHANGED <<dpc, dcur, hcur, devList>>
  BY <1>1 DEF UnregisterHandler, input_unregister_handler
<1>3. RegTypes /\ Members /\ WalksMeet
  BY DEF RegInv
<1>4. gone = {i \in Range(links) : handle[i].handler = h}
  BY <1>1, <1>3, HandlesSets DEF RegTypes
<1>5. /\ links' \in Seq(HandleIds) /\ Once(links') /\ Range(links') = Range(links) \ gone
      /\ handle' \in [HandleIds -> HandleType \cup {NULL}]
      /\ \A i \in HandleIds : i \notin gone => handle'[i] = handle[i]
      /\ \A i \in Range(links') : handle'[i] # NULL
  BY <1>2, <1>3, ReleaseLinks
<1>6. hpc'[h] = "out" /\ \A g \in Handlers : g # h => hpc'[g] = hpc[g]
  BY <1>2, <1>3 DEF RegTypes
<1>7. /\ handlerList' \in Seq(Handlers) /\ Once(handlerList')
      /\ Range(handlerList') = Range(handlerList) \ {h}
      /\ \A x, y : Before(handlerList, x, y) /\ x # h /\ y # h => Before(handlerList', x, y)
  BY <1>2, <1>3, WithoutList DEF RegTypes
<1>8. RegTypes'
  BY <1>2, <1>3, <1>5, <1>7 DEF RegTypes, Once
<1>9. Members'
  BY <1>2, <1>3, <1>5, <1>6, <1>7 DEF Members
<1>10. ASSUME NEW d \in Devices, NEW g \in Handlers, Pair(d, g)' PROVE Met(d, g)'
  <2>1. g # h /\ hpc'[g] = hpc[g]
    BY <1>6, <1>10 DEF Pair
  <2>2. Pair(d, g) /\ Met(d, g)
    BY <1>2, <1>3, <1>10, <2>1 DEF Pair, WalksMeet, Accepts
  <2>3. CASE Connected(d, g)
    <3>1. PICK i \in Range(links) : handle[i].dev = d /\ handle[i].handler = g
      BY <2>3 DEF Connected
    <3>2. i \in HandleIds
      BY <1>3 DEF RegTypes, Range
    <3>3. i \notin gone
      BY <1>4, <2>1, <3>1
    <3>4. i \in Range(links')
      BY <1>5, <3>3
    <3>5. handle'[i] = handle[i]
      BY <1>5, <3>2, <3>3
    <3> QED  BY <3>1, <3>4, <3>5 DEF Met, Connected
  <2>4. CASE dpc[d] = "walk" /\ Ahead(handlerList, dcur[d], g)
    <3>1. Ahead(handlerList', dcur[d], g)
      BY <1>7, <2>1, <2>4 DEF Ahead
    <3>2. Ahead(handlerList, dcur[d], g)'
      BY <1>2, <3>1 DEF Ahead, Before
    <3> QED  BY <1>2, <2>4, <3>2 DEF Met
  <2>5. CASE hpc[g] = "walk" /\ Ahead(devList, hcur[g], d)
    BY <1>2, <2>1, <2>5 DEF Met, Ahead, Before
  <2> QED  BY <2>2, <2>3, <2>4, <2>5 DEF Met
<1> QED  BY <1>8, <1>9, <1>10 DEF RegInv, WalksMeet

(* The steps that leave the lists alone: events, the tasklet, requests of   *)
(* programs, grabs.                                                         *)
Elsewhere ==
  \/ \E d \in Devices : KeyEvent(d) \/ OtherEvent(d) \/ RepeatTimer(d)
  \/ \E i \in HandleIds : Grab(i)
  \/ \E c \in Consoles : ConsoleStep(c)
  \/ \E v \in VT : VtStep(v)
  \/ kbd_bh

(* Events, the tasklet, requests and grabs leave the lists of input.c       *)
(* alone.                                                                   *)
LEMMA ElsewhereLists ==
  ASSUME Elsewhere
  PROVE  UNCHANGED regVars
<1>1. ASSUME NEW d \in Devices, KeyEvent(d) \/ OtherEvent(d) \/ RepeatTimer(d)
      PROVE  UNCHANGED regVars
  BY <1>1 DEF KeyEvent, OtherEvent, RepeatTimer, Report, regVars
<1>2. ASSUME NEW i \in HandleIds, Grab(i) PROVE UNCHANGED regVars
  BY <1>2 DEF Grab, input_grab_device, input_release_device, regVars
<1>3. ASSUME NEW c \in Consoles, ConsoleStep(c) PROVE UNCHANGED regVars
  BY <1>3 DEF ConsoleStep, SwitchScreen, KDSKBMODE, SetModeFlag, KDSKBLED, KDSETLED, NoCore,
              coreVars, regVars
<1>4. ASSUME NEW v \in VT, VtStep(v) PROVE UNCHANGED regVars
  BY <1>4 DEF VtStep, kd_mksound, kd_nosound, KDKBDREP, write_kbd_phys, NoCore, coreVars, regVars
<1>5. ASSUME kbd_bh PROVE UNCHANGED regVars
  BY <1>5 DEF kbd_bh, regVars
<1> QED  BY <1>1, <1>2, <1>3, <1>4, <1>5 DEF Elsewhere

(* The steps of Next, one case each.                                        *)
LEMMA Steps ==
  ASSUME Next
  PROVE  \/ \E d \in Devices : \/ RegisterDevice(d) \/ RegisterWalk(d) \/ RegisterDone(d)
                               \/ UnregisterDevice(d) \/ DeviceRemoved(d)
         \/ \E h \in Handlers : \/ RegisterHandler(h) \/ RegisterHandlerWalk(h)
                                \/ RegisterHandlerDone(h) \/ UnregisterHandler(h)
         \/ Elsewhere
  BY DEF Next, DeviceStep, HandlerStep, Elsewhere

(* Every step of the core and of the handlers keeps the invariant of        *)
(* registration.                                                            *)
LEMMA RegNext ==
  ASSUME RegInv, [Next]_vars
  PROVE  RegInv'
<1>1. CASE UNCHANGED vars
  BY <1>1, RegUnchanged DEF vars, coreVars, regVars
<1>2. CASE Next
  BY <1>2, Steps, ElsewhereLists, RegUnchanged, RegDevice, RegWalk, RegReady, RegUnplug, RegGone,
     RegHandler, RegHandlerWalk, RegHandlerGone
<1> QED  BY <1>1, <1>2

(* The inductive invariant of registration, in every behaviour.             *)
THEOREM RegistrationSound == Spec => []RegInv
<1>1. Init => RegInv
  BY RegInit
<1>2. RegInv /\ [Next]_vars => RegInv'
  BY RegNext
<1> QED  BY <1>1, <1>2, PTL DEF Spec

(* Registration: whichever way the unlocked walks of input_register_device  *)
(* and input_register_handler interleave with each other and with devices   *)
(* and handlers that leave, a device and a handler that both finished and   *)
(* match are connected.                                                     *)
THEOREM NoMissedConnectionHolds == Spec => []NoMissedConnection
<1>1. RegInv => NoMissedConnection
  <2> SUFFICES ASSUME RegInv, NEW d \in Devices, NEW h \in Handlers,
                      dpc[d] = "in", hpc[h] = "in", Accepts(d, h)
               PROVE  \E n \in DOMAIN links : handle[links[n]].dev = d /\ handle[links[n]].handler = h
    BY DEF NoMissedConnection
  <2>1. Connected(d, h)
    BY DEF RegInv, WalksMeet, Pair, Met
  <2> QED  BY <2>1 DEF Connected, Range
<1> QED  BY <1>1, RegistrationSound, PTL

-----------------------------------------------------------------------------
(* Devices: what input_event and the lights leave in struct input_dev.      *)

DevType ==
  [key : SUBSET Keys, led : SUBSET Leds, abs : Int, repeat_key : Keys \cup {NULL},
   sync : BOOLEAN, grab : HandleIds \cup {NULL}]

DevInv == dev \in [Devices -> DevType]

IsEvent(e) ==
  \/ e \in [type : {"EV_KEY"}, code : Keys, value : {0, 1, 2}]
  \/ e \in [type : {"EV_ABS"}, code : {"ABS_X"}, value : Int]
  \/ e \in [type : {"EV_LED"}, code : Leds, value : {0, 1}]
  \/ e \in [type : {"EV_SYN", "EV_REL", "EV_MSC", "EV_FF"},
            code : {"SYN_REPORT", "REL_X", "MSC_RAW", "FF_RUMBLE"}, value : Int]

(* An event changes the device within its type; only keys change the keys.  *)
LEMMA UpdatedType ==
  ASSUME NEW d \in Devices, NEW r \in DevType, NEW e, IsEvent(e)
  PROVE  /\ Updated(d, r, e) \in DevType
         /\ e.type # "EV_KEY" \/ e.value = 2 => Updated(d, r, e).key = r.key
         /\ e.type = "EV_KEY" /\ e.value # 2 => Updated(d, r, e).key = Toggle(e.code, r.key)
<1> DEFINE b == e.type = "EV_SYN" /\ (r.sync \/ e.code = "SYN_REPORT")
           s == [r EXCEPT !.sync = b]
<1>1. b \in BOOLEAN
  OBVIOUS
<1> HIDE DEF b
<1>2. s \in DevType /\ s.key = r.key /\ s.abs = r.abs /\ s.led = r.led
  BY <1>1 DEF DevType
<1>3. Updated(d, r, e) =
        CASE e.type = "EV_KEY" /\ e.value # 2 ->
               [s EXCEPT !.key = Toggle(e.code, @),
                         !.repeat_key = IF "EV_REP" \in EvBits[d] /\ e.value = 1 THEN e.code ELSE @]
          [] e.type = "EV_ABS" -> [s EXCEPT !.abs = AbsFilter(@, Fuzz[d], e.value)]
          [] e.type = "EV_LED" -> [s EXCEPT !.led = Toggle(e.code, @)]
          [] OTHER -> s
  BY DEF Updated, b
<1> HIDE DEF s
<1>4. CASE e.type = "EV_KEY" /\ e.value # 2
  <2>1. Updated(d, r, e) =
          [s EXCEPT !.key = Toggle(e.code, @),
                    !.repeat_key = IF "EV_REP" \in EvBits[d] /\ e.value = 1 THEN e.code ELSE @]
    BY <1>3, <1>4
  <2>2. e.code \in Keys
    BY <1>4 DEF IsEvent
  <2>3. Toggle(e.code, s.key) \in SUBSET Keys
    BY <1>2, <2>2 DEF DevType, Toggle
  <2> QED  BY <1>2, <1>4, <2>1, <2>2, <2>3 DEF DevType
<1>5. CASE e.type = "EV_ABS"
  <2>1. Updated(d, r, e) = [s EXCEPT !.abs = AbsFilter(@, Fuzz[d], e.value)]
    BY <1>3, <1>5
  <2>2. e.value \in Int /\ Fuzz[d] \in Nat /\ s.abs \in Int
    BY <1>2, <1>5, DeviceAssumption DEF IsEvent, DevType
  <2>3. AbsFilter(s.abs, Fuzz[d], e.value) \in Int
    BY <2>2 DEF AbsFilter, Near, Half, Quarter
  <2> QED  BY <1>2, <1>5, <2>1, <2>3 DEF DevType
<1>6. CASE e.type = "EV_LED"
  <2>1. Updated(d, r, e) = [s EXCEPT !.led = Toggle(e.code, @)]
    BY <1>3, <1>6
  <2>2. e.code \in Leds
    BY <1>6 DEF IsEvent
  <2>3. Toggle(e.code, s.led) \in SUBSET Leds
    BY <1>2, <2>2 DEF DevType, Toggle
  <2> QED  BY <1>2, <1>6, <2>1, <2>3 DEF DevType
<1>7. CASE ~ (e.type = "EV_KEY" /\ e.value # 2) /\ e.type # "EV_ABS" /\ e.type # "EV_LED"
  BY <1>2, <1>3, <1>7
<1> QED  BY <1>4, <1>5, <1>6, <1>7

(* input_event keeps the type of the device, and its keys unless the event  *)
(* is a key.                                                                *)
LEMMA InputEventType ==
  ASSUME NEW d \in Devices, NEW acc, acc.dev \in DevType, NEW e, IsEvent(e)
  PROVE  /\ input_event(d, acc, e).dev \in DevType
         /\ e.type # "EV_KEY" => input_event(d, acc, e).dev.key = acc.dev.key
  BY UpdatedType DEF input_event

(* The events a driver, the timer and the lights make.                      *)
LEMMA Events ==
  /\ IsEvent(SynReport) /\ SynReport.type = "EV_SYN"
  /\ \A k \in Keys, v \in {0, 1, 2} : IsEvent(Event("EV_KEY", k, v))
  /\ \A p \in Int : IsEvent(Event("EV_ABS", "ABS_X", p))
  /\ \A n \in {0, 1} : IsEvent(Event("EV_REL", "REL_X", n))
  /\ IsEvent(Event("EV_MSC", "MSC_RAW", 1)) /\ IsEvent(Event("EV_FF", "FF_RUMBLE", 1))
  /\ \A l \in Leds : \A leds : IsEvent(Event("EV_LED", l, Bit(l, leds)))
  BY DEF IsEvent, Event, SynReport, Bit

(* A packet, the event and its EV_SYN, does the same.                       *)
LEMMA ReportedType ==
  ASSUME NEW d \in Devices, NEW r \in DevType, NEW e, IsEvent(e)
  PROVE  /\ Reported(d, r, e).dev \in DevType
         /\ e.type # "EV_KEY" => Reported(d, r, e).dev.key = r.key
<1>1. Fresh(r).dev = r
  BY DEF Fresh
<1>2. PICK one : one = input_event(d, Fresh(r), e)
  OBVIOUS
<1>3. one.dev \in DevType /\ (e.type # "EV_KEY" => one.dev.key = r.key)
  BY <1>1, <1>2, InputEventType
<1> QED  BY <1>2, <1>3, Events, InputEventType DEF Reported

(* A light is an event of the device like any other, but of no key.         *)
LEMMA LedEventsType ==
  ASSUME NEW d \in Devices, NEW r \in DevType, NEW leds
  PROVE  LedEvents(d, r, leds).dev \in DevType /\ LedEvents(d, r, leds).dev.key = r.key
<1> DEFINE lit(acc, l) == input_event(d, acc, Event("EV_LED", l, Bit(l, leds)))
<1>1. ASSUME NEW acc, NEW l \in Leds, acc.dev \in DevType, acc.dev.key = r.key
      PROVE  lit(acc, l).dev \in DevType /\ lit(acc, l).dev.key = r.key
  <2>1. IsEvent(Event("EV_LED", l, Bit(l, leds))) /\ Event("EV_LED", l, Bit(l, leds)).type # "EV_KEY"
    BY Events DEF Event
  <2> QED  BY <1>1, <2>1, InputEventType
<1>2. Fresh(r).dev = r /\ "scroll" \in Leds /\ "num" \in Leds /\ "caps" \in Leds
  BY DEF Fresh, Leds
<1>3. LedEvents(d, r, leds) =
        input_event(d, lit(lit(lit(Fresh(r), "scroll"), "num"), "caps"), SynReport)
  BY DEF LedEvents
<1> HIDE DEF lit
<1>4. PICK a : a = lit(lit(lit(Fresh(r), "scroll"), "num"), "caps")
  OBVIOUS
<1>5. a.dev \in DevType /\ a.dev.key = r.key
  <2>1. PICK x : x = lit(Fresh(r), "scroll")
    OBVIOUS
  <2>2. x.dev \in DevType /\ x.dev.key = r.key
    BY <1>1, <1>2, <2>1
  <2>3. PICK y : y = lit(x, "num")
    OBVIOUS
  <2>4. y.dev \in DevType /\ y.dev.key = r.key
    BY <1>1, <1>2, <2>2, <2>3
  <2> QED  BY <1>1, <1>2, <1>4, <2>1, <2>3, <2>4
<1>6. input_event(d, a, SynReport).dev \in DevType
      /\ input_event(d, a, SynReport).dev.key = a.dev.key
  BY <1>5, Events, InputEventType
<1> QED  BY <1>3, <1>4, <1>5, <1>6

(* kbd_bh, over all keyboards: the loop changes lights only.  VtShape says  *)
(* that vt is an array of structures with the members keyboard and fg.      *)
VtShape(w) ==
  /\ w = [v \in VT |-> w[v]]
  /\ \A v \in VT : "keyboard" \in DOMAIN w[v] /\ "fg" \in DOMAIN w[v] /\ w[v].fg \in Consoles

LightsOnly(acc) ==
  /\ acc.dev \in [Devices -> DevType] /\ \A d \in Devices : acc.dev[d].key = dev[d].key
  /\ VtShape(acc.vt) /\ \A v \in VT : acc.vt[v].keyboard = vt[v].keyboard

(* kbd_bh on one handle changes lights, of the device and of the VT.        *)
LEMMA ShowLedsOnly ==
  ASSUME NEW acc, LightsOnly(acc), NEW i
  PROVE  LightsOnly(ShowLeds(acc, i))
<1>1. PICK v, d : v = private[i] /\ d = handle[i].dev
  OBVIOUS
<1>2. PICK seen, leds : seen = LedEvents(d, acc.dev[d], leds) /\ leds = getleds(v)
  OBVIOUS
<1>3. CASE ShowLeds(acc, i) = acc
  BY <1>3
<1>4. CASE ShowLeds(acc, i) # acc
  <2>1. PICK r : r = ShowLeds(acc, i)
    OBVIOUS
  <2>2. r.dev = [acc.dev EXCEPT ![d] = seen.dev] /\ r.vt = [acc.vt EXCEPT ![v].vt_ledstate = leds]
    BY <1>1, <1>2, <1>4, <2>1 DEF ShowLeds
  <2>3. d \in Devices => seen.dev \in DevType /\ seen.dev.key = acc.dev[d].key
    BY <1>2, LedEventsType DEF LightsOnly
  <2>4. r.dev \in [Devices -> DevType] /\ \A e \in Devices : r.dev[e].key = dev[e].key
    BY <2>2, <2>3 DEF LightsOnly
  <2>5. VtShape(r.vt) /\ \A w \in VT : r.vt[w].keyboard = vt[w].keyboard
    <3>1. PICK old, new : old = acc.vt /\ new = r.vt
      OBVIOUS
    <3>2. new = [old EXCEPT ![v].vt_ledstate = leds] /\ VtShape(old)
      BY <2>2, <3>1 DEF LightsOnly
    <3>3. VtShape(new) /\ \A w \in VT : new[w].keyboard = old[w].keyboard
      BY <3>2 DEF VtShape
    <3> QED  BY <3>1, <3>3 DEF LightsOnly
  <2> QED  BY <2>1, <2>4, <2>5 DEF LightsOnly
<1> QED  BY <1>3, <1>4

(* The loop itself: its states after n handles exist, for every n.          *)
LEMMA AllLedsRun ==
  ASSUME NEW mine, Len(mine) \in Nat
  PROVE  \E f : /\ \A n \in 0 .. Len(mine) :
                     f[n] = IF n = 0 THEN [dev |-> dev, vt |-> vt, led |-> FALSE]
                            ELSE ShowLeds(f[n - 1], mine[n])
                /\ AllLeds(mine) = f[Len(mine)]
<1>1. PICK N, base : N \in Nat /\ N = Len(mine) /\ base = [dev |-> dev, vt |-> vt, led |-> FALSE]
  OBVIOUS
<1> DEFINE Good(f, k) == f = [n \in 0 .. k |-> IF n = 0 THEN base ELSE ShowLeds(f[n - 1], mine[n])]
           S == {k \in Nat : \E f : Good(f, k)}
<1>2. 0 \in S
  <2> Good([n \in 0 .. 0 |-> base], 0)  OBVIOUS
  <2> QED  OBVIOUS
<1>3. ASSUME NEW k \in Nat, k \in S PROVE k + 1 \in S
  <2>1. PICK f : Good(f, k)
    BY <1>3
  <2> DEFINE g == [n \in 0 .. k + 1 |-> IF n <= k THEN f[n] ELSE ShowLeds(f[k], mine[n])]
  <2>2. \A n \in 0 .. k + 1 : g[n] = IF n = 0 THEN base ELSE ShowLeds(g[n - 1], mine[n])
    <3> SUFFICES ASSUME NEW n \in 0 .. k + 1
                 PROVE  g[n] = IF n = 0 THEN base ELSE ShowLeds(g[n - 1], mine[n])
      OBVIOUS
    <3>1. CASE n = 0
      BY <2>1, <3>1
    <3>2. CASE n # 0 /\ n <= k
      <4>1. n - 1 \in 0 .. k /\ n - 1 \in 0 .. k + 1 /\ n \in 0 .. k
        BY <3>2
      <4>2. f[n] = ShowLeds(f[n - 1], mine[n])
        BY <2>1, <3>2, <4>1
      <4>3. g[n] = f[n] /\ g[n - 1] = f[n - 1]
        BY <3>2, <4>1
      <4> QED  BY <3>2, <4>2, <4>3
    <3>3. CASE n = k + 1
      <4>1. k \in 0 .. k + 1
        OBVIOUS
      <4>2. g[k] = f[k]
        BY <4>1
      <4> QED  BY <3>3, <4>2
    <3> QED  BY <3>1, <3>2, <3>3
  <2>3. Good(g, k + 1)
    BY <2>2
  <2> HIDE DEF g
  <2> QED  BY <2>3
<1>4. PICK f : Good(f, N)
  <2> HIDE DEF S
  <2>1. N \in S
    BY <1>1, <1>2, <1>3, Inductive
  <2> QED  BY <2>1 DEF S
<1> DEFINE F == CHOOSE h : h = [n \in 0 .. N |-> IF n = 0 THEN base ELSE ShowLeds(h[n - 1], mine[n])]
<1>5. F = [n \in 0 .. N |-> IF n = 0 THEN base ELSE ShowLeds(F[n - 1], mine[n])]
  BY <1>4
<1>6. AllLeds(mine) = F[N]
  BY <1>1 DEF AllLeds
<1> HIDE DEF F
<1> QED  BY <1>1, <1>5, <1>6

(* The whole loop of kbd_bh changes nothing but lights.                     *)
LEMMA AllLedsOnly ==
  ASSUME DevInv, VtShape(vt), NEW mine, Len(mine) \in Nat
  PROVE  LightsOnly(AllLeds(mine))
<1>0. PICK base : base = [dev |-> dev, vt |-> vt, led |-> FALSE]
  OBVIOUS
<1>1. PICK f : /\ \A n \in 0 .. Len(mine) :
                    f[n] = IF n = 0 THEN base ELSE ShowLeds(f[n - 1], mine[n])
               /\ AllLeds(mine) = f[Len(mine)]
  BY <1>0, AllLedsRun
<1> DEFINE S == {n \in Nat : n <= Len(mine) => LightsOnly(f[n])}
<1>2. 0 \in S
  <2>1. 0 \in 0 .. Len(mine)
    OBVIOUS
  <2>2. f[0] = base
    BY <1>1, <2>1
  <2>3. LightsOnly(f[0])
    BY <1>0, <2>2 DEF LightsOnly, DevInv
  <2> QED  BY <2>3
<1>3. ASSUME NEW n \in Nat, n \in S PROVE n + 1 \in S
  <2> SUFFICES ASSUME n + 1 <= Len(mine) PROVE LightsOnly(f[n + 1])
    OBVIOUS
  <2>1. LightsOnly(f[n])
    BY <1>3
  <2>2. f[n + 1] = ShowLeds(f[n], mine[n + 1])
    BY <1>1
  <2> QED  BY <2>1, <2>2, ShowLedsOnly
<1> HIDE DEF S
<1>4. Len(mine) \in S
  BY <1>2, <1>3, Inductive
<1> QED  BY <1>1, <1>4 DEF S

-----------------------------------------------------------------------------
(* Binding.                                                                 *)

Bindings ==
  /\ VtShape(vt) /\ \A v \in VT : vt[v].keyboard \in HandleIds \cup {NULL}
  /\ private \in [HandleIds -> VT \cup {NULL}]
  /\ \A v \in VT : vt[v].keyboard # NULL => private[vt[v].keyboard] = v
  /\ \A i \in HandleIds : private[i] # NULL => handle[i] # NULL /\ handle[i].handler = kbd

BindInv == RegInv /\ DevInv /\ Bindings

SameKeys == \A d \in Devices : dev'[d].key = dev[d].key

(* The VTs are named by values other than NULL, and admin_vt is one of      *)
(* them.                                                                    *)
LEMMA VtNames == NULL \notin VT /\ admin_vt \in VT /\ Vts \in Seq(VT)
<1>1. Vts \in Seq(VT) /\ Vts # <<>> /\ NULL \notin VT
  BY VtAssumption DEF VT
<1>2. 1 \in DOMAIN Vts
  BY <1>1
<1> QED  BY <1>1, <1>2 DEF admin_vt

(* vt_map_input and kbd_refresh_leds: which keyboards a connection changes. *)
LEMMA RefreshOnly ==
  ASSUME DevInv, NEW d \in Devices, NEW b, VtShape(b.vt)
  PROVE  LET r == RefreshLeds(d, b) IN
         /\ r.dev \in [Devices -> DevType] /\ \A e \in Devices : r.dev[e].key = dev[e].key
         /\ VtShape(r.vt) /\ \A v \in VT : r.vt[v].keyboard = b.vt[v].keyboard
<1>1. PICK r : r = RefreshLeds(d, b)
  OBVIOUS
<1>2. PICK leds, seen : leds = getleds(b.to) /\ seen = LedEvents(d, dev[d], leds)
  OBVIOUS
<1>3. \/ r.dev = dev /\ r.vt = b.vt
      \/ /\ r.dev = [dev EXCEPT ![d] = seen.dev]
         /\ r.vt = [b.vt EXCEPT ![b.to].vt_ledstate = leds]
  BY <1>1, <1>2 DEF RefreshLeds
<1>4. seen.dev \in DevType /\ seen.dev.key = dev[d].key
  BY <1>2, LedEventsType DEF DevInv
<1>5. r.dev \in [Devices -> DevType] /\ \A e \in Devices : r.dev[e].key = dev[e].key
  BY <1>3, <1>4 DEF DevInv
<1>6. VtShape(r.vt) /\ \A v \in VT : r.vt[v].keyboard = b.vt[v].keyboard
  <2>1. PICK old, to : old = b.vt /\ to = b.to
    OBVIOUS
  <2>2. PICK new : new = r.vt
    OBVIOUS
  <2>3. VtShape(old) /\ (new = old \/ new = [old EXCEPT ![to].vt_ledstate = leds])
    BY <1>3, <2>1, <2>2
  <2>4. VtShape(new) /\ \A v \in VT : new[v].keyboard = old[v].keyboard
    <3>1. CASE new = old
      BY <2>3, <3>1
    <3>2. CASE new = [old EXCEPT ![to].vt_ledstate = leds]
      BY <2>3, <3>2 DEF VtShape
    <3> QED  BY <2>3, <3>1, <3>2
  <2> QED  BY <2>1, <2>2, <2>4
<1> QED  BY <1>1, <1>5, <1>6

(* kbd_connect binds a keyboard to a VT that had none, and no other VT      *)
(* changes its keyboard.                                                    *)
LEMMA BoundOnly ==
  ASSUME VtShape(vt), NEW d \in Devices, NEW i
  PROVE  LET b == Bound(d, i) IN
         /\ VtShape(b.vt) /\ b.to \in VT \cup {NULL}
         /\ \A v \in VT : \/ b.vt[v].keyboard = vt[v].keyboard
                          \/ b.to = v /\ vt[v].keyboard = NULL /\ b.vt[v].keyboard = i
<1>1. PICK b : b = Bound(d, i)
  OBVIOUS
<1>2. CASE HasKeys(d) /\ FreeVts # {}
  <2>1. FreeVts \in SUBSET Nat
    BY VtNames DEF FreeVts
  <2>2. FirstFree \in FreeVts
    BY <1>2, <2>1, Smallest DEF FirstFree
  <2>3. PICK v : v = Vts[FirstFree]
    OBVIOUS
  <2>4. v \in VT /\ vt[v].keyboard = NULL
    BY <2>2, <2>3, VtNames DEF FreeVts
  <2>5. PICK r : r = [vt[v] EXCEPT !.keyboard = i]
    OBVIOUS
  <2>6. PICK w : w = IF HasSound(d) THEN WithBeeper(r, i) ELSE r
    OBVIOUS
  <2>7. "keyboard" \in DOMAIN w /\ "fg" \in DOMAIN w /\ w.fg \in Consoles /\ w.keyboard = i
    BY <2>4, <2>5, <2>6 DEF WithBeeper, VtShape
  <2>8. b = [vt |-> [vt EXCEPT ![v] = w], to |-> v]
    BY <1>1, <1>2, <2>3, <2>5, <2>6 DEF Bound
  <2>9. VtShape(b.vt) /\ \A u \in VT : u # v => b.vt[u].keyboard = vt[u].keyboard
    BY <2>7, <2>8 DEF VtShape
  <2>10. b.to = v /\ b.vt[v].keyboard = i
    BY <2>4, <2>7, <2>8 DEF VtShape
  <2> QED  BY <1>1, <2>4, <2>9, <2>10
<1>3. CASE ~ (HasKeys(d) /\ FreeVts # {}) /\ ~ HasKeys(d) /\ HasSound(d) /\ vt[admin_vt].beeper = NULL
  <2>1. b = [vt |-> [vt EXCEPT ![admin_vt] = WithBeeper(@, i)], to |-> admin_vt]
    BY <1>1, <1>3 DEF Bound
  <2>2. VtShape(b.vt) /\ \A v \in VT : b.vt[v].keyboard = vt[v].keyboard
    BY <2>1 DEF VtShape, WithBeeper
  <2> QED  BY <1>1, <2>1, <2>2, VtNames
<1>4. CASE ~ (HasKeys(d) /\ FreeVts # {}) /\ ~ (~ HasKeys(d) /\ HasSound(d) /\ vt[admin_vt].beeper = NULL)
  <2>1. b = [vt |-> vt, to |-> NULL]
    BY <1>1, <1>4 DEF Bound
  <2> QED  BY <1>1, <2>1
<1> QED  BY <1>2, <1>3, <1>4

(* A connection keeps the bindings.                                         *)
LEMMA ConnectBinds ==
  ASSUME RegTypes, DevInv, Bindings, NEW d \in Devices, NEW i \in HandleIds, handle[i] = NULL,
         kbd_connect(d, i)
  PROVE  DevInv' /\ SameKeys /\ Bindings'
<1>1. PICK b : b = Bound(d, i)
  OBVIOUS
<1>2. PICK shown : shown = RefreshLeds(d, b)
  OBVIOUS
<1>3. /\ handle' = [handle EXCEPT ![i] = NewHandle(d, kbd, 1)]
      /\ private' = [private EXCEPT ![i] = b.to]
      /\ dev' = shown.dev /\ vt' = shown.vt
  BY <1>1, <1>2 DEF kbd_connect
<1>4. /\ VtShape(b.vt) /\ b.to \in VT \cup {NULL}
      /\ \A v \in VT : \/ b.vt[v].keyboard = vt[v].keyboard
                       \/ b.to = v /\ vt[v].keyboard = NULL /\ b.vt[v].keyboard = i
  BY <1>1, BoundOnly DEF Bindings
<1>5. /\ dev' \in [Devices -> DevType] /\ \A e \in Devices : dev'[e].key = dev[e].key
      /\ VtShape(vt') /\ \A v \in VT : vt'[v].keyboard = b.vt[v].keyboard
  BY <1>2, <1>3, <1>4, RefreshOnly
<1>6. NewHandle(d, kbd, 1) # NULL /\ NewHandle(d, kbd, 1).handler = kbd
  BY NullAssumption, VtAssumption DEF NewHandle
<1>7. private[i] = NULL
  BY DEF Bindings
<1>8. /\ private' \in [HandleIds -> VT \cup {NULL}] /\ private'[i] = b.to
      /\ \A j \in HandleIds : j # i => private'[j] = private[j] /\ handle'[j] = handle[j]
      /\ handle'[i] = NewHandle(d, kbd, 1)
  BY <1>3, <1>4 DEF Bindings, RegTypes
<1>9. \A j \in HandleIds : private'[j] # NULL => handle'[j] # NULL /\ handle'[j].handler = kbd
  BY <1>6, <1>8 DEF Bindings
<1>10. ASSUME NEW v \in VT
       PROVE  /\ vt'[v].keyboard \in HandleIds \cup {NULL}
              /\ vt'[v].keyboard # NULL => private'[vt'[v].keyboard] = v
  <2>1. CASE vt'[v].keyboard = vt[v].keyboard
    <3>1. vt[v].keyboard # NULL => vt[v].keyboard \in HandleIds /\ vt[v].keyboard # i
      BY <1>7, VtNames DEF Bindings
    <3> QED  BY <1>8, <2>1, <3>1 DEF Bindings
  <2>2. CASE b.to = v /\ vt'[v].keyboard = i
    BY <1>8, <2>2
  <2> QED  BY <1>4, <1>5, <2>1, <2>2
<1>11. VtShape(vt)'
  BY <1>5 DEF VtShape
<1> QED  BY <1>5, <1>8, <1>9, <1>10, <1>11 DEF DevInv, SameKeys, Bindings

(* A step of either walk: what the handler is told of the connection.       *)
LEMMA WalkBinds ==
  ASSUME RegTypes, Members, DevInv, Bindings, NEW d \in Devices, NEW h \in Handlers, NEW freed,
         WalkStep(d, h, freed)
  PROVE  DevInv' /\ SameKeys /\ Bindings'
<1>1. CASE UNCHANGED <<handle, links, dev, private, vt, tasklet>>
  BY <1>1 DEF DevInv, SameKeys, Bindings, VtShape
<1>2. CASE ~ UNCHANGED <<handle, links, dev, private, vt, tasklet>>
  <2>1. PICK i \in HandleIds :
          /\ handle[i] = NULL
          /\ IF h = kbd THEN kbd_connect(d, i)
             ELSE /\ handle' = [handle EXCEPT ![i] = NewHandle(d, h, 0)]
                  /\ UNCHANGED <<dev, private, vt, tasklet>>
    BY <1>2 DEF WalkStep, Connect
  <2>2. CASE h = kbd
    BY <2>1, <2>2, ConnectBinds
  <2>3. CASE h # kbd
    <3>1. \A j \in HandleIds : j # i => handle'[j] = handle[j]
      BY <2>1, <2>3 DEF RegTypes
    <3>2. private[i] = NULL
      BY <2>1 DEF Bindings
    <3> QED  BY <2>1, <2>3, <3>1, <3>2 DEF DevInv, SameKeys, Bindings, VtShape
  <2> QED  BY <2>2, <2>3
<1> QED  BY <1>1, <1>2

(* kbd_disconnect and the freeing of the handles gone.                      *)
LEMMA ReleaseDevices ==
  ASSUME DevInv, NEW gone, Release(gone)
  PROVE  DevInv' /\ SameKeys
<1>1. PICK quiet \in [Devices -> BOOLEAN] : \A d \in Devices : quiet[d] = (dpc'[d] = "del")
  <2> DEFINE q == [d \in Devices |-> dpc'[d] = "del"]
  <2>1. q \in [Devices -> BOOLEAN] /\ \A d \in Devices : q[d] = (dpc'[d] = "del")
    OBVIOUS
  <2> HIDE DEF q
  <2> QED  BY <2>1
<1>2. dev' = [d \in Devices |->
        [dev[d] EXCEPT !.grab = IF @ \in gone THEN NULL ELSE @,
                       !.repeat_key = IF dpc'[d] = "del" THEN NULL ELSE @]]
  BY DEF Release
<1>3. ASSUME NEW d \in Devices PROVE dev'[d] \in DevType /\ dev'[d].key = dev[d].key
  <2>1. PICK r, p : r = dev[d] /\ p = (dpc'[d] = "del")
    OBVIOUS
  <2>2. r \in DevType
    BY <2>1 DEF DevInv
  <2>3. PICK g : g = IF r.grab \in gone THEN NULL ELSE r.grab
    OBVIOUS
  <2>4. PICK k : k = IF p THEN NULL ELSE r.repeat_key
    OBVIOUS
  <2>5. g \in HandleIds \cup {NULL} /\ k \in Keys \cup {NULL}
    BY <2>2, <2>3, <2>4 DEF DevType
  <2>6. dev'[d] = [r EXCEPT !.grab = g, !.repeat_key = k]
    BY <1>2, <2>1, <2>3, <2>4 DEF DevInv
  <2> QED  BY <2>1, <2>2, <2>5, <2>6 DEF DevType
<1>4. dev' = [d \in Devices |-> dev'[d]]
  BY <1>2
<1> QED  BY <1>3, <1>4 DEF DevInv, SameKeys

(* input_unregister_device with kbd_disconnect keeps the bindings.          *)
LEMMA UnplugBinds ==
  ASSUME BindInv, NEW d \in Devices, UnregisterDevice(d)
  PROVE  DevInv' /\ SameKeys /\ Bindings'
<1>1. PICK gone : gone = Range(HandlesOf(d))
  OBVIOUS
<1>2. Release(gone) /\ kbd_disconnect(gone)
  BY <1>1 DEF UnregisterDevice
<1>3. RegTypes /\ DevInv /\ Bindings
  BY DEF BindInv, RegInv
<1>4. /\ private' = [i \in HandleIds |-> IF i \in gone THEN NULL ELSE private[i]]
      /\ handle' = [i \in HandleIds |-> IF i \in gone THEN NULL ELSE handle[i]]
      /\ vt' = [v \in VT |-> [vt[v] EXCEPT !.keyboard =
                                IF @ \in gone /\ private[@] = v THEN NULL ELSE @]]
  BY <1>2 DEF Release, kbd_disconnect
<1>5. ASSUME NEW v \in VT
      PROVE  /\ "keyboard" \in DOMAIN vt'[v] /\ "fg" \in DOMAIN vt'[v] /\ vt'[v].fg \in Consoles
             /\ vt'[v].keyboard = NULL \/ (vt'[v].keyboard = vt[v].keyboard /\ vt'[v].keyboard \notin gone)
  <2>1. PICK r, p : r = vt[v] /\ p = private[r.keyboard]
    OBVIOUS
  <2>2. vt'[v] = [r EXCEPT !.keyboard = IF @ \in gone /\ p = v THEN NULL ELSE @]
    BY <1>4, <2>1
  <2>3. /\ "keyboard" \in DOMAIN r /\ "fg" \in DOMAIN r /\ r.fg \in Consoles
        /\ r.keyboard # NULL => p = v
    BY <1>3, <2>1 DEF Bindings, VtShape
  <2> QED  BY <2>1, <2>2, <2>3
<1>6. private' \in [HandleIds -> VT \cup {NULL}]
  BY <1>3, <1>4 DEF Bindings
<1>7. \A i \in HandleIds : i \notin gone => private'[i] = private[i] /\ handle'[i] = handle[i]
  BY <1>4
<1>8. \A i \in HandleIds : i \in gone => private'[i] = NULL
  BY <1>4
<1>9. \A i \in HandleIds : private'[i] # NULL => handle'[i] # NULL /\ handle'[i].handler = kbd
  BY <1>3, <1>7, <1>8 DEF Bindings
<1>10. ASSUME NEW v \in VT
       PROVE  /\ vt'[v].keyboard \in HandleIds \cup {NULL}
              /\ vt'[v].keyboard # NULL => private'[vt'[v].keyboard] = v
  BY <1>3, <1>5, <1>7 DEF Bindings
<1>11. VtShape(vt)'
  <2>1. vt' = [v \in VT |-> vt'[v]]
    BY <1>4
  <2> QED  BY <1>5, <2>1 DEF VtShape
<1> QED  BY <1>2, <1>3, <1>6, <1>9, <1>10, <1>11, ReleaseDevices DEF Bindings

(* Another handler leaves: its handles are no keyboards of a VT.            *)
LEMMA HandlerGoneBinds ==
  ASSUME BindInv, NEW h \in Handlers, UnregisterHandler(h)
  PROVE  DevInv' /\ SameKeys /\ Bindings'
<1>1. PICK gone : gone = Range(HandlesOfHandler(h))
  OBVIOUS
<1>2. h # kbd /\ Release(gone) /\ UNCHANGED <<vt, private>>
  BY <1>1 DEF UnregisterHandler
<1>3. RegTypes /\ DevInv /\ Bindings
  BY DEF BindInv, RegInv
<1>4. gone = {i \in Range(links) : handle[i].handler = h}
  BY <1>1, <1>3, HandlesSets DEF RegTypes
<1>5. \A i \in HandleIds : private[i] # NULL => handle'[i] = handle[i]
  BY <1>2, <1>3, <1>4 DEF Bindings, Release
<1> QED  BY <1>2, <1>3, <1>5, ReleaseDevices DEF Bindings, VtShape

(* Requests: write_kbd_phys binds a keyboard anew, the others keep them.    *)
LEMMA RebindBinds ==
  ASSUME BindInv, NEW v \in VT, NEW d \in Devices, NEW add \in BOOLEAN, write_kbd_phys(v, d, add)
  PROVE  Bindings'
<1>1. RegTypes /\ Members /\ Bindings
  BY DEF BindInv, RegInv
<1>2. PICK list : list = HandlesOf(d)
  OBVIOUS
<1>3. PICK i : i = Head(Mine(list))
  OBVIOUS
<1>4. i \in Range(links) /\ handle[i].handler = kbd
  <2>1. list \in Seq(HandleIds) /\ Range(list) \subseteq Range(links)
    BY <1>1, <1>2, HandlesSets DEF RegTypes
  <2> DEFINE places == {n \in DOMAIN list : handle[list[n]].handler = kbd}
  <2>2. places \in SUBSET (DOMAIN list) /\ Mine(list) = Kept(list, places)
    BY DEF Mine
  <2>3. \A p \in places : list[p] \in Range(list) /\ handle[list[p]].handler = kbd
    BY DEF Range
  <2> HIDE DEF places
  <2>4. Mine(list) \in Seq(HandleIds) /\ Range(Mine(list)) = {list[p] : p \in places}
    BY <2>1, <2>2, KeptList
  <2>5. Mine(list) # <<>>
    BY <1>2 DEF write_kbd_phys
  <2>6. i \in Range(Mine(list))
    BY <1>3, <2>4, <2>5 DEF Range
  <2> QED  BY <2>1, <2>3, <2>4, <2>6
<1>5. i \in HandleIds /\ handle[i] # NULL
  BY <1>1, <1>4 DEF Members, RegTypes, Range
<1>6. PICK left : left = IF private[i] = NULL THEN vt ELSE [vt EXCEPT ![private[i]].keyboard = NULL]
  OBVIOUS
<1>7. PICK old : old = left[v].keyboard
  OBVIOUS
<1>8. /\ VtShape(left)
      /\ \A u \in VT : /\ left[u].keyboard \in HandleIds \cup {NULL}
                       /\ left[u].keyboard # NULL => private[left[u].keyboard] = u
                       /\ left[u].keyboard # i
  <2>1. CASE private[i] = NULL
    BY <1>1, <1>5, <1>6, <2>1, VtNames, NullAssumption DEF Bindings
  <2>2. CASE private[i] # NULL
    <3>1. private[i] \in VT /\ left = [vt EXCEPT ![private[i]].keyboard = NULL]
      BY <1>1, <1>5, <1>6, <2>2 DEF Bindings
    <3>2. PICK p : p = private[i]
      OBVIOUS
    <3>3. VtShape(left) /\ left[p].keyboard = NULL
          /\ \A u \in VT : u # p => left[u].keyboard = vt[u].keyboard
      BY <1>1, <3>1, <3>2 DEF Bindings, VtShape
    <3>4. \A u \in VT : vt[u].keyboard = i => u = p
      BY <1>1, <1>5, <3>2, NullAssumption DEF Bindings
    <3> QED  BY <1>1, <1>5, <3>1, <3>2, <3>3, <3>4, NullAssumption DEF Bindings
  <2> QED  BY <2>1, <2>2
<1>9. handle' = handle
  BY DEF write_kbd_phys, NoCore, coreVars
<1>10. CASE add
  <2>1. vt' = left /\ private' = [private EXCEPT ![i] = v]
    BY <1>2, <1>3, <1>6, <1>10 DEF write_kbd_phys
  <2>2. private' \in [HandleIds -> VT \cup {NULL}] /\ private'[i] = v
        /\ \A j \in HandleIds : j # i => private'[j] = private[j]
    BY <1>1, <1>5, <2>1 DEF Bindings
  <2>3. VtShape(vt)'
    BY <1>8, <2>1 DEF VtShape
  <2> QED  BY <1>1, <1>4, <1>5, <1>8, <1>9, <2>1, <2>2, <2>3 DEF Bindings
<1>11. CASE ~ add
  <2>1. /\ vt' = [left EXCEPT ![v].keyboard = i]
        /\ private' = [j \in HandleIds |-> IF j = i THEN v ELSE IF j = old THEN NULL ELSE private[j]]
    BY <1>2, <1>3, <1>6, <1>7, <1>11 DEF write_kbd_phys
  <2>2. VtShape(vt') /\ vt'[v].keyboard = i /\ \A u \in VT : u # v => vt'[u].keyboard = left[u].keyboard
    BY <1>8, <2>1 DEF VtShape
  <2>3. private' \in [HandleIds -> VT \cup {NULL}]
    BY <1>1, <2>1 DEF Bindings
  <2>4. ASSUME NEW j \in HandleIds, private'[j] # NULL
        PROVE  handle'[j] # NULL /\ handle'[j].handler = kbd
    BY <1>1, <1>4, <1>5, <1>9, <2>1, <2>4 DEF Bindings
  <2>5. ASSUME NEW u \in VT
        PROVE  /\ vt'[u].keyboard \in HandleIds \cup {NULL}
               /\ vt'[u].keyboard # NULL => private'[vt'[u].keyboard] = u
    <3>1. CASE u = v
      BY <1>5, <2>1, <2>2, <3>1
    <3>2. CASE u # v
      <4>1. PICK j : j = left[u].keyboard
        OBVIOUS
      <4>2. vt'[u].keyboard = j /\ j \in HandleIds \cup {NULL} /\ j # i /\ (j # NULL => private[j] = u)
        BY <1>8, <2>2, <3>2, <4>1
      <4>3. j # NULL => j # old
        BY <1>7, <1>8, <3>2, <4>2
      <4> QED  BY <2>1, <4>2, <4>3
    <3> QED  BY <3>1, <3>2
  <2>6. VtShape(vt)'
    BY <2>2 DEF VtShape
  <2> QED  BY <2>3, <2>4, <2>5, <2>6 DEF Bindings
<1> QED  BY <1>10, <1>11

(* What keeps every VT's keyboard.                                          *)
LEMMA SameBindings ==
  ASSUME Bindings, UNCHANGED <<handle, private>>, VtShape(vt'),
         \A v \in VT : vt'[v].keyboard = vt[v].keyboard
  PROVE  Bindings'
<1>1. VtShape(vt)'
  BY DEF VtShape
<1> QED  BY <1>1 DEF Bindings

(* The requests on a VT (sounds, the rate, the rebinding through /proc)     *)
(* keep the bindings.                                                       *)
LEMMA VtStepBinds ==
  ASSUME BindInv, NEW v \in VT, VtStep(v)
  PROVE  Bindings'
<1>1. Bindings /\ VtShape(vt)
  BY DEF BindInv, Bindings
<1>2. CASE kd_mksound(v)
  <2>1. UNCHANGED <<handle, private>>
    BY <1>2 DEF kd_mksound, NoCore, coreVars
  <2>2. vt' = vt \/ \E p, ticks : vt' = [vt EXCEPT ![p].beepArmed = ticks]
    BY <1>2 DEF kd_mksound
  <2>3. CASE vt' = vt
    BY <1>1, <2>1, <2>3, SameBindings
  <2>4. CASE vt' # vt
    <3>1. PICK p, ticks : vt' = [vt EXCEPT ![p].beepArmed = ticks]
      BY <2>2, <2>4
    <3>2. VtShape(vt') /\ \A u \in VT : vt'[u].keyboard = vt[u].keyboard
      BY <1>1, <3>1 DEF VtShape
    <3> QED  BY <1>1, <2>1, <3>2, SameBindings
  <2> QED  BY <2>3, <2>4
<1>3. CASE kd_nosound(v)
  <2>1. UNCHANGED <<handle, private>> /\ vt' = [vt EXCEPT ![v].beepArmed = FALSE]
    BY <1>3 DEF kd_nosound, NoCore, coreVars
  <2>2. VtShape(vt') /\ \A u \in VT : vt'[u].keyboard = vt[u].keyboard
    BY <1>1, <2>1 DEF VtShape
  <2> QED  BY <1>1, <2>1, <2>2, SameBindings
<1>4. CASE KDKBDREP(v)
  <2>1. UNCHANGED <<handle, private, vt>>
    BY <1>4 DEF KDKBDREP, NoCore, coreVars
  <2> QED  BY <1>1, <2>1, SameBindings
<1>5. CASE \E d \in Devices, add \in BOOLEAN : write_kbd_phys(v, d, add)
  BY <1>5, RebindBinds
<1> QED  BY <1>2, <1>3, <1>4, <1>5 DEF VtStep

(* The requests on a console (switch, modes, lights) keep the bindings.     *)
LEMMA ConsoleStepBinds ==
  ASSUME BindInv, NEW c \in Consoles, ConsoleStep(c)
  PROVE  Bindings'
<1>1. Bindings /\ VtShape(vt)
  BY DEF BindInv, Bindings
<1>2. UNCHANGED <<handle, private>>
  BY DEF ConsoleStep, SwitchScreen, KDSKBMODE, SetModeFlag, KDSKBLED, KDSETLED, NoCore, coreVars
<1>3. \/ vt' = vt
      \/ \E p : vt' = [vt EXCEPT ![p].fg = c]
      \/ \E p, x : vt' = [vt EXCEPT ![p].vt_ledioctl = x]
  BY DEF ConsoleStep, SwitchScreen, KDSKBMODE, SetModeFlag, KDSKBLED, KDSETLED
<1>4. CASE vt' = vt
  BY <1>1, <1>2, <1>4, SameBindings
<1>5. ASSUME NEW p, NEW x, vt' = [vt EXCEPT ![p].fg = c] \/ vt' = [vt EXCEPT ![p].vt_ledioctl = x]
      PROVE  Bindings'
  <2>1. VtShape(vt') /\ \A u \in VT : vt'[u].keyboard = vt[u].keyboard
    <3>1. CASE vt' = [vt EXCEPT ![p].fg = c]
      BY <1>1, <3>1 DEF VtShape
    <3>2. CASE vt' = [vt EXCEPT ![p].vt_ledioctl = x]
      BY <1>1, <3>2 DEF VtShape
    <3> QED  BY <1>5, <3>1, <3>2
  <2> QED  BY <1>1, <1>2, <2>1, SameBindings
<1> QED  BY <1>3, <1>4, <1>5

(* Requests of programs leave struct input_dev alone.                       *)
LEMMA RequestDevices ==
  ASSUME DevInv,
         (\E c \in Consoles : ConsoleStep(c)) \/ (\E v \in VT : VtStep(v))
  PROVE  DevInv' /\ SameKeys
<1>1. dev' = dev
  BY DEF ConsoleStep, SwitchScreen, KDSKBMODE, SetModeFlag, KDSKBLED, KDSETLED, NoCore, coreVars,
         VtStep, kd_mksound, kd_nosound, KDKBDREP, write_kbd_phys
<1> QED  BY <1>1 DEF DevInv, SameKeys

(* EVIOCGRAB keeps the types of the devices and their keys.                 *)
LEMMA GrabDevices ==
  ASSUME DevInv, NEW i \in HandleIds, Grab(i)
  PROVE  DevInv' /\ SameKeys /\ UNCHANGED <<handle, private, vt>>
<1>1. \/ dev' = [dev EXCEPT ![handle[i].dev].grab = i]
      \/ dev' = [dev EXCEPT ![handle[i].dev].grab = NULL]
  BY DEF Grab, input_grab_device, input_release_device
<1>2. UNCHANGED <<handle, private, vt>>
  BY DEF Grab, input_grab_device, input_release_device
<1>3. PICK d : d = handle[i].dev
  OBVIOUS
<1>4. ASSUME NEW g \in HandleIds \cup {NULL}, dev' = [dev EXCEPT ![d].grab = g]
      PROVE  DevInv' /\ SameKeys
  BY <1>4 DEF DevInv, SameKeys, DevType
<1> QED  BY <1>1, <1>2, <1>3, <1>4

(* Report: the device by input_event, its keys by a key event alone.        *)
LEMMA ReportDevices ==
  ASSUME DevInv, NEW d \in Devices, NEW e, IsEvent(e), Report(d, e)
  PROVE  /\ DevInv' /\ UNCHANGED <<handle, private, vt>>
         /\ e.type # "EV_KEY" => SameKeys
<1>1. PICK seen : seen = Reported(d, dev[d], e)
  OBVIOUS
<1>2. dev' = [dev EXCEPT ![d] = seen.dev] /\ UNCHANGED <<handle, private, vt>>
  BY <1>1 DEF Report
<1>3. seen.dev \in DevType /\ (e.type # "EV_KEY" => seen.dev.key = dev[d].key)
  BY <1>1, ReportedType DEF DevInv
<1> QED  BY <1>2, <1>3 DEF DevInv, SameKeys

(* The events of drivers and of the repeat timer keep the types of the      *)
(* devices.                                                                 *)
LEMMA EventDevices ==
  ASSUME DevInv, NEW d \in Devices, KeyEvent(d) \/ OtherEvent(d) \/ RepeatTimer(d)
  PROVE  DevInv' /\ UNCHANGED <<handle, private, vt>>
<1>1. CASE KeyEvent(d)
  <2>1. PICK k \in KeyBits[d], value \in {0, 1} : Report(d, Event("EV_KEY", k, value))
    BY <1>1 DEF KeyEvent
  <2>2. IsEvent(Event("EV_KEY", k, value))
    BY Events, DeviceAssumption
  <2> QED  BY <2>1, <2>2, ReportDevices
<1>2. CASE OtherEvent(d)
  <2>1. PICK e \in {Event("EV_ABS", "ABS_X", p) : p \in Positions}
                   \cup {Event("EV_REL", "REL_X", n) : n \in {0, 1}}
                   \cup {Event("EV_MSC", "MSC_RAW", 1), Event("EV_FF", "FF_RUMBLE", 1)} : Report(d, e)
    BY <1>2 DEF OtherEvent
  <2>2. IsEvent(e)
    BY Events, DeviceAssumption
  <2> QED  BY <2>1, <2>2, ReportDevices
<1>3. CASE RepeatTimer(d) /\ Repeats(d)
  <2>1. PICK k : k = dev[d].repeat_key
    OBVIOUS
  <2>2. k \in Keys /\ Report(d, Event("EV_KEY", k, 2))
    BY <1>3, <2>1 DEF RepeatTimer, DevInv, DevType
  <2> QED  BY <2>2, Events, ReportDevices
<1>4. CASE RepeatTimer(d) /\ ~ Repeats(d)
  <2>1. dev' = [dev EXCEPT ![d].repeat_key = NULL] /\ UNCHANGED <<handle, private, vt>>
    BY <1>4 DEF RepeatTimer, kbdVars
  <2> QED  BY <2>1 DEF DevInv, DevType
<1> QED  BY <1>1, <1>2, <1>3, <1>4

(* The tasklet keeps the bindings and the keys of the devices.              *)
LEMMA LightsBind ==
  ASSUME BindInv, kbd_bh
  PROVE  DevInv' /\ SameKeys /\ Bindings'
<1>1. RegTypes /\ DevInv /\ Bindings
  BY DEF BindInv, RegInv
<1>2. PICK mine : mine = HandlesOfHandler(kbd)
  OBVIOUS
<1>3. PICK end : end = AllLeds(mine)
  OBVIOUS
<1>4. dev' = end.dev /\ vt' = end.vt /\ UNCHANGED <<handle, private>>
  BY <1>2, <1>3 DEF kbd_bh
<1>5. Len(mine) \in Nat
  BY <1>1, <1>2, HandlesSets DEF RegTypes
<1>6. LightsOnly(end)
  BY <1>1, <1>3, <1>5, AllLedsOnly DEF Bindings
<1> QED  BY <1>1, <1>4, <1>6, SameBindings DEF LightsOnly, DevInv, SameKeys

(* With no device registered nothing is bound.                              *)
LEMMA BindInit == Init => BindInv
<1> SUFFICES ASSUME Init PROVE BindInv
  OBVIOUS
<1>1. PICK x \in Scenarios : CoreInit(x.loaded)
  BY DEF Init
<1>2. DevInv
  <2>1. NewDev \in DevType
    BY DEF NewDev, DevType
  <2> QED  BY <1>1, <2>1 DEF CoreInit, DevInv
<1>3. Bindings
  <2>1. ASSUME NEW v \in VT PROVE \E c \in Consoles : VtOf[c] = v
    BY VtAssumption DEF VT, Range
  <2>2. ASSUME NEW v \in VT
        PROVE  /\ "keyboard" \in DOMAIN vt[v] /\ "fg" \in DOMAIN vt[v]
               /\ vt[v].keyboard = NULL /\ vt[v].fg \in Consoles
    <3>1. PICK cons : cons = CHOOSE c \in Consoles : VtOf[c] = v
      OBVIOUS
    <3>2. cons \in Consoles
      BY <2>1, <3>1
    <3>3. vt[v] = [keyboard |-> NULL, beeper |-> NULL, beepData |-> NULL, beepArmed |-> FALSE,
                   fg |-> cons, vt_ledstate |-> {}, vt_ledioctl |-> {}]
      BY <3>1 DEF Init
    <3> QED  BY <3>2, <3>3
  <2>3. vt = [v \in VT |-> vt[v]] /\ private = [i \in HandleIds |-> NULL]
    BY DEF Init
  <2> QED  BY <2>2, <2>3 DEF Bindings, VtShape
<1> QED  BY <1>2, <1>3, RegInit DEF BindInv

(* Every step keeps the invariant of devices and bindings.                  *)
LEMMA BindNext ==
  ASSUME BindInv, [Next]_vars
  PROVE  BindInv'
<1>1. RegTypes /\ Members /\ DevInv /\ Bindings /\ RegInv /\ VtShape(vt)
  BY DEF BindInv, RegInv, Bindings
<1>2. RegInv'
  BY <1>1, RegNext
<1>3. CASE UNCHANGED vars
  BY <1>1, <1>2, <1>3 DEF vars, coreVars, kbdVars, BindInv, DevInv, Bindings, VtShape
<1>4. CASE Next
  <2>1. ASSUME NEW d \in Devices, RegisterDevice(d) PROVE BindInv'
    <3>1. dev' = [dev EXCEPT ![d] = NewDev] /\ UNCHANGED <<handle, private, vt>>
      BY <2>1 DEF RegisterDevice, input_register_device
    <3>2. NewDev \in DevType
      BY DEF NewDev, DevType
    <3> QED  BY <1>1, <1>2, <3>1, <3>2, SameBindings DEF BindInv, DevInv
  <2>2. ASSUME NEW d \in Devices, RegisterWalk(d) PROVE BindInv'
    <3>1. PICK h, freed : h = dcur[d] /\ WalkStep(d, h, freed)
      BY <2>2 DEF RegisterWalk
    <3>2. h \in Handlers
      BY <1>1, <2>2, <3>1 DEF RegTypes, RegisterWalk, DeviceWalk
    <3> QED  BY <1>1, <1>2, <3>1, <3>2, WalkBinds DEF BindInv
  <2>3. ASSUME NEW h \in Handlers, RegisterHandlerWalk(h) PROVE BindInv'
    <3>1. PICK d, freed : d = hcur[h] /\ WalkStep(d, h, freed)
      BY <2>3 DEF RegisterHandlerWalk
    <3>2. d \in Devices
      BY <1>1, <2>3, <3>1 DEF RegTypes, RegisterHandlerWalk, HandlerWalk
    <3> QED  BY <1>1, <1>2, <3>1, <3>2, WalkBinds DEF BindInv
  <2>4. ASSUME \/ \E d \in Devices : RegisterDone(d) \/ DeviceRemoved(d)
               \/ \E h \in Handlers : RegisterHandlerDone(h) \/ RegisterHandler(h)
        PROVE  BindInv'
    <3>1. UNCHANGED <<dev, handle, private, vt>>
      BY <2>4 DEF RegisterDone, DeviceReady, DeviceRemoved, DeviceGone, RegisterHandlerDone,
                  HandlerReady, RegisterHandler, input_register_handler
    <3> QED  BY <1>1, <1>2, <3>1, SameBindings DEF BindInv, DevInv
  <2>5. ASSUME NEW d \in Devices, UnregisterDevice(d) PROVE BindInv'
    BY <1>2, <2>5, UnplugBinds DEF BindInv
  <2>6. ASSUME NEW h \in Handlers, UnregisterHandler(h) PROVE BindInv'
    BY <1>2, <2>6, HandlerGoneBinds DEF BindInv
  <2>7. ASSUME Elsewhere PROVE BindInv'
    <3>1. ASSUME NEW d \in Devices, KeyEvent(d) \/ OtherEvent(d) \/ RepeatTimer(d) PROVE BindInv'
      <4>1. DevInv' /\ UNCHANGED <<handle, private, vt>>
        BY <1>1, <3>1, EventDevices
      <4> QED  BY <1>1, <1>2, <4>1, SameBindings DEF BindInv
    <3>2. ASSUME NEW i \in HandleIds, Grab(i) PROVE BindInv'
      <4>1. DevInv' /\ UNCHANGED <<handle, private, vt>>
        BY <1>1, <3>2, GrabDevices
      <4> QED  BY <1>1, <1>2, <4>1, SameBindings DEF BindInv
    <3>3. ASSUME NEW c \in Consoles, ConsoleStep(c) PROVE BindInv'
      BY <1>1, <1>2, <3>3, ConsoleStepBinds, RequestDevices DEF BindInv
    <3>4. ASSUME NEW v \in VT, VtStep(v) PROVE BindInv'
      BY <1>1, <1>2, <3>4, VtStepBinds, RequestDevices DEF BindInv
    <3>5. ASSUME kbd_bh PROVE BindInv'
      BY <1>2, <3>5, LightsBind DEF BindInv
    <3> QED  BY <2>7, <3>1, <3>2, <3>3, <3>4, <3>5 DEF Elsewhere
  <2> QED  BY <1>4, <2>1, <2>2, <2>3, <2>4, <2>5, <2>6, <2>7, Steps
<1> QED  BY <1>3, <1>4

(* The inductive invariant of devices and bindings, in every behaviour.     *)
THEOREM BindingSound == Spec => []BindInv
<1>1. Init => BindInv
  BY BindInit
<1>2. BindInv /\ [Next]_vars => BindInv'
  BY BindNext
<1> QED  BY <1>1, <1>2, PTL DEF Spec

(* Binding: the keyboard of a VT is a live handle, and that handle sends    *)
(* its keys to this VT, however keyboards are connected, unplugged and      *)
(* rebound through /proc (kbd_connect, kbd_disconnect, write_kbd_phys).     *)
THEOREM KeyboardBindingHolds == Spec => []KeyboardBinding
<1>1. BindInv => KeyboardBinding
  <2> SUFFICES ASSUME BindInv, NEW v \in VT, vt[v].keyboard # NULL
               PROVE  handle[vt[v].keyboard] # NULL /\ private[vt[v].keyboard] = v
    BY DEF KeyboardBinding
  <2>1. private[vt[v].keyboard] = v /\ vt[v].keyboard \in HandleIds
    BY DEF BindInv, Bindings
  <2> QED  BY <2>1, VtNames DEF BindInv, Bindings
<1> QED  BY <1>1, BindingSound, PTL

(* A mean of integers, rounded down, is between them.                       *)
LEMMA FilterBetween ==
  ASSUME NEW abs \in Int, NEW fuzz \in Nat, NEW p \in Int
  PROVE  Between(abs, AbsFilter(abs, fuzz, p), p)
<1>1. ASSUME NEW x \in Int, NEW n \in Int
      PROVE  Half(x, abs, n) \in Int /\ Between(abs, Half(x, abs, n), x)
  BY DEF Half, Near, Between
<1>2. Quarter(p, abs, fuzz) \in Int /\ Between(abs, Quarter(p, abs, fuzz), p)
  BY DEF Quarter, Near, Between
<1>3. \A x, y \in Int : Between(abs, x, y) /\ Between(abs, y, p) => Between(abs, x, p)
  BY DEF Between
<1>4. Between(abs, abs, p) /\ Between(abs, p, p)
  BY DEF Between
<1>5. PICK q : q = Quarter(p, abs, fuzz)
  OBVIOUS
<1>6. Half(q, abs, fuzz) \in Int /\ Between(abs, Half(q, abs, fuzz), p)
  BY <1>1, <1>2, <1>3, <1>5
<1> QED  BY <1>4, <1>5, <1>6 DEF AbsFilter

(* Axes: the noise filter of input_event never moves a position past the    *)
(* one reported, nor away from it, whatever the history of the axis.        *)
THEOREM AxisFollowsHolds == Spec => []AxisFollows
<1>1. BindInv => AxisFollows
  BY FilterBetween, DeviceAssumption DEF BindInv, DevInv, DevType, AxisFollows
<1> QED  BY <1>1, BindingSound, PTL

-----------------------------------------------------------------------------
(* Modifiers.  The first lemmas follow the translation of one event: what   *)
(* each function of keyboard.c leaves of key_down and shift_down.           *)

Counted == {"key_down", "shift_down", "shift_state", "sysrq_down"}
Raw == {"VC_RAW", "VC_MEDIUMRAW"}

KbShape(k) ==
  /\ "key_down" \in DOMAIN k /\ "shift_down" \in DOMAIN k /\ "shift_state" \in DOMAIN k
  /\ "sysrq_down" \in DOMAIN k /\ "rep" \in DOMAIN k
  /\ k.key_down \in SUBSET Keys
  /\ k.shift_down \in [Mods -> Nat]
  /\ k.shift_state = {m \in Mods : k.shift_down[m] > 0}

TableShape(t) ==
  /\ t = [c \in Consoles |-> t[c]]
  /\ \A c \in Consoles :
       /\ "lockstate" \in DOMAIN t[c] /\ "slockstate" \in DOMAIN t[c] /\ "kbdmode" \in DOMAIN t[c]
       /\ t[c].lockstate \in SUBSET Mods /\ t[c].slockstate \in SUBSET Mods

Shape(s) == "kb" \in DOMAIN s /\ "table" \in DOMAIN s /\ KbShape(s.kb) /\ TableShape(s.table)

(* The console is in a raw mode only if it was.                             *)
RawOnly(t, u) == \A c \in Consoles : u[c].kbdmode \in Raw => t[c].kbdmode \in Raw

(* Nothing of a modifier happened between s and t.                          *)
Idle(s, t) ==
  /\ Shape(t) /\ RawOnly(s.table, t.table)
  /\ t.kb.key_down = s.kb.key_down /\ t.kb.shift_down = s.kb.shift_down
  /\ t.kb.sysrq_down = s.kb.sysrq_down

(* A function that returns its state has done nothing to a modifier.        *)
LEMMA IdleSame == ASSUME NEW s, Shape(s) PROVE Idle(s, s)
  BY DEF Idle, RawOnly

(* Neither have two such functions one after the other.                     *)
LEMMA IdleThen ==
  ASSUME NEW s, NEW t, NEW u, Idle(s, t), Idle(t, u)
  PROVE  Idle(s, u)
  BY DEF Idle, RawOnly

(* Such a function returns a well-formed state.                             *)
LEMMA IdleShape == \A s, t : Idle(s, t) => Shape(t)
  BY DEF Idle

(* The four ways the functions write: the queue, the tasklet, a member of   *)
(* the state of the keyboard, a member of a console's.                      *)
LEMMA PutIdle ==
  ASSUME NEW s, Shape(s), NEW c, NEW ch
  PROVE  /\ Idle(s, put_queue(s, c, ch)) /\ Idle(s, Call(s, c, ch)) /\ Idle(s, [s EXCEPT !.led = TRUE])
         /\ put_queue(s, c, ch).kb = s.kb /\ put_queue(s, c, ch).table = s.table
         /\ Call(s, c, ch).kb = s.kb /\ Call(s, c, ch).table = s.table
         /\ [s EXCEPT !.led = TRUE].kb = s.kb /\ [s EXCEPT !.led = TRUE].table = s.table
<1>1. /\ put_queue(s, c, ch).kb = s.kb /\ put_queue(s, c, ch).table = s.table
      /\ "kb" \in DOMAIN put_queue(s, c, ch) /\ "table" \in DOMAIN put_queue(s, c, ch)
  BY DEF put_queue, Shape
<1>2. /\ Call(s, c, ch).kb = s.kb /\ Call(s, c, ch).table = s.table
      /\ "kb" \in DOMAIN Call(s, c, ch) /\ "table" \in DOMAIN Call(s, c, ch)
  BY DEF Call, Shape
<1>3. PICK t : t = [s EXCEPT !.led = TRUE]
  OBVIOUS
<1>4. t.kb = s.kb /\ t.table = s.table /\ "kb" \in DOMAIN t /\ "table" \in DOMAIN t
  BY <1>3 DEF Shape
<1> QED  BY <1>1, <1>2, <1>3, <1>4 DEF Idle, Shape, RawOnly

(* Writing a static variable of keyboard.c changes no other.                *)
LEMMA SetIs ==
  ASSUME NEW s, Shape(s), NEW field, NEW val
  PROVE  Set(s, field, val).kb = [s.kb EXCEPT ![field] = val]
         /\ Set(s, field, val).table = s.table
         /\ "kb" \in DOMAIN Set(s, field, val) /\ "table" \in DOMAIN Set(s, field, val)
  BY DEF Set, Shape

(* It is idle for those that are not counted.                               *)
LEMMA SetIdle ==
  ASSUME NEW s, Shape(s), NEW field, field \notin Counted, NEW val
  PROVE  Idle(s, Set(s, field, val))
<1>1. PICK k, l : k = s.kb /\ l = [k EXCEPT ![field] = val]
  OBVIOUS
<1>2. /\ KbShape(l) /\ l.key_down = k.key_down /\ l.shift_down = k.shift_down
      /\ l.sysrq_down = k.sysrq_down
  BY <1>1 DEF Shape, KbShape, Counted
<1>3. PICK r : r = Set(s, field, val)
  OBVIOUS
<1>4. r.kb = l /\ r.table = s.table /\ "kb" \in DOMAIN r /\ "table" \in DOMAIN r
  BY <1>1, <1>3, SetIs
<1>5. Shape(r)
  BY <1>2, <1>4 DEF Shape
<1>6. RawOnly(s.table, r.table)
  BY <1>4 DEF RawOnly
<1> QED  BY <1>1, <1>2, <1>3, <1>4, <1>5, <1>6 DEF Idle

(* Writing a member of a kbd_struct is idle, if it keeps locks within the   *)
(* modifiers and does not enter a raw mode.                                 *)
LEMMA SetTableIdle ==
  ASSUME NEW s, Shape(s), NEW c, NEW field, NEW val,
         field \in {"lockstate", "slockstate"} => val \in SUBSET Mods,
         field = "kbdmode" => val \notin Raw
  PROVE  Idle(s, SetTable(s, c, field, val)) /\ SetTable(s, c, field, val).kb = s.kb
<1>1. PICK t, u : t = s.table /\ u = [t EXCEPT ![c] = [@ EXCEPT ![field] = val]]
  OBVIOUS
<1>2. PICK r : r = SetTable(s, c, field, val)
  OBVIOUS
<1>3. r.table = u /\ r.kb = s.kb /\ "kb" \in DOMAIN r /\ "table" \in DOMAIN r
  BY <1>1, <1>2 DEF SetTable, Shape
<1>4. \A e \in Consoles : e # c => u[e] = t[e]
  BY <1>1 DEF Shape, TableShape
<1>5. u = [e \in Consoles |-> u[e]]
  BY <1>1 DEF Shape, TableShape
<1>6. ASSUME c \in Consoles
      PROVE  /\ "lockstate" \in DOMAIN u[c] /\ "slockstate" \in DOMAIN u[c]
             /\ "kbdmode" \in DOMAIN u[c]
             /\ u[c].lockstate \in SUBSET Mods /\ u[c].slockstate \in SUBSET Mods
             /\ u[c].kbdmode \in Raw => t[c].kbdmode \in Raw
  <2>1. PICK x : x = t[c]
    OBVIOUS
  <2>2. u[c] = [x EXCEPT ![field] = val]
    BY <1>1, <1>6, <2>1 DEF Shape, TableShape
  <2>3. /\ "lockstate" \in DOMAIN x /\ "slockstate" \in DOMAIN x /\ "kbdmode" \in DOMAIN x
        /\ x.lockstate \in SUBSET Mods /\ x.slockstate \in SUBSET Mods
    BY <1>1, <1>6, <2>1 DEF Shape, TableShape
  <2> QED  BY <2>1, <2>2, <2>3
<1>7. TableShape(u) /\ RawOnly(t, u)
  BY <1>1, <1>4, <1>5, <1>6 DEF Shape, TableShape, RawOnly
<1> QED  BY <1>1, <1>2, <1>3, <1>7 DEF Idle, Shape

(* Composition and characters.                                              *)
LEMMA ComposedIdle ==
  ASSUME NEW s, Shape(s), NEW c, NEW ch
  PROVE  Idle(s, Composed(s, c, ch).s)
<1>1. PICK t : t = Set(s, "diacr", NULL)
  OBVIOUS
<1>2. Idle(s, t)
  BY <1>1, SetIdle DEF Counted
<1>3. PICK d : d = s.kb.diacr
  OBVIOUS
<1>4. Idle(s, put_queue(t, c, d))
  BY <1>2, PutIdle, IdleThen, IdleShape
<1>5. handle_diacr(s, c, ch).s \in {t, put_queue(t, c, d)}
  BY <1>1, <1>3 DEF handle_diacr
<1> QED  BY <1>2, <1>4, <1>5, IdleSame DEF Composed

(* The handlers of characters (k_self, k_dead2, k_meta) touch no modifier.  *)
LEMMA CharIdle ==
  ASSUME NEW s, Shape(s), NEW c, NEW ch
  PROVE  Idle(s, k_self(s, c, ch)) /\ Idle(s, k_dead2(s, c, ch))
<1>1. PICK r : r = Composed(s, c, ch)
  OBVIOUS
<1>2. Idle(s, r.s) /\ Shape(r.s)
  BY <1>1, ComposedIdle, IdleShape
<1>3. PICK t : t = Set(r.s, "dead_key_next", FALSE)
  OBVIOUS
<1>4. Idle(s, t) /\ Shape(t)
  BY <1>2, <1>3, SetIdle, IdleThen, IdleShape DEF Counted
<1>5. Idle(s, Set(t, "diacr", r.ch)) /\ Idle(s, put_queue(r.s, c, r.ch)) /\ Idle(s, Set(r.s, "diacr", r.ch))
  BY <1>2, <1>4, SetIdle, PutIdle, IdleThen DEF Counted
<1> QED  BY <1>1, <1>3, <1>5 DEF k_self, k_dead2

(* Keys with codes of their own, and codes typed digit by digit.            *)
LEMMA CodeIdle ==
  ASSUME NEW s, Shape(s), NEW c, NEW v
  PROVE  /\ Idle(s, k_meta(s, c, v)) /\ Idle(s, k_cur(s, c, v)) /\ Idle(s, k_fn(s, c, v))
         /\ Idle(s, k_pad(s, c, v)) /\ Idle(s, k_ascii(s, c, v))
         /\ \A key, app : Idle(s, applkey(s, c, key, app))
<1>1. \A ch : Idle(s, put_queue(s, c, ch)) /\ Shape(put_queue(s, c, ch))
  BY PutIdle, IdleShape
<1>2. \A ch1, ch2 : Idle(s, put_queue(put_queue(s, c, ch1), c, ch2))
  BY <1>1, PutIdle, IdleThen
<1>3. \A key, app : Idle(s, applkey(s, c, key, app))
  BY <1>1 DEF applkey
<1>4. \A w : Idle(s, k_cur(s, c, w)) /\ Idle(s, k_fn(s, c, w))
  BY <1>1, <1>3 DEF k_cur, k_fn
<1>5. Idle(s, k_meta(s, c, v))
  BY <1>1, <1>2 DEF k_meta
<1>6. Idle(s, k_pad(s, c, v))
  BY <1>1, <1>2, <1>3, <1>4 DEF k_pad
<1>7. Idle(s, k_ascii(s, c, v))
  BY SetIdle DEF k_ascii, Counted
<1> QED  BY <1>3, <1>4, <1>5, <1>6, <1>7

(* Functions of the console: none touches a modifier, but "null" counts     *)
(* them anew.                                                               *)
LEMMA SpecIdle ==
  ASSUME NEW s, Shape(s), NEW c, NEW f
  PROVE  Idle(s, k_spec(s, c, f)) \/ k_spec(s, c, f) = fn_null(s, c)
<1>1. \A ch : /\ Idle(s, put_queue(s, c, ch)) /\ Shape(put_queue(s, c, ch))
              /\ Idle(s, Call(s, c, ch)) /\ Shape(Call(s, c, ch))
  BY PutIdle, IdleShape
<1>2. \A field, val :
        field \in {"kbdmode", "ledflagstate"} /\ (field = "kbdmode" => val \notin Raw) => Idle(s, SetTable(s, c, field, val))
  BY SetTableIdle
<1>3. Idle(s, fn_enter(s, c))
  <2>1. PICK t : t = Enter(s, c)
    OBVIOUS
  <2>2. Idle(s, t) /\ Shape(t)
    <3>1. \A ch : Idle(s, Set(put_queue(s, c, ch), "diacr", NULL))
      BY <1>1, SetIdle, IdleThen DEF Counted
    <3> QED  BY <2>1, <3>1, IdleSame, IdleShape DEF Enter
  <2>3. PICK u : u = put_queue(t, c, "CR")
    OBVIOUS
  <2>4. Idle(s, u) /\ Shape(u)
    BY <2>2, <2>3, PutIdle, IdleThen, IdleShape
  <2>5. Idle(s, put_queue(u, c, "LF"))
    BY <2>4, PutIdle, IdleThen
  <2> QED  BY <2>1, <2>3, <2>4, <2>5 DEF fn_enter
<1>4. \A l : Idle(s, ChgLed(s, c, l))
  BY <1>2, IdleSame DEF ChgLed
<1>5. Idle(s, fn_num(s, c))
  BY <1>4, CodeIdle DEF fn_num
<1>6. Idle(s, fn_hold(s, c))
  <2>1. CASE fn_hold(s, c) = s
    BY <2>1, IdleSame
  <2>2. CASE fn_hold(s, c) # s
    <3>1. PICK x : x = [s EXCEPT !.table[c].stopped = ~ @, !.led = TRUE,
                          !.table[c].ledflagstate =
                             IF s.table[c].stopped THEN @ \ {"scroll"} ELSE @ \cup {"scroll"}]
      OBVIOUS
    <3>2. fn_hold(s, c) = x
      BY <2>2, <3>1 DEF fn_hold
    <3>3. x.kb = s.kb /\ "kb" \in DOMAIN x /\ "table" \in DOMAIN x
      BY <3>1 DEF Shape
    <3>4. PICK t, u, y, z : t = s.table /\ u = x.table /\ y = (~ t[c].stopped)
                            /\ z = IF t[c].stopped THEN t[c].ledflagstate \ {"scroll"}
                                   ELSE t[c].ledflagstate \cup {"scroll"}
      OBVIOUS
    <3>5. TableShape(u) /\ RawOnly(t, u)
      <4>1. TableShape(t)
        BY <3>4 DEF Shape
      <4>2. u = [t EXCEPT ![c].stopped = ~ @,
                          ![c].ledflagstate =
                             IF t[c].stopped THEN @ \ {"scroll"} ELSE @ \cup {"scroll"}]
        BY <3>1, <3>4 DEF Shape
      <4>3. u = [e \in Consoles |-> u[e]] /\ \A e \in Consoles : e # c => u[e] = t[e]
        BY <4>1, <4>2 DEF TableShape
      <4>4. c \in Consoles =>
              /\ "lockstate" \in DOMAIN u[c] /\ "slockstate" \in DOMAIN u[c]
              /\ "kbdmode" \in DOMAIN u[c]
              /\ u[c].lockstate = t[c].lockstate /\ u[c].slockstate = t[c].slockstate
              /\ u[c].kbdmode = t[c].kbdmode
        BY <4>1, <4>2 DEF TableShape
      <4> QED  BY <4>1, <4>3, <4>4 DEF TableShape, RawOnly
    <3>6. Shape(x) /\ RawOnly(s.table, x.table)
      BY <3>3, <3>4, <3>5 DEF Shape
    <3> QED  BY <3>2, <3>3, <3>6 DEF Idle
  <2> QED  BY <2>1, <2>2
<1>7. Idle(s, fn_SAK(s, c))
  <2>1. \A t : Shape(t) => Idle(t, reset_vc(t, c))
    BY SetTableIdle DEF reset_vc, Raw
  <2> QED  BY <1>1, <2>1, IdleThen DEF fn_SAK
<1>8. Idle(s, Set(s, "dead_key_next", TRUE))
  BY SetIdle DEF Counted
<1> QED
  BY <1>1, <1>2, <1>3, <1>4, <1>5, <1>6, <1>7, <1>8, IdleSame DEF k_spec, OtherFunction

-----------------------------------------------------------------------------
(* Counting the modifiers.                                                  *)

ModKeys(m) == {k \in Keys : /\ key_maps[{}][k].type \in {"KT_SHIFT", "KT_SLOCK"}
                            /\ Modifier(key_maps[{}][k]) = m}

Recounted(s, t) ==
  /\ Shape(t) /\ RawOnly(s.table, t.table)
  /\ t.kb.key_down = s.kb.key_down
  /\ \A m \in Mods : t.kb.shift_down[m] = Cardinality(s.kb.key_down \cap ModKeys(m))
  /\ t.kb.sysrq_down = s.kb.sysrq_down

(* compute_shiftstate counts the keys in key_down that are modifiers.       *)
LEMMA ComputeIs ==
  ASSUME NEW k, KbShape(k)
  PROVE  LET l == compute_shiftstate(k) IN
         /\ KbShape(l) /\ l.key_down = k.key_down /\ l.sysrq_down = k.sysrq_down
         /\ \A m \in Mods : l.shift_down[m] = Cardinality(k.key_down \cap ModKeys(m))
<1>1. PICK l : l = compute_shiftstate(k)
  OBVIOUS
<1> DEFINE keysOf(m) == {x \in k.key_down : /\ key_maps[{}][x].type \in {"KT_SHIFT", "KT_SLOCK"}
                                            /\ Modifier(key_maps[{}][x]) = m}
<1>2. l = [k EXCEPT !.shift_down = [m \in Mods |-> Cardinality(keysOf(m))],
                    !.shift_state = {m \in Mods : keysOf(m) # {}}]
  BY <1>1 DEF compute_shiftstate
<1>3. \A m : keysOf(m) = k.key_down \cap ModKeys(m)
  BY DEF KbShape, ModKeys
<1> HIDE DEF keysOf
<1>4. ASSUME NEW m \in Mods
      PROVE  Cardinality(keysOf(m)) \in Nat /\ (Cardinality(keysOf(m)) > 0 <=> keysOf(m) # {})
  <2>1. keysOf(m) \in SUBSET Keys
    BY <1>3 DEF KbShape
  <2>2. IsFiniteSet(keysOf(m))
    BY <2>1, FiniteAssumption, FS_Subset
  <2> QED  BY <2>2, FS_CardinalityType, FS_EmptySet
<1>5. PICK down, state : down = [m \in Mods |-> Cardinality(keysOf(m))]
                         /\ state = {m \in Mods : keysOf(m) # {}}
  OBVIOUS
<1>6. down \in [Mods -> Nat] /\ state = {m \in Mods : down[m] > 0}
      /\ \A m \in Mods : down[m] = Cardinality(k.key_down \cap ModKeys(m))
  BY <1>3, <1>4, <1>5
<1>7. l = [k EXCEPT !.shift_down = down, !.shift_state = state]
  BY <1>2, <1>5
<1> QED  BY <1>1, <1>6, <1>7 DEF KbShape

(* So does a function that calls it on the state it translates.             *)
LEMMA ComputeRecounts ==
  ASSUME NEW s, Shape(s)
  PROVE  Recounted(s, [s EXCEPT !.kb = compute_shiftstate(@)])
<1>1. PICK t : t = [s EXCEPT !.kb = compute_shiftstate(@)]
  OBVIOUS
<1>2. /\ t.kb = compute_shiftstate(s.kb) /\ t.table = s.table
      /\ "kb" \in DOMAIN t /\ "table" \in DOMAIN t
  BY <1>1 DEF Shape
<1>3. KbShape(s.kb)
  BY DEF Shape
<1>4. PICK k, l : k = s.kb /\ l = t.kb
  OBVIOUS
<1>5. /\ KbShape(l) /\ l.key_down = k.key_down /\ l.sysrq_down = k.sysrq_down
      /\ \A m \in Mods : l.shift_down[m] = Cardinality(k.key_down \cap ModKeys(m))
  BY <1>2, <1>3, <1>4, ComputeIs
<1>6. Shape(t) /\ RawOnly(s.table, t.table)
  BY <1>2, <1>4, <1>5 DEF Shape, RawOnly
<1> QED  BY <1>1, <1>4, <1>5, <1>6 DEF Recounted

(* k_shift: one more or one less key holds the modifier.                    *)
Shifted(s, t, m, up) ==
  /\ Shape(t) /\ RawOnly(s.table, t.table)
  /\ t.kb.key_down = s.kb.key_down
  /\ t.kb.shift_down = [s.kb.shift_down EXCEPT ![m] = ShiftCount(@, up)]
  /\ t.kb.sysrq_down = s.kb.sysrq_down

(* k_shift moves the count of its modifier by one, unless the key repeats.  *)
LEMMA ShiftShifts ==
  ASSUME NEW s, Shape(s), NEW c, NEW sym, NEW up \in BOOLEAN, Modifier(sym) \in Mods
  PROVE  IF s.kb.rep THEN k_shift(s, c, sym, up) = s
         ELSE Shifted(s, k_shift(s, c, sym, up), Modifier(sym), up)
<1>1. CASE s.kb.rep
  BY <1>1 DEF k_shift
<1>2. CASE ~ s.kb.rep
  <2>1. PICK m, k : m = Modifier(sym) /\ k = s.kb
    OBVIOUS
  <2>2. PICK n : n = ShiftCount(k.shift_down[m], up)
    OBVIOUS
  <2>3. PICK st : st = IF n > 0 THEN k.shift_state \cup {m} ELSE k.shift_state \ {m}
    OBVIOUS
  <2>4. PICK t : t = [s EXCEPT !.kb.shift_down[m] = n, !.kb.shift_state = st,
                        !.table[c].ledflagstate =
                           IF sym.val = "capsshift" /\ ~ up THEN @ \ {"caps"} ELSE @]
    OBVIOUS
  <2>5. PICK l : l = [k EXCEPT !.shift_down[m] = n, !.shift_state = st]
    OBVIOUS
  <2>6. t.kb = l /\ "kb" \in DOMAIN t /\ "table" \in DOMAIN t
    BY <2>1, <2>4, <2>5 DEF Shape
  <2>7. KbShape(k) /\ m \in Mods
    BY <2>1 DEF Shape
  <2>8. n \in Nat
    BY <2>2, <2>7 DEF KbShape, ShiftCount
  <2>9. PICK down : down = [k.shift_down EXCEPT ![m] = n]
    OBVIOUS
  <2>10. /\ down \in [Mods -> Nat] /\ down[m] = n
         /\ \A x \in Mods : x # m => down[x] = k.shift_down[x]
    BY <2>7, <2>8, <2>9 DEF KbShape
  <2>11. st = {x \in Mods : down[x] > 0}
    BY <2>3, <2>7, <2>8, <2>10 DEF KbShape
  <2>12. l.shift_down = down /\ l.shift_state = st /\ l.key_down = k.key_down
         /\ l.sysrq_down = k.sysrq_down /\ DOMAIN l = DOMAIN k
    BY <2>5, <2>7, <2>9 DEF KbShape
  <2>13. KbShape(l)
    BY <2>7, <2>10, <2>11, <2>12 DEF KbShape
  <2>14. TableShape(t.table) /\ RawOnly(s.table, t.table)
    <3>1. PICK old, new : old = s.table /\ new = t.table
      OBVIOUS
    <3>2. TableShape(old)
      BY <3>1 DEF Shape
    <3>3. new = [old EXCEPT ![c].ledflagstate =
                    IF sym.val = "capsshift" /\ ~ up THEN @ \ {"caps"} ELSE @]
      BY <2>4, <3>1 DEF Shape
    <3>4. PICK z : new = [old EXCEPT ![c].ledflagstate = z]
      BY <3>3
    <3>5. TableShape(new) /\ RawOnly(old, new)
      BY <3>2, <3>4 DEF TableShape, RawOnly
    <3> QED  BY <3>1, <3>5
  <2>15. Shifted(s, t, m, up)
    BY <2>1, <2>2, <2>6, <2>9, <2>12, <2>13, <2>14 DEF Shifted, Shape
  <2>16. PICK code : code = <<s.table[c].kbdmode = "VC_UNICODE", s.kb.npadch>>
    OBVIOUS
  <2>17. Shifted(s, Set(put_queue(t, c, code), "npadch", -1), m, up)
    <3>1. PICK u : u = Set(put_queue(t, c, code), "npadch", -1)
      OBVIOUS
    <3>2. Shape(t)
      BY <2>15 DEF Shifted
    <3>3. Idle(t, u)
      BY <3>1, <3>2, PutIdle, SetIdle, IdleThen, IdleShape DEF Counted
    <3> QED  BY <2>15, <3>1, <3>3 DEF Shifted, Idle, RawOnly
  <2>18. k_shift(s, c, sym, up) \in {t, Set(put_queue(t, c, code), "npadch", -1)}
    BY <1>2, <2>1, <2>2, <2>3, <2>4, <2>16 DEF k_shift
  <2> QED  BY <1>2, <2>1, <2>15, <2>17, <2>18
<1> QED  BY <1>1, <1>2

SlockOrShift == {"KT_SHIFT", "KT_SLOCK"}

(* What the key maps promise of a symbol.                                   *)
SoundSym(sym) ==
  /\ sym.type \in {"KT_SLOCK", "KT_LOCK"} => sym.val \in Mods
  /\ sym.type = "KT_SHIFT" => sym.val \in Mods \/ (sym.val = "capsshift" /\ "shift" \in Mods)

(* The symbol of a modifier key names a modifier, also for CapsShift.       *)
LEMMA SymModifier ==
  ASSUME NEW sym, SoundSym(sym), sym.type \in SlockOrShift
  PROVE  Modifier(sym) \in Mods
  BY ScenarioAssumption DEF SoundSym, Modifier, SlockOrShift

(* Toggling a modifier leaves a set of modifiers.                           *)
LEMMA ToggleMods ==
  ASSUME NEW S \in SUBSET Mods, NEW m \in Mods
  PROVE  Toggle(m, S) \in SUBSET Mods
  BY DEF Toggle

(* k_slock is k_shift, and the lock until the next key; k_lock a lock.      *)
LEMMA SlockShifts ==
  ASSUME NEW s, Shape(s), NEW c \in Consoles, NEW sym, NEW up \in BOOLEAN,
         SoundSym(sym), sym.type = "KT_SLOCK"
  PROVE  IF s.kb.rep THEN k_slock(s, c, sym, up) = s
         ELSE Shifted(s, k_slock(s, c, sym, up), Modifier(sym), up)
<1>1. PICK t : t = k_shift(s, c, sym, up)
  OBVIOUS
<1>2. Modifier(sym) \in Mods /\ sym.val \in Mods
  BY SymModifier DEF SoundSym, SlockOrShift
<1>3. CASE s.kb.rep
  BY <1>1, <1>2, <1>3, ShiftShifts DEF k_slock
<1>4. CASE ~ s.kb.rep
  <2>1. Shifted(s, t, Modifier(sym), up)
    BY <1>1, <1>2, <1>4, ShiftShifts
  <2>2. Shape(t)
    BY <2>1 DEF Shifted
  <2>3. PICK sl : sl = Toggle(sym.val, t.table[c].slockstate)
    OBVIOUS
  <2>4. sl \in SUBSET Mods
    BY <1>2, <2>2, <2>3, ToggleMods DEF Shape, TableShape
  <2>5. PICK w : w = IF key_maps[Xor(t.table[c].lockstate, sl)] = NULLMAP THEN {sym.val} ELSE sl
    OBVIOUS
  <2>6. w \in SUBSET Mods
    BY <1>2, <2>4, <2>5
  <2>7. PICK u : u = SetTable(t, c, "slockstate", w)
    OBVIOUS
  <2>8. Idle(t, u)
    BY <2>2, <2>6, <2>7, SetTableIdle
  <2>9. Shifted(s, u, Modifier(sym), up)
    BY <2>1, <2>8 DEF Shifted, Idle, RawOnly
  <2>10. k_slock(s, c, sym, up) \in {t, u}
    BY <1>1, <1>4, <2>3, <2>5, <2>7 DEF k_slock
  <2> QED  BY <1>4, <2>1, <2>9, <2>10
<1> QED  BY <1>3, <1>4

(* k_lock touches no count.                                                 *)
LEMMA LockIdle ==
  ASSUME NEW s, Shape(s), NEW c \in Consoles, NEW m \in Mods
  PROVE  Idle(s, k_lock(s, c, m))
<1>1. Toggle(m, s.table[c].lockstate) \in SUBSET Mods
  BY ToggleMods DEF Shape, TableShape
<1> QED  BY <1>1, SetTableIdle, IdleSame DEF k_lock

(* The table of handlers.                                                   *)
LEMMA HandlerStepIs ==
  ASSUME NEW s, Shape(s), NEW c \in Consoles, NEW sym, SoundSym(sym), NEW up \in BOOLEAN
  PROVE  LET t == k_handler(s, c, sym, up) IN
         IF sym.type \notin SlockOrShift THEN Idle(s, t) \/ Recounted(s, t)
         ELSE IF s.kb.rep THEN t = s ELSE Shifted(s, t, Modifier(sym), up)
<1>1. CASE sym.type = "KT_SHIFT"
  <2>1. k_handler(s, c, sym, up) = k_shift(s, c, sym, up)
    BY <1>1 DEF k_handler
  <2> QED  BY <1>1, <2>1, SymModifier, ShiftShifts DEF SlockOrShift
<1>2. CASE sym.type = "KT_SLOCK"
  <2>1. k_handler(s, c, sym, up) = k_slock(s, c, sym, up)
    BY <1>2 DEF k_handler
  <2> QED  BY <1>2, <2>1, SlockShifts DEF SlockOrShift
<1>3. CASE sym.type \notin SlockOrShift
  <2>1. Recounted(s, fn_null(s, c))
    BY ComputeRecounts DEF fn_null
  <2>2. sym.type = "KT_LOCK" => Idle(s, k_lock(s, c, sym.val))
    BY LockIdle DEF SoundSym
  <2>3. \A f : Idle(s, k_spec(s, c, f)) \/ Recounted(s, k_spec(s, c, f))
    BY <2>1, SpecIdle
  <2>4. \A v : /\ Idle(s, k_self(s, c, v)) /\ Idle(s, k_dead2(s, c, v)) /\ Idle(s, k_meta(s, c, v))
               /\ Idle(s, k_cur(s, c, v)) /\ Idle(s, k_fn(s, c, v)) /\ Idle(s, k_pad(s, c, v))
               /\ Idle(s, k_ascii(s, c, v)) /\ Idle(s, Call(s, c, v)) /\ Idle(s, s)
    BY CharIdle, CodeIdle, PutIdle, IdleSame
  <2>5. PICK ty : ty = sym.type
    OBVIOUS
  <2>6. ty # "KT_SHIFT" /\ ty # "KT_SLOCK"
    BY <1>3, <2>5 DEF SlockOrShift
  <2>7. \/ k_handler(s, c, sym, up) \in
             {s, k_self(s, c, sym.val), k_fn(s, c, sym.val), k_pad(s, c, sym.val),
              k_dead2(s, c, sym.val), Call(s, c, <<"set_console", sym.val>>), k_cur(s, c, sym.val),
              k_meta(s, c, sym.val), k_ascii(s, c, sym.val)}
        \/ k_handler(s, c, sym, up) = k_spec(s, c, sym.val)
        \/ ty = "KT_LOCK" /\ k_handler(s, c, sym, up) = k_lock(s, c, sym.val)
    BY <2>5, <2>6 DEF k_handler
  <2> QED  BY <1>3, <2>2, <2>3, <2>4, <2>5, <2>7
<1> QED  BY <1>1, <1>2, <1>3 DEF SlockOrShift

(* The key maps, under SameModifiers: every map says the same of a key that *)
(* is a modifier in one of them.                                            *)
IsMod(k) == key_maps[{}][k].type \in SlockOrShift
ModOf(k) == Modifier(key_maps[{}][k])

(* What the key maps in use agree on: which keys are modifiers, and which.  *)
LEMMA MapFacts ==
  ASSUME sc \in Scenarios, SameModifiers, NEW m \in SUBSET Mods, NEW k \in Keys,
         key_maps[m] # NULLMAP
  PROVE  /\ SoundSym(key_maps[m][k])
         /\ IsMod(k) => key_maps[m][k] = key_maps[{}][k] /\ k \notin HighKeys
         /\ ~ IsMod(k) => key_maps[m][k].type \notin SlockOrShift
<1>1. key_maps = sc.maps
  BY DEF key_maps
<1>2. key_maps[{}] # NULLMAP /\ {} \in SUBSET Mods
  BY <1>1, ScenarioAssumption
<1>3. \A x \in SUBSET Mods : key_maps[x] # NULLMAP =>
        SoundSym(key_maps[x][k])
        /\ (key_maps[x][k].type \in {"KT_SHIFT", "KT_SLOCK"} => k \notin HighKeys)
  BY <1>1, ScenarioAssumption DEF SoundSym
<1>4. \/ key_maps[m][k] = key_maps[{}][k]
      \/ {key_maps[m][k].type, key_maps[{}][k].type} \cap {"KT_SHIFT", "KT_SLOCK"} = {}
  BY DEF SameModifiers
<1> QED  BY <1>2, <1>3, <1>4 DEF IsMod, SlockOrShift

(* The sum of sets of modifiers that picks a key map is a set of modifiers. *)
LEMMA XorMods ==
  ASSUME NEW A \in SUBSET Mods, NEW B \in SUBSET Mods, NEW C \in SUBSET Mods
  PROVE  Xor(A \cup C, B) \in SUBSET Mods
  BY DEF Xor

Up(value) == value = 0

(* The key of a modifier is let through to k_shift, or the modifiers are    *)
(* counted anew; a repeat changes nothing, nor does raw mode let a KT_SLOCK *)
(* key through.                                                             *)
LEMMA TranslateStep ==
  ASSUME sc \in Scenarios, SameModifiers,
         NEW s, Shape(s), NEW c \in Consoles, NEW k \in Keys, NEW value \in {0, 1, 2},
         s.kb.rep = (value = 2)
  PROVE  LET t == Translate(s, c, k, value) IN
         \/ Recounted(s, t)
         \/ /\ Idle(s, t)
            /\ IsMod(k) => \/ value = 2
                           \/ key_maps[{}][k].type = "KT_SLOCK" /\ s.table[c].kbdmode \in Raw
         \/ IsMod(k) /\ value # 2 /\ Shifted(s, t, ModOf(k), Up(value))
<1>1. PICK tc : tc = s.table[c]
  OBVIOUS
<1>2. PICK shift_final : shift_final = Xor(s.kb.shift_state \cup tc.slockstate, tc.lockstate)
  OBVIOUS
<1>3. shift_final \in SUBSET Mods
  <2>1. tc.lockstate \in SUBSET Mods /\ tc.slockstate \in SUBSET Mods
    BY <1>1 DEF Shape, TableShape
  <2>2. s.kb.shift_state \in SUBSET Mods
    BY DEF Shape, KbShape
  <2> QED  BY <1>2, <2>1, <2>2, XorMods
<1>4. PICK plain, raw : plain = key_maps[shift_final][k] /\ raw = (tc.kbdmode \in Raw)
  OBVIOUS
<1>5. PICK capsMap : capsMap = key_maps[Xor(shift_final, {"shift"})]
  OBVIOUS
<1>6. PICK sym : sym = IF /\ plain.type = "KT_LETTER" /\ "caps" \in tc.ledflagstate
                          /\ "shift" \in Mods /\ capsMap # NULLMAP
                       THEN capsMap[k] ELSE plain
  OBVIOUS
<1>7. PICK done : done = k_handler(s, c, [sym EXCEPT !.type = plain.type], value = 0)
  OBVIOUS
<1>8. PICK t : t = Translate(s, c, k, value)
  OBVIOUS
<1>9. CASE key_maps[shift_final] = NULLMAP
  <2>1. PICK u : u = [s EXCEPT !.kb = compute_shiftstate(@)]
    OBVIOUS
  <2>2. t = SetTable(u, c, "slockstate", {})
    BY <1>1, <1>2, <1>8, <1>9, <2>1 DEF Translate
  <2>3. Recounted(s, u) /\ Shape(u)
    BY <2>1, ComputeRecounts DEF Recounted
  <2>4. Idle(u, t)
    BY <2>2, <2>3, SetTableIdle
  <2>5. Recounted(s, t)
    BY <2>3, <2>4 DEF Recounted, Idle, RawOnly
  <2> QED  BY <1>8, <2>5
<1>10. CASE key_maps[shift_final] # NULLMAP
  <2>1. /\ SoundSym(plain)
        /\ IsMod(k) => plain = key_maps[{}][k] /\ k \notin HighKeys
        /\ ~ IsMod(k) => plain.type \notin SlockOrShift
    BY <1>3, <1>4, <1>10, MapFacts
  <2>2. CASE k \in HighKeys
    <3>1. t = s
      BY <1>1, <1>2, <1>8, <1>10, <2>2 DEF Translate
    <3> QED  BY <1>8, <2>1, <2>2, <3>1, IdleSame
  <2>3. CASE k \notin HighKeys
    <3>1. t = CASE plain.type = "unicode" ->
                     IF value # 0 /\ ~ raw THEN put_queue(s, c, <<"utf8", plain.val>>) ELSE s
                [] raw /\ plain.type \notin {"unicode", "KT_SPEC", "KT_SHIFT"} -> s
                [] plain.type = "KT_SLOCK" /\ ~ raw -> done
                [] OTHER -> SetTable(done, c, "slockstate", {})
      BY <1>1, <1>2, <1>4, <1>5, <1>6, <1>7, <1>8, <1>10, <2>3 DEF Translate, Raw
    <3>2. CASE plain.type = "unicode"
      <4>1. ~ IsMod(k)
        BY <2>1, <3>2 DEF IsMod, SlockOrShift
      <4>2. PICK code : code = <<"utf8", plain.val>>
        OBVIOUS
      <4>3. t = s \/ t = put_queue(s, c, code)
        BY <3>1, <3>2, <4>2
      <4>4. Idle(s, s) /\ Idle(s, put_queue(s, c, code))
        BY IdleSame, PutIdle
      <4>5. Idle(s, t)
        BY <4>3, <4>4
      <4> QED  BY <1>8, <4>1, <4>5
    <3>3. CASE raw /\ plain.type \notin {"unicode", "KT_SPEC", "KT_SHIFT"}
      <4>1. t = s
        BY <3>1, <3>3
      <4>2. IsMod(k) => key_maps[{}][k].type = "KT_SLOCK"
        BY <2>1, <3>3 DEF IsMod, SlockOrShift
      <4> QED  BY <1>1, <1>4, <1>8, <3>3, <4>1, <4>2, IdleSame
    <3>4. CASE plain.type # "unicode" /\ ~ (raw /\ plain.type \notin {"unicode", "KT_SPEC", "KT_SHIFT"})
      <4>1. t = done \/ t = SetTable(done, c, "slockstate", {})
        BY <3>1, <3>4
      <4>2. PICK sy : sy = [sym EXCEPT !.type = plain.type]
        OBVIOUS
      <4>3. CASE plain.type \in SlockOrShift
        <5>1. sym = plain
          BY <1>6, <4>3 DEF SlockOrShift
        <5>2. sy.type = plain.type /\ sy.val = plain.val
          BY <4>2, <5>1
        <5>3. SoundSym(sy) /\ Modifier(sy) = Modifier(plain)
          BY <2>1, <5>2 DEF SoundSym, Modifier
        <5>4. IsMod(k) /\ Modifier(plain) = ModOf(k)
          BY <2>1, <4>3 DEF ModOf
        <5>5. PICK up \in BOOLEAN : up = Up(value)
          BY DEF Up
        <5>6. done = k_handler(s, c, sy, up)
          BY <1>7, <4>2, <5>5 DEF Up
        <5>7. IF s.kb.rep THEN done = s ELSE Shifted(s, done, ModOf(k), up)
          BY <4>3, <5>2, <5>3, <5>4, <5>6, HandlerStepIs
        <5>8. Shape(done)
          BY <5>7 DEF Shifted
        <5>9. Idle(done, t)
          BY <4>1, <5>8, IdleSame, SetTableIdle
        <5>10. IF value = 2 THEN Idle(s, t) ELSE Shifted(s, t, ModOf(k), up)
          BY <5>7, <5>9 DEF Shifted, Idle, RawOnly
        <5> QED  BY <1>8, <5>4, <5>5, <5>10
      <4>4. CASE plain.type \notin SlockOrShift
        <5>1. ~ IsMod(k)
          BY <2>1, <4>4 DEF IsMod
        <5>2. SoundSym(sy) /\ sy.type \notin SlockOrShift
          BY <1>6, <2>1, <4>2, <4>4 DEF SoundSym, SlockOrShift
        <5>3. (value = 0) \in BOOLEAN
          OBVIOUS
        <5>4. Idle(s, done) \/ Recounted(s, done)
          BY <1>7, <4>2, <5>2, <5>3, HandlerStepIs
        <5>5. Shape(done)
          BY <5>4 DEF Idle, Recounted
        <5>6. Idle(done, t)
          BY <4>1, <5>5, IdleSame, SetTableIdle
        <5>7. Idle(s, t) \/ Recounted(s, t)
          BY <5>4, <5>6 DEF Idle, Recounted, RawOnly
        <5> QED  BY <1>8, <5>1, <5>7
      <4> QED  BY <4>3, <4>4
    <3> QED  BY <3>2, <3>3, <3>4
  <2> QED  BY <2>2, <2>3
<1> QED  BY <1>9, <1>10

(* One event of key k through one handle: what becomes of the keys that are *)
(* down and of the counts.  deaf: the event may be kept from the modifiers. *)
KeyStep(s, t, k, value, deaf) ==
  /\ Shape(t) /\ RawOnly(s.table, t.table)
  /\ deaf \/ t.kb.sysrq_down = s.kb.sysrq_down
  /\ \A x \in Keys : x # k => (x \in t.kb.key_down <=> x \in s.kb.key_down)
  /\ deaf \/ (k \in t.kb.key_down <=> value # 0)
  /\ \A m \in Mods :
       \/ t.kb.shift_down[m] = s.kb.shift_down[m] /\ (k \in ModKeys(m) => value = 2 \/ deaf)
       \/ /\ k \in ModKeys(m) /\ value # 2
          /\ t.kb.shift_down[m] = ShiftCount(s.kb.shift_down[m], Up(value))
       \/ t.kb.shift_down[m] = Cardinality(t.kb.key_down \cap ModKeys(m))

(* Why it may be kept: SysRq, or a KT_SLOCK key in raw mode.                *)
MayMiss(s, c, k, value) ==
  \/ k \in SysrqKeys
  \/ s.kb.sysrq_down /\ value # 0
  \/ key_maps[{}][k].type = "KT_SLOCK" /\ s.table[c].kbdmode \in Raw

(* An event of a key that changes no modifier is one that was kept from     *)
(* them.                                                                    *)
LEMMA IdleKeyStep ==
  ASSUME NEW s, Shape(s), NEW t, Idle(s, t), NEW k, NEW value
  PROVE  KeyStep(s, t, k, value, TRUE)
  BY DEF Idle, KeyStep

(* handle_sysrq: the operations touch no modifier.                          *)
LEMMA SysrqIdle ==
  ASSUME NEW s, Shape(s), NEW c, NEW op
  PROVE  Idle(s, handle_sysrq(s, c, op))
<1>1. \A t : Shape(t) => Idle(t, SetTable(t, c, "kbdmode", "VC_XLATE"))
  BY SetTableIdle DEF Raw
<1>2. \A f : Idle(s, Call(s, c, f)) /\ Shape(Call(s, c, f))
  BY PutIdle, IdleShape
<1>3. Idle(s, reset_vc(Call(s, c, "do_SAK"), c))
  BY <1>1, <1>2, IdleThen DEF reset_vc
<1> QED  BY <1>1, <1>2, <1>3 DEF handle_sysrq

(* key_down: the state of key k is that of the event, nothing else changes. *)
Down(s, t, k, value) ==
  /\ Shape(t) /\ t.table = s.table /\ t.kb.shift_down = s.kb.shift_down
  /\ t.kb.sysrq_down = s.kb.sysrq_down /\ t.kb.rep = s.kb.rep
  /\ \A x \in Keys : x # k => (x \in t.kb.key_down <=> x \in s.kb.key_down)
  /\ (k \in t.kb.key_down <=> value # 0)

(* kbd_keycode writes the state of the key into key_down.                   *)
LEMMA KeyDownIs ==
  ASSUME NEW s, Shape(s), NEW k \in Keys, NEW value
  PROVE  Down(s, KeyDown(s, k, value), k, value)
<1>1. PICK kd : kd = IF value = 0 THEN s.kb.key_down \ {k} ELSE s.kb.key_down \cup {k}
  OBVIOUS
<1>2. PICK t : t = KeyDown(s, k, value)
  OBVIOUS
<1>3. PICK a : a = s.kb
  OBVIOUS
<1>4. t.kb = [a EXCEPT !.key_down = kd] /\ t.table = s.table
      /\ "kb" \in DOMAIN t /\ "table" \in DOMAIN t
  <2>1. t = Set(s, "key_down", kd)
    BY <1>1, <1>2 DEF KeyDown
  <2> QED  BY <1>3, <2>1, SetIs
<1>5. KbShape(a) /\ kd \in SUBSET Keys
  BY <1>1, <1>3 DEF Shape, KbShape
<1>6. PICK l : l = t.kb
  OBVIOUS
<1>7. /\ l.key_down = kd /\ l.shift_down = a.shift_down /\ l.sysrq_down = a.sysrq_down
      /\ l.rep = a.rep /\ KbShape(l)
  BY <1>4, <1>5, <1>6 DEF KbShape
<1>8. Shape(t)
  BY <1>4, <1>6, <1>7 DEF Shape
<1> QED  BY <1>1, <1>2, <1>3, <1>4, <1>6, <1>7, <1>8 DEF Down

(* The whole of kbd_keycode, for any key, value and mode of the console.    *)
LEMMA KeycodeStep ==
  ASSUME sc \in Scenarios, SameModifiers,
         NEW s, Shape(s), NEW c \in Consoles, NEW k \in Keys, NEW value \in {0, 1, 2}, NEW hw
  PROVE  KeyStep(s, kbd_keycode(s, c, k, value, hw), k, value, MayMiss(s, c, k, value))
<1>1. PICK r : r = Set(SetAlt(s, k, value), "rep", value = 2)
  OBVIOUS
<1>2. PICK a : a = emulate_raw(r, c, k, value, hw)
  OBVIOUS
<1>3. PICK q : q = MediumRaw(a, c, k, value)
  OBVIOUS
<1>4. PICK b : b = KeyDown(q, k, value)
  OBVIOUS
<1>5. Idle(s, r) /\ Shape(r) /\ r.kb.rep = (value = 2) /\ r.table = s.table
  <2>1. PICK p : p = SetAlt(s, k, value)
    OBVIOUS
  <2>2. Idle(s, p) /\ Shape(p) /\ p.table = s.table
    <3>1. PICK o : o = (value # 0)
      OBVIOUS
    <3>2. p = s \/ p = Set(s, "sysrq_alt", o)
      BY <2>1, <3>1 DEF SetAlt
    <3>3. PICK f : f = "sysrq_alt" /\ f \notin Counted
      BY DEF Counted
    <3>4. Idle(s, Set(s, f, o))
      BY <3>3, SetIdle
    <3>5. Set(s, f, o).table = s.table
      BY DEF Set, Shape
    <3> QED  BY <3>2, <3>3, <3>4, <3>5, IdleSame, IdleShape
  <2>3. Idle(p, r) /\ r.table = p.table /\ r.kb = [p.kb EXCEPT !["rep"] = (value = 2)]
    BY <1>1, <2>1, <2>2, SetIdle, SetIs DEF Counted
  <2>4. "rep" \in DOMAIN p.kb
    BY <2>2 DEF Shape, KbShape
  <2>5. PICK e \in BOOLEAN : e = (value = 2)
    OBVIOUS
  <2>6. r.kb = [p.kb EXCEPT !["rep"] = e]
    BY <2>3, <2>5
  <2>7. r.kb.rep = e
    BY <2>4, <2>6
  <2> QED  BY <2>2, <2>3, <2>5, <2>7, IdleThen, IdleShape
<1>6. /\ Idle(s, a) /\ Shape(a) /\ a.kb = r.kb /\ a.table = s.table
      /\ Idle(s, q) /\ Shape(q) /\ q.kb = r.kb /\ q.table = s.table
  <2>1. Idle(r, a) /\ a.kb = r.kb /\ a.table = r.table
    <3>1. PICK code : code = <<"raw", k, value = 0>>
      OBVIOUS
    <3>2. a = r \/ a = put_queue(r, c, code)
      BY <1>2, <3>1 DEF emulate_raw
    <3>3. PICK u : u = put_queue(r, c, code)
      OBVIOUS
    <3>4. Shape(r)
      BY <1>5
    <3>5. Idle(r, u)
      BY <3>3, <3>4, PutIdle
    <3>6. u.kb = r.kb /\ u.table = r.table
      BY <3>3, <3>4 DEF put_queue, Shape
    <3>7. Idle(r, r)
      BY <3>4, IdleSame
    <3> QED  BY <3>2, <3>3, <3>5, <3>6, <3>7
  <2>2. Idle(s, a) /\ Shape(a)
    BY <1>5, <2>1, IdleThen, IdleShape
  <2>3. Idle(a, q) /\ q.kb = a.kb /\ q.table = a.table
    <3>1. PICK code : code = <<"code", k, value = 0>>
      OBVIOUS
    <3>2. q = a \/ q = put_queue(a, c, code)
      BY <1>3, <3>1 DEF MediumRaw
    <3>3. PICK u : u = put_queue(a, c, code)
      OBVIOUS
    <3>4. Shape(a)
      BY <2>2
    <3>5. Idle(a, u)
      BY <3>3, <3>4, PutIdle
    <3>6. u.kb = a.kb /\ u.table = a.table
      BY <3>3, <3>4 DEF put_queue, Shape
    <3>7. Idle(a, a)
      BY <3>4, IdleSame
    <3> QED  BY <3>2, <3>3, <3>5, <3>6, <3>7
  <2> QED  BY <1>5, <2>1, <2>2, <2>3, IdleThen, IdleShape
<1>7. /\ Shape(b) /\ b.table = s.table /\ b.kb.rep = (value = 2)
      /\ b.kb.shift_down = s.kb.shift_down /\ b.kb.sysrq_down = s.kb.sysrq_down
      /\ \A x \in Keys : x # k => (x \in b.kb.key_down <=> x \in s.kb.key_down)
      /\ (k \in b.kb.key_down <=> value # 0)
  <2>1. q.kb.shift_down = s.kb.shift_down /\ q.kb.sysrq_down = s.kb.sysrq_down
         /\ q.kb.key_down = s.kb.key_down
    BY <1>6 DEF Idle
  <2>2. /\ Shape(b) /\ b.table = q.table /\ b.kb.shift_down = q.kb.shift_down
        /\ b.kb.sysrq_down = q.kb.sysrq_down /\ b.kb.rep = q.kb.rep
        /\ \A x \in Keys : x # k => (x \in b.kb.key_down <=> x \in q.kb.key_down)
        /\ (k \in b.kb.key_down <=> value # 0)
    <3>1. Shape(q)
      BY <1>6
    <3>2. Down(q, b, k, value)
      BY <1>4, <3>1, KeyDownIs
    <3> QED  BY <3>2 DEF Down
  <2> QED  BY <1>5, <1>6, <2>1, <2>2
<1>8. PICK t : t = kbd_keycode(s, c, k, value, hw)
  OBVIOUS
<1>9. CASE IsSysrq(a, k, value)
  <2>1. t = Set(a, "sysrq_down", value # 0)
    BY <1>1, <1>2, <1>8, <1>9 DEF kbd_keycode
  <2>2. k \in SysrqKeys
    BY <1>9 DEF IsSysrq
  <2>3. PICK l, o : l = a.kb /\ o = (value # 0)
    OBVIOUS
  <2>4. t.kb = [l EXCEPT !["sysrq_down"] = o] /\ t.table = a.table
         /\ "kb" \in DOMAIN t /\ "table" \in DOMAIN t
    BY <1>6, <2>1, <2>3, SetIs
  <2>5. KbShape(l) /\ l.key_down = s.kb.key_down /\ l.shift_down = s.kb.shift_down
    BY <1>6, <2>3 DEF Idle, Shape
  <2>6. PICK n : n = t.kb
    OBVIOUS
  <2>7. KbShape(n) /\ n.key_down = l.key_down /\ n.shift_down = l.shift_down
    BY <2>4, <2>5, <2>6 DEF KbShape
  <2>8. Shape(t) /\ RawOnly(s.table, t.table)
    BY <1>6, <2>4, <2>6, <2>7 DEF Shape, RawOnly
  <2> QED  BY <1>8, <2>2, <2>5, <2>6, <2>7, <2>8 DEF KeyStep, MayMiss
<1>10. CASE ~ IsSysrq(a, k, value) /\ a.kb.sysrq_down /\ value = 1
  <2>1. t = handle_sysrq(a, c, SysrqOp[k])
    BY <1>1, <1>2, <1>8, <1>10 DEF kbd_keycode
  <2>2. Idle(s, t)
    BY <1>6, <2>1, SysrqIdle, IdleThen
  <2>3. s.kb.sysrq_down
    BY <1>6, <1>10 DEF Idle
  <2> QED  BY <1>8, <1>10, <2>2, <2>3 DEF KeyStep, Idle, MayMiss
<1>11. CASE ~ IsSysrq(a, k, value) /\ ~ (a.kb.sysrq_down /\ value = 1)
  <2>1. t = IF NoRepeat(b, c) THEN b ELSE Translate(b, c, k, value)
    BY <1>1, <1>2, <1>3, <1>4, <1>8, <1>11 DEF kbd_keycode
  <2>2. CASE NoRepeat(b, c)
    <3>1. value = 2 /\ t = b
      BY <1>7, <2>1, <2>2 DEF NoRepeat
    <3> QED  BY <1>7, <1>8, <3>1 DEF KeyStep, RawOnly
  <2>3. CASE ~ NoRepeat(b, c)
    <3>1. \/ Recounted(b, t)
          \/ /\ Idle(b, t)
             /\ IsMod(k) => \/ value = 2
                            \/ key_maps[{}][k].type = "KT_SLOCK" /\ b.table[c].kbdmode \in Raw
          \/ IsMod(k) /\ value # 2 /\ Shifted(b, t, ModOf(k), Up(value))
      BY <1>7, <2>1, <2>3, TranslateStep
    <3>2. \A m : k \in ModKeys(m) <=> IsMod(k) /\ ModOf(k) = m
      BY DEF ModKeys, IsMod, ModOf, SlockOrShift
    <3>3. CASE Recounted(b, t)
      BY <1>7, <1>8, <3>3 DEF Recounted, KeyStep, RawOnly
    <3>4. CASE /\ Idle(b, t)
               /\ IsMod(k) => \/ value = 2
                              \/ key_maps[{}][k].type = "KT_SLOCK" /\ b.table[c].kbdmode \in Raw
      BY <1>7, <1>8, <3>2, <3>4 DEF Idle, KeyStep, RawOnly, MayMiss
    <3>5. CASE IsMod(k) /\ value # 2 /\ Shifted(b, t, ModOf(k), Up(value))
      <4>1. t.kb.shift_down = [s.kb.shift_down EXCEPT ![ModOf(k)] = ShiftCount(@, Up(value))]
        BY <1>7, <3>5 DEF Shifted
      <4>2. s.kb.shift_down \in [Mods -> Nat]
        BY DEF Shape, KbShape
      <4>3. \A m \in Mods :
              IF m = ModOf(k) THEN t.kb.shift_down[m] = ShiftCount(s.kb.shift_down[m], Up(value))
              ELSE t.kb.shift_down[m] = s.kb.shift_down[m]
        BY <4>1, <4>2
      <4>4. \A m \in Mods :
              \/ t.kb.shift_down[m] = s.kb.shift_down[m] /\ k \notin ModKeys(m)
              \/ /\ k \in ModKeys(m) /\ value # 2
                 /\ t.kb.shift_down[m] = ShiftCount(s.kb.shift_down[m], Up(value))
        BY <3>2, <3>5, <4>3
      <4>5. /\ Shape(t) /\ RawOnly(b.table, t.table) /\ t.kb.key_down = b.kb.key_down
            /\ t.kb.sysrq_down = b.kb.sysrq_down
        BY <3>5 DEF Shifted
      <4> QED  BY <1>7, <1>8, <4>4, <4>5 DEF KeyStep, RawOnly
    <3> QED  BY <3>1, <3>3, <3>4, <3>5
  <2> QED  BY <2>2, <2>3
<1> QED  BY <1>9, <1>10, <1>11
-----------------------------------------------------------------------------
(* The keys that are held, once for every handle that hears of them.        *)

MineOf(d) == {i \in Range(links) : handle[i].dev = d /\ handle[i].handler = kbd}
Held(m) == {t \in (Devices \X Keys) \X Range(links) :
              /\ t[1][2] \in dev[t[1][1]].key /\ t[1][2] \in ModKeys(m)
              /\ t[2] \in MineOf(t[1][1])}

(* There are finitely many holders: finite devices, keys and links.         *)
LEMMA HoldersFinite ==
  ASSUME NEW list \in Seq(HandleIds), NEW T \in SUBSET ((Devices \X Keys) \X Range(list))
  PROVE  IsFiniteSet(T) /\ Cardinality(T) \in Nat
<1>1. IsFiniteSet(Range(list))
  <2>1. Len(list) \in Nat /\ DOMAIN list = 1 .. Len(list)
    OBVIOUS
  <2>2. IsFiniteSet(DOMAIN list)
    BY <2>1, FS_Interval
  <2>3. list \in Surjection(DOMAIN list, Range(list))
    BY DEF Surjection, Range
  <2> QED  BY <2>2, <2>3, FS_Surjection
<1>2. IsFiniteSet((Devices \X Keys) \X Range(list))
  BY <1>1, FiniteAssumption, FS_Product
<1> QED  BY <1>2, FS_Subset, FS_CardinalityType

(* So the holders of a modifier can be counted.                             *)
LEMMA HeldFinite ==
  ASSUME links \in Seq(HandleIds), NEW m
  PROVE  IsFiniteSet(Held(m)) /\ Cardinality(Held(m)) \in Nat
<1>1. Held(m) \in SUBSET ((Devices \X Keys) \X Range(links))
  BY DEF Held
<1> QED  BY <1>1, HoldersFinite

(* Keys counted anew are no more than the holders they have.                *)
LEMMA Recount ==
  ASSUME NEW R, NEW T, IsFiniteSet(T), \A k \in R : \E t \in T : t[1][2] = k
  PROVE  /\ IsFiniteSet(R) /\ Cardinality(R) \in Nat /\ Cardinality(T) \in Nat
         /\ Cardinality(R) <= Cardinality(T)
<1> DEFINE g == [k \in R |-> CHOOSE t \in T : t[1][2] = k]
<1>1. \A k \in R : g[k] \in T /\ g[k][1][2] = k
  OBVIOUS
<1>2. g \in [R -> T]
  OBVIOUS
<1> HIDE DEF g
<1>3. g \in Injection(R, T)
  BY <1>1, <1>2 DEF Injection, IsInjective
<1> QED  BY <1>3, FS_Injection, FS_CardinalityType

(* The inductive invariant of the modifiers.  A modifier none of whose keys *)
(* is in lost is held down at most once for every holder; a key is down in  *)
(* the handler only while it is down on a device; a device that is gone or  *)
(* that no handle of the keyboard hears holds only lost keys.               *)
Witnessed == \A k \in kb.key_down : k \in lost \/ \E d \in Devices : k \in dev[d].key
GoneLost == \A d \in Devices : dpc[d] \in {"out", "del"} => dev[d].key \subseteq lost
Heard == \A d \in Devices : \A k \in dev[d].key : k \in lost \/ MineOf(d) # {}
CountedHeld == \A m \in Mods : ModKeys(m) \cap lost = {} =>
                 kb.shift_down[m] <= Cardinality(Held(m))

ModInv ==
  /\ sc \in Scenarios /\ KbShape(kb) /\ TableShape(table)
  /\ Witnessed /\ GoneLost /\ Heard /\ CountedHeld

(* What compute_shiftstate would count is no more than the holders.         *)
LEMMA RecountHeld ==
  ASSUME ModInv, DevInv, links \in Seq(HandleIds), NEW m \in Mods, ModKeys(m) \cap lost = {},
         NEW R \in SUBSET (kb.key_down \cap ModKeys(m))
  PROVE  Cardinality(R) <= Cardinality(Held(m))
<1>1. ASSUME NEW k \in R PROVE \E t \in Held(m) : t[1][2] = k
  <2>1. k \in kb.key_down /\ k \in ModKeys(m) /\ k \notin lost /\ k \in Keys
    BY DEF ModKeys
  <2>2. PICK d \in Devices : k \in dev[d].key
    BY <2>1 DEF ModInv, Witnessed
  <2>3. PICK i : i \in MineOf(d)
    BY <2>1, <2>2 DEF ModInv, Heard
  <2>4. i \in Range(links)
    BY <2>3 DEF MineOf
  <2>5. <<<<d, k>>, i>> \in Held(m)
    BY <2>1, <2>2, <2>3, <2>4 DEF Held
  <2> QED  BY <2>5
<1> QED  BY <1>1, HeldFinite, Recount

(* What a step that is not an event of a key may do.                        *)
Frame ==
  /\ sc' = sc /\ KbShape(kb') /\ TableShape(table')
  /\ kb'.key_down = kb.key_down
  /\ \A m \in Mods : \/ kb'.shift_down[m] = kb.shift_down[m]
                     \/ kb'.shift_down[m] = Cardinality(kb.key_down \cap ModKeys(m))
  /\ lost \subseteq lost'
  /\ \A d \in Devices : \/ dev'[d].key = dev[d].key
                        \/ dev'[d].key = {} /\ dev[d].key \subseteq lost'
  /\ \A d \in Devices : MineOf(d) \subseteq MineOf(d)' \/ dev[d].key \subseteq lost'
  /\ \A d \in Devices : dpc'[d] \in {"out", "del"} => dev'[d].key \subseteq lost'

(* A step within the frame keeps the invariant of the modifiers.            *)
LEMMA FrameKeeps ==
  ASSUME ModInv, DevInv, links \in Seq(HandleIds), links' \in Seq(HandleIds), Frame
  PROVE  ModInv'
<1>1. sc' \in Scenarios /\ KbShape(kb)' /\ TableShape(table)'
  BY DEF Frame, ModInv, KbShape, TableShape
<1>2. Witnessed'
  <2> SUFFICES ASSUME NEW k \in kb.key_down, k \notin lost'
               PROVE  \E d \in Devices : k \in dev'[d].key
    BY DEF Witnessed, Frame
  <2>1. PICK d \in Devices : k \in dev[d].key
    BY DEF ModInv, Witnessed, Frame
  <2> QED  BY <2>1 DEF Frame
<1>3. GoneLost'
  BY DEF GoneLost, Frame
<1>4. Heard'
  <2> SUFFICES ASSUME NEW d \in Devices, NEW k \in dev'[d].key, k \notin lost'
               PROVE  MineOf(d)' # {}
    BY DEF Heard
  <2>1. k \in dev[d].key /\ k \notin lost
    BY DEF Frame
  <2>2. MineOf(d) # {}
    BY <2>1 DEF ModInv, Heard
  <2> QED  BY <2>1, <2>2 DEF Frame
<1>5. CountedHeld'
  <2>1. \A m : ModKeys(m)' = ModKeys(m)
    BY DEF ModKeys, Frame, key_maps
  <2> SUFFICES ASSUME NEW m \in Mods, ModKeys(m) \cap lost' = {}
               PROVE  kb'.shift_down[m] <= Cardinality(Held(m)')
    BY <2>1 DEF CountedHeld
  <2>2. ModKeys(m) \cap lost = {}
    BY DEF Frame
  <2>3. kb.shift_down[m] <= Cardinality(Held(m))
    BY <2>2 DEF ModInv, CountedHeld
  <2>4. Cardinality(kb.key_down \cap ModKeys(m)) <= Cardinality(Held(m))
    BY <2>2, RecountHeld
  <2>5. kb'.shift_down[m] <= Cardinality(Held(m))
    BY <2>3, <2>4 DEF Frame
  <2>6. IsFiniteSet(Held(m)') /\ Cardinality(Held(m)') \in Nat
    <3>1. Held(m)' \in SUBSET ((Devices \X Keys) \X Range(links'))
      BY DEF Held
    <3> QED  BY <3>1, HoldersFinite
  <2>7. ASSUME NEW t \in Held(m) PROVE t \in Held(m)'
    <3>1. PICK d \in Devices, k \in Keys, i \in Range(links) :
            t = <<<<d, k>>, i>> /\ k \in dev[d].key /\ k \in ModKeys(m) /\ i \in MineOf(d)
      BY DEF Held
    <3>2. k \notin lost'
      BY <3>1
    <3>3. k \in dev'[d].key /\ i \in MineOf(d)'
      BY <3>1, <3>2 DEF Frame
    <3>4. i \in Range(links')
      BY <3>3 DEF MineOf
    <3> QED  BY <2>1, <3>1, <3>3, <3>4 DEF Held
  <2>8. Cardinality(Held(m)) <= Cardinality(Held(m)') /\ Cardinality(Held(m)) \in Nat
    BY <2>6, <2>7, FS_Subset, HeldFinite
  <2>9. kb'.shift_down[m] \in Nat
    BY <1>1 DEF KbShape
  <2> QED  BY <2>5, <2>6, <2>8, <2>9
<1> QED  BY <1>1, <1>2, <1>3, <1>4, <1>5 DEF ModInv

(* A step of the core that leaves the handler alone is within the frame.    *)
LEMMA LinksFrame ==
  ASSUME ModInv, UNCHANGED <<kb, table, sc>>, lost \subseteq lost',
         \A d \in Devices : \/ dev'[d].key = dev[d].key
                            \/ dev'[d].key = {} /\ dev[d].key \subseteq lost',
         \A d \in Devices : MineOf(d) \subseteq MineOf(d)' \/ dev[d].key \subseteq lost',
         \A d \in Devices : dpc'[d] \in {"out", "del"} => dev'[d].key \subseteq lost'
  PROVE  Frame
<1>1. KbShape(kb') /\ TableShape(table') /\ kb' = kb /\ sc' = sc
  BY DEF ModInv, KbShape, TableShape
<1> QED  BY <1>1 DEF Frame

(* A device that comes again has no key down, and no handle yet.            *)
LEMMA DeviceFrame ==
  ASSUME BindInv, ModInv, NEW d \in Devices, RegisterDevice(d)
  PROVE  Frame
<1>1. /\ dpc[d] = "out" /\ dpc' = [dpc EXCEPT ![d] = "walk"] /\ dev' = [dev EXCEPT ![d] = NewDev]
      /\ links' = Without(links, {i \in HandleIds : handle[i] # NULL /\ handle[i].dev = d})
      /\ UNCHANGED <<handle, kb, table, sc, lost>>
  BY DEF RegisterDevice, input_register_device, Quiet
<1>2. RegTypes /\ Members /\ DevInv
  BY DEF BindInv, RegInv
<1>3. PICK gone : gone = {i \in HandleIds : handle[i] # NULL /\ handle[i].dev = d}
  OBVIOUS
<1>4. Range(links') = Range(links) \ gone
  BY <1>1, <1>2, <1>3, WithoutList DEF RegTypes
<1>5. dev[d].key \subseteq lost
  BY <1>1 DEF ModInv, GoneLost
<1>6. ASSUME NEW e \in Devices, e # d PROVE MineOf(e) \subseteq MineOf(e)'
  BY <1>1, <1>3, <1>4, <1>6 DEF MineOf
<1>7. dev'[d].key = {} /\ \A e \in Devices : e # d => dev'[e].key = dev[e].key
  BY <1>1, <1>2 DEF DevInv, NewDev
<1>8. \A e \in Devices : dpc'[e] \in {"out", "del"} => dev'[e].key \subseteq lost'
  <2> SUFFICES ASSUME NEW e \in Devices, dpc'[e] \in {"out", "del"} PROVE dev'[e].key \subseteq lost'
    OBVIOUS
  <2>1. e # d /\ dpc'[e] = dpc[e]
    BY <1>1, <1>2 DEF RegTypes
  <2> QED  BY <1>1, <1>7, <2>1 DEF ModInv, GoneLost
<1> QED  BY <1>1, <1>5, <1>6, <1>7, <1>8, LinksFrame

(* A connection adds a handle.                                              *)
LEMMA WalkFrame ==
  ASSUME BindInv, ModInv, NEW d \in Devices, NEW h \in Handlers, NEW freed, WalkStep(d, h, freed),
         dpc' = dpc
  PROVE  Frame
<1>1. RegTypes /\ Members /\ DevInv /\ Bindings
  BY DEF BindInv, RegInv
<1>2. SameKeys
  BY <1>1, WalkBinds
<1>3. UNCHANGED <<kb, table, sc, lost>>
  BY DEF WalkStep, Quiet
<1>4. Linked(d, h)
  BY ConnectLinks DEF WalkStep, Linked
<1>5. \A i \in Range(links) : i \in Range(links') /\ handle'[i] = handle[i]
  BY <1>1, <1>4, NewLink
<1>6. \A e \in Devices : MineOf(e) \subseteq MineOf(e)'
  BY <1>5 DEF MineOf
<1>7. \A e \in Devices : dpc'[e] \in {"out", "del"} => dev'[e].key \subseteq lost'
  BY <1>2, <1>3 DEF SameKeys, ModInv, GoneLost
<1> QED  BY <1>2, <1>3, <1>6, <1>7, LinksFrame DEF SameKeys

(* The keys of a device that is unplugged are lost from then on.            *)
LEMMA UnplugFrame ==
  ASSUME BindInv, ModInv, NEW d \in Devices, UnregisterDevice(d)
  PROVE  Frame
<1>1. PICK gone : gone = Range(HandlesOf(d))
  OBVIOUS
<1>2. /\ Release(gone) /\ lost' = lost \cup dev[d].key /\ UNCHANGED <<kb, table, sc>>
      /\ dpc' = [dpc EXCEPT ![d] = "del"]
  BY <1>1 DEF UnregisterDevice, input_unregister_device, Quiet
<1>3. RegTypes /\ Members /\ DevInv
  BY DEF BindInv, RegInv
<1>4. SameKeys
  BY <1>2, <1>3, ReleaseDevices
<1>5. gone = {i \in Range(links) : handle[i].dev = d}
  BY <1>1, <1>3, HandlesSets DEF RegTypes
<1>6. /\ Range(links') = Range(links) \ gone
      /\ \A i \in HandleIds : i \notin gone => handle'[i] = handle[i]
  BY <1>2, <1>3, ReleaseLinks
<1>7. \A i \in Range(links) : i \in HandleIds
  BY <1>3 DEF RegTypes, Range
<1>8. ASSUME NEW e \in Devices, e # d PROVE MineOf(e) \subseteq MineOf(e)'
  <2> SUFFICES ASSUME NEW i \in MineOf(e) PROVE i \in MineOf(e)'
    OBVIOUS
  <2>1. i \in Range(links) /\ i \in HandleIds /\ handle[i].dev = e /\ handle[i].handler = kbd
    BY <1>7 DEF MineOf
  <2>2. i \notin gone
    BY <1>5, <1>8, <2>1
  <2> QED  BY <1>6, <2>1, <2>2 DEF MineOf
<1>9. \A e \in Devices : dpc'[e] \in {"out", "del"} => dev'[e].key \subseteq lost'
  <2> SUFFICES ASSUME NEW e \in Devices, dpc'[e] \in {"out", "del"} PROVE dev'[e].key \subseteq lost'
    OBVIOUS
  <2>1. e = d \/ dpc'[e] = dpc[e]
    BY <1>2, <1>3 DEF RegTypes
  <2> QED  BY <1>2, <1>4, <2>1 DEF SameKeys, ModInv, GoneLost
<1> QED  BY <1>2, <1>4, <1>8, <1>9, LinksFrame DEF SameKeys

(* A handler that leaves is not the keyboard's.                             *)
LEMMA HandlerGoneFrame ==
  ASSUME BindInv, ModInv, NEW h \in Handlers, UnregisterHandler(h)
  PROVE  Frame
<1>1. PICK gone : gone = Range(HandlesOfHandler(h))
  OBVIOUS
<1>2. /\ Release(gone) /\ UNCHANGED <<kb, table, sc, lost, dpc>> /\ h # kbd
  BY <1>1 DEF UnregisterHandler, input_unregister_handler, Quiet
<1>3. RegTypes /\ Members /\ DevInv
  BY DEF BindInv, RegInv
<1>4. SameKeys
  BY <1>2, <1>3, ReleaseDevices
<1>5. gone = {i \in Range(links) : handle[i].handler = h}
  BY <1>1, <1>3, HandlesSets DEF RegTypes
<1>6. /\ Range(links') = Range(links) \ gone
      /\ \A i \in HandleIds : i \notin gone => handle'[i] = handle[i]
  BY <1>2, <1>3, ReleaseLinks
<1>7. \A i \in Range(links) : i \in HandleIds
  BY <1>3 DEF RegTypes, Range
<1>8. ASSUME NEW e \in Devices PROVE MineOf(e) \subseteq MineOf(e)'
  <2> SUFFICES ASSUME NEW i \in MineOf(e) PROVE i \in MineOf(e)'
    OBVIOUS
  <2>1. i \in Range(links) /\ i \in HandleIds /\ handle[i].dev = e /\ handle[i].handler = kbd
    BY <1>7 DEF MineOf
  <2>2. i \notin gone
    BY <1>2, <1>5, <2>1
  <2> QED  BY <1>6, <2>1, <2>2 DEF MineOf
<1>9. \A e \in Devices : dpc'[e] \in {"out", "del"} => dev'[e].key \subseteq lost'
  BY <1>2, <1>4 DEF SameKeys, ModInv, GoneLost
<1> QED  BY <1>2, <1>4, <1>8, <1>9, LinksFrame DEF SameKeys

(* Requests of programs: at most the modifiers are counted anew.            *)
LEMMA SetFieldShape ==
  ASSUME TableShape(table), NEW c, NEW field, field \notin {"lockstate", "slockstate"}, NEW val,
         SetField(c, field, val)
  PROVE  TableShape(table')
<1>1. table' = [table EXCEPT ![c] = [@ EXCEPT ![field] = val]]
  BY DEF SetField
<1>2. table' = [e \in Consoles |-> table'[e]] /\ \A e \in Consoles : e # c => table'[e] = table[e]
  BY <1>1 DEF TableShape
<1>3. c \in Consoles => /\ "lockstate" \in DOMAIN table'[c] /\ "slockstate" \in DOMAIN table'[c]
                        /\ "kbdmode" \in DOMAIN table'[c]
                        /\ table'[c].lockstate = table[c].lockstate
                        /\ table'[c].slockstate = table[c].slockstate
  <2> SUFFICES ASSUME c \in Consoles
               PROVE  /\ "lockstate" \in DOMAIN table'[c] /\ "slockstate" \in DOMAIN table'[c]
                      /\ "kbdmode" \in DOMAIN table'[c]
                      /\ table'[c].lockstate = table[c].lockstate
                      /\ table'[c].slockstate = table[c].slockstate
    OBVIOUS
  <2>1. PICK x : x = table[c]
    OBVIOUS
  <2>2. table'[c] = [x EXCEPT ![field] = val]
    BY <1>1, <2>1 DEF TableShape
  <2>3. "lockstate" \in DOMAIN x /\ "slockstate" \in DOMAIN x /\ "kbdmode" \in DOMAIN x
    BY <2>1 DEF TableShape
  <2> QED  BY <2>1, <2>2, <2>3
<1> QED  BY <1>2, <1>3 DEF TableShape

(* Requests, grabs, lights and the ends of registrations are within the     *)
(* frame.                                                                   *)
LEMMA RequestFrame ==
  ASSUME BindInv, ModInv,
         \/ \E c \in Consoles : ConsoleStep(c)
         \/ \E v \in VT : VtStep(v)
         \/ \E i \in HandleIds : Grab(i)
         \/ kbd_bh
         \/ \E d \in Devices : RegisterDone(d) \/ DeviceRemoved(d)
         \/ \E h \in Handlers : RegisterHandlerDone(h) \/ RegisterHandler(h)
  PROVE  Frame
<1>1. DevInv /\ KbShape(kb) /\ TableShape(table) /\ RegTypes
  BY DEF BindInv, ModInv, RegInv
<1>2. UNCHANGED <<links, handle, sc, lost>> /\ \A d \in Devices : dpc'[d] \in {"out", "del"} => dpc[d] \in {"out", "del"}
  <2>1. CASE \/ \E c \in Consoles : ConsoleStep(c)
             \/ \E v \in VT : VtStep(v)
    BY <2>1 DEF ConsoleStep, SwitchScreen, KDSKBMODE, SetModeFlag, KDSKBLED, KDSETLED, VtStep,
                kd_mksound, kd_nosound, KDKBDREP, write_kbd_phys, NoCore, coreVars
  <2>2. CASE kbd_bh \/ \E i \in HandleIds : Grab(i)
    BY <2>2 DEF kbd_bh, Grab, input_grab_device, input_release_device, Quiet
  <2>3. ASSUME NEW d \in Devices, RegisterDone(d) \/ DeviceRemoved(d)
        PROVE  /\ UNCHANGED <<links, handle, sc, lost>>
               /\ \A e \in Devices : dpc'[e] \in {"out", "del"} => dpc[e] \in {"out", "del"}
    BY <1>1, <2>3 DEF RegTypes, RegisterDone, DeviceReady, DeviceRemoved, DeviceGone, Quiet
  <2>4. CASE \E h \in Handlers : RegisterHandlerDone(h) \/ RegisterHandler(h)
    BY <2>4 DEF RegisterHandlerDone, HandlerReady, RegisterHandler, input_register_handler, Quiet
  <2> QED  BY <2>1, <2>2, <2>3, <2>4
<1>3. SameKeys
  <2>1. CASE \/ \E c \in Consoles : ConsoleStep(c)
             \/ \E v \in VT : VtStep(v)
    BY <1>1, <2>1, RequestDevices
  <2>2. CASE \E i \in HandleIds : Grab(i)
    BY <1>1, <2>2, GrabDevices
  <2>3. CASE kbd_bh
    BY <2>3, LightsBind
  <2>4. CASE \/ \E d \in Devices : RegisterDone(d) \/ DeviceRemoved(d)
             \/ \E h \in Handlers : RegisterHandlerDone(h) \/ RegisterHandler(h)
    BY <2>4 DEF SameKeys, RegisterDone, DeviceReady, DeviceRemoved, DeviceGone,
                RegisterHandlerDone, HandlerReady, RegisterHandler, input_register_handler
  <2> QED  BY <2>1, <2>2, <2>3, <2>4
<1>4. kb' = kb \/ kb' = compute_shiftstate(kb)
  <2>1. CASE \E c \in Consoles : ConsoleStep(c)
    BY <2>1 DEF ConsoleStep, SwitchScreen, KDSKBMODE, SetModeFlag, KDSKBLED, KDSETLED
  <2>2. CASE \E v \in VT : VtStep(v)
    BY <2>2 DEF VtStep, kd_mksound, kd_nosound, KDKBDREP, write_kbd_phys
  <2>3. CASE \/ \E i \in HandleIds : Grab(i)
             \/ kbd_bh
             \/ \E d \in Devices : RegisterDone(d) \/ DeviceRemoved(d)
             \/ \E h \in Handlers : RegisterHandlerDone(h) \/ RegisterHandler(h)
    BY <2>3 DEF Grab, kbd_bh, RegisterDone, DeviceRemoved, RegisterHandlerDone, RegisterHandler, Quiet
  <2> QED  BY <2>1, <2>2, <2>3
<1>5. TableShape(table')
  <2>1. CASE table' = table
    BY <1>1, <2>1
  <2>2. CASE table' # table
    <3>1. PICK c \in Consoles : ConsoleStep(c)
      BY <2>2 DEF VtStep, kd_mksound, kd_nosound, KDKBDREP, write_kbd_phys, Grab, kbd_bh,
                  RegisterDone, DeviceRemoved, RegisterHandlerDone, RegisterHandler, Quiet
    <3>2. \/ \E mode : SetField(c, "kbdmode", mode)
          \/ \E flags : SetField(c, "modeflags", flags)
          \/ \E leds : SetField(c, "ledflagstate", leds)
          \/ \E mode : SetField(c, "ledmode", mode)
      <4>1. CASE KDSKBMODE(c)
        BY <4>1 DEF KDSKBMODE
      <4>2. CASE SetModeFlag(c)
        BY <4>2 DEF SetModeFlag
      <4>3. CASE KDSKBLED(c)
        BY <4>3 DEF KDSKBLED
      <4>4. CASE KDSETLED(c)
        BY <4>4 DEF KDSETLED
      <4> QED  BY <2>2, <3>1, <4>1, <4>2, <4>3, <4>4 DEF ConsoleStep, SwitchScreen
    <3>3. "kbdmode" \notin {"lockstate", "slockstate"} /\ "modeflags" \notin {"lockstate", "slockstate"}
          /\ "ledflagstate" \notin {"lockstate", "slockstate"}
          /\ "ledmode" \notin {"lockstate", "slockstate"}
      OBVIOUS
    <3> QED  BY <1>1, <3>2, <3>3, SetFieldShape
  <2> QED  BY <2>1, <2>2
<1>6. PICK k : k = compute_shiftstate(kb)
  OBVIOUS
<1>7. /\ KbShape(k) /\ k.key_down = kb.key_down
      /\ \A m \in Mods : k.shift_down[m] = Cardinality(kb.key_down \cap ModKeys(m))
  BY <1>1, <1>6, ComputeIs
<1>8. /\ KbShape(kb') /\ kb'.key_down = kb.key_down
      /\ \A m \in Mods : \/ kb'.shift_down[m] = kb.shift_down[m]
                         \/ kb'.shift_down[m] = Cardinality(kb.key_down \cap ModKeys(m))
  <2>1. CASE kb' = kb
    BY <1>1, <2>1
  <2>2. CASE kb' = k
    BY <1>7, <2>2
  <2> QED  BY <1>4, <1>6, <2>1, <2>2
<1>9. \A d \in Devices : MineOf(d) \subseteq MineOf(d)'
  BY <1>2 DEF MineOf
<1>10. \A d \in Devices : dpc'[d] \in {"out", "del"} => dev'[d].key \subseteq lost'
  BY <1>2, <1>3 DEF SameKeys, ModInv, GoneLost
<1> QED  BY <1>2, <1>3, <1>5, <1>8, <1>9, <1>10 DEF Frame, SameKeys

-----------------------------------------------------------------------------
(* One event and the handles it reaches.                                    *)

(* kbd_event, of anything but a key.                                        *)
LEMMA EventIdle ==
  ASSUME NEW s, Shape(s), NEW i, NEW e, e.type # "EV_KEY"
  PROVE  Idle(s, kbd_event(s, i, e))
<1>1. PICK c, t, raw : c = vt[private[i]].fg /\ t = [s EXCEPT !.led = TRUE] /\ raw = <<"raw", e.value>>
  OBVIOUS
<1>2. Idle(s, t) /\ Shape(t)
  BY <1>1, PutIdle, IdleShape
<1>3. PICK u : u = put_queue(t, c, raw)
  OBVIOUS
<1>4. Idle(t, u)
  BY <1>2, <1>3, PutIdle
<1>5. Idle(s, u) /\ Idle(s, s)
  BY <1>2, <1>4, IdleThen, IdleSame
<1>6. kbd_event(s, i, e) \in {s, t, u}
  BY <1>1, <1>3 DEF kbd_event
<1> QED  BY <1>2, <1>5, <1>6

(* kbd_event, of a key, through a handle that has a VT.                     *)
LEMMA EventKey ==
  ASSUME sc \in Scenarios, SameModifiers, VtShape(vt),
         NEW s, Shape(s), NEW i, private[i] \in VT, NULL \notin VT,
         NEW e, e.type = "EV_KEY", e.code \in Keys, e.value \in {0, 1, 2}
  PROVE  KeyStep(s, kbd_event(s, i, e), e.code, e.value,
                 MayMiss(s, vt[private[i]].fg, e.code, e.value))
<1>1. PICK c, t : c = vt[private[i]].fg /\ t = [s EXCEPT !.led = TRUE]
  OBVIOUS
<1>2. c \in Consoles
  BY <1>1 DEF VtShape
<1>3. t.kb = s.kb /\ t.table = s.table /\ Shape(t)
  BY <1>1 DEF Shape
<1>4. PICK k, value, hw : k = e.code /\ value = e.value /\ hw = HW_RAW(handle[i].dev)
  OBVIOUS
<1>5. PICK r : r = kbd_keycode(t, c, k, value, hw)
  OBVIOUS
<1>6. kbd_event(s, i, e) = r
  BY <1>1, <1>4, <1>5 DEF kbd_event
<1>7. PICK miss : miss = MayMiss(t, c, k, value)
  OBVIOUS
<1>8. KeyStep(t, r, k, value, MayMiss(t, c, k, value))
  BY <1>2, <1>3, <1>4, <1>5, KeycodeStep
<1>9. MayMiss(t, c, k, value) <=> MayMiss(s, c, k, value)
  BY <1>3 DEF MayMiss
<1>10. KeyStep(s, r, k, value, MayMiss(s, c, k, value))
  BY <1>3, <1>8, <1>9 DEF KeyStep
<1> QED  BY <1>1, <1>4, <1>6, <1>10

(* The loop over the receivers: its states after n of them exist.           *)
Loop(f, s, got, e) ==
  \A n \in 0 .. Len(got) : f[n] = IF n = 0 THEN s ELSE kbd_event(f[n - 1], got[n], e)

(* The loop of input_event over its receivers ends, in the last of these    *)
(* states.                                                                  *)
LEMMA DeliverRun ==
  ASSUME NEW s, NEW got, Len(got) \in Nat, NEW e
  PROVE  \E f : Loop(f, s, got, e) /\ Deliver(s, got, e) = f[Len(got)]
<1>1. PICK N : N \in Nat /\ N = Len(got)
  OBVIOUS
<1> DEFINE Good(f, k) == f = [n \in 0 .. k |-> IF n = 0 THEN s ELSE kbd_event(f[n - 1], got[n], e)]
           S == {k \in Nat : \E f : Good(f, k)}
<1>2. 0 \in S
  <2> Good([n \in 0 .. 0 |-> s], 0)  OBVIOUS
  <2> QED  OBVIOUS
<1>3. ASSUME NEW k \in Nat, k \in S PROVE k + 1 \in S
  <2>1. PICK f : Good(f, k)
    BY <1>3
  <2> DEFINE g == [n \in 0 .. k + 1 |-> IF n <= k THEN f[n] ELSE kbd_event(f[k], got[n], e)]
  <2>2. \A n \in 0 .. k + 1 : g[n] = IF n = 0 THEN s ELSE kbd_event(g[n - 1], got[n], e)
    <3> SUFFICES ASSUME NEW n \in 0 .. k + 1
                 PROVE  g[n] = IF n = 0 THEN s ELSE kbd_event(g[n - 1], got[n], e)
      OBVIOUS
    <3>1. CASE n = 0
      BY <2>1, <3>1
    <3>2. CASE n # 0 /\ n <= k
      <4>1. n - 1 \in 0 .. k /\ n - 1 \in 0 .. k + 1 /\ n \in 0 .. k
        BY <3>2
      <4>2. f[n] = kbd_event(f[n - 1], got[n], e)
        BY <2>1, <3>2, <4>1
      <4>3. g[n] = f[n] /\ g[n - 1] = f[n - 1]
        BY <3>2, <4>1
      <4> QED  BY <3>2, <4>2, <4>3
    <3>3. CASE n = k + 1
      <4>1. k \in 0 .. k + 1
        OBVIOUS
      <4>2. g[k] = f[k]
        BY <4>1
      <4> QED  BY <3>3, <4>2
    <3> QED  BY <3>1, <3>2, <3>3
  <2>3. Good(g, k + 1)
    BY <2>2
  <2> HIDE DEF g
  <2> QED  BY <2>3
<1>4. PICK f : Good(f, N)
  <2> HIDE DEF S
  <2>1. N \in S
    BY <1>1, <1>2, <1>3, Inductive
  <2> QED  BY <2>1 DEF S
<1> DEFINE F == CHOOSE h : h = [n \in 0 .. N |-> IF n = 0 THEN s ELSE kbd_event(h[n - 1], got[n], e)]
<1>5. F = [n \in 0 .. N |-> IF n = 0 THEN s ELSE kbd_event(F[n - 1], got[n], e)]
  BY <1>4
<1>6. Deliver(s, got, e) = F[N]
  BY <1>1 DEF Deliver
<1> HIDE DEF F
<1>7. Loop(F, s, got, e)
  BY <1>1, <1>5 DEF Loop
<1> QED  BY <1>1, <1>6, <1>7

(* An event that is no key goes through all receivers without touching a    *)
(* modifier.                                                                *)
LEMMA DeliverIdle ==
  ASSUME NEW s, Shape(s), NEW got, Len(got) \in Nat, NEW e, e.type # "EV_KEY"
  PROVE  Idle(s, Deliver(s, got, e))
<1>1. PICK f : Loop(f, s, got, e) /\ Deliver(s, got, e) = f[Len(got)]
  BY DeliverRun
<1> DEFINE S == {n \in Nat : n <= Len(got) => Idle(s, f[n])}
<1>2. 0 \in S
  <2>1. 0 \in 0 .. Len(got)
    OBVIOUS
  <2>2. f[0] = s
    BY <1>1, <2>1 DEF Loop
  <2> QED  BY <2>2, IdleSame
<1>3. ASSUME NEW n \in Nat, n \in S PROVE n + 1 \in S
  <2> SUFFICES ASSUME n + 1 <= Len(got) PROVE Idle(s, f[n + 1])
    OBVIOUS
  <2>1. PICK t : t = f[n] /\ Idle(s, t) /\ Shape(t)
    BY <1>3, IdleShape
  <2>2. f[n + 1] = kbd_event(t, got[n + 1], e)
    BY <1>1, <2>1 DEF Loop
  <2>3. Idle(t, f[n + 1])
    BY <2>1, <2>2, EventIdle
  <2> QED  BY <2>1, <2>3, IdleThen
<1> HIDE DEF S
<1>4. Len(got) \in S
  BY <1>2, <1>3, Inductive
<1> QED  BY <1>1, <1>4 DEF S

(* Who receives.                                                            *)
LEMMA MineList ==
  ASSUME NEW list \in Seq(HandleIds)
  PROVE  /\ Mine(list) \in Seq(HandleIds)
         /\ Range(Mine(list)) = {i \in Range(list) : handle[i].handler = kbd}
         /\ Once(list) => Once(Mine(list))
<1> DEFINE places == {n \in DOMAIN list : handle[list[n]].handler = kbd}
<1>1. places \in SUBSET (DOMAIN list)
  OBVIOUS
<1>2. {list[p] : p \in places} = {i \in Range(list) : handle[i].handler = kbd}
  BY DEF Range
<1>3. Mine(list) = Kept(list, places)
  BY DEF Mine
<1> HIDE DEF places
<1> QED  BY <1>1, <1>2, <1>3, KeptList

(* The receivers of an event, the grab or the open handles, are a list of   *)
(* handles.                                                                 *)
LEMMA ReceiversList ==
  ASSUME RegTypes, DevInv, NEW d \in Devices
  PROVE  Receivers(d) \in Seq(HandleIds)
<1>1. CASE dev[d].grab # NULL
  <2>1. dev[d].grab \in HandleIds
    BY <1>1 DEF DevInv, DevType
  <2> QED  BY <1>1, <2>1 DEF Receivers
<1>2. CASE dev[d].grab = NULL
  <2>1. PICK list : list = HandlesOf(d)
    OBVIOUS
  <2>2. list \in Seq(HandleIds)
    BY <2>1, HandlesSets DEF RegTypes
  <2> DEFINE places == {n \in DOMAIN list : handle[list[n]].open > 0}
  <2>3. places \in SUBSET (DOMAIN list) /\ Receivers(d) = Kept(list, places)
    BY <1>2, <2>1 DEF Receivers
  <2> HIDE DEF places
  <2> QED  BY <2>2, <2>3, KeptList
<1> QED  BY <1>1, <1>2

(* The states of the loop of one event: each handle heard it, unless the    *)
(* event may have been kept from the modifiers.                             *)
KeyRun(f, N, k, value, deaf) == \A n \in 1 .. N : KeyStep(f[n - 1], f[n], k, value, deaf)

(* One event of a key leaves a well-formed state.                           *)
LEMMA StepShape ==
  ASSUME NEW s, NEW t, NEW k, NEW value, NEW deaf, KeyStep(s, t, k, value, deaf)
  PROVE  Shape(t) /\ RawOnly(s.table, t.table) /\ (deaf \/ t.kb.sysrq_down = s.kb.sysrq_down)
  BY DEF KeyStep

(* An event that was heard is also one that may have been kept.             *)
LEMMA StepDeaf ==
  ASSUME NEW s, NEW t, NEW k, NEW value, NEW deaf, KeyStep(s, t, k, value, deaf)
  PROVE  KeyStep(s, t, k, value, TRUE)
  BY DEF KeyStep

(* A key event through all receivers is such a run, from the state before   *)
(* it.                                                                      *)
LEMMA DeliverKey ==
  ASSUME BindInv, ModInv, SameModifiers, NEW d \in Devices, NEW k \in Keys, NEW value \in {0, 1, 2},
         NEW e, e = Event("EV_KEY", k, value), NEW got, got = Mine(Receivers(d)),
         NEW deaf \in BOOLEAN, Swallowed(d, e) => deaf
  PROVE  /\ got \in Seq(HandleIds)
         /\ \E f : /\ f[0] = Now /\ KeyRun(f, Len(got), k, value, deaf)
                   /\ Deliver(Now, got, e) = f[Len(got)]
<1>1. RegTypes /\ DevInv /\ Bindings /\ VtShape(vt)
  BY DEF BindInv, RegInv, Bindings
<1>2. got \in Seq(HandleIds)
  BY <1>1, ReceiversList, MineList
<1>3. PICK s : s = Now
  OBVIOUS
<1>4. Shape(s) /\ s.kb = kb /\ s.table = table
  BY <1>3 DEF Now, Shape, ModInv
<1>5. PICK N : N = Len(got) /\ N \in Nat
  BY <1>2
<1>6. PICK f : Loop(f, s, got, e) /\ Deliver(s, got, e) = f[N]
  BY <1>5, DeliverRun
<1>7. f[0] = s /\ \A n \in Nat : n + 1 <= N => f[n + 1] = kbd_event(f[n], got[n + 1], e)
  BY <1>5, <1>6 DEF Loop
<1>8. e.type = "EV_KEY" /\ e.code = k /\ e.value = value
  BY DEF Event
<1>9. \A n \in 1 .. N : got[n] \in HandleIds /\ n \in DOMAIN got
  BY <1>2, <1>5
<1>10. ~ deaf => /\ \A n \in DOMAIN got : private[got[n]] # NULL
                 /\ k \notin SysrqKeys /\ ~ (kb.sysrq_down /\ value # 0)
                 /\ \A n \in DOMAIN got : \/ key_maps[{}][k].type # "KT_SLOCK"
                                          \/ table[vt[private[got[n]]].fg].kbdmode \notin Raw
  BY <1>8 DEF Swallowed, Raw
<1> DEFINE Fine(n) == /\ Shape(f[n]) /\ RawOnly(table, f[n].table)
                      /\ deaf \/ f[n].kb.sysrq_down = kb.sysrq_down
           S == {n \in Nat : n <= N => Fine(n) /\ KeyRun(f, n, k, value, deaf)}
<1>11. 0 \in S
  BY <1>4, <1>7 DEF KeyRun, RawOnly
<1>12. ASSUME NEW n \in Nat, n + 1 <= N, Fine(n) PROVE KeyStep(f[n], f[n + 1], k, value, deaf)
  <2>1. PICK t, i : t = f[n] /\ i = got[n + 1]
    OBVIOUS
  <2>2. i \in HandleIds /\ n + 1 \in DOMAIN got /\ f[n + 1] = kbd_event(t, i, e) /\ Shape(t)
    BY <1>7, <1>9, <1>12, <2>1
  <2>3. private[i] \in VT \cup {NULL}
    BY <1>1, <2>2 DEF Bindings
  <2>4. CASE private[i] = NULL
    <3>1. deaf
      BY <1>10, <2>1, <2>2, <2>4
    <3>2. f[n + 1] = t
      BY <2>2, <2>4 DEF kbd_event
    <3>3. KeyStep(t, t, k, value, TRUE)
      BY <2>2, IdleSame, IdleKeyStep
    <3> QED  BY <2>1, <3>1, <3>2, <3>3
  <2>5. CASE private[i] \in VT
    <3>1. PICK u, c : u = f[n + 1] /\ c = vt[private[i]].fg
      OBVIOUS
    <3>2. KeyStep(t, u, k, value, MayMiss(t, c, k, value))
      BY <1>1, <1>8, <2>2, <2>5, <3>1, VtNames, EventKey DEF ModInv
    <3>3. CASE deaf
      <4>1. KeyStep(t, u, k, value, TRUE)
        BY <3>2, StepDeaf
      <4> QED  BY <2>1, <3>1, <3>3, <4>1
    <3>4. CASE ~ deaf
      <4>1. c \in Consoles
        BY <1>1, <2>5, <3>1 DEF VtShape
      <4>2. ~ MayMiss(t, c, k, value)
        BY <1>10, <1>12, <2>1, <2>2, <3>1, <3>4, <4>1 DEF MayMiss, RawOnly
      <4>3. KeyStep(t, u, k, value, FALSE)
        BY <3>2, <4>2 DEF KeyStep
      <4> QED  BY <2>1, <3>1, <3>4, <4>3
    <3> QED  BY <3>3, <3>4
  <2> QED  BY <2>3, <2>4, <2>5
<1>13. ASSUME NEW n \in Nat, n \in S PROVE n + 1 \in S
  <2> SUFFICES ASSUME n + 1 <= N PROVE Fine(n + 1) /\ KeyRun(f, n + 1, k, value, deaf)
    OBVIOUS
  <2>1. Fine(n) /\ KeyRun(f, n, k, value, deaf)
    BY <1>5, <1>13
  <2>2. PICK t, u : t = f[n] /\ u = f[n + 1]
    OBVIOUS
  <2>3. KeyStep(t, u, k, value, deaf)
    BY <1>12, <2>1, <2>2
  <2>4. Shape(u) /\ RawOnly(t.table, u.table) /\ (deaf \/ u.kb.sysrq_down = t.kb.sysrq_down)
    BY <2>3, StepShape
  <2>5. Fine(n + 1)
    BY <2>1, <2>2, <2>4 DEF RawOnly
  <2>6. KeyRun(f, n + 1, k, value, deaf)
    <3> SUFFICES ASSUME NEW m \in 1 .. n + 1 PROVE KeyStep(f[m - 1], f[m], k, value, deaf)
      BY DEF KeyRun
    <3>1. m \in 1 .. n \/ m = n + 1
      OBVIOUS
    <3> QED  BY <2>1, <2>2, <2>3, <3>1 DEF KeyRun
  <2> QED  BY <2>5, <2>6
<1> HIDE DEF S
<1>14. N \in S
  BY <1>5, <1>11, <1>13, Inductive
<1> QED  BY <1>2, <1>3, <1>5, <1>6, <1>7, <1>14 DEF S

(* Such a loop changes the state of key k alone, and in every handler.      *)
LEMMA RunKeys ==
  ASSUME NEW f, Shape(f[0]), NEW N \in Nat, NEW k \in Keys, NEW value, NEW deaf,
         KeyRun(f, N, k, value, deaf), NEW n \in 0 .. N
  PROVE  /\ Shape(f[n])
         /\ \A x \in Keys : x # k => (x \in f[n].kb.key_down <=> x \in f[0].kb.key_down)
         /\ n # 0 => deaf \/ (k \in f[n].kb.key_down <=> value # 0)
<1> DEFINE Same(j) == /\ Shape(f[j])
                      /\ \A x \in Keys : x # k => (x \in f[j].kb.key_down <=> x \in f[0].kb.key_down)
           S == {j \in Nat : j <= N => Same(j)}
<1>1. 0 \in S
  OBVIOUS
<1>2. ASSUME NEW j \in Nat, j \in S PROVE j + 1 \in S
  <2> SUFFICES ASSUME j + 1 <= N PROVE Same(j + 1)
    OBVIOUS
  <2>1. Same(j)
    BY <1>2
  <2>2. PICK t, u : t = f[j] /\ u = f[j + 1]
    OBVIOUS
  <2>3. KeyStep(t, u, k, value, deaf)
    <3>1. j + 1 \in 1 .. N /\ (j + 1) - 1 = j
      OBVIOUS
    <3> QED  BY <2>2, <3>1 DEF KeyRun
  <2>4. Shape(u) /\ \A x \in Keys : x # k => (x \in u.kb.key_down <=> x \in t.kb.key_down)
    BY <2>3 DEF KeyStep
  <2> QED  BY <2>1, <2>2, <2>4
<1> HIDE DEF S
<1>3. n \in S
  BY <1>1, <1>2, Inductive
<1>4. Same(n)
  BY <1>3 DEF S
<1>5. ASSUME n # 0 PROVE deaf \/ (k \in f[n].kb.key_down <=> value # 0)
  <2>1. KeyStep(f[n - 1], f[n], k, value, deaf)
    BY <1>5 DEF KeyRun
  <2> QED  BY <2>1 DEF KeyStep
<1> QED  BY <1>4, <1>5

(* How the count of a modifier goes up or down with the handlers that hear  *)
(* of one of its keys, counted by a bound B[n] after the first n.           *)
LEMMA RunCounts ==
  ASSUME NEW f, Shape(f[0]), NEW N \in Nat, NEW k \in Keys, NEW value, NEW deaf,
         KeyRun(f, N, k, value, deaf), NEW m \in Mods, deaf => k \notin ModKeys(m),
         NEW B, \A n \in 0 .. N : B[n] \in Nat, f[0].kb.shift_down[m] <= B[0],
         \A n \in 1 .. N : Cardinality(f[n].kb.key_down \cap ModKeys(m)) <= B[n],
         \A n \in 1 .. N : B[n] = IF k \notin ModKeys(m) \/ value = 2 THEN B[n - 1]
                                  ELSE IF Up(value) THEN B[n - 1] - 1 ELSE B[n - 1] + 1
  PROVE  f[N].kb.shift_down[m] <= B[N]
<1> DEFINE S == {n \in Nat : n <= N => f[n].kb.shift_down[m] <= B[n]}
<1>1. 0 \in S
  OBVIOUS
<1>2. ASSUME NEW n \in Nat, n \in S PROVE n + 1 \in S
  <2> SUFFICES ASSUME n + 1 <= N PROVE f[n + 1].kb.shift_down[m] <= B[n + 1]
    OBVIOUS
  <2>1. n + 1 \in 1 .. N /\ (n + 1) - 1 = n /\ n \in 0 .. N /\ n + 1 \in 0 .. N
    OBVIOUS
  <2>2. PICK t, u : t = f[n] /\ u = f[n + 1]
    OBVIOUS
  <2>3. KeyStep(t, u, k, value, deaf)
    BY <2>1, <2>2 DEF KeyRun
  <2>4. t.kb.shift_down[m] <= B[n] /\ B[n] \in Nat /\ B[n + 1] \in Nat
    BY <1>2, <2>1, <2>2
  <2>5. t.kb.shift_down[m] \in Nat
    BY <2>1, <2>2, RunKeys DEF Shape, KbShape
  <2>6. B[n + 1] = IF k \notin ModKeys(m) \/ value = 2 THEN B[n]
                   ELSE IF Up(value) THEN B[n] - 1 ELSE B[n] + 1
    BY <2>1
  <2>7. Cardinality(u.kb.key_down \cap ModKeys(m)) <= B[n + 1]
    BY <2>1, <2>2
  <2>8. \/ u.kb.shift_down[m] = t.kb.shift_down[m] /\ (k \in ModKeys(m) => value = 2 \/ deaf)
        \/ /\ k \in ModKeys(m) /\ value # 2
           /\ u.kb.shift_down[m] = ShiftCount(t.kb.shift_down[m], Up(value))
        \/ u.kb.shift_down[m] = Cardinality(u.kb.key_down \cap ModKeys(m))
    BY <2>3 DEF KeyStep
  <2>9. CASE u.kb.shift_down[m] = t.kb.shift_down[m] /\ (k \in ModKeys(m) => value = 2 \/ deaf)
    BY <2>2, <2>4, <2>6, <2>9
  <2>10. CASE /\ k \in ModKeys(m) /\ value # 2
              /\ u.kb.shift_down[m] = ShiftCount(t.kb.shift_down[m], Up(value))
    <3>1. PICK x, y : x = t.kb.shift_down[m] /\ y = u.kb.shift_down[m]
      OBVIOUS
    <3>2. y = IF ~ Up(value) THEN x + 1 ELSE IF x > 0 THEN x - 1 ELSE 0
      BY <2>10, <3>1 DEF ShiftCount
    <3>3. x \in Nat /\ x <= B[n]
      BY <2>4, <2>5, <3>1
    <3>4. B[n + 1] = IF Up(value) THEN B[n] - 1 ELSE B[n] + 1
      BY <2>6, <2>10
    <3>5. y <= B[n + 1]
      BY <2>4, <3>2, <3>3, <3>4
    <3> QED  BY <2>2, <3>1, <3>5
  <2>11. CASE u.kb.shift_down[m] = Cardinality(u.kb.key_down \cap ModKeys(m))
    BY <2>2, <2>7, <2>11
  <2> QED  BY <2>8, <2>9, <2>10, <2>11
<1> HIDE DEF S
<1>3. N \in S
  BY <1>1, <1>2, Inductive
<1> QED  BY <1>3 DEF S

(* The holders that key k of device d adds or takes away.                   *)
HoldersOf(d, k) == {<<<<d, k>>, i>> : i \in MineOf(d)}

(* They are as many as there are handles that hear, when nothing is kept    *)
(* from them.                                                               *)
LEMMA HoldersCount ==
  ASSUME RegTypes, NEW d \in Devices, NEW k \in Keys, NEW got, got = Mine(HandlesOf(d))
  PROVE  /\ IsFiniteSet(HoldersOf(d, k)) /\ Cardinality(HoldersOf(d, k)) = Len(got)
         /\ Len(got) \in Nat /\ Range(got) = MineOf(d)
<1>1. /\ HandlesOf(d) \in Seq(HandleIds) /\ Once(HandlesOf(d))
      /\ Range(HandlesOf(d)) = {i \in Range(links) : handle[i].dev = d}
  BY HandlesSets DEF RegTypes
<1>2. got \in Seq(HandleIds) /\ Once(got) /\ Range(got) = MineOf(d)
  BY <1>1, MineList DEF MineOf
<1>3. PICK N : N = Len(got) /\ N \in Nat /\ DOMAIN got = 1 .. N
  BY <1>2
<1> DEFINE h == [n \in 1 .. N |-> <<<<d, k>>, got[n]>>]
<1>4. h \in Bijection(1 .. N, HoldersOf(d, k))
  <2>1. \A n \in 1 .. N : h[n] \in HoldersOf(d, k)
    BY <1>2, <1>3 DEF HoldersOf, Range
  <2>2. \A t \in HoldersOf(d, k) : \E n \in 1 .. N : h[n] = t
    BY <1>2, <1>3 DEF HoldersOf, Range
  <2>3. \A a, b \in 1 .. N : h[a] = h[b] => a = b
    BY <1>2, <1>3 DEF Once
  <2>4. h = [n \in 1 .. N |-> h[n]]
    OBVIOUS
  <2> HIDE DEF h
  <2> QED  BY <2>1, <2>2, <2>3, <2>4 DEF Bijection, Injection, IsInjective, Surjection
<1> HIDE DEF h
<1>5. IsFiniteSet(1 .. N) /\ Cardinality(1 .. N) = N
  <2>1. N \in Nat
    BY <1>3
  <2> QED  BY <2>1, FS_Interval
<1> QED  BY <1>2, <1>3, <1>4, <1>5, FS_Bijection DEF ExistsBijection

(* The holders after an event of key k: the same, or those of k added or    *)
(* taken away.                                                              *)
LEMMA HeldAfter ==
  ASSUME links \in Seq(HandleIds), NEW d \in Devices, NEW k \in Keys, NEW m,
         UNCHANGED <<links, handle, sc>>,
         \A e \in Devices : e # d => dev'[e].key = dev[e].key,
         \A x \in Keys : x # k => (x \in dev'[d].key <=> x \in dev[d].key)
  PROVE  /\ k \notin ModKeys(m) \/ (k \in dev'[d].key <=> k \in dev[d].key) => Held(m)' = Held(m)
         /\ k \in ModKeys(m) /\ k \in dev'[d].key /\ k \notin dev[d].key =>
              Held(m)' = Held(m) \cup HoldersOf(d, k) /\ Held(m) \cap HoldersOf(d, k) = {}
         /\ k \in ModKeys(m) /\ k \notin dev'[d].key /\ k \in dev[d].key =>
              Held(m)' = Held(m) \ HoldersOf(d, k) /\ HoldersOf(d, k) \subseteq Held(m)
<1>1. ModKeys(m)' = ModKeys(m) /\ \A e : MineOf(e)' = MineOf(e)
  BY DEF ModKeys, key_maps, MineOf
<1>2. \A t : t \in Held(m) <=> \E e \in Devices, x \in Keys, i \in Range(links) :
              /\ t = <<<<e, x>>, i>> /\ x \in dev[e].key /\ x \in ModKeys(m) /\ i \in MineOf(e)
  BY DEF Held
<1>3. \A t : t \in Held(m)' <=> \E e \in Devices, x \in Keys, i \in Range(links) :
              /\ t = <<<<e, x>>, i>> /\ x \in dev'[e].key /\ x \in ModKeys(m) /\ i \in MineOf(e)
  BY <1>1 DEF Held
<1>4. \A t : t \in HoldersOf(d, k) <=> \E i \in Range(links) : t = <<<<d, k>>, i>> /\ i \in MineOf(d)
  BY DEF HoldersOf, MineOf
<1>5. \A e \in Devices, x \in Keys : <<e, x>> # <<d, k>> => (x \in dev'[e].key <=> x \in dev[e].key)
  OBVIOUS
<1>6. ASSUME k \notin ModKeys(m) \/ (k \in dev'[d].key <=> k \in dev[d].key) PROVE Held(m)' = Held(m)
  <2>1. \A e \in Devices, x \in Keys : x \in ModKeys(m) => (x \in dev'[e].key <=> x \in dev[e].key)
    BY <1>6
  <2>2. \A t : t \in Held(m)' <=> t \in Held(m)
    BY <1>2, <1>3, <2>1
  <2> QED  BY <2>2
<1>7. ASSUME k \in ModKeys(m), k \in dev'[d].key, k \notin dev[d].key
      PROVE  Held(m)' = Held(m) \cup HoldersOf(d, k) /\ Held(m) \cap HoldersOf(d, k) = {}
  <2>1. ASSUME NEW e \in Devices, NEW x \in Keys
        PROVE  x \in dev'[e].key <=> x \in dev[e].key \/ (e = d /\ x = k)
    BY <1>7
  <2>2. ASSUME NEW t \in Held(m)' PROVE t \in Held(m) \/ t \in HoldersOf(d, k)
    <3>1. PICK e \in Devices, x \in Keys, i \in Range(links) :
              /\ t = <<<<e, x>>, i>> /\ x \in dev'[e].key /\ x \in ModKeys(m) /\ i \in MineOf(e)
      BY <1>3, <2>2
    <3> QED  BY <1>2, <1>4, <2>1, <3>1
  <2>3. ASSUME NEW t, t \in Held(m) PROVE t \in Held(m)' /\ t \notin HoldersOf(d, k)
    <3>1. PICK e \in Devices, x \in Keys, i \in Range(links) :
              /\ t = <<<<e, x>>, i>> /\ x \in dev[e].key /\ x \in ModKeys(m) /\ i \in MineOf(e)
      BY <1>2, <2>3
    <3>2. x \in dev'[e].key
      BY <2>1, <3>1
    <3>3. t \in Held(m)'
      BY <1>3, <3>1, <3>2
    <3>4. t \notin HoldersOf(d, k)
      BY <1>4, <1>7, <3>1
    <3> QED  BY <3>3, <3>4
  <2>4. ASSUME NEW t \in HoldersOf(d, k) PROVE t \in Held(m)'
    BY <1>3, <1>4, <1>7, <2>4
  <2> QED  BY <2>2, <2>3, <2>4
<1>8. ASSUME k \in ModKeys(m), k \notin dev'[d].key, k \in dev[d].key
      PROVE  Held(m)' = Held(m) \ HoldersOf(d, k) /\ HoldersOf(d, k) \subseteq Held(m)
  <2>1. ASSUME NEW e \in Devices, NEW x \in Keys
        PROVE  x \in dev'[e].key <=> x \in dev[e].key /\ ~ (e = d /\ x = k)
    BY <1>8
  <2>2. ASSUME NEW t, t \in Held(m)' PROVE t \in Held(m) /\ t \notin HoldersOf(d, k)
    <3>1. PICK e \in Devices, x \in Keys, i \in Range(links) :
              /\ t = <<<<e, x>>, i>> /\ x \in dev'[e].key /\ x \in ModKeys(m) /\ i \in MineOf(e)
      BY <1>3, <2>2
    <3> QED  BY <1>2, <1>4, <2>1, <3>1
  <2>3. ASSUME NEW t, t \in Held(m), t \notin HoldersOf(d, k) PROVE t \in Held(m)'
    <3>1. PICK e \in Devices, x \in Keys, i \in Range(links) :
              /\ t = <<<<e, x>>, i>> /\ x \in dev[e].key /\ x \in ModKeys(m) /\ i \in MineOf(e)
      BY <1>2, <2>3
    <3>2. ~ (e = d /\ x = k)
      BY <1>4, <2>3, <3>1
    <3> QED  BY <1>3, <2>1, <3>1, <3>2
  <2>4. HoldersOf(d, k) \subseteq Held(m)
    BY <1>2, <1>4, <1>8
  <2> QED  BY <2>2, <2>3, <2>4
<1> QED  BY <1>6, <1>7, <1>8

(* A packet of one event.                                                   *)
LEMMA PacketOfOne ==
  ASSUME NEW S, NEW y \in S
  PROVE  Append(<<>>, y) = <<y>>
<1>1. PICK a, b : a = Append(<<>>, y) /\ b = <<y>>
  OBVIOUS
<1>2. Len(a) = 1 /\ a \in Seq(S) /\ a[1] = y
  BY <1>1
<1>3. Len(b) = 1 /\ b \in Seq(S) /\ b[1] = y
  BY <1>1
<1>4. a = [i \in 1 .. 1 |-> a[i]] /\ b = [i \in 1 .. 1 |-> b[i]]
  BY <1>2, <1>3
<1>5. \A i \in 1 .. 1 : a[i] = b[i]
  BY <1>2, <1>3
<1> QED  BY <1>1, <1>4, <1>5

(* An event and the EV_SYN that ends the packet.                            *)
LEMMA PacketOfTwo ==
  ASSUME NEW S, NEW x \in S, NEW y \in S
  PROVE  Append(<<x>>, y) = <<x, y>>
<1>1. <<x>> \in Seq(S) /\ Len(<<x>>) = 1 /\ <<x>>[1] = x
  OBVIOUS
<1>2. PICK a, b : a = Append(<<x>>, y) /\ b = <<x, y>>
  OBVIOUS
<1>3. Len(a) = 2 /\ a \in Seq(S) /\ a[1] = x /\ a[2] = y
  BY <1>1, <1>2
<1>4. Len(b) = 2 /\ b \in Seq(S) /\ b[1] = x /\ b[2] = y
  BY <1>2
<1>5. a = [i \in 1 .. 2 |-> a[i]] /\ b = [i \in 1 .. 2 |-> b[i]]
  BY <1>3, <1>4
<1>6. \A i \in 1 .. 2 : a[i] = b[i]
  BY <1>3, <1>4
<1> QED  BY <1>2, <1>5, <1>6

(* What passes the filter of input_event, and in which order.               *)
LEMMA ReportedOut ==
  ASSUME NEW d \in Devices, NEW r \in DevType, NEW e, IsEvent(e)
  PROVE  LET s == Reported(d, r, e) IN
         IF Passes(d, r, e) THEN s.out \in {<<e>>, <<e, SynReport>>} /\ s.dev.key = Updated(d, r, e).key
         ELSE s.out \in {<<>>, <<SynReport>>} /\ s.dev.key = r.key
<1>1. PICK a, b : a = input_event(d, Fresh(r), e) /\ b = input_event(d, a, SynReport)
  OBVIOUS
<1>2. Reported(d, r, e) = b
  BY <1>1 DEF Reported
<1>3. IF Passes(d, r, e) THEN a.dev = Updated(d, r, e) /\ a.out = <<e>>
      ELSE a.dev = r /\ a.out = <<>>
  BY <1>1 DEF input_event, Fresh
<1>4. a.dev \in DevType
  BY <1>3, UpdatedType
<1>5. b.dev.key = a.dev.key
  BY <1>1, <1>4, Events, InputEventType
<1>6. b.out = a.out \/ b.out = Append(a.out, SynReport)
  BY <1>1 DEF input_event
<1>7. Append(<<>>, SynReport) = <<SynReport>> /\ Append(<<e>>, SynReport) = <<e, SynReport>>
  <2>1. PICK S : S = {e, SynReport}
    OBVIOUS
  <2> QED  BY <2>1, PacketOfOne, PacketOfTwo
<1> QED  BY <1>2, <1>3, <1>5, <1>6, <1>7

(* The loop over the events that passed.                                    *)
LEMMA HandledIs ==
  ASSUME NEW got, NEW e
  PROVE  /\ Handled(got, <<>>) = Now
         /\ Handled(got, <<e>>) = Deliver(Now, got, e)
         /\ Handled(got, <<e, SynReport>>) = Deliver(Deliver(Now, got, e), got, SynReport)
<1>1. Len(<<e>>) = 1 /\ <<e>>[1] = e /\ <<e>> # <<>>
  OBVIOUS
<1>2. Len(<<e, SynReport>>) = 2 /\ <<e, SynReport>>[1] = e /\ <<e, SynReport>>[2] = SynReport
      /\ <<e, SynReport>> # <<>>
  OBVIOUS
<1>3. PICK x, y : x = <<e>> /\ y = <<e, SynReport>>
  OBVIOUS
<1>4. Handled(got, x) = Deliver(Now, got, e)
  BY <1>1, <1>3 DEF Handled
<1>5. Handled(got, y) = Deliver(Deliver(Now, got, e), got, SynReport)
  BY <1>2, <1>3 DEF Handled
<1>6. Handled(got, <<>>) = Now
  BY DEF Handled
<1> QED  BY <1>3, <1>4, <1>5, <1>6

(* A packet without a key: no modifier hears of it.                         *)
LEMMA QuietReport ==
  ASSUME BindInv, ModInv, NEW d \in Devices, NEW e, IsEvent(e), Report(d, e),
         e.type # "EV_KEY" \/ ~ Passes(d, dev[d], e)
  PROVE  Frame
<1>1. RegTypes /\ DevInv /\ Bindings
  BY DEF BindInv, RegInv
<1>2. PICK seen, got, end : /\ seen = Reported(d, dev[d], e) /\ got = Mine(Receivers(d))
                            /\ end = Handled(got, seen.out)
  OBVIOUS
<1>3. PICK out : out = seen.out
  OBVIOUS
<1>4. /\ dev' = [dev EXCEPT ![d] = seen.dev] /\ kb' = end.kb /\ table' = end.table
      /\ lost' = lost \cup {x.code : x \in {y \in {x \in Range(out) : x.type = "EV_KEY"} : Swallowed(d, y)}}
      /\ UNCHANGED <<dpc, handle, links, sc>>
  BY <1>2, <1>3 DEF Report
<1>5. dev[d] \in DevType
  BY <1>1 DEF DevInv
<1>6. /\ out \in {<<>>, <<e>>, <<SynReport>>, <<e, SynReport>>}
      /\ e.type = "EV_KEY" => out \in {<<>>, <<SynReport>>}
      /\ seen.dev.key = dev[d].key
  <2>1. CASE Passes(d, dev[d], e)
    <3>1. e.type # "EV_KEY"
      BY <2>1
    <3> QED  BY <1>2, <1>3, <1>5, <2>1, <3>1, ReportedOut, UpdatedType
  <2>2. CASE ~ Passes(d, dev[d], e)
    BY <1>2, <1>3, <1>5, <2>2, ReportedOut
  <2> QED  BY <2>1, <2>2
<1>7. SynReport.type # "EV_KEY"
  BY Events
<1>8. {x \in Range(out) : x.type = "EV_KEY"} = {}
  BY <1>6, <1>7 DEF Range
<1>9. lost' = lost
  BY <1>4, <1>8
<1>10. SameKeys
  BY <1>1, <1>4, <1>6 DEF SameKeys, DevInv
<1>11. Len(got) \in Nat
  BY <1>1, <1>2, ReceiversList, MineList
<1>12. Shape(Now) /\ Now.kb = kb /\ Now.table = table
  BY DEF Now, Shape, ModInv
<1>13. Idle(Now, end)
  <2>1. ASSUME NEW x, x.type # "EV_KEY"
        PROVE  /\ Idle(Now, Deliver(Now, got, x))
               /\ Idle(Now, Deliver(Deliver(Now, got, x), got, SynReport))
    <3>1. PICK s, t : s = Now /\ t = Deliver(s, got, x)
      OBVIOUS
    <3>2. Idle(s, t) /\ Shape(t)
      BY <1>11, <1>12, <2>1, <3>1, DeliverIdle, IdleShape
    <3>3. Idle(t, Deliver(t, got, SynReport))
      BY <1>7, <1>11, <3>2, DeliverIdle
    <3> QED  BY <3>1, <3>2, <3>3, IdleThen
  <2>2. Idle(Now, Now)
    BY <1>12, IdleSame
  <2>3. CASE out = <<>>
    BY <1>2, <1>3, <2>2, <2>3, HandledIs
  <2>4. CASE out = <<SynReport>>
    BY <1>2, <1>3, <1>7, <2>1, <2>4, HandledIs
  <2>5. CASE out \in {<<e>>, <<e, SynReport>>} /\ e.type # "EV_KEY"
    <3>1. end \in {Deliver(Now, got, e), Deliver(Deliver(Now, got, e), got, SynReport)}
      BY <1>2, <1>3, <2>5, HandledIs
    <3> QED  BY <2>1, <2>5, <3>1
  <2>6. out \in {<<>>, <<SynReport>>} \/ (out \in {<<e>>, <<e, SynReport>>} /\ e.type # "EV_KEY")
    BY <1>6
  <2> QED  BY <2>3, <2>4, <2>5, <2>6
<1>14. /\ KbShape(kb') /\ TableShape(table') /\ kb'.key_down = kb.key_down
       /\ kb'.shift_down = kb.shift_down
  BY <1>4, <1>12, <1>13 DEF Idle, Shape
<1>15. \A x \in Devices : MineOf(x) \subseteq MineOf(x)'
  BY <1>4 DEF MineOf
<1>16. \A x \in Devices : dpc'[x] \in {"out", "del"} => dev'[x].key \subseteq lost'
  BY <1>4, <1>9, <1>10 DEF SameKeys, ModInv, GoneLost
<1> QED  BY <1>4, <1>9, <1>10, <1>14, <1>15, <1>16 DEF Frame, SameKeys

(* A key that is down and none of whose modifier's keys was lost is held.   *)
LEMMA HolderOfKey ==
  ASSUME ModInv, DevInv, NEW m, ModKeys(m) \cap lost = {},
         NEW k \in kb.key_down, k \in ModKeys(m)
  PROVE  \E t \in Held(m) : t[1][2] = k
<1>1. k \notin lost /\ k \in Keys
  BY DEF ModKeys
<1>2. PICK d \in Devices : k \in dev[d].key
  BY <1>1 DEF ModInv, Witnessed
<1>3. PICK i : i \in MineOf(d)
  BY <1>1, <1>2 DEF ModInv, Heard
<1>4. i \in Range(links)
  BY <1>3 DEF MineOf
<1>5. <<<<d, k>>, i>> \in Held(m)
  BY <1>1, <1>2, <1>3, <1>4 DEF Held
<1> QED  BY <1>5

(* The count of a modifier after a key of device d was heard by N handles.  *)
LEMMA CountAfter ==
  ASSUME BindInv, ModInv, NEW d \in Devices, NEW k \in Keys, NEW value \in {0, 1, 2},
         NEW deaf, NEW N \in Nat, NEW f, f[0] = Now, KeyRun(f, N, k, value, deaf),
         NEW m \in Mods, ModKeys(m) \cap lost = {}, deaf => k \notin ModKeys(m),
         ~ deaf => N > 0 /\ N = Cardinality(HoldersOf(d, k)),
         k \in dev[d].key <=> value # 1
  PROVE  LET H == Cardinality(Held(m)) IN
         f[N].kb.shift_down[m] <= IF k \notin ModKeys(m) \/ value = 2 THEN H
                                  ELSE IF value = 0 THEN H - N ELSE H + N
<1>1. RegTypes /\ DevInv
  BY DEF BindInv, RegInv
<1>2. PICK H : H = Cardinality(Held(m)) /\ H \in Nat /\ IsFiniteSet(Held(m))
  BY <1>1, HeldFinite DEF RegTypes
<1>3. Shape(f[0]) /\ f[0].kb = kb
  BY DEF Now, Shape, ModInv
<1>4. f[0].kb.shift_down[m] <= H
  BY <1>2, <1>3 DEF ModInv, CountedHeld
<1>5. ASSUME NEW x \in kb.key_down, x \in ModKeys(m) PROVE \E t \in Held(m) : t[1][2] = x
  BY <1>1, <1>5, HolderOfKey
<1>6. ASSUME NEW n \in 1 .. N
      PROVE  /\ \A x \in f[n].kb.key_down : x \in Keys /\ (x # k => x \in kb.key_down)
             /\ deaf \/ (k \in f[n].kb.key_down <=> value # 0)
  <2>1. n \in 0 .. N /\ n # 0
    OBVIOUS
  <2> QED  BY <1>3, <2>1, RunKeys DEF Shape, KbShape
<1>7. CASE k \notin ModKeys(m) \/ value = 2
  <2> DEFINE B == [n \in 0 .. N |-> H]
  <2>1. ASSUME NEW n \in 1 .. N PROVE Cardinality(f[n].kb.key_down \cap ModKeys(m)) <= H
    <3>1. PICK R : R = f[n].kb.key_down \cap ModKeys(m)
      OBVIOUS
    <3>2. ASSUME NEW x \in R PROVE \E t \in Held(m) : t[1][2] = x
      <4>1. CASE x # k
        BY <1>5, <1>6, <3>1, <4>1
      <4>2. CASE x = k
        <5>1. ~ deaf /\ k \in ModKeys(m) /\ k \in dev[d].key
          BY <1>7, <3>1, <4>2
        <5>2. HoldersOf(d, k) # {}
          BY <5>1, FS_EmptySet
        <5>3. PICK i : i \in MineOf(d)
          BY <5>2 DEF HoldersOf
        <5>4. i \in Range(links)
          BY <5>3 DEF MineOf
        <5>5. <<<<d, k>>, i>> \in Held(m)
          BY <5>1, <5>3, <5>4 DEF Held
        <5> QED  BY <4>2, <5>5
      <4> QED  BY <4>1, <4>2
    <3> QED  BY <1>2, <3>1, <3>2, Recount
  <2>2. \A n \in 0 .. N : B[n] = H
    OBVIOUS
  <2> HIDE DEF B
  <2>3. \A n \in 0 .. N : B[n] \in Nat
    BY <1>2, <2>2
  <2>4. f[0].kb.shift_down[m] <= B[0] /\ B[N] = H
    BY <1>4, <2>2
  <2>5. \A n \in 1 .. N : Cardinality(f[n].kb.key_down \cap ModKeys(m)) <= B[n]
    BY <2>1, <2>2
  <2>6. \A n \in 1 .. N : B[n] = IF k \notin ModKeys(m) \/ value = 2 THEN B[n - 1]
                                  ELSE IF Up(value) THEN B[n - 1] - 1 ELSE B[n - 1] + 1
    BY <1>7, <2>2
  <2>7. f[N].kb.shift_down[m] <= B[N]
    BY <1>3, <2>3, <2>4, <2>5, <2>6, RunCounts
  <2> QED  BY <1>2, <1>7, <2>4, <2>7
<1>8. CASE k \in ModKeys(m) /\ value = 1
  <2> DEFINE B == [n \in 0 .. N |-> H + n]
  <2>1. ASSUME NEW n \in 1 .. N PROVE Cardinality(f[n].kb.key_down \cap ModKeys(m)) <= H + 1
    <3>1. PICK R, t, T : R = f[n].kb.key_down \cap ModKeys(m) /\ t = <<<<d, k>>, NULL>>
                         /\ T = Held(m) \cup {t}
      OBVIOUS
    <3>2. ASSUME NEW x \in R PROVE \E u \in T : u[1][2] = x
      BY <1>5, <1>6, <3>1
    <3>3. t \in Held(m) \/ Cardinality(T) = H + 1
      BY <1>2, <3>1, FS_AddElement
    <3>4. IsFiniteSet(T) /\ Cardinality(T) <= H + 1
      <4>1. CASE t \in Held(m)
        <5>1. T = Held(m)
          BY <3>1, <4>1
        <5> QED  BY <1>2, <5>1
      <4>2. CASE t \notin Held(m)
        BY <1>2, <3>1, <3>3, <4>2, FS_AddElement
      <4> QED  BY <4>1, <4>2
    <3>5. Cardinality(R) \in Nat /\ Cardinality(T) \in Nat /\ Cardinality(R) <= Cardinality(T)
      BY <3>2, <3>4, Recount
    <3> QED  BY <1>2, <3>1, <3>4, <3>5
  <2>2. \A n \in 0 .. N : B[n] = H + n
    OBVIOUS
  <2> HIDE DEF B
  <2>3. \A n \in 0 .. N : B[n] \in Nat
    BY <1>2, <2>2
  <2>4. f[0].kb.shift_down[m] <= B[0] /\ B[N] = H + N
    BY <1>2, <1>4, <2>2
  <2>5. ASSUME NEW n \in 1 .. N PROVE Cardinality(f[n].kb.key_down \cap ModKeys(m)) <= B[n]
    <3>1. PICK c : c = Cardinality(f[n].kb.key_down \cap ModKeys(m))
      OBVIOUS
    <3>2. c \in Nat /\ c <= H + 1
      <4>1. f[n].kb.key_down \cap ModKeys(m) \in SUBSET Keys
        BY DEF ModKeys
      <4>2. IsFiniteSet(f[n].kb.key_down \cap ModKeys(m))
        BY <4>1, FiniteAssumption, FS_Subset
      <4> QED  BY <2>1, <3>1, <4>2, FS_CardinalityType
    <3> QED  BY <1>2, <2>2, <3>1, <3>2
  <2>6. \A n \in 1 .. N : B[n] = IF k \notin ModKeys(m) \/ value = 2 THEN B[n - 1]
                                  ELSE IF Up(value) THEN B[n - 1] - 1 ELSE B[n - 1] + 1
    BY <1>2, <1>8, <2>2 DEF Up
  <2>7. f[N].kb.shift_down[m] <= B[N]
    BY <1>3, <2>3, <2>4, <2>5, <2>6, RunCounts
  <2> QED  BY <1>2, <1>8, <2>4, <2>7
<1>9. CASE k \in ModKeys(m) /\ value = 0
  <2>1. PICK T : T = Held(m) \ HoldersOf(d, k)
    OBVIOUS
  <2>2. ~ deaf /\ k \in dev[d].key /\ N = Cardinality(HoldersOf(d, k))
    BY <1>9
  <2>3. HoldersOf(d, k) \subseteq Held(m)
    <3>1. ASSUME NEW i \in MineOf(d) PROVE <<<<d, k>>, i>> \in Held(m)
      BY <1>9, <2>2 DEF Held, MineOf
    <3> QED  BY <3>1 DEF HoldersOf
  <2>4. IsFiniteSet(T) /\ Cardinality(T) \in Nat /\ Cardinality(T) = H - N
    <3>1. IsFiniteSet(HoldersOf(d, k))
      BY <1>2, <2>3, FS_Subset
    <3>2. Held(m) \cap HoldersOf(d, k) = HoldersOf(d, k)
      BY <2>3
    <3> QED  BY <1>2, <2>1, <2>2, <3>1, <3>2, FS_Difference, FS_CardinalityType
  <2> DEFINE B == [n \in 0 .. N |-> H - n]
  <2>5. ASSUME NEW n \in 1 .. N
        PROVE  LET R == f[n].kb.key_down \cap ModKeys(m) IN
               Cardinality(R) \in Nat /\ Cardinality(R) <= H - N
    <3>1. PICK R : R = f[n].kb.key_down \cap ModKeys(m)
      OBVIOUS
    <3>2. ASSUME NEW x \in R PROVE \E t \in T : t[1][2] = x
      <4>1. x \in kb.key_down /\ x \in ModKeys(m) /\ x # k
        BY <1>6, <1>9, <2>2, <3>1
      <4>2. PICK t \in Held(m) : t[1][2] = x
        BY <1>5, <4>1
      <4>3. t \notin HoldersOf(d, k)
        BY <4>1, <4>2 DEF HoldersOf
      <4> QED  BY <2>1, <4>2, <4>3
    <3>3. Cardinality(R) \in Nat /\ Cardinality(R) <= Cardinality(T)
      BY <2>4, <3>2, Recount
    <3> QED  BY <2>4, <3>1, <3>3
  <2>6. \A n \in 0 .. N : B[n] = H - n
    OBVIOUS
  <2> HIDE DEF B
  <2>7. \A n \in 0 .. N : B[n] \in Nat
    BY <1>2, <2>4, <2>6
  <2>8. f[0].kb.shift_down[m] <= B[0] /\ B[N] = H - N
    BY <1>2, <1>4, <2>6
  <2>9. \A n \in 1 .. N : Cardinality(f[n].kb.key_down \cap ModKeys(m)) <= B[n]
    BY <1>2, <2>5, <2>6
  <2>10. \A n \in 1 .. N : B[n] = IF k \notin ModKeys(m) \/ value = 2 THEN B[n - 1]
                                  ELSE IF Up(value) THEN B[n - 1] - 1 ELSE B[n - 1] + 1
    BY <1>2, <1>9, <2>6 DEF Up
  <2>11. f[N].kb.shift_down[m] <= B[N]
    BY <1>3, <2>7, <2>8, <2>9, <2>10, RunCounts
  <2> QED  BY <1>2, <1>9, <2>8, <2>11
<1> QED  BY <1>7, <1>8, <1>9

(* A key event reported by a driver or by the timer of the core: the keys   *)
(* the handler has down and its counts follow the device's.                 *)
LEMMA KeyReport ==
  ASSUME BindInv, ModInv, SameModifiers, NEW d \in Devices, NEW k \in Keys,
         NEW value \in {0, 1, 2}, NEW e, e = Event("EV_KEY", k, value),
         Report(d, e), Passes(d, dev[d], e),
         value # 2 => Alive(d), value = 2 => k \in dev[d].key
  PROVE  ModInv'
<1>1. RegTypes /\ DevInv /\ Bindings /\ IsEvent(e)
  BY Events DEF BindInv, RegInv
<1>2. PICK seen, got, end : /\ seen = Reported(d, dev[d], e) /\ got = Mine(Receivers(d))
                            /\ end = Handled(got, seen.out)
  OBVIOUS
<1>3. PICK out, r : out = seen.out /\ r = dev[d]
  OBVIOUS
<1>4. PICK deaf \in BOOLEAN : deaf <=> Swallowed(d, e)
  OBVIOUS
<1>5. /\ dev' = [dev EXCEPT ![d] = seen.dev] /\ kb' = end.kb /\ table' = end.table
      /\ lost' = lost \cup {x.code : x \in {y \in {x \in Range(out) : x.type = "EV_KEY"} : Swallowed(d, y)}}
      /\ UNCHANGED <<dpc, handle, links, sc>>
  BY <1>2, <1>3 DEF Report
<1>6. r \in DevType /\ e.type = "EV_KEY" /\ e.code = k /\ e.value = value
  BY <1>1, <1>3 DEF DevInv, Event
<1>7. /\ out \in {<<e>>, <<e, SynReport>>}
      /\ seen.dev.key = IF value = 2 THEN r.key ELSE Toggle(k, r.key)
  BY <1>1, <1>2, <1>3, <1>6, ReportedOut, UpdatedType
<1>8. k \in r.key <=> value # 1
  BY <1>3, <1>6 DEF Passes, Bit
<1>9. /\ \A x \in Keys : x # k => (x \in seen.dev.key <=> x \in r.key)
      /\ k \in seen.dev.key <=> value # 0
  BY <1>7, <1>8 DEF Toggle
<1>10. lost' = IF deaf THEN lost \cup {k} ELSE lost
  <2>1. SynReport.type # "EV_KEY"
    BY Events
  <2>2. {x \in Range(out) : x.type = "EV_KEY"} = {e}
    BY <1>6, <1>7, <2>1 DEF Range
  <2> QED  BY <1>4, <1>5, <1>6, <2>2
<1>11. PICK N : N = Len(got)
  OBVIOUS
<1>12. PICK f : f[0] = Now /\ KeyRun(f, N, k, value, deaf) /\ Deliver(Now, got, e) = f[N]
  BY <1>2, <1>4, <1>11, DeliverKey
<1>13. got \in Seq(HandleIds) /\ N \in Nat
  <2>1. got \in Seq(HandleIds)
    BY <1>1, <1>2, ReceiversList, MineList
  <2> QED  BY <1>11, <2>1
<1>14. Shape(f[0]) /\ f[0].kb = kb
  BY <1>12 DEF Now, Shape, ModInv
<1>15. Idle(f[N], end)
  <2>1. PICK t : t = f[N]
    OBVIOUS
  <2>2. Shape(t)
    BY <1>12, <1>13, <1>14, <2>1, RunKeys
  <2>3. CASE out = <<e>>
    BY <1>2, <1>3, <1>12, <2>1, <2>2, <2>3, HandledIs, IdleSame
  <2>4. CASE out = <<e, SynReport>>
    <3>1. end = Deliver(t, got, SynReport)
      BY <1>2, <1>3, <1>12, <2>1, <2>4, HandledIs
    <3>2. SynReport.type # "EV_KEY"
      BY Events
    <3>3. Len(got) \in Nat
      BY <1>13
    <3>4. Idle(t, Deliver(t, got, SynReport))
      BY <2>2, <3>2, <3>3, DeliverIdle
    <3> QED  BY <2>1, <3>1, <3>4
  <2> QED  BY <1>7, <2>1, <2>3, <2>4
<1>16. /\ Shape(end) /\ kb'.key_down = f[N].kb.key_down /\ kb'.shift_down = f[N].kb.shift_down
  BY <1>5, <1>15 DEF Idle
<1>17. ~ deaf => N > 0 /\ N = Cardinality(HoldersOf(d, k)) /\ MineOf(d) # {}
  <2> SUFFICES ASSUME ~ deaf PROVE N > 0 /\ N = Cardinality(HoldersOf(d, k)) /\ MineOf(d) # {}
    OBVIOUS
  <2>1. got = Mine(HandlesOf(d)) /\ got # <<>>
    BY <1>2, <1>4 DEF Swallowed
  <2>2. N = Cardinality(HoldersOf(d, k)) /\ Range(got) = MineOf(d)
    BY <1>1, <1>11, <2>1, HoldersCount
  <2>3. N > 0 /\ got[1] \in Range(got)
    BY <1>11, <1>13, <2>1 DEF Range
  <2> QED  BY <2>2, <2>3
<1>18. \A x \in Keys : x # k => (x \in kb'.key_down <=> x \in kb.key_down)
  BY <1>12, <1>13, <1>14, <1>16, RunKeys
<1>19. deaf \/ (k \in kb'.key_down <=> value # 0)
  <2> SUFFICES ASSUME ~ deaf PROVE k \in kb'.key_down <=> value # 0
    OBVIOUS
  <2>1. N \in 0 .. N /\ N # 0
    BY <1>13, <1>17
  <2> QED  BY <1>12, <1>13, <1>14, <1>16, <2>1, RunKeys
<1>20. dev'[d].key = seen.dev.key /\ \A x \in Devices : x # d => dev'[x].key = dev[x].key
  BY <1>1, <1>5 DEF DevInv
<1>21. sc' \in Scenarios /\ KbShape(kb)' /\ TableShape(table)'
  BY <1>5, <1>16 DEF Shape, KbShape, TableShape, ModInv
<1>22. ASSUME NEW x \in Devices PROVE MineOf(x)' = MineOf(x)
  BY <1>5 DEF MineOf
<1>23. Witnessed'
  <2> SUFFICES ASSUME NEW x \in kb'.key_down, x \notin lost'
               PROVE  \E y \in Devices : x \in dev'[y].key
    BY DEF Witnessed
  <2>1. x \in Keys
    BY <1>21 DEF KbShape
  <2>2. CASE x = k
    BY <1>9, <1>10, <1>19, <1>20, <2>2
  <2>3. CASE x # k
    <3>1. PICK y \in Devices : x \in dev[y].key
      BY <1>10, <1>18, <2>1, <2>3 DEF ModInv, Witnessed
    <3> QED  BY <1>3, <1>9, <1>20, <2>1, <2>3, <3>1
  <2> QED  BY <2>2, <2>3
<1>24. GoneLost'
  <2> SUFFICES ASSUME NEW y \in Devices, dpc[y] \in {"out", "del"} PROVE dev'[y].key \subseteq lost'
    BY <1>5 DEF GoneLost
  <2>1. dev'[y].key = dev[y].key
    <3>1. CASE y # d
      BY <1>20, <3>1
    <3>2. CASE y = d
      BY <1>3, <1>7, <1>20, <3>2 DEF Alive
    <3> QED  BY <3>1, <3>2
  <2> QED  BY <1>10, <2>1 DEF ModInv, GoneLost
<1>25. Heard'
  <2> SUFFICES ASSUME NEW y \in Devices, NEW x \in dev'[y].key, x \notin lost'
               PROVE  MineOf(y) # {}
    BY <1>22 DEF Heard
  <2>1. CASE y = d /\ x = k
    BY <1>10, <1>17, <2>1
  <2>2. CASE y # d \/ x # k
    <3>1. x \in Keys
      BY <1>7, <1>6, <1>1, <1>20 DEF DevInv, DevType, Toggle
    <3>2. x \in dev[y].key
      BY <1>3, <1>9, <1>20, <2>2, <3>1
    <3> QED  BY <1>10, <3>2 DEF ModInv, Heard
  <2> QED  BY <2>1, <2>2
<1>26. CountedHeld'
  <2>1. \A m : ModKeys(m)' = ModKeys(m)
    BY <1>5 DEF ModKeys, key_maps
  <2> SUFFICES ASSUME NEW m \in Mods, ModKeys(m) \cap lost' = {}
               PROVE  kb'.shift_down[m] <= Cardinality(Held(m)')
    BY <2>1 DEF CountedHeld
  <2>2. ModKeys(m) \cap lost = {} /\ (deaf => k \notin ModKeys(m))
    BY <1>10
  <2>3. PICK H : H = Cardinality(Held(m)) /\ H \in Nat /\ IsFiniteSet(Held(m))
    BY <1>1, HeldFinite DEF RegTypes
  <2>4. k \in dev[d].key <=> value # 1
    BY <1>3, <1>8
  <2>5. f[N].kb.shift_down[m] <= IF k \notin ModKeys(m) \/ value = 2 THEN H
                                 ELSE IF value = 0 THEN H - N ELSE H + N
    BY <1>12, <1>13, <1>17, <2>2, <2>3, <2>4, CountAfter
  <2>6. PICK D, G : D = HoldersOf(d, k) /\ G = Held(m)'
    OBVIOUS
  <2>7. links \in Seq(HandleIds) /\ UNCHANGED <<links, handle, sc>>
    BY <1>1, <1>5 DEF RegTypes
  <2>8. \A x \in Keys : x # k => (x \in dev'[d].key <=> x \in dev[d].key)
    BY <1>3, <1>9, <1>20
  <2>9. k \in dev'[d].key <=> value # 0
    BY <1>9, <1>20
  <2>10. CASE k \notin ModKeys(m) \/ value = 2
    <3>1. Held(m)' = Held(m)
      BY <1>20, <2>4, <2>7, <2>8, <2>9, <2>10, HeldAfter
    <3> QED  BY <1>16, <2>3, <2>5, <2>10, <3>1
  <2>11. CASE k \in ModKeys(m) /\ value = 1
    <3>1. G = Held(m) \cup D /\ Held(m) \cap D = {}
      BY <1>20, <2>4, <2>6, <2>7, <2>8, <2>9, <2>11, HeldAfter
    <3>2. IsFiniteSet(D) /\ Cardinality(D) = N
      BY <1>1, <1>17, <2>2, <2>6, <2>11, HoldersCount
    <3>3. Cardinality(Held(m) \cap D) = 0
      BY <3>1, FS_EmptySet
    <3>4. Cardinality(Held(m) \cup D) = H + N - 0
      BY <2>3, <3>2, <3>3, FS_Union
    <3>5. Cardinality(G) = H + N
      BY <1>13, <2>3, <3>1, <3>4
    <3> QED  BY <1>16, <2>5, <2>6, <2>11, <3>5
  <2>12. CASE k \in ModKeys(m) /\ value = 0
    <3>1. G = Held(m) \ D /\ D \subseteq Held(m)
      BY <1>20, <2>4, <2>6, <2>7, <2>8, <2>9, <2>12, HeldAfter
    <3>2. IsFiniteSet(D) /\ Cardinality(D) = N
      BY <1>1, <1>17, <2>2, <2>6, <2>12, HoldersCount
    <3>3. Held(m) \cap D = D
      BY <3>1
    <3>4. Cardinality(G) = H - N
      BY <2>3, <3>1, <3>2, <3>3, FS_Difference
    <3> QED  BY <1>16, <2>5, <2>6, <2>12, <3>4
  <2> QED  BY <2>10, <2>11, <2>12
<1> QED  BY <1>21, <1>23, <1>24, <1>25, <1>26 DEF ModInv

(* Every step keeps the invariant of the modifiers.                         *)
LEMMA StuckNext ==
  ASSUME BindInv, BindInv', ModInv, SameModifiers, Next
  PROVE  ModInv'
<1>1. RegTypes /\ DevInv /\ links \in Seq(HandleIds) /\ links' \in Seq(HandleIds)
  BY DEF BindInv, RegInv, RegTypes
<1>2. ASSUME Frame PROVE ModInv'
  BY <1>1, <1>2, FrameKeeps
<1>3. ASSUME NEW d \in Devices, RegisterDevice(d) PROVE Frame
  BY <1>3, DeviceFrame
<1>4. ASSUME NEW d \in Devices, RegisterWalk(d) PROVE Frame
  <2>1. PICK h, freed : h = dcur[d] /\ WalkStep(d, h, freed)
    BY <1>4 DEF RegisterWalk
  <2>2. h \in Handlers /\ dpc' = dpc
    BY <1>1, <1>4, <2>1 DEF RegTypes, RegisterWalk, DeviceWalk
  <2> QED  BY <2>1, <2>2, WalkFrame
<1>5. ASSUME NEW h \in Handlers, RegisterHandlerWalk(h) PROVE Frame
  <2>1. PICK d, freed : d = hcur[h] /\ WalkStep(d, h, freed)
    BY <1>5 DEF RegisterHandlerWalk
  <2>2. d \in Devices /\ dpc' = dpc
    BY <1>1, <1>5, <2>1 DEF RegTypes, RegisterHandlerWalk, HandlerWalk
  <2> QED  BY <2>1, <2>2, WalkFrame
<1>6. ASSUME \/ \E d \in Devices : RegisterDone(d) \/ DeviceRemoved(d)
             \/ \E h \in Handlers : RegisterHandlerDone(h) \/ RegisterHandler(h)
      PROVE  Frame
  BY <1>6, RequestFrame
<1>7. ASSUME NEW d \in Devices, UnregisterDevice(d) PROVE Frame
  BY <1>7, UnplugFrame
<1>8. ASSUME NEW h \in Handlers, UnregisterHandler(h) PROVE Frame
  BY <1>8, HandlerGoneFrame
<1>9. ASSUME NEW d \in Devices, KeyEvent(d) PROVE ModInv'
  <2>1. PICK k \in KeyBits[d], value \in {0, 1} :
          /\ Alive(d) /\ Passes(d, dev[d], Event("EV_KEY", k, value))
          /\ Report(d, Event("EV_KEY", k, value))
    BY <1>9 DEF KeyEvent
  <2>2. k \in Keys
    BY DeviceAssumption
  <2>3. PICK e : e = Event("EV_KEY", k, value)
    OBVIOUS
  <2>4. value \in {0, 1, 2} /\ value # 2
    OBVIOUS
  <2> QED  BY <2>1, <2>2, <2>3, <2>4, KeyReport
<1>10. ASSUME NEW d \in Devices, OtherEvent(d) PROVE Frame
  <2>1. PICK e \in {Event("EV_ABS", "ABS_X", p) : p \in Positions}
                   \cup {Event("EV_REL", "REL_X", n) : n \in {0, 1}}
                   \cup {Event("EV_MSC", "MSC_RAW", 1), Event("EV_FF", "FF_RUMBLE", 1)} : Report(d, e)
    BY <1>10 DEF OtherEvent
  <2>2. IsEvent(e) /\ e.type # "EV_KEY"
    BY Events, DeviceAssumption DEF Event
  <2> QED  BY <2>1, <2>2, QuietReport
<1>11. ASSUME NEW d \in Devices, RepeatTimer(d), Repeats(d) PROVE ModInv'
  <2>1. PICK k : k = dev[d].repeat_key
    OBVIOUS
  <2>2. k \in Keys /\ k \in dev[d].key /\ Report(d, Event("EV_KEY", k, 2))
    BY <1>1, <1>11, <2>1 DEF RepeatTimer, Repeats, DevInv, DevType
  <2>3. PICK e : e = Event("EV_KEY", k, 2)
    OBVIOUS
  <2>4. Report(d, e) /\ IsEvent(e)
    BY <2>2, <2>3, Events
  <2>5. CASE Passes(d, dev[d], e)
    <3>1. PICK value : value = 2
      OBVIOUS
    <3>2. value \in {0, 1, 2} /\ e = Event("EV_KEY", k, value)
      BY <2>3, <3>1
    <3> QED  BY <2>2, <2>4, <2>5, <3>1, <3>2, KeyReport
  <2>6. CASE ~ Passes(d, dev[d], e)
    BY <1>2, <2>4, <2>6, QuietReport
  <2> QED  BY <2>5, <2>6
<1>12. ASSUME NEW d \in Devices, RepeatTimer(d), ~ Repeats(d) PROVE Frame
  <2>1. /\ dev' = [dev EXCEPT ![d].repeat_key = NULL]
        /\ UNCHANGED <<dpc, handle, links, kb, table, lost, sc>>
    BY <1>12 DEF RepeatTimer, kbdVars
  <2>2. \A x \in Devices : dev'[x].key = dev[x].key
    BY <1>1, <2>1 DEF DevInv, DevType
  <2>3. \A x \in Devices : MineOf(x) \subseteq MineOf(x)'
    BY <2>1 DEF MineOf
  <2>4. \A x \in Devices : dpc'[x] \in {"out", "del"} => dev'[x].key \subseteq lost'
    BY <2>1, <2>2 DEF ModInv, GoneLost
  <2> QED  BY <2>1, <2>2, <2>3, <2>4, LinksFrame
<1>13. ASSUME Elsewhere PROVE ModInv'
  <2>1. ASSUME NEW d \in Devices, KeyEvent(d) \/ OtherEvent(d) \/ RepeatTimer(d) PROVE ModInv'
    BY <1>2, <1>9, <1>10, <1>11, <1>12, <2>1
  <2>2. ASSUME NEW i \in HandleIds, Grab(i) PROVE Frame
    BY <2>2, RequestFrame
  <2>3. ASSUME NEW c \in Consoles, ConsoleStep(c) PROVE Frame
    BY <2>3, RequestFrame
  <2>4. ASSUME NEW v \in VT, VtStep(v) PROVE Frame
    BY <2>4, RequestFrame
  <2>5. ASSUME kbd_bh PROVE Frame
    BY <2>5, RequestFrame
  <2> QED  BY <1>2, <1>13, <2>1, <2>2, <2>3, <2>4, <2>5 DEF Elsewhere
<1> QED  BY <1>2, <1>3, <1>4, <1>5, <1>6, <1>7, <1>8, <1>13, Steps

(* Init: no key is down anywhere and no modifier is counted.                *)
LEMMA StuckInit == Init => ModInv
<1> SUFFICES ASSUME Init PROVE ModInv
  OBVIOUS
<1>1. PICK x \in Scenarios : CoreInit(x.loaded) /\ sc \in Scenarios
  BY DEF Init
<1>2. \A d \in Devices : dev[d].key = {}
  BY <1>1 DEF CoreInit, NewDev
<1>3. lost = {} /\ kb.key_down = {} /\ kb.shift_down = [m \in Mods |-> 0]
  BY DEF Init
<1>4. KbShape(kb)
  <2>1. PICK zero : zero = [m \in Mods |-> 0]
    OBVIOUS
  <2>2. zero \in [Mods -> Nat] /\ {} = {m \in Mods : zero[m] > 0}
    BY <2>1
  <2>3. /\ "key_down" \in DOMAIN kb /\ "shift_down" \in DOMAIN kb /\ "shift_state" \in DOMAIN kb
        /\ "sysrq_down" \in DOMAIN kb /\ "rep" \in DOMAIN kb /\ kb.shift_state = {}
    BY DEF Init
  <2> QED  BY <1>3, <2>1, <2>2, <2>3 DEF KbShape
<1>5. TableShape(table)
  <2>1. PICK r : r = [lockstate |-> {}, slockstate |-> {}, kbdmode |-> "VC_XLATE",
                      ledmode |-> "LED_SHOW_FLAGS", ledflagstate |-> {},
                      modeflags |-> {"VC_REPEAT", "VC_META"}, stopped |-> FALSE]
    OBVIOUS
  <2>2. /\ "lockstate" \in DOMAIN r /\ "slockstate" \in DOMAIN r /\ "kbdmode" \in DOMAIN r
        /\ r.lockstate = {} /\ r.slockstate = {}
    BY <2>1
  <2>3. table = [c \in Consoles |-> r]
    BY <2>1 DEF Init
  <2> QED  BY <2>2, <2>3 DEF TableShape
<1>6. Witnessed /\ GoneLost /\ Heard
  BY <1>2, <1>3 DEF Witnessed, GoneLost, Heard
<1>7. links = <<>>
  BY <1>1 DEF CoreInit
<1>8. CountedHeld
  <2> SUFFICES ASSUME NEW m \in Mods PROVE kb.shift_down[m] <= Cardinality(Held(m))
    BY DEF CountedHeld
  <2>1. <<>> \in Seq(HandleIds)
    OBVIOUS
  <2>2. Cardinality(Held(m)) \in Nat
    BY <1>7, <2>1, HeldFinite
  <2> QED  BY <1>3, <2>2
<1> QED  BY <1>1, <1>4, <1>5, <1>6, <1>8 DEF ModInv

(* No step changes the scenario, and with it the key maps.                  *)
LEMMA ScenarioKept ==
  ASSUME BindInv, [Next]_vars
  PROVE  sc' = sc
<1>1. CASE UNCHANGED vars
  BY <1>1 DEF vars, kbdVars
<1>2. CASE Next
  <2>1. ASSUME NEW d \in Devices,
               \/ RegisterDevice(d) \/ RegisterWalk(d) \/ RegisterDone(d)
               \/ UnregisterDevice(d) \/ DeviceRemoved(d)
        PROVE  sc' = sc
    BY <2>1 DEF RegisterDevice, RegisterWalk, RegisterDone, UnregisterDevice, DeviceRemoved,
                WalkStep, Quiet
  <2>2. ASSUME NEW h \in Handlers,
               \/ RegisterHandler(h) \/ RegisterHandlerWalk(h)
               \/ RegisterHandlerDone(h) \/ UnregisterHandler(h)
        PROVE  sc' = sc
    BY <2>2 DEF RegisterHandler, RegisterHandlerWalk, RegisterHandlerDone, UnregisterHandler,
                WalkStep, Quiet
  <2>3. ASSUME Elsewhere PROVE sc' = sc
    <3>1. ASSUME NEW d \in Devices, KeyEvent(d) \/ OtherEvent(d) \/ RepeatTimer(d) PROVE sc' = sc
      BY <3>1 DEF KeyEvent, OtherEvent, RepeatTimer, Report, kbdVars
    <3>2. ASSUME NEW i \in HandleIds, Grab(i) PROVE sc' = sc
      BY <3>2 DEF Grab, Quiet
    <3>3. ASSUME NEW c \in Consoles, ConsoleStep(c) PROVE sc' = sc
      BY <3>3 DEF ConsoleStep, SwitchScreen, KDSKBMODE, SetModeFlag, KDSKBLED, KDSETLED, NoCore
    <3>4. ASSUME NEW v \in VT, VtStep(v) PROVE sc' = sc
      BY <3>4 DEF VtStep, kd_mksound, kd_nosound, KDKBDREP, write_kbd_phys, NoCore
    <3>5. ASSUME kbd_bh PROVE sc' = sc
      BY <3>5 DEF kbd_bh
    <3> QED  BY <2>3, <3>1, <3>2, <3>3, <3>4, <3>5 DEF Elsewhere
  <2> QED  BY <1>2, <2>1, <2>2, <2>3, Steps
<1> QED  BY <1>1, <1>2

ModifiersInv == SameModifiers => ModInv

(* Modifiers, the inductive invariant: a modifier is counted down at most   *)
(* once for every handle that hears of a held key of it (k_shift and        *)
(* compute_shiftstate), as long as no event of its keys was kept from the   *)
(* handler; a key is down in the handler only while it is held or lost.     *)
THEOREM ModifiersSound == Spec => []ModifiersInv
<1>1. Init => ModifiersInv
  BY StuckInit DEF ModifiersInv
<1>2. BindInv /\ BindInv' /\ ModifiersInv /\ [Next]_vars => ModifiersInv'
  <2> SUFFICES ASSUME BindInv, BindInv', ModifiersInv, [Next]_vars, SameModifiers'
               PROVE  ModInv'
    BY DEF ModifiersInv
  <2>1. SameModifiers
    BY ScenarioKept DEF SameModifiers, key_maps
  <2>2. ModInv
    BY <2>1 DEF ModifiersInv
  <2>3. CASE Next
    BY <2>1, <2>2, <2>3, StuckNext
  <2>4. CASE UNCHANGED vars
    <3>1. UNCHANGED <<kb, table, sc, lost, dev, dpc, links, handle>>
      BY <2>4 DEF vars, coreVars, kbdVars
    <3>2. \A x \in Devices : MineOf(x) \subseteq MineOf(x)'
      BY <3>1 DEF MineOf
    <3>3. \A x \in Devices : dpc'[x] \in {"out", "del"} => dev'[x].key \subseteq lost'
      BY <2>2, <3>1 DEF ModInv, GoneLost
    <3>4. Frame
      BY <2>2, <3>1, <3>2, <3>3, LinksFrame
    <3>5. DevInv /\ links \in Seq(HandleIds) /\ links' \in Seq(HandleIds)
      BY DEF BindInv, RegInv, RegTypes
    <3> QED  BY <2>2, <3>4, <3>5, FrameKeeps
  <2> QED  BY <2>3, <2>4
<1> QED  BY <1>1, <1>2, BindingSound, PTL DEF Spec

(* Modifiers: shift_state holds a modifier only while one of its keys is    *)
(* held on some device, or after an event of such a key was kept from the   *)
(* translation, whatever is plugged, unplugged, grabbed, repeated, switched *)
(* and set (kbd_keycode, k_shift, k_slock, compute_shiftstate).             *)
THEOREM NoStuckModifierHolds == Spec => []NoStuckModifier
<1>1. BindInv /\ ModifiersInv => NoStuckModifier
  <2> SUFFICES ASSUME BindInv, ModInv, NEW m \in kb.shift_state
               PROVE  \E k \in Keys : /\ key_maps[{}][k].type \in {"KT_SHIFT", "KT_SLOCK"}
                                      /\ Modifier(key_maps[{}][k]) = m
                                      /\ k \in lost \/ \E d \in Devices : k \in dev[d].key
    BY DEF NoStuckModifier, ModifiersInv
  <2>1. m \in Mods /\ kb.shift_down[m] > 0 /\ kb.shift_down[m] \in Nat
    BY DEF ModInv, KbShape
  <2>2. CASE ModKeys(m) \cap lost # {}
    BY <2>2 DEF ModKeys
  <2>3. CASE ModKeys(m) \cap lost = {}
    <3>1. kb.shift_down[m] <= Cardinality(Held(m))
      BY <2>1, <2>3 DEF ModInv, CountedHeld
    <3>2. IsFiniteSet(Held(m)) /\ Cardinality(Held(m)) \in Nat
      BY HeldFinite DEF BindInv, RegInv, RegTypes
    <3>3. Held(m) # {}
      BY <2>1, <3>1, <3>2, FS_EmptySet
    <3>4. PICK d \in Devices, k \in Keys : k \in dev[d].key /\ k \in ModKeys(m)
      BY <3>3 DEF Held
    <3> QED  BY <3>4 DEF ModKeys
  <2> QED  BY <2>2, <2>3
<1> QED  BY <1>1, BindingSound, ModifiersSound, PTL
=============================================================================

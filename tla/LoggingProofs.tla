--------------------------- MODULE LoggingProofs ----------------------------
(***************************************************************************)
(* Proofs about Logging: for any threads, levels, files and messages, any  *)
(* calls of set(), and however many statements.  First what the calls come *)
(* to: the object they fill, the configuration it is merged into and the   *)
(* maps that are made of that, all of them folds, which are taken apart    *)
(* into their steps.  Then the statements, the registered loggers, the     *)
(* verbose levels for any lists of names with wildcards, and the           *)
(* configuration file of any lines.                                        *)
(***************************************************************************)
EXTENDS Logging, LogRegistry, LogFile, LogVerbose, DataLemmas

(***************************************************************************)
(* Configurations.                                                         *)
(***************************************************************************)

\* Entries of some types and values.
Entries(T, V) == [level : AllLevels, type : T, value : V]

\* The places of an entry, and its values; there is at most one in a Configurations object.
PlacesOf(c, l, t) == {i \in DOMAIN c : c[i].level = l /\ c[i].type = t}
Get(c, l, t) == {c[i].value : i \in PlacesOf(c, l, t)}
Distinct(c) == \A i, j \in DOMAIN c : c[i].level = c[j].level /\ c[i].type = c[j].type => i = j

\* Entries keep their places.
Grown(c, d) == \A i \in DOMAIN c : i \in DOMAIN d /\ d[i].level = c[i].level /\ d[i].type = c[i].type

\* c has become d by setting a value of one type for some levels.
Put(c, d, L, t, v) ==
  /\ Distinct(d) /\ Grown(c, d)
  /\ \A i \in DOMAIN d : i \in DOMAIN c \/ (d[i].type = t /\ d[i].level \in L)
  /\ \A m, u : Get(d, m, u) = IF u = t /\ m \in L THEN {v} ELSE Get(c, m, u)

LEMMA PlaceLaw ==
  ASSUME NEW E, NEW c \in Seq(E), NEW l, NEW t
  PROVE  \/ Place(c, l, t) = 0 /\ PlacesOf(c, l, t) = {}
         \/ Place(c, l, t) \in PlacesOf(c, l, t) /\ Place(c, l, t) # 0
<1> DEFINE I == {i \in 1..Len(c) : c[i].level = l /\ c[i].type = t}
<1>1. Len(c) \in Nat /\ DOMAIN c = 1..Len(c)
  BY LenProperties
<1>2. Place(c, l, t) = IF I # {} THEN Min(I) ELSE 0
  BY DEF Place, SelectInSeq
<1>3. I = PlacesOf(c, l, t) /\ I \subseteq Nat /\ 0 \notin I
  BY <1>1 DEF PlacesOf
<1> HIDE DEF I
<1>4. I # {} => Min(I) \in I
  BY <1>3, Smallest
<1> QED
  BY <1>2, <1>3, <1>4

LEMMA PutTwice ==
  ASSUME NEW c, NEW d, NEW e, NEW L, NEW M, NEW t, NEW v, Put(c, d, L, t, v), Put(d, e, M, t, v)
  PROVE  Put(c, e, L \cup M, t, v)
<1>1. Distinct(e) /\ Grown(c, e)
  BY DEF Put, Grown
<1>2. \A i \in DOMAIN e : i \in DOMAIN c \/ (e[i].type = t /\ e[i].level \in L \cup M)
  BY DEF Put, Grown
<1>3. ASSUME NEW m, NEW u PROVE Get(e, m, u) = IF u = t /\ m \in L \cup M THEN {v} ELSE Get(c, m, u)
  <2>1. Get(d, m, u) = IF u = t /\ m \in L THEN {v} ELSE Get(c, m, u)
    BY Zenon DEF Put
  <2>2. Get(e, m, u) = IF u = t /\ m \in M THEN {v} ELSE Get(d, m, u)
    BY Zenon DEF Put
  <2> QED
    BY <2>1, <2>2
<1> QED
  BY <1>1, <1>2, <1>3 DEF Put

\* Setting it for no level.
LEMMA PutNothing ==
  ASSUME NEW c, Distinct(c), NEW t, NEW v
  PROVE  Put(c, c, {}, t, v)
  BY DEF Put, Grown

LEMMA RegisterLaw ==
  ASSUME NEW T, NEW V, NEW c \in Seq(Entries(T, V)), Distinct(c), NEW l \in AllLevels, NEW t \in T, NEW v \in V
  PROVE  register(c, l, t, v) \in Seq(Entries(T, V)) /\ Put(c, register(c, l, t, v), {l}, t, v)
<1>1. PICK E : E = Entries(T, V)
  OBVIOUS
<1>2. c \in Seq(E) /\ Len(c) \in Nat /\ DOMAIN c = 1..Len(c) /\ \A i \in 1..Len(c) : c[i] \in E
  BY <1>1, LenProperties, ElementOfSeq
<1>3. PICK x : x = Entry(l, t, v)
  OBVIOUS
<1>4. x \in E /\ x.level = l /\ x.type = t /\ x.value = v
  BY <1>1, <1>3 DEF Entries, Entry
<1>5. PICK d : d = register(c, l, t, v)
  OBVIOUS
<1>6. CASE PlacesOf(c, l, t) = {}
  <2>1. d = Append(c, x)
    BY <1>2, <1>3, <1>5, <1>6, PlaceLaw DEF register
  <2>2. /\ d \in Seq(E) /\ DOMAIN d = 1..(Len(c) + 1) /\ d[Len(c) + 1] = x
        /\ \A i \in 1..Len(c) : d[i] = c[i]
    BY <1>2, <1>4, <2>1
  <2>3. \A i \in DOMAIN d : i \in DOMAIN c \/ i = Len(c) + 1
    BY <1>2, <2>2
  <2>4. Grown(c, d)
    BY <1>2, <2>2 DEF Grown
  <2>5. Distinct(d)
    <3>1. \A i \in DOMAIN c : ~(c[i].level = l /\ c[i].type = t)
      BY <1>6 DEF PlacesOf
    <3> QED
      BY <1>2, <1>4, <2>2, <2>3, <3>1 DEF Distinct
  <2>6. \A i \in DOMAIN d : i \in DOMAIN c \/ (d[i].type = t /\ d[i].level \in {l})
    BY <1>4, <2>2, <2>3
  <2>7. ASSUME NEW m, NEW u PROVE Get(d, m, u) = IF u = t /\ m \in {l} THEN {v} ELSE Get(c, m, u)
    <3>1. CASE u = t /\ m = l
      <4>1. PlacesOf(d, m, u) = {Len(c) + 1}
        BY <1>2, <1>4, <1>6, <2>2, <2>3, <3>1 DEF PlacesOf
      <4> QED
        BY <1>4, <2>2, <3>1, <4>1 DEF Get
    <3>2. CASE ~(u = t /\ m = l)
      <4>1. PlacesOf(d, m, u) = PlacesOf(c, m, u)
        BY <1>2, <1>4, <2>2, <2>3, <3>2 DEF PlacesOf
      <4>2. \A i \in PlacesOf(c, m, u) : d[i].value = c[i].value
        BY <1>2, <2>2 DEF PlacesOf
      <4> QED
        BY <3>2, <4>1, <4>2 DEF Get
    <3> QED
      BY <3>1, <3>2
  <2> QED
    BY <1>1, <1>5, <2>2, <2>4, <2>5, <2>6, <2>7 DEF Put
<1>7. CASE PlacesOf(c, l, t) # {}
  <2>1. PICK p : p = Place(c, l, t)
    OBVIOUS
  <2>2. p \in PlacesOf(c, l, t) /\ p # 0
    BY <1>2, <1>7, <2>1, PlaceLaw
  <2>3. p \in 1..Len(c) /\ c[p].level = l /\ c[p].type = t
    BY <1>2, <2>2 DEF PlacesOf
  <2>4. d = [c EXCEPT ![p].value = v]
    BY <1>5, <2>1, <2>2 DEF register
  <2>5. [c[p] EXCEPT !.value = v] = x
    <3>1. c[p] \in Entries(T, V)
      BY <1>1, <1>2, <2>3
    <3> QED
      BY <1>3, <2>3, <3>1 DEF Entries, Entry
  <2>6. d = [i \in 1..Len(c) |-> IF i = p THEN x ELSE c[i]]
    BY <1>2, <2>3, <2>4, <2>5
  <2>7. d \in Seq(E) /\ DOMAIN d = 1..Len(c)
    <3>1. d \in [1..Len(c) -> E]
      BY <1>2, <1>4, <2>6
    <3> QED
      BY <1>2, <3>1, SeqDef
  <2>8. \A i \in 1..Len(c) : d[i].level = c[i].level /\ d[i].type = c[i].type /\ (i # p => d[i] = c[i])
    BY <1>4, <2>3, <2>6
  <2>9. Grown(c, d) /\ Distinct(d)
    BY <1>2, <2>7, <2>8 DEF Grown, Distinct
  <2>10. ASSUME NEW m, NEW u PROVE Get(d, m, u) = IF u = t /\ m \in {l} THEN {v} ELSE Get(c, m, u)
    <3>1. PlacesOf(d, m, u) = PlacesOf(c, m, u)
      BY <1>2, <2>7, <2>8 DEF PlacesOf
    <3>2. CASE u = t /\ m = l
      <4>1. PlacesOf(c, m, u) = {p}
        BY <1>2, <2>2, <2>3, <3>2 DEF PlacesOf, Distinct
      <4>2. d[p].value = v
        BY <1>4, <2>3, <2>6
      <4> QED
        BY <3>1, <3>2, <4>1, <4>2 DEF Get
    <3>3. CASE ~(u = t /\ m = l)
      <4>1. \A i \in PlacesOf(c, m, u) : d[i].value = c[i].value
        BY <1>2, <2>3, <2>8, <3>3 DEF PlacesOf
      <4> QED
        BY <3>1, <3>3, <4>1 DEF Get
    <3> QED
      BY <3>2, <3>3
  <2> QED
    BY <1>1, <1>2, <1>5, <2>7, <2>9, <2>10 DEF Put
<1> QED
  BY <1>6, <1>7

\* A Configurations object.
Objects(T, V) == {c \in Seq(Entries(T, V)) : Distinct(c)}

\* unsafeSetGlobally as a sequence of steps.
ForLevel(c, l, t, v) == IF l \in Levels THEN register(c, l, t, v) ELSE c

AnyLevel == {"Trace", "Debug", "Fatal", "Error", "Warning", "Verbose", "Info"}

LEMMA LevelOrderIs == LevelOrder \in Seq(AnyLevel) /\ Len(LevelOrder) = 7 /\ Global \notin Levels
<1>1. LevelOrder \in Seq(AnyLevel) /\ Len(LevelOrder) = 7
  BY DEF LevelOrder, AnyLevel
<1>2. \A i \in 1..7 : LevelOrder[i] # Global
  <2> SUFFICES ASSUME NEW i \in 1..7 PROVE LevelOrder[i] # Global
    OBVIOUS
  <2>1. i = 1 \/ i = 2 \/ i = 3 \/ i = 4 \/ i = 5 \/ i = 6 \/ i = 7
    OBVIOUS
  <2> QED
    BY <2>1 DEF LevelOrder, Global
<1>3. DOMAIN LevelOrder = 1..7
  BY <1>1, LenProperties
<1> QED
  BY <1>1, <1>2, <1>3, LevelsAssumption DEF Range

LEMMA GloballySteps ==
  ASSUME NEW T, NEW V, NEW c \in Objects(T, V), NEW t \in T, NEW v \in V
  PROVE  \E f : /\ f[0] = c
                /\ \A i \in 1..7 : f[i] = ForLevel(f[i - 1], LevelOrder[i], t, v)
                /\ unsafeSetGlobally(c, t, v) = f[7]
<1> DEFINE iter == CHOOSE it : it = [s \in SUBSET DOMAIN LevelOrder |->
              IF s = {} THEN c ELSE ForLevel(it[s \ {Max(s)}], LevelOrder[Max(s)], t, v)]
<1>1. unsafeSetGlobally(c, t, v) = iter[DOMAIN LevelOrder]
  BY DEF unsafeSetGlobally, FoldLeft, MapThenFoldSet, ForLevel
<1>2. PICK F : F = [p \in Objects(T, V) \X AnyLevel |-> ForLevel(p[1], p[2], t, v)]
  OBVIOUS
<1>3. F \in [Objects(T, V) \X AnyLevel -> Objects(T, V)]
  <2>1. ASSUME NEW d \in Objects(T, V), NEW l \in AnyLevel PROVE ForLevel(d, l, t, v) \in Objects(T, V)
    <3>1. l \in Levels => register(d, l, t, v) \in Seq(Entries(T, V)) /\ Put(d, register(d, l, t, v), {l}, t, v)
      BY RegisterLaw DEF Objects, AllLevels
    <3> QED
      BY <3>1 DEF ForLevel, Objects, Put
  <2> QED
    BY <1>2, <2>1
<1>4. PICK it : Folding(it, F, c, LevelOrder, AnyLevel, Objects(T, V))
  <2> HIDE DEF iter
  <2> QED
    BY <1>3, LevelOrderIs, FoldDefined, Zenon
<1>5. it = [s \in SUBSET DOMAIN LevelOrder |-> IF s = {} THEN c ELSE ForLevel(it[s \ {Max(s)}], LevelOrder[Max(s)], t, v)]
  BY <1>2, <1>4 DEF Folding
<1>6. iter = [s \in SUBSET DOMAIN LevelOrder |-> IF s = {} THEN c ELSE ForLevel(iter[s \ {Max(s)}], LevelOrder[Max(s)], t, v)]
  BY <1>5
<1> HIDE DEF iter
<1>7. PICK f : Beginnings(f, iter, LevelOrder)
  BY LevelOrderIs, FoldSteps
<1>8. f[0] = c /\ f[7] = iter[DOMAIN LevelOrder]
  BY <1>6, <1>7, LevelOrderIs DEF Beginnings
<1>9. ASSUME NEW i \in 1..7 PROVE f[i] = ForLevel(f[i - 1], LevelOrder[i], t, v)
  <2>1. /\ f[i] = iter[1..i] /\ 1..i \in SUBSET DOMAIN LevelOrder /\ 1..i # {}
        /\ f[i - 1] = iter[(1..i) \ {Max(1..i)}] /\ Max(1..i) = i
    BY <1>7, LevelOrderIs DEF Beginnings
  <2> QED
    BY <1>6, <2>1
<1> QED
  BY <1>1, <1>8, <1>9

LEMMA GloballyLaw ==
  ASSUME NEW T, NEW V, NEW c \in Objects(T, V), NEW t \in T, NEW v \in V
  PROVE  /\ unsafeSetGlobally(c, t, v) \in Objects(T, V)
         /\ Put(c, unsafeSetGlobally(c, t, v), Levels, t, v)
<1>1. PICK f : /\ f[0] = c
               /\ \A i \in 1..7 : f[i] = ForLevel(f[i - 1], LevelOrder[i], t, v)
               /\ unsafeSetGlobally(c, t, v) = f[7]
  BY GloballySteps
<1> DEFINE Done(i) == {l \in Levels : \E j \in 1..i : LevelOrder[j] = l}
    S == {i \in 0..7 : f[i] \in Objects(T, V) /\ Put(c, f[i], Done(i), t, v)}
<1>2. 0 \in S
  <2>1. Done(0) = {}
    OBVIOUS
  <2>2. Distinct(c)
    BY DEF Objects
  <2> QED
    BY <1>1, <2>1, <2>2, PutNothing
<1>3. ASSUME NEW i \in 1..7, i - 1 \in S PROVE i \in S
  <2>1. f[i - 1] \in Objects(T, V) /\ Put(c, f[i - 1], Done(i - 1), t, v)
    BY <1>3
  <2>2. PICK d : d = f[i - 1]
    OBVIOUS
  <2>3. f[i] = ForLevel(d, LevelOrder[i], t, v)
    BY <1>1, <2>2
  <2>4. \A j \in 1..i : j \in 1..(i - 1) \/ j = i
    OBVIOUS
  <2>5. CASE LevelOrder[i] \in Levels
    <3>1. f[i] \in Seq(Entries(T, V)) /\ Put(d, f[i], {LevelOrder[i]}, t, v)
      <4>1. f[i] = register(d, LevelOrder[i], t, v) /\ LevelOrder[i] \in AllLevels
        BY <2>3, <2>5 DEF AllLevels, ForLevel
      <4>2. d \in Seq(Entries(T, V)) /\ Distinct(d)
        BY <2>1, <2>2 DEF Objects
      <4> HIDE DEF Done, S
      <4>3. PICK l \in AllLevels : l = LevelOrder[i]
        BY <4>1
      <4>4. register(d, l, t, v) \in Seq(Entries(T, V)) /\ Put(d, register(d, l, t, v), {l}, t, v)
        BY <4>2, RegisterLaw
      <4> QED
        BY <4>1, <4>3, <4>4
    <3>2. Done(i) = Done(i - 1) \cup {LevelOrder[i]}
      BY <2>4, <2>5
    <3> HIDE DEF Done
    <3>3. Put(c, f[i], Done(i), t, v)
      BY <2>1, <2>2, <3>1, <3>2, PutTwice
    <3>4. f[i] \in Objects(T, V)
      BY <3>1, <3>3 DEF Objects, Put
    <3> QED
      BY <3>3, <3>4
  <2>6. CASE LevelOrder[i] \notin Levels
    <3>1. f[i] = d
      BY <2>3, <2>6 DEF ForLevel
    <3>2. Done(i) = Done(i - 1)
      BY <2>4, <2>6
    <3> HIDE DEF Done
    <3> QED
      BY <2>1, <2>2, <3>1, <3>2
  <2> QED
    BY <2>5, <2>6
<1> HIDE DEF S
<1>4. \A i \in 0..7 : i \in S
  BY <1>2, <1>3, InductionUpTo
<1>5. Done(7) = Levels
  <2>1. \A l \in Levels : \E j \in 1..7 : LevelOrder[j] = l
    BY LevelsAssumption, LevelOrderIs DEF Range
  <2> QED
    BY <2>1
<1>6. 7 \in S
  BY <1>4
<1> QED
  BY <1>1, <1>5, <1>6 DEF S

\* set() sets a value for a level, or for all of them, Global first.
ForAll(l) == IF l = Global THEN AllLevels ELSE {l}

LEMMA SetLaw ==
  ASSUME NEW T, NEW V, NEW c \in Objects(T, V), NEW l \in AllLevels, NEW t \in T, NEW v \in V
  PROVE  /\ set(c, l, t, v) \in Objects(T, V)
         /\ Put(c, set(c, l, t, v), ForAll(l), t, v)
         /\ l = Global => \A i \in DOMAIN set(c, l, t, v) : i \in DOMAIN c \/
              \E j \in 1..i : set(c, l, t, v)[j].level = Global /\ set(c, l, t, v)[j].type = t
<1>1. PICK d : d = register(c, l, t, v)
  OBVIOUS
<1>2. d \in Objects(T, V) /\ Put(c, d, {l}, t, v)
  BY <1>1, RegisterLaw DEF Objects, Put
<1>3. CASE l # Global
  BY <1>1, <1>2, <1>3 DEF set, ForAll
<1>4. CASE l = Global
  <2>1. PICK e : e = unsafeSetGlobally(d, t, v)
    OBVIOUS
  <2>2. set(c, l, t, v) = e
    BY <1>1, <1>4, <2>1 DEF set
  <2>3. e \in Objects(T, V) /\ Put(d, e, Levels, t, v)
    BY <1>2, <2>1, GloballyLaw
  <2>4. Put(c, e, {l} \cup Levels, t, v)
    BY <1>2, <2>3, PutTwice
  <2>5. {l} \cup Levels = ForAll(l)
    BY <1>4 DEF ForAll, AllLevels
  <2>6. ASSUME NEW i \in DOMAIN e, i \notin DOMAIN c PROVE \E j \in 1..i : e[j].level = Global /\ e[j].type = t
    <3>1. Get(d, Global, t) = {v}
      BY <1>2, <1>4 DEF Put
    <3>2. PICK j \in DOMAIN d : d[j].level = Global /\ d[j].type = t
      BY <3>1 DEF Get, PlacesOf
    <3>3. e[j].level = Global /\ e[j].type = t
      BY <2>3, <3>2 DEF Put, Grown
    <3>4. \A k \in DOMAIN d : k \in DOMAIN c \/ k = j
      BY <1>2, <1>4, <3>2 DEF Put, Distinct
    <3>5. /\ DOMAIN c = 1..Len(c) /\ Len(c) \in Nat /\ DOMAIN d = 1..Len(d) /\ Len(d) \in Nat
          /\ DOMAIN e = 1..Len(e) /\ Len(e) \in Nat
      BY <1>2, <2>3, LenProperties DEF Objects
    <3>6. j <= i
      BY <2>6, <3>4, <3>5
    <3>7. j \in 1..i
      BY <3>2, <3>5, <3>6
    <3> QED
      BY <3>3, <3>7
  <2> QED
    BY <2>2, <2>3, <2>4, <2>5, <2>6
<1> QED
  BY <1>3, <1>4

-----------------------------------------------------------------------------
\* setFromBase, and setToDefault, as a sequence of steps.
SetSteps(f, c, q) ==
  /\ f[0] = c
  /\ \A i \in 1..Len(q) :
       f[i] = IF q[i].level \in AllLevels THEN set(f[i - 1], q[i].level, q[i].type, q[i].value) ELSE f[i - 1]

\* The places, up to k, at which a level gets a value of a type, by itself or with all others.
Matching(q, k, l, t) == {i \in 1..k : q[i].type = t /\ q[i].level \in {l, Global}}

\* Where a type is set, Global was set before, or is.
Led(c, t) ==
  \A i \in DOMAIN c : c[i].type = t /\ c[i].level \in AllLevels =>
    \E j \in 1..i : c[j].type = t /\ c[j].level = Global

LEMMA FromBaseSteps ==
  ASSUME NEW T, NEW V, NEW c \in Objects(T, V), NEW base \in Seq(Entries(T, V))
  PROVE  \E f : SetSteps(f, c, base) /\ setFromBase(c, base) = f[Len(base)]
<1> DEFINE iter == CHOOSE it : it = [s \in SUBSET DOMAIN base |->
              IF s = {} THEN c
              ELSE set(it[s \ {Max(s)}], base[Max(s)].level, base[Max(s)].type, base[Max(s)].value)]
<1>1. setFromBase(c, base) = iter[DOMAIN base]
  BY DEF setFromBase, FoldLeft, MapThenFoldSet
<1>2. PICK F : F = [p \in Objects(T, V) \X Entries(T, V) |-> set(p[1], p[2].level, p[2].type, p[2].value)]
  OBVIOUS
<1>3. F \in [Objects(T, V) \X Entries(T, V) -> Objects(T, V)]
  <2>1. ASSUME NEW d \in Objects(T, V), NEW e \in Entries(T, V)
        PROVE  set(d, e.level, e.type, e.value) \in Objects(T, V)
    <3>1. e.level \in AllLevels /\ e.type \in T /\ e.value \in V
      BY DEF Entries
    <3> QED
      BY <3>1, SetLaw
  <2> QED
    BY <1>2, <2>1
<1>4. PICK it : Folding(it, F, c, base, Entries(T, V), Objects(T, V))
  <2> HIDE DEF iter
  <2> QED
    BY <1>3, FoldDefined, Zenon
<1>5. it = [s \in SUBSET DOMAIN base |->
              IF s = {} THEN c
              ELSE set(it[s \ {Max(s)}], base[Max(s)].level, base[Max(s)].type, base[Max(s)].value)]
  BY <1>2, <1>4 DEF Folding
<1>6. iter = [s \in SUBSET DOMAIN base |->
              IF s = {} THEN c
              ELSE set(iter[s \ {Max(s)}], base[Max(s)].level, base[Max(s)].type, base[Max(s)].value)]
  BY <1>5
<1> HIDE DEF iter
<1>7. PICK f : Beginnings(f, iter, base)
  BY FoldSteps
<1>8. f[0] = c /\ f[Len(base)] = iter[DOMAIN base]
  BY <1>6, <1>7 DEF Beginnings
<1>9. ASSUME NEW i \in 1..Len(base) PROVE f[i] = set(f[i - 1], base[i].level, base[i].type, base[i].value)
  <2>1. /\ f[i] = iter[1..i] /\ 1..i \in SUBSET DOMAIN base /\ 1..i # {}
        /\ f[i - 1] = iter[(1..i) \ {Max(1..i)}] /\ Max(1..i) = i
    BY <1>7 DEF Beginnings
  <2> QED
    BY <1>6, <2>1
<1>10. \A i \in 1..Len(base) : base[i].level \in AllLevels
  <2>1. \A i \in 1..Len(base) : base[i] \in Entries(T, V)
    BY ElementOfSeq
  <2> QED
    BY <2>1 DEF Entries
<1> QED
  BY <1>1, <1>8, <1>9, <1>10 DEF SetSteps

\* One step.
OneSet(d, e, l, t, v, m, u) ==
  /\ Grown(d, e)
  /\ Get(e, m, u) = IF u = t /\ l \in {m, Global} THEN {v} ELSE Get(d, m, u)
  /\ Led(d, u) /\ (u = t => l = Global \/ Get(d, Global, u) # {}) => Led(e, u)

LEMMA OneSetStep ==
  ASSUME NEW T, NEW V, NEW d \in Objects(T, V), NEW l \in AllLevels, NEW t \in T, NEW v \in V, NEW u, NEW m \in AllLevels
  PROVE  set(d, l, t, v) \in Objects(T, V) /\ OneSet(d, set(d, l, t, v), l, t, v, m, u)
<1>1. PICK e : e = set(d, l, t, v)
  OBVIOUS
<1>2. /\ e \in Objects(T, V) /\ Put(d, e, ForAll(l), t, v)
      /\ l = Global => \A i \in DOMAIN e : i \in DOMAIN d \/ \E j \in 1..i : e[j].level = Global /\ e[j].type = t
  BY <1>1, SetLaw
<1>3. m \in ForAll(l) <=> l \in {m, Global}
  BY DEF ForAll, AllLevels
<1>4. Get(e, m, u) = IF u = t /\ l \in {m, Global} THEN {v} ELSE Get(d, m, u)
  BY <1>2, <1>3, Zenon DEF Put
<1>5. Grown(d, e)
  BY <1>2 DEF Put
<1>6. /\ DOMAIN d = 1..Len(d) /\ Len(d) \in Nat /\ DOMAIN e = 1..Len(e) /\ Len(e) \in Nat
  BY <1>2, LenProperties DEF Objects
<1>7. ASSUME Led(d, u), u = t => l = Global \/ Get(d, Global, u) # {},
             NEW i \in DOMAIN e, e[i].type = u, e[i].level \in AllLevels
      PROVE  \E j \in 1..i : e[j].type = u /\ e[j].level = Global
  <2>1. CASE i \in DOMAIN d
    <3>1. d[i].type = u /\ d[i].level \in AllLevels
      BY <1>5, <1>7, <2>1 DEF Grown
    <3>2. PICK j \in 1..i : d[j].type = u /\ d[j].level = Global
      BY <1>7, <2>1, <3>1 DEF Led
    <3>3. j \in DOMAIN d
      BY <1>6, <2>1, <3>2
    <3> QED
      BY <1>5, <3>2, <3>3 DEF Grown
  <2>2. CASE i \notin DOMAIN d
    <3>1. u = t
      BY <1>2, <1>7, <2>2 DEF Put
    <3>2. CASE l = Global
      BY <1>2, <1>7, <2>2, <3>1, <3>2
    <3>3. CASE l # Global
      <4>1. Get(d, Global, u) # {}
        BY <1>7, <3>1, <3>3
      <4>2. PICK j \in DOMAIN d : d[j].level = Global /\ d[j].type = u
        BY <4>1 DEF Get, PlacesOf
      <4>3. e[j].level = Global /\ e[j].type = u
        BY <1>5, <4>2 DEF Grown
      <4>4. j \in 1..i
        BY <1>6, <1>7, <2>2, <4>2
      <4> QED
        BY <4>3, <4>4
    <3> QED
      BY <3>2, <3>3
  <2> QED
    BY <2>1, <2>2
<1>8. Led(d, u) /\ (u = t => l = Global \/ Get(d, Global, u) # {}) => Led(e, u)
  BY <1>7 DEF Led
<1> QED
  BY <1>1, <1>2, <1>4, <1>5, <1>8 DEF OneSet

\* The last value set for a level counts.
LastCounts(c, q, d, l, t) ==
  /\ Grown(c, d)
  /\ Matching(q, Len(q), l, t) = {} => Get(d, l, t) = Get(c, l, t)
  /\ \A i \in Matching(q, Len(q), l, t) :
       (\A j \in Matching(q, Len(q), l, t) : j <= i) => Get(d, l, t) = {q[i].value}
  /\ Led(c, t) /\ (Get(c, Global, t) # {} \/ Led(q, t)) => Led(d, t)

\* Calls of set(), some of them for levels that are not used.
Fitting(q, T, V) == \A i \in 1..Len(q) : q[i].type \in T /\ q[i].value \in V

LEMMA SetStepsLaw ==
  ASSUME NEW T, NEW V, NEW c \in Objects(T, V), NEW E, NEW q \in Seq(E), Fitting(q, T, V),
         NEW f, SetSteps(f, c, q), NEW l \in AllLevels, NEW t
  PROVE  f[Len(q)] \in Objects(T, V) /\ LastCounts(c, q, f[Len(q)], l, t)
<1>1. Len(q) \in Nat /\ DOMAIN q = 1..Len(q) /\ \A i \in 1..Len(q) : q[i].type \in T /\ q[i].value \in V
  BY LenProperties DEF Fitting
<1> DEFINE LastCounted(k) ==
      /\ f[k] \in Objects(T, V) /\ Grown(c, f[k])
      /\ Matching(q, k, l, t) = {} => Get(f[k], l, t) = Get(c, l, t)
      /\ \A i \in Matching(q, k, l, t) :
           (\A j \in Matching(q, k, l, t) : j <= i) => Get(f[k], l, t) = {q[i].value}
    GlobalThere(k) ==
      (Get(c, Global, t) # {} \/ \E j \in 1..k : q[j].type = t /\ q[j].level = Global) => Get(f[k], Global, t) # {}
    Leading(k) == Led(c, t) /\ (Get(c, Global, t) # {} \/ Led(q, t)) => Led(f[k], t)
    S == {k \in 0..Len(q) : LastCounted(k) /\ GlobalThere(k) /\ Leading(k)}
<1>2. 0 \in S
  <2>1. f[0] = c /\ Matching(q, 0, l, t) = {}
    BY DEF SetSteps, Matching
  <2>2. Grown(c, c)
    BY DEF Grown
  <2> QED
    BY <1>1, <2>1, <2>2
<1>3. ASSUME NEW k \in 1..Len(q), k - 1 \in S PROVE k \in S
  <2>1. LastCounted(k - 1) /\ GlobalThere(k - 1) /\ Leading(k - 1)
    BY <1>3
  <2>2. PICK d : d = f[k - 1]
    OBVIOUS
  <2>3. PICK x : x = q[k]
    OBVIOUS
  <2>4. x.type \in T /\ x.value \in V
    BY <1>1, <2>3
  <2>5. \A j \in 1..k : j \in 1..(k - 1) \/ j = k
    BY <1>1
  <2>6. \A j \in 1..(k - 1) : j \in 1..k /\ j < k
    BY <1>1
  <2>7. CASE x.level \notin AllLevels
    <3>1. f[k] = d
      BY <2>2, <2>3, <2>7 DEF SetSteps
    <3>2. x.level \notin {l, Global}
      BY <2>7 DEF AllLevels
    <3>3. Matching(q, k, l, t) = Matching(q, k - 1, l, t)
      BY <2>3, <2>5, <2>6, <3>2 DEF Matching
    <3>4. LastCounted(k)
      BY <2>1, <2>2, <3>1, <3>3
    <3>5. GlobalThere(k)
      BY <2>1, <2>2, <2>3, <2>5, <3>1, <3>2
    <3>6. Leading(k)
      BY <2>1, <2>2, <3>1
    <3> QED
      BY <1>1, <3>4, <3>5, <3>6
  <2>8. CASE x.level \in AllLevels
    <3>1. f[k] = set(d, x.level, x.type, x.value)
      BY <2>2, <2>3, <2>8 DEF SetSteps
    <3>2. d \in Objects(T, V) /\ Global \in AllLevels
      BY <2>1, <2>2 DEF AllLevels
    <3>3. /\ f[k] \in Objects(T, V) /\ Grown(d, f[k])
          /\ \A m \in AllLevels :
               Get(f[k], m, t) = IF t = x.type /\ x.level \in {m, Global} THEN {x.value} ELSE Get(d, m, t)
          /\ Led(d, t) /\ (t = x.type => x.level = Global \/ Get(d, Global, t) # {}) => Led(f[k], t)
      <4> HIDE DEF LastCounted, GlobalThere, Leading, S
      <4>1. PICK y \in AllLevels, u \in T, v \in V : y = x.level /\ u = x.type /\ v = x.value
        BY <2>4, <2>8
      <4>2. ASSUME NEW m \in AllLevels
            PROVE  set(d, y, u, v) \in Objects(T, V) /\ OneSet(d, set(d, y, u, v), y, u, v, m, t)
        BY <3>2, OneSetStep
      <4> QED
        BY <3>1, <3>2, <4>1, <4>2 DEF OneSet
    <3>4. Grown(c, f[k])
      BY <2>1, <2>2, <3>3 DEF Grown
    <3>5. LastCounted(k)
      <4>1. CASE t = x.type /\ x.level \in {l, Global}
        <5>1. k \in Matching(q, k, l, t) /\ \A i \in Matching(q, k, l, t) : i <= k
          BY <1>1, <2>3, <4>1 DEF Matching
        <5>2. \A i \in Matching(q, k, l, t) : (\A j \in Matching(q, k, l, t) : j <= i) => i = k
          <6>1. \A i \in Matching(q, k, l, t) : i \in Nat
            BY <1>1 DEF Matching
          <6> QED
            BY <5>1, <6>1
        <5>3. Get(f[k], l, t) = {q[k].value}
          BY <2>3, <3>3, <4>1
        <5> QED
          BY <3>3, <3>4, <5>1, <5>2, <5>3
      <4>2. CASE ~(t = x.type /\ x.level \in {l, Global})
        <5>1. Matching(q, k, l, t) = Matching(q, k - 1, l, t)
          BY <2>3, <2>5, <2>6, <4>2 DEF Matching
        <5>2. Get(f[k], l, t) = Get(d, l, t)
          BY <3>3, <4>2
        <5> QED
          BY <2>1, <2>2, <3>3, <3>4, <5>1, <5>2
      <4> QED
        BY <4>1, <4>2
    <3>6. GlobalThere(k)
      BY <2>1, <2>2, <2>3, <2>5, <3>2, <3>3
    <3>7. Leading(k)
      <4> SUFFICES ASSUME Led(c, t), Get(c, Global, t) # {} \/ Led(q, t) PROVE Led(f[k], t)
        OBVIOUS
      <4>1. Led(d, t)
        BY <2>1, <2>2
      <4>2. t = x.type => x.level = Global \/ Get(d, Global, t) # {}
        <5> SUFFICES ASSUME t = x.type, x.level # Global PROVE Get(d, Global, t) # {}
          OBVIOUS
        <5>1. CASE Get(c, Global, t) # {}
          BY <2>1, <2>2, <5>1
        <5>2. CASE Led(q, t)
          <6>1. PICK j \in 1..k : q[j].type = t /\ q[j].level = Global
            BY <1>1, <2>3, <2>8, <5>2 DEF Led
          <6>2. j \in 1..(k - 1)
            BY <2>3, <2>5, <6>1
          <6> QED
            BY <2>1, <2>2, <6>1, <6>2
        <5> QED
          BY <5>1, <5>2
      <4> QED
        BY <3>3, <4>1, <4>2
    <3> QED
      BY <1>1, <3>5, <3>6, <3>7
  <2> QED
    BY <2>7, <2>8
<1> HIDE DEF S
<1>4. \A k \in 0..Len(q) : k \in S
  BY <1>1, <1>2, <1>3, InductionUpTo
<1>5. Len(q) \in S
  BY <1>1, <1>4
<1> QED
  BY <1>5 DEF S, LastCounts

\* Where a type is set for Global, that comes first, and no level is left out.
Fronted(q, t) == Get(q, Global, t) # {} => Led(q, t)
Everywhere(q, t) == Get(q, Global, t) # {} => \A l \in AllLevels : Get(q, l, t) # {}

\* An object merged into another: its values replace the other's.
LEMMA MergeAny ==
  ASSUME NEW T, NEW V, NEW c \in Objects(T, V), NEW q \in Objects(T, V), NEW l \in AllLevels, NEW t \in T,
         NEW d, d = setFromBase(c, q)
  PROVE  /\ d \in Objects(T, V)
         /\ Led(c, t) /\ (Get(c, Global, t) # {} \/ Led(q, t)) => Led(d, t)
         /\ Get(c, l, t) # {} => Get(d, l, t) # {}
         /\ Fronted(q, t) /\ Everywhere(q, t) => Get(d, l, t) = IF Get(q, l, t) # {} THEN Get(q, l, t) ELSE Get(c, l, t)
<1>1. q \in Seq(Entries(T, V)) /\ Distinct(q) /\ Len(q) \in Nat /\ DOMAIN q = 1..Len(q)
  BY LenProperties DEF Objects
<1>2. PICK f : SetSteps(f, c, q) /\ d = f[Len(q)]
  BY <1>1, FromBaseSteps
<1>3. d \in Objects(T, V) /\ LastCounts(c, q, d, l, t)
  <2>1. ASSUME NEW i \in 1..Len(q) PROVE q[i].type \in T /\ q[i].value \in V
    <3>1. q[i] \in Entries(T, V)
      BY <1>1, ElementOfSeq
    <3> QED
      BY <3>1 DEF Entries
  <2>2. PICK X : X = Entries(T, V)
    OBVIOUS
  <2>3. q \in Seq(X) /\ Fitting(q, T, V)
    BY <1>1, <2>1, <2>2 DEF Fitting
  <2>4. f[Len(q)] \in Objects(T, V) /\ LastCounts(c, q, f[Len(q)], l, t)
    BY <1>1, <1>2, <2>3, SetStepsLaw
  <2> QED
    BY <1>2, <2>4
<1>4. /\ Grown(c, d)
      /\ Matching(q, Len(q), l, t) = {} => Get(d, l, t) = Get(c, l, t)
      /\ \A i \in Matching(q, Len(q), l, t) :
           (\A j \in Matching(q, Len(q), l, t) : j <= i) => Get(d, l, t) = {q[i].value}
      /\ Led(c, t) /\ (Get(c, Global, t) # {} \/ Led(q, t)) => Led(d, t)
  BY <1>3 DEF LastCounts
<1>5. Get(c, l, t) # {} => Get(d, l, t) # {}
  <2> SUFFICES ASSUME Get(c, l, t) # {} PROVE Get(d, l, t) # {}
    OBVIOUS
  <2>1. PICK i \in DOMAIN c : c[i].level = l /\ c[i].type = t
    BY DEF Get, PlacesOf
  <2>2. i \in PlacesOf(d, l, t)
    BY <1>4, <2>1 DEF Grown, PlacesOf
  <2> QED
    BY <2>2 DEF Get
<1>6. ASSUME Fronted(q, t), Everywhere(q, t)
      PROVE  Get(d, l, t) = IF Get(q, l, t) # {} THEN Get(q, l, t) ELSE Get(c, l, t)
  <2>1. CASE Get(q, l, t) # {}
    <3>1. PICK i \in PlacesOf(q, l, t) : TRUE
      BY <2>1 DEF Get
    <3>2. i \in DOMAIN q /\ q[i].level = l /\ q[i].type = t
      BY <3>1 DEF PlacesOf
    <3>3. PlacesOf(q, l, t) = {i}
      BY <1>1, <3>2 DEF PlacesOf, Distinct
    <3>4. Get(q, l, t) = {q[i].value}
      BY <3>3 DEF Get
    <3>5. i \in Matching(q, Len(q), l, t)
      BY <1>1, <3>2 DEF Matching
    <3>6. ASSUME NEW j \in Matching(q, Len(q), l, t) PROVE j <= i
      <4>1. j \in DOMAIN q /\ q[j].type = t /\ q[j].level \in {l, Global}
        BY <1>1 DEF Matching
      <4>2. CASE q[j].level = l
        BY <1>1, <3>2, <4>1, <4>2 DEF Distinct
      <4>3. CASE q[j].level = Global
        <5>1. j \in PlacesOf(q, Global, t)
          BY <4>1, <4>3 DEF PlacesOf
        <5>2. Led(q, t)
          BY <1>6, <5>1 DEF Fronted, Get
        <5>3. PICK k \in 1..i : q[k].type = t /\ q[k].level = Global
          BY <3>2, <5>2 DEF Led
        <5>4. k \in DOMAIN q
          BY <1>1, <3>2, <5>3
        <5>5. k = j
          BY <1>1, <4>1, <4>3, <5>3, <5>4 DEF Distinct
        <5> QED
          BY <1>1, <3>2, <5>3, <5>5
      <4> QED
        BY <4>1, <4>2, <4>3
    <3> QED
      BY <1>4, <2>1, <3>4, <3>5, <3>6
  <2>2. CASE Get(q, l, t) = {}
    <3>1. Get(q, Global, t) = {}
      BY <1>6, <2>2 DEF Everywhere
    <3>2. \A i \in DOMAIN q : ~(q[i].type = t /\ q[i].level \in {l, Global})
      BY <2>2, <3>1 DEF Get, PlacesOf
    <3>3. Matching(q, Len(q), l, t) = {}
      BY <1>1, <3>2 DEF Matching
    <3> QED
      BY <1>4, <2>2, <3>3
  <2> QED
    BY <2>1, <2>2
<1> QED
  BY <1>3, <1>4, <1>5, <1>6

-----------------------------------------------------------------------------

(***************************************************************************)
(* TypedConfigurations.                                                    *)
(***************************************************************************)

\* Maps with some of the keys.
Maps(K, X) == UNION {[D -> X] : D \in SUBSET K}

LEMMA MapsAre ==
  ASSUME NEW K, NEW X, NEW m
  PROVE  m \in Maps(K, X) <=> DOMAIN m \subseteq K /\ m \in [DOMAIN m -> X]
  BY DEF Maps

LEMMA NoMapIs == ASSUME NEW K, NEW X PROVE NoMap \in Maps(K, X) /\ DOMAIN NoMap = {}
<1>1. NoMap = [i \in {} |-> {}]
  BY DEF NoMap
<1>2. DOMAIN NoMap = {} /\ NoMap \in [{} -> X]
  BY <1>1
<1> QED
  BY <1>2, MapsAre

\* A map with one more key, or another value for it.
LEMMA WithType ==
  ASSUME NEW K, NEW X, NEW m \in Maps(K, X), NEW l \in K, NEW v \in X
  PROVE  With(m, l, v) \in Maps(K, X) /\ Insert(m, l, v) \in Maps(K, X)
<1>1. DOMAIN m \subseteq K /\ \A x \in DOMAIN m : m[x] \in X
  BY MapsAre
<1>2. With(m, l, v) \in [DOMAIN m \cup {l} -> X]
  BY <1>1 DEF With
<1> QED
  BY <1>1, <1>2 DEF Maps, Insert

LEMMA SetValueType ==
  ASSUME NEW X, NEW m \in Maps(AllLevels, X), NEW l \in AllLevels, NEW v \in X
  PROVE  setValue(m, l, v) \in Maps(AllLevels, X)
<1>1. With(m, Global, v) \in Maps(AllLevels, X) /\ With(m, l, v) \in Maps(AllLevels, X)
  BY WithType, Zenon DEF AllLevels
<1> QED
  BY <1>1 DEF setValue

\* What a level finds, before and after a value was set for a level that has none.
LEMMA SetValueLaw ==
  ASSUME NEW X, NEW m \in Maps(AllLevels, X), NEW l \in AllLevels, NEW v \in X,
         IF DOMAIN m = {} THEN l = Global ELSE Global \in DOMAIN m /\ l \notin DOMAIN m
  PROVE  LET n == setValue(m, l, v)
         IN /\ Global \in DOMAIN n /\ DOMAIN n \subseteq DOMAIN m \cup {l}
            /\ unsafeGetConfig(n, l) = v
            /\ DOMAIN m # {} => \A k \in AllLevels \ {l} : unsafeGetConfig(n, k) = unsafeGetConfig(m, k)
<1>1. PICK n : n = setValue(m, l, v)
  OBVIOUS
<1>2. CASE DOMAIN m = {}
  <2>1. n = With(m, Global, v)
    BY <1>1, <1>2 DEF setValue
  <2>2. DOMAIN n = {Global} /\ n[Global] = v /\ l = Global
    BY <1>2, <2>1 DEF With
  <2> QED
    BY <1>1, <1>2, <2>2 DEF unsafeGetConfig
<1>3. CASE DOMAIN m # {} /\ m[Global] = v
  <2>1. n = m /\ l \notin DOMAIN m
    BY <1>1, <1>3 DEF setValue
  <2> QED
    BY <1>1, <1>3, <2>1 DEF unsafeGetConfig
<1>4. CASE DOMAIN m # {} /\ m[Global] # v
  <2>1. n = With(m, l, v) /\ l # Global
    BY <1>1, <1>4 DEF setValue
  <2>2. DOMAIN n = DOMAIN m \cup {l} /\ n[l] = v /\ \A k \in DOMAIN m : k # l => n[k] = m[k]
    BY <2>1 DEF With
  <2>3. \A k \in AllLevels \ {l} : unsafeGetConfig(n, k) = unsafeGetConfig(m, k)
    BY <1>4, <2>1, <2>2 DEF unsafeGetConfig
  <2> QED
    BY <1>1, <1>4, <2>2, <2>3 DEF unsafeGetConfig
<1> QED
  BY <1>2, <1>3, <1>4

\* MapOf as a sequence of steps.
MapStep(m, e, type) == IF e.type = type THEN setValue(m, e.level, Converted(e)) ELSE m
ConvertedOf(V) == {Converted(e) : e \in Entries(Types, V)}

LEMMA MapSteps ==
  ASSUME NEW V, NEW c \in Seq(Entries(Types, V)), NEW type
  PROVE  \E f : /\ f[0] = NoMap
                /\ \A i \in 1..Len(c) : f[i] = MapStep(f[i - 1], c[i], type)
                /\ MapOf(c, type) = f[Len(c)]
<1> DEFINE iter == CHOOSE it : it = [s \in SUBSET DOMAIN c |->
              IF s = {} THEN NoMap ELSE MapStep(it[s \ {Max(s)}], c[Max(s)], type)]
    Y == Maps(AllLevels, ConvertedOf(V))
<1>1. MapOf(c, type) = iter[DOMAIN c]
  BY DEF MapOf, FoldLeft, MapThenFoldSet, MapStep
<1>2. PICK F : F = [p \in Y \X Entries(Types, V) |-> MapStep(p[1], p[2], type)]
  OBVIOUS
<1>3. F \in [Y \X Entries(Types, V) -> Y]
  <2>1. ASSUME NEW m \in Y, NEW e \in Entries(Types, V) PROVE MapStep(m, e, type) \in Y
    <3>1. e.level \in AllLevels /\ Converted(e) \in ConvertedOf(V)
      BY DEF Entries, ConvertedOf
    <3> QED
      BY <3>1, SetValueType DEF MapStep
  <2> QED
    BY <1>2, <2>1
<1>4. NoMap \in Y
  BY NoMapIs
<1>5. PICK it : Folding(it, F, NoMap, c, Entries(Types, V), Y)
  <2> HIDE DEF iter, Y
  <2> QED
    BY <1>3, <1>4, FoldDefined, Zenon
<1>6. it = [s \in SUBSET DOMAIN c |-> IF s = {} THEN NoMap ELSE MapStep(it[s \ {Max(s)}], c[Max(s)], type)]
  BY <1>2, <1>5 DEF Folding
<1>7. iter = [s \in SUBSET DOMAIN c |-> IF s = {} THEN NoMap ELSE MapStep(iter[s \ {Max(s)}], c[Max(s)], type)]
  BY <1>6
<1> HIDE DEF iter
<1>8. PICK f : Beginnings(f, iter, c)
  BY FoldSteps
<1>9. f[0] = NoMap /\ f[Len(c)] = iter[DOMAIN c]
  BY <1>7, <1>8 DEF Beginnings
<1>10. ASSUME NEW i \in 1..Len(c) PROVE f[i] = MapStep(f[i - 1], c[i], type)
  <2>1. /\ f[i] = iter[1..i] /\ 1..i \in SUBSET DOMAIN c /\ 1..i # {}
        /\ f[i - 1] = iter[(1..i) \ {Max(1..i)}] /\ Max(1..i) = i
    BY <1>8 DEF Beginnings
  <2> QED
    BY <1>7, <2>1
<1> QED
  BY <1>1, <1>9, <1>10

\* Every level finds its own value in the map.
LEMMA MapLaw ==
  ASSUME NEW V, NEW c \in Objects(Types, V), NEW type, Led(c, type)
  PROVE  LET m == MapOf(c, type)
         IN /\ m \in Maps(AllLevels, ConvertedOf(V))
            /\ \A i \in DOMAIN c : c[i].type = type =>
                 Global \in DOMAIN m /\ unsafeGetConfig(m, c[i].level) = Converted(c[i])
<1> DEFINE X == ConvertedOf(V)
<1>1. /\ c \in Seq(Entries(Types, V)) /\ Distinct(c) /\ Len(c) \in Nat /\ DOMAIN c = 1..Len(c)
  BY LenProperties DEF Objects
<1>2. ASSUME NEW i \in 1..Len(c) PROVE c[i].level \in AllLevels /\ Converted(c[i]) \in X
  <2>1. c[i] \in Entries(Types, V)
    BY <1>1, ElementOfSeq
  <2> QED
    BY <2>1 DEF Entries, ConvertedOf
<1>3. PICK f : /\ f[0] = NoMap
               /\ \A i \in 1..Len(c) : f[i] = MapStep(f[i - 1], c[i], type)
               /\ MapOf(c, type) = f[Len(c)]
  BY <1>1, MapSteps
<1> DEFINE Good(k) ==
      /\ f[k] \in Maps(AllLevels, X)
      /\ DOMAIN f[k] \subseteq {c[i].level : i \in {j \in 1..k : c[j].type = type}}
      /\ \A i \in 1..k : c[i].type = type =>
           Global \in DOMAIN f[k] /\ unsafeGetConfig(f[k], c[i].level) = Converted(c[i])
    S == {k \in 0..Len(c) : Good(k)}
<1>4. 0 \in S
  BY <1>1, <1>3, NoMapIs
<1>5. ASSUME NEW k \in 1..Len(c), k - 1 \in S PROVE k \in S
  <2> HIDE DEF X
  <2>1. Good(k - 1)
    BY <1>5
  <2>2. PICK m \in Maps(AllLevels, X) : m = f[k - 1]
    BY <2>1
  <2>3. f[k] = MapStep(m, c[k], type)
    BY <1>3, <2>2
  <2>4. \A j \in 1..k : j \in 1..(k - 1) \/ j = k
    BY <1>1
  <2>5. \A j \in 1..(k - 1) : j \in 1..k /\ j # k
    BY <1>1
  <2>6. CASE c[k].type # type
    <3>1. f[k] = m
      BY <2>3, <2>6 DEF MapStep
    <3> QED
      BY <2>1, <2>2, <2>4, <2>5, <2>6, <3>1
  <2>7. CASE c[k].type = type
    <3>1. f[k] = setValue(m, c[k].level, Converted(c[k]))
      BY <2>3, <2>7 DEF MapStep
    <3>2. \A i \in 1..(k - 1) : c[i].type = type => c[i].level # c[k].level
      BY <1>1, <2>5, <2>7 DEF Distinct
    <3>3. c[k].level \notin DOMAIN m
      BY <2>1, <2>2, <3>2
    <3>4. IF DOMAIN m = {} THEN c[k].level = Global ELSE Global \in DOMAIN m /\ c[k].level \notin DOMAIN m
      <4>1. PICK j \in 1..k : c[j].type = type /\ c[j].level = Global
        BY <1>1, <1>2, <2>7 DEF Led
      <4>2. j # k => Global \in DOMAIN m
        BY <2>1, <2>2, <2>4, <4>1
      <4>3. DOMAIN m # {} => Global \in DOMAIN m
        BY <2>1, <2>2
      <4> QED
        BY <3>3, <4>1, <4>2, <4>3
    <3>5. PICK n : n = f[k]
      OBVIOUS
    <3>6. /\ n \in Maps(AllLevels, X) /\ Global \in DOMAIN n /\ DOMAIN n \subseteq DOMAIN m \cup {c[k].level}
          /\ unsafeGetConfig(n, c[k].level) = Converted(c[k])
          /\ DOMAIN m # {} => \A l \in AllLevels \ {c[k].level} : unsafeGetConfig(n, l) = unsafeGetConfig(m, l)
      <4>1. PICK l \in AllLevels, v \in X : l = c[k].level /\ v = Converted(c[k])
        BY <1>2
      <4>2. n = setValue(m, l, v)
        BY <3>1, <3>5, <4>1
      <4> QED
        BY <3>4, <4>1, <4>2, SetValueLaw, SetValueType
    <3>7. ASSUME NEW i \in 1..k, c[i].type = type
          PROVE  Global \in DOMAIN n /\ unsafeGetConfig(n, c[i].level) = Converted(c[i])
      <4>1. CASE i = k
        BY <3>6, <4>1
      <4>2. CASE i # k
        <5>1. i \in 1..(k - 1)
          BY <2>4, <4>2
        <5>2. Global \in DOMAIN m /\ unsafeGetConfig(m, c[i].level) = Converted(c[i])
          BY <2>1, <2>2, <3>7, <5>1
        <5>3. c[i].level \in AllLevels \ {c[k].level}
          BY <1>2, <3>2, <3>7, <5>1
        <5> QED
          BY <3>6, <5>2, <5>3
      <4> QED
        BY <4>1, <4>2
    <3>8. DOMAIN n \subseteq {c[i].level : i \in {j \in 1..k : c[j].type = type}}
      BY <2>1, <2>2, <2>5, <2>7, <3>6
    <3> QED
      BY <3>5, <3>6, <3>7, <3>8
  <2> QED
    BY <2>6, <2>7
<1> HIDE DEF S
<1>6. \A k \in 0..Len(c) : k \in S
  BY <1>1, <1>4, <1>5, InductionUpTo
<1>7. Len(c) \in S
  BY <1>1, <1>6
<1> QED
  BY <1>1, <1>3, <1>7 DEF S

-----------------------------------------------------------------------------

(***************************************************************************)
(* The files.                                                              *)
(***************************************************************************)

\* A stream, or nullptr.
StreamNumbers == Nat \cup {null}

\* What build() works on.
TypedShape(X, V) ==
  [enabled : Maps(AllLevels, X), toFile : Maps(AllLevels, X), logFormat : Maps(AllLevels, X),
   logFlushThreshold : Maps(AllLevels, X), filename : Maps(AllLevels, V), fileStream : Maps(AllLevels, StreamNumbers)]
Builds(X, V) == [typed : TypedShape(X, V), streams : Maps(V, StreamNumbers), opened : Nat]

\* Every file has one stream, or none if it cannot be opened.
StreamsRight(s) ==
  /\ IsFiniteSet(DOMAIN s.streams)
  /\ \A g \in DOMAIN s.streams : s.streams[g] = null <=> g \notin Writable
  /\ s.opened = Cardinality(DOMAIN s.streams \cap Writable)

\* Every level has the stream of its file.
FilesShared(s) ==
  /\ DOMAIN s.typed.fileStream = DOMAIN s.typed.filename
  /\ \A l \in DOMAIN s.typed.filename :
       /\ s.typed.filename[l] \in DOMAIN s.streams
       /\ s.typed.fileStream[l] = s.streams[s.typed.filename[l]]

\* insertFile, field by field: a file with stream fs for a level.
FileAt(s, l) == IF DOMAIN s.typed.filename = {} THEN Global ELSE l
StreamFor(s, g) == IF g \in DOMAIN s.streams THEN s.streams[g] ELSE IF g \in Writable THEN s.opened + 1 ELSE null

Inserted(s, g, lev, fs, r) ==
  /\ r.streams = Insert(s.streams, g, fs)
  /\ r.opened = IF g \notin DOMAIN s.streams /\ g \in Writable THEN s.opened + 1 ELSE s.opened
  /\ r.typed = [enabled |-> s.typed.enabled, logFormat |-> s.typed.logFormat,
                logFlushThreshold |-> s.typed.logFlushThreshold,
                toFile |-> IF fs = null THEN setValue(s.typed.toFile, lev, FALSE) ELSE s.typed.toFile,
                filename |-> Insert(s.typed.filename, lev, g),
                fileStream |-> Insert(s.typed.fileStream, lev, fs)]
  /\ r = [typed |-> r.typed, streams |-> r.streams, opened |-> r.opened]

LEMMA InsertFileIs ==
  ASSUME NEW X, NEW V, NEW s \in Builds(X, V), NEW l, NEW g
  PROVE  Inserted(s, g, FileAt(s, l), StreamFor(s, g), insertFile(s, l, g))
<1>0. PICK lev, fs, r : lev = FileAt(s, l) /\ fs = StreamFor(s, g) /\ r = insertFile(s, l, g)
  OBVIOUS
<1>1. PICK y \in TypedShape(X, V) : y = s.typed
  BY DEF Builds
<1>2. PICK toFile2, filename2, fileStream2 :
        /\ toFile2 = IF fs = null THEN setValue(y.toFile, lev, FALSE) ELSE y.toFile
        /\ filename2 = Insert(y.filename, lev, g)
        /\ fileStream2 = Insert(y.fileStream, lev, fs)
  OBVIOUS
<1> DEFINE z == [y EXCEPT !.filename = Insert(@, lev, g), !.fileStream = Insert(@, lev, fs),
                          !.toFile = IF fs = null THEN setValue(@, lev, FALSE) ELSE @]
<1>3. r =
        [opened |-> IF g \notin DOMAIN s.streams /\ g \in Writable THEN s.opened + 1 ELSE s.opened,
         streams |-> Insert(s.streams, g, fs), typed |-> z]
  BY <1>0, <1>1 DEF insertFile, FileAt, StreamFor
<1>4. z = [y EXCEPT !.filename = filename2, !.fileStream = fileStream2, !.toFile = toFile2]
  BY <1>2
<1> HIDE DEF z
<1>5. z = [enabled |-> y.enabled, logFormat |-> y.logFormat, logFlushThreshold |-> y.logFlushThreshold,
           toFile |-> toFile2, filename |-> filename2, fileStream |-> fileStream2]
  BY <1>4 DEF TypedShape
<1> QED
  BY <1>0, <1>1, <1>2, <1>3, <1>5 DEF Inserted

LEMMA ShapeIs ==
  ASSUME NEW X, NEW V, NEW a \in Maps(AllLevels, X), NEW b \in Maps(AllLevels, X), NEW c \in Maps(AllLevels, X),
         NEW d \in Maps(AllLevels, X), NEW e \in Maps(AllLevels, V), NEW f \in Maps(AllLevels, StreamNumbers)
  PROVE  [enabled |-> a, logFormat |-> b, logFlushThreshold |-> c, toFile |-> d, filename |-> e, fileStream |-> f]
           \in TypedShape(X, V)
  BY DEF TypedShape

\* A file is inserted for a level that has none, and first for Global.
FirstFor(m, l) == IF DOMAIN m = {} THEN l = Global ELSE Global \in DOMAIN m /\ l \notin DOMAIN m

InsertedFor(X, V, s, l, g, r) ==
  /\ r \in Builds(X, V)
  /\ StreamsRight(s) => StreamsRight(r)
  /\ FilesShared(s) => FilesShared(r)
  /\ r.typed.enabled = s.typed.enabled /\ r.typed.logFormat = s.typed.logFormat
  /\ r.typed.logFlushThreshold = s.typed.logFlushThreshold
  /\ FirstFor(s.typed.filename, l) => r.typed.filename = With(s.typed.filename, l, g)
  /\ StreamsRight(s) /\ g \in Writable => r.typed.toFile = s.typed.toFile
  /\ r.typed.toFile = s.typed.toFile \/ r.typed.toFile = setValue(s.typed.toFile, FileAt(s, l), FALSE)

LEMMA InsertFileLaw ==
  ASSUME NEW X, FALSE \in X, NEW V, NEW s \in Builds(X, V), NEW l \in AllLevels, NEW g \in V
  PROVE  InsertedFor(X, V, s, l, g, insertFile(s, l, g))
<1>0. PICK r : r = insertFile(s, l, g)
  OBVIOUS
<1>1. PICK lev \in AllLevels : lev = FileAt(s, l)
  BY DEF AllLevels, FileAt
<1>2. /\ s.typed \in TypedShape(X, V) /\ s.streams \in Maps(V, StreamNumbers) /\ s.opened \in Nat
  BY DEF Builds
<1>3. /\ s.typed.enabled \in Maps(AllLevels, X) /\ s.typed.toFile \in Maps(AllLevels, X)
      /\ s.typed.logFormat \in Maps(AllLevels, X) /\ s.typed.logFlushThreshold \in Maps(AllLevels, X)
      /\ s.typed.filename \in Maps(AllLevels, V) /\ s.typed.fileStream \in Maps(AllLevels, StreamNumbers)
  BY <1>2 DEF TypedShape
<1>4. PICK fs : fs = StreamFor(s, g)
  OBVIOUS
<1>5. fs \in StreamNumbers
  <2>1. g \in DOMAIN s.streams => s.streams[g] \in StreamNumbers
    BY <1>2, MapsAre
  <2> QED
    BY <1>2, <1>4, <2>1 DEF StreamNumbers, StreamFor
<1>6. /\ r.streams = Insert(s.streams, g, fs)
      /\ r.opened = IF g \notin DOMAIN s.streams /\ g \in Writable THEN s.opened + 1 ELSE s.opened
      /\ r.typed = [enabled |-> s.typed.enabled, logFormat |-> s.typed.logFormat,
                    logFlushThreshold |-> s.typed.logFlushThreshold,
                    toFile |-> IF fs = null THEN setValue(s.typed.toFile, lev, FALSE) ELSE s.typed.toFile,
                    filename |-> Insert(s.typed.filename, lev, g),
                    fileStream |-> Insert(s.typed.fileStream, lev, fs)]
      /\ r = [typed |-> r.typed, streams |-> r.streams, opened |-> r.opened]
  <2>1. Inserted(s, g, FileAt(s, l), StreamFor(s, g), insertFile(s, l, g))
    BY InsertFileIs
  <2> QED
    BY <1>0, <1>1, <1>4, <2>1 DEF Inserted
<1>7. r \in Builds(X, V)
  <2>1. setValue(s.typed.toFile, lev, FALSE) \in Maps(AllLevels, X)
    BY <1>3, SetValueType
  <2>2. /\ Insert(s.typed.filename, lev, g) \in Maps(AllLevels, V)
        /\ Insert(s.typed.fileStream, lev, fs) \in Maps(AllLevels, StreamNumbers)
        /\ Insert(s.streams, g, fs) \in Maps(V, StreamNumbers)
    BY <1>2, <1>3, <1>5, WithType
  <2>3. r.typed \in TypedShape(X, V)
    <3>1. PICK toFile2 \in Maps(AllLevels, X) :
            toFile2 = IF fs = null THEN setValue(s.typed.toFile, lev, FALSE) ELSE s.typed.toFile
      BY <1>3, <2>1
    <3>2. PICK filename2 \in Maps(AllLevels, V), fileStream2 \in Maps(AllLevels, StreamNumbers) :
            filename2 = Insert(s.typed.filename, lev, g) /\ fileStream2 = Insert(s.typed.fileStream, lev, fs)
      BY <2>2
    <3>3. r.typed = [enabled |-> s.typed.enabled, logFormat |-> s.typed.logFormat,
                     logFlushThreshold |-> s.typed.logFlushThreshold,
                     toFile |-> toFile2, filename |-> filename2, fileStream |-> fileStream2]
      BY <1>6, <3>1, <3>2
    <3> QED
      BY <1>3, <3>3, ShapeIs
  <2>4. r.opened \in Nat
    BY <1>2, <1>6
  <2> QED
    BY <1>6, <2>2, <2>3, <2>4 DEF Builds
<1>8. StreamsRight(s) => StreamsRight(r)
  <2> SUFFICES ASSUME StreamsRight(s) PROVE StreamsRight(r)
    OBVIOUS
  <2>1. CASE g \in DOMAIN s.streams
    BY <1>6, <2>1 DEF StreamsRight, Insert
  <2>2. CASE g \notin DOMAIN s.streams
    <3>1. r.streams = With(s.streams, g, fs)
      BY <1>6, <2>2 DEF Insert
    <3>2. DOMAIN r.streams = DOMAIN s.streams \cup {g} /\ r.streams[g] = fs /\ \A h \in DOMAIN s.streams : r.streams[h] = s.streams[h]
      BY <2>2, <3>1 DEF With
    <3>3. fs = null <=> g \notin Writable
      BY <1>2, <1>4, <2>2, NullAssumption DEF StreamFor
    <3>4. IsFiniteSet(DOMAIN r.streams)
      BY <3>2, FS_AddElement DEF StreamsRight
    <3>5. IsFiniteSet(DOMAIN s.streams \cap Writable)
      BY FS_Intersection DEF StreamsRight
    <3>6. CASE g \in Writable
      <4>1. /\ DOMAIN r.streams \cap Writable = (DOMAIN s.streams \cap Writable) \cup {g}
            /\ g \notin DOMAIN s.streams \cap Writable
        BY <2>2, <3>2, <3>6
      <4>2. Cardinality(DOMAIN r.streams \cap Writable) = Cardinality(DOMAIN s.streams \cap Writable) + 1
        BY <3>5, <4>1, FS_AddElement
      <4> QED
        BY <1>6, <2>2, <3>2, <3>3, <3>4, <3>6, <4>2 DEF StreamsRight
    <3>7. CASE g \notin Writable
      <4>1. DOMAIN r.streams \cap Writable = DOMAIN s.streams \cap Writable
        BY <3>2, <3>7
      <4> QED
        BY <1>6, <3>2, <3>3, <3>4, <3>7, <4>1 DEF StreamsRight
    <3> QED
      BY <3>6, <3>7
  <2> QED
    BY <2>1, <2>2
<1>9. FilesShared(s) => FilesShared(r)
  <2> SUFFICES ASSUME FilesShared(s) PROVE FilesShared(r)
    OBVIOUS
  <2>1. /\ DOMAIN r.streams = DOMAIN s.streams \cup {g} /\ r.streams[g] = fs
        /\ \A h \in DOMAIN s.streams : r.streams[h] = s.streams[h]
    BY <1>4, <1>6 DEF Insert, With, StreamFor
  <2>2. r.typed.filename = Insert(s.typed.filename, lev, g) /\ r.typed.fileStream = Insert(s.typed.fileStream, lev, fs)
    BY <1>6
  <2>3. CASE lev \in DOMAIN s.typed.filename
    <3>1. r.typed.filename = s.typed.filename /\ r.typed.fileStream = s.typed.fileStream
      BY <2>2, <2>3 DEF Insert, FilesShared
    <3> QED
      BY <2>1, <3>1 DEF FilesShared
  <2>4. CASE lev \notin DOMAIN s.typed.filename
    <3>1. r.typed.filename = With(s.typed.filename, lev, g) /\ r.typed.fileStream = With(s.typed.fileStream, lev, fs)
      BY <2>2, <2>4 DEF Insert, FilesShared
    <3>2. /\ DOMAIN r.typed.filename = DOMAIN s.typed.filename \cup {lev}
          /\ DOMAIN r.typed.fileStream = DOMAIN s.typed.filename \cup {lev}
          /\ r.typed.filename[lev] = g /\ r.typed.fileStream[lev] = fs
          /\ \A k \in DOMAIN s.typed.filename :
               r.typed.filename[k] = s.typed.filename[k] /\ r.typed.fileStream[k] = s.typed.fileStream[k]
      BY <2>4, <3>1 DEF With, FilesShared
    <3> QED
      BY <2>1, <3>2 DEF FilesShared
  <2> QED
    BY <2>3, <2>4
<1>10. FirstFor(s.typed.filename, l) => r.typed.filename = With(s.typed.filename, l, g)
  BY <1>1, <1>6 DEF FirstFor, Insert, FileAt
<1>11. /\ r.typed.enabled = s.typed.enabled /\ r.typed.logFormat = s.typed.logFormat
       /\ r.typed.logFlushThreshold = s.typed.logFlushThreshold
       /\ r.typed.toFile = IF fs = null THEN setValue(s.typed.toFile, lev, FALSE) ELSE s.typed.toFile
  BY <1>6
<1>12. StreamsRight(s) /\ g \in Writable => fs # null
  BY <1>2, <1>4, NullAssumption DEF StreamsRight, StreamFor
<1> QED
  BY <1>0, <1>1, <1>7, <1>8, <1>9, <1>10, <1>11, <1>12 DEF InsertedFor

-----------------------------------------------------------------------------

\* build() as a sequence of steps.
FileStep(s, e) == IF e.type = "Filename" THEN insertFile(s, e.level, e.value) ELSE s
Start(c, streams, opened) == [typed |-> Typed(c), streams |-> streams, opened |-> opened]

FileSteps(f, c, s, r) ==
  /\ f[0] = s
  /\ \A i \in 1..Len(c) : f[i] = FileStep(f[i - 1], c[i])
  /\ r = f[Len(c)]

LEMMA BuildSteps ==
  ASSUME NEW X, FALSE \in X, NEW V, NEW c \in Seq(Entries(Types, V)), NEW streams, NEW opened,
         Start(c, streams, opened) \in Builds(X, V)
  PROVE  \E f : FileSteps(f, c, Start(c, streams, opened), TypedConfigurations(c, streams, opened))
<1> DEFINE iter == CHOOSE it : it = [s \in SUBSET DOMAIN c |->
              IF s = {} THEN Start(c, streams, opened) ELSE FileStep(it[s \ {Max(s)}], c[Max(s)])]
    Y == Builds(X, V)
<1>1. TypedConfigurations(c, streams, opened) = iter[DOMAIN c]
  BY DEF TypedConfigurations, FoldLeft, MapThenFoldSet, FileStep, Start
<1>2. PICK F : F = [p \in Y \X Entries(Types, V) |-> FileStep(p[1], p[2])]
  OBVIOUS
<1>3. F \in [Y \X Entries(Types, V) -> Y]
  <2>1. ASSUME NEW s \in Y, NEW e \in Entries(Types, V) PROVE FileStep(s, e) \in Y
    <3>1. e.level \in AllLevels /\ e.value \in V
      BY DEF Entries
    <3>2. insertFile(s, e.level, e.value) \in Y
      <4>1. PICK l \in AllLevels, g \in V : l = e.level /\ g = e.value
        BY <3>1
      <4>2. InsertedFor(X, V, s, l, g, insertFile(s, l, g))
        BY InsertFileLaw
      <4> QED
        BY <4>1, <4>2 DEF InsertedFor
    <3> QED
      BY <3>2 DEF FileStep
  <2> QED
    BY <1>2, <2>1
<1>4. PICK it : Folding(it, F, Start(c, streams, opened), c, Entries(Types, V), Y)
  <2> HIDE DEF iter, Y
  <2>1. Start(c, streams, opened) \in Y
    BY DEF Y
  <2> QED
    BY <1>3, <2>1, FoldDefined, Zenon
<1>5. it = [s \in SUBSET DOMAIN c |->
              IF s = {} THEN Start(c, streams, opened) ELSE FileStep(it[s \ {Max(s)}], c[Max(s)])]
  BY <1>2, <1>4 DEF Folding
<1>6. iter = [s \in SUBSET DOMAIN c |->
              IF s = {} THEN Start(c, streams, opened) ELSE FileStep(iter[s \ {Max(s)}], c[Max(s)])]
  BY <1>5
<1> HIDE DEF iter
<1>7. PICK f : Beginnings(f, iter, c)
  BY FoldSteps
<1>8. f[0] = Start(c, streams, opened) /\ f[Len(c)] = iter[DOMAIN c]
  BY <1>6, <1>7 DEF Beginnings
<1>9. ASSUME NEW i \in 1..Len(c) PROVE f[i] = FileStep(f[i - 1], c[i])
  <2>1. /\ f[i] = iter[1..i] /\ 1..i \in SUBSET DOMAIN c /\ 1..i # {}
        /\ f[i - 1] = iter[(1..i) \ {Max(1..i)}] /\ Max(1..i) = i
    BY <1>7 DEF Beginnings
  <2> QED
    BY <1>6, <2>1
<1> QED
  BY <1>1, <1>8, <1>9 DEF FileSteps

\* The file of one level turns ToFile off for it, not for another.
LEMMA ToFileKept ==
  ASSUME NEW m, Global \in DOMAIN m, NEW lev, NEW l, l # lev, lev # Global
  PROVE  LET n == setValue(m, lev, FALSE)
         IN Global \in DOMAIN n /\ unsafeGetConfig(n, l) = unsafeGetConfig(m, l)
  BY DEF setValue, With, unsafeGetConfig

LEMMA ToFileHasGlobal ==
  ASSUME NEW m, Global \in DOMAIN m, NEW lev
  PROVE  Global \in DOMAIN setValue(m, lev, FALSE)
  BY DEF setValue, With

\* What a level may rely on: the files it uses can be opened.
FilesOpen(c, l) == \A i \in DOMAIN c : c[i].type = "Filename" /\ c[i].level \in {l, Global} => c[i].value \in Writable

\* One step: a file for a level that has none.
FileSet(X, V, s, lev, g, r) ==
  /\ r \in Builds(X, V) /\ StreamsRight(r) /\ FilesShared(r)
  /\ r.typed.enabled = s.typed.enabled /\ r.typed.logFormat = s.typed.logFormat
  /\ r.typed.logFlushThreshold = s.typed.logFlushThreshold
  /\ DOMAIN r.typed.filename = DOMAIN s.typed.filename \cup {lev} /\ r.typed.filename[lev] = g
  /\ \A k \in DOMAIN s.typed.filename : r.typed.filename[k] = s.typed.filename[k]
  /\ Global \in DOMAIN s.typed.toFile => Global \in DOMAIN r.typed.toFile
  /\ \A l \in AllLevels : Global \in DOMAIN s.typed.toFile /\ (lev \in {l, Global} => g \in Writable) =>
       unsafeGetConfig(r.typed.toFile, l) = unsafeGetConfig(s.typed.toFile, l)

LEMMA OneFileStep ==
  ASSUME NEW X, FALSE \in X, NEW V, NEW s \in Builds(X, V), StreamsRight(s), FilesShared(s),
         NEW lev \in AllLevels, NEW g \in V, FirstFor(s.typed.filename, lev),
         NEW r, r = insertFile(s, lev, g)
  PROVE  FileSet(X, V, s, lev, g, r)
<1>1. /\ r \in Builds(X, V) /\ StreamsRight(r) /\ FilesShared(r)
      /\ r.typed.enabled = s.typed.enabled /\ r.typed.logFormat = s.typed.logFormat
      /\ r.typed.logFlushThreshold = s.typed.logFlushThreshold
      /\ r.typed.filename = With(s.typed.filename, lev, g)
      /\ g \in Writable => r.typed.toFile = s.typed.toFile
      /\ r.typed.toFile = s.typed.toFile \/ r.typed.toFile = setValue(s.typed.toFile, FileAt(s, lev), FALSE)
  <2>1. InsertedFor(X, V, s, lev, g, insertFile(s, lev, g))
    BY InsertFileLaw
  <2> QED
    BY <2>1 DEF InsertedFor
<1>2. FileAt(s, lev) = lev /\ lev \notin DOMAIN s.typed.filename
  BY DEF FirstFor, FileAt
<1>3. /\ DOMAIN r.typed.filename = DOMAIN s.typed.filename \cup {lev} /\ r.typed.filename[lev] = g
      /\ \A k \in DOMAIN s.typed.filename : r.typed.filename[k] = s.typed.filename[k]
  BY <1>1, <1>2 DEF With
<1>4. Global \in DOMAIN s.typed.toFile => Global \in DOMAIN r.typed.toFile
  BY <1>1, ToFileHasGlobal
<1>5. ASSUME NEW l \in AllLevels, Global \in DOMAIN s.typed.toFile, lev \in {l, Global} => g \in Writable
      PROVE  unsafeGetConfig(r.typed.toFile, l) = unsafeGetConfig(s.typed.toFile, l)
  <2>1. CASE g \in Writable
    BY <1>1, <2>1
  <2>2. CASE g \notin Writable
    BY <1>1, <1>2, <1>5, <2>2, ToFileKept
  <2> QED
    BY <2>1, <2>2
<1> QED
  BY <1>1, <1>3, <1>4, <1>5 DEF FileSet

\* Every level has its own file, every file one stream; ToFile stays what it was for a level
\* whose files can be opened.
Built(X, V, c, s, r) ==
  /\ r \in Builds(X, V) /\ StreamsRight(r) /\ FilesShared(r)
  /\ r.typed.enabled = s.typed.enabled /\ r.typed.logFormat = s.typed.logFormat
  /\ r.typed.logFlushThreshold = s.typed.logFlushThreshold
  /\ \A i \in DOMAIN c : c[i].type = "Filename" => unsafeGetConfig(r.typed.filename, c[i].level) = c[i].value
  /\ \A l \in AllLevels : Global \in DOMAIN s.typed.toFile /\ FilesOpen(c, l) =>
       unsafeGetConfig(r.typed.toFile, l) = unsafeGetConfig(s.typed.toFile, l)

LEMMA BuildLaw ==
  ASSUME NEW X, FALSE \in X, NEW V, NEW c \in Objects(Types, V), Led(c, "Filename"), NEW streams, NEW opened,
         NEW s, s = Start(c, streams, opened), s \in Builds(X, V), StreamsRight(s),
         NEW r, r = TypedConfigurations(c, streams, opened)
  PROVE  Built(X, V, c, s, r)
<1>1. /\ c \in Seq(Entries(Types, V)) /\ Distinct(c) /\ Len(c) \in Nat /\ DOMAIN c = 1..Len(c)
  BY LenProperties DEF Objects
<1>2. ASSUME NEW i \in 1..Len(c) PROVE c[i].level \in AllLevels /\ c[i].value \in V
  <2>1. c[i] \in Entries(Types, V)
    BY <1>1, ElementOfSeq
  <2> QED
    BY <2>1 DEF Entries
<1>3. PICK f : /\ f[0] = s
               /\ \A i \in 1..Len(c) : f[i] = FileStep(f[i - 1], c[i])
               /\ r = f[Len(c)]
  <2>1. Start(c, streams, opened) \in Builds(X, V)
    OBVIOUS
  <2>2. \E f : FileSteps(f, c, s, r)
    BY <1>1, <2>1, BuildSteps
  <2> QED
    BY <2>2 DEF FileSteps
<1> DEFINE
    Shape(k) == f[k] \in Builds(X, V) /\ StreamsRight(f[k]) /\ FilesShared(f[k])
    Same(k) == /\ f[k].typed.enabled = s.typed.enabled /\ f[k].typed.logFormat = s.typed.logFormat
               /\ f[k].typed.logFlushThreshold = s.typed.logFlushThreshold
    Names(k) ==
      /\ DOMAIN f[k].typed.filename \subseteq {c[i].level : i \in {j \in 1..k : c[j].type = "Filename"}}
      /\ \A i \in 1..k : c[i].type = "Filename" =>
           Global \in DOMAIN f[k].typed.filename /\ c[i].level \in DOMAIN f[k].typed.filename
             /\ f[k].typed.filename[c[i].level] = c[i].value
    ToFiles(k) ==
      Global \in DOMAIN s.typed.toFile =>
        /\ Global \in DOMAIN f[k].typed.toFile
        /\ \A l \in AllLevels : FilesOpen(c, l) => unsafeGetConfig(f[k].typed.toFile, l) = unsafeGetConfig(s.typed.toFile, l)
    S == {k \in 0..Len(c) : Shape(k) /\ Same(k) /\ Names(k) /\ ToFiles(k)}
<1>4. 0 \in S
  <2>1. s.typed.filename = NoMap /\ s.typed.fileStream = NoMap
    BY DEF Start, Typed
  <2>2. DOMAIN s.typed.filename = {} /\ DOMAIN s.typed.fileStream = {}
    BY <2>1, NoMapIs
  <2>3. FilesShared(s)
    BY <2>2 DEF FilesShared
  <2> QED
    BY <1>1, <1>3, <2>2, <2>3
<1>5. ASSUME NEW k \in 1..Len(c), k - 1 \in S PROVE k \in S
  <2>1. Shape(k - 1) /\ Same(k - 1) /\ Names(k - 1) /\ ToFiles(k - 1)
    BY <1>5
  <2>2. PICK d \in Builds(X, V) : d = f[k - 1]
    BY <2>1
  <2>3. f[k] = FileStep(d, c[k])
    BY <1>3, <2>2
  <2>4. \A j \in 1..k : j \in 1..(k - 1) \/ j = k
    BY <1>1
  <2>5. \A j \in 1..(k - 1) : j \in 1..k /\ j # k
    BY <1>1
  <2>6. CASE c[k].type # "Filename"
    <3>1. f[k] = d
      BY <2>3, <2>6 DEF FileStep
    <3>2. Shape(k) /\ Same(k) /\ ToFiles(k)
      BY <2>1, <2>2, <3>1
    <3>3. Names(k)
      BY <2>1, <2>2, <2>4, <2>5, <2>6, <3>1
    <3> QED
      BY <1>1, <3>2, <3>3
  <2>7. CASE c[k].type = "Filename"
    <3>1. PICK lev \in AllLevels, g \in V : lev = c[k].level /\ g = c[k].value
      BY <1>2
    <3>2. f[k] = insertFile(d, lev, g)
      BY <2>3, <2>7, <3>1 DEF FileStep
    <3>3. \A i \in 1..(k - 1) : c[i].type = "Filename" => c[i].level # lev
      BY <1>1, <2>5, <2>7, <3>1 DEF Distinct
    <3>4. FirstFor(d.typed.filename, lev)
      <4>1. lev \notin DOMAIN d.typed.filename
        BY <2>1, <2>2, <3>3
      <4>2. PICK j \in 1..k : c[j].type = "Filename" /\ c[j].level = Global
        BY <1>1, <1>2, <2>7 DEF Led
      <4>3. j # k => Global \in DOMAIN d.typed.filename
        BY <2>1, <2>2, <2>4, <4>2
      <4>4. DOMAIN d.typed.filename # {} => Global \in DOMAIN d.typed.filename
        BY <2>1, <2>2
      <4> QED
        BY <3>1, <4>1, <4>2, <4>3, <4>4 DEF FirstFor
    <3>5. PICK e : e = f[k]
      OBVIOUS
    <3>6. /\ e \in Builds(X, V) /\ StreamsRight(e) /\ FilesShared(e)
          /\ e.typed.enabled = d.typed.enabled /\ e.typed.logFormat = d.typed.logFormat
          /\ e.typed.logFlushThreshold = d.typed.logFlushThreshold
          /\ DOMAIN e.typed.filename = DOMAIN d.typed.filename \cup {lev} /\ e.typed.filename[lev] = g
          /\ \A l \in DOMAIN d.typed.filename : e.typed.filename[l] = d.typed.filename[l]
          /\ Global \in DOMAIN d.typed.toFile => Global \in DOMAIN e.typed.toFile
          /\ \A l \in AllLevels : Global \in DOMAIN d.typed.toFile /\ (lev \in {l, Global} => g \in Writable) =>
               unsafeGetConfig(e.typed.toFile, l) = unsafeGetConfig(d.typed.toFile, l)
      <4>1. StreamsRight(d) /\ FilesShared(d)
        BY <2>1, <2>2
      <4> HIDE DEF S, Shape, Same, Names, ToFiles
      <4>2. FileSet(X, V, d, lev, g, e)
        BY <3>2, <3>4, <3>5, <4>1, OneFileStep
      <4> QED
        BY <4>2 DEF FileSet
    <3>7. Shape(k) /\ Same(k)
      BY <2>1, <2>2, <3>5, <3>6
    <3>8. Names(k)
      <4>1. DOMAIN e.typed.filename \subseteq {c[i].level : i \in {j \in 1..k : c[j].type = "Filename"}}
        BY <2>1, <2>2, <2>5, <2>7, <3>1, <3>6
      <4>2. Global \in DOMAIN e.typed.filename
        BY <3>4, <3>6 DEF FirstFor
      <4>3. ASSUME NEW i \in 1..k, c[i].type = "Filename"
            PROVE  c[i].level \in DOMAIN e.typed.filename /\ e.typed.filename[c[i].level] = c[i].value
        BY <2>1, <2>2, <2>4, <3>1, <3>6, <4>3
      <4> QED
        BY <3>5, <4>1, <4>2, <4>3
    <3>9. ToFiles(k)
      <4> SUFFICES ASSUME Global \in DOMAIN s.typed.toFile PROVE ToFiles(k)
        OBVIOUS
      <4>1. /\ Global \in DOMAIN d.typed.toFile
            /\ \A l \in AllLevels : FilesOpen(c, l) => unsafeGetConfig(d.typed.toFile, l) = unsafeGetConfig(s.typed.toFile, l)
        BY <2>1, <2>2
      <4>2. ASSUME NEW l \in AllLevels, FilesOpen(c, l) PROVE lev \in {l, Global} => g \in Writable
        BY <1>1, <2>7, <3>1, <4>2 DEF FilesOpen
      <4> QED
        BY <3>5, <3>6, <4>1, <4>2
    <3> QED
      BY <1>1, <3>7, <3>8, <3>9
  <2> QED
    BY <2>6, <2>7
<1> HIDE DEF S
<1>6. \A k \in 0..Len(c) : k \in S
  BY <1>1, <1>4, <1>5, InductionUpTo
<1>7. Len(c) \in S
  BY <1>1, <1>6
<1>8. Shape(Len(c)) /\ Same(Len(c)) /\ Names(Len(c)) /\ ToFiles(Len(c))
  BY <1>7 DEF S
<1>9. \A i \in DOMAIN c : c[i].type = "Filename" => unsafeGetConfig(r.typed.filename, c[i].level) = c[i].value
  BY <1>1, <1>3, <1>8 DEF unsafeGetConfig
<1> QED
  BY <1>3, <1>8, <1>9 DEF Built

-----------------------------------------------------------------------------

(***************************************************************************)
(* The defaults, what is set on top of them, and what a level has then.    *)
(***************************************************************************)

DefaultCalls == GlobalDefaults \o LevelDefaults
AnyValue == (UNION {ValuesOf(t) : t \in Types}) \cup {DefaultCalls[i].value : i \in 1..10}
AnyObject == Objects(Types, AnyValue)
AnyEntry == Entries(Types, AnyValue)

LEMMA DefaultCallsAre ==
  /\ DefaultCalls \in Seq({DefaultCalls[i] : i \in 1..10}) /\ Len(DefaultCalls) = 10
  /\ \A i \in 1..10 : DefaultCalls[i].type \in Types /\ DefaultCalls[i].value \in AnyValue
  /\ \A i \in 6..10 : DefaultCalls[i].type = "Format"
  /\ \A t \in Types : \E i \in 1..5 : DefaultCalls[i].type = t
  /\ \A i \in 1..5 : DefaultCalls[i].level = Global
<1>1. Len(GlobalDefaults) = 5 /\ Len(LevelDefaults) = 5
  BY DEF GlobalDefaults, LevelDefaults
<1>2. /\ GlobalDefaults \in Seq({GlobalDefaults[i] : i \in 1..5})
      /\ LevelDefaults \in Seq({LevelDefaults[i] : i \in 1..5})
  BY DEF GlobalDefaults, LevelDefaults
<1>3. PICK S : GlobalDefaults \in Seq(S) /\ LevelDefaults \in Seq(S)
  <2>1. PICK S : S = {GlobalDefaults[i] : i \in 1..5} \cup {LevelDefaults[i] : i \in 1..5}
    OBVIOUS
  <2>2. \A i \in 1..5 : GlobalDefaults[i] \in S /\ LevelDefaults[i] \in S
    BY <2>1
  <2>3. GlobalDefaults \in Seq(S) /\ LevelDefaults \in Seq(S)
    BY <2>2 DEF GlobalDefaults, LevelDefaults
  <2> QED
    BY <2>3
<1>4. /\ DefaultCalls \in Seq(S) /\ Len(DefaultCalls) = 10
      /\ \A i \in 1..5 : DefaultCalls[i] = GlobalDefaults[i]
      /\ \A i \in 6..10 : DefaultCalls[i] = LevelDefaults[i - 5]
  <2>1. PICK a \in Seq(S), b \in Seq(S) : a = GlobalDefaults /\ b = LevelDefaults
    BY <1>3
  <2>2. /\ a \o b \in Seq(S) /\ Len(a \o b) = 10 /\ \A i \in 1..5 : (a \o b)[i] = a[i]
        /\ \A i \in 6..10 : (a \o b)[i] = b[i - 5]
    <3>1. Len(a) = 5 /\ Len(b) = 5
      BY <1>1, <2>1
    <3>2. /\ a \o b \in Seq(S) /\ Len(a \o b) = Len(a) + Len(b)
          /\ \A i \in 1..(Len(a) + Len(b)) : (a \o b)[i] = IF i <= Len(a) THEN a[i] ELSE b[i - Len(a)]
      BY ConcatProperties, Zenon
    <3>3. Len(a) + Len(b) = 10
      BY <3>1
    <3>4. \A i \in 1..10 : (a \o b)[i] = IF i <= 5 THEN a[i] ELSE b[i - 5]
      BY <3>1, <3>2, <3>3
    <3>5. \A i \in 1..5 : i \in 1..10 /\ i <= 5
      OBVIOUS
    <3>6. \A i \in 6..10 : i \in 1..10 /\ ~(i <= 5)
      OBVIOUS
    <3> QED
      BY <3>2, <3>3, <3>4, <3>5, <3>6
  <2> QED
    BY <2>1, <2>2 DEF DefaultCalls
<1>5. DefaultCalls \in Seq({DefaultCalls[i] : i \in 1..10})
  <2>1. DOMAIN DefaultCalls = 1..10
    BY <1>4, LenProperties
  <2>2. DefaultCalls \in [1..10 -> {DefaultCalls[i] : i \in 1..10}]
    <3>1. DefaultCalls \in [1..Len(DefaultCalls) -> S]
      BY <1>4, LenProperties
    <3> QED
      BY <1>4, <3>1
  <2> QED
    BY <2>2, SeqDef
<1>6. \A i \in 1..5 : GlobalDefaults[i].level = Global
  <2> SUFFICES ASSUME NEW i \in 1..5 PROVE GlobalDefaults[i].level = Global
    OBVIOUS
  <2>1. i = 1 \/ i = 2 \/ i = 3 \/ i = 4 \/ i = 5
    OBVIOUS
  <2> QED
    BY <2>1 DEF GlobalDefaults, Entry
<1>7. /\ GlobalDefaults[1].type = "Enabled" /\ GlobalDefaults[2].type = "Filename" /\ GlobalDefaults[3].type = "ToFile"
      /\ GlobalDefaults[4].type = "LogFlushThreshold" /\ GlobalDefaults[5].type = "Format"
  BY DEF GlobalDefaults, Entry
<1>8. \A i \in 1..5 : LevelDefaults[i].type = "Format"
  <2> SUFFICES ASSUME NEW i \in 1..5 PROVE LevelDefaults[i].type = "Format"
    OBVIOUS
  <2>1. i = 1 \/ i = 2 \/ i = 3 \/ i = 4 \/ i = 5
    OBVIOUS
  <2> QED
    BY <2>1 DEF LevelDefaults, Entry
<1>9. \A i \in 1..5 : GlobalDefaults[i].type \in Types
  <2> SUFFICES ASSUME NEW i \in 1..5 PROVE GlobalDefaults[i].type \in Types
    OBVIOUS
  <2>1. i = 1 \/ i = 2 \/ i = 3 \/ i = 4 \/ i = 5
    OBVIOUS
  <2> QED
    BY <1>7, <2>1 DEF Types
<1>10. \A i \in 6..10 : DefaultCalls[i].type = "Format"
  <2> SUFFICES ASSUME NEW i \in 6..10 PROVE DefaultCalls[i].type = "Format"
    OBVIOUS
  <2>1. i - 5 \in 1..5
    OBVIOUS
  <2> QED
    BY <1>4, <1>8, <2>1
<1>11. \A i \in 1..10 : DefaultCalls[i].type \in Types /\ DefaultCalls[i].value \in AnyValue
  <2> SUFFICES ASSUME NEW i \in 1..10 PROVE DefaultCalls[i].type \in Types /\ DefaultCalls[i].value \in AnyValue
    OBVIOUS
  <2>1. i \in 1..5 \/ i \in 6..10
    OBVIOUS
  <2>2. DefaultCalls[i].type \in Types
    BY <1>4, <1>9, <1>10, <2>1 DEF Types
  <2>3. DefaultCalls[i].value \in {DefaultCalls[j].value : j \in 1..10}
    OBVIOUS
  <2> QED
    BY <2>2, <2>3, Zenon DEF AnyValue
<1>12. \A t \in Types : \E i \in 1..5 : DefaultCalls[i].type = t
  BY <1>4, <1>7 DEF Types
<1> QED
  BY <1>4, <1>5, <1>6, <1>10, <1>11, <1>12

LEMMA NothingSet == <<>> \in AnyObject /\ (\A l, t : Get(<<>>, l, t) = {}) /\ (\A t : Led(<<>>, t))
  BY DEF AnyObject, Objects, Distinct, Get, PlacesOf, Led

LEMMA DefaultSteps == \E f : SetSteps(f, <<>>, DefaultCalls) /\ Defaults = f[10]
<1> DEFINE Step(c, e) == IF e.level \in AllLevels THEN set(c, e.level, e.type, e.value) ELSE c
    iter == CHOOSE it : it = [s \in SUBSET DOMAIN DefaultCalls |->
              IF s = {} THEN <<>> ELSE Step(it[s \ {Max(s)}], DefaultCalls[Max(s)])]
    E == {DefaultCalls[i] : i \in 1..10}
<1>1. Defaults = iter[DOMAIN DefaultCalls]
  BY DEF Defaults, FoldLeft, MapThenFoldSet, DefaultCalls
<1>2. PICK F : F = [p \in AnyObject \X E |-> Step(p[1], p[2])]
  OBVIOUS
<1>3. F \in [AnyObject \X E -> AnyObject]
  <2>1. ASSUME NEW d \in AnyObject, NEW e \in E PROVE Step(d, e) \in AnyObject
    <3>1. e.type \in Types /\ e.value \in AnyValue
      BY DefaultCallsAre
    <3>2. CASE e.level \in AllLevels
      <4>1. PICK l \in AllLevels, t \in Types, v \in AnyValue : l = e.level /\ t = e.type /\ v = e.value
        BY <3>1, <3>2
      <4>2. set(d, l, t, v) \in AnyObject
        BY SetLaw DEF AnyObject
      <4> QED
        BY <4>1, <4>2
    <3> QED
      BY <3>2
  <2> HIDE DEF Step, E
  <2> QED
    BY <1>2, <2>1
<1>4. PICK it : Folding(it, F, <<>>, DefaultCalls, E, AnyObject)
  <2> HIDE DEF iter
  <2>1. DefaultCalls \in Seq(E)
    BY DefaultCallsAre
  <2> HIDE DEF E
  <2> QED
    BY <1>3, <2>1, NothingSet, FoldDefined, Zenon
<1> HIDE DEF Step
<1>5. it = [s \in SUBSET DOMAIN DefaultCalls |->
              IF s = {} THEN <<>> ELSE Step(it[s \ {Max(s)}], DefaultCalls[Max(s)])]
  BY <1>2, <1>4 DEF Folding
<1>6. iter = [s \in SUBSET DOMAIN DefaultCalls |->
              IF s = {} THEN <<>> ELSE Step(iter[s \ {Max(s)}], DefaultCalls[Max(s)])]
  BY <1>5
<1> HIDE DEF iter
<1>7. PICK f : Beginnings(f, iter, DefaultCalls)
  <2> HIDE DEF E
  <2> QED
    BY DefaultCallsAre, FoldSteps
<1>8. f[0] = <<>> /\ f[10] = iter[DOMAIN DefaultCalls]
  BY <1>6, <1>7, DefaultCallsAre DEF Beginnings
<1>9. ASSUME NEW i \in 1..10 PROVE f[i] = Step(f[i - 1], DefaultCalls[i])
  <2>1. /\ f[i] = iter[1..i] /\ 1..i \in SUBSET DOMAIN DefaultCalls /\ 1..i # {}
        /\ f[i - 1] = iter[(1..i) \ {Max(1..i)}] /\ Max(1..i) = i
    BY <1>7, DefaultCallsAre DEF Beginnings
  <2> QED
    BY <1>6, <2>1
<1> QED
  BY <1>1, <1>8, <1>9, DefaultCallsAre DEF SetSteps, Step

\* The defaults have a value for every level and type, and Global's comes first.
LEMMA DefaultsLaw ==
  /\ Defaults \in AnyObject
  /\ \A t \in Types : Led(Defaults, t) /\ \A l \in AllLevels :
       \E i \in 1..10 : DefaultCalls[i].type = t /\ Get(Defaults, l, t) = {DefaultCalls[i].value}
<1>1. PICK f : SetSteps(f, <<>>, DefaultCalls) /\ Defaults = f[10]
  BY DefaultSteps
<1>2. ASSUME NEW t \in Types, NEW l \in AllLevels
      PROVE  /\ Defaults \in AnyObject /\ Led(Defaults, t)
             /\ \E i \in 1..10 : DefaultCalls[i].type = t /\ Get(Defaults, l, t) = {DefaultCalls[i].value}
  <2> DEFINE E == {DefaultCalls[i] : i \in 1..10}
      M == Matching(DefaultCalls, 10, l, t)
  <2>1. DefaultCalls \in Seq(E)
    BY DefaultCallsAre
  <2> HIDE DEF E
  <2>2. f[Len(DefaultCalls)] \in Objects(Types, AnyValue) /\ LastCounts(<<>>, DefaultCalls, f[Len(DefaultCalls)], l, t)
    <3>1. <<>> \in Objects(Types, AnyValue)
      BY NothingSet DEF AnyObject
    <3>2. SetSteps(f, <<>>, DefaultCalls)
      BY <1>1
    <3>0. PICK X : X = E
      OBVIOUS
    <3>3. PICK c \in Objects(Types, AnyValue), q \in Seq(X) :
            c = <<>> /\ q = DefaultCalls
      BY <2>1, <3>0, <3>1
    <3>4. SetSteps(f, c, q) /\ Fitting(q, Types, AnyValue)
      BY <3>2, <3>3, DefaultCallsAre DEF Fitting
    <3>5. f[Len(q)] \in Objects(Types, AnyValue) /\ LastCounts(c, q, f[Len(q)], l, t)
      BY <3>3, <3>4, SetStepsLaw
    <3> QED
      BY <3>3, <3>5
  <2>3. /\ Defaults \in AnyObject
        /\ \A i \in M : (\A j \in M : j <= i) => Get(Defaults, l, t) = {DefaultCalls[i].value}
        /\ Led(DefaultCalls, t) => Led(Defaults, t)
    BY <1>1, <2>2, DefaultCallsAre, NothingSet DEF AnyObject, LastCounts
  <2>4. M \subseteq 0..10 /\ M # {}
    <3>1. PICK i \in 1..5 : DefaultCalls[i].type = t
      BY DefaultCallsAre
    <3>2. i \in M
      BY <3>1, DefaultCallsAre DEF Matching
    <3> QED
      BY <3>2 DEF Matching
  <2>5. Max(M) \in M /\ \A j \in M : j <= Max(M)
    <3> HIDE DEF M
    <3> QED
      BY <2>4, Largest
  <2>6. Led(DefaultCalls, t)
    <3> SUFFICES ASSUME NEW i \in 1..10, DefaultCalls[i].type = t
                 PROVE  \E j \in 1..i : DefaultCalls[j].type = t /\ DefaultCalls[j].level = Global
      <4>1. DOMAIN DefaultCalls = 1..10
        BY <2>1, DefaultCallsAre, LenProperties
      <4> QED
        BY <4>1 DEF Led
    <3>1. CASE i \in 1..5
      BY <3>1, DefaultCallsAre
    <3>2. CASE i \notin 1..5
      <4>1. PICK j \in 1..5 : DefaultCalls[j].type = t
        BY DefaultCallsAre
      <4>2. j \in 1..i
        BY <3>2, <4>1
      <4> QED
        BY <4>1, <4>2, DefaultCallsAre
    <3> QED
      BY <3>1, <3>2
  <2>7. Max(M) \in 1..10 /\ DefaultCalls[Max(M)].type = t /\ Get(Defaults, l, t) = {DefaultCalls[Max(M)].value}
    <3>1. \A i \in M : i \in 1..10 /\ DefaultCalls[i].type = t
      BY DEF Matching
    <3> HIDE DEF M
    <3> QED
      BY <2>3, <2>5, <3>1
  <2> HIDE DEF M
  <2> QED
    BY <2>3, <2>6, <2>7
<1>3. Global \in AllLevels /\ "Enabled" \in Types
  BY DEF AllLevels, Types
<1> QED
  BY <1>2, <1>3

LEMMA DefaultsThere == \A l \in AllLevels, t \in Types : Get(Defaults, l, t) # {}
  BY DefaultsLaw

-----------------------------------------------------------------------------

\* The same of the types and values of this module.
LEMMA MergeLaw ==
  ASSUME NEW c \in AnyObject, NEW q \in AnyObject, NEW l \in AllLevels, NEW t \in Types, NEW d, d = setFromBase(c, q)
  PROVE  /\ d \in AnyObject
         /\ Led(c, t) /\ (Get(c, Global, t) # {} \/ Led(q, t)) => Led(d, t)
         /\ Get(c, l, t) # {} => Get(d, l, t) # {}
         /\ Fronted(q, t) /\ Everywhere(q, t) => Get(d, l, t) = IF Get(q, l, t) # {} THEN Get(q, l, t) ELSE Get(c, l, t)
  BY MergeAny DEF AnyObject

-----------------------------------------------------------------------------
\* The configurations of a logger before and after reconfigureLogger().
Registered == setFromBase(<<>>, Defaults)
FirstLogger == TypedConfigurations(Registered, NoMap, 0)

LEMMA RegisteredLaw ==
  /\ Registered \in AnyObject
  /\ \A t \in Types : Led(Registered, t) /\ \A l \in AllLevels : Get(Registered, l, t) = Get(Defaults, l, t)
<1>1. Registered \in AnyObject
  <2>1. PICK l \in AllLevels, t \in Types : TRUE
    BY DEF AllLevels, Types
  <2> QED
    BY <2>1, MergeLaw, NothingSet, DefaultsLaw, DefaultsThere DEF Registered
<1>2. ASSUME NEW t \in Types, NEW l \in AllLevels PROVE Led(Registered, t) /\ Get(Registered, l, t) = Get(Defaults, l, t)
  <2>1. Fronted(Defaults, t) /\ Everywhere(Defaults, t) /\ Get(Defaults, l, t) # {} /\ Led(Defaults, t)
    BY DefaultsLaw, DefaultsThere DEF Fronted, Everywhere
  <2>2. PICK c \in AnyObject, q \in AnyObject : c = <<>> /\ q = Defaults
    BY NothingSet, DefaultsLaw, DefaultsThere
  <2>3. Led(c, t)
    BY <2>2, NothingSet
  <2> QED
    BY <2>1, <2>2, <2>3, MergeLaw DEF Registered
<1>3. Global \in AllLevels
  BY DEF AllLevels
<1> QED
  BY <1>1, <1>2, <1>3

\* The defaults have one value each.
LEMMA OneDefault ==
  ASSUME NEW l \in AllLevels, NEW t \in Types
  PROVE  \E v : Get(Defaults, l, t) = {v} /\ v = Defaults[Place(Defaults, l, t)].value
<1>1. Defaults \in AnyObject /\ Get(Defaults, l, t) # {} /\ Defaults \in Seq(AnyEntry) /\ Distinct(Defaults)
  BY DefaultsLaw, DefaultsThere DEF AnyObject, Objects, AnyEntry
<1>2. PlacesOf(Defaults, l, t) # {}
  BY <1>1 DEF Get
<1>3. PICK p : p = Place(Defaults, l, t)
  OBVIOUS
<1>4. p \in PlacesOf(Defaults, l, t)
  BY <1>1, <1>2, <1>3, PlaceLaw
<1>5. PlacesOf(Defaults, l, t) = {p}
  BY <1>1, <1>4 DEF PlacesOf, Distinct
<1>6. Get(Defaults, l, t) = {Defaults[p].value}
  BY <1>5 DEF Get
<1> QED
  BY <1>3, <1>6

-----------------------------------------------------------------------------

\* An object has what the calls of set() asked for last.
Answers(q, c) ==
  \A l \in AllLevels, t \in Types :
    /\ Matching(q, Len(q), l, t) = {} => Get(c, l, t) = {}
    /\ \A i \in Matching(q, Len(q), l, t) :
         (\A j \in Matching(q, Len(q), l, t) : j <= i) => Get(c, l, t) = {q[i].value}

\* No level was given a value before Global was.
GlobalBefore(q, t) ==
  \A i, j \in DOMAIN q :
    q[i].type = t /\ q[j].type = t /\ q[i].level # Global /\ q[j].level = Global
      => \E k \in 1..i : q[k].type = t /\ q[k].level = Global

AnswersCalls(q, c) ==
  /\ q \in Seq(AnyEntry) /\ c \in AnyObject /\ Answers(q, c)
  /\ \A t \in Types : GlobalBefore(q, t) => Fronted(c, t)

\* A type that Global has no value of, and was not to have, no level has.
LEMMA NobodyHas ==
  ASSUME NEW q, NEW c, AnswersCalls(q, c), NEW t \in Types, Get(c, Global, t) = {},
         \A i \in DOMAIN q : q[i].type = t => \E k \in 1..i : q[k].type = t /\ q[k].level = Global
  PROVE  Led(c, t)
<1>1. q \in Seq(AnyEntry) /\ Len(q) \in Nat /\ DOMAIN q = 1..Len(q) /\ Global \in AllLevels
  BY LenProperties DEF AnswersCalls, AllLevels
<1>2. Matching(q, Len(q), Global, t) = {}
  <2> SUFFICES ASSUME Matching(q, Len(q), Global, t) # {} PROVE FALSE
    OBVIOUS
  <2> DEFINE M == Matching(q, Len(q), Global, t)
  <2>1. M \subseteq 0..Len(q) /\ M # {}
    BY <1>1 DEF Matching
  <2>2. Max(M) \in M /\ \A j \in M : j <= Max(M)
    <3> HIDE DEF M
    <3> QED
      BY <1>1, <2>1, Largest
  <2>3. Get(c, Global, t) = {q[Max(M)].value}
    BY <1>1, <2>2 DEF AnswersCalls, Answers
  <2> QED
    BY <2>3
<1>3. \A i \in DOMAIN q : q[i].type # t
  <2> SUFFICES ASSUME NEW i \in DOMAIN q, q[i].type = t PROVE FALSE
    OBVIOUS
  <2>1. PICK k \in 1..i : q[k].type = t /\ q[k].level = Global
    OBVIOUS
  <2>2. k \in Matching(q, Len(q), Global, t)
    BY <1>1, <2>1 DEF Matching
  <2> QED
    BY <1>2, <2>2
<1>4. ASSUME NEW l \in AllLevels PROVE Get(c, l, t) = {}
  <2>1. Matching(q, Len(q), l, t) = {}
    BY <1>1, <1>3 DEF Matching
  <2> QED
    BY <2>1 DEF AnswersCalls, Answers
<1>5. \A i \in DOMAIN c : ~(c[i].type = t /\ c[i].level \in AllLevels)
  BY <1>4 DEF Get, PlacesOf
<1> QED
  BY <1>5 DEF Led

LEMMA SetCallLaw ==
  ASSUME NEW q, NEW c, AnswersCalls(q, c), NEW l \in AllLevels, NEW y \in Types, NEW v \in AnyValue
  PROVE  AnswersCalls(Append(q, Entry(l, y, v)), set(c, l, y, v))
<1>1. PICK e : e = Entry(l, y, v)
  OBVIOUS
<1>2. e \in AnyEntry /\ e.level = l /\ e.type = y /\ e.value = v
  BY <1>1 DEF AnyEntry, Entries, Entry
<1>3. PICK r : r = Append(q, e)
  OBVIOUS
<1>4. PICK n \in Nat : n = Len(q)
  BY LenProperties DEF AnswersCalls
<1>5. /\ q \in Seq(AnyEntry) /\ DOMAIN q = 1..n
      /\ r \in Seq(AnyEntry) /\ Len(r) = n + 1 /\ DOMAIN r = 1..(n + 1) /\ r[n + 1] = e
      /\ \A i \in 1..n : r[i] = q[i]
  BY <1>2, <1>3, <1>4, LenProperties DEF AnswersCalls
<1>6. PICK d : d = set(c, l, y, v)
  OBVIOUS
<1>7. c \in Objects(Types, AnyValue)
  BY DEF AnswersCalls, AnyObject
<1>8. /\ d \in AnyObject
      /\ \A m \in AllLevels, u \in Types : Get(d, m, u) = IF u = y /\ l \in {m, Global} THEN {v} ELSE Get(c, m, u)
      /\ \A u \in Types : Led(c, u) /\ (u = y => l = Global \/ Get(c, Global, u) # {}) => Led(d, u)
  <2>1. ASSUME NEW m \in AllLevels, NEW u
        PROVE  set(c, l, y, v) \in Objects(Types, AnyValue) /\ OneSet(c, set(c, l, y, v), l, y, v, m, u)
    BY <1>7, OneSetStep
  <2> QED
    BY <1>6, <2>1 DEF AnyObject, AllLevels, OneSet
<1>9. \A i \in 1..(n + 1) : i \in 1..n \/ i = n + 1
  OBVIOUS
<1>10. ASSUME NEW m \in AllLevels, NEW u \in Types
       PROVE  /\ Matching(r, Len(r), m, u) = {} => Get(d, m, u) = {}
              /\ \A i \in Matching(r, Len(r), m, u) :
                   (\A j \in Matching(r, Len(r), m, u) : j <= i) => Get(d, m, u) = {r[i].value}
  <2>1. CASE u = y /\ l \in {m, Global}
    <3>1. n + 1 \in Matching(r, Len(r), m, u)
      BY <1>2, <1>5, <2>1 DEF Matching
    <3>2. \A i \in Matching(r, Len(r), m, u) : (\A j \in Matching(r, Len(r), m, u) : j <= i) => i = n + 1
      <4>1. \A i \in Matching(r, Len(r), m, u) : i \in 1..(n + 1)
        BY <1>5 DEF Matching
      <4> QED
        BY <3>1, <4>1
    <3> QED
      BY <1>2, <1>5, <1>8, <2>1, <3>1, <3>2
  <2>2. CASE ~(u = y /\ l \in {m, Global})
    <3>1. Matching(r, Len(r), m, u) = Matching(q, Len(q), m, u)
      <4>1. ASSUME NEW i \in 1..(n + 1)
            PROVE  r[i].type = u /\ r[i].level \in {m, Global} <=> i \in 1..n /\ q[i].type = u /\ q[i].level \in {m, Global}
        BY <1>2, <1>5, <1>9, <2>2
      <4>2. \A i \in 1..n : i \in 1..(n + 1)
        OBVIOUS
      <4> QED
        BY <1>4, <1>5, <4>1, <4>2 DEF Matching
    <3>2. \A i \in Matching(q, Len(q), m, u) : r[i] = q[i]
      BY <1>4, <1>5 DEF Matching
    <3> QED
      BY <1>8, <2>2, <3>1, <3>2 DEF AnswersCalls, Answers
  <2> QED
    BY <2>1, <2>2
<1>11. ASSUME NEW u \in Types, GlobalBefore(r, u) PROVE Fronted(d, u)
  <2>1. GlobalBefore(q, u)
    <3> SUFFICES ASSUME NEW i \in 1..n, NEW j \in 1..n,
                        q[i].type = u, q[j].type = u, q[i].level # Global, q[j].level = Global
                 PROVE  \E k \in 1..i : q[k].type = u /\ q[k].level = Global
      BY <1>5 DEF GlobalBefore
    <3>1. i \in DOMAIN r /\ j \in DOMAIN r /\ r[i] = q[i] /\ r[j] = q[j]
      BY <1>5
    <3>2. PICK k \in 1..i : r[k].type = u /\ r[k].level = Global
      BY <1>11, <3>1 DEF GlobalBefore
    <3>3. k \in 1..n
      BY <3>2
    <3> QED
      BY <1>5, <3>2, <3>3
  <2>2. Fronted(c, u)
    BY <2>1 DEF AnswersCalls
  <2>3. CASE Get(c, Global, u) # {}
    BY <1>8, <2>2, <2>3 DEF Fronted
  <2>4. CASE Get(c, Global, u) = {}
    <3>1. CASE u = y /\ l = Global
      <4>1. ASSUME NEW i \in DOMAIN q, q[i].type = u PROVE \E k \in 1..i : q[k].type = u /\ q[k].level = Global
        <5>1. CASE q[i].level = Global
          BY <1>5, <4>1, <5>1
        <5>2. CASE q[i].level # Global
          <6>1. i \in DOMAIN r /\ n + 1 \in DOMAIN r /\ r[i] = q[i] /\ r[n + 1].type = u /\ r[n + 1].level = Global
            BY <1>2, <1>5, <3>1
          <6>2. PICK k \in 1..i : r[k].type = u /\ r[k].level = Global
            BY <1>11, <4>1, <5>2, <6>1 DEF GlobalBefore
          <6>3. k \in 1..n
            BY <1>5, <6>2
          <6> QED
            BY <1>5, <6>2, <6>3
        <5> QED
          BY <5>1, <5>2
      <4>2. Led(c, u)
        BY <2>4, <4>1, NobodyHas
      <4> QED
        BY <1>8, <3>1, <4>2 DEF Fronted
    <3>2. CASE ~(u = y /\ l = Global)
      <4>1. Get(d, Global, u) = {}
        <5>1. Global \in AllLevels
          BY DEF AllLevels
        <5> QED
          BY <1>8, <2>4, <3>2, <5>1
      <4> QED
        BY <4>1 DEF Fronted
    <3> QED
      BY <3>1, <3>2
  <2> QED
    BY <2>3, <2>4
<1>12. Answers(r, d)
  BY <1>10 DEF Answers
<1> QED
  BY <1>1, <1>3, <1>5, <1>6, <1>8, <1>11, <1>12 DEF AnswersCalls

-----------------------------------------------------------------------------
\* The last value asked for, which is the default if there is none.
LEMMA LastSetIs ==
  ASSUME AnswersCalls(calls, conf), NEW l \in AllLevels, NEW t \in Types
  PROVE  /\ Get(conf, l, t) # {} => Get(conf, l, t) = {LastSet(l, t)}
         /\ Get(conf, l, t) = {} => Get(Defaults, l, t) = {LastSet(l, t)}
<1> DEFINE I == {i \in 1..Len(calls) : calls[i].type = t /\ calls[i].level \in {l, Global}}
<1>1. calls \in Seq(AnyEntry) /\ Len(calls) \in Nat
  BY LenProperties DEF AnswersCalls
<1>2. LastSet(l, t) = LET i == IF I # {} THEN Max(I) ELSE 0
                      IN IF i = 0 THEN Defaults[Place(Defaults, l, t)].value ELSE calls[i].value
  <2>1. SelectInSeq(Defaults, LAMBDA e : e.type = t /\ e.level = l) = Place(Defaults, l, t)
    <3>1. \A e \in {Defaults[i] : i \in 1..Len(Defaults)} : (e.type = t /\ e.level = l) <=> (e.level = l /\ e.type = t)
      OBVIOUS
    <3>2. {i \in 1..Len(Defaults) : Defaults[i].type = t /\ Defaults[i].level = l}
            = {i \in 1..Len(Defaults) : Defaults[i].level = l /\ Defaults[i].type = t}
      OBVIOUS
    <3> QED
      BY <3>2 DEF SelectInSeq, Place
  <2> QED
    BY <2>1 DEF LastSet, SelectLastInSeq
<1>3. I = Matching(calls, Len(calls), l, t)
  BY DEF Matching
<1>4. CASE I = {}
  <2>1. Get(conf, l, t) = {}
    BY <1>3, <1>4 DEF AnswersCalls, Answers
  <2>2. LastSet(l, t) = Defaults[Place(Defaults, l, t)].value
    BY <1>2, <1>4
  <2> QED
    BY <2>1, <2>2, OneDefault
<1>5. CASE I # {}
  <2>1. I \subseteq 0..Len(calls) /\ 0 \notin I
    BY <1>1
  <2>2. Max(I) \in I /\ \A j \in I : j <= Max(I)
    <3> HIDE DEF I
    <3> QED
      BY <1>1, <1>5, <2>1, Largest
  <2>3. LastSet(l, t) = calls[Max(I)].value
    <3> HIDE DEF I
    <3> QED
      BY <1>2, <1>5, <2>1, <2>2
  <2>4. Get(conf, l, t) = {calls[Max(I)].value}
    <3> HIDE DEF I
    <3> QED
      BY <1>3, <2>2 DEF AnswersCalls, Answers
  <2> QED
    BY <2>3, <2>4
<1> QED
  BY <1>4, <1>5

\* What a level has in the object is what one of the calls set.
LEMMA OneOfTheCalls ==
  ASSUME NEW q, NEW c, AnswersCalls(q, c), NEW l \in AllLevels, NEW t \in Types, Get(c, l, t) # {}
  PROVE  \E i \in DOMAIN q : q[i].type = t /\ Get(c, l, t) = {q[i].value}
<1> DEFINE M == Matching(q, Len(q), l, t)
<1>1. q \in Seq(AnyEntry) /\ Len(q) \in Nat /\ DOMAIN q = 1..Len(q)
  BY LenProperties DEF AnswersCalls
<1>2. M \subseteq 0..Len(q) /\ M # {}
  BY <1>1 DEF Matching, AnswersCalls, Answers
<1>3. Max(M) \in M /\ \A j \in M : j <= Max(M)
  <2> HIDE DEF M
  <2> QED
    BY <1>1, <1>2, Largest
<1>4. Get(c, l, t) = {q[Max(M)].value}
  BY <1>3 DEF AnswersCalls, Answers
<1>5. \A i \in M : i \in DOMAIN q /\ q[i].type = t
  BY <1>1 DEF Matching
<1> HIDE DEF M
<1> QED
  BY <1>3, <1>4, <1>5

-----------------------------------------------------------------------------

\* What is set for Global is set for every level.
LEMMA GlobalEverywhere ==
  ASSUME NEW q, NEW c, AnswersCalls(q, c), NEW t \in Types
  PROVE  Everywhere(c, t)
<1> SUFFICES ASSUME Get(c, Global, t) # {}, NEW l \in AllLevels PROVE Get(c, l, t) # {}
  BY DEF Everywhere
<1> DEFINE M == Matching(q, Len(q), l, t)
<1>1. q \in Seq(AnyEntry) /\ Len(q) \in Nat /\ Global \in AllLevels
  BY LenProperties DEF AnswersCalls, AllLevels
<1>2. PICK i \in Matching(q, Len(q), Global, t) : TRUE
  BY <1>1 DEF AnswersCalls, Answers
<1>3. M \subseteq 0..Len(q) /\ i \in M
  BY <1>1, <1>2 DEF Matching
<1>4. Max(M) \in M /\ \A j \in M : j <= Max(M)
  <2> HIDE DEF M
  <2> QED
    BY <1>1, <1>3, Largest
<1>5. Get(c, l, t) = {q[Max(M)].value}
  BY <1>4 DEF AnswersCalls, Answers
<1> QED
  BY <1>5

\* What the maps of any configuration hold.
MapValue == ConvertedOf(AnyValue) \cup {FALSE}

\* A configuration that has a value for every level and type, Global's first.
Complete(c) == c \in AnyObject /\ \A t \in Types : Led(c, t) /\ \A l \in AllLevels : Get(c, l, t) # {}

LEMMA MapOfType ==
  ASSUME NEW c, Complete(c), NEW type \in Types
  PROVE  /\ MapOf(c, type) \in Maps(AllLevels, MapValue) /\ Global \in DOMAIN MapOf(c, type)
         /\ \A i \in DOMAIN c : c[i].type = type => unsafeGetConfig(MapOf(c, type), c[i].level) = Converted(c[i])
<1>1. PICK m : m = MapOf(c, type)
  OBVIOUS
<1>2. /\ m \in Maps(AllLevels, ConvertedOf(AnyValue))
      /\ \A i \in DOMAIN c : c[i].type = type =>
           Global \in DOMAIN m /\ unsafeGetConfig(m, c[i].level) = Converted(c[i])
  BY <1>1, MapLaw DEF Complete, AnyObject
<1>3. m \in Maps(AllLevels, MapValue)
  <2>1. DOMAIN m \subseteq AllLevels /\ m \in [DOMAIN m -> ConvertedOf(AnyValue)]
    BY <1>2, MapsAre
  <2>2. m \in [DOMAIN m -> MapValue]
    BY <2>1 DEF MapValue
  <2> QED
    BY <2>1, <2>2, MapsAre
<1>4. Global \in DOMAIN m
  <2>1. Get(c, Global, type) # {}
    BY DEF Complete, AllLevels
  <2>2. PICK i \in DOMAIN c : c[i].type = type
    BY <2>1 DEF Get, PlacesOf
  <2> QED
    BY <1>2, <2>2
<1> QED
  BY <1>1, <1>2, <1>3, <1>4

LEMMA StartType ==
  ASSUME NEW c, Complete(c), NEW streams \in Maps(AnyValue, StreamNumbers), NEW opened \in Nat
  PROVE  Start(c, streams, opened) \in Builds(MapValue, AnyValue)
<1>1. /\ MapOf(c, "Enabled") \in Maps(AllLevels, MapValue) /\ MapOf(c, "ToFile") \in Maps(AllLevels, MapValue)
      /\ MapOf(c, "Format") \in Maps(AllLevels, MapValue) /\ MapOf(c, "LogFlushThreshold") \in Maps(AllLevels, MapValue)
  BY MapOfType DEF Types
<1>2. NoMap \in Maps(AllLevels, AnyValue) /\ NoMap \in Maps(AllLevels, StreamNumbers)
  BY NoMapIs
<1>3. PICK e \in Maps(AllLevels, MapValue), t \in Maps(AllLevels, MapValue), f \in Maps(AllLevels, MapValue),
           h \in Maps(AllLevels, MapValue), n \in Maps(AllLevels, AnyValue), s \in Maps(AllLevels, StreamNumbers) :
        /\ e = MapOf(c, "Enabled") /\ t = MapOf(c, "ToFile") /\ f = MapOf(c, "Format")
        /\ h = MapOf(c, "LogFlushThreshold") /\ n = NoMap /\ s = NoMap
  BY <1>1, <1>2
<1>4. Typed(c) = [enabled |-> e, logFormat |-> f, logFlushThreshold |-> h, toFile |-> t, filename |-> n, fileStream |-> s]
  BY <1>3 DEF Typed
<1>5. Typed(c) \in TypedShape(MapValue, AnyValue)
  BY <1>4, ShapeIs
<1> QED
  BY <1>5 DEF Start, Builds

\* The logger of a configuration: every level finds what it has there, and its files' streams.
Finds(c, typ) ==
  \A l \in AllLevels : \A v :
    /\ Get(c, l, "Enabled") = {v} => unsafeGetConfig(typ.enabled, l) = getBool(v)
    /\ Get(c, l, "LogFlushThreshold") = {v} => unsafeGetConfig(typ.logFlushThreshold, l) = getULong(v)
    /\ Get(c, l, "Format") = {v} => unsafeGetConfig(typ.logFormat, l) = parseFromFormat(l, v)
    /\ Get(c, l, "Filename") = {v} => unsafeGetConfig(typ.filename, l) = v
    /\ Get(c, l, "ToFile") = {v} /\ FilesOpen(c, l) => unsafeGetConfig(typ.toFile, l) = getBool(v)

LEMMA ConfiguredLaw ==
  ASSUME NEW c, Complete(c), NEW streams \in Maps(AnyValue, StreamNumbers), NEW opened \in Nat,
         StreamsRight(Start(c, streams, opened)),
         NEW r, r = TypedConfigurations(c, streams, opened)
  PROVE  r \in Builds(MapValue, AnyValue) /\ StreamsRight(r) /\ FilesShared(r) /\ Finds(c, r.typed)
<1>1. PICK s \in Builds(MapValue, AnyValue) : s = Start(c, streams, opened) /\ StreamsRight(s)
  BY StartType
<1>2. /\ r \in Builds(MapValue, AnyValue) /\ StreamsRight(r) /\ FilesShared(r)
      /\ r.typed.enabled = s.typed.enabled /\ r.typed.logFormat = s.typed.logFormat
      /\ r.typed.logFlushThreshold = s.typed.logFlushThreshold
      /\ \A i \in DOMAIN c : c[i].type = "Filename" => unsafeGetConfig(r.typed.filename, c[i].level) = c[i].value
      /\ \A l \in AllLevels : Global \in DOMAIN s.typed.toFile /\ FilesOpen(c, l) =>
           unsafeGetConfig(r.typed.toFile, l) = unsafeGetConfig(s.typed.toFile, l)
  <2>1. FALSE \in MapValue
    BY DEF MapValue
  <2>2. c \in Objects(Types, AnyValue) /\ Led(c, "Filename")
    BY DEF Complete, AnyObject, Types
  <2>3. Built(MapValue, AnyValue, c, s, r)
    BY <1>1, <2>1, <2>2, BuildLaw
  <2> QED
    BY <2>3 DEF Built
<1>3. /\ s.typed.enabled = MapOf(c, "Enabled") /\ s.typed.logFormat = MapOf(c, "Format")
      /\ s.typed.logFlushThreshold = MapOf(c, "LogFlushThreshold") /\ s.typed.toFile = MapOf(c, "ToFile")
  BY <1>1 DEF Start, Typed
<1>4. ASSUME NEW type \in Types
      PROVE  \A i \in DOMAIN c : c[i].type = type => unsafeGetConfig(MapOf(c, type), c[i].level) = Converted(c[i])
  BY MapOfType
<1>5. Global \in DOMAIN MapOf(c, "ToFile") /\ c \in AnyObject
  BY MapOfType DEF Types, Complete
<1>6. ASSUME NEW l \in AllLevels, NEW v, Get(c, l, "Enabled") = {v} PROVE unsafeGetConfig(r.typed.enabled, l) = getBool(v)
  <2>1. PICK i \in DOMAIN c : c[i].level = l /\ c[i].type = "Enabled" /\ c[i].value = v
    BY <1>6 DEF Get, PlacesOf
  <2>2. unsafeGetConfig(MapOf(c, "Enabled"), l) = Converted(c[i])
    BY <1>4, <2>1 DEF Types
  <2>3. Converted(c[i]) = getBool(v)
    BY <2>1 DEF Converted
  <2> QED
    BY <1>2, <1>3, <2>2, <2>3
<1>7. ASSUME NEW l \in AllLevels, NEW v, Get(c, l, "LogFlushThreshold") = {v}
      PROVE  unsafeGetConfig(r.typed.logFlushThreshold, l) = getULong(v)
  <2>1. PICK i \in DOMAIN c : c[i].level = l /\ c[i].type = "LogFlushThreshold" /\ c[i].value = v
    BY <1>7 DEF Get, PlacesOf
  <2>2. unsafeGetConfig(MapOf(c, "LogFlushThreshold"), l) = Converted(c[i])
    BY <1>4, <2>1 DEF Types
  <2>3. Converted(c[i]) = getULong(v)
    BY <2>1 DEF Converted
  <2> QED
    BY <1>2, <1>3, <2>2, <2>3
<1>8. ASSUME NEW l \in AllLevels, NEW v, Get(c, l, "Format") = {v}
      PROVE  unsafeGetConfig(r.typed.logFormat, l) = parseFromFormat(l, v)
  <2>1. PICK i \in DOMAIN c : c[i].level = l /\ c[i].type = "Format" /\ c[i].value = v
    BY <1>8 DEF Get, PlacesOf
  <2>2. unsafeGetConfig(MapOf(c, "Format"), l) = Converted(c[i])
    BY <1>4, <2>1 DEF Types
  <2>3. Converted(c[i]) = parseFromFormat(l, v)
    BY <2>1 DEF Converted
  <2> QED
    BY <1>2, <1>3, <2>2, <2>3
<1>9. ASSUME NEW l \in AllLevels, NEW v, Get(c, l, "Filename") = {v} PROVE unsafeGetConfig(r.typed.filename, l) = v
  BY <1>2, <1>9 DEF Get, PlacesOf
<1>10. ASSUME NEW l \in AllLevels, NEW v, Get(c, l, "ToFile") = {v}, FilesOpen(c, l)
       PROVE  unsafeGetConfig(r.typed.toFile, l) = getBool(v)
  <2>1. PICK i \in DOMAIN c : c[i].level = l /\ c[i].type = "ToFile" /\ c[i].value = v
    BY <1>10 DEF Get, PlacesOf
  <2>2. unsafeGetConfig(MapOf(c, "ToFile"), l) = Converted(c[i])
    BY <1>4, <2>1 DEF Types
  <2>3. Converted(c[i]) = getBool(v)
    BY <2>1 DEF Converted
  <2> QED
    BY <1>2, <1>3, <1>5, <1>10, <2>2, <2>3
<1>11. Finds(c, r.typed)
  BY <1>6, <1>7, <1>8, <1>9, <1>10 DEF Finds
<1> QED
  BY <1>2, <1>11

LEMMA FirstLoggerLaw ==
  /\ Complete(Registered)
  /\ FirstLogger \in Builds(MapValue, AnyValue) /\ StreamsRight(FirstLogger) /\ FilesShared(FirstLogger)
<1>1. Complete(Registered)
  BY RegisteredLaw, DefaultsLaw, DefaultsThere DEF Complete
<1>2. PICK none \in Maps(AnyValue, StreamNumbers) : none = NoMap /\ DOMAIN none = {}
  BY NoMapIs
<1>3. PICK s : s = Start(Registered, none, 0)
  OBVIOUS
<1>4. StreamsRight(s)
  <2>1. s.streams = none /\ s.opened = 0
    BY <1>3 DEF Start
  <2>2. DOMAIN s.streams \cap Writable = {} /\ IsFiniteSet(DOMAIN s.streams)
    BY <1>2, <2>1, FS_EmptySet
  <2> QED
    BY <1>2, <2>1, <2>2, FS_EmptySet DEF StreamsRight
<1>5. PICK c, r : c = Registered /\ r = TypedConfigurations(c, none, 0)
  OBVIOUS
<1>6. r \in Builds(MapValue, AnyValue) /\ StreamsRight(r) /\ FilesShared(r)
  BY <1>1, <1>3, <1>4, <1>5, ConfiguredLaw
<1> QED
  BY <1>1, <1>2, <1>5, <1>6 DEF FirstLogger

-----------------------------------------------------------------------------

\* What init_logger() has made so far.
LoggerIs ==
  IF started
  THEN /\ configurations = setFromBase(Registered, conf)
       /\ logger = TypedConfigurations(configurations, FirstLogger.streams, FirstLogger.opened)
  ELSE configurations = Registered /\ logger = FirstLogger

\* The values are ones of their type.
OwnValues == \A i \in DOMAIN calls : calls[i].value \in ValuesOf(calls[i].type)

SettingsInv == started \in BOOLEAN /\ AnswersCalls(calls, conf) /\ OwnValues /\ LoggerIs

LEMMA SettingsInit == LInit => SettingsInv
<1> SUFFICES ASSUME LInit PROVE SettingsInv
  OBVIOUS
<1>1. calls = <<>> /\ conf = <<>> /\ started = FALSE /\ configurations = Registered /\ logger = FirstLogger
  BY DEF LInit, CInit, Registered, FirstLogger
<1>2. PICK q : q = <<>>
  OBVIOUS
<1>3. q \in Seq(AnyEntry) /\ Len(q) = 0
  BY <1>2
<1>4. q \in AnyObject /\ \A l, t : Get(q, l, t) = {}
  BY <1>2, NothingSet
<1>5. Answers(q, q)
  BY <1>3, <1>4 DEF Answers, Matching
<1>6. \A t \in Types : Fronted(q, t)
  BY <1>4 DEF Fronted
<1> QED
  <2>1. AnswersCalls(calls, conf)
    BY <1>1, <1>2, <1>3, <1>4, <1>5, <1>6 DEF AnswersCalls
  <2>2. OwnValues
    BY <1>1 DEF OwnValues
  <2> QED
    BY <1>1, <2>1, <2>2 DEF SettingsInv, LoggerIs

LEMMA SettingsStep == SettingsInv /\ [LNext]_lvars => SettingsInv'
<1> SUFFICES ASSUME SettingsInv, [LNext]_lvars PROVE SettingsInv'
  OBVIOUS
<1>1. ASSUME NEW level \in Levels \cup {Global}, NEW type \in Types, NEW value \in ValuesOf(type),
             SetCall(level, type, value)
      PROVE  SettingsInv'
  <2>1. /\ calls' = Append(calls, Entry(level, type, value)) /\ conf' = set(conf, level, type, value)
        /\ UNCHANGED <<configurations, logger, started>> /\ ~started
    BY <1>1 DEF SetCall, Set, wvars
  <2>2. level \in AllLevels /\ value \in AnyValue
    BY DEF AllLevels, AnyValue
  <2>3. AnswersCalls(calls, conf)'
    <3>1. PICK q, c : q = calls /\ c = conf
      OBVIOUS
    <3>2. AnswersCalls(Append(q, Entry(level, type, value)), set(c, level, type, value))
      BY <2>2, <3>1, SetCallLaw DEF SettingsInv
    <3> QED
      BY <2>1, <3>1, <3>2
  <2>4. OwnValues'
    <3>1. PICK e : e = Entry(level, type, value)
      OBVIOUS
    <3>2. e \in AnyEntry /\ e.type = type /\ e.value = value
      BY <2>2, <3>1 DEF Entry, AnyEntry, Entries
    <3>3. calls \in Seq(AnyEntry) /\ \A i \in DOMAIN calls : calls[i].value \in ValuesOf(calls[i].type)
      BY DEF SettingsInv, AnswersCalls, OwnValues
    <3>4. \A i \in DOMAIN calls' : calls'[i] = e \/ (i \in DOMAIN calls /\ calls'[i] = calls[i])
      BY <2>1, <3>1, <3>2, <3>3, LenProperties
    <3> QED
      BY <3>2, <3>3, <3>4 DEF OwnValues
  <2> QED
    BY <2>1, <2>3, <2>4 DEF SettingsInv, LoggerIs
<1>2. CASE Reconfigure
  BY <1>2 DEF Reconfigure, Configure, SettingsInv, LoggerIs, OwnValues
<1>3. CASE UNCHANGED <<lcvars, started>>
  BY <1>3 DEF lcvars, SettingsInv, LoggerIs, OwnValues
<1>4. ASSUME NEW t \in Threads,
             \/ \E level \in Levels, text \in Messages : Begin(t, level, text)
             \/ Piece(t) \/ Copy(t) \/ Handle(t) \/ Build(t) \/ Write(t) \/ Clear(t)
      PROVE  SettingsInv'
  <2>1. \A level \in Levels, text \in Messages : Begin(t, level, text) => UNCHANGED <<lcvars, started>>
    BY DEF Begin
  <2>2. Piece(t) \/ Copy(t) \/ Handle(t) => UNCHANGED <<lcvars, started>>
    BY DEF Piece, Copy, Handle
  <2>3. Build(t) => UNCHANGED <<lcvars, started>>
    BY DEF Build
  <2>4. Write(t) => UNCHANGED <<lcvars, started>>
    BY DEF Write
  <2>5. Clear(t) => UNCHANGED <<lcvars, started>>
    BY DEF Clear, Over
  <2> QED
    BY <1>3, <1>4, <2>1, <2>2, <2>3, <2>4, <2>5
<1>5. CASE UNCHANGED lvars
  BY <1>3, <1>5 DEF lvars, wvars
<1> QED
  BY <1>1, <1>2, <1>4, <1>5 DEF LNext

\* The configuration of the logger, before and after reconfigureLogger().
LEMMA ConfigurationsLaw ==
  ASSUME SettingsInv
  PROVE  /\ conf \in AnyObject /\ Complete(configurations)
         /\ logger \in Builds(MapValue, AnyValue) /\ StreamsRight(logger) /\ FilesShared(logger)
         /\ started =>
              /\ Finds(configurations, typed)
              /\ \A l \in AllLevels, t \in Types : GlobalFirst(t) => Get(configurations, l, t) = {LastSet(l, t)}
<1>1. AnswersCalls(calls, conf) /\ conf \in AnyObject
  BY DEF SettingsInv, AnswersCalls
<1>2. Complete(Registered) /\ Registered \in AnyObject
  BY FirstLoggerLaw DEF Complete
<1>3. PICK merged : merged = setFromBase(Registered, conf)
  OBVIOUS
<1>4. PICK c \in AnyObject, q \in AnyObject : c = Registered /\ q = conf
  BY <1>1, <1>2
<1>5. ASSUME NEW l \in AllLevels, NEW t \in Types
      PROVE  /\ merged \in AnyObject /\ Led(merged, t) /\ Get(merged, l, t) # {}
             /\ GlobalFirst(t) => Get(merged, l, t) = {LastSet(l, t)}
  <2>1. /\ merged \in AnyObject
        /\ Led(c, t) /\ (Get(c, Global, t) # {} \/ Led(q, t)) => Led(merged, t)
        /\ Get(c, l, t) # {} => Get(merged, l, t) # {}
        /\ Fronted(q, t) /\ Everywhere(q, t) =>
             Get(merged, l, t) = IF Get(q, l, t) # {} THEN Get(q, l, t) ELSE Get(c, l, t)
    BY <1>3, <1>4, MergeLaw
  <2>2. Led(c, t) /\ Get(c, Global, t) # {} /\ Get(c, l, t) # {} /\ Get(c, l, t) = Get(Defaults, l, t)
    BY <1>2, <1>4, RegisteredLaw DEF Complete, AllLevels
  <2>3. Everywhere(q, t)
    BY <1>1, <1>4, GlobalEverywhere
  <2>4. GlobalFirst(t) => Fronted(q, t)
    BY <1>1, <1>4 DEF AnswersCalls, GlobalBefore, GlobalFirst
  <2>5. /\ Get(q, l, t) # {} => Get(q, l, t) = {LastSet(l, t)}
        /\ Get(q, l, t) = {} => Get(Defaults, l, t) = {LastSet(l, t)}
    BY <1>1, <1>4, LastSetIs
  <2> QED
    BY <2>1, <2>2, <2>3, <2>4, <2>5
<1>6. Complete(merged)
  <2>1. PICK l \in AllLevels, t \in Types : TRUE
    BY DEF AllLevels, Types
  <2>2. merged \in AnyObject
    BY <1>5, <2>1
  <2>3. \A u \in Types : Led(merged, u)
    BY <1>5, <2>1
  <2> QED
    BY <1>5, <2>2, <2>3 DEF Complete
<1>7. /\ FirstLogger \in Builds(MapValue, AnyValue) /\ StreamsRight(FirstLogger) /\ FilesShared(FirstLogger)
      /\ FirstLogger.streams \in Maps(AnyValue, StreamNumbers) /\ FirstLogger.opened \in Nat
  BY FirstLoggerLaw DEF Builds
<1>8. PICK r : r = TypedConfigurations(merged, FirstLogger.streams, FirstLogger.opened)
  OBVIOUS
<1>9. r \in Builds(MapValue, AnyValue) /\ StreamsRight(r) /\ FilesShared(r) /\ Finds(merged, r.typed)
  <2>1. PICK streams \in Maps(AnyValue, StreamNumbers), opened \in Nat : streams = FirstLogger.streams /\ opened = FirstLogger.opened
    BY <1>7
  <2>2. StreamsRight(Start(merged, streams, opened))
    BY <1>7, <2>1 DEF StreamsRight, Start
  <2> QED
    BY <1>6, <1>8, <2>1, <2>2, ConfiguredLaw
<1>10. CASE started
  <2>1. configurations = merged /\ logger = r
    BY <1>3, <1>8, <1>10 DEF SettingsInv, LoggerIs
  <2> QED
    BY <1>1, <1>5, <1>6, <1>9, <1>10, <2>1 DEF typed
<1>11. CASE ~started
  BY <1>1, <1>2, <1>7, <1>11 DEF SettingsInv, LoggerIs
<1> QED
  BY <1>10, <1>11

\* What a level has, if Global was set first.
LEMMA LevelHas ==
  ASSUME SettingsInv, started, NEW l \in Levels
  PROVE  /\ GlobalFirst("Enabled") => unsafeGetConfig(typed.enabled, l) = getBool(LastSet(l, "Enabled"))
         /\ GlobalFirst("LogFlushThreshold") =>
              unsafeGetConfig(typed.logFlushThreshold, l) = getULong(LastSet(l, "LogFlushThreshold"))
         /\ GlobalFirst("Format") => unsafeGetConfig(typed.logFormat, l) = parseFromFormat(l, LastSet(l, "Format"))
         /\ GlobalFirst("Filename") => unsafeGetConfig(typed.filename, l) = LastSet(l, "Filename")
         /\ GlobalFirst("Filename") /\ GlobalFirst("ToFile") /\ FileUsable(l) =>
              unsafeGetConfig(typed.toFile, l) = getBool(LastSet(l, "ToFile"))
<1>1. l \in AllLevels /\ Global \in AllLevels
  BY DEF AllLevels
<1>2. Finds(configurations, typed)
  BY ConfigurationsLaw
<1>3. \A m \in AllLevels, t \in Types : GlobalFirst(t) => Get(configurations, m, t) = {LastSet(m, t)}
  BY ConfigurationsLaw
<1>4. GlobalFirst("Filename") /\ FileUsable(l) => FilesOpen(configurations, l)
  <2> SUFFICES ASSUME GlobalFirst("Filename"), FileUsable(l), NEW i \in DOMAIN configurations,
                      configurations[i].type = "Filename", configurations[i].level \in {l, Global}
               PROVE  configurations[i].value \in Writable
    BY DEF FilesOpen
  <2>1. configurations[i].value \in Get(configurations, configurations[i].level, "Filename")
    BY DEF Get, PlacesOf
  <2>2. configurations[i].value = LastSet(configurations[i].level, "Filename")
    BY <1>1, <1>3, <2>1 DEF Types
  <2> QED
    BY <2>2 DEF FileUsable
<1>5. /\ GlobalFirst("Enabled") => Get(configurations, l, "Enabled") = {LastSet(l, "Enabled")}
      /\ GlobalFirst("LogFlushThreshold") =>
           Get(configurations, l, "LogFlushThreshold") = {LastSet(l, "LogFlushThreshold")}
      /\ GlobalFirst("Format") => Get(configurations, l, "Format") = {LastSet(l, "Format")}
      /\ GlobalFirst("Filename") => Get(configurations, l, "Filename") = {LastSet(l, "Filename")}
      /\ GlobalFirst("ToFile") => Get(configurations, l, "ToFile") = {LastSet(l, "ToFile")}
  BY <1>1, <1>3 DEF Types
<1> QED
  BY <1>1, <1>2, <1>4, <1>5 DEF Finds

\* The last set() of a level wins, whatever the calls, their order and their number.
THEOREM LastSetTheorem == LSpec => []LastSetWins
<1>1. SettingsInv => LastSetWins
  <2> SUFFICES ASSUME SettingsInv PROVE LastSetWins
    OBVIOUS
  <2>1. Distinct(conf) /\ Distinct(configurations)
    BY ConfigurationsLaw DEF Complete, AnyObject, Objects
  <2>2. ASSUME started, NEW l \in Levels
        PROVE  /\ GlobalFirst("Enabled") => unsafeGetConfig(typed.enabled, l) = getBool(LastSet(l, "Enabled"))
               /\ GlobalFirst("LogFlushThreshold") =>
                    unsafeGetConfig(typed.logFlushThreshold, l) = getULong(LastSet(l, "LogFlushThreshold"))
               /\ GlobalFirst("Format") =>
                    unsafeGetConfig(typed.logFormat, l) = parseFromFormat(l, LastSet(l, "Format"))
               /\ GlobalFirst("Filename") => unsafeGetConfig(typed.filename, l) = LastSet(l, "Filename")
               /\ GlobalFirst("Filename") /\ GlobalFirst("ToFile") /\ FileUsable(l) =>
                    unsafeGetConfig(typed.toFile, l) = getBool(LastSet(l, "ToFile"))
    BY <2>2, LevelHas
  <2> QED
    BY <2>1, <2>2, Zenon DEF LastSetWins, Distinct
<1> QED
  BY <1>1, SettingsInit, SettingsStep, PTL DEF LSpec

\* Every file has one stream, and every level the stream of its file.
THEOREM StreamTheorem == LSpec => []OneStreamPerFile
<1>1. SettingsInv => OneStreamPerFile
  BY ConfigurationsLaw DEF OneStreamPerFile, FilesShared, StreamsRight, typed
<1> QED
  BY <1>1, SettingsInit, SettingsStep, PTL DEF LSpec

-----------------------------------------------------------------------------
(***************************************************************************)
(* The statements.                                                         *)
(***************************************************************************)

Pieces == UNION {Range(m) : m \in Messages}
Message == [level : Levels \cup {Global}, text : Seq(Pieces)]

\* Shapes.
LogType ==
  /\ started \in BOOLEAN
  /\ at \in [Threads -> {"none", "build", "copied", "dispatch", "write", "clear"}]
  /\ stmt \in [Threads -> Message] /\ copy \in [Threads -> Message]
  /\ todo \in [Threads -> Seq(Pieces)] /\ stream \in Seq(Pieces)
  /\ DOMAIN proceed = Threads /\ DOMAIN line = Threads
  /\ mixed \in [Threads -> BOOLEAN]
  /\ m_data \in Threads \cup {null}
  /\ unflushed \in [Levels -> Nat]
  /\ out \in Seq(Range(out))

\* Before init_logger() is done nobody logs.
QuietBefore ==
  ~started => (\A t \in Threads : at[t] = "none") /\ buffered = {} /\ \A l \in Levels : unflushed[l] = 0

\* Who is not mixed with others is alone, and what is in the stream is of statements
\* that are under way.
Alone == \A t, u \in Threads : at[t] # "none" /\ ~mixed[t] /\ u # t => at[u] = "none"
NothingLeft == (\A t \in Threads : at[t] = "none") => stream = <<>>

\* A statement has a level and a message, which is logged if the level is enabled.
UnderWay ==
  \A t \in Threads : at[t] # "none" =>
    /\ stmt[t].level \in Levels /\ stmt[t].text \in Messages
    /\ proceed[t] = unsafeGetConfig(typed.enabled, stmt[t].level)
    /\ at[t] \in {"copied", "dispatch", "write"} => proceed[t] /\ copy[t].level = stmt[t].level

\* The line that a statement should write.
LineIn(t) == build(unsafeGetConfig(typed.logFormat, stmt[t].level), stmt[t].text)

\* The message of a statement that is alone, on its way from the stream to the file.
OwnMessage ==
  \A t \in Threads : ~mixed[t] =>
    /\ at[t] = "build" /\ proceed[t] => stream \o todo[t] = stmt[t].text
    /\ at[t] \in {"copied", "dispatch", "write"} => copy[t].text = stmt[t].text
    /\ at[t] \in {"dispatch", "write"} => m_data = t
    /\ at[t] = "write" => line[t] = LineIn(t)
    /\ at[t] = "clear" /\ proceed[t] =>
         /\ out # <<>> /\ out[Len(out)].level = stmt[t].level /\ out[Len(out)].line = LineIn(t)

\* The lines of a level that wait, and how many a level may have.
WaitingOf(l) == {i \in buffered : out[i].level = l}
Threshold(l) == unsafeGetConfig(typed.logFlushThreshold, l)

\* Lines wait in the stream of their level; there are no more of a level than were
\* counted, which are fewer than its threshold.
BufferedCounted ==
  /\ buffered \subseteq 1..Len(out)
  /\ \A i \in buffered : out[i].stream = unsafeGetConfig(typed.fileStream, out[i].level)
  /\ \A l \in Levels :
       /\ IsFiniteSet(WaitingOf(l)) /\ Cardinality(WaitingOf(l)) <= unflushed[l]
       /\ Threshold(l) \in Nat => unflushed[l] = 0 \/ unflushed[l] < Threshold(l)

LogInv == LogType /\ QuietBefore /\ Alone /\ NothingLeft /\ UnderWay /\ OwnMessage /\ BufferedCounted

-----------------------------------------------------------------------------
\* A sequence grows at its end.
LEMMA Grows ==
  ASSUME NEW s, s \in Seq(Range(s)), NEW e
  PROVE  /\ Append(s, e) \in Seq(Range(Append(s, e)))
         /\ Len(Append(s, e)) = Len(s) + 1 /\ Len(s) \in Nat
         /\ \A i \in 1..Len(s) : Append(s, e)[i] = s[i]
         /\ Append(s, e)[Len(s) + 1] = e
<1>1. PICK S : S = Range(s) \cup {e}
  OBVIOUS
<1>2. s \in Seq(S) /\ e \in S
  <2>1. DOMAIN s = 1..Len(s) /\ Len(s) \in Nat /\ \A i \in 1..Len(s) : s[i] \in S
    BY <1>1, LenProperties, ElementOfSeq
  <2> QED
    BY <1>1, <2>1, SeqDef
<1>3. /\ Append(s, e) \in Seq(S) /\ Len(Append(s, e)) = Len(s) + 1 /\ Len(s) \in Nat
      /\ \A i \in 1..Len(s) : Append(s, e)[i] = s[i]
      /\ Append(s, e)[Len(s) + 1] = e
  BY <1>2, AppendProperties, LenProperties
<1>4. Append(s, e) \in Seq(Range(Append(s, e)))
  <2>1. PICK q \in Seq(S) : q = Append(s, e)
    BY <1>3
  <2>2. DOMAIN q = 1..Len(q) /\ Len(q) \in Nat /\ q = [i \in 1..Len(q) |-> q[i]]
    BY LenProperties
  <2>3. \A i \in 1..Len(q) : q[i] \in Range(q)
    BY <2>2 DEF Range
  <2>4. q \in [1..Len(q) -> Range(q)]
    BY <2>2, <2>3
  <2>5. q \in Seq(Range(q))
    BY <2>2, <2>4, SeqDef
  <2> QED
    BY <2>1, <2>5
<1> QED
  BY <1>3, <1>4

\* A piece moves from the message to the stream.
LEMMA PieceMoves ==
  ASSUME NEW S, NEW s \in Seq(S), NEW p \in Seq(S), p # <<>>
  PROVE  /\ Head(p) \in S /\ Tail(p) \in Seq(S)
         /\ Append(s, Head(p)) \in Seq(S)
         /\ Append(s, Head(p)) \o Tail(p) = s \o p
<1>1. /\ Len(p) \in Nat /\ Len(p) # 0 /\ Head(p) = p[1] /\ Head(p) \in S /\ Tail(p) \in Seq(S)
      /\ Len(Tail(p)) = Len(p) - 1 /\ \A i \in 1..Len(p) - 1 : Tail(p)[i] = p[i + 1]
  BY HeadTailProperties, EmptySeq, LenProperties
<1>2. /\ Append(s, Head(p)) \in Seq(S) /\ Len(Append(s, Head(p))) = Len(s) + 1 /\ Len(s) \in Nat
      /\ \A i \in 1..Len(s) : Append(s, Head(p))[i] = s[i]
      /\ Append(s, Head(p))[Len(s) + 1] = Head(p)
  BY <1>1, AppendProperties, LenProperties
<1>3. PICK a \in Seq(S), b \in Seq(S) : a = Append(s, Head(p)) /\ b = Tail(p)
  BY <1>1, <1>2
<1>4. /\ a \o b \in Seq(S) /\ Len(a \o b) = Len(a) + Len(b)
      /\ s \o p \in Seq(S) /\ Len(s \o p) = Len(s) + Len(p)
      /\ \A i \in 1..(Len(a) + Len(b)) : (a \o b)[i] = IF i <= Len(a) THEN a[i] ELSE b[i - Len(a)]
      /\ \A i \in 1..(Len(s) + Len(p)) : (s \o p)[i] = IF i <= Len(s) THEN s[i] ELSE p[i - Len(s)]
  BY ConcatProperties
<1>5. Len(a \o b) = Len(s \o p)
  BY <1>1, <1>2, <1>3, <1>4
<1>6. ASSUME NEW i \in 1..Len(s \o p) PROVE (a \o b)[i] = (s \o p)[i]
  <2>1. CASE i <= Len(s)
    BY <1>1, <1>2, <1>3, <1>4, <2>1
  <2>2. CASE i = Len(s) + 1
    <3>1. (a \o b)[i] = a[i] /\ a[i] = Head(p)
      BY <1>1, <1>2, <1>3, <1>4, <2>2
    <3>2. (s \o p)[i] = p[1]
      BY <1>1, <1>2, <1>4, <2>2
    <3> QED
      BY <1>1, <3>1, <3>2
  <2>3. CASE i > Len(s) + 1
    <3>1. i - (Len(s) + 1) \in 1..Len(p) - 1 /\ (i - (Len(s) + 1)) + 1 = i - Len(s)
      BY <1>1, <1>2, <1>4, <2>3
    <3>2. (a \o b)[i] = b[i - (Len(s) + 1)]
      BY <1>1, <1>2, <1>3, <1>4, <2>3
    <3>3. (s \o p)[i] = p[i - Len(s)]
      BY <1>1, <1>2, <1>4, <2>3
    <3> QED
      BY <1>1, <1>3, <3>1, <3>2, <3>3
  <2>4. i \in Nat /\ Len(s) \in Nat
    BY <1>1, <1>2, <1>4
  <2>5. i <= Len(s) \/ i = Len(s) + 1 \/ i > Len(s) + 1
    BY <2>4
  <2> QED
    BY <2>1, <2>2, <2>3, <2>5
<1>7. a \o b = s \o p
  BY <1>4, <1>5, <1>6, SeqEqual
<1> QED
  BY <1>1, <1>2, <1>3, <1>7

\* While a statement is under way, init_logger() is done, and others are mixed with it.
LEMMA OthersMixed ==
  ASSUME LogInv, NEW t \in Threads, at[t] # "none"
  PROVE  /\ started
         /\ \A u \in Threads : u # t /\ at[u] # "none" => mixed[u]
         /\ stmt[t].level \in Levels /\ stmt[t].text \in Messages
         /\ proceed[t] = unsafeGetConfig(typed.enabled, stmt[t].level)
<1>1. started
  BY DEF LogInv, LogType, QuietBefore
<1>2. \A u \in Threads : u # t /\ at[u] # "none" => mixed[u]
  BY DEF LogInv, LogType, Alone
<1> QED
  BY <1>1, <1>2 DEF LogInv, UnderWay

-----------------------------------------------------------------------------
(***************************************************************************)
(* The steps.                                                              *)
(***************************************************************************)

\* The invariant in the first state.
LEMMA LogInit == LInit => LogInv
<1> SUFFICES ASSUME LInit PROVE LogInv
  OBVIOUS
<1>1. LogType
  <2>1. NoMessage \in Message /\ <<>> \in Seq(Pieces)
    BY EmptySeq DEF NoMessage, Message
  <2>2. <<>> \in Seq(Range(<<>>))
    BY EmptySeq
  <2> QED
    BY <2>1, <2>2 DEF LInit, LogType
<1>2. QuietBefore /\ Alone /\ NothingLeft /\ UnderWay /\ OwnMessage
  BY DEF LInit, QuietBefore, Alone, NothingLeft, UnderWay, OwnMessage
<1>3. BufferedCounted
  <2>1. \A l \in Levels : WaitingOf(l) = {} /\ unflushed[l] = 0
    BY DEF LInit, WaitingOf
  <2>2. IsFiniteSet({}) /\ Cardinality({}) = 0
    BY FS_EmptySet
  <2>3. buffered = {}
    BY DEF LInit
  <2> QED
    BY <2>1, <2>2, <2>3 DEF BufferedCounted
<1> QED
  BY <1>1, <1>2, <1>3 DEF LogInv

\* init_logger(): nobody logs yet.
LEMMA SettingStep ==
  ASSUME LogInv, ~started,
         UNCHANGED <<at, stmt, todo, proceed, copy, line, mixed, stream, m_data, unflushed, begun, out, buffered>>,
         started' \in BOOLEAN
  PROVE  LogInv'
<1>1. /\ \A t \in Threads : at[t] = "none"
      /\ buffered = {} /\ \A l \in Levels : unflushed[l] = 0
  BY DEF LogInv, QuietBefore
<1>2. LogType' /\ QuietBefore' /\ Alone' /\ NothingLeft'
  BY <1>1 DEF LogInv, LogType, QuietBefore, Alone, NothingLeft
<1>3. UnderWay' /\ OwnMessage'
  BY <1>1 DEF UnderWay, OwnMessage
<1>4. BufferedCounted'
  <2>1. \A l \in Levels : WaitingOf(l)' = {} /\ unflushed'[l] = 0
    BY <1>1 DEF WaitingOf
  <2>2. IsFiniteSet({}) /\ Cardinality({}) = 0
    BY FS_EmptySet
  <2> QED
    BY <1>1, <2>1, <2>2 DEF BufferedCounted
<1> QED
  BY <1>2, <1>3, <1>4 DEF LogInv

\* Lines that wait are not touched.
LEMMA WaitingKept ==
  ASSUME BufferedCounted, UNCHANGED <<lcvars, unflushed, out, buffered>>
  PROVE  BufferedCounted'
BY DEF BufferedCounted, WaitingOf, Threshold, lcvars, typed

\* A statement begins.
LEMMA BeginStep ==
  ASSUME LogInv, NEW t \in Threads, NEW level \in Levels, NEW text \in Messages, Begin(t, level, text)
  PROVE  LogInv'
<1>1. /\ started /\ at[t] = "none" /\ at' = [at EXCEPT ![t] = "build"]
      /\ stmt' = [stmt EXCEPT ![t] = [level |-> level, text |-> text]]
      /\ proceed' = [proceed EXCEPT ![t] = unsafeGetConfig(typed.enabled, level)]
      /\ todo' = [todo EXCEPT ![t] = text]
      /\ mixed' = [u \in Threads |-> IF u = t THEN Busy(t) # {} ELSE mixed[u] \/ at[u] # "none"]
      /\ UNCHANGED <<lcvars, started, copy, line, stream, m_data, unflushed, out, buffered>>
  BY DEF Begin, Goto
<1>2. text \in Seq(Pieces) /\ [level |-> level, text |-> text] \in Message
  BY MessagesAssumption DEF Pieces, Message
<1>3. LogType'
  <2>1. mixed' \in [Threads -> BOOLEAN]
    BY <1>1 DEF LogInv, LogType
  <2> QED
    BY <1>1, <1>2, <2>1 DEF LogInv, LogType
<1>4. QuietBefore'
  BY <1>1 DEF QuietBefore
<1>5. \A u \in Threads : u # t => /\ at'[u] = at[u] /\ stmt'[u] = stmt[u] /\ proceed'[u] = proceed[u]
                                  /\ at[u] # "none" => mixed'[u]
  BY <1>1 DEF LogInv, LogType
<1>6. at'[t] = "build" /\ stmt'[t] = [level |-> level, text |-> text] /\ todo'[t] = text
      /\ proceed'[t] = unsafeGetConfig(typed.enabled, level)
  BY <1>1 DEF LogInv, LogType
<1>7. ~mixed'[t] => \A u \in Threads : u # t => at[u] = "none"
  BY <1>1 DEF Busy
<1>8. Alone' /\ NothingLeft'
  BY <1>1, <1>5, <1>6, <1>7 DEF Alone, NothingLeft
<1>9. UnderWay'
  BY <1>1, <1>5, <1>6 DEF LogInv, UnderWay, lcvars, typed
<1>10. OwnMessage'
  <2>1. ASSUME ~mixed'[t] PROVE stream' \o todo'[t] = stmt'[t].text
    <3>1. stream = <<>>
      BY <1>1, <1>7, <2>1 DEF LogInv, NothingLeft
    <3> QED
      BY <1>1, <1>2, <1>6, <3>1, ConcatEmptySeq
  <2>2. ASSUME NEW u \in Threads, u # t, ~mixed'[u] PROVE at'[u] = "none"
    BY <1>5, <2>2
  <2> QED
    BY <1>6, <2>1, <2>2 DEF OwnMessage
<1> QED
  BY <1>1, <1>3, <1>4, <1>8, <1>9, <1>10, WaitingKept DEF LogInv

\* A step of a statement says nothing of the others: they are mixed with it.
LEMMA OneMoves ==
  ASSUME LogInv, NEW t \in Threads, at[t] # "none",
         NEW to \in {"build", "copied", "dispatch", "write", "clear"}, at' = [at EXCEPT ![t] = to],
         UNCHANGED <<lcvars, started, stmt, proceed, mixed>>
  PROVE  /\ QuietBefore' /\ Alone' /\ NothingLeft'
         /\ at' \in [Threads -> {"none", "build", "copied", "dispatch", "write", "clear"}]
         /\ at'[t] = to /\ \A u \in Threads : u # t => at'[u] = at[u] /\ (~mixed'[u] => at'[u] = "none")
         /\ LineIn(t)' = LineIn(t)
<1>1. /\ at \in [Threads -> {"none", "build", "copied", "dispatch", "write", "clear"}] /\ at'[t] = to
      /\ \A u \in Threads : u # t => at'[u] = at[u]
  BY DEF LogInv, LogType
<1>2. started /\ \A u \in Threads : u # t /\ at[u] # "none" => mixed[u]
  BY OthersMixed
<1>3. QuietBefore' /\ Alone' /\ NothingLeft'
  BY <1>1, <1>2 DEF QuietBefore, Alone, NothingLeft, LogInv
<1>4. LineIn(t)' = LineIn(t)
  BY DEF LineIn, lcvars, typed
<1> QED
  BY <1>1, <1>2, <1>3, <1>4

\* What is said of each statement, when only that of t has moved.
LEMMA OneSaid ==
  ASSUME LogInv, NEW t \in Threads, at[t] # "none",
         UNCHANGED <<lcvars, stmt, proceed, mixed>>,
         \A u \in Threads : u # t => at'[u] = at[u] /\ copy'[u] = copy[u] /\ (~mixed'[u] => at'[u] = "none"),
         at'[t] \in {"copied", "dispatch", "write"} => proceed[t] /\ copy'[t].level = stmt[t].level
  PROVE  UnderWay'
BY DEF LogInv, UnderWay, lcvars, typed

\* A piece of the message.
LEMMA PieceStep ==
  ASSUME LogInv, NEW t \in Threads, Piece(t)
  PROVE  LogInv'
<1>1. /\ at[t] = "build" /\ at' = [at EXCEPT ![t] = "build"] /\ todo[t] # <<>>
      /\ todo' = [todo EXCEPT ![t] = Tail(todo[t])]
      /\ stream' = IF proceed[t] THEN Append(stream, Head(todo[t])) ELSE stream
      /\ UNCHANGED <<lcvars, started, stmt, proceed, copy, line, mixed, m_data, unflushed, out, buffered>>
  BY DEF Piece, Goto
<1>2. todo[t] \in Seq(Pieces) /\ stream \in Seq(Pieces)
  BY DEF LogInv, LogType
<1>3. /\ Tail(todo[t]) \in Seq(Pieces) /\ Append(stream, Head(todo[t])) \in Seq(Pieces)
      /\ Append(stream, Head(todo[t])) \o Tail(todo[t]) = stream \o todo[t]
  BY <1>1, <1>2, PieceMoves
<1>4. /\ QuietBefore' /\ Alone' /\ NothingLeft'
      /\ at' \in [Threads -> {"none", "build", "copied", "dispatch", "write", "clear"}]
      /\ at'[t] = "build" /\ \A u \in Threads : u # t => at'[u] = at[u] /\ (~mixed'[u] => at'[u] = "none")
  BY <1>1, OneMoves
<1>5. LogType'
  BY <1>1, <1>2, <1>3, <1>4 DEF LogInv, LogType
<1>6. UnderWay'
  BY <1>1, <1>4, OneSaid
<1>7. OwnMessage'
  <2>1. ~mixed[t] /\ proceed[t] => stream' \o todo'[t] = stmt[t].text
    BY <1>1, <1>3 DEF LogInv, LogType, OwnMessage
  <2> QED
    BY <1>1, <1>4, <2>1 DEF OwnMessage
<1> QED
  BY <1>1, <1>4, <1>5, <1>6, <1>7, WaitingKept DEF LogInv

\* The copy of the stream's text.
LEMMA CopyStep ==
  ASSUME LogInv, NEW t \in Threads, Copy(t)
  PROVE  LogInv'
<1> DEFINE to == IF proceed[t] THEN "copied" ELSE "clear"
<1>1. /\ at[t] = "build" /\ at' = [at EXCEPT ![t] = to] /\ todo[t] = <<>>
      /\ copy' = [copy EXCEPT ![t] = IF proceed[t] THEN [level |-> stmt[t].level, text |-> stream] ELSE copy[t]]
      /\ UNCHANGED <<lcvars, started, stmt, todo, proceed, line, mixed, stream, m_data, unflushed, out, buffered>>
  BY DEF Copy, Goto
<1>2. /\ stream \in Seq(Pieces) /\ copy \in [Threads -> Message] /\ stmt[t] \in Message
      /\ [level |-> stmt[t].level, text |-> stream] \in Message
  BY DEF LogInv, LogType, Message
<1>3. to \in {"build", "copied", "dispatch", "write", "clear"} /\ (to = "copied" <=> proceed[t]) /\ to \in {"copied", "clear"}
  OBVIOUS
<1> HIDE DEF to
<1>4. /\ QuietBefore' /\ Alone' /\ NothingLeft'
      /\ at' \in [Threads -> {"none", "build", "copied", "dispatch", "write", "clear"}]
      /\ at'[t] = to /\ \A u \in Threads : u # t => at'[u] = at[u] /\ (~mixed'[u] => at'[u] = "none")
  BY <1>1, <1>3, OneMoves
<1>5. copy' \in [Threads -> Message] /\ \A u \in Threads : u # t => copy'[u] = copy[u]
  BY <1>1, <1>2
<1>6. proceed[t] => copy'[t] = [level |-> stmt[t].level, text |-> stream]
  BY <1>1, <1>2
<1>7. LogType'
  BY <1>1, <1>4, <1>5 DEF LogInv, LogType
<1>8. UnderWay'
  <2>1. at'[t] \in {"copied", "dispatch", "write"} => proceed[t] /\ copy'[t].level = stmt[t].level
    BY <1>3, <1>4, <1>6
  <2> QED
    BY <1>1, <1>4, <1>5, <2>1, OneSaid
<1>9. OwnMessage'
  <2>1. ~mixed[t] /\ proceed[t] => stream = stmt[t].text
    <3>1. stream \o <<>> = stream
      BY <1>2, ConcatEmptySeq
    <3> QED
      BY <1>1, <3>1 DEF LogInv, OwnMessage
  <2> QED
    BY <1>1, <1>3, <1>4, <1>6, <2>1 DEF OwnMessage
<1> QED
  BY <1>1, <1>4, <1>7, <1>8, <1>9, WaitingKept DEF LogInv

\* The callback is given the data.
LEMMA HandleStep ==
  ASSUME LogInv, NEW t \in Threads, Handle(t)
  PROVE  LogInv'
<1>1. /\ at[t] = "copied" /\ at' = [at EXCEPT ![t] = "dispatch"] /\ m_data' = t
      /\ UNCHANGED <<lcvars, started, stmt, todo, proceed, copy, line, mixed, stream, unflushed, out, buffered>>
  BY DEF Handle, Goto
<1>2. /\ QuietBefore' /\ Alone' /\ NothingLeft'
      /\ at' \in [Threads -> {"none", "build", "copied", "dispatch", "write", "clear"}]
      /\ at'[t] = "dispatch" /\ \A u \in Threads : u # t => at'[u] = at[u] /\ (~mixed'[u] => at'[u] = "none")
  BY <1>1, OneMoves
<1>3. LogType'
  BY <1>1, <1>2 DEF LogInv, LogType
<1>4. UnderWay'
  <2>1. proceed[t] /\ copy'[t].level = stmt[t].level
    BY <1>1 DEF LogInv, UnderWay
  <2> QED
    BY <1>1, <1>2, <2>1, OneSaid
<1>5. OwnMessage'
  BY <1>1, <1>2 DEF LogInv, OwnMessage
<1> QED
  BY <1>1, <1>2, <1>3, <1>4, <1>5, WaitingKept DEF LogInv

\* The line.
LEMMA BuildStep ==
  ASSUME LogInv, NEW t \in Threads, Build(t)
  PROVE  LogInv'
<1>1. /\ at[t] = "dispatch" /\ at' = [at EXCEPT ![t] = "write"]
      /\ UNCHANGED <<lcvars, started, stmt, todo, proceed, copy, mixed, stream, m_data, unflushed, out, buffered>>
  BY DEF Build, Goto
<1>2. PICK l : /\ line' = [line EXCEPT ![t] = l]
               /\ ~Dangling => l = build(unsafeGetConfig(typed.logFormat, copy[m_data].level), copy[m_data].text)
  BY DEF Build
<1>3. /\ QuietBefore' /\ Alone' /\ NothingLeft'
      /\ at' \in [Threads -> {"none", "build", "copied", "dispatch", "write", "clear"}]
      /\ at'[t] = "write" /\ \A u \in Threads : u # t => at'[u] = at[u] /\ (~mixed'[u] => at'[u] = "none")
      /\ LineIn(t)' = LineIn(t)
  BY <1>1, OneMoves
<1>4. LogType' /\ line'[t] = l
  BY <1>1, <1>2, <1>3 DEF LogInv, LogType
<1>5. proceed[t] /\ copy[t].level = stmt[t].level
  BY <1>1 DEF LogInv, UnderWay
<1>6. UnderWay'
  BY <1>1, <1>3, <1>5, OneSaid
<1>7. OwnMessage'
  <2>1. ~mixed[t] => copy[t].text = stmt[t].text /\ m_data = t
    BY <1>1 DEF LogInv, OwnMessage
  <2>2. ~mixed[t] => ~Dangling
    BY <1>1, <2>1, ThreadsAssumption DEF Dangling
  <2>3. ~mixed[t] => l = LineIn(t)
    BY <1>2, <1>5, <2>1, <2>2 DEF LineIn
  <2> QED
    BY <1>1, <1>3, <1>4, <2>1, <2>3 DEF OwnMessage
<1> QED
  BY <1>1, <1>3, <1>4, <1>6, <1>7, WaitingKept DEF LogInv

\* A line is counted before its level's threshold is compared with the count; a flush
\* leaves none of the level waiting, since all its lines are in the stream that is flushed.
LEMMA LineCounted ==
  ASSUME LogInv, NEW t \in Threads, NEW level \in Levels, started, WriteLine(t, level), UNCHANGED <<lcvars, started>>
  PROVE  /\ BufferedCounted' /\ unflushed' \in [Levels -> Nat] /\ out' \in Seq(Range(out'))
         /\ out' # <<>> /\ out'[Len(out')].level = level /\ out'[Len(out')].line = line[t]
<1> DEFINE fs == IF unsafeGetConfig(typed.toFile, level) THEN unsafeGetConfig(typed.fileStream, level) ELSE null
           e == [line |-> line[t], level |-> level, stream |-> fs]
           n == Len(out) + 1
<1>1. /\ out' = Append(out, e)
      /\ \/ fs = null /\ UNCHANGED <<buffered, unflushed>>
         \/ /\ fs # null /\ FlushNeeded(level)
            /\ buffered' = {i \in buffered : out[i].stream # fs}
            /\ unflushed' = [unflushed EXCEPT ![level] = 0]
         \/ /\ fs # null /\ ~FlushNeeded(level)
            /\ buffered' = buffered \cup {n}
            /\ unflushed' = [unflushed EXCEPT ![level] = unflushed[level] + 1]
  BY DEF WriteLine
<1>2. fs # null => fs = unsafeGetConfig(typed.fileStream, level)
  OBVIOUS
<1>3. e.line = line[t] /\ e.level = level /\ e.stream = fs
  OBVIOUS
<1> HIDE DEF fs, e
<1>4. /\ out' \in Seq(Range(out')) /\ Len(out') = n /\ Len(out) \in Nat
      /\ \A i \in 1..Len(out) : out'[i] = out[i]
      /\ out'[n] = e
  BY <1>1, Grows DEF LogInv, LogType
<1>5. out' # <<>>
  BY <1>4, EmptySeq
<1>6. /\ buffered \subseteq 1..Len(out) /\ n \notin buffered
      /\ \A i \in buffered : out'[i] = out[i]
      /\ unflushed \in [Levels -> Nat]
      /\ \A i \in buffered : out[i].stream = unsafeGetConfig(typed.fileStream, out[i].level)
      /\ \A l \in Levels : /\ IsFiniteSet(WaitingOf(l)) /\ Cardinality(WaitingOf(l)) <= unflushed[l]
                           /\ Threshold(l) \in Nat => unflushed[l] = 0 \/ unflushed[l] < Threshold(l)
  <2>1. buffered \subseteq 1..Len(out)
    BY DEF LogInv, BufferedCounted
  <2>2. n \notin buffered
    BY <1>4, <2>1
  <2> QED
    BY <1>4, <2>1, <2>2 DEF LogInv, LogType, BufferedCounted
<1>7. logger' = logger
  BY DEF lcvars
<1>9. buffered \cup {n} \subseteq 1..Len(out')
  <2> SUFFICES ASSUME NEW i \in buffered \cup {n} PROVE i \in 1..Len(out')
    OBVIOUS
  <2>1. CASE i \in buffered
    <3>1. i \in 1..Len(out)
      BY <1>6, <2>1
    <3> QED
      BY <1>4, <3>1
  <2>2. CASE i = n
    BY <1>4, <2>2
  <2> QED
    BY <2>1, <2>2
<1>8. BufferedCounted' /\ unflushed' \in [Levels -> Nat]
  <2>1. CASE fs = null
    <3>1. buffered' = buffered /\ unflushed' = unflushed
      BY <1>1, <2>1
    <3>2. \A l \in Levels : WaitingOf(l)' = WaitingOf(l)
      BY <1>6, <3>1 DEF WaitingOf
    <3>3. buffered' \subseteq 1..Len(out')
      BY <1>9, <3>1
    <3>4. \A i \in buffered' : out'[i].stream = unsafeGetConfig(typed.fileStream, out'[i].level)
      BY <1>6, <3>1
    <3> QED
      BY <1>6, <1>7, <3>1, <3>2, <3>3, <3>4 DEF BufferedCounted, Threshold, typed
  <2>2. CASE fs # null /\ FlushNeeded(level)
    <3>1. /\ buffered' = {i \in buffered : out[i].stream # fs}
          /\ unflushed' = [unflushed EXCEPT ![level] = 0]
      BY <1>1, <2>2
    <3>2. /\ unflushed' \in [Levels -> Nat] /\ unflushed'[level] = 0
          /\ \A l \in Levels : l # level => unflushed'[l] = unflushed[l]
      BY <1>6, <3>1
    <3>3. WaitingOf(level)' = {}
      BY <1>2, <1>6, <2>2, <3>1 DEF WaitingOf
    <3>4. \A l \in Levels : WaitingOf(l)' \subseteq WaitingOf(l)
      BY <1>6, <3>1 DEF WaitingOf
    <3>5. IsFiniteSet({}) /\ Cardinality({}) = 0
      BY FS_EmptySet
    <3>6. ASSUME NEW l \in Levels
          PROVE  /\ IsFiniteSet(WaitingOf(l)') /\ Cardinality(WaitingOf(l)') <= unflushed'[l]
                 /\ Threshold(l) \in Nat => unflushed'[l] = 0 \/ unflushed'[l] < Threshold(l)
      <4>1. CASE l = level
        BY <3>2, <3>3, <3>5, <4>1
      <4>2. CASE l # level
        <5>1. IsFiniteSet(WaitingOf(l)') /\ Cardinality(WaitingOf(l)') <= Cardinality(WaitingOf(l))
          BY <1>6, <3>4, FS_Subset
        <5>2. Cardinality(WaitingOf(l)) \in Nat /\ Cardinality(WaitingOf(l)') \in Nat /\ unflushed[l] \in Nat
          BY <1>6, <5>1, FS_CardinalityType
        <5> QED
          BY <1>6, <3>2, <4>2, <5>1, <5>2
      <4> QED
        BY <4>1, <4>2
    <3>7. buffered' \subseteq 1..Len(out')
      BY <1>9, <3>1
    <3>8. \A i \in buffered' : out'[i].stream = unsafeGetConfig(typed.fileStream, out'[i].level)
      BY <1>6, <3>1
    <3> QED
      BY <1>7, <3>2, <3>6, <3>7, <3>8 DEF BufferedCounted, Threshold, typed
  <2>3. CASE fs # null /\ ~FlushNeeded(level)
    <3>1. /\ buffered' = buffered \cup {n}
          /\ unflushed' = [unflushed EXCEPT ![level] = unflushed[level] + 1]
      BY <1>1, <2>3
    <3>2. /\ unflushed' \in [Levels -> Nat] /\ unflushed'[level] = unflushed[level] + 1 /\ unflushed[level] \in Nat
          /\ \A l \in Levels : l # level => unflushed'[l] = unflushed[l]
      BY <1>6, <3>1
    <3>3. WaitingOf(level)' = WaitingOf(level) \cup {n} /\ n \notin WaitingOf(level)
      BY <1>3, <1>4, <1>6, <3>1 DEF WaitingOf
    <3>4. \A l \in Levels : l # level => WaitingOf(l)' = WaitingOf(l)
      BY <1>3, <1>4, <1>6, <3>1 DEF WaitingOf
    <3>5. Threshold(level) \in Nat => unflushed[level] + 1 < Threshold(level)
      BY <2>3, <3>2 DEF FlushNeeded, Threshold
    <3>6. ASSUME NEW l \in Levels
          PROVE  /\ IsFiniteSet(WaitingOf(l)') /\ Cardinality(WaitingOf(l)') <= unflushed'[l]
                 /\ Threshold(l) \in Nat => unflushed'[l] = 0 \/ unflushed'[l] < Threshold(l)
      <4>1. CASE l = level
        <5>1. /\ IsFiniteSet(WaitingOf(level)')
              /\ Cardinality(WaitingOf(level)') = Cardinality(WaitingOf(level)) + 1
          BY <1>6, <3>3, FS_AddElement
        <5>2. Cardinality(WaitingOf(level)) \in Nat
          BY <1>6, FS_CardinalityType
        <5>3. Cardinality(WaitingOf(level)') <= unflushed'[level]
          BY <1>6, <3>2, <5>1, <5>2
        <5> QED
          BY <3>2, <3>5, <4>1, <5>1, <5>3
      <4>2. CASE l # level
        BY <1>6, <3>2, <3>4, <4>2
      <4> QED
        BY <4>1, <4>2
    <3>7. buffered' \subseteq 1..Len(out')
      BY <1>9, <3>1
    <3>8. \A i \in buffered' : out'[i].stream = unsafeGetConfig(typed.fileStream, out'[i].level)
      BY <1>2, <1>3, <1>4, <1>6, <2>3, <3>1
    <3> QED
      BY <1>7, <3>2, <3>6, <3>7, <3>8 DEF BufferedCounted, Threshold, typed
  <2> QED
    BY <2>1, <2>2, <2>3
<1> QED
  BY <1>3, <1>4, <1>5, <1>8

\* The line is written.
LEMMA WriteStep ==
  ASSUME LogInv, NEW t \in Threads, Write(t)
  PROVE  LogInv'
<1>1. /\ at[t] = "write" /\ at' = [at EXCEPT ![t] = "clear"]
      /\ UNCHANGED <<lcvars, started, stmt, todo, proceed, copy, line, mixed, stream, m_data>>
  BY DEF Write, Goto
<1>2. PICK level : level \in (IF Dangling THEN Levels ELSE {copy[m_data].level}) /\ WriteLine(t, level)
  BY DEF Write
<1>3. level \in Levels
  <2>1. CASE Dangling
    BY <1>2, <2>1
  <2>2. CASE ~Dangling
    <3>1. m_data \in Threads /\ at[m_data] \in {"dispatch", "write"}
      BY <2>2 DEF Dangling, LogInv, LogType
    <3> QED
      BY <1>2, <2>2, <3>1 DEF LogInv, UnderWay
  <2> QED
    BY <2>1, <2>2
<1>4. /\ QuietBefore' /\ Alone' /\ NothingLeft'
      /\ at' \in [Threads -> {"none", "build", "copied", "dispatch", "write", "clear"}]
      /\ at'[t] = "clear" /\ \A u \in Threads : u # t => at'[u] = at[u] /\ (~mixed'[u] => at'[u] = "none")
      /\ LineIn(t)' = LineIn(t)
  BY <1>1, OneMoves
<1>5. /\ BufferedCounted' /\ unflushed' \in [Levels -> Nat] /\ out' \in Seq(Range(out'))
      /\ out' # <<>> /\ out'[Len(out')].level = level /\ out'[Len(out')].line = line[t]
  BY <1>1, <1>2, <1>3, OthersMixed, LineCounted
<1>6. LogType'
  BY <1>1, <1>4, <1>5 DEF LogInv, LogType
<1>7. proceed[t] /\ copy[t].level = stmt[t].level
  BY <1>1 DEF LogInv, UnderWay
<1>8. UnderWay'
  BY <1>1, <1>4, OneSaid
<1>9. OwnMessage'
  <2>1. ~mixed[t] => line[t] = LineIn(t) /\ m_data = t
    BY <1>1 DEF LogInv, OwnMessage
  <2>2. ~mixed[t] => ~Dangling
    BY <1>1, <2>1, ThreadsAssumption DEF Dangling
  <2>3. ~mixed[t] => level = stmt[t].level
    BY <1>2, <1>7, <2>1, <2>2
  <2> QED
    BY <1>1, <1>4, <1>5, <2>1, <2>3 DEF OwnMessage
<1> QED
  BY <1>4, <1>5, <1>6, <1>8, <1>9 DEF LogInv

\* The stream is cleared, and the statement is over.
LEMMA ClearStep ==
  ASSUME LogInv, NEW t \in Threads, Clear(t)
  PROVE  LogInv'
<1>1. /\ at[t] = "clear" /\ at' = [at EXCEPT ![t] = "none"] /\ stream' = <<>>
      /\ proceed' = [proceed EXCEPT ![t] = FALSE]
      /\ mixed' = [mixed EXCEPT ![t] = FALSE]
      /\ stmt' = [stmt EXCEPT ![t] = NoMessage]
      /\ copy' = [copy EXCEPT ![t] = NoMessage]
      /\ line' = [line EXCEPT ![t] = <<>>]
      /\ UNCHANGED <<lcvars, started, todo, m_data, unflushed, out, buffered>>
  BY DEF Clear, Over, Goto
<1>2. started /\ \A u \in Threads : u # t /\ at[u] # "none" => mixed[u]
  BY <1>1, OthersMixed
<1>3. /\ at'[t] = "none"
      /\ \A u \in Threads : u # t => /\ at'[u] = at[u] /\ stmt'[u] = stmt[u] /\ copy'[u] = copy[u]
                                     /\ proceed'[u] = proceed[u] /\ mixed'[u] = mixed[u]
  BY <1>1 DEF LogInv, LogType
<1>4. NoMessage \in Message /\ <<>> \in Seq(Pieces)
  BY EmptySeq DEF NoMessage, Message
<1>5. LogType'
  BY <1>1, <1>4 DEF LogInv, LogType
<1>6. QuietBefore' /\ Alone' /\ NothingLeft'
  BY <1>1, <1>2, <1>3 DEF QuietBefore, Alone, NothingLeft
<1>7. UnderWay'
  <2>1. logger' = logger
    BY <1>1 DEF lcvars
  <2>2. UnderWay
    BY DEF LogInv
  <2> HIDE DEF LogInv
  <2> QED
    BY <1>3, <2>1, <2>2 DEF UnderWay, typed
<1>8. OwnMessage'
  <2> SUFFICES ASSUME NEW u \in Threads, ~mixed'[u] PROVE at'[u] = "none"
    BY DEF OwnMessage
  <2> QED
    BY <1>2, <1>3
<1> QED
  BY <1>1, <1>5, <1>6, <1>7, <1>8, WaitingKept DEF LogInv

\* Every step.
LEMMA LogStep == LogInv /\ [LNext]_lvars => LogInv'
<1> SUFFICES ASSUME LogInv, [LNext]_lvars PROVE LogInv'
  OBVIOUS
<1>1. ASSUME NEW level \in Levels \cup {Global}, NEW type \in Types, NEW value \in ValuesOf(type),
             SetCall(level, type, value)
      PROVE  LogInv'
  <2>1. ~started /\ UNCHANGED wvars
    BY <1>1 DEF SetCall
  <2>2. UNCHANGED <<at, stmt, todo, proceed, copy, line, mixed, stream, m_data, unflushed, begun, out, buffered>>
    BY <2>1 DEF wvars
  <2>3. started' \in BOOLEAN
    BY <2>1 DEF wvars, LogInv, LogType
  <2> QED
    BY <2>1, <2>2, <2>3, SettingStep
<1>2. CASE Reconfigure
  <2>1. /\ ~started /\ started' \in BOOLEAN
        /\ UNCHANGED <<at, stmt, todo, proceed, copy, line, mixed, stream, m_data, unflushed, begun, out, buffered>>
    BY <1>2 DEF Reconfigure
  <2> QED
    BY <2>1, SettingStep
<1>3. ASSUME NEW t \in Threads,
             \/ \E level \in Levels, text \in Messages : Begin(t, level, text)
             \/ Piece(t) \/ Copy(t) \/ Handle(t) \/ Build(t) \/ Write(t) \/ Clear(t)
      PROVE  LogInv'
  BY <1>3, BeginStep, PieceStep, CopyStep, HandleStep, BuildStep, WriteStep, ClearStep
<1>4. CASE UNCHANGED lvars
  <2>1. UNCHANGED <<lcvars, wvars>>
    BY <1>4 DEF lvars
  <2>2. UNCHANGED <<lcvars, started, at, stmt, todo, proceed, copy, line, mixed, stream, m_data, unflushed, out, buffered>>
    BY <2>1 DEF wvars
  <2>3. LogType' /\ QuietBefore' /\ Alone' /\ NothingLeft'
    BY <2>2 DEF LogInv, LogType, QuietBefore, Alone, NothingLeft
  <2>4. UnderWay' /\ OwnMessage'
    BY <2>2 DEF LogInv, UnderWay, OwnMessage, LineIn, lcvars, typed
  <2> QED
    BY <2>2, <2>3, <2>4, WaitingKept DEF LogInv
<1> QED
  BY <1>1, <1>2, <1>3, <1>4 DEF LNext

\* Threads that log at once mix their messages, but leave nothing behind: a statement that
\* is alone has the stream, the callback's pointer and the line for itself.
THEOREM LogInvariant == LSpec => []LogInv
BY LogInit, LogStep, PTL DEF LSpec

-----------------------------------------------------------------------------
(***************************************************************************)
(* What a statement writes and when it is flushed, in terms of what the    *)
(* program asked for.                                                      *)
(***************************************************************************)

\* A level's format is one of the program's or a default one.
LEMMA FormatOf ==
  ASSUME SettingsInv, NEW l \in Levels
  PROVE  LastSet(l, "Format") \in FormatTexts
<1>1. l \in AllLevels /\ "Format" \in Types
  BY DEF AllLevels, Types
<1>2. AnswersCalls(calls, conf) /\ OwnValues
  BY DEF SettingsInv
<1>3. CASE Get(conf, l, "Format") # {}
  <2>1. Get(conf, l, "Format") = {LastSet(l, "Format")}
    BY <1>1, <1>2, <1>3, LastSetIs
  <2>2. \A i \in DOMAIN calls : calls[i].type = "Format" => calls[i].value \in Texts
    BY <1>2 DEF OwnValues, ValuesOf
  <2>3. \E i \in DOMAIN calls : calls[i].type = "Format" /\ Get(conf, l, "Format") = {calls[i].value}
    BY <1>1, <1>2, <1>3, OneOfTheCalls
  <2> QED
    BY <2>1, <2>2, <2>3 DEF FormatTexts
<1>4. CASE Get(conf, l, "Format") = {}
  <2>1. Get(Defaults, l, "Format") = {LastSet(l, "Format")}
    BY <1>1, <1>2, <1>4, LastSetIs
  <2>2. PICK i \in 1..10 : DefaultCalls[i].type = "Format" /\ Get(Defaults, l, "Format") = {DefaultCalls[i].value}
    BY <1>1, DefaultsLaw
  <2>3. LastSet(l, "Format") = DefaultCalls[i].value
    BY <2>1, <2>2
  <2>4. DefaultCalls[i] \in Range(DefaultCalls)
    <3>1. DOMAIN DefaultCalls = 1..10
      BY DefaultCallsAre, LenProperties
    <3> QED
      BY <3>1 DEF Range
  <2> QED
    BY <2>2, <2>3, <2>4 DEF FormatTexts, DefaultCalls
<1> QED
  BY <1>3, <1>4

\* A statement that no other overlaps writes its own line, once, if its level is enabled,
\* and none if not, however the statements before it were mixed with each other.  That a
\* line is built as the format means, for every message, is about the formats alone.
THEOREM LineTheorem == FormatsAsMeant => (LSpec => []LineAsMeant)
<1> SUFFICES ASSUME FormatsAsMeant PROVE LSpec => []LineAsMeant
  OBVIOUS
<1>1. LogInv /\ SettingsInv => LineAsMeant
  <2> SUFFICES ASSUME LogInv, SettingsInv, NEW t \in Threads, at[t] = "clear", ~mixed[t]
               PROVE  /\ GlobalFirst("Enabled") => proceed[t] = getBool(LastSet(stmt[t].level, "Enabled"))
                      /\ proceed[t] =>
                           /\ Last(out).level = stmt[t].level
                           /\ GlobalFirst("Format") =>
                                Last(out).line = LineOf(LastSet(stmt[t].level, "Format"), stmt[t].level, stmt[t].text)
    BY DEF LineAsMeant
  <2>1. /\ started /\ stmt[t].level \in Levels /\ stmt[t].text \in Messages
        /\ proceed[t] = unsafeGetConfig(typed.enabled, stmt[t].level)
    BY OthersMixed
  <2>2. proceed[t] => out[Len(out)].level = stmt[t].level /\ out[Len(out)].line = LineIn(t)
    BY DEF LogInv, OwnMessage
  <2>3. Last(out) = out[Len(out)]
    BY DEF Last
  <2>4. PICK l \in Levels, m \in Messages : l = stmt[t].level /\ m = stmt[t].text
    BY <2>1
  <2>5. /\ GlobalFirst("Enabled") => unsafeGetConfig(typed.enabled, l) = getBool(LastSet(l, "Enabled"))
        /\ GlobalFirst("Format") => unsafeGetConfig(typed.logFormat, l) = parseFromFormat(l, LastSet(l, "Format"))
    BY <2>1, LevelHas
  <2>6. build(parseFromFormat(l, LastSet(l, "Format")), m) = LineOf(LastSet(l, "Format"), l, m)
    BY FormatOf DEF FormatsAsMeant
  <2>7. GlobalFirst("Format") => LineIn(t) = LineOf(LastSet(l, "Format"), l, m)
    BY <2>4, <2>5, <2>6 DEF LineIn
  <2> QED
    BY <2>1, <2>2, <2>3, <2>4, <2>5, <2>7
<1> QED
  BY <1>1, LogInvariant, SettingsInit, SettingsStep, PTL DEF LSpec

\* A level has fewer lines waiting than its threshold, and none with threshold 0.
THEOREM FlushTheorem == LSpec => []FlushedInTime
<1>1. LogInv /\ SettingsInv => FlushedInTime
  <2> SUFFICES ASSUME LogInv, SettingsInv, NEW l \in Levels, started, GlobalFirst("LogFlushThreshold")
               PROVE  Cardinality(WaitingOf(l)) < Max({1, getULong(LastSet(l, "LogFlushThreshold"))})
    BY DEF FlushedInTime, WaitingOf
  <2>1. PICK k \in Nat : k = getULong(LastSet(l, "LogFlushThreshold")) /\ k = Threshold(l)
    BY LevelHas DEF getULong, Threshold
  <2>2. /\ Cardinality(WaitingOf(l)) \in Nat /\ Cardinality(WaitingOf(l)) <= unflushed[l] /\ unflushed[l] \in Nat
        /\ unflushed[l] = 0 \/ unflushed[l] < k
    BY <2>1, FS_CardinalityType DEF LogInv, LogType, BufferedCounted
  <2>3. Max({1, k}) = IF k > 1 THEN k ELSE 1
    <3>1. PICK m \in Nat : m = IF k > 1 THEN k ELSE 1
      OBVIOUS
    <3>2. m \in {1, k} /\ \A y \in {1, k} : m >= y
      BY <3>1
    <3>3. \A x \in {1, k} : (\A y \in {1, k} : x >= y) => x = m
      BY <3>1
    <3> QED
      BY <3>1, <3>2, <3>3 DEF Max
  <2> QED
    BY <2>1, <2>2, <2>3
<1> QED
  BY <1>1, LogInvariant, SettingsInit, SettingsStep, PTL DEF LSpec

(***************************************************************************)
(* The registered loggers.                                                 *)
(***************************************************************************)

\* Configurations as the program and the library make them.
UsedValues == {"f", "d"} \cup {e.value : e \in SingleValues \cup UNION {Range(c) : c \in Confs}}
Used == Objects(ConfTypes, UsedValues)

\* An object has the values w, and one that may be merged.
Has(c, w) == \A l \in AllLevels, t \in ConfTypes : Get(c, l, t) = {w[<<l, t>>]}
Led2(c) == \A t \in ConfTypes : Led(c, t)
WellMade(q) == q \in Used /\ \A t \in ConfTypes : Fronted(q, t) /\ Everywhere(q, t)

LEMMA UsedAre == SettingsUsed = Entries(ConfTypes, UsedValues)
  BY DEF SettingsUsed, Entries, UsedValues

\* What was asked for, with the entries of an object.
LEMMA AskedLaw ==
  ASSUME NEW before, NEW q \in Used, NEW l \in AllLevels, NEW t \in ConfTypes
  PROVE  {Asked(before, q)[<<l, t>>]} = IF Get(q, l, t) # {} THEN Get(q, l, t) ELSE {before[<<l, t>>]}
<1>1. /\ q \in Seq(Entries(ConfTypes, UsedValues)) /\ Distinct(q)
  BY DEF Used, Objects
<1>2. PICK E : E = Entries(ConfTypes, UsedValues)
  OBVIOUS
<1>3. \/ Place(q, l, t) = 0 /\ PlacesOf(q, l, t) = {}
      \/ Place(q, l, t) \in PlacesOf(q, l, t) /\ Place(q, l, t) # 0
  BY <1>1, <1>2, PlaceLaw
<1>4. PICK i : i = Place(q, l, t)
  OBVIOUS
<1>5. Asked(before, q)[<<l, t>>] = IF i = 0 THEN before[<<l, t>>] ELSE q[i].value
  BY <1>4 DEF Asked
<1>6. CASE i = 0 /\ PlacesOf(q, l, t) = {}
  BY <1>5, <1>6 DEF Get
<1>7. CASE i # 0 /\ i \in PlacesOf(q, l, t)
  <2>1. PlacesOf(q, l, t) = {i}
    BY <1>1, <1>7 DEF PlacesOf, Distinct
  <2>2. Get(q, l, t) = {q[i].value}
    BY <2>1 DEF Get
  <2> QED
    BY <1>5, <1>7, <2>2
<1> QED
  BY <1>3, <1>4, <1>6, <1>7

\* An object that is asked for all values has them.
LEMMA AskedOfAll ==
  ASSUME NEW before, NEW q \in Used, \A l \in AllLevels, t \in ConfTypes : Get(q, l, t) # {}
  PROVE  Has(q, Asked(before, q))
<1> SUFFICES ASSUME NEW l \in AllLevels, NEW t \in ConfTypes PROVE Get(q, l, t) = {Asked(before, q)[<<l, t>>]}
  BY DEF Has
<1>1. {Asked(before, q)[<<l, t>>]} = IF Get(q, l, t) # {} THEN Get(q, l, t) ELSE {before[<<l, t>>]}
  BY AskedLaw
<1> QED
  BY <1>1

\* Nothing is asked for by an empty object.
LEMMA EmptyObject == <<>> \in Used /\ WellMade(<<>>) /\ \A l, t : Get(<<>>, l, t) = {} /\ Led(<<>>, t)
<1>1. <<>> \in Used /\ (\A l, t : Get(<<>>, l, t) = {}) /\ \A t : Led(<<>>, t)
  BY DEF Used, Objects, Distinct, Get, PlacesOf, Led
<1> QED
  BY <1>1 DEF WellMade, Fronted, Everywhere

\* An object merged into one that has the values w.
LEMMA MergedHas ==
  ASSUME NEW c \in Used, NEW w, Has(c, w), NEW q, WellMade(q)
  PROVE  /\ setFromBase(c, q) \in Used /\ Has(setFromBase(c, q), Asked(w, q))
         /\ Led2(c) => Led2(setFromBase(c, q))
<1>1. PICK d : d = setFromBase(c, q)
  OBVIOUS
<1>2. q \in Used
  BY DEF WellMade
<1>3. ASSUME NEW l \in AllLevels, NEW t \in ConfTypes
      PROVE  d \in Used /\ Get(d, l, t) = {Asked(w, q)[<<l, t>>]} /\ (Led(c, t) => Led(d, t))
  <2>1. /\ d \in Used
        /\ Led(c, t) /\ (Get(c, Global, t) # {} \/ Led(q, t)) => Led(d, t)
        /\ Get(c, l, t) # {} => Get(d, l, t) # {}
        /\ Fronted(q, t) /\ Everywhere(q, t) => Get(d, l, t) = IF Get(q, l, t) # {} THEN Get(q, l, t) ELSE Get(c, l, t)
    <3>1. PICK T, V : T = ConfTypes /\ V = UsedValues
      OBVIOUS
    <3>2. c \in Objects(T, V) /\ q \in Objects(T, V) /\ t \in T
      BY <1>2, <3>1 DEF Used
    <3>3. /\ d \in Objects(T, V)
          /\ Led(c, t) /\ (Get(c, Global, t) # {} \/ Led(q, t)) => Led(d, t)
          /\ Get(c, l, t) # {} => Get(d, l, t) # {}
          /\ Fronted(q, t) /\ Everywhere(q, t) => Get(d, l, t) = IF Get(q, l, t) # {} THEN Get(q, l, t) ELSE Get(c, l, t)
      BY <1>1, <3>2, MergeAny
    <3> QED
      BY <3>1, <3>3 DEF Used
  <2>2. Get(c, l, t) = {w[<<l, t>>]} /\ Get(c, Global, t) = {w[<<Global, t>>]}
    BY DEF Has, AllLevels
  <2>3. Get(d, l, t) = IF Get(q, l, t) # {} THEN Get(q, l, t) ELSE Get(c, l, t)
    BY <2>1 DEF WellMade
  <2>4. {Asked(w, q)[<<l, t>>]} = IF Get(q, l, t) # {} THEN Get(q, l, t) ELSE {w[<<l, t>>]}
    BY <1>2, AskedLaw
  <2> QED
    BY <2>1, <2>2, <2>3, <2>4
<1>4. \E l \in AllLevels, t \in ConfTypes : TRUE
  BY DEF AllLevels, ConfTypes
<1>5. d \in Used
  BY <1>3, <1>4
<1>6. Has(d, Asked(w, q))
  BY <1>3 DEF Has
<1>7. ASSUME Led2(c) PROVE Led2(d)
  BY <1>3, <1>7 DEF Led2, AllLevels
<1> QED
  BY <1>1, <1>5, <1>6, <1>7

\* One that has all values may be merged, and so into nothing.
LEMMA CompleteMerges ==
  ASSUME NEW c \in Used, NEW w, Has(c, w), Led2(c)
  PROVE  WellMade(c) /\ setFromBase(<<>>, c) \in Used /\ Has(setFromBase(<<>>, c), w)
<1>1. WellMade(c)
  BY DEF WellMade, Has, Fronted, Everywhere, Led2
<1>2. PICK d : d = setFromBase(<<>>, c)
  OBVIOUS
<1>3. PICK none : none = <<>>
  OBVIOUS
<1>4. ASSUME NEW l \in AllLevels, NEW t \in ConfTypes PROVE d \in Used /\ Get(d, l, t) = {w[<<l, t>>]}
  <2>1. PICK T, V : T = ConfTypes /\ V = UsedValues
    OBVIOUS
  <2>2. none \in Objects(T, V) /\ c \in Objects(T, V) /\ t \in T /\ d = setFromBase(none, c)
    BY <1>2, <1>3, <2>1, EmptyObject DEF Used
  <2>3. /\ d \in Objects(T, V)
        /\ Fronted(c, t) /\ Everywhere(c, t) => Get(d, l, t) = IF Get(c, l, t) # {} THEN Get(c, l, t) ELSE Get(none, l, t)
    BY <2>2, MergeAny
  <2>4. Get(c, l, t) = {w[<<l, t>>]}
    BY DEF Has
  <2> QED
    BY <1>1, <2>1, <2>3, <2>4 DEF WellMade, Used
<1>5. \E l \in AllLevels, t \in ConfTypes : TRUE
  BY DEF AllLevels, ConfTypes
<1> QED
  BY <1>1, <1>2, <1>4, <1>5 DEF Has

\* A value set by itself.
LEMMA SetHas ==
  ASSUME NEW c \in Used, NEW w, Has(c, w), NEW l \in AllLevels, NEW t \in ConfTypes, NEW v \in UsedValues
  PROVE  set(c, l, t, v) \in Used /\ Has(set(c, l, t, v), Asked(w, set(<<>>, l, t, v)))
<1>1. PICK d, q, none : d = set(c, l, t, v) /\ none = <<>> /\ q = set(none, l, t, v)
  OBVIOUS
<1>2. PICK T, V : T = ConfTypes /\ V = UsedValues
  OBVIOUS
<1>3. c \in Objects(T, V) /\ none \in Objects(T, V) /\ t \in T /\ v \in V
  BY <1>1, <1>2, EmptyObject DEF Used
<1>4. d \in Objects(T, V) /\ Put(c, d, ForAll(l), t, v)
  BY <1>1, <1>3, SetLaw
<1>5. q \in Objects(T, V) /\ Put(none, q, ForAll(l), t, v)
  BY <1>1, <1>3, SetLaw
<1>6. d \in Used /\ q \in Used
  BY <1>2, <1>4, <1>5 DEF Used
<1>7. ASSUME NEW m \in AllLevels, NEW u \in ConfTypes PROVE Get(d, m, u) = {Asked(w, q)[<<m, u>>]}
  <2>1. /\ Get(d, m, u) = IF u = t /\ m \in ForAll(l) THEN {v} ELSE Get(c, m, u)
        /\ Get(q, m, u) = IF u = t /\ m \in ForAll(l) THEN {v} ELSE Get(none, m, u)
    BY <1>4, <1>5, Zenon DEF Put
  <2>2. Get(c, m, u) = {w[<<m, u>>]} /\ Get(none, m, u) = {}
    BY <1>1, EmptyObject DEF Has
  <2>3. {Asked(w, q)[<<m, u>>]} = IF Get(q, m, u) # {} THEN Get(q, m, u) ELSE {w[<<m, u>>]}
    BY <1>6, AskedLaw
  <2> QED
    BY <2>1, <2>2, <2>3
<1> QED
  BY <1>1, <1>6, <1>7 DEF Has

\* An object with one value may be merged.
LEMMA OneValueMerges ==
  ASSUME NEW l \in AllLevels, NEW t \in ConfTypes, NEW v \in UsedValues
  PROVE  WellMade(set(<<>>, l, t, v))
<1>1. PICK q, none : none = <<>> /\ q = set(none, l, t, v)
  OBVIOUS
<1>2. PICK T, V : T = ConfTypes /\ V = UsedValues
  OBVIOUS
<1>3. none \in Objects(T, V) /\ t \in T /\ v \in V /\ DOMAIN none = {}
  BY <1>1, <1>2, EmptyObject DEF Used
<1>4. /\ q \in Objects(T, V) /\ Put(none, q, ForAll(l), t, v)
      /\ l = Global => \A i \in DOMAIN q : i \in DOMAIN none \/ \E j \in 1..i : q[j].level = Global /\ q[j].type = t
  BY <1>1, <1>3, SetLaw
<1>5. ASSUME NEW u \in ConfTypes, Get(q, Global, u) # {}
      PROVE  Led(q, u) /\ \A m \in AllLevels : Get(q, m, u) # {}
  <2>1. \A m : Get(q, m, u) = IF u = t /\ m \in ForAll(l) THEN {v} ELSE Get(none, m, u)
    BY <1>4, Zenon DEF Put
  <2>2. \A m : Get(none, m, u) = {}
    BY <1>1, EmptyObject
  <2>3. u = t /\ Global \in ForAll(l)
    BY <1>5, <2>1, <2>2
  <2>4. l = Global
    BY <2>3 DEF ForAll
  <2>5. \A m \in AllLevels : Get(q, m, u) = {v}
    BY <2>1, <2>3, <2>4 DEF ForAll
  <2>6. \A i \in DOMAIN q : \E j \in 1..i : q[j].level = Global /\ q[j].type = t
    BY <1>3, <1>4, <2>4
  <2> QED
    BY <2>3, <2>5, <2>6 DEF Led
<1> QED
  BY <1>1, <1>2, <1>4, <1>5 DEF WellMade, Used, Fronted, Everywhere

\* The objects of the program may be.
LEMMA ConfsMerge ==
  ASSUME NEW q \in Confs
  PROVE  WellMade(q)
<1>1. q \in Seq(Entries(ConfTypes, UsedValues)) /\ GlobalLeads(q)
  BY ConfsAssumption, UsedAre
<1>2. Distinct(q)
  BY <1>1 DEF GlobalLeads, Distinct
<1>3. q \in Used
  BY <1>1, <1>2 DEF Used, Objects
<1>4. DOMAIN q = 1..Len(q) /\ Len(q) \in Nat
  BY <1>1, LenProperties
<1>5. ASSUME NEW t \in ConfTypes, Get(q, Global, t) # {}
      PROVE  Led(q, t) /\ \A l \in AllLevels : Get(q, l, t) # {}
  <2>1. PICK i \in DOMAIN q : q[i].level = Global /\ q[i].type = t
    BY <1>5 DEF Get, PlacesOf
  <2>2. \A l \in Levels : \E j \in DOMAIN q : j > i /\ q[j].level = l /\ q[j].type = t
    BY <1>1, <2>1 DEF GlobalLeads
  <2>3. \A l \in AllLevels : Get(q, l, t) # {}
    BY <1>5, <2>2 DEF Get, PlacesOf, AllLevels
  <2>4. ASSUME NEW k \in DOMAIN q, q[k].type = t, q[k].level \in AllLevels PROVE i <= k
    <3>1. CASE q[k].level = Global
      BY <1>2, <1>4, <2>1, <2>4, <3>1 DEF Distinct
    <3>2. CASE q[k].level \in Levels
      <4>1. PICK j \in DOMAIN q : j > i /\ q[j].level = q[k].level /\ q[j].type = t
        BY <2>2, <3>2
      <4>2. j = k
        BY <1>2, <2>4, <4>1 DEF Distinct
      <4> QED
        BY <1>4, <2>1, <4>1, <4>2
    <3> QED
      BY <2>4, <3>1, <3>2 DEF AllLevels
  <2>5. Led(q, t)
    <3> SUFFICES ASSUME NEW k \in DOMAIN q, q[k].type = t, q[k].level \in AllLevels
                 PROVE  \E j \in 1..k : q[j].type = t /\ q[j].level = Global
      BY DEF Led
    <3>1. i \in 1..k
      BY <1>4, <2>1, <2>4
    <3> QED
      BY <2>1, <3>1
  <2> QED
    BY <2>3, <2>5
<1> QED
  BY <1>3, <1>5 DEF WellMade, Fronted, Everywhere

\* Files that have a stream.
Numbers == {Cardinality(D) + 1 : D \in SUBSET UsedValues}
Opened == Maps(UsedValues, Numbers)
FilesIn(c, m) == \A i \in DOMAIN c : c[i].type = "Filename" => c[i].value \in DOMAIN m
Extends(m, n) == DOMAIN m \subseteq DOMAIN n /\ \A f \in DOMAIN m : n[f] = m[f]

OneMore(m, e) == IF e.type = "Filename" THEN Insert(m, e.value, Cardinality(DOMAIN m) + 1) ELSE m

LEMMA OneMoreLaw ==
  ASSUME NEW m \in Opened, NEW e \in SettingsUsed
  PROVE  /\ OneMore(m, e) \in Opened /\ Extends(m, OneMore(m, e))
         /\ e.type = "Filename" => e.value \in DOMAIN OneMore(m, e)
<1>1. e.value \in UsedValues
  BY UsedAre DEF Entries
<1>2. DOMAIN m \subseteq UsedValues
  BY MapsAre DEF Opened
<1>3. PICK n \in Numbers : n = Cardinality(DOMAIN m) + 1
  BY <1>2 DEF Numbers
<1>4. PICK f \in UsedValues : f = e.value
  BY <1>1
<1>5. Insert(m, f, n) \in Opened
  BY WithType, Zenon DEF Opened
<1>6. Extends(m, Insert(m, f, n)) /\ f \in DOMAIN Insert(m, f, n)
  BY DEF Extends, Insert, With
<1>7. Extends(m, m)
  BY DEF Extends
<1> QED
  BY <1>3, <1>4, <1>5, <1>6, <1>7 DEF OneMore

LEMMA ExtendsTwice ==
  ASSUME NEW a, NEW b, NEW c, Extends(a, b), Extends(b, c)
  PROVE  Extends(a, c)
  BY DEF Extends

\* The streams of a logger's files.
LEMMA StreamsSteps ==
  ASSUME NEW c \in Seq(SettingsUsed), NEW m \in Opened
  PROVE  \E f : /\ f[0] = m /\ Streams(c, m) = f[Len(c)]
                /\ \A i \in 1..Len(c) : f[i] = OneMore(f[i - 1], c[i])
<1> DEFINE iter == CHOOSE it : it = [s \in SUBSET DOMAIN c |->
              IF s = {} THEN m ELSE OneMore(it[s \ {Max(s)}], c[Max(s)])]
<1>1. Streams(c, m) = iter[DOMAIN c]
  BY DEF Streams, FoldLeft, MapThenFoldSet, OneMore
<1>2. PICK F : F = [p \in Opened \X SettingsUsed |-> OneMore(p[1], p[2])]
  OBVIOUS
<1>3. F \in [Opened \X SettingsUsed -> Opened]
  BY <1>2, OneMoreLaw
<1>4. PICK it : Folding(it, F, m, c, SettingsUsed, Opened)
  <2> HIDE DEF iter
  <2> QED
    BY <1>3, FoldDefined, Zenon
<1>5. it = [s \in SUBSET DOMAIN c |-> IF s = {} THEN m ELSE OneMore(it[s \ {Max(s)}], c[Max(s)])]
  BY <1>2, <1>4 DEF Folding
<1>6. iter = [s \in SUBSET DOMAIN c |-> IF s = {} THEN m ELSE OneMore(iter[s \ {Max(s)}], c[Max(s)])]
  BY <1>5
<1> HIDE DEF iter
<1>7. PICK f : Beginnings(f, iter, c)
  BY FoldSteps
<1>8. f[0] = m /\ f[Len(c)] = iter[DOMAIN c]
  BY <1>6, <1>7 DEF Beginnings
<1>9. ASSUME NEW i \in 1..Len(c) PROVE f[i] = OneMore(f[i - 1], c[i])
  <2>1. /\ f[i] = iter[1..i] /\ 1..i \in SUBSET DOMAIN c /\ 1..i # {}
        /\ f[i - 1] = iter[(1..i) \ {Max(1..i)}] /\ Max(1..i) = i
    BY <1>7 DEF Beginnings
  <2> QED
    BY <1>6, <2>1
<1> QED
  BY <1>1, <1>8, <1>9

LEMMA StreamsLaw ==
  ASSUME NEW c \in Seq(SettingsUsed), NEW m \in Opened
  PROVE  Streams(c, m) \in Opened /\ Extends(m, Streams(c, m)) /\ FilesIn(c, Streams(c, m))
<1>1. PICK f : /\ f[0] = m /\ Streams(c, m) = f[Len(c)]
               /\ \A i \in 1..Len(c) : f[i] = OneMore(f[i - 1], c[i])
  BY StreamsSteps
<1>2. Len(c) \in Nat /\ DOMAIN c = 1..Len(c) /\ \A i \in 1..Len(c) : c[i] \in SettingsUsed
  BY LenProperties, ElementOfSeq
<1> DEFINE Right(k) == /\ f[k] \in Opened /\ Extends(m, f[k])
                       /\ \A i \in 1..k : c[i].type = "Filename" => c[i].value \in DOMAIN f[k]
    S == {k \in 0..Len(c) : Right(k)}
<1>3. 0 \in S
  BY <1>1, <1>2 DEF Extends
<1>4. ASSUME NEW k \in 1..Len(c), k - 1 \in S PROVE k \in S
  <2>1. PICK a, b, e : a = f[k - 1] /\ b = f[k] /\ e = c[k]
    OBVIOUS
  <2>2. /\ a \in Opened /\ Extends(m, a)
        /\ \A i \in 1..(k - 1) : c[i].type = "Filename" => c[i].value \in DOMAIN a
    BY <1>4, <2>1
  <2>3. b = OneMore(a, e) /\ e \in SettingsUsed
    BY <1>1, <1>2, <2>1
  <2>4. b \in Opened /\ Extends(a, b) /\ (e.type = "Filename" => e.value \in DOMAIN b)
    BY <2>2, <2>3, OneMoreLaw
  <2>5. Extends(m, b)
    BY <2>2, <2>4, ExtendsTwice
  <2>6. ASSUME NEW i \in 1..k, c[i].type = "Filename" PROVE c[i].value \in DOMAIN b
    <3>1. i = k \/ i \in 1..(k - 1)
      BY <1>2
    <3> QED
      BY <2>1, <2>2, <2>4, <2>6, <3>1 DEF Extends
  <2> QED
    BY <1>2, <2>1, <2>4, <2>5, <2>6
<1> HIDE DEF S
<1>5. \A k \in 0..Len(c) : k \in S
  BY <1>2, <1>3, <1>4, InductionUpTo
<1>6. Len(c) \in S
  BY <1>2, <1>5
<1> QED
  BY <1>1, <1>2, <1>6 DEF S, FilesIn

\* The streams after several loggers were configured.
NextLogger(confs, m, p) == IF p \in DOMAIN confs THEN Streams(confs[p], m) ELSE m
AllStreams(confs, m, n) ==
  FoldLeft(LAMBDA d, p : IF p \in DOMAIN confs THEN Streams(confs[p], d) ELSE d, m, [p \in 1..n |-> p])

LEMMA AllStreamsSteps ==
  ASSUME NEW n \in Nat, NEW confs, \A p \in DOMAIN confs : confs[p] \in Seq(SettingsUsed), NEW m \in Opened
  PROVE  \E f : /\ f[0] = m /\ AllStreams(confs, m, n) = f[n]
                /\ \A i \in 1..n : f[i] = NextLogger(confs, f[i - 1], i)
<1>1. PICK c : c = [p \in 1..n |-> p]
  OBVIOUS
<1>2. c \in Seq(1..n) /\ Len(c) = n /\ DOMAIN c = 1..n /\ \A i \in 1..n : c[i] = i
  BY <1>1
<1> DEFINE iter == CHOOSE it : it = [s \in SUBSET DOMAIN c |->
              IF s = {} THEN m ELSE NextLogger(confs, it[s \ {Max(s)}], c[Max(s)])]
<1>3. AllStreams(confs, m, n) = iter[DOMAIN c]
  BY <1>1 DEF AllStreams, FoldLeft, MapThenFoldSet, NextLogger
<1>4. PICK F : F = [p \in Opened \X (1..n) |-> NextLogger(confs, p[1], p[2])]
  OBVIOUS
<1>5. F \in [Opened \X (1..n) -> Opened]
  <2>1. ASSUME NEW d \in Opened, NEW p \in 1..n PROVE NextLogger(confs, d, p) \in Opened
    BY StreamsLaw DEF NextLogger
  <2>2. \A x \in Opened \X (1..n) : x[1] \in Opened /\ x[2] \in 1..n
    OBVIOUS
  <2>3. \A x \in Opened \X (1..n) : NextLogger(confs, x[1], x[2]) \in Opened
    BY <2>1, <2>2
  <2> QED
    BY <1>4, <2>3
<1>6. PICK it : Folding(it, F, m, c, 1..n, Opened)
  <2> HIDE DEF iter
  <2> QED
    BY <1>2, <1>5, FoldDefined, Zenon
<1>7. it = [s \in SUBSET DOMAIN c |-> IF s = {} THEN m ELSE NextLogger(confs, it[s \ {Max(s)}], c[Max(s)])]
  BY <1>4, <1>6 DEF Folding
<1>8. iter = [s \in SUBSET DOMAIN c |-> IF s = {} THEN m ELSE NextLogger(confs, iter[s \ {Max(s)}], c[Max(s)])]
  BY <1>7
<1> HIDE DEF iter
<1>9. PICK f : Beginnings(f, iter, c)
  BY <1>2, FoldSteps
<1>10. f[0] = m /\ f[n] = iter[DOMAIN c]
  BY <1>2, <1>8, <1>9 DEF Beginnings
<1>11. ASSUME NEW i \in 1..n PROVE f[i] = NextLogger(confs, f[i - 1], i)
  <2>1. /\ f[i] = iter[1..i] /\ 1..i \in SUBSET DOMAIN c /\ 1..i # {}
        /\ f[i - 1] = iter[(1..i) \ {Max(1..i)}] /\ Max(1..i) = i
    BY <1>2, <1>9 DEF Beginnings
  <2>2. iter[1..i] = NextLogger(confs, iter[(1..i) \ {Max(1..i)}], c[Max(1..i)])
    BY <1>8, <2>1
  <2> QED
    BY <1>2, <2>1, <2>2
<1> QED
  BY <1>3, <1>10, <1>11

LEMMA AllStreamsLaw ==
  ASSUME NEW n \in Nat, NEW confs, DOMAIN confs \subseteq 1..n,
         \A p \in DOMAIN confs : confs[p] \in Seq(SettingsUsed), NEW m \in Opened
  PROVE  /\ AllStreams(confs, m, n) \in Opened /\ Extends(m, AllStreams(confs, m, n))
         /\ \A p \in DOMAIN confs : FilesIn(confs[p], AllStreams(confs, m, n))
<1>1. PICK f : /\ f[0] = m /\ AllStreams(confs, m, n) = f[n]
               /\ \A i \in 1..n : f[i] = NextLogger(confs, f[i - 1], i)
  BY AllStreamsSteps
<1> DEFINE Right(k) == /\ f[k] \in Opened /\ Extends(m, f[k])
                       /\ \A p \in DOMAIN confs : p <= k => FilesIn(confs[p], f[k])
    S == {k \in 0..n : Right(k)}
<1>2. 0 \in S
  <2>1. \A p \in DOMAIN confs : ~(p <= 0)
    OBVIOUS
  <2> QED
    BY <1>1, <2>1 DEF Extends
<1>3. ASSUME NEW k \in 1..n, k - 1 \in S PROVE k \in S
  <2>1. PICK a, b : a = f[k - 1] /\ b = f[k]
    OBVIOUS
  <2>2. /\ a \in Opened /\ Extends(m, a) /\ \A p \in DOMAIN confs : p <= k - 1 => FilesIn(confs[p], a)
    BY <1>3, <2>1
  <2>3. b = NextLogger(confs, a, k)
    BY <1>1, <2>1
  <2>4. b \in Opened /\ Extends(a, b) /\ (k \in DOMAIN confs => FilesIn(confs[k], b))
    <3>1. CASE k \in DOMAIN confs
      BY <2>2, <2>3, <3>1, StreamsLaw DEF NextLogger
    <3>2. CASE k \notin DOMAIN confs
      BY <2>2, <2>3, <3>2 DEF NextLogger, Extends
    <3> QED
      BY <3>1, <3>2
  <2>5. Extends(m, b)
    BY <2>2, <2>4, ExtendsTwice
  <2>6. ASSUME NEW p \in DOMAIN confs, p <= k PROVE FilesIn(confs[p], b)
    <3>1. p = k \/ p <= k - 1
      BY <2>6
    <3> QED
      BY <2>2, <2>4, <3>1 DEF FilesIn, Extends
  <2> QED
    BY <2>1, <2>4, <2>5, <2>6
<1> HIDE DEF S
<1>4. \A k \in 0..n : k \in S
  BY <1>2, <1>3, InductionUpTo
<1>5. n \in S
  BY <1>4
<1> QED
  BY <1>1, <1>5 DEF S

\* A logger's streams are those of its files.
FileOf(c, l) == c[Place(c, l, "Filename")].value
StreamsKnown(o, m) == \A l \in AllLevels : FileOf(o.conf, l) \in DOMAIN m /\ o.fileStream[l] = m[FileOf(o.conf, l)]

RegistryType ==
  /\ made \in Nat
  /\ \A id \in DOMAIN list : list[id] \in 1..made
  /\ \A i, j \in DOMAIN list : list[i] = list[j] => i = j
  /\ DOMAIN list \subseteq LoggerIds \cup {kDefaultLoggerId}
  /\ DOMAIN objects = {list[id] : id \in DOMAIN list}
  /\ DOMAIN wanted = DOMAIN list \cup {nullptr}

DefaultsAsAsked == defaults \in Used /\ Has(defaults, wanted[nullptr]) /\ Led2(defaults)
LoggersConfigured ==
  \A id \in DOMAIN list : objects[list[id]].conf \in Used /\ Has(objects[list[id]].conf, wanted[id])
AllStreamsKnown == files \in Opened /\ \A p \in DOMAIN objects : StreamsKnown(objects[p], files)
PointersListed == \A q \in pointers : q[1] \in DOMAIN list /\ list[q[1]] = q[2]

\* The invariant of the registry.
RegistryInv == RegistryType /\ DefaultsAsAsked /\ LoggersConfigured /\ AllStreamsKnown /\ PointersListed

\* Where an object has a value for a level and a type.
LEMMA PlaceThere ==
  ASSUME NEW c \in Used, NEW w, Has(c, w), NEW l \in AllLevels, NEW t \in ConfTypes
  PROVE  Place(c, l, t) \in DOMAIN c /\ c[Place(c, l, t)].type = t /\ c[Place(c, l, t)].value = w[<<l, t>>]
<1>1. Get(c, l, t) = {w[<<l, t>>]}
  BY DEF Has
<1>2. PICK E : E = Entries(ConfTypes, UsedValues)
  OBVIOUS
<1>3. c \in Seq(E)
  BY <1>2 DEF Used, Objects
<1>4. \/ Place(c, l, t) = 0 /\ PlacesOf(c, l, t) = {}
      \/ Place(c, l, t) \in PlacesOf(c, l, t) /\ Place(c, l, t) # 0
  BY <1>3, PlaceLaw
<1>5. Place(c, l, t) \in PlacesOf(c, l, t)
  BY <1>1, <1>4 DEF Get
<1>6. c[Place(c, l, t)].value \in Get(c, l, t)
  BY <1>5 DEF Get
<1> QED
  BY <1>1, <1>5, <1>6 DEF PlacesOf

\* A Logger that is made when its files are open.
LEMMA LoggerOfLaw ==
  ASSUME NEW c \in Used, NEW w, Has(c, w), NEW m \in Opened, FilesIn(c, m)
  PROVE  LoggerOf(c, m).conf = c /\ StreamsKnown(LoggerOf(c, m), m)
<1>1. LoggerOf(c, m).conf = c /\ \A l \in AllLevels : LoggerOf(c, m).fileStream[l] = Streams(c, m)[FileOf(c, l)]
  BY DEF LoggerOf, FileOf
<1>2. c \in Seq(SettingsUsed)
  BY UsedAre DEF Used, Objects
<1>3. Extends(m, Streams(c, m))
  BY <1>2, StreamsLaw
<1>4. ASSUME NEW l \in AllLevels PROVE FileOf(c, l) \in DOMAIN m
  <2>1. Place(c, l, "Filename") \in DOMAIN c /\ c[Place(c, l, "Filename")].type = "Filename"
    BY PlaceThere DEF ConfTypes
  <2> QED
    BY <2>1 DEF FilesIn, FileOf
<1> QED
  BY <1>1, <1>3, <1>4 DEF StreamsKnown, Extends

\* More files are open.
LEMMA KnownStays ==
  ASSUME NEW o, NEW m, NEW n, StreamsKnown(o, m), Extends(m, n)
  PROVE  StreamsKnown(o, n)
  BY DEF StreamsKnown, Extends

LEMMA FilesStay ==
  ASSUME NEW c, NEW m, NEW n, FilesIn(c, m), Extends(m, n)
  PROVE  FilesIn(c, n)
  BY DEF FilesIn, Extends

(***************************************************************************)
(* Some Loggers get new configurations: confs[p] for p.                    *)
(***************************************************************************)
LEMMA ConfigureAllLaw ==
  ASSUME RegistryInv, NEW ids, ids \subseteq DOMAIN list,
         NEW confs, DOMAIN confs = PointersTo(ids), ConfigureAll(confs),
         \A id \in ids : confs[list[id]] \in Used /\ \E w : Has(confs[list[id]], w)
  PROVE  /\ AllStreamsKnown' /\ DOMAIN objects' = DOMAIN objects
         /\ \A id \in DOMAIN list :
              objects'[list[id]].conf = IF id \in ids THEN confs[list[id]] ELSE objects[list[id]].conf
<1> USE DEF RegistryInv
<1>1. made \in Nat /\ files \in Opened
  BY DEF RegistryType, AllStreamsKnown
<1>2. DOMAIN confs = {list[id] : id \in ids} /\ DOMAIN confs \subseteq 1..made /\ DOMAIN confs \subseteq DOMAIN objects
  BY DEF PointersTo, RegistryType
<1>3. ASSUME NEW p \in DOMAIN confs
      PROVE  confs[p] \in Used /\ (\E w : Has(confs[p], w)) /\ confs[p] \in Seq(SettingsUsed)
  <2>1. PICK id \in ids : p = list[id]
    BY <1>2
  <2> QED
    BY <2>1, UsedAre DEF Used, Objects
<1>4. PICK m : m = AllStreams(confs, files, made)
  OBVIOUS
<1>5. m \in Opened /\ Extends(files, m) /\ \A p \in DOMAIN confs : FilesIn(confs[p], m)
  BY <1>1, <1>2, <1>3, <1>4, AllStreamsLaw
<1>6. files' = m /\ objects' = [p \in DOMAIN objects |-> IF p \in DOMAIN confs THEN LoggerOf(confs[p], m) ELSE objects[p]]
  BY <1>4 DEF ConfigureAll, AllStreams
<1>7. ASSUME NEW p \in DOMAIN objects PROVE StreamsKnown(objects'[p], m)
  <2>1. CASE p \in DOMAIN confs
    <3>1. PICK w : Has(confs[p], w)
      BY <1>3, <2>1
    <3>2. StreamsKnown(LoggerOf(confs[p], m), m)
      BY <1>3, <1>5, <2>1, <3>1, LoggerOfLaw
    <3> QED
      BY <1>6, <2>1, <3>2
  <2>2. CASE p \notin DOMAIN confs
    <3>1. StreamsKnown(objects[p], files)
      BY DEF AllStreamsKnown
    <3>2. StreamsKnown(objects[p], m)
      BY <1>5, <3>1, KnownStays
    <3> QED
      BY <1>6, <2>2, <3>2
  <2> QED
    BY <2>1, <2>2
<1>8. AllStreamsKnown'
  BY <1>5, <1>6, <1>7 DEF AllStreamsKnown
<1>9. ASSUME NEW id \in DOMAIN list
      PROVE  objects'[list[id]].conf = IF id \in ids THEN confs[list[id]] ELSE objects[list[id]].conf
  <2>1. list[id] \in DOMAIN objects
    BY DEF RegistryType
  <2>2. CASE id \in ids
    <3>1. list[id] \in DOMAIN confs
      BY <1>2, <2>2
    <3>2. objects'[list[id]] = LoggerOf(confs[list[id]], m)
      BY <1>6, <2>1, <3>1
    <3> QED
      BY <2>2, <3>2 DEF LoggerOf
  <2>3. CASE id \notin ids
    <3>1. list[id] \notin DOMAIN confs
      BY <1>2, <2>3 DEF RegistryType
    <3> QED
      BY <1>6, <2>1, <2>3, <3>1
  <2> QED
    BY <2>2, <2>3
<1> QED
  BY <1>6, <1>8, <1>9

\* Loggers are given the configurations they were asked to have.
LEMMA ReconfiguredStep ==
  ASSUME RegistryInv, NEW ids, ids \subseteq DOMAIN list,
         NEW confs, DOMAIN confs = PointersTo(ids), ConfigureAll(confs), UNCHANGED <<list, made>>,
         DOMAIN wanted' = DOMAIN wanted, PointersListed', DefaultsAsAsked',
         \A id \in ids : confs[list[id]] \in Used /\ Has(confs[list[id]], wanted'[id]),
         \A id \in DOMAIN list \ ids : wanted'[id] = wanted[id]
  PROVE  RegistryInv'
<1> USE DEF RegistryInv
<1>1. /\ AllStreamsKnown' /\ DOMAIN objects' = DOMAIN objects
      /\ \A id \in DOMAIN list :
           objects'[list[id]].conf = IF id \in ids THEN confs[list[id]] ELSE objects[list[id]].conf
  BY ConfigureAllLaw
<1>2. RegistryType'
  BY <1>1 DEF RegistryType
<1>3. LoggersConfigured'
  BY <1>1 DEF LoggersConfigured
<1> QED
  BY <1>1, <1>2, <1>3

\* Nothing more is asked for.
LEMMA NothingMore ==
  ASSUME NEW c \in Used, NEW w, Has(c, w)
  PROVE  Has(c, Asked(w, <<>>))
<1> SUFFICES ASSUME NEW l \in AllLevels, NEW t \in ConfTypes PROVE Get(c, l, t) = {Asked(w, <<>>)[<<l, t>>]}
  BY DEF Has
<1>1. PICK none : none = <<>>
  OBVIOUS
<1>2. none \in Used /\ Get(none, l, t) = {}
  BY <1>1, EmptyObject
<1>3. {Asked(w, none)[<<l, t>>]} = IF Get(none, l, t) # {} THEN Get(none, l, t) ELSE {w[<<l, t>>]}
  BY <1>2, AskedLaw
<1> QED
  BY <1>1, <1>2, <1>3 DEF Has

\* Logger::configure with an object of the program.
LEMMA ConfiguredHas ==
  ASSUME NEW c \in Used, NEW w, Has(c, w), NEW q, WellMade(q)
  PROVE  Configured(c, q, FALSE) \in Used /\ Has(Configured(c, q, FALSE), Asked(w, q))
<1>1. PICK l \in AllLevels, t \in ConfTypes : TRUE
  BY DEF AllLevels, ConfTypes
<1>2. Get(c, l, t) # {}
  BY DEF Has
<1>3. c # <<>>
  BY <1>2, EmptyObject
<1>4. Configured(c, q, FALSE) = setFromBase(c, q)
  BY <1>3 DEF Configured, Differs
<1> QED
  BY <1>4, MergedHas

\* A Logger that is made and perhaps configured.
LEMMA FirstHas ==
  ASSUME NEW c \in Used, NEW w, Has(c, w), Led2(c), NEW q, WellMade(q), NEW then,
         then = IF q = <<>> THEN setFromBase(<<>>, c) ELSE Configured(setFromBase(<<>>, c), q, FALSE)
  PROVE  setFromBase(<<>>, c) \in Used /\ then \in Used /\ Has(then, Asked(w, q))
<1>1. PICK first : first = setFromBase(<<>>, c)
  OBVIOUS
<1>2. first \in Used /\ Has(first, w)
  BY <1>1, CompleteMerges
<1>3. CASE q = <<>>
  BY <1>1, <1>2, <1>3, NothingMore
<1>4. CASE q # <<>>
  BY <1>1, <1>2, <1>4, ConfiguredHas
<1> QED
  BY <1>1, <1>2, <1>3, <1>4

\* getLogger, or reconfigureLogger, for an id that has no Logger.
LEMMA MissingStep ==
  ASSUME RegistryInv, NEW id \in LoggerIds \cup {kDefaultLoggerId}, Missing(id),
         NEW q, WellMade(q), GetAndConfigure(id, q), UNCHANGED defaults
  PROVE  RegistryInv'
<1> USE DEF RegistryInv
<1>1. PICK p, first, then, w : /\ p = made + 1 /\ first = setFromBase(<<>>, defaults) /\ w = Asked(wanted[nullptr], q)
                               /\ then = IF q = <<>> THEN first ELSE Configured(first, q, FALSE)
  OBVIOUS
<1>2. PICK open : open = Streams(then, Streams(first, files))
  OBVIOUS
<1>3. id \notin DOMAIN list /\ id # nullptr
  BY IdsAssumption DEF Missing
<1>4. /\ made' = p /\ list' = With(list, id, p) /\ files' = open
      /\ objects' = With(objects, p, LoggerOf(then, open))
      /\ pointers' = pointers \cup {<<id, p>>} /\ wanted' = With(wanted, id, w)
  BY <1>1, <1>2, <1>3 DEF GetAndConfigure, ObjectsWithout, Missing
<1>5. first \in Used /\ then \in Used /\ Has(then, w)
  <2>1. defaults \in Used /\ Has(defaults, wanted[nullptr]) /\ Led2(defaults)
    BY DEF DefaultsAsAsked
  <2> QED
    BY <1>1, <2>1, FirstHas
<1>6. open \in Opened /\ Extends(files, open) /\ FilesIn(then, open)
  <2>1. first \in Seq(SettingsUsed) /\ then \in Seq(SettingsUsed)
    BY <1>5, UsedAre DEF Used, Objects
  <2>2. PICK m : m = Streams(first, files)
    OBVIOUS
  <2>3. m \in Opened /\ Extends(files, m)
    BY <2>1, <2>2, StreamsLaw DEF AllStreamsKnown
  <2>4. open \in Opened /\ Extends(m, open) /\ FilesIn(then, open)
    BY <1>2, <2>1, <2>2, <2>3, StreamsLaw
  <2> QED
    BY <2>3, <2>4, ExtendsTwice
<1>7. made \in Nat /\ p \notin DOMAIN objects /\ \A i \in DOMAIN list : list[i] # p
  BY <1>1 DEF RegistryType
<1>8. /\ DOMAIN list' = DOMAIN list \cup {id} /\ list'[id] = p /\ \A i \in DOMAIN list : list'[i] = list[i]
      /\ DOMAIN wanted' = DOMAIN wanted \cup {id} /\ wanted'[id] = w /\ \A i \in DOMAIN wanted : i # id => wanted'[i] = wanted[i]
      /\ DOMAIN objects' = DOMAIN objects \cup {p} /\ objects'[p] = LoggerOf(then, open)
      /\ \A r \in DOMAIN objects : objects'[r] = objects[r]
  BY <1>3, <1>4, <1>7 DEF With
<1>9. RegistryType'
  <2>1. made' \in Nat /\ \A i \in DOMAIN list' : list'[i] \in 1..made'
    BY <1>1, <1>4, <1>7, <1>8 DEF RegistryType
  <2>2. \A i, j \in DOMAIN list' : list'[i] = list'[j] => i = j
    BY <1>7, <1>8 DEF RegistryType
  <2>3. DOMAIN list' \subseteq LoggerIds \cup {kDefaultLoggerId} /\ DOMAIN wanted' = DOMAIN list' \cup {nullptr}
    BY <1>8 DEF RegistryType
  <2>4. DOMAIN objects' = {list'[i] : i \in DOMAIN list'}
    BY <1>8 DEF RegistryType
  <2> QED
    BY <2>1, <2>2, <2>3, <2>4 DEF RegistryType
<1>10. DefaultsAsAsked'
  BY <1>3, <1>8 DEF DefaultsAsAsked, RegistryType
<1>11. LoggerOf(then, open).conf = then /\ StreamsKnown(LoggerOf(then, open), open)
  BY <1>5, <1>6, LoggerOfLaw
<1>12. LoggersConfigured'
  <2> SUFFICES ASSUME NEW i \in DOMAIN list'
               PROVE  objects'[list'[i]].conf \in Used /\ Has(objects'[list'[i]].conf, wanted'[i])
    BY DEF LoggersConfigured
  <2>1. CASE i = id
    BY <1>5, <1>8, <1>11, <2>1
  <2>2. CASE i # id
    <3>1. i \in DOMAIN list /\ i \in DOMAIN wanted /\ list[i] \in DOMAIN objects
      BY <1>8, <2>2 DEF RegistryType
    <3> QED
      BY <1>8, <2>2, <3>1 DEF LoggersConfigured
  <2> QED
    BY <2>1, <2>2
<1>13. AllStreamsKnown'
  <2> SUFFICES ASSUME NEW r \in DOMAIN objects' PROVE StreamsKnown(objects'[r], open)
    BY <1>4, <1>6 DEF AllStreamsKnown
  <2>1. CASE r = p
    BY <1>8, <1>11, <2>1
  <2>2. CASE r # p
    <3>1. r \in DOMAIN objects /\ StreamsKnown(objects[r], files)
      BY <1>8, <2>2 DEF AllStreamsKnown
    <3>2. StreamsKnown(objects[r], open)
      BY <1>6, <3>1, KnownStays
    <3> QED
      BY <1>8, <3>1, <3>2
  <2> QED
    BY <2>1, <2>2
<1>14. PointersListed'
  <2> SUFFICES ASSUME NEW r \in pointers' PROVE r[1] \in DOMAIN list' /\ list'[r[1]] = r[2]
    BY DEF PointersListed
  <2>1. r \in pointers \/ r = <<id, p>>
    BY <1>4
  <2> QED
    BY <1>8, <2>1 DEF PointersListed
<1> QED
  BY <1>9, <1>10, <1>12, <1>13, <1>14

\* The same for one that has.
LEMMA FoundStep ==
  ASSUME RegistryInv, NEW id \in LoggerIds \cup {kDefaultLoggerId}, ~Missing(id),
         NEW q, WellMade(q), GetAndConfigure(id, q), UNCHANGED defaults
  PROVE  RegistryInv'
<1> USE DEF RegistryInv
<1>1. id \in DOMAIN list /\ id \in DOMAIN wanted /\ id # nullptr
  BY IdsAssumption DEF Missing, RegistryType
<1>2. PICK w : w = Asked(wanted[id], q)
  OBVIOUS
<1>3. /\ IF q = <<>> THEN UNCHANGED <<files, objects>> ELSE ConfigureAll(Merged({id}, q))
      /\ pointers' = pointers \cup {<<id, list[id]>>}
      /\ wanted' = [wanted EXCEPT ![id] = w]
      /\ UNCHANGED <<list, made>>
  BY <1>2 DEF GetAndConfigure
<1>4. DOMAIN wanted' = DOMAIN wanted /\ wanted'[id] = w /\ \A i \in DOMAIN wanted : i # id => wanted'[i] = wanted[i]
  BY <1>1, <1>3
<1>5. PointersListed'
  <2> SUFFICES ASSUME NEW r \in pointers' PROVE r[1] \in DOMAIN list' /\ list'[r[1]] = r[2]
    BY DEF PointersListed
  <2>1. r \in pointers \/ r = <<id, list[id]>>
    BY <1>3
  <2> QED
    BY <1>1, <1>3, <2>1 DEF PointersListed
<1>6. DefaultsAsAsked'
  BY <1>1, <1>4 DEF DefaultsAsAsked, RegistryType
<1>7. PICK c : c = objects[list[id]].conf
  OBVIOUS
<1>8. c \in Used /\ Has(c, wanted[id])
  BY <1>1, <1>7 DEF LoggersConfigured
<1>9. CASE q = <<>>
  <2>1. Has(c, w)
    BY <1>2, <1>8, <1>9, NothingMore
  <2>2. UNCHANGED <<list, made, files, objects>>
    BY <1>3, <1>9
  <2>3. RegistryType' /\ AllStreamsKnown'
    BY <1>4, <2>2 DEF RegistryType, AllStreamsKnown
  <2>4. LoggersConfigured'
    <3> SUFFICES ASSUME NEW i \in DOMAIN list
                 PROVE  objects[list[i]].conf \in Used /\ Has(objects[list[i]].conf, wanted'[i])
      BY <2>2 DEF LoggersConfigured
    <3>1. i \in DOMAIN wanted
      BY DEF RegistryType
    <3> QED
      BY <1>4, <1>7, <1>8, <2>1, <3>1 DEF LoggersConfigured
  <2> QED
    BY <1>5, <1>6, <2>3, <2>4
<1>10. CASE q # <<>>
  <2>1. PICK confs : confs = Merged({id}, q)
    OBVIOUS
  <2>2. DOMAIN confs = PointersTo({id}) /\ list[id] \in DOMAIN confs /\ confs[list[id]] = Configured(c, q, FALSE)
    BY <1>7, <2>1 DEF Merged, PointersTo
  <2>3. confs[list[id]] \in Used /\ Has(confs[list[id]], w)
    BY <1>2, <1>8, <2>2, ConfiguredHas
  <2>4. ConfigureAll(confs)
    BY <1>3, <1>10, <2>1
  <2>5. PICK ids : ids = {id}
    OBVIOUS
  <2>6. /\ ids \subseteq DOMAIN list /\ DOMAIN confs = PointersTo(ids)
        /\ \A i \in ids : confs[list[i]] \in Used /\ Has(confs[list[i]], wanted'[i])
        /\ \A i \in DOMAIN list \ ids : wanted'[i] = wanted[i]
    BY <1>1, <1>4, <2>2, <2>3, <2>5 DEF RegistryType
  <2>7. UNCHANGED <<list, made>>
    BY <1>3
  <2> QED
    BY <1>4, <1>5, <1>6, <2>4, <2>6, <2>7, ReconfiguredStep
<1> QED
  BY <1>9, <1>10

\* unregisterLogger
LEMMA UnregisterStep ==
  ASSUME RegistryInv, NEW id, unregisterLogger(id)
  PROVE  RegistryInv'
<1> USE DEF RegistryInv
<1>1. /\ id \in DOMAIN list
      /\ objects' = [p \in DOMAIN objects \ {list[id]} |-> objects[p]]
      /\ list' = [i \in DOMAIN list \ {id} |-> list[i]]
      /\ pointers' = {q \in pointers : q[1] # id}
      /\ wanted' = [i \in DOMAIN wanted \ {id} |-> wanted[i]]
      /\ UNCHANGED <<defaults, made, files>>
  BY DEF unregisterLogger, ObjectsWithout
<1>2. id # nullptr
  BY <1>1, IdsAssumption DEF RegistryType
<1>3. /\ DOMAIN list' = DOMAIN list \ {id} /\ \A i \in DOMAIN list' : list'[i] = list[i] /\ list[i] # list[id]
      /\ DOMAIN wanted' = DOMAIN wanted \ {id} /\ \A i \in DOMAIN wanted' : wanted'[i] = wanted[i]
      /\ DOMAIN objects' = DOMAIN objects \ {list[id]} /\ \A p \in DOMAIN objects' : objects'[p] = objects[p]
  BY <1>1 DEF RegistryType
<1>4. RegistryType'
  <2>1. DOMAIN objects' = {list'[i] : i \in DOMAIN list'}
    BY <1>3 DEF RegistryType
  <2>2. DOMAIN wanted' = DOMAIN list' \cup {nullptr}
    BY <1>2, <1>3 DEF RegistryType
  <2> QED
    BY <1>1, <1>3, <2>1, <2>2 DEF RegistryType
<1>5. DefaultsAsAsked'
  BY <1>1, <1>2, <1>3 DEF DefaultsAsAsked, RegistryType
<1>6. LoggersConfigured'
  <2> SUFFICES ASSUME NEW i \in DOMAIN list'
               PROVE  objects'[list'[i]].conf \in Used /\ Has(objects'[list'[i]].conf, wanted'[i])
    BY DEF LoggersConfigured
  <2>1. i \in DOMAIN list /\ list'[i] = list[i] /\ list[i] \in DOMAIN objects' /\ i \in DOMAIN wanted'
    BY <1>3 DEF RegistryType
  <2> QED
    BY <1>3, <2>1 DEF LoggersConfigured
<1>7. AllStreamsKnown'
  BY <1>1, <1>3 DEF AllStreamsKnown
<1>8. PointersListed'
  BY <1>1, <1>3 DEF PointersListed
<1> QED
  BY <1>4, <1>5, <1>6, <1>7, <1>8

\* A value set in some loggers.
LEMMA ValueStep ==
  ASSUME RegistryInv, NEW ids, ids \subseteq DOMAIN list, NEW e \in SettingsUsed, SetAndReconfigure(ids, e)
  PROVE  RegistryInv'
<1> USE DEF RegistryInv
<1>1. PICK l \in AllLevels, t \in ConfTypes, v \in UsedValues : l = e.level /\ t = e.type /\ v = e.value
  BY UsedAre DEF Entries
<1>2. PICK confs : confs = [p \in PointersTo(ids) |->
                              LET c == set(objects[p].conf, e.level, e.type, e.value) IN Configured(c, c, TRUE)]
  OBVIOUS
<1>3. /\ ConfigureAll(confs)
      /\ wanted' = [i \in DOMAIN wanted |-> IF i \in ids THEN Asked(wanted[i], set(<<>>, l, t, v)) ELSE wanted[i]]
      /\ UNCHANGED <<defaults, list, made, pointers>>
  BY <1>1, <1>2 DEF SetAndReconfigure
<1>4. ASSUME NEW id \in ids
      PROVE  confs[list[id]] \in Used /\ Has(confs[list[id]], wanted'[id])
  <2>1. PICK c : c = objects[list[id]].conf
    OBVIOUS
  <2>2. c \in Used /\ Has(c, wanted[id])
    BY <2>1 DEF LoggersConfigured
  <2>3. list[id] \in PointersTo(ids)
    BY DEF PointersTo
  <2>4. confs[list[id]] = set(c, l, t, v)
    BY <1>1, <1>2, <2>1, <2>3 DEF Configured, Differs
  <2>5. id \in DOMAIN wanted
    BY DEF RegistryType
  <2>6. wanted'[id] = Asked(wanted[id], set(<<>>, l, t, v))
    BY <1>3, <2>5
  <2> QED
    BY <2>2, <2>4, <2>6, SetHas
<1>5. DOMAIN confs = PointersTo(ids) /\ DOMAIN wanted' = DOMAIN wanted
  BY <1>2, <1>3
<1>6. \A id \in DOMAIN list \ ids : wanted'[id] = wanted[id]
  BY <1>3 DEF RegistryType
<1>7. DefaultsAsAsked'
  <2>1. nullptr \in DOMAIN wanted /\ nullptr \notin ids
    BY IdsAssumption DEF RegistryType
  <2> QED
    BY <1>3, <2>1 DEF DefaultsAsAsked
<1>8. PointersListed'
  BY <1>3 DEF PointersListed
<1>9. UNCHANGED <<list, made>>
  BY <1>3
<1> QED
  BY <1>3, <1>4, <1>5, <1>6, <1>7, <1>8, <1>9, ReconfiguredStep

\* An object given to all loggers.
LEMMA AllStep ==
  ASSUME RegistryInv, NEW q, WellMade(q), ConfigureAll(Merged(DOMAIN list, q)),
         UNCHANGED <<list, made, pointers>>, DefaultsAsAsked', DOMAIN wanted' = DOMAIN wanted,
         \A id \in DOMAIN list : wanted'[id] = Asked(wanted[id], q)
  PROVE  RegistryInv'
<1> USE DEF RegistryInv
<1>1. PICK confs, ids : confs = Merged(ids, q) /\ ids = DOMAIN list
  OBVIOUS
<1>2. ASSUME NEW id \in ids
      PROVE  confs[list[id]] \in Used /\ Has(confs[list[id]], wanted'[id])
  <2>1. PICK c : c = objects[list[id]].conf
    OBVIOUS
  <2>2. c \in Used /\ Has(c, wanted[id])
    BY <1>1, <2>1 DEF LoggersConfigured
  <2>3. list[id] \in PointersTo(ids)
    BY DEF PointersTo
  <2>4. confs[list[id]] = Configured(c, q, FALSE)
    BY <1>1, <2>1, <2>3 DEF Merged
  <2> QED
    BY <1>1, <2>2, <2>4, ConfiguredHas
<1>3. DOMAIN confs = PointersTo(ids) /\ ids \subseteq DOMAIN list /\ ConfigureAll(confs)
  BY <1>1 DEF Merged
<1>4. \A id \in DOMAIN list \ ids : wanted'[id] = wanted[id]
  BY <1>1
<1>5. PointersListed'
  BY DEF PointersListed
<1> QED
  BY <1>2, <1>3, <1>4, <1>5, ReconfiguredStep

LEMMA RegistryStep == RegistryInv /\ [RNext]_rvars => RegistryInv'
<1> SUFFICES ASSUME RegistryInv, [RNext]_rvars PROVE RegistryInv'
  OBVIOUS
<1> USE DEF RegistryInv
<1>1. CASE UNCHANGED rvars
  BY <1>1 DEF rvars, RegistryType, DefaultsAsAsked, LoggersConfigured, AllStreamsKnown, PointersListed
<1>2. ASSUME NEW id \in LoggerIds \cup {kDefaultLoggerId}, NEW q, WellMade(q), GetAndConfigure(id, q), UNCHANGED defaults
      PROVE  RegistryInv'
  <2>1. CASE Missing(id)
    BY <1>2, <2>1, MissingStep
  <2>2. CASE ~Missing(id)
    BY <1>2, <2>2, FoundStep
  <2> QED
    BY <2>1, <2>2
<1>3. ASSUME NEW id \in LoggerIds, getLogger(id) PROVE RegistryInv'
  BY <1>2, <1>3, EmptyObject DEF getLogger
<1>4. ASSUME NEW id \in LoggerIds, unregisterLogger(id) PROVE RegistryInv'
  BY <1>4, UnregisterStep
<1>5. ASSUME NEW id \in LoggerIds, NEW q \in Confs, reconfigureLogger(id, q) PROVE RegistryInv'
  BY <1>2, <1>5, ConfsMerge DEF reconfigureLogger
<1>6. ASSUME NEW e \in SingleValues
      PROVE  e \in SettingsUsed /\ e.level \in AllLevels /\ e.type \in ConfTypes /\ e.value \in UsedValues
  BY <1>6, ConfsAssumption, UsedAre DEF Entries
<1>7. ASSUME NEW id \in LoggerIds, NEW e \in SingleValues, reconfigureLoggerValue(id, e) PROVE RegistryInv'
  <2>1. CASE Missing(id)
    <3>1. PICK q : q = set(<<>>, Global, e.type, e.value)
      OBVIOUS
    <3>2. GetAndConfigure(id, q) /\ UNCHANGED defaults
      BY <1>7, <2>1, <3>1 DEF reconfigureLoggerValue
    <3>3. PICK l \in AllLevels, t \in ConfTypes, v \in UsedValues : l = Global /\ t = e.type /\ v = e.value
      BY <1>6 DEF AllLevels
    <3>4. WellMade(q)
      BY <3>1, <3>3, OneValueMerges
    <3> QED
      BY <1>2, <3>2, <3>4
  <2>2. CASE ~Missing(id)
    <3>1. PICK ids : ids = {id}
      OBVIOUS
    <3>2. SetAndReconfigure(ids, e) /\ ids \subseteq DOMAIN list
      BY <1>7, <2>2, <3>1 DEF reconfigureLoggerValue, Missing
    <3> QED
      BY <1>6, <3>2, ValueStep
  <2> QED
    BY <2>1, <2>2
<1>8. ASSUME NEW e \in SingleValues, reconfigureAllLoggersValue(e) PROVE RegistryInv'
  <2>1. PICK ids : ids = DOMAIN list
    OBVIOUS
  <2>2. SetAndReconfigure(ids, e) /\ ids \subseteq DOMAIN list
    BY <1>8, <2>1 DEF reconfigureAllLoggersValue
  <2> QED
    BY <1>6, <2>2, ValueStep
<1>9. ASSUME NEW q \in Confs, reconfigureAllLoggers(q) PROVE RegistryInv'
  <2>1. /\ ConfigureAll(Merged(DOMAIN list, q)) /\ UNCHANGED <<defaults, list, made, pointers>>
        /\ wanted' = [i \in DOMAIN wanted |-> IF i = nullptr THEN wanted[i] ELSE Asked(wanted[i], q)]
    BY <1>9 DEF reconfigureAllLoggers, ReconfigureAll
  <2>2. DefaultsAsAsked'
    BY <2>1 DEF DefaultsAsAsked, RegistryType
  <2>3. \A id \in DOMAIN list : wanted'[id] = Asked(wanted[id], q)
    BY <2>1, IdsAssumption DEF RegistryType
  <2>4. WellMade(q) /\ DOMAIN wanted' = DOMAIN wanted /\ UNCHANGED <<list, made, pointers>>
    BY <2>1, ConfsMerge
  <2> QED
    BY <2>1, <2>2, <2>3, <2>4, AllStep
<1>10. ASSUME NEW q \in Confs, NEW b \in BOOLEAN, setDefaultConfigurations(q, b) PROVE RegistryInv'
  <2>1. /\ defaults' = setFromBase(defaults, q) /\ UNCHANGED <<list, made, pointers>>
        /\ IF b THEN /\ ConfigureAll(Merged(DOMAIN list, q))
                     /\ wanted' = [i \in DOMAIN wanted |-> Asked(wanted[i], q)]
           ELSE /\ wanted' = [wanted EXCEPT ![nullptr] = Asked(@, q)]
                /\ UNCHANGED <<objects, files>>
    BY <1>10 DEF setDefaultConfigurations
  <2>2. nullptr \in DOMAIN wanted /\ nullptr \notin DOMAIN list /\ DOMAIN list \subseteq DOMAIN wanted
    BY IdsAssumption DEF RegistryType
  <2>3. DOMAIN wanted' = DOMAIN wanted /\ wanted'[nullptr] = Asked(wanted[nullptr], q)
    BY <2>1, <2>2
  <2>4. DefaultsAsAsked'
    <3>1. defaults \in Used /\ Has(defaults, wanted[nullptr]) /\ Led2(defaults) /\ WellMade(q)
      BY ConfsMerge DEF DefaultsAsAsked
    <3>2. /\ setFromBase(defaults, q) \in Used /\ Has(setFromBase(defaults, q), Asked(wanted[nullptr], q))
          /\ Led2(setFromBase(defaults, q))
      BY <3>1, MergedHas
    <3> QED
      BY <2>1, <2>3, <3>2 DEF DefaultsAsAsked
  <2>5. CASE b
    <3>1. \A id \in DOMAIN list : wanted'[id] = Asked(wanted[id], q)
      BY <2>1, <2>2, <2>5
    <3>2. WellMade(q) /\ ConfigureAll(Merged(DOMAIN list, q)) /\ UNCHANGED <<list, made, pointers>>
      BY <2>1, <2>5, ConfsMerge
    <3> QED
      BY <2>3, <2>4, <3>1, <3>2, AllStep
  <2>6. CASE ~b
    <3>1. /\ UNCHANGED <<objects, files, list, made, pointers>>
          /\ \A id \in DOMAIN list : wanted'[id] = wanted[id]
      BY <2>1, <2>2, <2>6
    <3>2. RegistryType' /\ AllStreamsKnown' /\ PointersListed' /\ LoggersConfigured'
      BY <2>3, <3>1 DEF RegistryType, AllStreamsKnown, PointersListed, LoggersConfigured
    <3> QED
      BY <2>4, <3>2
  <2> QED
    BY <2>5, <2>6
<1> QED
  BY <1>1, <1>3, <1>4, <1>5, <1>7, <1>8, <1>9, <1>10 DEF RNext

\* The first defaults.
FirstCalls == <<Entry(Global, "Filename", "f"), Entry(Global, "Format", "d")>>

LEMMA FirstDefaults ==
  /\ RInitially \in Used /\ Led2(RInitially)
  /\ \A l \in AllLevels, t \in ConfTypes : Get(RInitially, l, t) # {}
<1>1. PICK T, V : T = ConfTypes /\ V = UsedValues
  OBVIOUS
<1>2. PICK q, none : q = FirstCalls /\ none = <<>>
  OBVIOUS
<1>3. none \in Objects(T, V)
  BY <1>1, <1>2, EmptyObject DEF Used
<1>4. /\ q = <<[level |-> Global, type |-> "Filename", value |-> "f"], [level |-> Global, type |-> "Format", value |-> "d"]>>
      /\ Len(q) = 2 /\ DOMAIN q = 1..2
  BY <1>2 DEF FirstCalls, Entry
<1>5. q[1].level = Global /\ q[1].type = "Filename" /\ q[2].level = Global /\ q[2].type = "Format"
  BY <1>4
<1>6. q \in Seq(Entries(T, V)) /\ Fitting(q, T, V)
  <2>1. q[1] \in Entries(T, V) /\ q[2] \in Entries(T, V)
    BY <1>1, <1>4 DEF Entries, ConfTypes, UsedValues, AllLevels
  <2>2. \A i \in 1..2 : i = 1 \/ i = 2
    OBVIOUS
  <2>3. Fitting(q, T, V)
    BY <1>4, <2>1, <2>2 DEF Fitting, Entries
  <2>4. q \in Seq(Entries(T, V))
    BY <1>4, <2>1
  <2> QED
    BY <2>3, <2>4
<1>7. PICK f : SetSteps(f, none, q) /\ setFromBase(none, q) = f[Len(q)]
  BY <1>3, <1>6, FromBaseSteps
<1>8. PICK d : d = RInitially
  OBVIOUS
<1>9. d = f[Len(q)]
  BY <1>2, <1>7, <1>8 DEF RInitially, FirstCalls
<1>10. PICK E : E = Entries(T, V)
  OBVIOUS
<1>11. ASSUME NEW l \in AllLevels, NEW t \in ConfTypes
       PROVE  d \in Used /\ Led(d, t) /\ Get(d, l, t) # {}
  <2>1. d \in Objects(T, V) /\ LastCounts(none, q, d, l, t)
    BY <1>3, <1>6, <1>7, <1>9, <1>10, SetStepsLaw
  <2>2. \A i \in 1..2 : i = 1 \/ i = 2
    OBVIOUS
  <2>3. PICK k \in 1..2 : q[k].type = t
    BY <1>5 DEF ConfTypes
  <2>4. Matching(q, Len(q), l, t) = {k}
    BY <1>4, <1>5, <2>2, <2>3 DEF Matching
  <2>5. Get(d, l, t) = {q[k].value}
    BY <2>1, <2>3, <2>4 DEF LastCounts
  <2>6. Led(none, t)
    BY <1>2, EmptyObject
  <2>7. Led(q, t)
    BY <1>4, <1>5, <2>2 DEF Led
  <2> QED
    BY <1>1, <2>1, <2>5, <2>6, <2>7 DEF LastCounts, Used
<1>12. \E l \in AllLevels, t \in ConfTypes : TRUE
  BY DEF AllLevels, ConfTypes
<1> QED
  BY <1>8, <1>11, <1>12 DEF Led2, AllLevels

LEMMA RegistryBegins == RInit => RegistryInv
<1> SUFFICES ASSUME RInit PROVE RegistryInv
  OBVIOUS
<1>1. PICK w, first, none : w = Asked(NothingAsked, defaults) /\ first = setFromBase(<<>>, defaults) /\ none = <<>>
  OBVIOUS
<1>2. defaults \in Used /\ Led2(defaults) /\ Has(defaults, w)
  BY <1>1, FirstDefaults, AskedOfAll DEF RInit
<1>3. first \in Used /\ Has(first, w)
  BY <1>1, <1>2, CompleteMerges
<1>4. /\ list = [id \in {kDefaultLoggerId} |-> 1] /\ files = Streams(defaults, none)
      /\ objects = [p \in {1} |-> LoggerOf(first, files)] /\ made = 1 /\ pointers = {}
      /\ wanted = [id \in {kDefaultLoggerId, nullptr} |-> w]
  BY <1>1 DEF RInit
<1>5. none \in Opened
  BY <1>1, NoMapIs DEF NoMap, Opened
<1>6. files \in Opened /\ FilesIn(defaults, files)
  <2>1. defaults \in Seq(SettingsUsed)
    BY <1>2, UsedAre DEF Used, Objects
  <2> QED
    BY <1>4, <1>5, <2>1, StreamsLaw
<1>7. FilesIn(first, files)
  <2> SUFFICES ASSUME NEW i \in DOMAIN first, first[i].type = "Filename" PROVE first[i].value \in DOMAIN files
    BY DEF FilesIn
  <2>1. first \in Seq(Entries(ConfTypes, UsedValues))
    BY <1>3 DEF Used, Objects
  <2>2. first[i] \in Entries(ConfTypes, UsedValues)
    BY <2>1, ElementOfSeq, LenProperties
  <2>3. PICK l \in AllLevels : l = first[i].level
    BY <2>2 DEF Entries
  <2>4. first[i].value \in Get(first, l, "Filename")
    BY <2>3 DEF Get, PlacesOf
  <2>5. Get(first, l, "Filename") = {w[<<l, "Filename">>]} /\ Get(defaults, l, "Filename") = {w[<<l, "Filename">>]}
    BY <1>2, <1>3 DEF Has, ConfTypes
  <2>6. PICK j \in DOMAIN defaults : defaults[j].type = "Filename" /\ defaults[j].value = first[i].value
    BY <2>4, <2>5 DEF Get, PlacesOf
  <2> QED
    BY <1>6, <2>6 DEF FilesIn
<1>8. LoggerOf(first, files).conf = first /\ StreamsKnown(LoggerOf(first, files), files)
  BY <1>3, <1>6, <1>7, LoggerOfLaw
<1>9. RegistryType
  BY <1>4 DEF RegistryType
<1>10. DefaultsAsAsked /\ LoggersConfigured
  BY <1>2, <1>3, <1>4, <1>8 DEF DefaultsAsAsked, LoggersConfigured
<1>11. AllStreamsKnown /\ PointersListed
  BY <1>4, <1>6, <1>8 DEF AllStreamsKnown, PointersListed
<1> QED
  BY <1>9, <1>10, <1>11 DEF RegistryInv

(***************************************************************************)
(* Every logger has the settings that were asked for last, the pointers    *)
(* that getLogger returned are those of registered loggers, and all that   *)
(* write to a file share its stream, for any ids, objects, values and any  *)
(* order of the calls of el::Loggers.                                      *)
(***************************************************************************)
THEOREM RegistryTheorem == RInit /\ [][RNext]_rvars => []LoggersAsAsked
<1>1. RegistryInv => LoggersAsAsked
  <2> SUFFICES ASSUME RegistryInv PROVE LoggersAsAsked
    OBVIOUS
  <2> USE DEF RegistryInv
  <2>1. DOMAIN list = DOMAIN wanted \ {nullptr}
    BY IdsAssumption DEF RegistryType
  <2>2. ASSUME NEW id \in DOMAIN list, NEW p \in AllLevels \X ConfTypes
        PROVE  LET c == objects[list[id]].conf IN c[Place(c, p[1], p[2])].value = wanted[id][p]
    <3>1. PICK l \in AllLevels, t \in ConfTypes : p = <<l, t>>
      OBVIOUS
    <3>2. PICK c, w : c = objects[list[id]].conf /\ w = wanted[id]
      OBVIOUS
    <3>3. c \in Used /\ Has(c, w)
      BY <3>2 DEF LoggersConfigured
    <3>4. c[Place(c, l, t)].value = w[<<l, t>>]
      BY <3>3, PlaceThere
    <3> QED
      BY <3>1, <3>2, <3>4
  <2>3. PointersLive
    <3>1. \A q \in pointers : q[2] \in DOMAIN objects /\ q[1] \in DOMAIN list /\ list[q[1]] = q[2]
      BY DEF PointersListed, RegistryType
    <3>2. \A p \in DOMAIN objects, l \in AllLevels :
            objects[p].fileStream[l] = files[objects[p].conf[Place(objects[p].conf, l, "Filename")].value]
      BY DEF AllStreamsKnown, StreamsKnown, FileOf
    <3> QED
      BY <3>1, <3>2 DEF PointersLive
  <2> QED
    BY <2>1, <2>2, <2>3 DEF LoggersAsAsked, SettingsAsAsked
<1> QED
  BY RegistryBegins, RegistryStep, <1>1, PTL

-----------------------------------------------------------------------------
(***************************************************************************)
(* VRegistry.  First which names of files a wildcard matches.              *)
(***************************************************************************)

\* Places of a file that the pattern matches from j on: a layout ends there.
LaidOut(pattern, file, j, i) ==
  \E end \in [0..Len(pattern) -> 0..Len(file)] :
    /\ end[j - 1] = i - 1 /\ end[Len(pattern)] = Len(file)
    /\ \A k \in j..Len(pattern) :
         \/ pattern[k] = "*" /\ end[k - 1] <= end[k]
         \/ end[k] = end[k - 1] + 1 /\ charMatches(file[end[k]], pattern[k])

PlacesFrom(pattern, file) ==
  [j \in 1..(Len(pattern) + 1) |-> {i \in 1..(Len(file) + 1) : LaidOut(pattern, file, j, i)}]

\* Behind the pattern, at the end of the name.
LEMMA LaidOutEnd ==
  ASSUME NEW pattern \in Seq(Chars), NEW file \in Seq(Chars), NEW i \in 1..(Len(file) + 1)
  PROVE  LaidOut(pattern, file, Len(pattern) + 1, i) <=> i = Len(file) + 1
<1>1. PICK P, N : P = Len(pattern) /\ N = Len(file) /\ P \in Nat /\ N \in Nat
  BY LenProperties
<1>2. ASSUME LaidOut(pattern, file, P + 1, i) PROVE i = N + 1
  <2>1. PICK end : end[(P + 1) - 1] = i - 1 /\ end[P] = N
    BY <1>1, <1>2 DEF LaidOut
  <2> QED
    BY <1>1, <2>1
<1>3. ASSUME i = N + 1 PROVE LaidOut(pattern, file, P + 1, i)
  <2>1. PICK end : end = [k \in 0..P |-> N]
    OBVIOUS
  <2>2. end \in [0..P -> 0..N] /\ end[P] = N /\ end[(P + 1) - 1] = i - 1
    BY <1>1, <1>3, <2>1
  <2>3. (P + 1)..P = {}
    BY <1>1
  <2> QED
    BY <1>1, <2>2, <2>3 DEF LaidOut
<1> QED
  BY <1>1, <1>2, <1>3

\* A layout that begins one part earlier.
LEMMA LaidOutOneMore ==
  ASSUME NEW pattern \in Seq(Chars), NEW file \in Seq(Chars), NEW j \in 1..Len(pattern),
         NEW i \in 1..(Len(file) + 1), NEW k \in 1..(Len(file) + 1), LaidOut(pattern, file, j + 1, k),
         \/ pattern[j] = "*" /\ i <= k
         \/ k = i + 1 /\ charMatches(file[i], pattern[j])
  PROVE  LaidOut(pattern, file, j, i)
<1>1. PICK P, N : P = Len(pattern) /\ N = Len(file) /\ P \in Nat /\ N \in Nat
  BY LenProperties
<1>2. PICK end \in [0..P -> 0..N] :
        /\ end[(j + 1) - 1] = k - 1 /\ end[P] = N
        /\ \A m \in (j + 1)..P : \/ pattern[m] = "*" /\ end[m - 1] <= end[m]
                                 \/ end[m] = end[m - 1] + 1 /\ charMatches(file[end[m]], pattern[m])
  BY <1>1 DEF LaidOut
<1>3. PICK g : g = [m \in 0..P |-> IF m = j - 1 THEN i - 1 ELSE end[m]]
  OBVIOUS
<1>4. g \in [0..P -> 0..N]
  BY <1>1, <1>3
<1>5. j - 1 \in 0..P /\ j \in 0..P /\ j # j - 1 /\ P # j - 1 /\ P \in 0..P
  BY <1>1
<1>6. g[j - 1] = i - 1 /\ g[j] = k - 1 /\ g[P] = N
  BY <1>1, <1>2, <1>3, <1>5
<1>7. ASSUME NEW m \in j..P
      PROVE  \/ pattern[m] = "*" /\ g[m - 1] <= g[m]
             \/ g[m] = g[m - 1] + 1 /\ charMatches(file[g[m]], pattern[m])
  <2>1. CASE m = j
    <3>1. CASE pattern[j] = "*" /\ i <= k
      BY <1>1, <1>6, <2>1, <3>1
    <3>2. CASE k = i + 1 /\ charMatches(file[i], pattern[j])
      <4>1. g[j] = i /\ g[j] = g[j - 1] + 1
        BY <1>1, <1>6, <3>2
      <4> QED
        BY <2>1, <3>2, <4>1
    <3> QED
      BY <3>1, <3>2
  <2>2. CASE m # j
    <3>1. m \in (j + 1)..P /\ m - 1 \in 0..P /\ m \in 0..P /\ m # j - 1 /\ m - 1 # j - 1
      BY <1>1, <2>2
    <3>2. g[m] = end[m] /\ g[m - 1] = end[m - 1]
      BY <1>3, <3>1
    <3> QED
      BY <1>2, <3>1, <3>2
  <2> QED
    BY <2>1, <2>2
<1> QED
  BY <1>1, <1>4, <1>6, <1>7 DEF LaidOut

\* The first part of a layout.
LEMMA LaidOutFirst ==
  ASSUME NEW pattern \in Seq(Chars), NEW file \in Seq(Chars), NEW j \in 1..Len(pattern),
         NEW i \in 1..(Len(file) + 1), LaidOut(pattern, file, j, i)
  PROVE  \E k \in 1..(Len(file) + 1) :
           /\ LaidOut(pattern, file, j + 1, k)
           /\ \/ pattern[j] = "*" /\ i <= k
              \/ k = i + 1 /\ charMatches(file[i], pattern[j])
<1>1. PICK P, N : P = Len(pattern) /\ N = Len(file) /\ P \in Nat /\ N \in Nat
  BY LenProperties
<1>2. PICK end \in [0..P -> 0..N] :
        /\ end[j - 1] = i - 1 /\ end[P] = N
        /\ \A m \in j..P : \/ pattern[m] = "*" /\ end[m - 1] <= end[m]
                           \/ end[m] = end[m - 1] + 1 /\ charMatches(file[end[m]], pattern[m])
  BY <1>1 DEF LaidOut
<1>3. PICK k \in 1..(N + 1) : k = end[j] + 1
  BY <1>1
<1>4. LaidOut(pattern, file, j + 1, k)
  <2>1. end[(j + 1) - 1] = k - 1
    BY <1>1, <1>3
  <2>2. \A m \in (j + 1)..P : m \in j..P
    BY <1>1
  <2> QED
    BY <1>1, <1>2, <2>1, <2>2 DEF LaidOut
<1>5. CASE pattern[j] = "*" /\ end[j - 1] <= end[j]
  <2>1. i <= k
    BY <1>1, <1>2, <1>3, <1>5
  <2> QED
    BY <1>1, <1>4, <1>5, <2>1
<1>6. CASE end[j] = end[j - 1] + 1 /\ charMatches(file[end[j]], pattern[j])
  <2>1. end[j] = i /\ k = i + 1
    BY <1>1, <1>2, <1>3, <1>6
  <2> QED
    BY <1>1, <1>4, <1>6, <2>1
<1> QED
  BY <1>1, <1>2, <1>5, <1>6

\* The places where a name can be matched from each part of a pattern on.
Matched(places, str, pattern) ==
  places = [j \in 1..(Len(pattern) + 1) |->
        IF j > Len(pattern) THEN {Len(str) + 1}
        ELSE IF pattern[j] = "*" THEN {i \in 1..(Len(str) + 1) : \E k \in places[j + 1] : i <= k}
        ELSE {i \in 1..Len(str) : i + 1 \in places[j + 1] /\ charMatches(str[i], pattern[j])}]

\* Layouts obey the equation of wildCardMatch.
LEMMA LayoutsMatched ==
  ASSUME NEW pattern \in Seq(Chars), NEW file \in Seq(Chars)
  PROVE  Matched(PlacesFrom(pattern, file), file, pattern)
<1>1. PICK P, N : P = Len(pattern) /\ N = Len(file) /\ P \in Nat /\ N \in Nat
  BY LenProperties
<1>2. PICK places : places = PlacesFrom(pattern, file)
  OBVIOUS
<1>3. \A j \in 1..(P + 1), i \in 1..(N + 1) : i \in places[j] <=> LaidOut(pattern, file, j, i)
  BY <1>1, <1>2 DEF PlacesFrom
<1>4. \A j \in 1..(P + 1) : places[j] \subseteq 1..(N + 1)
  BY <1>1, <1>2 DEF PlacesFrom
<1>5. places[P + 1] = {N + 1}
  <2>1. \A i \in 1..(N + 1) : i \in places[P + 1] <=> i = N + 1
    BY <1>1, <1>3, LaidOutEnd
  <2> QED
    BY <1>1, <1>4, <2>1
<1>6. ASSUME NEW j \in 1..P, pattern[j] = "*"
      PROVE  places[j] = {i \in 1..(N + 1) : \E k \in places[j + 1] : i <= k}
  <2>0. j + 1 \in 1..(P + 1) /\ j \in 1..(P + 1)
    BY <1>1
  <2>1. ASSUME NEW i \in places[j] PROVE \E k \in places[j + 1] : i <= k
    <3>1. i \in 1..(N + 1) /\ LaidOut(pattern, file, j, i)
      BY <1>3, <1>4, <2>0
    <3>2. PICK k \in 1..(N + 1) :
            /\ LaidOut(pattern, file, j + 1, k)
            /\ \/ pattern[j] = "*" /\ i <= k
               \/ k = i + 1 /\ charMatches(file[i], pattern[j])
      BY <1>1, <3>1, LaidOutFirst
    <3>3. i <= k
      BY <1>1, <3>1, <3>2
    <3> QED
      BY <1>3, <2>0, <3>2, <3>3
  <2>2. ASSUME NEW i \in 1..(N + 1), NEW k \in places[j + 1], i <= k PROVE i \in places[j]
    <3>1. k \in 1..(N + 1) /\ LaidOut(pattern, file, j + 1, k)
      BY <1>3, <1>4, <2>0
    <3>2. LaidOut(pattern, file, j, i)
      BY <1>1, <1>6, <2>2, <3>1, LaidOutOneMore
    <3> QED
      BY <1>3, <2>0, <3>2
  <2> QED
    BY <1>4, <2>0, <2>1, <2>2
<1>7. ASSUME NEW j \in 1..P, pattern[j] # "*"
      PROVE  places[j] = {i \in 1..N : i + 1 \in places[j + 1] /\ charMatches(file[i], pattern[j])}
  <2>0. j + 1 \in 1..(P + 1) /\ j \in 1..(P + 1)
    BY <1>1
  <2>1. ASSUME NEW i \in places[j] PROVE i \in 1..N /\ i + 1 \in places[j + 1] /\ charMatches(file[i], pattern[j])
    <3>1. i \in 1..(N + 1) /\ LaidOut(pattern, file, j, i)
      BY <1>3, <1>4, <2>0
    <3>2. PICK k \in 1..(N + 1) :
            /\ LaidOut(pattern, file, j + 1, k)
            /\ \/ pattern[j] = "*" /\ i <= k
               \/ k = i + 1 /\ charMatches(file[i], pattern[j])
      BY <1>1, <3>1, LaidOutFirst
    <3>3. k = i + 1 /\ charMatches(file[i], pattern[j])
      BY <1>7, <3>2
    <3>4. i \in 1..N
      BY <1>1, <3>1, <3>2, <3>3
    <3> QED
      BY <1>3, <2>0, <3>2, <3>3, <3>4
  <2>2. ASSUME NEW i \in 1..N, i + 1 \in places[j + 1], charMatches(file[i], pattern[j]) PROVE i \in places[j]
    <3>1. i \in 1..(N + 1) /\ i + 1 \in 1..(N + 1) /\ LaidOut(pattern, file, j + 1, i + 1)
      BY <1>1, <1>3, <1>4, <2>0, <2>2
    <3>2. LaidOut(pattern, file, j, i)
      BY <1>1, <2>2, <3>1, LaidOutOneMore
    <3> QED
      BY <1>3, <2>0, <3>1, <3>2
  <2> QED
    BY <2>1, <2>2
<1>8. PICK h : h = [j \in 1..(P + 1) |->
        IF j > P THEN {N + 1}
        ELSE IF pattern[j] = "*" THEN {i \in 1..(N + 1) : \E k \in places[j + 1] : i <= k}
        ELSE {i \in 1..N : i + 1 \in places[j + 1] /\ charMatches(file[i], pattern[j])}]
  OBVIOUS
<1>9. \A j \in 1..(P + 1) : places[j] = h[j]
  <2> TAKE j \in 1..(P + 1)
  <2>1. CASE j = P + 1
    <3>1. j > P
      BY <1>1, <2>1
    <3>2. h[j] = {N + 1}
      BY <1>8, <3>1
    <3> QED
      BY <1>5, <2>1, <3>2
  <2>2. CASE j # P + 1
    <3>1. j \in 1..P /\ ~(j > P)
      BY <1>1, <2>2
    <3>2. CASE pattern[j] = "*"
      BY <1>6, <1>8, <3>1, <3>2
    <3>3. CASE pattern[j] # "*"
      BY <1>7, <1>8, <3>1, <3>3
    <3> QED
      BY <3>2, <3>3
  <2> QED
    BY <2>1, <2>2
<1>10. places = [j \in 1..(P + 1) |-> places[j]]
  BY <1>1, <1>2 DEF PlacesFrom
<1>11. places = h
  <2>1. h = [j \in 1..(P + 1) |-> h[j]]
    BY <1>8
  <2> QED
    BY <1>9, <1>10, <2>1
<1> QED
  BY <1>1, <1>2, <1>8, <1>11 DEF Matched

\* There is one solution of the equation at most.
LEMMA MatchedOnce ==
  ASSUME NEW pattern \in Seq(Chars), NEW file \in Seq(Chars), NEW f, NEW g,
         Matched(f, file, pattern), Matched(g, file, pattern)
  PROVE  f = g
<1>1. PICK P, N : P = Len(pattern) /\ N = Len(file) /\ P \in Nat /\ N \in Nat
  BY LenProperties
<1>2. /\ f = [j \in 1..(P + 1) |->
        IF j > P THEN {N + 1}
        ELSE IF pattern[j] = "*" THEN {i \in 1..(N + 1) : \E k \in f[j + 1] : i <= k}
        ELSE {i \in 1..N : i + 1 \in f[j + 1] /\ charMatches(file[i], pattern[j])}]
      /\ g = [j \in 1..(P + 1) |->
        IF j > P THEN {N + 1}
        ELSE IF pattern[j] = "*" THEN {i \in 1..(N + 1) : \E k \in g[j + 1] : i <= k}
        ELSE {i \in 1..N : i + 1 \in g[j + 1] /\ charMatches(file[i], pattern[j])}]
  BY <1>1 DEF Matched
<1> DEFINE T == {n \in Nat : f[P + 1 - n] = g[P + 1 - n]}
<1>3. 0 \in T
  <2>1. P + 1 - 0 = P + 1 /\ P + 1 \in 1..(P + 1) /\ P + 1 > P
    BY <1>1
  <2>2. f[P + 1] = {N + 1} /\ g[P + 1] = {N + 1}
    BY <1>2, <2>1
  <2> QED
    BY <2>1, <2>2
<1>4. ASSUME NEW n \in 1..P, n - 1 \in T PROVE n \in T
  <2>0. P + 1 - n \in 1..P /\ (P + 1 - n) + 1 = P + 1 - (n - 1)
    BY <1>1
  <2>1. PICK j \in 1..P : j = P + 1 - n /\ j + 1 = P + 1 - (n - 1)
    BY <2>0
  <2>2. f[j + 1] = g[j + 1]
    BY <1>4, <2>1
  <2>3. j \in 1..(P + 1) /\ ~(j > P)
    BY <1>1
  <2>4. f[j] = g[j]
    <3>1. CASE pattern[j] = "*"
      <4>1. f[j] = {i \in 1..(N + 1) : \E k \in f[j + 1] : i <= k}
        BY <1>2, <2>3, <3>1
      <4>2. g[j] = {i \in 1..(N + 1) : \E k \in g[j + 1] : i <= k}
        BY <1>2, <2>3, <3>1
      <4> QED
        BY <2>2, <4>1, <4>2
    <3>2. CASE pattern[j] # "*"
      <4>1. f[j] = {i \in 1..N : i + 1 \in f[j + 1] /\ charMatches(file[i], pattern[j])}
        BY <1>2, <2>3, <3>2
      <4>2. g[j] = {i \in 1..N : i + 1 \in g[j + 1] /\ charMatches(file[i], pattern[j])}
        BY <1>2, <2>3, <3>2
      <4> QED
        BY <2>2, <4>1, <4>2
    <3> QED
      BY <3>1, <3>2
  <2> QED
    BY <1>1, <2>1, <2>4
<1> HIDE DEF T
<1>5. \A n \in 0..P : n \in T
  BY <1>1, <1>3, <1>4, InductionUpTo
<1>6. \A j \in 1..(P + 1) : f[j] = g[j]
  <2> TAKE j \in 1..(P + 1)
  <2>0. P + 1 - j \in 0..P /\ P + 1 - (P + 1 - j) = j
    BY <1>1
  <2>1. PICK n \in 0..P : n = P + 1 - j /\ P + 1 - n = j
    BY <2>0
  <2>2. n \in T
    BY <1>5
  <2> QED
    BY <2>1, <2>2 DEF T
<1>7. f = [j \in 1..(P + 1) |-> f[j]] /\ g = [j \in 1..(P + 1) |-> g[j]]
  BY <1>2
<1> QED
  BY <1>6, <1>7

\* wildCardMatch finds out whether the parts of a pattern can be laid out over a name.
LEMMA WildCardLaw ==
  ASSUME NEW pattern \in Seq(Chars), NEW file \in Seq(Chars)
  PROVE  wildCardMatch(file, pattern) <=> Covers(pattern, file)
<1>1. PICK P, N : P = Len(pattern) /\ N = Len(file) /\ P \in Nat /\ N \in Nat
  BY LenProperties
<1> DEFINE places == CHOOSE places : places = [j \in 1..(Len(pattern) + 1) |->
        IF j > Len(pattern) THEN {Len(file) + 1}
        ELSE IF pattern[j] = "*" THEN {i \in 1..(Len(file) + 1) : \E k \in places[j + 1] : i <= k}
        ELSE {i \in 1..Len(file) : i + 1 \in places[j + 1] /\ charMatches(file[i], pattern[j])}]
<1>2. wildCardMatch(file, pattern) <=> 1 \in places[1]
  BY DEF wildCardMatch
<1>3. PICK f : f = PlacesFrom(pattern, file) /\ Matched(f, file, pattern)
  BY LayoutsMatched
<1>4. f = [j \in 1..(Len(pattern) + 1) |->
        IF j > Len(pattern) THEN {Len(file) + 1}
        ELSE IF pattern[j] = "*" THEN {i \in 1..(Len(file) + 1) : \E k \in f[j + 1] : i <= k}
        ELSE {i \in 1..Len(file) : i + 1 \in f[j + 1] /\ charMatches(file[i], pattern[j])}]
  BY <1>3 DEF Matched
<1>5. places = [j \in 1..(Len(pattern) + 1) |->
        IF j > Len(pattern) THEN {Len(file) + 1}
        ELSE IF pattern[j] = "*" THEN {i \in 1..(Len(file) + 1) : \E k \in places[j + 1] : i <= k}
        ELSE {i \in 1..Len(file) : i + 1 \in places[j + 1] /\ charMatches(file[i], pattern[j])}]
  BY <1>4
<1> HIDE DEF places
<1>6. Matched(places, file, pattern)
  BY <1>5 DEF Matched
<1>7. places = f
  BY <1>3, <1>6, MatchedOnce
<1>8. 1 \in places[1] <=> LaidOut(pattern, file, 1, 1)
  <2>1. 1 \in 1..(N + 1) /\ 1 \in 1..(P + 1)
    BY <1>1
  <2> QED
    BY <1>1, <1>3, <1>7, <2>1 DEF PlacesFrom
<1>9. LaidOut(pattern, file, 1, 1) <=> Covers(pattern, file)
  <2>1. 1 - 1 = 0
    OBVIOUS
  <2> QED
    BY <2>1 DEF LaidOut, Covers
<1> QED
  BY <1>2, <1>8, <1>9

\* The extensions of source files.
LEMMA ExtensionsAre ==
  /\ Len(Extensions) = 9 /\ DOMAIN Extensions = 1..9 /\ Extensions \in Seq(Chars)
  /\ \A i \in 1..9 : Extensions[i] \in Range(Extensions) /\ Extensions[i] # noSuffix
  /\ \A i, j \in 1..9 : Extensions[i] = Extensions[j] => i = j
  /\ \A e \in Range(Extensions) : e \in Chars /\ e # "*" /\ e # "?" /\ e \notin Letters /\ \E i \in 1..9 : e = Extensions[i]
<1>1. Len(Extensions) = 9 /\ DOMAIN Extensions = 1..9
  BY DEF Extensions
<1>2. \A i \in 1..9 : Extensions[i] \in Range(Extensions)
  BY <1>1 DEF Range
<1>3. \A i, j \in 1..9 : Extensions[i] = Extensions[j] => i = j
  BY DEF Extensions
<1>4. \A i \in 1..9 : Extensions[i] # "*" /\ Extensions[i] # "?"
  BY DEF Extensions
<1>5. \A e \in Range(Extensions) : \E i \in 1..9 : e = Extensions[i]
  BY <1>1 DEF Range
<1>6. Range(Extensions) \subseteq Chars /\ noSuffix \notin Chars
  BY AlphabetAssumption
<1>7. Extensions \in Seq(Chars)
  <2>1. \A i \in 1..9 : Extensions[i] \in Chars
    BY <1>2, <1>6
  <2>2. Extensions = [i \in 1..9 |-> Extensions[i]]
    BY DEF Extensions
  <2> QED
    BY <2>1, <2>2
<1> QED
  BY <1>1, <1>2, <1>3, <1>4, <1>5, <1>6, <1>7 DEF Letters

\* The last part of a pattern, if it is an extension, is the last part of the name.
LEMMA CoversLast ==
  ASSUME NEW pattern \in Seq(Chars), NEW file \in Seq(Chars), pattern # <<>>, Last(pattern) \in Range(Extensions),
         Covers(pattern, file)
  PROVE  file # <<>> /\ Last(file) = Last(pattern)
<1>1. PICK P, N : P = Len(pattern) /\ N = Len(file) /\ P \in Nat /\ N \in Nat
  BY LenProperties
<1>2. P # 0
  BY <1>1, EmptySeq
<1>3. PICK end \in [0..P -> 0..N] :
        /\ end[0] = 0 /\ end[P] = N
        /\ \A j \in 1..P : \/ pattern[j] = "*" /\ end[j - 1] <= end[j]
                           \/ end[j] = end[j - 1] + 1 /\ charMatches(file[end[j]], pattern[j])
  BY <1>1 DEF Covers
<1>4. P \in 1..P /\ P - 1 \in 0..P /\ pattern[P] = Last(pattern)
  BY <1>1, <1>2 DEF Last
<1>5. pattern[P] # "*" /\ pattern[P] # "?"
  BY <1>4, ExtensionsAre
<1>6. end[P] = end[P - 1] + 1 /\ charMatches(file[end[P]], pattern[P])
  BY <1>3, <1>4, <1>5
<1>7. N # 0
  <2>1. end[P - 1] \in 0..N
    BY <1>3, <1>4
  <2> QED
    BY <1>1, <1>3, <1>6, <2>1
<1>8. file[N] = pattern[P]
  BY <1>3, <1>5, <1>6 DEF charMatches
<1>9. file # <<>>
  BY <1>1, <1>7, EmptySeq
<1> QED
  BY <1>1, <1>4, <1>8, <1>9 DEF Last

\* A layout of a pattern with an extension is one of the pattern without it.
LEMMA CoversFront ==
  ASSUME NEW p \in Seq(Chars), NEW e \in Range(Extensions), NEW file \in Seq(Chars), file # <<>>,
         Covers(Append(p, e), file)
  PROVE  Covers(p, Front(file))
<1>1. PICK P, N : P = Len(p) /\ N = Len(file) /\ P \in Nat /\ N \in Nat
  BY LenProperties
<1>2. PICK q : q = Append(p, e)
  OBVIOUS
<1>3. e \in Chars /\ e # "*" /\ e # "?"
  BY ExtensionsAre
<1>4. q \in Seq(Chars) /\ Len(q) = P + 1 /\ q[P + 1] = e /\ \A j \in 1..P : q[j] = p[j]
  BY <1>1, <1>2, <1>3, AppendProperties
<1>5. PICK front : front = Front(file)
  OBVIOUS
<1>6. front \in Seq(Chars) /\ Len(front) = N - 1 /\ N - 1 \in 0..N /\ front = SubSeq(file, 1, N - 1)
  BY <1>1, <1>5, FrontLaw
<1>7. \A i \in 1..(N - 1) : front[i] = file[i]
  BY <1>1, <1>6, SubSeqLaw
<1>8. PICK end \in [0..(P + 1) -> 0..N] :
        /\ end[0] = 0 /\ end[P + 1] = N
        /\ \A j \in 1..(P + 1) : \/ q[j] = "*" /\ end[j - 1] <= end[j]
                                 \/ end[j] = end[j - 1] + 1 /\ charMatches(file[end[j]], q[j])
  BY <1>1, <1>2, <1>4 DEF Covers
<1>9. end[P] = N - 1
  <2>1. P + 1 \in 1..(P + 1) /\ (P + 1) - 1 = P /\ P \in 0..(P + 1)
    BY <1>1
  <2>2. end[P + 1] = end[P] + 1
    BY <1>3, <1>4, <1>8, <2>1
  <2>3. end[P] \in 0..N
    BY <1>8, <2>1
  <2> QED
    BY <1>1, <1>8, <2>2, <2>3
<1> DEFINE T == {n \in Nat : end[P - n] <= N - 1}
<1>10. 0 \in T
  BY <1>1, <1>9
<1>11. ASSUME NEW n \in 1..P, n - 1 \in T PROVE n \in T
  <2>1. PICK j \in Int : j = P - (n - 1)
    BY <1>1
  <2>2. j \in 1..(P + 1) /\ j - 1 = P - n /\ j - 1 \in 0..(P + 1) /\ j \in 0..(P + 1)
    BY <1>1, <2>1
  <2>3. end[j - 1] \in 0..N /\ end[j] \in 0..N
    BY <1>8, <2>2
  <2>4. end[j - 1] <= end[j]
    <3>1. end[j - 1] <= end[j] \/ end[j] = end[j - 1] + 1
      BY <1>8, <2>2
    <3> QED
      BY <1>1, <2>3, <3>1
  <2>5. end[j] <= N - 1
    BY <1>11, <2>1
  <2>6. end[j - 1] <= N - 1
    BY <1>1, <2>3, <2>4, <2>5
  <2> QED
    BY <2>2, <2>6
<1> HIDE DEF T
<1>12. \A n \in 0..P : n \in T
  BY <1>1, <1>10, <1>11, InductionUpTo
<1>13. ASSUME NEW j \in 0..P PROVE end[j] \in 0..(N - 1)
  <2>1. P - j \in 0..P /\ P - (P - j) = j /\ j \in 0..(P + 1)
    BY <1>1
  <2>2. end[j] <= N - 1
    BY <1>12, <2>1 DEF T
  <2>3. end[j] \in 0..N
    BY <1>8, <2>1
  <2> QED
    BY <1>1, <2>2, <2>3
<1>14. PICK g : g = [j \in 0..P |-> end[j]]
  OBVIOUS
<1>15. g \in [0..P -> 0..(N - 1)]
  BY <1>13, <1>14
<1>16. g[0] = 0 /\ g[P] = N - 1
  BY <1>1, <1>8, <1>9, <1>14
<1>17. ASSUME NEW j \in 1..P
       PROVE  \/ p[j] = "*" /\ g[j - 1] <= g[j]
              \/ g[j] = g[j - 1] + 1 /\ charMatches(front[g[j]], p[j])
  <2>1. j \in 1..(P + 1) /\ j - 1 \in 0..P /\ j \in 0..P /\ q[j] = p[j]
    BY <1>1, <1>4
  <2>2. g[j] = end[j] /\ g[j - 1] = end[j - 1]
    BY <1>14, <2>1
  <2>3. CASE q[j] = "*" /\ end[j - 1] <= end[j]
    BY <2>1, <2>2, <2>3
  <2>4. CASE end[j] = end[j - 1] + 1 /\ charMatches(file[end[j]], q[j])
    <3>1. end[j] \in 0..(N - 1) /\ end[j - 1] \in 0..(N - 1)
      BY <1>13, <2>1
    <3>2. end[j] \in 1..(N - 1)
      BY <1>1, <2>4, <3>1
    <3> QED
      BY <1>7, <2>1, <2>2, <2>4, <3>2
  <2> QED
    BY <1>8, <2>1, <2>3, <2>4
<1>18. Covers(p, front)
  <2>1. g \in [0..Len(p) -> 0..Len(front)]
    BY <1>1, <1>6, <1>15
  <2>2. g[0] = 0 /\ g[Len(p)] = Len(front)
    BY <1>1, <1>6, <1>16
  <2>3. \A j \in 1..Len(p) :
          \/ p[j] = "*" /\ g[j - 1] <= g[j]
          \/ g[j] = g[j - 1] + 1 /\ charMatches(front[g[j]], p[j])
    BY <1>1, <1>17
  <2> QED
    BY <2>1, <2>2, <2>3, Zenon DEF Covers
<1> QED
  BY <1>5, <1>18

\* And the other way around.
LEMMA CoversAppend ==
  ASSUME NEW p \in Seq(Chars), NEW file \in Seq(Chars), file # <<>>, Last(file) \in Chars, Covers(p, Front(file))
  PROVE  Covers(Append(p, Last(file)), file)
<1>1. PICK P, N : P = Len(p) /\ N = Len(file) /\ P \in Nat /\ N \in Nat
  BY LenProperties
<1>2. PICK q, e : q = Append(p, e) /\ e = Last(file)
  OBVIOUS
<1>4. q \in Seq(Chars) /\ Len(q) = P + 1 /\ q[P + 1] = e /\ \A j \in 1..P : q[j] = p[j]
  BY <1>1, <1>2, AppendProperties
<1>5. PICK front : front = Front(file)
  OBVIOUS
<1>6. front \in Seq(Chars) /\ Len(front) = N - 1 /\ N - 1 \in 0..N /\ front = SubSeq(file, 1, N - 1)
  BY <1>1, <1>5, FrontLaw
<1>7. \A i \in 1..(N - 1) : front[i] = file[i]
  BY <1>1, <1>6, SubSeqLaw
<1>8. PICK end \in [0..P -> 0..(N - 1)] :
        /\ end[0] = 0 /\ end[P] = N - 1
        /\ \A j \in 1..P : \/ p[j] = "*" /\ end[j - 1] <= end[j]
                           \/ end[j] = end[j - 1] + 1 /\ charMatches(front[end[j]], p[j])
  BY <1>1, <1>5, <1>6 DEF Covers
<1>9. PICK g : g = [j \in 0..(P + 1) |-> IF j = P + 1 THEN N ELSE end[j]]
  OBVIOUS
<1>10. ASSUME NEW j \in 0..P PROVE g[j] = end[j] /\ end[j] \in 0..(N - 1)
  <2>1. j \in 0..(P + 1) /\ j # P + 1
    BY <1>1
  <2>2. g[j] = end[j]
    BY <1>9, <2>1
  <2> QED
    BY <1>8, <2>2
<1>11. g[P + 1] = N
  BY <1>1, <1>9
<1>12. g \in [0..(P + 1) -> 0..N]
  <2>1. ASSUME NEW j \in 0..(P + 1) PROVE g[j] \in 0..N
    <3>1. CASE j = P + 1
      BY <1>1, <1>11, <3>1
    <3>2. CASE j # P + 1
      <4>1. j \in 0..P
        BY <1>1, <3>2
      <4> QED
        BY <1>1, <1>10, <4>1
    <3> QED
      BY <3>1, <3>2
  <2> QED
    BY <1>9, <2>1
<1>13. g[0] = 0
  BY <1>1, <1>8, <1>10
<1>14. ASSUME NEW j \in 1..(P + 1)
       PROVE  \/ q[j] = "*" /\ g[j - 1] <= g[j]
              \/ g[j] = g[j - 1] + 1 /\ charMatches(file[g[j]], q[j])
  <2>1. CASE j = P + 1
    <3>1. j - 1 = P /\ P \in 0..P
      BY <1>1, <2>1
    <3>2. g[j] = N /\ g[j - 1] = N - 1
      BY <1>8, <1>10, <1>11, <2>1, <3>1
    <3>3. file[N] = e
      BY <1>1, <1>2 DEF Last
    <3> QED
      BY <1>1, <1>4, <2>1, <3>2, <3>3 DEF charMatches
  <2>2. CASE j # P + 1
    <3>1. j \in 1..P /\ j \in 0..P /\ j - 1 \in 0..P
      BY <1>1, <2>2
    <3>2. g[j] = end[j] /\ g[j - 1] = end[j - 1] /\ q[j] = p[j] /\ end[j] \in 0..(N - 1) /\ end[j - 1] \in 0..(N - 1)
      BY <1>4, <1>10, <3>1
    <3>3. CASE p[j] = "*" /\ end[j - 1] <= end[j]
      BY <3>2, <3>3
    <3>4. CASE end[j] = end[j - 1] + 1 /\ charMatches(front[end[j]], p[j])
      <4>1. end[j] \in 1..(N - 1)
        BY <1>1, <3>2, <3>4
      <4> QED
        BY <1>7, <3>2, <3>4, <4>1
    <3> QED
      BY <1>8, <3>1, <3>3, <3>4
  <2> QED
    BY <2>1, <2>2
<1> QED
  BY <1>1, <1>2, <1>4, <1>11, <1>12, <1>13, <1>14 DEF Covers

-----------------------------------------------------------------------------
(***************************************************************************)
(* The order of names.                                                     *)
(***************************************************************************)

LEMMA RankLaw ==
  ASSUME NEW c \in Chars, NEW d \in Chars
  PROVE  Rank(c) \in Nat /\ (Rank(c) = Rank(d) => c = d)
<1>1. \A x \in Chars : \E i \in DOMAIN Alphabet : Alphabet[i] = x
  BY DEF Chars, Range
<1>2. \A x \in Chars : Rank(x) \in DOMAIN Alphabet /\ Alphabet[Rank(x)] = x
  BY <1>1 DEF Rank
<1>3. DOMAIN Alphabet = 1..Len(Alphabet) /\ Len(Alphabet) \in Nat
  BY AlphabetAssumption, LenProperties
<1> QED
  BY <1>2, <1>3

LEMMA LessTransitive ==
  ASSUME NEW x \in Seq(Chars), NEW y \in Seq(Chars), NEW z \in Seq(Chars),
         Less(x, y), Less(y, z)
  PROVE  Less(x, z)
<1>1. PICK X, Y, Z : /\ X = Len(x) /\ Y = Len(y) /\ Z = Len(z) /\ X \in Nat /\ Y \in Nat /\ Z \in Nat
                     /\ DOMAIN x = 1..X /\ DOMAIN y = 1..Y /\ DOMAIN z = 1..Z
  BY LenProperties
<1>2. PICK i \in 1..Y : i <= X + 1 /\ (\A j \in 1..(i - 1) : x[j] = y[j]) /\ (i <= X => Rank(x[i]) < Rank(y[i]))
  BY <1>1 DEF Less
<1>3. PICK k \in 1..Z : k <= Y + 1 /\ (\A j \in 1..(k - 1) : y[j] = z[j]) /\ (k <= Y => Rank(y[k]) < Rank(z[k]))
  BY <1>1 DEF Less
<1>4. CASE i < k
  <2>1. i \in 1..Z /\ i \in 1..(k - 1) /\ \A j \in 1..(i - 1) : j \in 1..(k - 1)
    BY <1>1, <1>4
  <2>2. \A j \in 1..(i - 1) : x[j] = z[j]
    BY <1>2, <1>3, <2>1
  <2>3. i <= X => Rank(x[i]) < Rank(z[i])
    BY <1>2, <1>3, <2>1
  <2> QED
    BY <1>1, <1>2, <2>1, <2>2, <2>3 DEF Less
<1>5. CASE i = k
  <2>1. \A j \in 1..(i - 1) : x[j] = z[j]
    BY <1>2, <1>3, <1>5
  <2>2. i \in 1..Z
    BY <1>5
  <2>3. i <= X => Rank(x[i]) < Rank(z[i])
    <3> SUFFICES ASSUME i <= X PROVE Rank(x[i]) < Rank(z[i])
      OBVIOUS
    <3>1. x[i] \in Chars /\ y[i] \in Chars /\ z[i] \in Chars
      <4>1. i \in 1..X
        BY <1>1
      <4> QED
        BY <1>1, <2>2, <4>1, ElementOfSeq
    <3>2. Rank(x[i]) \in Nat /\ Rank(y[i]) \in Nat /\ Rank(z[i]) \in Nat
      BY <3>1, RankLaw
    <3>3. Rank(x[i]) < Rank(y[i]) /\ Rank(y[i]) < Rank(z[i])
      BY <1>1, <1>2, <1>3, <1>5
    <3> QED
      BY <3>2, <3>3
  <2> QED
    BY <1>1, <1>2, <2>1, <2>2, <2>3 DEF Less
<1>6. CASE k < i
  <2>1. k <= X /\ k <= Y /\ k \in 1..(i - 1) /\ \A j \in 1..(k - 1) : j \in 1..(i - 1)
    BY <1>1, <1>2, <1>6
  <2>2. \A j \in 1..(k - 1) : x[j] = z[j]
    BY <1>2, <1>3, <2>1
  <2>3. x[k] = y[k] /\ Rank(y[k]) < Rank(z[k])
    BY <1>2, <1>3, <2>1
  <2>4. k <= X + 1
    BY <1>1, <2>1
  <2> QED
    BY <1>1, <2>1, <2>2, <2>3, <2>4 DEF Less
<1> QED
  BY <1>1, <1>4, <1>5, <1>6

\* The first place where two names differ.
LEMMA LessTotal ==
  ASSUME NEW x \in Seq(Chars), NEW y \in Seq(Chars), x # y
  PROVE  Less(x, y) \/ Less(y, x)
<1>1. PICK X, Y : /\ X = Len(x) /\ Y = Len(y) /\ X \in Nat /\ Y \in Nat
                  /\ DOMAIN x = 1..X /\ DOMAIN y = 1..Y
  BY LenProperties
<1> DEFINE D == {i \in Nat : i >= 1 /\ (i > X \/ i > Y \/ x[i] # y[i])}
<1>2. D \subseteq Nat /\ D # {}
  <2>1. X + 1 \in D
    BY <1>1
  <2> QED
    BY <2>1
<1>3. PICK i \in D : \A j \in D : ~(j < i)
  <2> HIDE DEF D
  <2> QED
    BY <1>2, LeastOf
<1>4. \A j \in 1..(i - 1) : j <= X /\ j <= Y /\ x[j] = y[j]
  <2> TAKE j \in 1..(i - 1)
  <2>1. j \notin D /\ j \in Nat /\ j >= 1
    BY <1>3
  <2> QED
    BY <1>1, <2>1
<1>5. i \in Nat /\ i >= 1 /\ (i > X \/ i > Y \/ x[i] # y[i])
  BY <1>3
<1>6. i <= X + 1 /\ i <= Y + 1
  <2>1. CASE i = 1
    BY <1>1, <2>1
  <2>2. CASE i # 1
    <3>1. i - 1 \in 1..(i - 1)
      BY <1>5, <2>2
    <3>2. i - 1 <= X /\ i - 1 <= Y
      BY <1>4, <3>1
    <3> QED
      BY <1>1, <1>5, <3>2
  <2> QED
    BY <2>1, <2>2
<1> HIDE DEF D
<1>7. CASE i <= X /\ i <= Y
  <2>1. i \in 1..X /\ i \in 1..Y
    BY <1>1, <1>5, <1>7
  <2>2. x[i] \in Chars /\ y[i] \in Chars /\ x[i] # y[i]
    <3>1. x[i] # y[i]
      BY <1>1, <1>5, <1>7
    <3> QED
      BY <1>1, <2>1, <3>1, ElementOfSeq
  <2>3. Rank(x[i]) \in Nat /\ Rank(y[i]) \in Nat /\ Rank(x[i]) # Rank(y[i])
    BY <2>2, RankLaw
  <2>4. CASE Rank(x[i]) < Rank(y[i])
    BY <1>1, <1>4, <1>6, <2>1, <2>4 DEF Less
  <2>5. CASE Rank(y[i]) < Rank(x[i])
    BY <1>1, <1>4, <1>6, <2>1, <2>5 DEF Less
  <2> QED
    BY <2>3, <2>4, <2>5
<1>8. CASE i > X /\ i <= Y
  <2>1. i \in 1..Y /\ ~(i <= X)
    BY <1>1, <1>5, <1>8
  <2> QED
    BY <1>1, <1>4, <1>6, <2>1 DEF Less
<1>9. CASE i <= X /\ i > Y
  <2>1. i \in 1..X /\ ~(i <= Y)
    BY <1>1, <1>5, <1>9
  <2> QED
    BY <1>1, <1>4, <1>6, <2>1 DEF Less
<1>10. CASE i > X /\ i > Y
  <2>1. X = Y /\ X = i - 1
    BY <1>1, <1>5, <1>6, <1>10
  <2>2. x = y
    BY <1>1, <1>4, <2>1, SeqEqual
  <2> QED
    BY <2>2
<1> QED
  BY <1>1, <1>5, <1>7, <1>8, <1>9, <1>10

\* Some names have a first one, if they are finitely many.
LEMMA FirstOfNames ==
  ASSUME NEW S \in SUBSET Seq(Chars), IsFiniteSet(S), S # {}
  PROVE  \E x \in S : \A y \in S \ {x} : Less(x, y)
<1>1. PICK n \in Nat : \E f : f \in Surjection(1..n, S)
  <2>1. PICK n \in Nat : ExistsSurjection(1..n, S)
    BY FS_NatSurjection
  <2> QED
    BY <2>1 DEF ExistsSurjection
<1>2. PICK f : f \in Surjection(1..n, S)
  BY <1>1
<1>3. f \in [1..n -> S] /\ \A x \in S : \E i \in 1..n : f[i] = x
  BY <1>2 DEF Surjection
<1> DEFINE T == {k \in Nat : k >= 1 => \E x \in S : \A i \in 1..k : i <= n => x = f[i] \/ Less(x, f[i])}
<1>4. 0 \in T
  OBVIOUS
<1>5. ASSUME NEW k \in 1..n, k - 1 \in T PROVE k \in T
  <2>1. f[k] \in S /\ f[k] \in Seq(Chars)
    BY <1>3
  <2>2. CASE k = 1
    <3>1. \A i \in 1..k : i <= n => f[k] = f[i]
      BY <2>2
    <3> QED
      BY <2>1, <3>1
  <2>3. CASE k # 1
    <3>1. PICK x \in S : \A i \in 1..(k - 1) : i <= n => x = f[i] \/ Less(x, f[i])
      BY <1>5, <2>3
    <3>2. x = f[k] \/ Less(x, f[k]) \/ Less(f[k], x)
      BY <2>1, LessTotal
    <3>3. CASE x = f[k] \/ Less(x, f[k])
      <4>1. \A i \in 1..k : i <= n => x = f[i] \/ Less(x, f[i])
        <5> TAKE i \in 1..k
        <5>1. i = k \/ i \in 1..(k - 1)
          OBVIOUS
        <5> QED
          BY <3>1, <3>3, <5>1
      <4> QED
        BY <4>1
    <3>4. CASE Less(f[k], x)
      <4>1. ASSUME NEW i \in 1..k, i <= n PROVE f[k] = f[i] \/ Less(f[k], f[i])
        <5>1. CASE i = k
          BY <5>1
        <5>2. CASE i # k
          <6>1. i \in 1..(k - 1) /\ i \in 1..n
            BY <4>1, <5>2
          <6>2. x = f[i] \/ Less(x, f[i])
            BY <3>1, <6>1
          <6>3. f[i] \in Seq(Chars)
            BY <1>3, <6>1
          <6> QED
            BY <2>1, <3>4, <6>2, <6>3, LessTransitive
        <5> QED
          BY <5>1, <5>2
      <4> QED
        BY <2>1, <4>1
    <3> QED
      BY <3>2, <3>3, <3>4
  <2> QED
    BY <2>2, <2>3
<1> HIDE DEF T
<1>6. \A k \in 0..n : k \in T
  BY <1>4, <1>5, InductionUpTo
<1>7. n >= 1
  <2>1. PICK x \in S : TRUE
    OBVIOUS
  <2>2. PICK i \in 1..n : f[i] = x
    BY <1>3
  <2> QED
    BY <2>2
<1>8. PICK x \in S : \A i \in 1..n : i <= n => x = f[i] \/ Less(x, f[i])
  <2>1. n \in T
    BY <1>6
  <2> QED
    BY <1>7, <2>1 DEF T
<1>9. \A y \in S \ {x} : Less(x, y)
  <2> TAKE y \in S \ {x}
  <2>1. PICK i \in 1..n : f[i] = y
    BY <1>3
  <2> QED
    BY <1>8, <2>1
<1> QED
  BY <1>9

-----------------------------------------------------------------------------
(***************************************************************************)
(* The names registered for one.                                           *)
(***************************************************************************)

\* What is put behind a sequence is its last element.
LEMMA AppendLaw ==
  ASSUME NEW S, NEW s \in Seq(S), NEW c \in S, NEW t, t = Append(s, c)
  PROVE  t \in Seq(S) /\ t # <<>> /\ Last(t) = c /\ Front(t) = s
<1>1. PICK N \in Nat : N = Len(s)
  BY LenProperties
<1>3. t \in Seq(S) /\ t # <<>> /\ Len(t) = N + 1 /\ t[N + 1] = c /\ \A i \in 1..N : t[i] = s[i]
  BY <1>1, AppendProperties
<1>4. PICK front : front = Front(t)
  OBVIOUS
<1>5. front \in Seq(S) /\ Len(front) = N /\ front = SubSeq(t, 1, N)
  <2>1. (N + 1) - 1 = N
    OBVIOUS
  <2> QED
    BY <1>3, <1>4, <2>1, FrontLaw
<1>6. \A i \in 1..N : front[i] = t[i]
  <2>1. N \in 0..Len(t)
    BY <1>3
  <2> QED
    BY <1>3, <1>5, <2>1, SubSeqLaw
<1>7. front = s
  BY <1>1, <1>3, <1>5, <1>6, SeqEqual
<1> QED
  BY <1>3, <1>4, <1>7 DEF Last

\* The last element, and what comes before it.
LEMMA LastLaw ==
  ASSUME NEW S, NEW s \in Seq(S), s # <<>>
  PROVE  Front(s) \in Seq(S) /\ Last(s) \in S /\ s = Append(Front(s), Last(s))
<1>1. PICK N \in Nat : N = Len(s)
  BY LenProperties
<1>2. N # 0
  BY <1>1, EmptySeq
<1>3. N \in 1..N
  BY <1>2
<1>4. PICK last \in S : last = Last(s) /\ last = s[N]
  BY <1>1, <1>3, ElementOfSeq DEF Last
<1>5. PICK p : p = Front(s)
  OBVIOUS
<1>6. p \in Seq(S) /\ Len(p) = N - 1 /\ p = SubSeq(s, 1, N - 1) /\ N - 1 \in 0..N
  BY <1>1, <1>5, FrontLaw
<1>7. \A i \in 1..(N - 1) : p[i] = s[i]
  BY <1>1, <1>6, SubSeqLaw
<1>8. PICK u : u = Append(p, last)
  OBVIOUS
<1>9. u \in Seq(S) /\ Len(u) = N /\ u[N] = last /\ \A i \in 1..(N - 1) : u[i] = p[i]
  <2>1. (N - 1) + 1 = N
    OBVIOUS
  <2> QED
    BY <1>4, <1>6, <1>8, <2>1, AppendProperties
<1>10. \A i \in 1..N : u[i] = s[i]
  <2> TAKE i \in 1..N
  <2>1. i = N \/ i \in 1..(N - 1)
    OBVIOUS
  <2> QED
    BY <1>4, <1>7, <1>9, <2>1
<1>11. u = s
  BY <1>1, <1>9, <1>10, SeqEqual
<1> QED
  BY <1>4, <1>5, <1>6, <1>8, <1>11

LEMMA CutLaw ==
  ASSUME NEW name \in Seq(Chars), NEW c \in Chars, NEW x
  PROVE  /\ Cut(name, x) \in Seq(Chars)
         /\ Cut(Append(name, c), c) = name
         /\ (name = <<>> \/ Last(name) # x) => Cut(name, x) = name
<1>1. name # <<>> => Front(name) \in Seq(Chars)
  BY LastLaw
<1>2. PICK longer : longer = Append(name, c) /\ longer # <<>> /\ Last(longer) = c /\ Front(longer) = name
  BY AppendLaw
<1>3. Cut(name, x) \in Seq(Chars)
  <2>1. CASE name # <<>> /\ Last(name) = x
    BY <1>1, <2>1, Zenon DEF Cut
  <2>2. CASE ~(name # <<>> /\ Last(name) = x)
    BY <2>2, Zenon DEF Cut
  <2> QED
    BY <2>1, <2>2
<1>4. Cut(longer, c) = name
  BY <1>2, Zenon DEF Cut
<1>5. (name = <<>> \/ Last(name) # x) => Cut(name, x) = name
  BY DEF Cut
<1> QED
  BY <1>2, <1>3, <1>4, <1>5

LEMMA AddSuffixType ==
  ASSUME NEW name \in Seq(Chars), NEW sfx \in Chars, NEW prev
  PROVE  addSuffix(name, sfx, prev) \in Seq(Chars)
<1>1. Cut(name, prev) \in Seq(Chars)
  BY CutLaw
<1>2. Cut(Cut(name, prev), sfx) \in Seq(Chars)
  BY <1>1, CutLaw
<1> QED
  BY <1>2, AppendProperties DEF addSuffix

\* One name more.
Suffixing(name, names, sfx) ==
  Append(names, IF names = <<>> THEN addSuffix(name, sfx, noSuffix)
                ELSE addSuffix(Last(names), sfx, Extensions[Len(names)]))

LEMMA SuffixingType ==
  ASSUME NEW name \in Seq(Chars), NEW names \in Seq(Seq(Chars)), NEW sfx \in Chars
  PROVE  Suffixing(name, names, sfx) \in Seq(Seq(Chars))
<1>1. CASE names = <<>>
  <2>1. addSuffix(name, sfx, noSuffix) \in Seq(Chars)
    BY AddSuffixType
  <2>2. Suffixing(name, names, sfx) = Append(names, addSuffix(name, sfx, noSuffix))
    BY <1>1, Zenon DEF Suffixing
  <2> QED
    BY <2>1, <2>2, AppendProperties
<1>2. CASE names # <<>>
  <2>1. PICK last \in Seq(Chars) : last = Last(names)
    <3>1. Len(names) \in Nat \ {0}
      BY <1>2, EmptySeq
    <3>2. Len(names) \in 1..Len(names)
      BY <3>1
    <3> QED
      BY <3>2, ElementOfSeq DEF Last
  <2>2. addSuffix(last, sfx, Extensions[Len(names)]) \in Seq(Chars)
    BY AddSuffixType
  <2>3. Suffixing(name, names, sfx) = Append(names, addSuffix(last, sfx, Extensions[Len(names)]))
    BY <1>2, <2>1, Zenon DEF Suffixing
  <2> QED
    BY <2>2, <2>3, AppendProperties
<1> QED
  BY <1>1, <1>2

\* insert makes the names one by one.
LEMMA SuffixedSteps ==
  ASSUME NEW name \in Seq(Chars)
  PROVE  \E f : /\ f[0] = <<>> /\ Suffixed(name) = f[9]
                /\ \A k \in 1..9 : f[k] = Suffixing(name, f[k - 1], Extensions[k])
                /\ \A k \in 0..9 : f[k] \in Seq(Seq(Chars))
<1> DEFINE Y == Seq(Seq(Chars))
<1>1. \A p \in Y, t \in Chars : Suffixing(name, p, t) \in Y
  BY SuffixingType
<1>2. PICK none : none = <<>> /\ none \in Y
  <2> PICK none : none = <<>>
    OBVIOUS
  <2>1. none \in Seq(Seq(Chars))
    OBVIOUS
  <2> QED
    BY <2>1
<1> DEFINE iter == CHOOSE it : it = [s \in SUBSET DOMAIN Extensions |->
              IF s = {} THEN none ELSE Suffixing(name, it[s \ {Max(s)}], Extensions[Max(s)])]
<1>3. Suffixed(name) = iter[DOMAIN Extensions]
  BY <1>2 DEF Suffixed, FoldLeft, MapThenFoldSet, Suffixing
<1>4. PICK F : F = [p \in Y \X Chars |-> Suffixing(name, p[1], p[2])]
  OBVIOUS
<1>5. F \in [Y \X Chars -> Y]
  BY <1>1, <1>4
<1>0. Extensions \in Seq(Chars) /\ Len(Extensions) = 9
  BY ExtensionsAre
<1>6. PICK it : Folding(it, F, none, Extensions, Chars, Y)
  <2> HIDE DEF iter, Y
  <2> QED
    BY <1>0, <1>2, <1>5, FoldDefined, Zenon
<1>7. it = [s \in SUBSET DOMAIN Extensions |->
              IF s = {} THEN none ELSE Suffixing(name, it[s \ {Max(s)}], Extensions[Max(s)])]
  <2> HIDE DEF iter, Y
  <2> QED
    BY <1>4, <1>6 DEF Folding
<1>8. iter = [s \in SUBSET DOMAIN Extensions |->
              IF s = {} THEN none ELSE Suffixing(name, iter[s \ {Max(s)}], Extensions[Max(s)])]
  BY <1>7
<1> HIDE DEF iter, Y
<1>9. PICK f : Beginnings(f, iter, Extensions)
  BY <1>0, FoldSteps
<1>10. f[0] = none /\ f[9] = iter[DOMAIN Extensions]
  BY <1>0, <1>8, <1>9 DEF Beginnings
<1>11. ASSUME NEW k \in 1..9 PROVE f[k] = Suffixing(name, f[k - 1], Extensions[k])
  <2>1. /\ f[k] = iter[1..k] /\ 1..k \in SUBSET DOMAIN Extensions /\ 1..k # {}
        /\ f[k - 1] = iter[(1..k) \ {Max(1..k)}] /\ Max(1..k) = k
    BY <1>0, <1>9 DEF Beginnings
  <2> QED
    BY <1>8, <2>1, Zenon
<1>13. \A k \in 0..9 : f[k] \in Y
  <2> DEFINE T == {k \in Nat : f[k] \in Y}
  <2>1. 0 \in T
    BY <1>2, <1>10
  <2>2. ASSUME NEW k \in 1..9, k - 1 \in T PROVE k \in T
    <3>1. Extensions[k] \in Chars
      BY ExtensionsAre
    <3> QED
      BY <1>1, <1>11, <2>2, <3>1
  <2> HIDE DEF T
  <2>3. \A k \in 0..9 : k \in T
    BY <2>1, <2>2, InductionUpTo
  <2> QED
    BY <2>3 DEF T
<1> QED
  BY <1>2, <1>3, <1>10, <1>11, <1>13 DEF Y

LEMMA SuffixedType ==
  ASSUME NEW name \in Seq(Chars)
  PROVE  Suffixed(name) \in Seq(Seq(Chars))
<1>1. PICK f : Suffixed(name) = f[9] /\ \A k \in 0..9 : f[k] \in Seq(Seq(Chars))
  BY SuffixedSteps
<1>2. 9 \in 0..9
  OBVIOUS
<1> QED
  BY <1>1, <1>2

\* Extensions that come before the one of a name are put behind it, the others take its place.
Plain(name) == name # <<>> /\ \A j \in 1..(Len(name) - 1) : name[j] \notin Range(Extensions)
Base(name) == IF Extended(name) THEN Front(name) ELSE name
Stem(name, i) == IF \E j \in 1..9 : i < j /\ Last(name) = Extensions[j] THEN name ELSE Base(name)

LEMMA BaseLaw ==
  ASSUME NEW name \in Seq(Chars), Plain(name)
  PROVE  /\ Base(name) \in Seq(Chars) /\ (Base(name) = <<>> \/ Last(Base(name)) \notin Range(Extensions))
         /\ \A i : Stem(name, i) \in Seq(Chars)
<1>1. name # <<>> /\ Front(name) \in Seq(Chars)
  BY LastLaw DEF Plain
<1>2. Base(name) \in Seq(Chars)
  BY <1>1 DEF Base
<1>3. ASSUME Front(name) # <<>> PROVE Last(Front(name)) \notin Range(Extensions)
  <2>1. PICK N \in Nat : N = Len(name)
    BY LenProperties
  <2>2. PICK p : p = Front(name)
    OBVIOUS
  <2>3. p \in Seq(Chars) /\ Len(p) = N - 1 /\ p = SubSeq(name, 1, N - 1) /\ N - 1 \in 0..N
    BY <1>1, <2>1, <2>2, FrontLaw
  <2>4. N - 1 # 0
    BY <1>3, <2>2, <2>3, EmptySeq
  <2>5. N - 1 \in 1..(N - 1)
    BY <2>3, <2>4
  <2>6. p[N - 1] = name[N - 1]
    BY <2>1, <2>3, <2>5, SubSeqLaw
  <2>7. name[N - 1] \notin Range(Extensions)
    BY <2>1, <2>5 DEF Plain
  <2> QED
    BY <2>2, <2>3, <2>6, <2>7 DEF Last
<1>4. Base(name) = <<>> \/ Last(Base(name)) \notin Range(Extensions)
  <2>1. CASE Extended(name)
    BY <1>3, <2>1, Zenon DEF Base
  <2>2. CASE ~Extended(name)
    BY <2>2, Zenon DEF Base, Extended
  <2> QED
    BY <2>1, <2>2
<1>5. \A i : Stem(name, i) \in Seq(Chars)
  BY <1>2, Zenon DEF Stem
<1> QED
  BY <1>2, <1>4, <1>5

LEMMA StemStep ==
  ASSUME NEW name \in Seq(Chars), Plain(name), NEW k \in 1..9
  PROVE  Cut(Stem(name, k - 1), Extensions[k]) = Stem(name, k) /\ Stem(name, 0) = name
<1>0. /\ name # <<>> /\ Base(name) \in Seq(Chars) /\ (Base(name) = <<>> \/ Last(Base(name)) \notin Range(Extensions))
      /\ Extensions[k] \in Range(Extensions) /\ Extensions[k] \in Chars
  BY BaseLaw, ExtensionsAre DEF Plain
<1>1. Cut(Base(name), Extensions[k]) = Base(name)
  BY <1>0, CutLaw
<1>2. CASE ~Extended(name)
  <2>1. \A j \in 1..9 : Last(name) # Extensions[j]
    BY <1>2, ExtensionsAre DEF Extended
  <2>2. \A i : Stem(name, i) = Base(name)
    BY <2>1, Zenon DEF Stem
  <2>3. Base(name) = name
    BY <1>2 DEF Base
  <2> QED
    BY <1>1, <2>2, <2>3
<1>3. CASE Extended(name)
  <2>1. PICK m \in 1..9 : Last(name) = Extensions[m]
    BY <1>3, ExtensionsAre DEF Extended
  <2>2. \A j \in 1..9 : Last(name) = Extensions[j] => j = m
    BY <2>1, ExtensionsAre
  <2>3. \A i \in 0..9 : Stem(name, i) = IF i < m THEN name ELSE Base(name)
    <3> TAKE i \in 0..9
    <3>1. (\E j \in 1..9 : i < j /\ Last(name) = Extensions[j]) <=> i < m
      BY <2>1, <2>2
    <3> QED
      BY <3>1, Zenon DEF Stem
  <2>4. Stem(name, 0) = name
    BY <2>3
  <2>5. k \in 0..9 /\ k - 1 \in 0..9
    OBVIOUS
  <2>6. CASE k < m
    <3>1. Stem(name, k - 1) = name /\ Stem(name, k) = name
      BY <2>3, <2>5, <2>6
    <3>2. Last(name) # Extensions[k]
      BY <2>2, <2>6
    <3> QED
      BY <1>0, <2>4, <3>1, <3>2, CutLaw
  <2>7. CASE k = m
    <3>1. Stem(name, k - 1) = name /\ Stem(name, k) = Base(name)
      BY <2>3, <2>5, <2>7
    <3>2. Cut(name, Extensions[k]) = Front(name)
      BY <1>0, <2>1, <2>7, Zenon DEF Cut
    <3>3. Base(name) = Front(name)
      BY <1>3 DEF Base
    <3> QED
      BY <2>4, <3>1, <3>2, <3>3
  <2>8. CASE k > m
    <3>1. Stem(name, k - 1) = Base(name) /\ Stem(name, k) = Base(name)
      BY <2>3, <2>5, <2>8
    <3> QED
      BY <1>1, <2>4, <3>1
  <2> QED
    BY <2>6, <2>7, <2>8
<1> QED
  BY <1>2, <1>3

\* What is registered for a name.
LEMMA SuffixedLaw ==
  ASSUME NEW name \in Seq(Chars), Plain(name)
  PROVE  Len(Suffixed(name)) = 9 /\ \A i \in 1..9 : Suffixed(name)[i] = Append(Stem(name, i), Extensions[i])
<1>1. PICK f : /\ f[0] = <<>> /\ Suffixed(name) = f[9]
               /\ \A k \in 1..9 : f[k] = Suffixing(name, f[k - 1], Extensions[k])
               /\ \A k \in 0..9 : f[k] \in Seq(Seq(Chars))
  BY SuffixedSteps
<1> DEFINE Right(k) == Len(f[k]) = k /\ \A i \in 1..k : f[k][i] = Append(Stem(name, i), Extensions[i])
    T == {k \in Nat : k <= 9 /\ Right(k)}
<1>2. 0 \in T
  <2>1. Len(f[0]) = 0
    BY <1>1
  <2> QED
    BY <2>1
<1>3. ASSUME NEW k \in 1..9, k - 1 \in T PROVE k \in T
  <2>1. PICK p, e : p = f[k - 1] /\ e = Extensions[k]
    OBVIOUS
  <2>2. p \in Seq(Seq(Chars)) /\ Len(p) = k - 1 /\ \A i \in 1..(k - 1) : p[i] = Append(Stem(name, i), Extensions[i])
    <3>1. k - 1 \in 0..9
      OBVIOUS
    <3> QED
      BY <1>1, <1>3, <2>1, <3>1
  <2>3. e \in Chars /\ Cut(Stem(name, k - 1), e) = Stem(name, k) /\ Stem(name, 0) = name /\ Stem(name, k) \in Seq(Chars)
    BY <2>1, ExtensionsAre, StemStep, BaseLaw
  <2>4. PICK new : new = Append(Stem(name, k), e) /\ new \in Seq(Chars)
    BY <2>3, AppendProperties
  <2>5. f[k] = Append(p, new)
    <3>1. CASE k = 1
      <4>1. p = <<>>
        BY <1>1, <2>1, <3>1
      <4>2. Suffixing(name, p, e) = Append(p, addSuffix(name, e, noSuffix))
        BY <4>1, Zenon DEF Suffixing
      <4>3. Last(name) # noSuffix
        BY LastLaw, AlphabetAssumption DEF Plain
      <4>4. Cut(name, noSuffix) = name
        BY <4>3, CutLaw, <2>3
      <4>5. k - 1 = 0
        BY <3>1
      <4>6. addSuffix(name, e, noSuffix) = new
        BY <2>3, <2>4, <4>4, <4>5 DEF addSuffix
      <4> QED
        BY <1>1, <2>1, <4>2, <4>6
    <3>2. CASE k # 1
      <4>1. k - 1 \in 1..(k - 1) /\ k - 1 \in 1..9 /\ Len(p) # 0
        BY <2>2, <3>2
      <4>2. p # <<>>
        BY <4>1
      <4>3. PICK d \in Chars : d = Extensions[k - 1]
        BY <4>1, ExtensionsAre
      <4>4. Last(p) = Append(Stem(name, k - 1), d)
        BY <2>2, <4>1, <4>3 DEF Last
      <4>5. Stem(name, k - 1) \in Seq(Chars)
        BY BaseLaw
      <4>6. Cut(Last(p), d) = Stem(name, k - 1)
        BY <4>4, <4>5, CutLaw
      <4>7. addSuffix(Last(p), e, d) = new
        BY <2>3, <2>4, <4>6 DEF addSuffix
      <4>8. Suffixing(name, p, e) = Append(p, addSuffix(Last(p), e, Extensions[Len(p)]))
        BY <4>2, Zenon DEF Suffixing
      <4> QED
        BY <1>1, <2>1, <2>2, <4>3, <4>7, <4>8
    <3> QED
      BY <3>1, <3>2
  <2>6. PICK q : q = f[k]
    OBVIOUS
  <2>7. Len(q) = k /\ q[k] = new /\ \A i \in 1..(k - 1) : q[i] = p[i]
    <3>1. (k - 1) + 1 = k
      OBVIOUS
    <3> QED
      BY <2>2, <2>4, <2>5, <2>6, <3>1, AppendProperties
  <2>8. \A i \in 1..k : q[i] = Append(Stem(name, i), Extensions[i])
    <3> TAKE i \in 1..k
    <3>1. i = k \/ i \in 1..(k - 1)
      OBVIOUS
    <3> QED
      BY <2>1, <2>2, <2>4, <2>7, <3>1
  <2> QED
    BY <2>6, <2>7, <2>8
<1> HIDE DEF T
<1>4. \A k \in 0..9 : k \in T
  BY <1>2, <1>3, InductionUpTo
<1>5. 9 \in T
  BY <1>4
<1> QED
  BY <1>1, <1>5 DEF T

\* Each has an extension, and the name with every extension is one of them, or with its own.
LEMMA RegisteredNames ==
  ASSUME NEW name \in Seq(Chars), Plain(name)
  PROVE  /\ \A n \in Range(Suffixed(name)) : \E e \in Range(Extensions) :
              n = Append(Base(name), e) \/ (Extended(name) /\ n = Append(name, e))
         /\ \A e \in Range(Extensions) :
              (Extended(name) => Last(name) = e) => Append(Base(name), e) \in Range(Suffixed(name))
<1>1. PICK q : q = Suffixed(name) /\ DOMAIN q = 1..9 /\ \A i \in 1..9 : q[i] = Append(Stem(name, i), Extensions[i])
  <2>1. PICK q : q = Suffixed(name)
    OBVIOUS
  <2>2. Len(q) = 9 /\ \A i \in 1..9 : q[i] = Append(Stem(name, i), Extensions[i])
    BY <2>1, SuffixedLaw
  <2>3. DOMAIN q = 1..Len(q)
    BY <2>1, SuffixedType, LenProperties
  <2> QED
    BY <2>1, <2>2, <2>3
<1>2. ASSUME NEW n \in Range(q)
      PROVE  \E e \in Range(Extensions) : n = Append(Base(name), e) \/ (Extended(name) /\ n = Append(name, e))
  <2>1. PICK i \in 1..9 : n = q[i]
    BY <1>1 DEF Range
  <2>2. n = Append(Stem(name, i), Extensions[i]) /\ Extensions[i] \in Range(Extensions)
    BY <1>1, <2>1, ExtensionsAre
  <2>3. CASE \E j \in 1..9 : i < j /\ Last(name) = Extensions[j]
    <3>1. Stem(name, i) = name
      BY <2>3, Zenon DEF Stem
    <3>2. Extended(name)
      BY <2>3, ExtensionsAre DEF Extended
    <3> QED
      BY <2>2, <3>1, <3>2
  <2>4. CASE ~\E j \in 1..9 : i < j /\ Last(name) = Extensions[j]
    <3>1. Stem(name, i) = Base(name)
      BY <2>4, Zenon DEF Stem
    <3> QED
      BY <2>2, <3>1
  <2> QED
    BY <2>3, <2>4
<1>3. ASSUME NEW e \in Range(Extensions), Extended(name) => Last(name) = e PROVE Append(Base(name), e) \in Range(q)
  <2>1. PICK i \in 1..9 : e = Extensions[i]
    BY ExtensionsAre
  <2>2. ~\E j \in 1..9 : i < j /\ Last(name) = Extensions[j]
    <3> SUFFICES ASSUME NEW j \in 1..9, i < j, Last(name) = Extensions[j] PROVE FALSE
      OBVIOUS
    <3>1. Extended(name)
      BY ExtensionsAre DEF Extended
    <3>2. Extensions[i] = Extensions[j]
      BY <1>3, <2>1, <3>1
    <3>3. i = j
      BY <3>2, ExtensionsAre
    <3> QED
      BY <3>3
  <2>3. Stem(name, i) = Base(name)
    BY <2>2, Zenon DEF Stem
  <2>4. q[i] = Append(Base(name), e)
    BY <1>1, <2>1, <2>3
  <2> QED
    BY <1>1, <2>4 DEF Range
<1> QED
  BY <1>1, <1>2, <1>3

-----------------------------------------------------------------------------
(***************************************************************************)
(* What is registered for the lists in force.                              *)
(***************************************************************************)

ItemLevels == -1..9
NameLevels == UNION {[D -> ItemLevels] : D \in SUBSET Seq(Chars)}

LEMMA NameLevelsAre ==
  \A m : m \in NameLevels <=> /\ m = [n \in DOMAIN m |-> m[n]] /\ DOMAIN m \subseteq Seq(Chars)
                              /\ \A n \in DOMAIN m : m[n] \in ItemLevels
<1> TAKE m
<1>1. ASSUME m \in NameLevels
      PROVE  m = [n \in DOMAIN m |-> m[n]] /\ DOMAIN m \subseteq Seq(Chars) /\ \A n \in DOMAIN m : m[n] \in ItemLevels
  <2>1. PICK D \in SUBSET Seq(Chars) : m \in [D -> ItemLevels]
    BY <1>1 DEF NameLevels
  <2> QED
    BY <2>1
<1>2. ASSUME m = [n \in DOMAIN m |-> m[n]], DOMAIN m \subseteq Seq(Chars), \A n \in DOMAIN m : m[n] \in ItemLevels
      PROVE  m \in NameLevels
  <2>1. PICK D \in SUBSET Seq(Chars) : D = DOMAIN m
    BY <1>2
  <2>2. m \in [D -> ItemLevels]
    BY <1>2, <2>1
  <2> QED
    BY <2>2 DEF NameLevels
<1> QED
  BY <1>1, <1>2

\* If each item has a level, each name registered has that of an item it is for, and every item is registered.
Levelled(I) == \A item \in I : item.level # -1
RegisteredFor(m, I) ==
  Levelled(I) =>
    /\ \A n \in DOMAIN m : \E item \in I : n \in Range(Suffixed(item.name)) /\ m[n] = item.level
    /\ \A item \in I : Range(Suffixed(item.name)) \subseteq DOMAIN m

LEMMA ItemsAre ==
  ASSUME NEW item \in ModuleItems
  PROVE  item.name \in Seq(Chars) /\ Plain(item.name) /\ item.level \in ItemLevels
BY DEF ModuleItems, Plain, ItemLevels

LEMMA FiniteNames ==
  ASSUME NEW name \in Seq(Chars)
  PROVE  Range(Suffixed(name)) \subseteq Seq(Chars) /\ IsFiniteSet(Range(Suffixed(name)))
<1>1. PICK q : q = Suffixed(name) /\ q \in Seq(Seq(Chars))
  BY SuffixedType
<1>2. PICK N \in Nat : N = Len(q) /\ DOMAIN q = 1..N /\ \A i \in 1..N : q[i] \in Seq(Chars)
  BY <1>1, LenProperties, ElementOfSeq
<1>3. Range(q) \subseteq Seq(Chars)
  BY <1>2 DEF Range
<1>4. IsFiniteSet(Range(q))
  <2>1. PICK g : g = [i \in 1..N |-> q[i]]
    OBVIOUS
  <2>2. g \in Surjection(1..N, Range(q))
    BY <1>2, <2>1 DEF Surjection, Range
  <2>3. IsFiniteSet(1..N)
    BY FS_Interval
  <2> QED
    BY <2>2, <2>3, FS_Surjection
<1> QED
  BY <1>1, <1>3, <1>4

LEMMA InsertLaw ==
  ASSUME NEW m \in NameLevels, NEW name \in Seq(Chars), NEW lv \in ItemLevels, IsFiniteSet(DOMAIN m),
         NEW h, h = insert(m, name, lv)
  PROVE  /\ h \in NameLevels /\ IsFiniteSet(DOMAIN h) /\ DOMAIN h = DOMAIN m \cup Range(Suffixed(name))
         /\ \A n \in DOMAIN h : h[n] = IF n \in DOMAIN m THEN m[n] ELSE lv
<1>1. PICK D : D = DOMAIN m \cup Range(Suffixed(name))
  OBVIOUS
<1>3. h = [n \in D |-> IF n \in DOMAIN m THEN m[n] ELSE lv]
  BY <1>1 DEF insert
<1>4. DOMAIN m \subseteq Seq(Chars) /\ \A n \in DOMAIN m : m[n] \in ItemLevels
  BY NameLevelsAre
<1>5. D \subseteq Seq(Chars) /\ IsFiniteSet(D)
  BY <1>1, <1>4, FiniteNames, FS_Union
<1>6. DOMAIN h = D /\ \A n \in D : h[n] = (IF n \in DOMAIN m THEN m[n] ELSE lv) /\ h[n] \in ItemLevels
  BY <1>3, <1>4
<1>7. h = [n \in DOMAIN h |-> h[n]]
  BY <1>3
<1>8. h \in NameLevels
  BY <1>5, <1>6, <1>7, NameLevelsAre
<1> QED
  BY <1>1, <1>5, <1>6, <1>8

LEMMA InsertRegisters ==
  ASSUME NEW m \in NameLevels, NEW item \in ModuleItems, IsFiniteSet(DOMAIN m), NEW I, RegisteredFor(m, I)
  PROVE  RegisteredFor(insert(m, item.name, item.level), I \cup {item})
<1>1. PICK h : h = insert(m, item.name, item.level)
  OBVIOUS
<1>2. PICK new : new = Range(Suffixed(item.name))
  OBVIOUS
<1>3. DOMAIN h = DOMAIN m \cup new /\ \A n \in DOMAIN h : h[n] = IF n \in DOMAIN m THEN m[n] ELSE item.level
  <2>1. h = [n \in DOMAIN m \cup new |-> IF n \in DOMAIN m THEN m[n] ELSE item.level]
    BY <1>1, <1>2 DEF insert
  <2> QED
    BY <2>1
<1> SUFFICES ASSUME Levelled(I \cup {item})
             PROVE  /\ \A n \in DOMAIN h : \E i \in I \cup {item} : n \in Range(Suffixed(i.name)) /\ h[n] = i.level
                    /\ \A i \in I \cup {item} : Range(Suffixed(i.name)) \subseteq DOMAIN h
  BY <1>1 DEF RegisteredFor
<1>4. Levelled(I)
  BY DEF Levelled
<1>5. /\ \A n \in DOMAIN m : \E i \in I : n \in Range(Suffixed(i.name)) /\ m[n] = i.level
      /\ \A i \in I : Range(Suffixed(i.name)) \subseteq DOMAIN m
  BY <1>4 DEF RegisteredFor
<1>6. ASSUME NEW n \in DOMAIN h PROVE \E i \in I \cup {item} : n \in Range(Suffixed(i.name)) /\ h[n] = i.level
  <2>1. CASE n \in DOMAIN m
    BY <1>3, <1>5, <2>1
  <2>2. CASE n \notin DOMAIN m
    BY <1>2, <1>3, <2>2
  <2> QED
    BY <2>1, <2>2
<1>7. \A i \in I \cup {item} : Range(Suffixed(i.name)) \subseteq DOMAIN h
  BY <1>2, <1>3, <1>5
<1> QED
  BY <1>6, <1>7

\* What setModules has taken so far.
Parsing == [modules : NameLevels, ss : Seq(Chars)]
Sound(s, I) == IsFiniteSet(DOMAIN s.modules) /\ RegisteredFor(s.modules, I) /\ (Levelled(I) => s.ss = <<>>)

LEMMA WithItemType ==
  ASSUME NEW s \in Parsing, NEW item \in ModuleItems, IsFiniteSet(DOMAIN s.modules)
  PROVE  WithItem(s, item) \in Parsing /\ IsFiniteSet(DOMAIN WithItem(s, item).modules)
<1>1. PICK m, rest : m = s.modules /\ rest = s.ss /\ m \in NameLevels /\ rest \in Seq(Chars)
  BY DEF Parsing
<1>2. rest \o item.name \in Seq(Chars) /\ item.level \in ItemLevels
  BY <1>1, ItemsAre, ConcatProperties
<1>3. CASE item.level = -1
  <2>1. WithItem(s, item) = [modules |-> m, ss |-> rest \o item.name]
    BY <1>1, <1>3 DEF WithItem
  <2> QED
    BY <1>1, <1>2, <2>1 DEF Parsing
<1>4. CASE item.level # -1
  <2>0. PICK name \in Seq(Chars), lv \in ItemLevels : name = rest \o item.name /\ lv = item.level
    BY <1>2
  <2>1. PICK h : h = insert(m, name, lv)
    OBVIOUS
  <2>2. h \in NameLevels /\ IsFiniteSet(DOMAIN h)
    BY <1>1, <2>0, <2>1, InsertLaw
  <2>3. PICK none : none = <<>> /\ none \in Seq(Chars)
    BY EmptySeq
  <2>4. WithItem(s, item) = [modules |-> h, ss |-> none]
    BY <1>1, <1>4, <2>0, <2>1, <2>3, Zenon DEF WithItem
  <2> QED
    BY <2>2, <2>3, <2>4 DEF Parsing
<1> QED
  BY <1>3, <1>4

LEMMA WithItemLaw ==
  ASSUME NEW s \in Parsing, NEW item \in ModuleItems, NEW I, Sound(s, I)
  PROVE  Sound(WithItem(s, item), I \cup {item})
<1>1. PICK m, rest : m = s.modules /\ rest = s.ss /\ m \in NameLevels /\ rest \in Seq(Chars) /\ IsFiniteSet(DOMAIN m)
  BY DEF Parsing, Sound
<1>2. PICK t : t = WithItem(s, item) /\ IsFiniteSet(DOMAIN t.modules)
  BY <1>1, WithItemType
<1>3. ASSUME Levelled(I \cup {item}) PROVE t.ss = <<>> /\ RegisteredFor(t.modules, I \cup {item})
  <2>1. Levelled(I) /\ item.level # -1
    BY <1>3 DEF Levelled
  <2>2. rest = <<>> /\ RegisteredFor(m, I)
    BY <1>1, <2>1 DEF Sound
  <2>3. rest \o item.name = item.name
    BY <2>2, ItemsAre, ConcatEmptySeq
  <2>4. t = [modules |-> insert(m, item.name, item.level), ss |-> <<>>]
    BY <1>1, <1>2, <2>1, <2>3, Zenon DEF WithItem
  <2>5. t.ss = <<>> /\ t.modules = insert(m, item.name, item.level)
    BY <2>4
  <2> QED
    BY <1>1, <2>2, <2>5, InsertRegisters
<1>4. RegisteredFor(t.modules, I \cup {item})
  BY <1>3 DEF RegisteredFor
<1> QED
  BY <1>2, <1>3, <1>4 DEF Sound

\* setModules takes the items one by one.
LEMMA ParsedSteps ==
  ASSUME NEW m \in NameLevels, IsFiniteSet(DOMAIN m), NEW given \in Seq(ModuleItems)
  PROVE  \E f : /\ f[0] = [modules |-> m, ss |-> <<>>] /\ Parsed(m, given) = f[Len(given)].modules
                /\ \A k \in 1..Len(given) : f[k] = WithItem(f[k - 1], given[k])
<1> DEFINE Y == {s \in Parsing : IsFiniteSet(DOMAIN s.modules)}
<1>1. \A p \in Y, t \in ModuleItems : WithItem(p, t) \in Y
  BY WithItemType
<1>2. PICK start : start = [modules |-> m, ss |-> <<>>] /\ start \in Y
  <2>1. PICK none : none = <<>> /\ none \in Seq(Chars)
    BY EmptySeq
  <2>2. PICK start : start = [modules |-> m, ss |-> none]
    OBVIOUS
  <2>3. start \in Parsing /\ start.modules = m
    BY <2>1, <2>2 DEF Parsing
  <2> QED
    BY <2>1, <2>2, <2>3
<1> DEFINE iter == CHOOSE it : it = [s \in SUBSET DOMAIN given |->
              IF s = {} THEN start ELSE WithItem(it[s \ {Max(s)}], given[Max(s)])]
<1>3. Parsed(m, given) = iter[DOMAIN given].modules
  BY <1>2 DEF Parsed, FoldLeft, MapThenFoldSet
<1>4. PICK F : F = [p \in Y \X ModuleItems |-> WithItem(p[1], p[2])]
  OBVIOUS
<1>5. F \in [Y \X ModuleItems -> Y]
  BY <1>1, <1>4
<1>6. PICK it : Folding(it, F, start, given, ModuleItems, Y)
  <2> HIDE DEF iter, Y
  <2> QED
    BY <1>2, <1>5, FoldDefined, Zenon
<1>7. it = [s \in SUBSET DOMAIN given |-> IF s = {} THEN start ELSE WithItem(it[s \ {Max(s)}], given[Max(s)])]
  <2> HIDE DEF iter, Y
  <2> QED
    BY <1>4, <1>6 DEF Folding
<1>8. iter = [s \in SUBSET DOMAIN given |-> IF s = {} THEN start ELSE WithItem(iter[s \ {Max(s)}], given[Max(s)])]
  BY <1>7
<1> HIDE DEF iter, Y
<1>9. PICK f : Beginnings(f, iter, given)
  BY FoldSteps
<1>10. f[0] = start /\ f[Len(given)] = iter[DOMAIN given]
  BY <1>8, <1>9 DEF Beginnings
<1>11. ASSUME NEW k \in 1..Len(given) PROVE f[k] = WithItem(f[k - 1], given[k])
  <2>1. /\ f[k] = iter[1..k] /\ 1..k \in SUBSET DOMAIN given /\ 1..k # {}
        /\ f[k - 1] = iter[(1..k) \ {Max(1..k)}] /\ Max(1..k) = k
    BY <1>9 DEF Beginnings
  <2> QED
    BY <1>8, <2>1, Zenon
<1> QED
  BY <1>2, <1>3, <1>10, <1>11

LEMMA ParsedLaw ==
  ASSUME NEW m \in NameLevels, IsFiniteSet(DOMAIN m), NEW given \in Seq(ModuleItems), NEW I, RegisteredFor(m, I)
  PROVE  /\ Parsed(m, given) \in NameLevels /\ IsFiniteSet(DOMAIN Parsed(m, given))
         /\ RegisteredFor(Parsed(m, given), I \cup Range(given))
<1>1. PICK f : /\ f[0] = [modules |-> m, ss |-> <<>>] /\ Parsed(m, given) = f[Len(given)].modules
               /\ \A k \in 1..Len(given) : f[k] = WithItem(f[k - 1], given[k])
  BY ParsedSteps
<1>2. PICK N \in Nat : N = Len(given) /\ DOMAIN given = 1..N /\ \A i \in 1..N : given[i] \in ModuleItems
  BY LenProperties, ElementOfSeq
<1> DEFINE So(k) == {given[i] : i \in 1..k}
    T == {k \in Nat : f[k] \in Parsing /\ Sound(f[k], I \cup So(k))}
<1>3. 0 \in T
  <2>1. PICK none : none = <<>> /\ none \in Seq(Chars)
    BY EmptySeq
  <2>2. f[0] = [modules |-> m, ss |-> none]
    BY <1>1, <2>1
  <2>3. f[0] \in Parsing /\ f[0].modules = m /\ f[0].ss = <<>>
    BY <2>1, <2>2 DEF Parsing
  <2>4. I \cup So(0) = I
    OBVIOUS
  <2> QED
    BY <2>3, <2>4 DEF Sound
<1>4. ASSUME NEW k \in 1..N, k - 1 \in T PROVE k \in T
  <2>1. PICK s, item : s = f[k - 1] /\ item = given[k] /\ item \in ModuleItems
    BY <1>2
  <2>2. s \in Parsing /\ Sound(s, I \cup So(k - 1)) /\ f[k] = WithItem(s, item)
    BY <1>1, <1>2, <1>4, <2>1
  <2>3. f[k] \in Parsing
    BY <2>1, <2>2, WithItemType DEF Sound
  <2>4. Sound(f[k], (I \cup So(k - 1)) \cup {item})
    <3> HIDE DEF So
    <3> QED
      BY <2>1, <2>2, WithItemLaw
  <2>5. (I \cup So(k - 1)) \cup {item} = I \cup So(k)
    <3>1. So(k) = So(k - 1) \cup {item}
      <4>1. \A i \in 1..k : i = k \/ i \in 1..(k - 1)
        OBVIOUS
      <4>2. \A i \in 1..(k - 1) : i \in 1..k
        OBVIOUS
      <4> QED
        BY <2>1, <4>1, <4>2
    <3> QED
      BY <3>1
  <2>6. Sound(f[k], I \cup So(k))
    <3> HIDE DEF So
    <3> QED
      BY <2>4, <2>5, Zenon
  <2> QED
    BY <2>3, <2>6
<1>5. N \in T
  <2> HIDE DEF T
  <2>1. \A k \in 0..N : k \in T
    BY <1>3, <1>4, InductionUpTo
  <2> QED
    BY <2>1
<1>6. So(N) = Range(given)
  BY <1>2 DEF Range
<1>7. f[N] \in Parsing /\ Sound(f[N], I \cup Range(given))
  BY <1>5, <1>6
<1> QED
  BY <1>1, <1>2, <1>7 DEF Parsing, Sound

LEMMA SourcesAre ==
  ASSUME NEW file \in Sources
  PROVE  /\ file \in Seq(Chars) /\ file # <<>> /\ Front(file) \in Seq(Chars) /\ Front(file) \in Seq(Letters)
         /\ Last(file) \in Range(Extensions) /\ Last(file) \in Chars
<1>1. file \in Seq(Chars) /\ file # <<>> /\ Front(file) \in Seq(Letters) /\ Last(file) \in Range(Extensions)
  BY SourcesAssumption
<1>2. Front(file) \in Seq(Chars) /\ Last(file) \in Chars
  BY <1>1, LastLaw
<1> QED
  BY <1>1, <1>2

\* A name that matches a file was registered for an item that may name it.
LEMMA MatchedNames ==
  ASSUME NEW file \in Sources, NEW item \in ModuleItems, NEW n \in Range(Suffixed(item.name)), wildCardMatch(file, n)
  PROVE  MayName(item, file)
<1>1. PICK name \in Seq(Chars) : name = item.name /\ Plain(name)
  BY ItemsAre
<1>2. PICK front : front = Front(file) /\ front \in Seq(Chars) /\ front \in Seq(Letters)
  BY SourcesAre
<1>3. file \in Seq(Chars) /\ file # <<>>
  BY SourcesAre
<1>4. Base(name) \in Seq(Chars) /\ name # <<>>
  BY <1>1, BaseLaw DEF Plain
<1>5. n \in Seq(Chars)
  BY <1>1, FiniteNames
<1>6. Covers(n, file)
  BY <1>3, <1>5, WildCardLaw
<1>7. PICK e \in Range(Extensions) : n = Append(Base(name), e) \/ (Extended(name) /\ n = Append(name, e))
  BY <1>1, RegisteredNames
<1>8. CASE n = Append(Base(name), e)
  <2>1. Covers(Base(name), front)
    BY <1>2, <1>3, <1>4, <1>6, <1>7, <1>8, CoversFront
  <2> QED
    BY <1>1, <1>2, <2>1, Zenon DEF MayName, Base
<1>9. CASE Extended(name) /\ n = Append(name, e)
  <2>1. Covers(name, front)
    BY <1>1, <1>2, <1>3, <1>6, <1>7, <1>9, CoversFront
  <2>2. Last(name) \in Range(Extensions)
    BY <1>9 DEF Extended
  <2>3. front # <<>> /\ Last(front) = Last(name)
    BY <1>1, <1>2, <1>4, <2>1, <2>2, CoversLast
  <2>4. Last(front) \in Letters
    BY <1>2, <2>3, LastLaw
  <2> QED
    BY <2>2, <2>3, <2>4 DEF Letters
<1> QED
  BY <1>7, <1>8, <1>9

\* An item that names a file has a name registered that matches it.
LEMMA NamedMatched ==
  ASSUME NEW file \in Sources, NEW item \in ModuleItems, Designates(item, file)
  PROVE  \E n \in Range(Suffixed(item.name)) : wildCardMatch(file, n)
<1>1. PICK name \in Seq(Chars) : name = item.name /\ Plain(name)
  BY ItemsAre
<1>2. PICK e : e = Last(file) /\ e \in Range(Extensions) /\ e \in Chars
  BY SourcesAre
<1>3. file \in Seq(Chars) /\ file # <<>>
  BY SourcesAre
<1>4. PICK base \in Seq(Chars) : base = Base(name)
  BY <1>1, BaseLaw
<1>5. Extended(name) => Last(name) = e
  BY <1>1, <1>2 DEF Designates
<1>6. PICK n : n = Append(base, e) /\ n \in Range(Suffixed(name))
  BY <1>1, <1>2, <1>4, <1>5, RegisteredNames
<1>7. Covers(base, Front(file))
  BY <1>1, <1>4, Zenon DEF Designates, MayName, Base
<1>8. Covers(n, file)
  BY <1>2, <1>3, <1>4, <1>6, <1>7, CoversAppend
<1>9. n \in Seq(Chars)
  BY <1>1, <1>6, FiniteNames
<1>10. wildCardMatch(file, n)
  BY <1>3, <1>8, <1>9, WildCardLaw
<1> QED
  BY <1>1, <1>6, <1>10

(***************************************************************************)
(* The names registered are those of the items in force, with their        *)
(* levels, if each of them has one.                                        *)
(***************************************************************************)
VerboseInv ==
  /\ m_modules \in NameLevels /\ IsFiniteSet(DOMAIN m_modules)
  /\ listed \in Seq(Seq(ModuleItems)) /\ RegisteredFor(m_modules, Items)

\* The lists in force.
ItemsOf(lists) == UNION {Range(given) : given \in Range(lists)}

LEMMA ItemsAppend ==
  ASSUME NEW lists \in Seq(Seq(ModuleItems)), NEW given \in Seq(ModuleItems)
  PROVE  /\ ItemsOf(Append(lists, given)) = ItemsOf(lists) \cup Range(given)
         /\ ItemsOf(lists) \subseteq ModuleItems
<1>1. PICK N \in Nat : N = Len(lists) /\ DOMAIN lists = 1..N /\ \A i \in 1..N : lists[i] \in Seq(ModuleItems)
  BY LenProperties, ElementOfSeq
<1>2. PICK q : q = Append(lists, given)
  OBVIOUS
<1>3. q \in Seq(Seq(ModuleItems)) /\ Len(q) = N + 1 /\ q[N + 1] = given /\ \A i \in 1..N : q[i] = lists[i]
  BY <1>1, <1>2, AppendProperties
<1>4. DOMAIN q = (1..N) \cup {N + 1}
  BY <1>3, LenProperties
<1>5. Range(q) = Range(lists) \cup {given}
  BY <1>1, <1>3, <1>4 DEF Range
<1>6. ItemsOf(q) = ItemsOf(lists) \cup Range(given)
  BY <1>5 DEF ItemsOf
<1>7. ItemsOf(lists) \subseteq ModuleItems
  <2> SUFFICES ASSUME NEW i \in 1..N PROVE Range(lists[i]) \subseteq ModuleItems
    BY <1>1 DEF ItemsOf, Range
  <2>1. PICK s \in Seq(ModuleItems) : s = lists[i]
    BY <1>1
  <2>2. \A k \in DOMAIN s : s[k] \in ModuleItems
    BY LenProperties, ElementOfSeq
  <2> QED
    BY <2>1, <2>2 DEF Range
<1> QED
  BY <1>2, <1>6, <1>7

LEMMA NoneRegistered ==
  ASSUME NEW mods, NEW lists, mods = <<>>, lists = <<>>
  PROVE  /\ mods \in NameLevels /\ IsFiniteSet(DOMAIN mods) /\ lists \in Seq(Seq(ModuleItems))
         /\ ItemsOf(lists) = {} /\ RegisteredFor(mods, {})
<1>1. mods \in [{} -> ItemLevels] /\ DOMAIN mods = {}
  OBVIOUS
<1>2. mods \in NameLevels
  BY <1>1 DEF NameLevels
<1>3. IsFiniteSet(DOMAIN mods)
  BY <1>1, FS_EmptySet
<1>4. lists \in Seq(Seq(ModuleItems)) /\ DOMAIN lists = {}
  OBVIOUS
<1>5. ItemsOf(lists) = {}
  BY <1>4 DEF ItemsOf, Range
<1>6. RegisteredFor(mods, {})
  BY <1>1 DEF RegisteredFor
<1> QED
  BY <1>2, <1>3, <1>4, <1>5, <1>6

LEMMA VerboseBegins == m_modules = <<>> /\ listed = <<>> => VerboseInv
<1> SUFFICES ASSUME m_modules = <<>>, listed = <<>> PROVE VerboseInv
  OBVIOUS
<1>1. /\ m_modules \in NameLevels /\ IsFiniteSet(DOMAIN m_modules) /\ listed \in Seq(Seq(ModuleItems))
      /\ ItemsOf(listed) = {} /\ RegisteredFor(m_modules, {})
  BY NoneRegistered
<1> QED
  BY <1>1 DEF VerboseInv, Items, ItemsOf

\* The items in force are items of a list.
LEMMA ItemsType == VerboseInv => Items \subseteq ModuleItems
<1> SUFFICES ASSUME VerboseInv PROVE Items \subseteq ModuleItems
  OBVIOUS
<1>1. PICK none : none = <<>> /\ none \in Seq(ModuleItems)
  BY EmptySeq
<1>2. ItemsOf(listed) \subseteq ModuleItems
  BY <1>1, ItemsAppend DEF VerboseInv
<1> QED
  BY <1>2 DEF Items, ItemsOf

LEMMA VerboseStep == VerboseInv /\ [VNext]_vvars => VerboseInv'
<1> SUFFICES ASSUME VerboseInv, [VNext]_vvars PROVE VerboseInv'
  OBVIOUS
<1> USE DEF VerboseInv
<1>1. ASSUME NEW given \in Lists, setModules(given) PROVE VerboseInv'
  <2>1. given \in Seq(ModuleItems)
    BY ListsAssumption
  <2>2. m_modules' = Parsed(m_modules, given) /\ listed' = Append(listed, given)
    BY <1>1 DEF setModules
  <2>3. /\ m_modules' \in NameLevels /\ IsFiniteSet(DOMAIN m_modules')
        /\ RegisteredFor(m_modules', Items \cup Range(given))
    BY <2>1, <2>2, ParsedLaw
  <2>4. listed' \in Seq(Seq(ModuleItems))
    BY <2>1, <2>2, AppendProperties
  <2>5. Items' = Items \cup Range(given)
    BY <2>1, <2>2, ItemsAppend DEF Items, ItemsOf
  <2> QED
    BY <2>3, <2>4, <2>5
<1>2. CASE clearModules
  <2>1. m_modules' = <<>> /\ listed' = <<>>
    BY <1>2 DEF clearModules
  <2>2. /\ m_modules' \in NameLevels /\ IsFiniteSet(DOMAIN m_modules') /\ listed' \in Seq(Seq(ModuleItems))
        /\ ItemsOf(listed') = {} /\ RegisteredFor(m_modules', {})
    BY <2>1, NoneRegistered
  <2> QED
    BY <2>2 DEF Items, ItemsOf
<1>3. CASE \E lv \in VLevels : setLevel(lv)
  BY <1>3 DEF setLevel, Items
<1>4. CASE UNCHANGED vvars
  BY <1>4 DEF vvars, Items
<1> QED
  BY <1>1, <1>2, <1>3, <1>4 DEF VNext

\* Of what matches a file, the first name has a level of an item that may name it.
LEMMA FirstMatching ==
  ASSUME VerboseInv, Levelled(Items), NEW file \in Sources
  PROVE  LET matching == {n \in DOMAIN m_modules : wildCardMatch(file, n)}
             first == CHOOSE n \in matching : \A k \in matching \ {n} : Less(n, k)
         IN /\ matching # {} => \E i \in Items : MayName(i, file) /\ m_modules[first] = i.level
            /\ (\E i \in Items : Designates(i, file)) => matching # {}
<1> DEFINE matching == {n \in DOMAIN m_modules : wildCardMatch(file, n)}
    first == CHOOSE n \in matching : \A k \in matching \ {n} : Less(n, k)
<1>1. DOMAIN m_modules \subseteq Seq(Chars) /\ IsFiniteSet(DOMAIN m_modules)
  BY NameLevelsAre DEF VerboseInv
<1>2. Items \subseteq ModuleItems
  BY ItemsType
<1>3. /\ \A n \in DOMAIN m_modules : \E i \in Items : n \in Range(Suffixed(i.name)) /\ m_modules[n] = i.level
      /\ \A i \in Items : Range(Suffixed(i.name)) \subseteq DOMAIN m_modules
  BY DEF VerboseInv, RegisteredFor
<1>4. ASSUME matching # {} PROVE \E i \in Items : MayName(i, file) /\ m_modules[first] = i.level
  <2>1. matching \in SUBSET Seq(Chars) /\ IsFiniteSet(matching)
    BY <1>1, FS_Subset
  <2>2. \E n \in matching : \A k \in matching \ {n} : Less(n, k)
    <3> HIDE DEF matching
    <3> QED
      BY <1>4, <2>1, FirstOfNames
  <2>3. first \in matching
    <3> HIDE DEF matching
    <3> QED
      BY <2>2
  <2>4. PICK n \in DOMAIN m_modules : n = first /\ wildCardMatch(file, n)
    <3> HIDE DEF first
    <3> QED
      BY <2>3
  <2> HIDE DEF first, matching
  <2>5. PICK i \in Items : n \in Range(Suffixed(i.name)) /\ m_modules[n] = i.level
    BY <1>3
  <2>6. MayName(i, file)
    BY <1>2, <2>4, <2>5, MatchedNames
  <2> QED
    BY <2>4, <2>5, <2>6
<1>5. ASSUME NEW i \in Items, Designates(i, file) PROVE matching # {}
  <2>1. PICK n \in Range(Suffixed(i.name)) : wildCardMatch(file, n)
    BY <1>2, <1>5, NamedMatched
  <2>2. n \in DOMAIN m_modules
    BY <1>3, <2>1
  <2> QED
    BY <2>1, <2>2
<1> HIDE DEF first, matching
<1>6. /\ matching # {} => \E i \in Items : MayName(i, file) /\ m_modules[first] = i.level
      /\ (\E i \in Items : Designates(i, file)) => matching # {}
  BY <1>4, <1>5
<1> QED
  BY <1>6 DEF first, matching

LEMMA VerboseMeans == VerboseInv => NamedLevelCounts
<1> SUFFICES ASSUME VerboseInv, Items # {}, \A item \in Items : item.level # -1, NEW file \in Sources
             PROVE  LET naming == {i \in Items : MayName(i, file)}
                        levels == {i.level : i \in naming}
                    IN /\ (\A i \in naming : Designates(i, file)) =>
                            \A l \in levels : levels = {l} => \A v \in VLevels : allowed(v, file) = (v <= l)
                       /\ levels = {} => \A v \in VLevels : allowed(v, file)
  BY DEF NamedLevelCounts
<1> DEFINE matching == {n \in DOMAIN m_modules : wildCardMatch(file, n)}
    first == CHOOSE n \in matching : \A k \in matching \ {n} : Less(n, k)
    naming == {i \in Items : MayName(i, file)}
    levels == {i.level : i \in naming}
<1>1. Levelled(Items)
  BY DEF Levelled
<1>2. /\ matching # {} => \E i \in Items : MayName(i, file) /\ m_modules[first] = i.level
      /\ (\E i \in Items : Designates(i, file)) => matching # {}
  BY <1>1, FirstMatching
<1>3. \A v : allowed(v, file) = IF DOMAIN m_modules = {} THEN v <= m_level
                                ELSE IF matching = {} THEN TRUE ELSE v <= m_modules[first]
  BY DEF allowed
<1>4. matching # {} => DOMAIN m_modules # {}
  OBVIOUS
<1>5. Items # {} => DOMAIN m_modules # {}
  <2> SUFFICES ASSUME NEW item \in Items PROVE DOMAIN m_modules # {}
    OBVIOUS
  <2>1. item \in ModuleItems
    BY ItemsType
  <2>2. PICK name \in Seq(Chars) : name = item.name /\ Plain(name)
    BY <2>1, ItemsAre
  <2>3. Len(Suffixed(name)) = 9 /\ DOMAIN Suffixed(name) = 1..Len(Suffixed(name))
    BY <2>2, SuffixedLaw, SuffixedType, LenProperties
  <2>4. Suffixed(name)[1] \in Range(Suffixed(name))
    BY <2>3 DEF Range
  <2> QED
    BY <1>1, <2>2, <2>4 DEF VerboseInv, RegisteredFor
<1> HIDE DEF first, matching
<1>6. ASSUME \A i \in naming : Designates(i, file), NEW l \in levels, levels = {l}, NEW v \in VLevels
      PROVE  allowed(v, file) = (v <= l)
  <2>1. PICK i \in naming : i.level = l
    OBVIOUS
  <2>2. matching # {}
    BY <1>2, <1>6, <2>1
  <2>3. PICK k \in Items : MayName(k, file) /\ m_modules[first] = k.level
    BY <1>2, <2>2
  <2>4. k.level \in levels
    BY <2>3
  <2>5. m_modules[first] = l
    BY <1>6, <2>3, <2>4
  <2>6. allowed(v, file) = (v <= m_modules[first])
    BY <1>3, <1>4, <2>2
  <2> QED
    BY <2>5, <2>6
<1>7. ASSUME levels = {}, Items # {}, NEW v \in VLevels PROVE allowed(v, file)
  <2>1. \A i \in Items : ~MayName(i, file)
    BY <1>7
  <2>2. matching = {}
    BY <1>2, <2>1
  <2> QED
    BY <1>3, <1>5, <1>7, <2>2
<1> QED
  BY <1>6, <1>7

(***************************************************************************)
(* A statement of a file that the lists name with one level logs up to     *)
(* that level, and one of a file they do not name always, for any lists,   *)
(* names, wildcards and order of calls.                                    *)
(***************************************************************************)
THEOREM VerboseTheorem == VInit /\ [][VNext]_vvars => []NamedLevelCounts
<1>1. VInit => VerboseInv
  BY VerboseBegins DEF VInit
<1>2. VerboseInv /\ [VNext]_vvars => VerboseInv'
  BY VerboseStep
<1>3. VerboseInv => NamedLevelCounts
  BY VerboseMeans
<1> QED
  BY <1>1, <1>2, <1>3, PTL

-----------------------------------------------------------------------------
(***************************************************************************)
(* The configuration file.  What its lines say, of any lines r.            *)
(***************************************************************************)

WrittenValues == Values \cup OddValues
FileLines ==
  [is : {"section"}, id : Ids] \cup [is : {"level"}, level : Levels \cup {Global, "Unknown"}]
    \cup [is : {"blank"}] \cup [is : {"config"}, type : {"Format", "Unknown"}, value : WrittenValues]

\* The last line of a kind before i, or 0; the logger and the level of line i.
LastIn(r, i, kind) ==
  LET I == {j \in 1..(i - 1) : r[j].is = kind} IN IF I # {} THEN Max(I) ELSE 0
IdAt(r, i) == IF LastIn(r, i, "section") = 0 THEN noLogger ELSE r[LastIn(r, i, "section")].id
LevelAt(r, i) ==
  IF LastIn(r, i, "level") <= LastIn(r, i, "section") THEN "Unknown" ELSE r[LastIn(r, i, "level")].level

\* A line that sets the format of one of the levels.
Formats(r, i, levels) == r[i].is = "config" /\ r[i].type = "Format" /\ LevelAt(r, i) \in levels

LeadsInSections(r) ==
  \A i, j \in DOMAIN r :
    i < j /\ Formats(r, j, {Global}) /\ Formats(r, i, Levels)
      /\ IdAt(r, i) = IdAt(r, j) /\ LastIn(r, i, "section") = LastIn(r, j, "section")
      => \E k \in 1..i : Formats(r, k, {Global}) /\ IdAt(r, k) = IdAt(r, j)
                         /\ LastIn(r, k, "section") = LastIn(r, j, "section")

Covered(r) ==
  /\ LeadsInSections(r)
  /\ \A i \in DOMAIN r : /\ r[i].is = "section" => r[i].id \in LongIds
                         /\ r[i].is = "config" => Readable(r[i].value)

\* The last line of a kind, of the first n.
LEMMA LastInLaw ==
  ASSUME NEW r, NEW n \in Nat, NEW kind
  PROVE  /\ LastIn(r, n + 1, kind) \in 0..n
         /\ LastIn(r, n + 1, kind) # 0 => r[LastIn(r, n + 1, kind)].is = kind
         /\ \A j \in 1..n : r[j].is = kind => j <= LastIn(r, n + 1, kind)
<1> DEFINE I == {j \in 1..n : r[j].is = kind}
<1>1. LastIn(r, n + 1, kind) = IF I # {} THEN Max(I) ELSE 0
  BY DEF LastIn
<1>2. I \subseteq 0..n
  OBVIOUS
<1>3. I # {} => Max(I) \in I /\ \A x \in I : Max(I) >= x
  BY <1>2, Largest
<1> QED
  BY <1>1, <1>3

\* Only the lines before count.
LEMMA LastInSame ==
  ASSUME NEW r, NEW q, NEW n \in Nat, \A j \in 1..n : q[j] = r[j], NEW i \in 1..(n + 1), NEW kind
  PROVE  LastIn(q, i, kind) = LastIn(r, i, kind)
<1>1. {j \in 1..(i - 1) : r[j].is = kind} = {j \in 1..(i - 1) : q[j].is = kind}
  OBVIOUS
<1> QED
  BY <1>1 DEF LastIn

\* So what a line is under is said by the lines before it.
LEMMA LinesSame ==
  ASSUME NEW r, NEW q, NEW n \in Nat, \A j \in 1..n : q[j] = r[j], NEW i \in 1..(n + 1)
  PROVE  /\ IdAt(q, i) = IdAt(r, i) /\ LevelAt(q, i) = LevelAt(r, i)
         /\ \A L : i <= n => Formats(q, i, L) = Formats(r, i, L)
<1>1. \A kind : LastIn(q, i, kind) = LastIn(r, i, kind)
  BY LastInSame
<1>2. \A kind : LastIn(r, i, kind) \in 0..n
  <2>1. PICK m \in Nat : i = m + 1
    <3>1. i - 1 \in Nat /\ i = (i - 1) + 1
      OBVIOUS
    <3> QED
      BY <3>1
  <2>2. \A kind : LastIn(r, i, kind) \in 0..m
    BY <2>1, LastInLaw
  <2> QED
    BY <2>1, <2>2
<1>3. IdAt(q, i) = IdAt(r, i)
  BY <1>1, <1>2 DEF IdAt
<1>4. LevelAt(q, i) = LevelAt(r, i)
  <2>1. LastIn(r, i, "level") \in 0..n /\ LastIn(r, i, "section") \in 0..n
    BY <1>2
  <2>2. LastIn(r, i, "level") > LastIn(r, i, "section") => LastIn(r, i, "level") \in 1..n
    BY <2>1
  <2> QED
    BY <1>1, <2>1, <2>2 DEF LevelAt
<1> QED
  BY <1>3, <1>4 DEF Formats

\* The last line of a kind, with one more line.
LEMMA LastInNext ==
  ASSUME NEW r, NEW n \in Nat, n > 0, NEW kind
  PROVE  LastIn(r, n + 1, kind) = IF r[n].is = kind THEN n ELSE LastIn(r, n, kind)
<1>1. LastIn(r, n + 1, kind) \in 0..n /\ \A j \in 1..n : r[j].is = kind => j <= LastIn(r, n + 1, kind)
  BY LastInLaw
<1>2. CASE r[n].is = kind
  BY <1>1, <1>2
<1>3. CASE r[n].is # kind
  <2>1. {j \in 1..((n + 1) - 1) : r[j].is = kind} = {j \in 1..(n - 1) : r[j].is = kind}
    BY <1>3
  <2> QED
    BY <1>3, <2>1 DEF LastIn
<1> QED
  BY <1>2, <1>3

\* A line behind line n.
LEMMA LineNext ==
  ASSUME NEW r, NEW n \in Nat, n > 0
  PROVE  /\ r[n].is = "section" => IdAt(r, n + 1) = r[n].id /\ LevelAt(r, n + 1) = "Unknown"
         /\ r[n].is # "section" => IdAt(r, n + 1) = IdAt(r, n)
         /\ r[n].is = "level" => LevelAt(r, n + 1) = r[n].level
         /\ r[n].is \notin {"section", "level"} => LevelAt(r, n + 1) = LevelAt(r, n)
<1>1. \A kind : LastIn(r, n + 1, kind) = IF r[n].is = kind THEN n ELSE LastIn(r, n, kind)
  BY LastInNext
<1>2. PICK m \in Nat : n = m + 1
  <2>1. n - 1 \in Nat /\ n = (n - 1) + 1
    OBVIOUS
  <2> QED
    BY <2>1
<1>3. \A kind : LastIn(r, n, kind) \in 0..m
  BY <1>2, LastInLaw
<1>4. LastIn(r, n, "level") \in 0..m /\ LastIn(r, n, "section") \in 0..m
  BY <1>3
<1>5. CASE r[n].is = "section"
  <2>1. LastIn(r, n + 1, "section") = n /\ LastIn(r, n + 1, "level") = LastIn(r, n, "level")
    BY <1>1, <1>5
  <2> QED
    BY <1>2, <1>4, <1>5, <2>1 DEF IdAt, LevelAt
<1>6. CASE r[n].is = "level"
  <2>1. LastIn(r, n + 1, "level") = n /\ LastIn(r, n + 1, "section") = LastIn(r, n, "section")
    BY <1>1, <1>6
  <2> QED
    BY <1>2, <1>4, <1>6, <2>1 DEF IdAt, LevelAt
<1>7. CASE r[n].is \notin {"section", "level"}
  <2>1. LastIn(r, n + 1, "level") = LastIn(r, n, "level") /\ LastIn(r, n + 1, "section") = LastIn(r, n, "section")
    BY <1>1, <1>7
  <2> QED
    BY <1>7, <2>1 DEF IdAt, LevelAt
<1> QED
  BY <1>5, <1>6, <1>7

\* Lines s + 1 to n that set the format of a level, and what the last of some lines sets.
GivenIn(r, s, n, l) == {i \in (s + 1)..n : Formats(r, i, {l, Global})}
LastOf(r, I) == IF I = {} THEN {} ELSE {r[Max(I)].value.body}

\* A line that sets the format is the last that does.
LEMMA GivenNext ==
  ASSUME NEW r, NEW s \in Nat, NEW n \in Nat, n > s, NEW l
  PROVE  /\ Formats(r, n, {l, Global}) => LastOf(r, GivenIn(r, s, n, l)) = {r[n].value.body}
         /\ ~Formats(r, n, {l, Global}) => LastOf(r, GivenIn(r, s, n, l)) = LastOf(r, GivenIn(r, s, n - 1, l))
<1>1. CASE Formats(r, n, {l, Global})
  <2>0. n \in (s + 1)..n /\ (s + 1)..n \subseteq 0..n
    OBVIOUS
  <2>1. PICK I : I = GivenIn(r, s, n, l) /\ n \in I /\ I \subseteq 0..n
    BY <1>1, <2>0, Zenon DEF GivenIn
  <2>2. Max(I) \in I /\ Max(I) >= n
    BY <2>1, Largest
  <2>3. Max(I) = n
    BY <2>1, <2>2
  <2>4. LastOf(r, I) = {r[Max(I)].value.body}
    BY <2>1 DEF LastOf
  <2>5. LastOf(r, I) = {r[n].value.body}
    BY <2>3, <2>4
  <2> QED
    BY <1>1, <2>1, <2>5
<1>2. CASE ~Formats(r, n, {l, Global})
  <2>1. GivenIn(r, s, n, l) = GivenIn(r, s, n - 1, l)
    BY <1>2 DEF GivenIn
  <2> QED
    BY <1>2, <2>1
<1> QED
  BY <1>1, <1>2

-----------------------------------------------------------------------------
\* The texts that are collected, and what they come to.
Meant(value) == currValue(ignoreComments(ignoreComments(Written(value))))
FileValues == {Default} \cup {Meant(value) : value \in WrittenValues}
FileObjects == Objects({"Format"}, FileValues)
Collected(x) ==
  IF x.is = "config" THEN [is |-> "config", type |-> x.type, text |-> ignoreComments(Written(x.value))] ELSE x
CollectedLines == {Collected(x) : x \in FileLines}
LineLevels == Levels \cup {Global, "Unknown"}
ParseStates == [level : LineLevels, conf : FileObjects]

\* A line of each kind.
LEMMA LinesAre ==
  ASSUME NEW x \in FileLines
  PROVE  /\ x.is \in {"section", "level", "blank", "config"}
         /\ x.is = "section" => x.id \in Ids
         /\ x.is = "level" => x.level \in LineLevels
         /\ x.is = "config" => x.type \in {"Format", "Unknown"} /\ x.value \in WrittenValues
         /\ Collected(x).is = x.is
         /\ x.is = "config" => Collected(x).type = x.type /\ Collected(x).text = ignoreComments(Written(x.value))
         /\ x.is = "level" => Collected(x).level = x.level
BY DEF FileLines, Collected, LineLevels

LEMMA GlobalIsNot == "Unknown" \notin AllLevels /\ Global \in AllLevels
<1>1. \A l \in Levels : l \in {LevelOrder[i] : i \in 1..7}
  BY LevelsAssumption DEF Range, LevelOrder
<1>2. \A i \in 1..7 : LevelOrder[i] # "Unknown"
  BY DEF LevelOrder
<1> QED
  BY <1>1, <1>2 DEF AllLevels, Global

\* One line is parsed.
LEMMA ParseLineType ==
  ASSUME NEW s \in ParseStates, NEW x \in FileLines
  PROVE  /\ parseLine(s, Collected(x)) \in ParseStates
         /\ parseLine(s, Collected(x)) =
              IF x.is = "level" THEN [level |-> x.level, conf |-> s.conf]
              ELSE IF x.is = "config" /\ s.level # "Unknown" /\ x.type = "Format"
                   THEN [level |-> s.level, conf |-> set(s.conf, s.level, "Format", Meant(x.value))]
                   ELSE s
<1>1. PICK l \in LineLevels, c \in FileObjects : l = s.level /\ c = s.conf /\ s = [level |-> l, conf |-> c]
  BY DEF ParseStates
<1>2. CASE x.is = "level"
  <2>1. parseLine(s, Collected(x)) = [level |-> x.level, conf |-> c]
    BY <1>1, <1>2, LinesAre DEF parseLine
  <2>2. x.level \in LineLevels
    BY <1>2, LinesAre
  <2> QED
    BY <1>1, <1>2, <2>1, <2>2 DEF ParseStates
<1>3. CASE x.is = "config" /\ l # "Unknown" /\ x.type = "Format"
  <2>1. parseLine(s, Collected(x)) = [level |-> l, conf |-> set(c, l, "Format", Meant(x.value))]
    BY <1>1, <1>3, LinesAre DEF parseLine, Meant
  <2>2. l \in AllLevels /\ Meant(x.value) \in FileValues
    BY <1>3, LinesAre DEF LineLevels, AllLevels, FileValues
  <2>3. "Format" \in {"Format"}
    OBVIOUS
  <2>4. set(c, l, "Format", Meant(x.value)) \in FileObjects
    BY <1>1, <2>2, <2>3, SetLaw DEF FileObjects
  <2> QED
    BY <1>1, <1>3, <2>1, <2>4 DEF ParseStates
<1>4. CASE x.is # "level" /\ ~(x.is = "config" /\ l # "Unknown" /\ x.type = "Format")
  <2>1. parseLine(s, Collected(x)) = s
    BY <1>1, <1>4, LinesAre DEF parseLine
  <2> QED
    BY <1>1, <1>4, <2>1
<1> QED
  BY <1>1, <1>2, <1>3, <1>4

\* The state parseFromText starts from.
LEMMA NothingParsed == [level |-> "Unknown", conf |-> <<>>] \in ParseStates
  /\ (\A l : Get(<<>>, l, "Format") = {}) /\ Led(<<>>, "Format")
<1>1. <<>> \in FileObjects /\ (\A l : Get(<<>>, l, "Format") = {}) /\ Led(<<>>, "Format")
  BY DEF FileObjects, Objects, Distinct, Get, PlacesOf, Led
<1> QED
  BY <1>1 DEF ParseStates, LineLevels

\* parseFromText as a sequence of steps.
LEMMA ParseSteps ==
  ASSUME NEW lines \in Seq(CollectedLines)
  PROVE  \E f : /\ f[0] = [level |-> "Unknown", conf |-> <<>>] /\ parseFromText(lines) = f[Len(lines)].conf
                /\ \A k \in 1..Len(lines) : f[k] = parseLine(f[k - 1], lines[k])
<1>1. \A p \in ParseStates, t \in CollectedLines : parseLine(p, t) \in ParseStates
  BY ParseLineType DEF CollectedLines
<1>2. PICK start : start = [level |-> "Unknown", conf |-> <<>>] /\ start \in ParseStates
  BY NothingParsed
<1> DEFINE iter == CHOOSE it : it = [s \in SUBSET DOMAIN lines |->
              IF s = {} THEN start ELSE parseLine(it[s \ {Max(s)}], lines[Max(s)])]
<1>3. parseFromText(lines) = iter[DOMAIN lines].conf
  BY <1>2 DEF parseFromText, FoldLeft, MapThenFoldSet
<1>4. PICK F : F = [p \in ParseStates \X CollectedLines |-> parseLine(p[1], p[2])]
  OBVIOUS
<1>5. F \in [ParseStates \X CollectedLines -> ParseStates]
  BY <1>1, <1>4
<1>6. PICK it : Folding(it, F, start, lines, CollectedLines, ParseStates)
  <2> HIDE DEF iter
  <2> QED
    BY <1>2, <1>5, FoldDefined, Zenon
<1>7. it = [s \in SUBSET DOMAIN lines |-> IF s = {} THEN start ELSE parseLine(it[s \ {Max(s)}], lines[Max(s)])]
  <2> HIDE DEF iter
  <2> QED
    BY <1>4, <1>6 DEF Folding
<1>8. iter = [s \in SUBSET DOMAIN lines |-> IF s = {} THEN start ELSE parseLine(iter[s \ {Max(s)}], lines[Max(s)])]
  BY <1>7
<1> HIDE DEF iter
<1>9. PICK f : Beginnings(f, iter, lines)
  BY FoldSteps
<1>10. f[0] = start /\ f[Len(lines)] = iter[DOMAIN lines]
  BY <1>8, <1>9 DEF Beginnings
<1>11. ASSUME NEW k \in 1..Len(lines) PROVE f[k] = parseLine(f[k - 1], lines[k])
  <2>1. /\ f[k] = iter[1..k] /\ 1..k \in SUBSET DOMAIN lines /\ 1..k # {}
        /\ f[k - 1] = iter[(1..k) \ {Max(1..k)}] /\ Max(1..k) = k
    BY <1>9 DEF Beginnings
  <2> QED
    BY <1>8, <2>1, Zenon
<1> QED
  BY <1>2, <1>3, <1>10, <1>11

\* The lines of the last section.
LEMMA SectionIs ==
  ASSUME NEW r, NEW n \in Nat, NEW s, s = LastIn(r, n + 1, "section")
  PROVE  /\ s \in 0..n
         /\ \A i \in (s + 1)..(n + 1) : LastIn(r, i, "section") = s /\ IdAt(r, i) = IdAt(r, n + 1)
         /\ \A i \in (s + 1)..n : r[i].is # "section"
<1>1. s \in 0..n /\ \A j \in 1..n : r[j].is = "section" => j <= s
  BY LastInLaw
<1>2. ASSUME NEW i \in (s + 1)..(n + 1) PROVE LastIn(r, i, "section") = s
  <2>1. {j \in 1..(i - 1) : r[j].is = "section"} = {j \in 1..((n + 1) - 1) : r[j].is = "section"}
    BY <1>1
  <2>2. LastIn(r, i, "section") = LastIn(r, n + 1, "section")
    BY <2>1 DEF LastIn
  <2> QED
    BY <2>2
<1>3. \A i \in (s + 1)..n : r[i].is # "section"
  BY <1>1
<1> QED
  BY <1>1, <1>2, <1>3 DEF IdAt

\* What a line of the section may find behind it.
BeforeGlobal(r, s, i) ==
  Formats(r, i, {Global}) /\ GivenIn(r, s, i - 1, Global) = {} => \A l \in AllLevels : GivenIn(r, s, i - 1, l) = {}

\* In a covered file no line of a section comes before Global's first.
LEMMA GlobalComesFirst ==
  ASSUME NEW r \in Seq(FileLines), Covered(r), NEW n, n = Len(r), NEW s, s = LastIn(r, n + 1, "section"),
         NEW i \in (s + 1)..n
  PROVE  BeforeGlobal(r, s, i)
<1>1. n \in Nat /\ DOMAIN r = 1..n
  BY LenProperties
<1>2. /\ s \in 0..n
      /\ \A j \in (s + 1)..(n + 1) : LastIn(r, j, "section") = s /\ IdAt(r, j) = IdAt(r, n + 1)
  BY <1>1, SectionIs
<1> SUFFICES ASSUME Formats(r, i, {Global}), GivenIn(r, s, i - 1, Global) = {}, NEW l \in AllLevels,
                    NEW k \in GivenIn(r, s, i - 1, l)
             PROVE  FALSE
  BY DEF BeforeGlobal
<1>3. k \in (s + 1)..(i - 1) /\ Formats(r, k, {l, Global})
  BY DEF GivenIn
<1>4. \A j \in (s + 1)..(i - 1) : ~Formats(r, j, {Global})
  BY DEF GivenIn
<1>5. Formats(r, k, Levels)
  BY <1>3, <1>4 DEF Formats, AllLevels
<1>6. k \in DOMAIN r /\ i \in DOMAIN r /\ k < i
  BY <1>1, <1>2, <1>3
<1>7. k \in (s + 1)..(n + 1) /\ i \in (s + 1)..(n + 1)
  BY <1>1, <1>2, <1>3
<1>8. PICK j \in 1..k : Formats(r, j, {Global}) /\ LastIn(r, j, "section") = LastIn(r, i, "section")
  <2>1. LeadsInSections(r)
    BY DEF Covered
  <2>2. LastIn(r, k, "section") = LastIn(r, i, "section") /\ IdAt(r, k) = IdAt(r, i)
    BY <1>2, <1>7
  <2> QED
    BY <1>5, <1>6, <2>1, <2>2 DEF LeadsInSections
<1>9. LastIn(r, j, "section") = s
  BY <1>2, <1>7, <1>8
<1>10. s < j
  <2>1. PICK m \in Nat : j = m + 1
    <3>1. j - 1 \in Nat /\ j = (j - 1) + 1
      BY <1>3
    <3> QED
      BY <3>1
  <2>2. LastIn(r, m + 1, "section") \in 0..m
    BY <2>1, LastInLaw
  <2> QED
    BY <1>9, <2>1, <2>2
<1>11. j \in (s + 1)..(i - 1)
  BY <1>2, <1>3, <1>8, <1>10
<1> QED
  BY <1>4, <1>8, <1>11

\* A format is set.
LEMMA FormatSet ==
  ASSUME NEW c \in FileObjects, NEW lev \in AllLevels, NEW v \in FileValues, NEW l \in AllLevels
  PROVE  set(c, lev, "Format", v) \in FileObjects /\ OneSet(c, set(c, lev, "Format", v), lev, "Format", v, l, "Format")
<1>1. c \in Objects({"Format"}, FileValues) /\ "Format" \in {"Format"}
  BY DEF FileObjects
<1>2. /\ set(c, lev, "Format", v) \in Objects({"Format"}, FileValues)
      /\ OneSet(c, set(c, lev, "Format", v), lev, "Format", v, l, "Format")
  BY <1>1, OneSetStep
<1> QED
  BY <1>2 DEF FileObjects

\* An object that has no value of a type.
LEMMA NoValuesLed ==
  ASSUME NEW c \in FileObjects, \A l \in AllLevels : Get(c, l, "Format") = {}
  PROVE  Led(c, "Format")
BY DEF Led, Get, PlacesOf

(***************************************************************************)
(* parseFromText makes of a section what its lines say.                    *)
(***************************************************************************)
SectionIn(r, s, i, st) ==
  /\ st \in ParseStates /\ st.level = LevelAt(r, i + 1)
  /\ \A l \in AllLevels : Get(st.conf, l, "Format") = LastOf(r, GivenIn(r, s, i, l))
  /\ Led(st.conf, "Format") \/ Get(st.conf, Global, "Format") = {}

\* No line of none, and none set by none.
LEMMA NothingGiven == ASSUME NEW r, NEW i \in Nat, NEW l PROVE LastOf(r, GivenIn(r, i, i, l)) = {}
<1>1. GivenIn(r, i, i, l) = {}
  BY DEF GivenIn
<1> QED
  BY <1>1 DEF LastOf

\* Some lines set a value.
LEMMA NoLastOf == ASSUME NEW r, NEW I PROVE LastOf(r, I) = {} <=> I = {}
  BY DEF LastOf

\* A line more of a section is parsed.
LEMMA SectionStep ==
  ASSUME ReadAsMeant, NEW r \in Seq(FileLines), Covered(r), NEW n, n = Len(r), NEW s, s = LastIn(r, n + 1, "section"),
         NEW i \in (s + 1)..n, NEW st, SectionIn(r, s, i - 1, st)
  PROVE  SectionIn(r, s, i, parseLine(st, Collected(r[i])))
<1>0. n \in Nat /\ DOMAIN r = 1..n
  BY LenProperties
<1>1. n \in Nat /\ DOMAIN r = 1..n /\ s \in 0..n /\ r[i].is # "section"
  BY <1>0, SectionIs
<1>2. i \in Nat /\ i > 0 /\ i \in 1..n /\ i > s /\ s \in Nat
  BY <1>1
<1>3. PICK x \in FileLines : x = r[i]
  BY <1>1, <1>2, ElementOfSeq
<1>4. PICK e : e = parseLine(st, Collected(x))
  OBVIOUS
<1>5. st \in ParseStates /\ (i - 1) + 1 = i
  BY <1>2 DEF SectionIn
<1>6. /\ e \in ParseStates
      /\ e = IF x.is = "level" THEN [level |-> x.level, conf |-> st.conf]
             ELSE IF x.is = "config" /\ st.level # "Unknown" /\ x.type = "Format"
                  THEN [level |-> st.level, conf |-> set(st.conf, st.level, "Format", Meant(x.value))]
                  ELSE st
  BY <1>4, <1>5, ParseLineType
<1>7. st.level = LevelAt(r, i) /\ st.conf \in FileObjects /\ st.level \in LineLevels
  BY <1>5 DEF SectionIn, ParseStates
<1>8. \A l \in AllLevels : LastOf(r, GivenIn(r, s, i, l)) =
           IF Formats(r, i, {l, Global}) THEN {r[i].value.body} ELSE LastOf(r, GivenIn(r, s, i - 1, l))
  <2>1. i \in Nat /\ s \in Nat
    BY <1>2
  <2>2. i > s
    BY <1>2
  <2>3. ASSUME NEW l \in AllLevels
        PROVE  /\ Formats(r, i, {l, Global}) => LastOf(r, GivenIn(r, s, i, l)) = {r[i].value.body}
               /\ ~Formats(r, i, {l, Global}) => LastOf(r, GivenIn(r, s, i, l)) = LastOf(r, GivenIn(r, s, i - 1, l))
    BY <2>1, <2>2, GivenNext
  <2> QED
    BY <2>3
<1>9. \A l \in AllLevels : Get(st.conf, l, "Format") = LastOf(r, GivenIn(r, s, i - 1, l))
  BY DEF SectionIn
<1>10. CASE x.is # "config" \/ st.level = "Unknown" \/ x.type # "Format"
  <2>1. \A l \in AllLevels : ~Formats(r, i, {l, Global})
    BY <1>3, <1>7, <1>10, GlobalIsNot DEF Formats
  <2>2. e.conf = st.conf
    BY <1>6, <1>10
  <2>3. e.level = LevelAt(r, i + 1)
    BY <1>1, <1>2, <1>3, <1>6, <1>7, <1>10, LineNext, LinesAre
  <2> QED
    BY <1>3, <1>4, <1>6, <1>8, <1>9, <2>1, <2>2, <2>3 DEF SectionIn
<1>11. CASE x.is = "config" /\ st.level # "Unknown" /\ x.type = "Format"
  <2>1. PICK lev \in AllLevels : lev = st.level
    BY <1>7, <1>11 DEF LineLevels, AllLevels
  <2>2. PICK v \in FileValues : v = Meant(x.value) /\ v = r[i].value.body
    <3>1. x.value \in WrittenValues /\ Meant(x.value) \in FileValues
      BY <1>11, LinesAre DEF FileValues
    <3>2. Readable(x.value)
      BY <1>1, <1>2, <1>3, <1>11 DEF Covered
    <3>3. Meant(x.value) = x.value.body
      BY <3>1, <3>2 DEF ReadAsMeant, WrittenValues, Meant
    <3> QED
      BY <1>3, <3>1, <3>3
  <2>3. PICK c \in FileObjects : c = st.conf
    BY <1>7
  <2>4. e.conf = set(c, lev, "Format", v) /\ e.level = st.level
    BY <1>6, <1>11, <2>1, <2>2, <2>3
  <2>5. e.level = LevelAt(r, i + 1)
    BY <1>2, <1>3, <1>7, <1>11, <2>4, LineNext
  <2>6. \A l \in AllLevels : OneSet(c, e.conf, lev, "Format", v, l, "Format")
    BY <2>1, <2>2, <2>3, <2>4, FormatSet, Zenon
  <2>7. \A l \in AllLevels : Formats(r, i, {l, Global}) <=> lev \in {l, Global}
    BY <1>3, <1>7, <1>11, <2>1 DEF Formats
  <2>8. \A l \in AllLevels : Get(e.conf, l, "Format") = IF lev \in {l, Global} THEN {v} ELSE Get(c, l, "Format")
    BY <2>6 DEF OneSet
  <2>9. \A l \in AllLevels : Get(e.conf, l, "Format") = LastOf(r, GivenIn(r, s, i, l))
    BY <1>8, <1>9, <2>2, <2>3, <2>7, <2>8
  <2>10. Led(e.conf, "Format") \/ Get(e.conf, Global, "Format") = {}
    <3>1. Led(c, "Format") /\ (lev = Global \/ Get(c, Global, "Format") # {}) => Led(e.conf, "Format")
      BY <2>1, <2>6, GlobalIsNot DEF OneSet
    <3>2. Led(c, "Format") \/ Get(c, Global, "Format") = {}
      BY <2>3 DEF SectionIn
    <3>3. CASE lev # Global /\ Get(c, Global, "Format") = {}
      BY <2>8, <3>3, GlobalIsNot
    <3>4. CASE lev = Global /\ Get(c, Global, "Format") = {}
      <4>1. BeforeGlobal(r, s, i)
        BY GlobalComesFirst
      <4>2. Formats(r, i, {Global}) /\ GivenIn(r, s, i - 1, Global) = {}
        BY <1>9, <2>3, <2>7, <3>4, GlobalIsNot, NoLastOf
      <4>3. \A l \in AllLevels : Get(c, l, "Format") = {}
        BY <1>9, <2>3, <4>1, <4>2, NoLastOf DEF BeforeGlobal
      <4>4. Led(c, "Format")
        BY <4>3, NoValuesLed
      <4> QED
        BY <3>1, <3>4, <4>4
    <3> QED
      BY <3>1, <3>2, <3>3, <3>4
  <2> QED
    BY <1>3, <1>4, <1>6, <2>5, <2>9, <2>10 DEF SectionIn
<1> QED
  BY <1>10, <1>11

IsCollected(r, s, lines) ==
  /\ lines \in Seq(CollectedLines) /\ Len(lines) = Len(r) - s
  /\ \A k \in 1..(Len(r) - s) : lines[k] = Collected(r[s + k])

\* All lines of a section are parsed.
LEMMA SectionParsed ==
  ASSUME ReadAsMeant, NEW r \in Seq(FileLines), Covered(r), NEW n, n = Len(r), NEW s, s = LastIn(r, n + 1, "section"),
         NEW lines, IsCollected(r, s, lines), NEW q, q = parseFromText(lines)
  PROVE  /\ q \in FileObjects /\ Fronted(q, "Format") /\ Everywhere(q, "Format")
         /\ \A l \in AllLevels : Get(q, l, "Format") = LastOf(r, GivenIn(r, s, n, l))
<1>0. n \in Nat /\ DOMAIN r = 1..n
  BY LenProperties
<1>1. n \in Nat /\ DOMAIN r = 1..n /\ s \in 0..n
  BY <1>0, SectionIs
<1>2. PICK N \in Nat : /\ N = n - s /\ lines \in Seq(CollectedLines) /\ Len(lines) = N
                       /\ \A k \in 1..N : lines[k] = Collected(r[s + k])
  BY <1>1 DEF IsCollected
<1>3. PICK f : /\ f[0] = [level |-> "Unknown", conf |-> <<>>] /\ q = f[N].conf
               /\ \A k \in 1..N : f[k] = parseLine(f[k - 1], lines[k])
  BY <1>2, ParseSteps
<1> DEFINE S == {k \in 0..N : SectionIn(r, s, s + k, f[k])}
<1>4. 0 \in S
  <2>1. LevelAt(r, s + 1) = "Unknown"
    <3>0. s + 1 \in (s + 1)..(n + 1) /\ s \in Nat
      BY <1>1
    <3>1. LastIn(r, s + 1, "section") = s
      BY <1>1, <3>0, SectionIs
    <3>2. LastIn(r, s + 1, "level") \in 0..s
      BY <3>0, LastInLaw
    <3> QED
      BY <3>0, <3>1, <3>2 DEF LevelAt
  <2>2. \A l : LastOf(r, GivenIn(r, s, s, l)) = {}
    BY <1>1, NothingGiven
  <2>3. f[0] \in ParseStates /\ f[0].level = "Unknown" /\ f[0].conf = <<>>
    BY <1>3, NothingParsed
  <2>4. SectionIn(r, s, s, f[0])
    BY <2>1, <2>2, <2>3, NothingParsed DEF SectionIn
  <2>5. s + 0 = s
    BY <1>1
  <2> QED
    BY <2>4, <2>5
<1>5. ASSUME NEW k \in 1..N, k - 1 \in S PROVE k \in S
  <2>1. PICK i : i = s + k /\ i \in (s + 1)..n /\ s + (k - 1) = i - 1
    BY <1>1, <1>2
  <2>2. SectionIn(r, s, i - 1, f[k - 1])
    BY <1>5, <2>1
  <2>3. SectionIn(r, s, i, parseLine(f[k - 1], Collected(r[i])))
    BY <2>1, <2>2, SectionStep
  <2>4. f[k] = parseLine(f[k - 1], Collected(r[i]))
    BY <1>2, <1>3, <2>1
  <2>5. SectionIn(r, s, s + k, f[k])
    BY <2>1, <2>3, <2>4
  <2> QED
    BY <1>2, <2>5
<1>6. N \in S
  <2> HIDE DEF S
  <2>1. \A k \in 0..N : k \in S
    BY <1>4, <1>5, InductionUpTo
  <2> QED
    BY <1>2, <2>1
<1>7. s + N = n
  BY <1>1, <1>2
<1>8. SectionIn(r, s, n, f[N])
  BY <1>6, <1>7
<1>9. /\ q \in FileObjects /\ (Led(q, "Format") \/ Get(q, Global, "Format") = {})
      /\ \A l \in AllLevels : Get(q, l, "Format") = LastOf(r, GivenIn(r, s, n, l))
  BY <1>3, <1>8 DEF SectionIn, ParseStates
<1>10. Everywhere(q, "Format")
  <2>1. \A l \in AllLevels : GivenIn(r, s, n, Global) \subseteq GivenIn(r, s, n, l)
    BY DEF GivenIn, Formats
  <2> QED
    BY <1>9, <2>1, GlobalIsNot, NoLastOf DEF Everywhere
<1> QED
  BY <1>9, <1>10 DEF Fronted

\* Lines up to n that set the format of a level of a logger, and what the last of them sets.
Given(r, n, id, l) == {i \in 1..n : Formats(r, i, {l, Global}) /\ IdAt(r, i) = id}
ValueAt(r, n, id, l) == IF Given(r, n, id, l) = {} THEN {Default} ELSE LastOf(r, Given(r, n, id, l))

\* The last section says more about its own logger, and nothing of others.
LEMMA GivenBySections ==
  ASSUME NEW r, NEW n \in Nat, NEW s, s = LastIn(r, n + 1, "section"), NEW id, NEW l
  PROVE  /\ id # IdAt(r, n + 1) => ValueAt(r, n, id, l) = ValueAt(r, s, id, l)
         /\ id = IdAt(r, n + 1) => ValueAt(r, n, id, l) = IF LastOf(r, GivenIn(r, s, n, l)) # {}
                                                          THEN LastOf(r, GivenIn(r, s, n, l)) ELSE ValueAt(r, s, id, l)
<1>1. /\ s \in 0..n
      /\ \A i \in (s + 1)..(n + 1) : IdAt(r, i) = IdAt(r, n + 1)
  BY SectionIs
<1>2. ASSUME NEW i \in 1..n, i \notin 1..s PROVE i \in (s + 1)..n /\ IdAt(r, i) = IdAt(r, n + 1)
  BY <1>1, <1>2
<1>3. PICK A, B, C : A = Given(r, s, id, l) /\ B = GivenIn(r, s, n, l) /\ C = Given(r, n, id, l)
  OBVIOUS
<1>4. A \subseteq C /\ A \subseteq 1..s /\ C \subseteq 1..n /\ B \subseteq (s + 1)..n
  BY <1>1, <1>3 DEF Given, GivenIn
<1>5. CASE id # IdAt(r, n + 1)
  <2>1. C = A
    BY <1>2, <1>3, <1>4, <1>5 DEF Given
  <2> QED
    BY <1>3, <1>5, <2>1 DEF ValueAt
<1>6. CASE id = IdAt(r, n + 1)
  <2>1. C = A \cup B
    <3>1. B \subseteq C
      BY <1>1, <1>3, <1>4, <1>6 DEF Given, GivenIn
    <3>2. ASSUME NEW i \in C, i \notin A PROVE i \in B
      <4>1. i \in 1..n /\ Formats(r, i, {l, Global}) /\ IdAt(r, i) = id
        BY <1>3 DEF Given
      <4>2. i \notin 1..s
        BY <1>3, <3>2, <4>1 DEF Given
      <4> QED
        BY <1>2, <1>3, <4>1, <4>2 DEF GivenIn
    <3> QED
      BY <1>4, <3>1, <3>2
  <2>2. CASE B = {}
    <3>1. C = A /\ LastOf(r, B) = {}
      BY <2>1, <2>2, NoLastOf
    <3> QED
      BY <1>3, <1>6, <3>1 DEF ValueAt
  <2>3. CASE B # {}
    <3>1. B \subseteq 0..n /\ C \subseteq 0..n /\ C # {}
      BY <1>1, <1>4, <2>1, <2>3
    <3>2. /\ Max(B) \in B /\ \A x \in B : Max(B) >= x
          /\ Max(C) \in C /\ \A x \in C : Max(C) >= x
      BY <2>3, <3>1, Largest
    <3>3. Max(C) \in B /\ Max(C) >= Max(B)
      <4>1. Max(C) >= Max(B)
        BY <2>1, <3>2
      <4>2. Max(B) \in (s + 1)..n
        BY <1>4, <3>2
      <4>3. Max(C) \notin 1..s
        BY <1>1, <4>1, <4>2
      <4> QED
        BY <1>4, <2>1, <3>2, <4>1, <4>3
    <3>4. Max(C) = Max(B)
      <4>1. Max(B) \in 0..n /\ Max(C) \in 0..n /\ Max(B) >= Max(C)
        BY <3>1, <3>2, <3>3
      <4> QED
        BY <3>3, <4>1
    <3>5. LastOf(r, C) = LastOf(r, B) /\ LastOf(r, B) # {}
      <4>1. LastOf(r, B) = {r[Max(B)].value.body}
        BY <2>3 DEF LastOf
      <4>2. LastOf(r, C) = {r[Max(C)].value.body}
        BY <3>1 DEF LastOf
      <4> QED
        BY <3>4, <4>1, <4>2
    <3> QED
      BY <1>3, <1>6, <3>1, <3>5 DEF ValueAt
  <2> QED
    BY <2>2, <2>3
<1> QED
  BY <1>5, <1>6

\* Only the lines up to n count.
LEMMA ValueSame ==
  ASSUME NEW r, NEW q, NEW n \in Nat, \A j \in 1..n : q[j] = r[j], NEW m \in 0..n, NEW id, NEW l
  PROVE  ValueAt(q, m, id, l) = ValueAt(r, m, id, l)
<1>1. \A i \in 1..m : IdAt(q, i) = IdAt(r, i) /\ Formats(q, i, {l, Global}) = Formats(r, i, {l, Global})
  <2>1. \A i \in 1..m : i \in 1..(n + 1) /\ i <= n
    OBVIOUS
  <2> QED
    BY <2>1, LinesSame
<1>2. PICK I : I = Given(r, m, id, l) /\ I = Given(q, m, id, l) /\ I \subseteq 0..m
  <2>1. Given(r, m, id, l) = Given(q, m, id, l)
    BY <1>1 DEF Given
  <2>2. Given(r, m, id, l) \subseteq 1..m /\ 1..m \subseteq 0..m
    BY DEF Given
  <2> QED
    BY <2>1, <2>2
<1>3. CASE I = {}
  BY <1>2, <1>3 DEF ValueAt
<1>4. CASE I # {}
  <2>1. Max(I) \in I
    BY <1>2, <1>4, Largest
  <2>2. Max(I) \in 1..n
    BY <1>2, <2>1 DEF Given
  <2>3. LastOf(q, I) = LastOf(r, I)
    BY <2>2 DEF LastOf
  <2> QED
    BY <1>2, <1>4, <2>3 DEF ValueAt
<1> QED
  BY <1>3, <1>4

\* What holds of a part of a file.
LEMMA CoveredBefore ==
  ASSUME NEW r \in Seq(FileLines), NEW x \in FileLines, Covered(Append(r, x))
  PROVE  Covered(r) /\ (x.is = "section" => x.id \in LongIds)
<1>0. PICK n \in Nat : n = Len(r) /\ DOMAIN r = 1..n
  BY LenProperties
<1>1. PICK q : n = Len(r) /\ DOMAIN r = 1..n /\ q = Append(r, x)
  BY <1>0
<1>2. DOMAIN q = 1..(n + 1) /\ q[n + 1] = x /\ \A i \in 1..n : q[i] = r[i]
  <2>1. q \in Seq(FileLines) /\ Len(q) = n + 1 /\ q[n + 1] = x /\ \A i \in 1..n : q[i] = r[i]
    BY <1>1, AppendProperties
  <2> QED
    BY <2>1, LenProperties
<1>3. 1..n \subseteq 1..(n + 1) /\ n + 1 \in 1..(n + 1)
  OBVIOUS
<1>4. /\ LeadsInSections(q)
      /\ \A i \in DOMAIN q : /\ q[i].is = "section" => q[i].id \in LongIds
                             /\ q[i].is = "config" => Readable(q[i].value)
  BY <1>1 DEF Covered
<1>5. \A i \in DOMAIN r : /\ r[i].is = "section" => r[i].id \in LongIds
                          /\ r[i].is = "config" => Readable(r[i].value)
  <2> SUFFICES ASSUME NEW i \in DOMAIN r
               PROVE  /\ r[i].is = "section" => r[i].id \in LongIds
                      /\ r[i].is = "config" => Readable(r[i].value)
    OBVIOUS
  <2>1. i \in DOMAIN q /\ q[i] = r[i]
    BY <1>1, <1>2, <1>3
  <2> QED
    BY <1>4, <2>1
<1>6. \A i \in 1..n : /\ IdAt(q, i) = IdAt(r, i) /\ LastIn(q, i, "section") = LastIn(r, i, "section")
                      /\ \A L : Formats(q, i, L) = Formats(r, i, L)
  <2> SUFFICES ASSUME NEW i \in 1..n
               PROVE  /\ IdAt(q, i) = IdAt(r, i) /\ LastIn(q, i, "section") = LastIn(r, i, "section")
                      /\ \A L : Formats(q, i, L) = Formats(r, i, L)
    OBVIOUS
  <2>1. i \in 1..(n + 1) /\ i <= n /\ \A j \in 1..n : q[j] = r[j]
    BY <1>2
  <2>2. LastIn(q, i, "section") = LastIn(r, i, "section")
    BY <2>1, LastInSame
  <2>3. IdAt(q, i) = IdAt(r, i) /\ \A L : Formats(q, i, L) = Formats(r, i, L)
    BY <2>1, LinesSame
  <2> QED
    BY <2>2, <2>3
<1>7. LeadsInSections(r)
  <2> SUFFICES ASSUME NEW i \in DOMAIN r, NEW j \in DOMAIN r, i < j, Formats(r, j, {Global}), Formats(r, i, Levels),
                      IdAt(r, i) = IdAt(r, j), LastIn(r, i, "section") = LastIn(r, j, "section")
               PROVE  \E k \in 1..i : Formats(r, k, {Global}) /\ IdAt(r, k) = IdAt(r, j)
                                      /\ LastIn(r, k, "section") = LastIn(r, j, "section")
    BY DEF LeadsInSections
  <2>1. i \in 1..n /\ j \in 1..n /\ i \in DOMAIN q /\ j \in DOMAIN q
    BY <1>1, <1>2, <1>3
  <2>2. /\ Formats(q, j, {Global}) /\ Formats(q, i, Levels) /\ IdAt(q, i) = IdAt(q, j)
        /\ LastIn(q, i, "section") = LastIn(q, j, "section")
    BY <1>6, <2>1
  <2>3. PICK k \in 1..i : Formats(q, k, {Global}) /\ IdAt(q, k) = IdAt(q, j)
                          /\ LastIn(q, k, "section") = LastIn(q, j, "section")
    BY <1>4, <2>1, <2>2 DEF LeadsInSections
  <2>4. k \in 1..n
    BY <2>1
  <2>5. Formats(r, k, {Global}) /\ IdAt(r, k) = IdAt(q, k) /\ LastIn(r, k, "section") = LastIn(q, k, "section")
    BY <1>6, <2>3, <2>4, Zenon
  <2>6. IdAt(r, j) = IdAt(q, j) /\ LastIn(r, j, "section") = LastIn(q, j, "section")
    BY <1>6, <2>1, Zenon
  <2> QED
    BY <2>3, <2>5, <2>6, Zenon
<1>8. x.is = "section" => x.id \in LongIds
  <2>1. n + 1 \in DOMAIN q /\ q[n + 1] = x
    BY <1>2, <1>3
  <2> QED
    BY <1>4, <2>1
<1> QED
  BY <1>5, <1>7, <1>8 DEF Covered

(***************************************************************************)
(* Where the reading of the lines r stands.  The loggers have what the     *)
(* first m lines say, and the lines of the last section are collected.     *)
(***************************************************************************)
HasUpTo(r, m, ls) ==
  \A id \in DOMAIN ls : ls[id] \in FileObjects /\ \A l \in AllLevels : Get(ls[id], l, "Format") = ValueAt(r, m, id, l)

Named(r, cur, ls) ==
  /\ cur = IdAt(r, Len(r) + 1)
  /\ noLogger \notin DOMAIN ls /\ (cur # noLogger => cur \in DOMAIN ls)
  /\ \A i \in 1..Len(r) : r[i].is = "section" => r[i].id \in DOMAIN ls

Reading(r, cur, lines, ls) ==
  LET s == LastIn(r, Len(r) + 1, "section")
  IN Named(r, cur, ls) /\ IsCollected(r, s, lines) /\ HasUpTo(r, s, ls)

FileInv ==
  /\ read \in Seq(FileLines) /\ closed \in BOOLEAN
  /\ Covered(read) => IF closed THEN HasUpTo(read, Len(read), loggers) ELSE Reading(read, current, ss, loggers)

\* The defaults of a logger.
LEMMA InitiallyIs == Initially \in FileObjects /\ \A l \in AllLevels : Get(Initially, l, "Format") = {Default}
<1>1. PICK c \in FileObjects : c = <<>>
  BY NothingParsed DEF ParseStates
<1>2. Default \in FileValues /\ Global \in AllLevels
  BY GlobalIsNot DEF FileValues
<1>3. \A l \in AllLevels : /\ set(c, Global, "Format", Default) \in FileObjects
                           /\ OneSet(c, set(c, Global, "Format", Default), Global, "Format", Default, l, "Format")
  BY <1>2, FormatSet
<1> QED
  BY <1>1, <1>2, <1>3 DEF OneSet, Initially

(***************************************************************************)
(* configure() gives the loggers what all the lines say.                   *)
(***************************************************************************)
ConfigureWith(cur, lines, ls) ==
  IF lines # <<>> /\ cur # noLogger
  THEN [ls EXCEPT ![cur] = setFromBase(@, parseFromText(lines))]
  ELSE ls

LEMMA ConfigureLaw ==
  ASSUME ReadAsMeant, NEW r \in Seq(FileLines), Covered(r), NEW cur, NEW lines, NEW ls, Reading(r, cur, lines, ls),
         NEW c, c = ConfigureWith(cur, lines, ls)
  PROVE  DOMAIN c = DOMAIN ls /\ HasUpTo(r, Len(r), c)
<1>1. PICK n \in Nat : n = Len(r)
  BY LenProperties
<1>2. PICK s \in 0..n : s = LastIn(r, n + 1, "section")
  BY SectionIs
<1>3. Named(r, cur, ls) /\ IsCollected(r, s, lines) /\ HasUpTo(r, s, ls)
  BY <1>1, <1>2 DEF Reading
<1>4. cur = IdAt(r, n + 1) /\ noLogger \notin DOMAIN ls
  BY <1>1, <1>3 DEF Named
<1>5. /\ lines \in Seq(CollectedLines) /\ Len(lines) = n - s
      /\ \A k \in 1..(n - s) : lines[k] = Collected(r[s + k])
  BY <1>1, <1>3 DEF IsCollected
<1>6. \A id, l : /\ id # cur => ValueAt(r, n, id, l) = ValueAt(r, s, id, l)
                 /\ id = cur => ValueAt(r, n, id, l) = IF LastOf(r, GivenIn(r, s, n, l)) # {}
                                                       THEN LastOf(r, GivenIn(r, s, n, l)) ELSE ValueAt(r, s, id, l)
  BY <1>2, <1>4, GivenBySections
<1>7. \A id \in DOMAIN ls : ls[id] \in FileObjects /\ \A l \in AllLevels : Get(ls[id], l, "Format") = ValueAt(r, s, id, l)
  BY <1>3 DEF HasUpTo
<1>8. CASE lines = <<>>
  <2>1. n = s
    BY <1>5, <1>8, EmptySeq
  <2> QED
    BY <1>1, <1>3, <1>8, <2>1 DEF ConfigureWith
<1>9. CASE cur = noLogger
  <2>1. c = ls
    BY <1>9 DEF ConfigureWith
  <2>2. \A id \in DOMAIN ls, l \in AllLevels : ValueAt(r, n, id, l) = ValueAt(r, s, id, l)
    BY <1>4, <1>6, <1>9
  <2> QED
    BY <1>1, <1>7, <2>1, <2>2 DEF HasUpTo
<1>10. CASE lines # <<>> /\ cur # noLogger
  <2>1. PICK q : q = parseFromText(lines)
    OBVIOUS
  <2>2. /\ q \in FileObjects /\ Fronted(q, "Format") /\ Everywhere(q, "Format")
        /\ \A l \in AllLevels : Get(q, l, "Format") = LastOf(r, GivenIn(r, s, n, l))
    BY <1>1, <1>2, <1>3, <2>1, SectionParsed
  <2>3. cur \in DOMAIN ls
    BY <1>3, <1>10 DEF Named
  <2>4. PICK d : d = setFromBase(ls[cur], q)
    OBVIOUS
  <2>5. DOMAIN c = DOMAIN ls /\ c[cur] = d /\ \A id \in DOMAIN ls : id # cur => c[id] = ls[id]
    BY <1>10, <2>1, <2>3, <2>4 DEF ConfigureWith
  <2>6. \A l \in AllLevels : /\ d \in FileObjects
                             /\ Get(d, l, "Format") = IF Get(q, l, "Format") # {} THEN Get(q, l, "Format")
                                                      ELSE Get(ls[cur], l, "Format")
    <3>1. ls[cur] \in Objects({"Format"}, FileValues) /\ q \in Objects({"Format"}, FileValues) /\ "Format" \in {"Format"}
      BY <1>7, <2>2, <2>3 DEF FileObjects
    <3>2. \A l \in AllLevels : /\ d \in Objects({"Format"}, FileValues)
                               /\ Get(d, l, "Format") = IF Get(q, l, "Format") # {} THEN Get(q, l, "Format")
                                                        ELSE Get(ls[cur], l, "Format")
      BY <2>2, <2>4, <3>1, MergeAny
    <3> QED
      BY <3>2 DEF FileObjects
  <2>7. d \in FileObjects
    BY <2>6, GlobalIsNot
  <2>8. \A l \in AllLevels : Get(d, l, "Format") = ValueAt(r, n, cur, l)
    <3> SUFFICES ASSUME NEW l \in AllLevels PROVE Get(d, l, "Format") = ValueAt(r, n, cur, l)
      OBVIOUS
    <3>1. Get(q, l, "Format") = LastOf(r, GivenIn(r, s, n, l)) /\ Get(ls[cur], l, "Format") = ValueAt(r, s, cur, l)
      BY <1>7, <2>2, <2>3
    <3> QED
      BY <1>6, <2>6, <3>1
  <2>9. \A id \in DOMAIN ls, l \in AllLevels : id # cur => ValueAt(r, n, id, l) = ValueAt(r, s, id, l)
    BY <1>6
  <2>10. ASSUME NEW id \in DOMAIN ls
         PROVE  c[id] \in FileObjects /\ \A l \in AllLevels : Get(c[id], l, "Format") = ValueAt(r, n, id, l)
    <3>1. CASE id = cur
      BY <2>5, <2>7, <2>8, <3>1
    <3>2. CASE id # cur
      BY <1>7, <2>5, <2>9, <3>2
    <3> QED
      BY <3>1, <3>2
  <2> QED
    BY <1>1, <2>5, <2>10 DEF HasUpTo
<1> QED
  BY <1>8, <1>9, <1>10

-----------------------------------------------------------------------------
\* The lines r and one more, x.
Longer(r, x, q) ==
  /\ r \in Seq(FileLines) /\ q \in Seq(FileLines) /\ Len(r) \in Nat /\ Len(q) = Len(r) + 1
  /\ q[Len(r) + 1] = x /\ \A i \in 1..Len(r) : q[i] = r[i]

\* A line is appended.
LEMMA LongerIs == ASSUME NEW r \in Seq(FileLines), NEW x \in FileLines PROVE Longer(r, x, Append(r, x))
  BY AppendProperties, LenProperties DEF Longer

\* What the lines say, with one more.
LEMMA NextLine ==
  ASSUME NEW r, NEW x, NEW q, Longer(r, x, q)
  PROVE  /\ LastIn(q, Len(q) + 1, "section") = IF x.is = "section" THEN Len(q) ELSE LastIn(r, Len(r) + 1, "section")
         /\ IdAt(q, Len(q) + 1) = IF x.is = "section" THEN x.id ELSE IdAt(r, Len(r) + 1)
         /\ \A m \in 0..Len(r) : \A id, l : ValueAt(q, m, id, l) = ValueAt(r, m, id, l)
<1>1. PICK n \in Nat : n = Len(r) /\ Len(q) = n + 1 /\ q[n + 1] = x /\ \A i \in 1..n : q[i] = r[i]
  BY DEF Longer
<1>2. PICK k \in 1..(n + 1) : k = n + 1 /\ k \in Nat /\ k > 0
  OBVIOUS
<1>3. LastIn(q, k, "section") = LastIn(r, k, "section")
  BY <1>1, LastInSame
<1>4. IdAt(q, k) = IdAt(r, k)
  BY <1>1, LinesSame
<1>5. LastIn(q, k + 1, "section") = IF q[k].is = "section" THEN k ELSE LastIn(q, k, "section")
  BY <1>2, LastInNext
<1>6. /\ q[k].is = "section" => IdAt(q, k + 1) = q[k].id
      /\ q[k].is # "section" => IdAt(q, k + 1) = IdAt(q, k)
  BY <1>2, LineNext
<1>7. \A m \in 0..n : \A id, l : ValueAt(q, m, id, l) = ValueAt(r, m, id, l)
  BY <1>1, ValueSame
<1> QED
  BY <1>1, <1>2, <1>3, <1>4, <1>5, <1>6, <1>7

\* Nothing was said of a logger that was not named.
LEMMA NotNamed ==
  ASSUME NEW r \in Seq(FileLines), NEW cur, NEW ls, Named(r, cur, ls), NEW id, id \notin DOMAIN ls, id # noLogger, NEW l
  PROVE  ValueAt(r, Len(r), id, l) = {Default}
<1>1. PICK n \in Nat : n = Len(r)
  BY LenProperties
<1>2. ASSUME NEW i \in 1..n, IdAt(r, i) = id PROVE FALSE
  <2>1. PICK m \in Nat : i = m + 1
    <3>1. i - 1 \in Nat /\ i = (i - 1) + 1
      OBVIOUS
    <3> QED
      BY <3>1
  <2>2. PICK j : j = LastIn(r, i, "section") /\ j \in 0..m /\ (j # 0 => r[j].is = "section")
    BY <2>1, LastInLaw
  <2>3. j # 0 /\ r[j].id = id
    BY <1>2, <2>2 DEF IdAt
  <2>4. j \in 1..n
    BY <2>1, <2>2, <2>3
  <2> QED
    BY <1>1, <2>2, <2>3, <2>4 DEF Named
<1>3. Given(r, n, id, l) = {}
  BY <1>2 DEF Given
<1> QED
  BY <1>1, <1>3 DEF ValueAt

\* A section starts: the one before is configured, and the logger registered.
LEMMA SectionRead ==
  ASSUME ReadAsMeant, NEW r \in Seq(FileLines), NEW cur, NEW lines, NEW ls, NEW id \in LongIds,
         NEW x, x = SectionLine(id),
         NEW q, Longer(r, x, q), Covered(r), Reading(r, cur, lines, ls),
         NEW d, d = registered_get(ConfigureWith(cur, lines, ls), id)
  PROVE  Reading(q, id, <<>>, d)
<1>1. x.is = "section" /\ x.id = id
  BY DEF SectionLine
<1>3. PICK c : c = ConfigureWith(cur, lines, ls)
  OBVIOUS
<1>4. DOMAIN c = DOMAIN ls /\ HasUpTo(r, Len(r), c)
  BY <1>3, ConfigureLaw
<1>5. Named(r, cur, ls)
  BY DEF Reading
<1>6. id # noLogger
  BY LoggersAssumption
<1>7. PICK n \in Nat : n = Len(r) /\ q \in Seq(FileLines) /\ Len(q) = n + 1 /\ q[n + 1] = x /\ \A i \in 1..n : q[i] = r[i]
  BY DEF Longer
<1>8. /\ LastIn(q, Len(q) + 1, "section") = n + 1 /\ IdAt(q, Len(q) + 1) = id
      /\ \A m \in 0..n : \A j, l : ValueAt(q, m, j, l) = ValueAt(r, m, j, l)
  BY <1>1, <1>7, NextLine
<1>9. /\ DOMAIN d = DOMAIN ls \cup {id} /\ \A j \in DOMAIN ls : d[j] = c[j]
      /\ id \notin DOMAIN ls => d[id] = Initially
  BY <1>3, <1>4 DEF registered_get, Insert, With
<1>10. \A j, l : ValueAt(q, n + 1, j, l) = ValueAt(r, n, j, l)
  <2> SUFFICES ASSUME NEW j, NEW l PROVE ValueAt(q, n + 1, j, l) = ValueAt(r, n, j, l)
    OBVIOUS
  <2>1. ~Formats(q, n + 1, {l, Global})
    BY <1>1, <1>7 DEF Formats
  <2>2. Given(q, n + 1, j, l) = Given(q, n, j, l)
    BY <2>1 DEF Given
  <2>3. ValueAt(q, n + 1, j, l) = ValueAt(q, n, j, l)
    BY <2>2 DEF ValueAt
  <2>4. ValueAt(q, n, j, l) = ValueAt(r, n, j, l)
    BY <1>8
  <2> QED
    BY <2>3, <2>4
<1>11. HasUpTo(q, n + 1, d)
  <2> SUFFICES ASSUME NEW j \in DOMAIN d
               PROVE  d[j] \in FileObjects /\ \A l \in AllLevels : Get(d[j], l, "Format") = ValueAt(r, n, j, l)
    BY <1>10 DEF HasUpTo
  <2>1. CASE j \in DOMAIN ls
    BY <1>4, <1>7, <1>9, <2>1 DEF HasUpTo
  <2>2. CASE j \notin DOMAIN ls
    <3>1. j = id /\ d[j] = Initially
      BY <1>9, <2>2
    <3>2. \A l : ValueAt(r, n, j, l) = {Default}
      BY <1>5, <1>6, <1>7, <2>2, <3>1, NotNamed
    <3> QED
      BY <3>1, <3>2, InitiallyIs
  <2> QED
    BY <2>1, <2>2
<1>12. Named(q, id, d)
  <2>1. noLogger \notin DOMAIN d
    BY <1>5, <1>6, <1>9 DEF Named
  <2>2. ASSUME NEW i \in 1..(n + 1), q[i].is = "section" PROVE q[i].id \in DOMAIN d
    <3>1. CASE i = n + 1
      BY <1>1, <1>7, <1>8, <1>9, <3>1
    <3>2. CASE i \in 1..n
      BY <1>5, <1>7, <1>8, <1>9, <2>2, <3>2 DEF Named
    <3> QED
      BY <3>1, <3>2
  <2> QED
    BY <1>7, <1>8, <1>9, <2>1, <2>2 DEF Named
<1>13. IsCollected(q, n + 1, <<>>)
  <2>1. <<>> \in Seq(CollectedLines) /\ Len(<<>>) = 0 /\ Len(q) - (n + 1) = 0
    BY <1>7, <1>8
  <2> QED
    BY <2>1 DEF IsCollected
<1> QED
  BY <1>7, <1>8, <1>11, <1>12, <1>13 DEF Reading

\* Any other line is collected.
LEMMA OtherRead ==
  ASSUME NEW r, NEW cur, NEW lines, NEW ls, NEW x \in FileLines, x.is # "section",
         NEW q, Longer(r, x, q), Reading(r, cur, lines, ls)
  PROVE  Reading(q, cur, Append(lines, Collected(x)), ls)
<1>1. PICK n \in Nat : n = Len(r) /\ q \in Seq(FileLines) /\ Len(q) = n + 1 /\ q[n + 1] = x /\ \A i \in 1..n : q[i] = r[i]
  BY DEF Longer
<1>2. PICK s \in 0..n : s = LastIn(r, n + 1, "section")
  BY SectionIs
<1>3. /\ LastIn(q, Len(q) + 1, "section") = s /\ IdAt(q, Len(q) + 1) = IdAt(r, n + 1)
      /\ \A m \in 0..n : \A id, l : ValueAt(q, m, id, l) = ValueAt(r, m, id, l)
  BY <1>1, <1>2, NextLine
<1>4. Named(r, cur, ls) /\ IsCollected(r, s, lines) /\ HasUpTo(r, s, ls)
  BY <1>1, <1>2 DEF Reading
<1>5. Named(q, cur, ls)
  <2>1. \A i \in 1..(n + 1) : q[i].is = "section" => i \in 1..n
    BY <1>1
  <2> QED
    BY <1>1, <1>3, <1>4, <2>1 DEF Named
<1>6. IsCollected(q, s, Append(lines, Collected(x)))
  <2>1. PICK w : w = Append(lines, Collected(x))
    OBVIOUS
  <2>2. /\ lines \in Seq(CollectedLines) /\ Len(lines) = n - s
        /\ \A k \in 1..(n - s) : lines[k] = Collected(r[s + k])
    BY <1>1, <1>4 DEF IsCollected
  <2>3. Collected(x) \in CollectedLines
    BY DEF CollectedLines
  <2>4. /\ w \in Seq(CollectedLines) /\ Len(w) = (n - s) + 1 /\ w[(n - s) + 1] = Collected(x)
        /\ \A k \in 1..(n - s) : w[k] = lines[k]
    BY <2>1, <2>2, <2>3, AppendProperties
  <2>5. ASSUME NEW k \in 1..((n + 1) - s) PROVE w[k] = Collected(q[s + k])
    <3>1. CASE k \in 1..(n - s)
      <4>1. s + k \in 1..n
        BY <1>2, <3>1
      <4> QED
        BY <1>1, <2>2, <2>4, <3>1, <4>1
    <3>2. CASE k = (n - s) + 1
      <4>1. s + k = n + 1
        BY <1>2, <3>2
      <4> QED
        BY <1>1, <2>4, <3>2, <4>1
    <3> QED
      BY <1>1, <1>2, <3>1, <3>2
  <2>6. (n - s) + 1 = (n + 1) - s
    BY <1>2
  <2> QED
    BY <1>1, <2>1, <2>4, <2>5, <2>6 DEF IsCollected
<1>7. HasUpTo(q, s, ls)
  <2>1. \A id, l : ValueAt(q, s, id, l) = ValueAt(r, s, id, l)
    BY <1>3
  <2> QED
    BY <1>4, <2>1 DEF HasUpTo
<1> QED
  BY <1>1, <1>3, <1>5, <1>6, <1>7 DEF Reading

\* A function on the first n numbers is a sequence.
LEMMA LenIs == ASSUME NEW n \in Nat, NEW S, NEW f \in [1..n -> S] PROVE f \in Seq(S) /\ Len(f) = n
<1>1. f \in Seq(S)
  OBVIOUS
<1> QED
  BY <1>1, LenProperties

\* Nothing is read.
LEMMA FileInitially == ASSUME FInit PROVE FileInv
<1>1. read = <<>> /\ ss = <<>> /\ current = noLogger /\ closed = FALSE /\ loggers = [id \in {"default"} |-> Initially]
  BY DEF FInit
<1>2. <<>> \in Seq(FileLines) /\ <<>> \in Seq(CollectedLines) /\ Len(<<>>) = 0
  OBVIOUS
<1>3. LastIn(<<>>, 0 + 1, "section") = 0
  BY LastInLaw
<1>4. Named(<<>>, noLogger, loggers)
  <2>1. IdAt(<<>>, 0 + 1) = noLogger
    BY <1>3 DEF IdAt
  <2> QED
    BY <1>1, <1>2, <2>1, LoggersAssumption DEF Named
<1>5. IsCollected(<<>>, 0, <<>>)
  BY <1>2 DEF IsCollected
<1>6. HasUpTo(<<>>, 0, loggers)
  <2>1. \A id, l : ValueAt(<<>>, 0, id, l) = {Default}
    BY DEF ValueAt, Given
  <2> QED
    BY <1>1, <2>1, InitiallyIs DEF HasUpTo
<1>7. Reading(<<>>, noLogger, <<>>, loggers)
  BY <1>2, <1>3, <1>4, <1>5, <1>6 DEF Reading
<1> QED
  BY <1>1, <1>2, <1>7 DEF FileInv

\* A line is read: it starts a section, or is collected.
LEMMA LineRead ==
  ASSUME ReadAsMeant, FileInv, ReadLine
  PROVE  FileInv'
<1>1. ~closed /\ closed' = FALSE /\ read \in Seq(FileLines) /\ (Covered(read) => Reading(read, current, ss, loggers))
  BY DEF FileInv, ReadLine
<1>2. ASSUME NEW id \in Ids, Section(id), read' = Append(read, SectionLine(id))
      PROVE  FileInv'
  <2>1. PICK x : x = SectionLine(id) /\ x \in FileLines /\ x.is = "section" /\ x.id = id
    <3>1. SectionLine(id) \in [is : {"section"}, id : Ids]
      BY DEF SectionLine
    <3>2. SectionLine(id) \in FileLines
      BY <3>1, Zenon DEF FileLines
    <3> QED
      BY <3>2 DEF SectionLine
  <2>2. PICK q : q = Append(read, x) /\ q = read'
    BY <1>2, <2>1
  <2>3. Longer(read, x, q)
    BY <1>1, <2>1, <2>2, LongerIs
  <2>4. q \in Seq(FileLines)
    BY <2>3 DEF Longer
  <2>5. ASSUME Covered(q) PROVE Reading(q, current', ss', loggers')
    <3>1. Covered(read) /\ id \in LongIds
      BY <1>1, <2>1, <2>2, <2>5, CoveredBefore
    <3>2. current' = id /\ ss' = <<>> /\ loggers' = registered_get(ConfigureWith(current, ss, loggers), id)
      BY <1>2, <3>1 DEF Section, configure, ConfigureWith
    <3>3. Reading(read, current, ss, loggers)
      BY <1>1, <3>1
    <3> QED
      BY <1>1, <2>1, <2>3, <3>1, <3>2, <3>3, SectionRead
  <2> QED
    BY <1>1, <2>2, <2>4, <2>5 DEF FileInv
<1>3. ASSUME NEW x \in FileLines, x.is # "section", Collect(Collected(x)), read' = Append(read, x)
      PROVE  FileInv'
  <2>1. PICK q : q = Append(read, x) /\ q = read'
    BY <1>3
  <2>2. Longer(read, x, q)
    BY <1>1, <2>1, LongerIs
  <2>3. q \in Seq(FileLines)
    BY <2>2 DEF Longer
  <2>4. ss' = Append(ss, Collected(x)) /\ current' = current /\ loggers' = loggers
    BY <1>3 DEF Collect
  <2>5. ASSUME Covered(q) PROVE Reading(q, current', ss', loggers')
    <3>1. Reading(read, current, ss, loggers)
      BY <1>1, <2>1, <2>5, CoveredBefore
    <3> QED
      BY <1>3, <2>2, <2>4, <3>1, OtherRead
  <2> QED
    BY <1>1, <2>1, <2>3, <2>5 DEF FileInv
<1>4. ASSUME NEW level \in Levels \cup {Global, "Unknown"}, Collect(LevelLine(level)), read' = Append(read, LevelLine(level))
      PROVE  FileInv'
  <2>1. LevelLine(level) \in FileLines /\ Collected(LevelLine(level)) = LevelLine(level) /\ LevelLine(level).is # "section"
    BY DEF FileLines, LevelLine, Collected
  <2> QED
    BY <1>3, <1>4, <2>1
<1>5. ASSUME Collect(BlankLine), read' = Append(read, BlankLine) PROVE FileInv'
  <2>1. BlankLine \in FileLines /\ Collected(BlankLine) = BlankLine /\ BlankLine.is # "section"
    BY DEF FileLines, BlankLine, Collected
  <2> QED
    BY <1>3, <1>5, <2>1
<1>6. ASSUME NEW type \in {"Format", "Unknown"}, NEW value \in Values \cup OddValues, ReadConfig(type, value) PROVE FileInv'
  <2>1. PICK x : x = ConfigLine(type, value)
    OBVIOUS
  <2>2. x \in FileLines /\ x.is = "config" /\ x.type = type /\ x.value = value
    BY <2>1 DEF FileLines, ConfigLine, WrittenValues
  <2>3. Collect(Collected(x)) /\ read' = Append(read, x)
    BY <1>6, <2>1, <2>2 DEF ReadConfig, Collected
  <2> QED
    BY <1>3, <2>2, <2>3
<1> QED
  BY <1>2, <1>4, <1>5, <1>6 DEF ReadLine

\* The file ends.
LEMMA FileEnds ==
  ASSUME ReadAsMeant, FileInv, EndOfFile
  PROVE  FileInv'
<1>1. /\ read \in Seq(FileLines) /\ (Covered(read) => Reading(read, current, ss, loggers))
      /\ closed' = TRUE /\ read' = read /\ loggers' = ConfigureWith(current, ss, loggers)
  BY DEF FileInv, EndOfFile, configure, ConfigureWith
<1>2. ASSUME Covered(read) PROVE HasUpTo(read, Len(read), loggers')
  BY <1>1, <1>2, ConfigureLaw
<1> QED
  BY <1>1, <1>2 DEF FileInv

\* Each step keeps the invariant.
LEMMA FileNext ==
  ASSUME ReadAsMeant, FileInv, [FNext]_fvars
  PROVE  FileInv'
<1>1. CASE ReadLine
  BY <1>1, LineRead
<1>2. CASE EndOfFile
  BY <1>2, FileEnds
<1>3. CASE UNCHANGED fvars
  BY <1>3 DEF FileInv, fvars
<1> QED
  BY <1>1, <1>2, <1>3 DEF FNext

-----------------------------------------------------------------------------
\* What the module says of the lines read.
LEMMA LinesMean ==
  ASSUME read \in Seq(FileLines), NEW i \in DOMAIN read
  PROVE  /\ \A kind : LastBefore(i, kind) = LastIn(read, i, kind)
         /\ SectionOf(i) = IdAt(read, i)
         /\ \A id, L : Setting(i, id, L) <=> Formats(read, i, L) /\ IdAt(read, i) = id
<1>1. PICK n \in Nat : n = Len(read) /\ DOMAIN read = 1..n
  BY LenProperties
<1>2. PICK m \in Nat : m = i - 1 /\ m <= n
  BY <1>1
<1>3. PICK s : s = SubSeq(read, 1, m)
  OBVIOUS
<1>4. Len(s) = m /\ \A j \in 1..m : s[j] = read[j]
  <2>1. \A j \in 1..m : read[j] \in FileLines
    BY <1>1, <1>2, ElementOfSeq
  <2>2. /\ Len(s) = IF 1 <= m THEN m - 1 + 1 ELSE 0
        /\ \A j \in 1..(m - 1 + 1) : s[j] = read[1 + j - 1]
    BY <1>3, <2>1, SubSeqProperties
  <2> QED
    BY <2>2
<1>5. \A kind : LastBefore(i, kind) = LastIn(read, i, kind)
  <2> SUFFICES ASSUME NEW kind PROVE LastBefore(i, kind) = LastIn(read, i, kind)
    OBVIOUS
  <2> DEFINE I == {j \in 1..Len(s) : s[j].is = kind}
             J == {j \in 1..(i - 1) : read[j].is = kind}
  <2>1. LastBefore(i, kind) = IF I # {} THEN Max(I) ELSE 0
    BY <1>2, <1>3 DEF LastBefore, SelectLastInSeq
  <2>2. LastIn(read, i, kind) = IF J # {} THEN Max(J) ELSE 0
    BY DEF LastIn
  <2>3. I = J
    BY <1>2, <1>4
  <2> HIDE DEF I, J
  <2> QED
    BY <2>1, <2>2, <2>3
<1>6. SectionOf(i) = IdAt(read, i)
  BY <1>5 DEF SectionOf, IdAt
<1>7. LevelOf(i) = LevelAt(read, i)
  BY <1>5 DEF LevelOf, LevelAt
<1> QED
  BY <1>5, <1>6, <1>7 DEF Setting, Formats

\* The condition on the order of levels, of the lines read.
LEMMA GlobalFirstMeans ==
  ASSUME read \in Seq(FileLines), GlobalFirstInSections
  PROVE  LeadsInSections(read)
<1> SUFFICES ASSUME NEW i \in DOMAIN read, NEW j \in DOMAIN read, i < j, Formats(read, j, {Global}), Formats(read, i, Levels),
                    IdAt(read, i) = IdAt(read, j), LastIn(read, i, "section") = LastIn(read, j, "section")
             PROVE  \E k \in 1..i : Formats(read, k, {Global}) /\ IdAt(read, k) = IdAt(read, j)
                                    /\ LastIn(read, k, "section") = LastIn(read, j, "section")
  BY DEF LeadsInSections
<1>1. /\ SectionOf(j) = IdAt(read, j) /\ LastBefore(j, "section") = LastIn(read, j, "section")
      /\ Setting(j, IdAt(read, j), {Global})
  BY LinesMean
<1>2. LastBefore(i, "section") = LastIn(read, i, "section") /\ Setting(i, IdAt(read, j), Levels)
  BY LinesMean
<1>3. PICK k \in 1..i : Setting(k, IdAt(read, j), {Global}) /\ LastBefore(k, "section") = LastBefore(j, "section")
  BY <1>1, <1>2 DEF GlobalFirstInSections
<1>4. k \in DOMAIN read
  <2>1. PICK n \in Nat : DOMAIN read = 1..n
    BY LenProperties
  <2> QED
    BY <2>1
<1>5. LastBefore(k, "section") = LastIn(read, k, "section") /\ Formats(read, k, {Global}) /\ IdAt(read, k) = IdAt(read, j)
  BY <1>3, <1>4, LinesMean
<1> QED
  BY <1>1, <1>3, <1>5

\* The invariant says what the loggers have.
LEMMA FileApplied ==
  ASSUME FileInv
  PROVE  SectionsApplied
<1> SUFFICES ASSUME closed, GlobalFirstInSections,
                    \A i \in DOMAIN read : /\ read[i].is = "section" => read[i].id \in LongIds
                                           /\ read[i].is = "config" => Readable(read[i].value),
                    NEW id \in DOMAIN loggers, NEW l \in Levels,
                    NEW i, i = SelectLastInSeq([k \in DOMAIN read |-> Setting(k, id, {l, Global})], LAMBDA b : b),
                    NEW given, given = loggers[id]
             PROVE  given[Place(given, l, "Format")].value = IF i = 0 THEN Default ELSE read[i].value.body
  BY DEF SectionsApplied
<1>1. read \in Seq(FileLines)
  BY DEF FileInv
<1>2. Covered(read)
  BY <1>1, GlobalFirstMeans DEF Covered
<1>3. HasUpTo(read, Len(read), loggers)
  BY <1>2 DEF FileInv
<1>4. PICK n \in Nat : n = Len(read) /\ DOMAIN read = 1..n
  BY <1>1, LenProperties
<1>5. given \in FileObjects /\ Get(given, l, "Format") = ValueAt(read, n, id, l)
  BY <1>3, <1>4 DEF HasUpTo, AllLevels
<1> DEFINE I == {k \in 1..n : Setting(k, id, {l, Global})}
<1>6. i = IF I # {} THEN Max(I) ELSE 0
  <2>1. PICK f : f = [k \in 1..n |-> Setting(k, id, {l, Global})]
    OBVIOUS
  <2>2. i = SelectLastInSeq(f, LAMBDA b : b)
    BY <1>4, <2>1
  <2>3. f \in [1..n -> BOOLEAN] /\ \A k \in 1..n : f[k] = Setting(k, id, {l, Global})
    BY <2>1 DEF Setting
  <2>4. Len(f) = n
    BY <2>3, LenIs
  <2>5. {k \in 1..Len(f) : f[k]} = I
    BY <2>3, <2>4
  <2> QED
    BY <2>2, <2>5 DEF SelectLastInSeq
<1>7. I = Given(read, n, id, l)
  BY <1>1, <1>4, LinesMean DEF Given
<1> HIDE DEF I
<1>8. I # {} => Max(I) # 0
  <2>1. I \subseteq 0..n /\ 0 \notin I
    BY <1>7 DEF Given
  <2>2. I # {} => Max(I) \in I
    BY <2>1, Largest
  <2> QED
    BY <2>1, <2>2
<1>9. ValueAt(read, n, id, l) = {IF i = 0 THEN Default ELSE read[i].value.body}
  BY <1>6, <1>7, <1>8 DEF ValueAt, LastOf
<1>10. Place(given, l, "Format") \in PlacesOf(given, l, "Format")
  <2>1. given \in Seq(Entries({"Format"}, FileValues))
    BY <1>5 DEF FileObjects, Objects
  <2>2. PlacesOf(given, l, "Format") # {}
    BY <1>5, <1>9 DEF Get
  <2> QED
    BY <2>1, <2>2, PlaceLaw
<1>11. given[Place(given, l, "Format")].value \in Get(given, l, "Format")
  BY <1>10 DEF Get
<1> QED
  BY <1>5, <1>9, <1>11

(***************************************************************************)
(* When the file is read, each logger it names has for each level the      *)
(* format that its sections gave last, as it was meant, if the values that *)
(* are readable are read so: of any names, values and length of the file.  *)
(***************************************************************************)
THEOREM FileTheorem == ReadAsMeant => (FInit /\ [][FNext]_fvars => []SectionsApplied)
<1> SUFFICES ASSUME ReadAsMeant PROVE FInit /\ [][FNext]_fvars => []SectionsApplied
  OBVIOUS
<1>1. FInit => FileInv
  BY FileInitially
<1>2. FileInv /\ [FNext]_fvars => FileInv'
  BY FileNext
<1>3. FileInv => SectionsApplied
  BY FileApplied
<1> QED
  BY <1>1, <1>2, <1>3, PTL

=============================================================================

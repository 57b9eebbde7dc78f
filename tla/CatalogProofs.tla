---------------------------- MODULE CatalogProofs ----------------------------
(***************************************************************************)
(* Theorems about Catalog, for any number of readers, writers and keys and *)
(* with requests that die at any command: at most one request rebuilds a   *)
(* key; the types; a cached value is stale only for a known reason.        *)
(***************************************************************************)
EXTENDS Catalog, FiniteSetTheorems, TLAPS

RebuildPlaces == {"load", "fill", "unlock", "unwind"}

Shapes == DOMAIN pc = Tasks /\ DOMAIN key = Tasks /\ DOMAIN lock = Keys

(* Whoever rebuilds a key is the holder of its lock: OneRebuilder alone     *)
(* says nothing of a lock that was deleted or expired under its holder.     *)
RebuildersHold ==
    ~SlowRebuilds => \A k \in Keys, r \in Readers : Rebuilding(r, k) => lock[k] = r

LockInv == Shapes /\ RebuildersHold

LEMMA Separate == \A r \in Readers, w \in Writers : r \in Tasks /\ w \in Tasks /\ r # w
  BY CatalogAssumption DEF Tasks

(* A step that leaves the locks alone and lets nobody into a rebuild.       *)
LEMMA NobodyEnters ==
    ASSUME LockInv, Shapes', UNCHANGED lock,
           \A r \in Readers : pc'[r] \in RebuildPlaces =>
               pc[r] \in RebuildPlaces /\ key'[r] = key[r]
    PROVE  LockInv'
  BY DEF LockInv, RebuildersHold, Rebuilding, RebuildPlaces

LEMMA ReaderMoves ==
    ASSUME LockInv, NEW r \in Readers
    PROVE  /\ \A p \in Products : StartDetail(r, p) => LockInv'
           /\ StartList(r) => LockInv'
           /\ ReadStep(r) => LockInv'
<1> USE Separate DEF LockInv, Shapes, Tasks
<1>1. ASSUME NEW p \in Products, StartDetail(r, p) PROVE LockInv'
  BY <1>1, NobodyEnters DEF StartDetail, Goto, RebuildPlaces, redis
<1>2. ASSUME StartList(r) PROVE LockInv'
  BY <1>2, NobodyEnters DEF StartList, Goto, RebuildPlaces, redis
<1>3. ASSUME ReadStep(r) PROVE LockInv'
  <2>1. CASE SetVersion(r)
    BY <2>1, NobodyEnters DEF SetVersion, Goto, RebuildPlaces
  <2>2. CASE Get(r)
    BY <2>2, NobodyEnters DEF Get, Goto, RebuildPlaces, redis
  <2>3. CASE Lock(r)
    <3>1. CASE LockFree(key[r])
      <4>1. Shapes'
        BY <2>3, <3>1 DEF Lock, Goto
      <4>2. \A k \in Keys, s \in Readers : k = key[r] /\ s # r => ~Rebuilding(s, k) \/ SlowRebuilds
        BY <3>1, CatalogAssumption DEF LockFree, RebuildersHold, Tasks
      <4>3. RebuildersHold'
        BY <2>3, <3>1, <4>2 DEF Lock, Goto, RebuildersHold, Rebuilding
      <4> QED BY <4>1, <4>3
    <3>2. CASE ~LockFree(key[r])
      BY <2>3, <3>2, NobodyEnters DEF Lock, Goto, RebuildPlaces
    <3> QED BY <3>1, <3>2
  <2>4. CASE Reread(r)
    BY <2>4, NobodyEnters DEF Reread, Goto, RebuildPlaces, redis
  <2>5. CASE Load(r)
    BY <2>5, NobodyEnters DEF Load, Goto, RebuildPlaces, redis
  <2>6. CASE LoadFails(r)
    BY <2>6, NobodyEnters DEF LoadFails, Goto, RebuildPlaces, redis
  <2>7. CASE Fill(r)
    BY <2>7, NobodyEnters DEF Fill, Goto, RebuildPlaces
  <2>8. CASE Unlock(r)
    <3>1. \A s \in Readers : Rebuilding(s, key[r]) /\ s # r => SlowRebuilds \/ key[r] \notin Keys
      BY <2>8 DEF Unlock, RebuildersHold, Rebuilding
    <3>2. RebuildersHold'
      BY <2>8, <3>1 DEF Unlock, Goto, RebuildersHold, Rebuilding
    <3> QED BY <2>8, <3>2 DEF Unlock, Goto
  <2>9. CASE Answer(r)
    BY <2>9, NobodyEnters DEF Answer, Finish, Goto, RebuildPlaces, redis
  <2> QED BY <1>3, <2>1, <2>2, <2>3, <2>4, <2>5, <2>6, <2>7, <2>8, <2>9 DEF ReadStep
<1> QED BY <1>1, <1>2, <1>3

(* Writers never take part in a rebuild. *)
LEMMA WriterMoves ==
    ASSUME LockInv, NEW w \in Writers
    PROVE  /\ WriteStep(w) => LockInv'
           /\ \A p \in Products :
                /\ CreateProduct(w, p) \/ UpdateProduct(w, p) \/ Sell(w, p) => LockInv'
                /\ \A o \in {"delist", "relist"} : StartSetActive(w, o, p) => LockInv'
<1> USE Separate DEF LockInv, Shapes, Tasks
<1>1. ASSUME NEW o, NEW p, NEW place, Begin(w, o, p, place) PROVE LockInv'
  BY <1>1, NobodyEnters DEF Begin, Goto, RebuildPlaces
<1>2. ASSUME NEW p \in Products,
             CreateProduct(w, p) \/ UpdateProduct(w, p) \/ Sell(w, p)
             \/ \E o \in {"delist", "relist"} : StartSetActive(w, o, p)
      PROVE  LockInv'
  BY <1>1, <1>2 DEF CreateProduct, UpdateProduct, Sell, StartSetActive
<1>3. ASSUME WriteStep(w) PROVE LockInv'
  <2>1. UNCHANGED lock
    BY <1>3 DEF WriteStep, CommitActive, Bump, Drop, Mark, redis
  <2>2. /\ DOMAIN pc' = Tasks /\ DOMAIN key' = Tasks
        /\ \A r \in Readers : pc'[r] = pc[r] /\ key'[r] = key[r]
    <3>1. CASE CommitActive(w)
      BY <3>1 DEF CommitActive, Goto
    <3>2. CASE Bump(w)
      BY <3>2 DEF Bump, Goto, Finish
    <3>3. CASE Drop(w)
      BY <3>3 DEF Drop, Goto, Finish
    <3>4. CASE Mark(w)
      BY <3>4 DEF Mark, Goto, Finish
    <3> QED BY <1>3, <3>1, <3>2, <3>3, <3>4 DEF WriteStep
  <2> QED BY <2>1, <2>2, NobodyEnters
<1> QED BY <1>2, <1>3

(* What Redis and the process do to a rebuild: only a lock whose holder is  *)
(* gone runs out, and a request that dies leaves its rebuild.               *)
LEMMA WorldMoves ==
    ASSUME LockInv
    PROVE  /\ \A k \in Keys : Expire(k) \/ LockExpires(k) => LockInv'
           /\ \A t \in Tasks : Crash(t) => LockInv'
<1> USE DEF LockInv, Shapes
<1>1. ASSUME NEW k \in Keys, Expire(k) PROVE LockInv'
  BY <1>1, NobodyEnters DEF Expire
<1>2. ASSUME NEW k \in Keys, LockExpires(k) PROVE LockInv'
  <2>1. \A r \in Readers : Rebuilding(r, k) => SlowRebuilds
    BY <1>2 DEF LockExpires, LockIsOver, RebuildersHold
  <2>2. RebuildersHold'
    BY <1>2, <2>1 DEF LockExpires, RebuildersHold, Rebuilding
  <2> QED BY <1>2, <2>2 DEF LockExpires
<1>3. ASSUME NEW t \in Tasks, Crash(t) PROVE LockInv'
  <2>1. /\ DOMAIN pc' = Tasks /\ DOMAIN key' = Tasks
        /\ \A r \in Readers : r # t => pc'[r] = pc[r] /\ key'[r] = key[r]
        /\ pc'[t] = "idle"
    BY <1>3 DEF Crash, Finish, Goto, Tasks
  <2>2. UNCHANGED lock
    BY <1>3 DEF Crash
  <2> QED BY <2>1, <2>2, NobodyEnters DEF RebuildPlaces
<1> QED BY <1>1, <1>2, <1>3

LEMMA LockInvInductive == LockInv /\ [Next]_vars => LockInv'
<1>1. ASSUME LockInv, Next PROVE LockInv'
  BY <1>1, ReaderMoves, WriterMoves, WorldMoves DEF Next
<1>2. ASSUME LockInv, UNCHANGED vars PROVE LockInv'
  BY <1>2 DEF vars, redis, LockInv, Shapes, RebuildersHold, Rebuilding
<1> QED BY <1>1, <1>2

(* At most one request rebuilds a key as long as rebuilds end within the    *)
(* lock's time: the SETNX lock of _get_or_set, its EX and the DEL of its    *)
(* finally clause.                                                          *)
THEOREM RebuildExclusion == Spec => []OneRebuilder
<1>1. Init => LockInv
  BY DEF Init, LockInv, Shapes, RebuildersHold, Rebuilding, Tasks
<1>2. LockInv => OneRebuilder
  BY DEF LockInv, RebuildersHold, OneRebuilder
<1> QED BY <1>1, <1>2, LockInvInductive, PTL DEF Spec

-----------------------------------------------------------------------------
(* Types *)

Values == SUBSET (Products \X (0..MaxRev) \X (0..MaxUnits))
ReadPlaces == {"idle", "version", "get", "lock", "reread", "load", "fill", "unlock", "unwind",
               "answer", "fail"}

(* Writers that still move the version: each has a version to go to.        *)
Moving == {w \in Writers : pc[w] \in {"commit", "bump"}}

TInv ==
    /\ TypeOK
    /\ DOMAIN pc = Tasks /\ DOMAIN op = Tasks /\ DOMAIN seen = Tasks
    /\ got \in [Tasks -> Values \cup {None}]
    /\ \A r \in Readers : pc[r] \in ReadPlaces
    /\ \A r \in Readers : pc[r] \notin {"idle", "version"} => key[r] \in Keys
    /\ \A r \in Readers : pc[r] = "fill" => got[r] \in Values
    /\ \A w \in Writers : pc[w] # "idle" => key[w] \in Products
    /\ CurrentVer + Cardinality(Moving) <= MaxVer

LEMMA Bounds == MaxVer \in Nat
  BY CatalogAssumption

LEMMA ViewType ==
    ASSUME TypeOK, NEW k \in Keys
    PROVE  View(k) \in Values
<1>1. \A p \in Products : Detail(p) \in Values
  BY CatalogAssumption DEF TypeOK, Detail, Values, Delisted
<1>2. Page \in Values
  BY CatalogAssumption DEF TypeOK, Page, Values
<1> QED BY <1>1, <1>2 DEF View

LEMMA MovingFinite == IsFiniteSet(Moving) /\ Cardinality(Moving) \in Nat
<1>1. IsFiniteSet(Moving)
  BY FS_Subset, CatalogAssumption DEF Moving
<1> QED BY <1>1, FS_CardinalityType

LEMMA MovingBounds ==
    /\ \A w : /\ IsFiniteSet(Moving \cup {w})
              /\ Cardinality(Moving \cup {w}) \in Nat
              /\ Cardinality(Moving \cup {w}) <= Cardinality(Moving) + 1
    /\ \A w : /\ IsFiniteSet(Moving \ {w})
              /\ Cardinality(Moving \ {w}) \in Nat
              /\ w \in Moving => Cardinality(Moving \ {w}) = Cardinality(Moving) - 1
              /\ w \notin Moving => Cardinality(Moving \ {w}) = Cardinality(Moving)
<1>1. IsFiniteSet(Moving) /\ Cardinality(Moving) \in Nat
  BY MovingFinite
<1>2. ASSUME NEW w
      PROVE  /\ IsFiniteSet(Moving \cup {w})
             /\ Cardinality(Moving \cup {w}) \in Nat
             /\ Cardinality(Moving \cup {w}) <= Cardinality(Moving) + 1
  <2>1. /\ IsFiniteSet(Moving \cup {w})
        /\ Cardinality(Moving \cup {w}) =
             IF w \in Moving THEN Cardinality(Moving) ELSE Cardinality(Moving) + 1
    BY <1>1, FS_AddElement
  <2> QED BY <1>1, <2>1
<1>3. ASSUME NEW w
      PROVE  /\ IsFiniteSet(Moving \ {w})
             /\ Cardinality(Moving \ {w}) =
                  IF w \in Moving THEN Cardinality(Moving) - 1 ELSE Cardinality(Moving)
             /\ Cardinality(Moving \ {w}) \in Nat
  <2>1. /\ IsFiniteSet(Moving \ {w})
        /\ Cardinality(Moving \ {w}) =
             IF w \in Moving THEN Cardinality(Moving) - 1 ELSE Cardinality(Moving)
    BY <1>1, FS_RemoveElement
  <2>2. Cardinality(Moving \ {w}) \in Nat
    BY <2>1, FS_CardinalityType
  <2> QED BY <2>1, <2>2
<1> QED BY <1>2, <1>3

LEMMA VerType ==
    ASSUME TInv
    PROVE  ver \in 0..MaxVer /\ CurrentVer \in 1..MaxVer
  BY CatalogAssumption, MovingFinite DEF TInv, TypeOK, CurrentVer

(* What Put and Del do to the cache. *)
LEMMA PutType ==
    ASSUME TypeOK, NEW k \in Keys, NEW v \in Values, Put(k, v)
    PROVE  /\ entry' \in [Keys -> Values \cup {None}]
           /\ excused' \subseteq {i \in Keys : entry'[i] # None}
  BY CatalogAssumption DEF TypeOK, Put, Values

LEMMA DelType ==
    ASSUME TypeOK, NEW k, Del(k)
    PROVE  /\ entry' \in [Keys -> Values \cup {None}]
           /\ excused' \subseteq {i \in Keys : entry'[i] # None}
  BY CatalogAssumption DEF TypeOK, Del, Values

LEMMA FinishType ==
    ASSUME TInv, NEW t \in Tasks, Finish(t)
    PROVE  /\ DOMAIN pc' = Tasks /\ DOMAIN op' = Tasks /\ DOMAIN seen' = Tasks
           /\ got' \in [Tasks -> Values \cup {None}]
           /\ key' \in [Tasks -> Keys \cup {None}]
           /\ pc'[t] = "idle"
           /\ \A s \in Tasks \ {t} :
                pc'[s] = pc[s] /\ key'[s] = key[s] /\ got'[s] = got[s] /\ op'[s] = op[s]
           /\ Moving' = Moving \ {t}
  BY Separate DEF TInv, TypeOK, Finish, Goto, Moving

(* The steps of readers, which never touch the rows.                        *)
LEMMA ReaderTypes ==
    ASSUME TInv, NEW r \in Readers,
           StartList(r) \/ ReadStep(r) \/ \E p \in Products : StartDetail(r, p)
    PROVE  TInv'
<1>1. /\ r \in Tasks /\ r \notin Writers /\ TypeOK
      /\ ver \in 0..MaxVer /\ CurrentVer \in 1..MaxVer /\ 1 \in 1..MaxVer
  BY Separate, VerType, CatalogAssumption DEF TInv, Tasks
<1>2. UNCHANGED database
  BY DEF StartList, ReadStep, StartDetail, SetVersion, Get, Lock, Reread, Load, LoadFails, Fill,
         Unlock, Answer
<1>3. /\ entry' \in [Keys -> Values \cup {None}]
      /\ excused' \subseteq {k \in Keys : entry'[k] # None}
      /\ lock' \in [Keys -> Readers \cup {None}]
      /\ ver' \in 0..MaxVer /\ CurrentVer' <= CurrentVer /\ CurrentVer' \in Nat
  <2>1. CASE Fill(r)
    <3>1. key[r] \in Keys /\ got[r] \in Values /\ Put(key[r], got[r])
      BY <2>1 DEF Fill, TInv
    <3> QED BY <1>1, <2>1, <3>1, PutType DEF Fill, TypeOK, CurrentVer
  <2>2. CASE SetVersion(r)
    BY <1>1, <2>2 DEF SetVersion, FirstVersion, CurrentVer, TypeOK, Cached, Keys, Values
  <2>3. CASE Lock(r) \/ Unlock(r)
    <3>1. UNCHANGED <<entry, ver, excused>>
      BY <2>3 DEF Lock, Unlock
    <3>2. lock' \in [Keys -> Readers \cup {None}]
      BY <1>1, <2>3 DEF Lock, Unlock, TypeOK
    <3> QED BY <1>1, <3>1, <3>2 DEF CurrentVer, TypeOK, Values
  <2>4. CASE UNCHANGED redis
    BY <1>1, <2>4 DEF redis, CurrentVer, TypeOK, Values
  <2> QED BY <2>1, <2>2, <2>3, <2>4
          DEF StartList, ReadStep, StartDetail, Get, Reread, Load, LoadFails, Answer
<1>4. /\ DOMAIN pc' = Tasks /\ DOMAIN op' = Tasks /\ DOMAIN seen' = Tasks
      /\ got' \in [Tasks -> Values \cup {None}]
      /\ key' \in [Tasks -> Keys \cup {None}]
      /\ \A s \in Tasks \ {r} : pc'[s] = pc[s] /\ key'[s] = key[s] /\ got'[s] = got[s]
      /\ pc'[r] \in ReadPlaces
      /\ pc'[r] \notin {"idle", "version"} => key'[r] \in Keys
      /\ pc'[r] = "fill" => got'[r] \in Values
  <2> USE <1>1 DEF TInv, Goto, ReadPlaces
  <2>1. CASE Answer(r)
    BY <2>1, FinishType DEF Answer
  <2>2. CASE Load(r)
    <3>1. View(key[r]) \in Values
      BY <2>2, ViewType DEF Load
    <3> QED BY <2>2, <3>1 DEF Load, TypeOK
  <2>3. CASE Get(r) \/ Reread(r)
    <3>1. entry[key[r]] \in Values \cup {None}
      BY <2>3 DEF Get, Reread, TypeOK, Values
    <3> QED BY <2>3, <3>1 DEF Get, Reread, TypeOK
  <2>4. CASE StartList(r)
    BY <2>4 DEF StartList, TypeOK, Keys
  <2>5. CASE \E p \in Products : StartDetail(r, p)
    BY <2>5 DEF StartDetail, TypeOK, Keys
  <2>6. CASE SetVersion(r)
    BY <2>6 DEF SetVersion, TypeOK, Keys
  <2>7. CASE Lock(r) \/ LoadFails(r) \/ Fill(r) \/ Unlock(r)
    BY <2>7 DEF Lock, LoadFails, Fill, Unlock, TypeOK
  <2> QED BY <2>1, <2>2, <2>3, <2>4, <2>5, <2>6, <2>7 DEF ReadStep
<1>5. TypeOK'
  BY <1>2, <1>3, <1>4, <1>1 DEF TypeOK, database, Values
<1>6. Moving' = Moving
  BY <1>1, <1>4, Separate DEF Moving
<1>7. CurrentVer' + Cardinality(Moving') <= MaxVer
  BY <1>1, <1>3, <1>6, MovingFinite, CatalogAssumption DEF TInv
<1>8. \A s \in Readers : /\ pc'[s] \in ReadPlaces
                         /\ pc'[s] \notin {"idle", "version"} => key'[s] \in Keys
                         /\ pc'[s] = "fill" => got'[s] \in Values
  BY <1>4, Separate DEF TInv, Tasks
<1>9. \A w \in Writers : pc'[w] # "idle" => key'[w] \in Products
  BY <1>1, <1>4, Separate DEF TInv
<1>10. /\ TypeOK'
       /\ DOMAIN pc' = Tasks /\ DOMAIN op' = Tasks /\ DOMAIN seen' = Tasks
       /\ got' \in [Tasks -> Values \cup {None}]
  BY <1>4, <1>5
<1> HIDE DEF TypeOK
<1> QED BY <1>10, <1>7, <1>8, <1>9 DEF TInv

(* A writer begins: the rows and its pc are all that a request changes.     *)
LEMMA BeginType ==
    ASSUME TInv, NEW w \in Writers, NEW o, NEW p \in Products, NEW place, Begin(w, o, p, place)
    PROVE  /\ DOMAIN pc' = Tasks /\ DOMAIN op' = Tasks
           /\ got' \in [Tasks -> Values \cup {None}]
           /\ key' \in [Tasks -> Keys \cup {None}]
           /\ \A r \in Readers : pc'[r] = pc[r] /\ key'[r] = key[r] /\ got'[r] = got[r]
           /\ \A x \in Writers : pc'[x] # "idle" => key'[x] \in Products
           /\ Moving' = IF place \in {"commit", "bump"} THEN Moving \cup {w} ELSE Moving
           /\ w \notin Moving
  BY Separate DEF TInv, TypeOK, Begin, Goto, Moving, Keys, Tasks

LEMMA WriterStarts ==
    ASSUME TInv, NEW w \in Writers, NEW p \in Products,
           \/ CreateProduct(w, p) \/ UpdateProduct(w, p) \/ Sell(w, p)
           \/ \E o \in {"delist", "relist"} : StartSetActive(w, o, p)
    PROVE  TInv'
<1>1. PICK o, place : /\ Begin(w, o, p, place)
                      /\ place \in {"commit", "bump"} => Room
  BY DEF CreateProduct, UpdateProduct, Sell, StartSetActive, PlaceAfterSale
<1>2. UNCHANGED <<entry, lock, ver>> /\ UNCHANGED CurrentVer
  BY <1>1 DEF Begin, CurrentVer
<1>3. /\ rev' \in [Products -> 0..MaxRev]
      /\ units' \in [Products -> 1..MaxUnits]
      /\ active' \in [Products -> BOOLEAN]
      /\ excused' \subseteq {k \in Keys : entry'[k] # None}
      /\ DOMAIN seen' = Tasks
  <2> USE <1>2, CatalogAssumption DEF TInv, TypeOK
  <2>1. CASE CreateProduct(w, p)
    BY <2>1 DEF CreateProduct, Cached, Keys
  <2>2. CASE UpdateProduct(w, p)
    BY <2>2 DEF UpdateProduct
  <2>3. CASE Sell(w, p)
    BY <2>3 DEF Sell
  <2>4. CASE \E e \in {"delist", "relist"} : StartSetActive(w, e, p)
    BY <2>4 DEF StartSetActive, database
  <2> QED BY <2>1, <2>2, <2>3, <2>4
<1>4. /\ DOMAIN pc' = Tasks /\ DOMAIN op' = Tasks
      /\ got' \in [Tasks -> Values \cup {None}]
      /\ key' \in [Tasks -> Keys \cup {None}]
      /\ \A r \in Readers : pc'[r] = pc[r] /\ key'[r] = key[r] /\ got'[r] = got[r]
      /\ \A x \in Writers : pc'[x] # "idle" => key'[x] \in Products
      /\ Moving' = IF place \in {"commit", "bump"} THEN Moving \cup {w} ELSE Moving
      /\ w \notin Moving
  BY <1>1, BeginType
<1>5. TypeOK'
  BY <1>2, <1>3, <1>4 DEF TInv, TypeOK
<1>6. CurrentVer' + Cardinality(Moving') <= MaxVer
  <2>1. CASE place \in {"commit", "bump"}
    <3>1. CurrentVer + Cardinality(Moving) < MaxVer
      BY <1>1, <2>1 DEF Room, Moving
    <3>2. Moving' = Moving \cup {w}
      BY <1>4, <2>1
    <3>3. Cardinality(Moving') \in Nat /\ Cardinality(Moving') <= Cardinality(Moving) + 1
      BY <3>2, MovingBounds
    <3>4. CurrentVer \in Nat /\ CurrentVer' = CurrentVer
      BY <1>2, VerType, Bounds
    <3> QED BY <3>1, <3>3, <3>4, MovingFinite, Bounds
  <2>2. CASE place \notin {"commit", "bump"}
    BY <1>2, <1>4, <2>2 DEF TInv
  <2> QED BY <2>1, <2>2
<1>7. \A r \in Readers : /\ pc'[r] \in ReadPlaces
                         /\ pc'[r] \notin {"idle", "version"} => key'[r] \in Keys
                         /\ pc'[r] = "fill" => got'[r] \in Values
  BY <1>4 DEF TInv
<1> HIDE DEF TypeOK
<1> QED BY <1>3, <1>4, <1>5, <1>6, <1>7 DEF TInv

(* A step that ends or carries on with one task.                            *)
LEMMA WriterTypes ==
    ASSUME TInv, NEW w \in Writers, WriteStep(w)
    PROVE  TInv'
<1>1. w \in Tasks /\ TypeOK /\ ver \in 0..MaxVer /\ CurrentVer \in 1..MaxVer
  BY Separate, VerType DEF TInv, Tasks
<1>2. /\ rev' \in [Products -> 0..MaxRev]
      /\ units' \in [Products -> 1..MaxUnits]
      /\ active' \in [Products -> BOOLEAN]
      /\ UNCHANGED lock
  BY <1>1 DEF WriteStep, CommitActive, Bump, Drop, Mark, database, redis, TypeOK
<1>3. /\ entry' \in [Keys -> Values \cup {None}]
      /\ excused' \subseteq {k \in Keys : entry'[k] # None}
  <2>1. CASE Drop(w)
    BY <1>1, <2>1, DelType DEF Drop
  <2>2. CASE Mark(w)
    <3>1. key[w] \in Products /\ key[w] \in Keys
      BY <2>2 DEF Mark, TInv, Keys
    <3>2. {<<key[w], Delisted, Delisted>>} \in Values
      BY <3>1, CatalogAssumption DEF Values, Delisted
    <3> QED BY <1>1, <2>2, <3>1, <3>2, PutType DEF Mark
  <2>3. CASE CommitActive(w) \/ Bump(w)
    BY <1>1, <2>3 DEF CommitActive, Bump, redis, TypeOK, Values
  <2> QED BY <2>1, <2>2, <2>3 DEF WriteStep
<1>4. /\ DOMAIN pc' = Tasks /\ DOMAIN op' = Tasks /\ DOMAIN seen' = Tasks
      /\ got' \in [Tasks -> Values \cup {None}]
      /\ key' \in [Tasks -> Keys \cup {None}]
      /\ \A s \in Tasks \ {w} : pc'[s] = pc[s] /\ key'[s] = key[s] /\ got'[s] = got[s]
      /\ pc'[w] # "idle" => key'[w] \in Products
      /\ Moving' = IF pc[w] = "bump" THEN Moving \ {w} ELSE Moving
  <2>1. CASE Drop(w)
    BY <1>1, <2>1, FinishType DEF Drop, Moving
  <2>2. CASE Mark(w)
    BY <1>1, <2>2, FinishType DEF Mark, Moving
  <2>3. CASE Bump(w) /\ op[w] = "create"
    BY <1>1, <2>3, FinishType DEF Bump, Moving
  <2>4. CASE Bump(w) /\ op[w] # "create"
    <3>1. /\ UNCHANGED <<key, got, op, seen>> /\ pc[w] = "bump"
          /\ \E place \in {"mark", "drop"} : pc' = [pc EXCEPT ![w] = place]
      BY <2>4 DEF Bump, Goto
    <3>2. Moving' = Moving \ {w}
      BY <1>1, <3>1, Separate DEF Moving, TInv
    <3>3. /\ DOMAIN pc' = Tasks /\ \A s \in Tasks \ {w} : pc'[s] = pc[s]
          /\ pc'[w] # "idle" => key'[w] \in Products
      BY <1>1, <3>1 DEF TInv
    <3> QED BY <3>1, <3>2, <3>3 DEF TInv, TypeOK
  <2>5. CASE CommitActive(w)
    BY <1>1, <2>5, Separate DEF CommitActive, Goto, Moving, TInv, TypeOK
  <2> QED BY <2>1, <2>2, <2>3, <2>4, <2>5 DEF WriteStep
<1>5. ver' \in 0..MaxVer /\ CurrentVer' + Cardinality(Moving') <= MaxVer
  <2>1. CASE Bump(w)
    <3>1. w \in Moving /\ Moving' = Moving \ {w} /\ ver' = ver + 1
      BY <1>4, <2>1 DEF Bump, Moving, NextVersion
    <3>2. CurrentVer' <= CurrentVer + 1 /\ CurrentVer' \in Nat
      BY <1>1, <3>1 DEF CurrentVer
    <3>3. Cardinality(Moving') = Cardinality(Moving) - 1 /\ Cardinality(Moving) \in Nat
          /\ Cardinality(Moving') \in Nat
      BY <3>1, MovingBounds, MovingFinite
    <3>4. CurrentVer' + Cardinality(Moving') <= MaxVer
      BY <1>1, <3>2, <3>3, CatalogAssumption DEF TInv
    <3> QED BY <1>1, <3>1, <3>2, <3>3, <3>4, CatalogAssumption DEF CurrentVer
  <2>2. CASE CommitActive(w) \/ Drop(w) \/ Mark(w)
    <3>1. UNCHANGED ver /\ Moving' = Moving
      BY <1>4, <2>2 DEF CommitActive, Drop, Mark, redis
    <3> QED BY <1>1, <3>1 DEF TInv, CurrentVer
  <2> QED BY <2>1, <2>2 DEF WriteStep
<1>6. TypeOK'
  BY <1>1, <1>2, <1>3, <1>4, <1>5 DEF TypeOK, Values
<1>7. \A r \in Readers : /\ pc'[r] \in ReadPlaces
                         /\ pc'[r] \notin {"idle", "version"} => key'[r] \in Keys
                         /\ pc'[r] = "fill" => got'[r] \in Values
  BY <1>4, Separate DEF TInv
<1>8. \A x \in Writers : pc'[x] # "idle" => key'[x] \in Products
  BY <1>4, Separate DEF TInv, Tasks
<1> QED BY <1>4, <1>5, <1>6, <1>7, <1>8 DEF TInv

LEMMA WorldTypes ==
    ASSUME TInv
    PROVE  /\ \A k \in Keys : Expire(k) \/ LockExpires(k) => TInv'
           /\ \A t \in Tasks : Crash(t) => TInv'
<1>1. ASSUME NEW k \in Keys, Expire(k) \/ LockExpires(k) PROVE TInv'
  <2>1. UNCHANGED <<database, ver, pc, key, got, op, seen>> /\ UNCHANGED <<Moving, CurrentVer>>
    BY <1>1 DEF Expire, LockExpires, Moving, CurrentVer
  <2>2. /\ entry' \in [Keys -> Values \cup {None}]
        /\ excused' \subseteq {i \in Keys : entry'[i] # None}
        /\ lock' \in [Keys -> Readers \cup {None}]
    <3>1. CASE Expire(k)
      BY <3>1, DelType DEF Expire, TInv, TypeOK
    <3>2. CASE LockExpires(k)
      BY <3>2 DEF LockExpires, TInv, TypeOK, Values
    <3> QED BY <1>1, <3>1, <3>2
  <2>3. TypeOK'
    BY <2>1, <2>2 DEF TInv, TypeOK, Values, database
  <2> QED BY <2>1, <2>3 DEF TInv
<1>2. ASSUME NEW t \in Tasks, Crash(t) PROVE TInv'
  <2>1. /\ DOMAIN pc' = Tasks /\ DOMAIN op' = Tasks /\ DOMAIN seen' = Tasks
        /\ got' \in [Tasks -> Values \cup {None}]
        /\ key' \in [Tasks -> Keys \cup {None}]
        /\ pc'[t] = "idle"
        /\ \A s \in Tasks \ {t} : pc'[s] = pc[s] /\ key'[s] = key[s] /\ got'[s] = got[s]
        /\ Moving' = Moving \ {t}
    BY <1>2, FinishType DEF Crash
  <2>2. UNCHANGED <<database, entry, lock, ver>> /\ UNCHANGED CurrentVer
    BY <1>2 DEF Crash, CurrentVer
  <2>3. excused' \subseteq {k \in Keys : entry'[k] # None}
    <3>1. Owed(t) \subseteq Keys
      <4>1. CASE t \in Readers
        BY <4>1 DEF Owed, TInv, ReadPlaces
      <4>2. CASE t \in Writers
        BY <4>2, VerType DEF Owed, TInv, Keys
      <4> QED BY <4>1, <4>2 DEF Tasks
    <3> QED BY <1>2, <2>2, <3>1 DEF Crash, Cached, TInv, TypeOK
  <2>4. TypeOK'
    BY <2>1, <2>2, <2>3 DEF TInv, TypeOK, database
  <2>5. CurrentVer' + Cardinality(Moving') <= MaxVer
    BY <2>1, <2>2, MovingBounds, MovingFinite, VerType, Bounds DEF TInv
  <2>6. \A r \in Readers : /\ pc'[r] \in ReadPlaces
                           /\ pc'[r] \notin {"idle", "version"} => key'[r] \in Keys
                           /\ pc'[r] = "fill" => got'[r] \in Values
    BY <2>1 DEF TInv, ReadPlaces, Tasks
  <2>7. \A x \in Writers : pc'[x] # "idle" => key'[x] \in Products
    BY <2>1 DEF TInv, Tasks
  <2> QED BY <2>1, <2>4, <2>5, <2>6, <2>7 DEF TInv
<1> QED BY <1>1, <1>2

LEMMA InitTypes == Init => TInv
<1> SUFFICES ASSUME Init PROVE TInv
  OBVIOUS
<1>1. Moving = {}
  BY Separate DEF Init, Moving, Tasks
<1>2. Cardinality(Moving) = 0
  BY <1>1, FS_EmptySet
<1>3. TypeOK
  BY CatalogAssumption DEF Init, TypeOK, Tasks
<1>4. CurrentVer + Cardinality(Moving) <= MaxVer
  BY <1>2, CatalogAssumption DEF Init, CurrentVer
<1> QED BY <1>3, <1>4 DEF Init, TInv, Tasks, ReadPlaces

LEMMA TInvInductive == TInv /\ [Next]_vars => TInv'
<1>1. ASSUME TInv, Next PROVE TInv'
  BY <1>1, ReaderTypes, WriterStarts, WriterTypes, WorldTypes DEF Next
<1>2. ASSUME TInv, UNCHANGED vars PROVE TInv'
  BY <1>2 DEF vars, database, redis, TInv, TypeOK, Moving, CurrentVer
<1> QED BY <1>1, <1>2

(* Each variable of the cache keeps its type; above all the list version    *)
(* stays within the versions that writers may reach, however they overlap   *)
(* and die (invalidate_products).                                           *)
THEOREM CacheTypes == Spec => []TypeOK
<1>1. TInv => TypeOK
  BY DEF TInv
<1> QED BY <1>1, InitTypes, TInvInductive, PTL DEF Spec

-----------------------------------------------------------------------------
(* Staleness *)

(* Writer w will still delete or mark the detail of p.  A new product has   *)
(* nothing to delete, although its writer stands at "bump" like the others. *)
Owing(w, p) ==
    /\ key[w] = p
    /\ pc[w] \in {"drop", "mark"} \/ (pc[w] = "bump" /\ op[w] # "create")

FreshDetails ==
    \A p \in Products :
        entry[p] \notin {None, Detail(p)} => p \in excused \/ \E w \in Writers : Owing(w, p)

(* The pages of the current version; the versions to come have no pages, or *)
(* excused ones; before the first version there are no pages at all.        *)
CurrentFresh ==
    ver # 0 => entry[ver] \in {None, Page} \/ ver \in excused \/ \E w \in Writers : pc[w] = "bump"
FutureEmpty == \A k \in CurrentVer + 1..MaxVer : entry[k] = None \/ k \in excused
NothingYet ==
    ver = 0 => \A k \in 1..MaxVer : entry[k] = None /\ \A r \in Readers : key[r] # k

FlagsKnown == \A w \in Writers : pc[w] = "commit" => op[w] \in {"delist", "relist"}

FInv == FreshDetails /\ CurrentFresh /\ FutureEmpty /\ NothingYet /\ FlagsKnown

LEMMA VersionKeys ==
    \A k \in 1..MaxVer : k \in Keys /\ k \notin Products /\ View(k) = Page
  BY CatalogAssumption DEF Keys, View

(* The rows and the version stay; a key keeps its value, goes away, gets    *)
(* what the database says, or is excused; a writer that leaves its place    *)
(* has made good what it owed.                                              *)
LEMMA Steady ==
    ASSUME TInv, FInv, FlagsKnown', UNCHANGED <<database, ver>>,
           ver = 0 => \A k \in 1..MaxVer : entry'[k] = None /\ \A r \in Readers : key'[r] # k,
           \A k \in Keys :
               \/ entry'[k] = entry[k] /\ (k \in excused => k \in excused')
               \/ entry'[k] = None
               \/ entry'[k] = View(k) /\ k \notin CurrentVer + 1..MaxVer
               \/ k \in excused',
           \A w \in Writers, p \in Products :
               Owing(w, p) => \/ Owing(w, p)'
                              \/ entry'[p] \in {None, Detail(p)}
                              \/ p \in excused',
           \A w \in Writers :
               pc[w] = "bump" => \/ pc'[w] = "bump"
                                 \/ ver = 0
                                 \/ entry'[ver] \in {None, Page}
                                 \/ ver \in excused'
    PROVE  FInv'
<1>1. UNCHANGED Page /\ UNCHANGED CurrentVer /\ \A p \in Products : Detail(p)' = Detail(p)
  BY DEF Page, Detail, database, CurrentVer
<1>2. FreshDetails'
  BY <1>1 DEF FInv, FreshDetails, Keys, View
<1>3. CurrentFresh'
  BY <1>1, VersionKeys, VerType DEF FInv, CurrentFresh
<1>4. FutureEmpty'
  BY <1>1, VersionKeys, VerType DEF FInv, FutureEmpty
<1>5. NothingYet'
  BY DEF FInv, NothingYet
<1> QED BY <1>2, <1>3, <1>4, <1>5 DEF FInv

(* Put and Del, as Steady wants them. *)
LEMMA PutIsSteady ==
    ASSUME TypeOK, NEW k \in Keys, NEW v, Put(k, v)
    PROVE  \A i \in Keys :
               \/ entry'[i] = entry[i] /\ (i \in excused => i \in excused') /\ i # k
               \/ i = k /\ entry'[i] = View(i) /\ i \notin CurrentVer + 1..MaxVer
               \/ i = k /\ i \in excused'
  BY DEF TypeOK, Put

LEMMA DelIsSteady ==
    ASSUME TypeOK, NEW k \in Keys, Del(k)
    PROVE  /\ \A i \in Keys \ {k} : entry'[i] = entry[i] /\ (i \in excused => i \in excused')
           /\ entry'[k] = None
  BY DEF TypeOK, Del

LEMMA ReadersStayFresh ==
    ASSUME TInv, FInv, NEW r \in Readers,
           StartList(r) \/ ReadStep(r) \/ \E p \in Products : StartDetail(r, p)
    PROVE  FInv'
<1>1. /\ r \in Tasks /\ r \notin Writers /\ TypeOK
      /\ \A w \in Writers : w \in Tasks /\ w # r
  BY Separate DEF TInv, Tasks
<1>2. \A w \in Writers : pc'[w] = pc[w] /\ key'[w] = key[w] /\ op'[w] = op[w]
  BY <1>1 DEF TInv, TypeOK, StartList, ReadStep, StartDetail, SetVersion, Get, Lock, Reread, Load,
              LoadFails, Fill, Unlock, Answer, Finish, Goto
<1>3. FlagsKnown' /\ \A w \in Writers, p \in Products : Owing(w, p) => Owing(w, p)'
  BY <1>2 DEF FInv, FlagsKnown, Owing
<1>4. UNCHANGED database
  BY DEF StartList, ReadStep, StartDetail, SetVersion, Get, Lock, Reread, Load, LoadFails, Fill,
         Unlock, Answer
<1>5. CASE SetVersion(r)
  <2>1. /\ ver' = 1 /\ UNCHANGED <<entry, rev, units, active>>
        /\ excused' = IF ver > 1 THEN excused \cup Cached(1..MaxVer) ELSE excused
    BY <1>4, <1>5 DEF SetVersion, FirstVersion, database
  <2>2. UNCHANGED Page /\ \A p \in Products : Detail(p)' = Detail(p)
    BY <2>1 DEF Page, Detail
  <2>3. FreshDetails'
    BY <1>3, <2>1, <2>2 DEF FInv, FreshDetails
  <2>4. CurrentFresh'
    BY <1>2, <2>1, <2>2, VerType, CatalogAssumption DEF FInv, CurrentFresh, NothingYet, Cached
  <2>5. FutureEmpty'
    BY <2>1, VerType, CatalogAssumption DEF FInv, FutureEmpty, Cached, CurrentVer
  <2> QED BY <1>3, <2>1, <2>3, <2>4, <2>5 DEF FInv, NothingYet
<1>6. CASE ~SetVersion(r)
  <2>1. UNCHANGED ver
    BY <1>6 DEF StartList, ReadStep, StartDetail, Get, Lock, Reread, Load, LoadFails, Fill,
                Unlock, Answer, redis
  <2>2. CASE Fill(r)
    <3>1. key[r] \in Keys /\ Put(key[r], got[r]) /\ UNCHANGED key
      BY <2>2 DEF Fill, TInv
    <3>2. \A i \in Keys :
            \/ entry'[i] = entry[i] /\ (i \in excused => i \in excused') /\ i # key[r]
            \/ i = key[r] /\ entry'[i] = View(i) /\ i \notin CurrentVer + 1..MaxVer
            \/ i = key[r] /\ i \in excused'
      BY <1>1, <3>1, PutIsSteady
    <3>3. ver = 0 => \A k \in 1..MaxVer : entry'[k] = None /\ \A s \in Readers : key'[s] # k
      BY <3>1, <3>2, VersionKeys DEF FInv, NothingYet
    <3> QED BY <1>2, <1>3, <1>4, <2>1, <3>2, <3>3, Steady
  <2>3. CASE ~Fill(r)
    <3>1. UNCHANGED <<entry, excused>>
      BY <1>6, <2>3 DEF StartList, ReadStep, StartDetail, Get, Lock, Reread, Load, LoadFails,
                        Unlock, Answer, redis
    <3>2. ver = 0 => \A s \in Readers, k \in 1..MaxVer : key'[s] # k
      <4>1. \A s \in Readers : s # r => key'[s] = key[s]
        <5>1. CASE \E p \in Products : StartDetail(r, p)
          BY <1>1, <5>1, Separate DEF StartDetail, TypeOK, Tasks
        <5>2. CASE Answer(r)
          BY <1>1, <5>2, Separate DEF Answer, Finish, TypeOK, Tasks
        <5>3. CASE StartList(r)
          BY <1>1, <5>3, Separate DEF StartList, TypeOK, Tasks
        <5>4. CASE Get(r) \/ Lock(r) \/ Reread(r) \/ Load(r) \/ LoadFails(r) \/ Unlock(r)
          BY <5>4 DEF Get, Lock, Reread, Load, LoadFails, Unlock
        <5> QED BY <1>6, <2>3, <5>1, <5>2, <5>3, <5>4 DEF ReadStep
      <4>2. ver = 0 => key'[r] = key[r] \/ key'[r] \in Products \cup {None}
        <5>1. CASE \E p \in Products : StartDetail(r, p)
          BY <1>1, <5>1 DEF StartDetail, TypeOK
        <5>2. CASE Answer(r)
          BY <1>1, <5>2 DEF Answer, Finish, TypeOK
        <5>3. CASE StartList(r)
          BY <5>3 DEF StartList
        <5>4. CASE Get(r) \/ Lock(r) \/ Reread(r) \/ Load(r) \/ LoadFails(r) \/ Unlock(r)
          BY <5>4 DEF Get, Lock, Reread, Load, LoadFails, Unlock
        <5> QED BY <1>6, <2>3, <5>1, <5>2, <5>3, <5>4 DEF ReadStep
      <4> QED BY <4>1, <4>2, VersionKeys, CatalogAssumption DEF FInv, NothingYet
    <3>3. ver = 0 => \A k \in 1..MaxVer : entry'[k] = None /\ \A s \in Readers : key'[s] # k
      BY <3>1, <3>2 DEF FInv, NothingYet
    <3> QED BY <1>2, <1>3, <1>4, <2>1, <3>1, <3>3, Steady
  <2> QED BY <2>2, <2>3
<1> QED BY <1>5, <1>6

(* A writer that starts changes one row; from there on it owes the detail   *)
(* of that row, and moves the version if the list shows the change.         *)
LEMMA StartsStayFresh ==
    ASSUME TInv, FInv, NEW w \in Writers, NEW p \in Products,
           \/ CreateProduct(w, p) \/ UpdateProduct(w, p) \/ Sell(w, p)
           \/ \E o \in {"delist", "relist"} : StartSetActive(w, o, p)
    PROVE  FInv'
<1> USE DEF FInv
<1>1. w \in Tasks /\ w \notin Readers /\ pc[w] = "idle" /\ TypeOK /\ \A x \in Writers : x \in Tasks
  BY Separate DEF TInv, Tasks, CreateProduct, UpdateProduct, Sell, StartSetActive, Begin
<1>2. PICK o, place :
        /\ Begin(w, o, p, place)
        /\ \/ place = "bump" /\ CreateProduct(w, p)
           \/ place = "bump" /\ o = "update" /\ UpdateProduct(w, p)
           \/ place = "drop" /\ Sell(w, p)
           \/ place = "commit" /\ o \in {"delist", "relist"} /\ StartSetActive(w, o, p)
  BY DEF CreateProduct, UpdateProduct, Sell, StartSetActive, PlaceAfterSale
<1>3. /\ UNCHANGED <<entry, ver>> /\ UNCHANGED CurrentVer
      /\ \A r \in Readers : key'[r] = key[r]
      /\ \A x \in Writers : x # w => pc'[x] = pc[x] /\ key'[x] = key[x] /\ op'[x] = op[x]
      /\ pc'[w] = place /\ key'[w] = p /\ op'[w] = o
  BY <1>1, <1>2 DEF Begin, Goto, CurrentVer, TInv, TypeOK
<1>4. /\ FlagsKnown'
      /\ \A x \in Writers, q \in Products : Owing(x, q) => Owing(x, q)'
      /\ excused \subseteq excused'
  BY <1>1, <1>2, <1>3 DEF FlagsKnown, Owing, CreateProduct, UpdateProduct, Sell, StartSetActive
<1>5. FutureEmpty' /\ NothingYet'
  BY <1>3, <1>4 DEF FutureEmpty, NothingYet
<1>6. /\ \A q \in Products : q # p => Detail(q)' = Detail(q)
      /\ \/ UNCHANGED Detail(p)
         \/ p \in excused' \/ entry[p] = None
         \/ Owing(w, p)'
  <2>1. CASE CreateProduct(w, p)
    BY <1>1, <2>1 DEF CreateProduct, Detail, Cached, TInv, TypeOK
  <2>2. CASE UpdateProduct(w, p) /\ place = "bump" /\ o = "update"
    BY <1>1, <1>3, <2>2 DEF UpdateProduct, Detail, Owing, TInv, TypeOK
  <2>3. CASE Sell(w, p) /\ place = "drop"
    BY <1>1, <1>3, <2>3 DEF Sell, Detail, Owing, TInv, TypeOK
  <2>4. CASE StartSetActive(w, o, p)
    BY <2>4 DEF StartSetActive, Detail, database
  <2> QED BY <1>2, <2>1, <2>2, <2>3, <2>4
<1>7. FreshDetails'
  BY <1>3, <1>4, <1>6 DEF FreshDetails
<1>8. pc'[w] = "bump" \/ UNCHANGED Page
  BY <1>2, <1>3 DEF Sell, StartSetActive, Page, database
<1>9. CurrentFresh'
  BY <1>1, <1>3, <1>4, <1>8 DEF CurrentFresh
<1> QED BY <1>4, <1>5, <1>7, <1>9

(* A writer leaves a place only with what it owed there made good.          *)
LEMMA WritersStayFresh ==
    ASSUME TInv, FInv, NEW w \in Writers, WriteStep(w)
    PROVE  FInv'
<1>1. w \in Tasks /\ w \notin Readers /\ TypeOK /\ \A x \in Writers : x \in Tasks
  BY Separate DEF TInv, Tasks
<1>2. /\ \A x \in Writers : x # w => pc'[x] = pc[x] /\ key'[x] = key[x] /\ op'[x] = op[x]
      /\ \A r \in Readers : key'[r] = key[r]
  BY <1>1, Separate DEF TInv, TypeOK, WriteStep, CommitActive, Bump, Drop, Mark, Finish, Goto
<1>3. \A x \in Writers, q \in Products : Owing(x, q) /\ x # w => Owing(x, q)'
  BY <1>2 DEF Owing
<1>4. CASE Drop(w) \/ Mark(w)
  <2>1. key[w] \in Products /\ key[w] \in Keys /\ pc[w] \in {"drop", "mark"}
    BY <1>4 DEF Drop, Mark, TInv, Keys
  <2>2. UNCHANGED <<database, ver>> /\ pc'[w] = "idle"
    BY <1>1, <1>4 DEF Drop, Mark, Finish, Goto, TInv
  <2>3. FlagsKnown'
    BY <1>2, <2>2 DEF FInv, FlagsKnown
  <2>4. /\ \A i \in Keys \ {key[w]} :
              entry'[i] = entry[i] /\ (i \in excused => i \in excused')
        /\ \/ entry'[key[w]] = None
           \/ entry'[key[w]] = View(key[w])
           \/ key[w] \in excused'
    <3>1. CASE Drop(w)
      BY <1>1, <2>1, <3>1, DelIsSteady DEF Drop
    <3>2. CASE Mark(w)
      BY <1>1, <2>1, <3>2, PutIsSteady DEF Mark
    <3> QED BY <1>4, <3>1, <3>2
  <2>5. key[w] \notin 1..MaxVer /\ View(key[w]) = Detail(key[w])
    BY <2>1, VersionKeys DEF View
  <2>6. ver = 0 => \A k \in 1..MaxVer : entry'[k] = None /\ \A s \in Readers : key'[s] # k
    BY <1>2, <2>4, <2>5, VersionKeys DEF FInv, NothingYet
  <2>7. \A x \in Writers, p \in Products :
          Owing(x, p) => Owing(x, p)' \/ entry'[p] \in {None, Detail(p)} \/ p \in excused'
    BY <1>3, <2>1, <2>4, <2>5 DEF Owing
  <2>8. \A x \in Writers : pc[x] = "bump" => pc'[x] = "bump"
    BY <1>2, <2>1
  <2>9. key[w] \notin CurrentVer + 1..MaxVer
    BY <2>5, VerType
  <2> QED BY <2>2, <2>3, <2>4, <2>5, <2>6, <2>7, <2>8, <2>9, Steady
<1>5. CASE CommitActive(w)
  <2>1. /\ UNCHANGED <<rev, units, entry, ver, excused, op, key>> /\ pc[w] = "commit"
        /\ pc'[w] = "bump" /\ \A q \in Products : q # key[w] => active'[q] = active[q]
    BY <1>1, <1>5 DEF CommitActive, Goto, redis, TInv, TypeOK
  <2>2. Owing(w, key[w])'
    BY <2>1 DEF FInv, FlagsKnown, Owing
  <2>3. \A q \in Products : q # key[w] => Detail(q)' = Detail(q)
    BY <2>1 DEF Detail
  <2>4. FlagsKnown'
    BY <1>2, <2>1 DEF FInv, FlagsKnown
  <2>5. \A x \in Writers, q \in Products : Owing(x, q) => Owing(x, q)'
    BY <1>3, <2>1 DEF Owing
  <2>6. FreshDetails'
    BY <2>1, <2>2, <2>3, <2>5 DEF FInv, FreshDetails
  <2>7. CurrentFresh'
    BY <2>1 DEF CurrentFresh
  <2>8. FutureEmpty' /\ NothingYet'
    BY <2>1 DEF FInv, FutureEmpty, NothingYet, CurrentVer
  <2> QED BY <2>4, <2>6, <2>7, <2>8 DEF FInv
<1>6. CASE Bump(w)
  <2>1. /\ UNCHANGED <<rev, units, active, entry, excused>> /\ ver' = ver + 1 /\ pc[w] = "bump"
        /\ pc'[w] \in {"idle", "mark", "drop"}
        /\ op[w] # "create" => key'[w] = key[w] /\ pc'[w] \in {"mark", "drop"}
    BY <1>1, <1>6 DEF Bump, NextVersion, Finish, Goto, database, TInv
  <2>2. UNCHANGED Page /\ \A q \in Products : Detail(q)' = Detail(q)
    BY <2>1 DEF Page, Detail
  <2>3. FlagsKnown'
    BY <1>2, <2>1 DEF FInv, FlagsKnown
  <2>4. \A x \in Writers, q \in Products : Owing(x, q) => Owing(x, q)'
    BY <1>3, <2>1 DEF Owing
  <2>5. FreshDetails'
    BY <2>1, <2>2, <2>4 DEF FInv, FreshDetails
  <2>6. ver + 1 \in 1..MaxVer
    <3>1. ver + 1 <= MaxVer
      <4>1. TInv'
        BY WriterTypes
      <4> QED BY <4>1, <2>1 DEF TInv, TypeOK
    <3> QED BY <3>1, VerType
  <2>7. CurrentFresh'
    BY <2>1, <2>2, <2>6, VerType DEF FInv, CurrentFresh, FutureEmpty, NothingYet, CurrentVer
  <2>8. FutureEmpty' /\ NothingYet'
    BY <2>1, VerType DEF FInv, FutureEmpty, NothingYet, CurrentVer
  <2> QED BY <2>3, <2>5, <2>7, <2>8 DEF FInv
<1> QED BY <1>4, <1>5, <1>6 DEF WriteStep

LEMMA WorldStaysFresh ==
    ASSUME TInv, FInv
    PROVE  /\ \A k \in Keys : Expire(k) \/ LockExpires(k) => FInv'
           /\ \A t \in Tasks : Crash(t) => FInv'
<1>1. ASSUME NEW k \in Keys, Expire(k) \/ LockExpires(k) PROVE FInv'
  <2>1. UNCHANGED <<database, ver, pc, key, op>>
    BY <1>1 DEF Expire, LockExpires
  <2>2. FlagsKnown' /\ \A w \in Writers, p \in Products : Owing(w, p) => Owing(w, p)'
    BY <2>1 DEF FInv, FlagsKnown, Owing
  <2>3. \A i \in Keys : \/ entry'[i] = entry[i] /\ (i \in excused => i \in excused')
                       \/ entry'[i] = None
    BY <1>1, DelIsSteady DEF Expire, LockExpires, TInv
  <2>4. ver = 0 => \A i \in 1..MaxVer : entry'[i] = None /\ \A s \in Readers : key'[s] # i
    BY <2>1, <2>3, VersionKeys DEF FInv, NothingYet
  <2> QED BY <2>1, <2>2, <2>3, <2>4, Steady
<1>2. ASSUME NEW t \in Tasks, Crash(t) PROVE FInv'
  <2>1. /\ UNCHANGED <<database, ver, entry>> /\ excused' = excused \cup Cached(Owed(t))
        /\ \A s \in Tasks : s # t => pc'[s] = pc[s] /\ key'[s] = key[s] /\ op'[s] = op[s]
        /\ pc'[t] = "idle" /\ key'[t] = None
    BY <1>2 DEF Crash, Finish, Goto, TInv, TypeOK
  <2>2. FlagsKnown'
    BY <2>1, Separate DEF FInv, FlagsKnown, Tasks
  <2>3. \A w \in Writers, p \in Products :
          Owing(w, p) => \/ Owing(w, p)' \/ entry'[p] \in {None, Detail(p)} \/ p \in excused'
    <3>1. \A p \in Products : Owing(t, p) => p \in Owed(t)
      BY DEF Owing, Owed
    <3> QED BY <2>1, <3>1 DEF Owing, Cached, Tasks
  <2>4. \A w \in Writers :
          pc[w] = "bump" => \/ pc'[w] = "bump" \/ ver = 0
                            \/ entry'[ver] \in {None, Page} \/ ver \in excused'
    BY <2>1 DEF Owed, Cached, CurrentVer, Tasks
  <2>5. ver = 0 => \A i \in 1..MaxVer : entry'[i] = None /\ \A s \in Readers : key'[s] # i
    BY <2>1, VersionKeys, CatalogAssumption DEF FInv, NothingYet, Tasks
  <2> QED BY <2>1, <2>2, <2>3, <2>4, <2>5, Steady
<1> QED BY <1>1, <1>2

LEMMA FInvInductive == TInv /\ FInv /\ [Next]_vars => FInv'
<1>1. ASSUME TInv, FInv, Next PROVE FInv'
  BY <1>1, ReadersStayFresh, StartsStayFresh, WritersStayFresh, WorldStaysFresh DEF Next
<1>2. ASSUME FInv, UNCHANGED vars PROVE FInv'
  BY <1>2 DEF vars, database, redis, FInv, FreshDetails, CurrentFresh, FutureEmpty, NothingYet,
              FlagsKnown, Owing, Detail, Page, CurrentVer
<1> QED BY <1>1, <1>2

LEMMA Freshness == Spec => [](TInv /\ FInv)
<1>1. Init => FInv
  BY VersionKeys, CatalogAssumption DEF Init, FInv, FreshDetails, CurrentFresh, FutureEmpty,
         NothingYet, FlagsKnown, Tasks, CurrentVer, Keys
<1> QED BY <1>1, InitTypes, TInvInductive, FInvInductive, PTL DEF Spec

(* However many readers rebuild and writers overlap, a cached detail is     *)
(* stale only while a writer still has to delete or mark it, or for a       *)
(* reason the design accepts: the deletions after the commits of service.py *)
(* and the marker and the deletions of onshelf.py.                          *)
THEOREM StaleDetails == Spec => []DetailStaleOnlyByRace
<1>1. FInv => DetailStaleOnlyByRace
  BY DEF FInv, FreshDetails, DetailStaleOnlyByRace, Pending, Owing
<1> QED BY <1>1, Freshness, PTL

(* The pages of the current version are stale only while a writer still has *)
(* to move the version, or when they are excused: no INCR is enough to find *)
(* old pages under the new number (invalidate_products).                    *)
THEOREM StalePages == Spec => []ListStaleOnlyByRace
<1>1. TInv /\ FInv => ListStaleOnlyByRace
  BY DEF TInv, FInv, CurrentFresh, ListStaleOnlyByRace, Pending
<1> QED BY <1>1, Freshness, PTL
=============================================================================

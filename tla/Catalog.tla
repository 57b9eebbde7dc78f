------------------------------ MODULE Catalog ------------------------------
(***************************************************************************)
(* The product pages and their cache (store/cache.py, store/onshelf.py):   *)
(* readers go through _get_or_set, which rebuilds a missing key under a    *)
(* SETNX lock; writers commit to PostgreSQL and then delete the detail     *)
(* key, mark it delisted or move the list version.  One action is one      *)
(* command to Redis or one statement to PostgreSQL.                        *)
(***************************************************************************)
EXTENDS Integers, FiniteSets

CONSTANTS
    Readers,      \* concurrent GET requests
    Writers,      \* concurrent requests that change a product
    Products,     \* ids the products table may hand out
    InitRows,     \* products that exist at the start
    InitVer,      \* store:products:ver at the start, 0 when the key is missing
    MaxRev,       \* bound: names or prices a product goes through
    MaxUnits,     \* bound: stock values a product goes through
    MaxVer,       \* bound: list versions
    WriteOps,     \* the kinds of writes that requests perform
    SlowRebuilds, \* TRUE: a rebuild may outlast the 5 s of its lock
    Crashes,      \* TRUE: a request may die between two commands
    None          \* no entry, no holder, no key

Tasks == Readers \cup Writers

(* Redis keys: store:product:{id} and store:products:v{n}; all list pages   *)
(* of one version live and die together and are one key here.               *)
Keys == Products \cup (1..MaxVer)

ASSUME CatalogAssumption ==
    /\ InitRows \subseteq Products
    /\ MaxRev \in Nat \ {0} /\ MaxUnits \in Nat \ {0} /\ MaxVer \in Nat \ {0}
    /\ InitVer \in 0..MaxVer
    /\ WriteOps \subseteq {"create", "update", "sell", "delist", "relist"}
    /\ SlowRebuilds \in BOOLEAN /\ Crashes \in BOOLEAN
    /\ Readers \cap Writers = {}
    /\ None \notin Tasks \cup Keys
    /\ \A v \in SUBSET (Products \X (0..MaxRev) \X (0..MaxUnits)) : v # None
    /\ Products \cap (1..MaxVer) = {}
    /\ IsFiniteSet(Writers)

VARIABLES
    rev,        \* product -> revision of its name and price, 0: no row
    units,      \* product -> revision of its stock
    active,     \* product -> is_active
    entry,      \* key -> cached value, None when the key is missing
    lock,       \* key -> the request whose SETNX created {key}:lock
    ver,        \* store:products:ver, 0 when missing
    pc,         \* request -> where it stands
    key,        \* request -> the key it reads, the product it writes
    got,        \* reader -> the value it loaded or read
    op,         \* writer -> the operation
    seen,       \* writer -> is_active of the row it loaded
    excused     \* history: keys whose value nobody is going to replace: written
                \* over by a slow rebuild, left by a writer that died, older than
                \* the product, or of a list version that comes once more

database == <<rev, units, active>>
redis == <<entry, lock, ver, excused>>
vars == <<database, redis, pc, key, got, op, seen>>

Delisted == 0

(* What the loaders read: a set of shown items.  A product without a row    *)
(* shows nothing, the cached "".  The list shows names and prices of active *)
(* products; its stock may lag, so the list leaves the stock out.           *)
Detail(p) ==
    IF rev[p] = 0 THEN {}
    ELSE IF active[p] THEN {<<p, rev[p], units[p]>>}
    ELSE {<<p, Delisted, Delisted>>}
Page == {<<p, rev[p], 1>> : p \in {q \in Products : rev[q] # 0 /\ active[q]}}
View(k) == IF k \in Products THEN Detail(k) ELSE Page

Init ==
    /\ rev = [p \in Products |-> IF p \in InitRows THEN 1 ELSE 0]
    /\ units = [p \in Products |-> 1]
    /\ active = [p \in Products |-> TRUE]
    /\ entry = [k \in Keys |-> None]
    /\ lock = [k \in Keys |-> None]
    /\ ver = InitVer
    /\ pc = [t \in Tasks |-> "idle"]
    /\ key = [t \in Tasks |-> None]
    /\ got = [t \in Tasks |-> None]
    /\ op = [t \in Tasks |-> None]
    /\ seen = [t \in Tasks |-> FALSE]
    /\ excused = {}

Goto(t, place) == pc' = [pc EXCEPT ![t] = place]

Cached(K) == {k \in K : entry[k] # None}

CurrentVer == IF ver = 0 THEN 1 ELSE ver

(* Write value v under key k. *)
Put(k, v) ==
    /\ entry' = [entry EXCEPT ![k] = v]
    /\ excused' = IF v # View(k) \/ k \in CurrentVer + 1..MaxVer
                  THEN excused \cup {k} ELSE excused \ {k}

(* Key k goes away. *)
Del(k) ==
    /\ entry' = [entry EXCEPT ![k] = None]
    /\ excused' = excused \ {k}

-----------------------------------------------------------------------------
(* Readers: get_products_cached, get_product_cached, _get_or_set *)

StartDetail(r, p) ==
    /\ pc[r] = "idle"
    /\ key' = [key EXCEPT ![r] = p]
    /\ Goto(r, "get")
    /\ UNCHANGED <<database, redis, got, op, seen>>

(* _products_version: GET, and SET 1 when there is no version yet. *)
StartList(r) ==
    /\ pc[r] = "idle"
    /\ IF ver = 0
       THEN Goto(r, "version") /\ UNCHANGED key
       ELSE Goto(r, "get") /\ key' = [key EXCEPT ![r] = ver]
    /\ UNCHANGED <<database, redis, got, op, seen>>

(* Mutant: a missing version is read as 1 but not written. *)
StillMissing == ver

FirstVersion == 1

(* The SET may take back a version that moved since the GET. *)
SetVersion(r) ==
    /\ pc[r] = "version"
    /\ ver' = FirstVersion
    /\ excused' = IF ver > 1 THEN excused \cup Cached(1..MaxVer) ELSE excused
    /\ key' = [key EXCEPT ![r] = 1]
    /\ Goto(r, "get")
    /\ UNCHANGED <<database, entry, lock, got, op, seen>>

(* GET key: a hit is the answer, a miss goes for the lock. *)
Get(r) ==
    /\ pc[r] = "get"
    /\ got' = [got EXCEPT ![r] = entry[key[r]]]
    /\ Goto(r, IF entry[key[r]] # None THEN "answer" ELSE "lock")
    /\ UNCHANGED <<database, redis, key, op, seen>>

(* Mutant: SET without NX. *)
AnyLockFree(k) == TRUE

LockFree(k) == lock[k] = None

(* SET {key}:lock NX EX 5 *)
Lock(r) ==
    /\ pc[r] = "lock"
    /\ IF LockFree(key[r])
       THEN lock' = [lock EXCEPT ![key[r]] = r] /\ Goto(r, "load")
       ELSE Goto(r, "reread") /\ UNCHANGED lock
    /\ UNCHANGED <<database, entry, ver, excused, key, got, op, seen>>

(* The loser of the lock sleeps 50 ms and reads once more. *)
Reread(r) ==
    /\ pc[r] = "reread"
    /\ got' = [got EXCEPT ![r] = entry[key[r]]]
    /\ Goto(r, "answer")
    /\ UNCHANGED <<database, redis, key, op, seen>>

(* The loader's query. *)
Load(r) ==
    /\ pc[r] = "load"
    /\ got' = [got EXCEPT ![r] = View(key[r])]
    /\ Goto(r, "fill")
    /\ UNCHANGED <<database, redis, key, op, seen>>

(* The loader raises: only the finally clause runs. *)
LoadFails(r) ==
    /\ Crashes /\ pc[r] = "load"
    /\ Goto(r, "unwind")
    /\ UNCHANGED <<database, redis, key, got, op, seen>>

Fill(r) ==
    /\ pc[r] = "fill"
    /\ Put(key[r], got[r])
    /\ Goto(r, "unlock")
    /\ UNCHANGED <<database, lock, ver, key, got, op, seen>>

(* DEL {key}:lock, whoever holds it by now. *)
Unlock(r) ==
    /\ pc[r] \in {"unlock", "unwind"}
    /\ lock' = [lock EXCEPT ![key[r]] = None]
    /\ Goto(r, IF pc[r] = "unlock" THEN "answer" ELSE "fail")
    /\ UNCHANGED <<database, entry, ver, excused, key, got, op, seen>>

Finish(t) ==
    /\ Goto(t, "idle")
    /\ key' = [key EXCEPT ![t] = None]
    /\ got' = [got EXCEPT ![t] = None]
    /\ op' = [op EXCEPT ![t] = None]
    /\ seen' = [seen EXCEPT ![t] = FALSE]

(* The response; without a value the detail is 404 and the list raises.     *)
Answer(r) ==
    /\ pc[r] \in {"answer", "fail"}
    /\ Finish(r)
    /\ UNCHANGED <<database, redis>>

-----------------------------------------------------------------------------
(* Writers *)

(* Bound: every writer that still moves the version has a version to go to. *)
Room == CurrentVer + Cardinality({w \in Writers : pc[w] \in {"commit", "bump"}}) < MaxVer

Begin(w, o, p, place) ==
    /\ pc[w] = "idle"
    /\ o \in WriteOps
    /\ op' = [op EXCEPT ![w] = o]
    /\ key' = [key EXCEPT ![w] = p]
    /\ Goto(w, place)
    /\ UNCHANGED <<entry, lock, ver, got>>

(* POST /products: INSERT and COMMIT; nothing will delete a cached "".      *)
CreateProduct(w, p) ==
    /\ rev[p] = 0
    /\ Room
    /\ rev' = [rev EXCEPT ![p] = 1]
    /\ excused' = excused \cup Cached({p})
    /\ Begin(w, "create", p, "bump")
    /\ UNCHANGED <<units, active, seen>>

(* PATCH /products/{id}: the UPDATE of name or price and its COMMIT. *)
UpdateProduct(w, p) ==
    /\ rev[p] \in 1..MaxRev - 1
    /\ Room
    /\ rev' = [rev EXCEPT ![p] = @ + 1]
    /\ Begin(w, "update", p, "bump")
    /\ UNCHANGED <<units, active, seen, excused>>

(* Mutant: an order moves the list version too. *)
PlaceAfterSaleBumping == "bump"

(* Mutant: an order deletes no detail key. *)
PlaceAfterSaleForgetting == "idle"

PlaceAfterSale == "drop"

(* The commit of an order, a cancel or a refund; the list is not told. *)
Sell(w, p) ==
    /\ rev[p] # 0
    /\ units[p] < MaxUnits
    /\ units' = [units EXCEPT ![p] = @ + 1]
    /\ Begin(w, "sell", p, PlaceAfterSale)
    /\ UNCHANGED <<rev, active, seen, excused>>

(* set_product_active loads the row ... *)
StartSetActive(w, o, p) ==
    /\ o \in {"delist", "relist"}
    /\ rev[p] # 0
    /\ Room
    /\ seen' = [seen EXCEPT ![w] = active[p]]
    /\ Begin(w, o, p, "commit")
    /\ UNCHANGED <<database, excused>>

(* ... and updates it when the flag differs from the one loaded. *)
CommitActive(w) ==
    /\ pc[w] = "commit"
    /\ LET to == op[w] = "relist"
       IN active' = IF seen[w] = to THEN active ELSE [active EXCEPT ![key[w]] = to]
    /\ Goto(w, "bump")
    /\ UNCHANGED <<rev, units, redis, key, got, op, seen>>

(* Mutant: only a new product moves the list version. *)
NextVersionIfNew(w) == IF op[w] = "create" THEN ver + 1 ELSE ver

NextVersion(w) == ver + 1

(* invalidate_products: INCR store:products:ver *)
Bump(w) ==
    /\ pc[w] = "bump"
    /\ ver' = NextVersion(w)
    /\ IF op[w] = "create"
       THEN Finish(w)
       ELSE /\ Goto(w, IF op[w] = "delist" THEN "mark" ELSE "drop")
            /\ UNCHANGED <<key, got, op, seen>>
    /\ UNCHANGED <<database, entry, lock, excused>>

(* Mutant: a relisted product keeps its detail key. *)
DropUnlessRelisted(w) ==
    /\ pc[w] = "drop"
    /\ IF op[w] = "relist" THEN UNCHANGED <<entry, excused>> ELSE Del(key[w])
    /\ Finish(w)
    /\ UNCHANGED <<database, lock, ver>>

(* invalidate_product: DEL store:product:{id} *)
Drop(w) ==
    /\ pc[w] = "drop"
    /\ Del(key[w])
    /\ Finish(w)
    /\ UNCHANGED <<database, lock, ver>>

(* mark_product_delisted: SET store:product:{id} DELISTED *)
Mark(w) ==
    /\ pc[w] = "mark"
    /\ Put(key[w], {<<key[w], Delisted, Delisted>>})
    /\ Finish(w)
    /\ UNCHANGED <<database, lock, ver>>

-----------------------------------------------------------------------------
(* Redis and the process *)

(* The TTL of an entry runs out. *)
Expire(k) ==
    /\ entry[k] # None
    /\ Del(k)
    /\ UNCHANGED <<database, lock, ver, pc, key, got, op, seen>>

Rebuilding(r, k) == pc[r] \in {"load", "fill", "unlock", "unwind"} /\ key[r] = k

(* Mutant: the lock is set without EX. *)
NeverOver(k) == FALSE

(* The 5 s of a lock run out: always if its holder died. *)
LockIsOver(k) == SlowRebuilds \/ ~Rebuilding(lock[k], k)

LockExpires(k) ==
    /\ lock[k] # None
    /\ LockIsOver(k)
    /\ lock' = [lock EXCEPT ![k] = None]
    /\ UNCHANGED <<database, entry, ver, excused, pc, key, got, op, seen>>

(* The keys a writer still has to make good. *)
Owed(w) ==
    CASE pc[w] = "bump" -> (IF op[w] = "create" THEN {} ELSE {key[w]}) \cup {CurrentVer}
      [] pc[w] \in {"drop", "mark"} -> {key[w]}
      [] OTHER -> {}

(* A request dies where it stands; what is in Redis and PostgreSQL stays. *)
Crash(t) ==
    /\ Crashes
    /\ pc[t] # "idle"
    /\ Finish(t)
    /\ excused' = excused \cup Cached(Owed(t))
    /\ UNCHANGED <<database, entry, lock, ver>>

ReadStep(r) ==
    \/ SetVersion(r) \/ Get(r) \/ Lock(r) \/ Reread(r) \/ Load(r) \/ LoadFails(r)
    \/ Fill(r) \/ Unlock(r) \/ Answer(r)
WriteStep(w) == CommitActive(w) \/ Bump(w) \/ Drop(w) \/ Mark(w)

Next ==
    \/ \E r \in Readers : \/ StartList(r) \/ ReadStep(r)
                          \/ \E p \in Products : StartDetail(r, p)
    \/ \E w \in Writers :
        \/ WriteStep(w)
        \/ \E p \in Products :
            \/ CreateProduct(w, p) \/ UpdateProduct(w, p) \/ Sell(w, p)
            \/ \E o \in {"delist", "relist"} : StartSetActive(w, o, p)
    \/ \E k \in Keys : Expire(k) \/ LockExpires(k)
    \/ \E t \in Tasks : Crash(t)

Spec == Init /\ [][Next]_vars

(* asyncio resumes every request and Redis expires every lock. *)
Fairness ==
    /\ \A r \in Readers : WF_vars(ReadStep(r))
    /\ \A k \in Keys : WF_vars(LockExpires(k))

FairSpec == Spec /\ Fairness

-----------------------------------------------------------------------------
(* Properties *)

(* Type invariant; orders leave the list version alone, so it stays within  *)
(* the bound the other writers respect.                                     *)
TypeOK ==
    /\ rev \in [Products -> 0..MaxRev]
    /\ units \in [Products -> 1..MaxUnits]
    /\ active \in [Products -> BOOLEAN]
    /\ ver \in 0..MaxVer
    /\ entry \in [Keys -> (SUBSET (Products \X (0..MaxRev) \X (0..MaxUnits))) \cup {None}]
    /\ lock \in [Keys -> Readers \cup {None}]
    /\ key \in [Tasks -> Keys \cup {None}]
    /\ excused \subseteq {k \in Keys : entry[k] # None}

(* At most one request rebuilds a key (the SETNX lock of _get_or_set), as   *)
(* long as a rebuild ends within the lock's time; requests may die.         *)
OneRebuilder ==
    ~SlowRebuilds =>
        \A k \in Keys, r, s \in Readers : Rebuilding(r, k) /\ Rebuilding(s, k) => r = s

Pending(p, places) == \E w \in Writers : key[w] = p /\ pc[w] \in places

(* A product's cached detail differs from its row only while a writer is    *)
(* about to delete or mark it, or when it was overtaken, left over, or a "" *)
(* cached before the product was created: no other order of commits,        *)
(* rebuilds, markers and deletions leaves it stale (the writers of          *)
(* service.py and onshelf.py).                                              *)
DetailStaleOnlyByRace ==
    \A p \in Products :
        entry[p] \notin {None, Detail(p)} =>
            p \in excused \/ Pending(p, {"bump", "drop", "mark"})

(* Names, prices and the set of listed products on the current list pages   *)
(* are those of the database, except while a writer is about to move the    *)
(* version, after an overtaken rebuild, or once two readers have started    *)
(* the version at 1 and the second took a move back (invalidate_products,   *)
(* _products_version).                                                      *)
ListStaleOnlyByRace ==
    ver # 0 =>
        \/ entry[ver] \in {None, Page}
        \/ ver \in excused
        \/ \E p \in Products : Pending(p, {"bump"})

(* A product that is asked for again and again is cached again and again,   *)
(* unless rebuilds fail for ever: a request that dies with the lock, or     *)
(* loses it, never blocks the key for good (_get_or_set, its EX 5).         *)
AskedProductsAreCached ==
    \A p \in Products :
        []<><<\E r \in Readers : key[r] = p /\ Lock(r)>>_vars =>
            \/ []<>(entry[p] # None)
            \/ []<><<\E r \in Readers : Rebuilding(r, p) /\ (LoadFails(r) \/ Crash(r))>>_vars

-----------------------------------------------------------------------------
(* A statement of the repository that the code breaks *)

(* "None = does not exist" (get_product_cached).                            *)
NoneMeansNoProduct ==
    \A r \in Readers :
        pc[r] = "answer" /\ key[r] \in Products /\ got[r] \in {None, {}} => rev[key[r]] = 0
=============================================================================

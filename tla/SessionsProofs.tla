--------------------------- MODULE SessionsProofs ---------------------------
(***************************************************************************)
(* What is kept between calls is right wherever it may be used: theorems   *)
(* about Sessions for every number of variables, slots, objects and        *)
(* functors, for any weights and any bounds of the model.                  *)
(*                                                                         *)
(* The inductive invariant says what every kept number stands for: nodes   *)
(* are ordered and point to nodes, objects stand in the two tables for     *)
(* what they were made as, an entry of the cache holds the result of the   *)
(* functor whose code it has and of no other, the entries of CostBoundMemo *)
(* are right if the memo is of this epoch and this generation, and those   *)
(* of ZddCountMemo as long as its diagram is held.                         *)
(***************************************************************************)
EXTENDS SessionsCallsProofs

-----------------------------------------------------------------------------
Handle == [kind : {"zdd", "mtzdd"}, r : Edges, means : [SUBSET Vars -> Nat], old : BOOLEAN]
Entries == [code : Nat, f : Edges, g : Edges, r : Edges]
Memos == [generation : Nat, since : Nat, entries : SUBSET [f : Edges, aw : Int, rb : Int, h : Edges]]

\* What an object is promised to stand for.
FamilyRight(ns, r, means) ==
  IsFamily(ns, r) /\ \A s \in SUBSET Vars : Index(ns, r, s) = means[s]

ValuesRight(ns, tb, r, means) ==
  Valued(ns, tb, r) /\ \A s \in SUBSET Vars : Value(ns, tb, r, s) = means[s]

\* Only a terminal of index 0 or 1 outlives bddfinal.
ObjectOK(ns, tb, h) ==
  /\ h \in Handle /\ Live(ns, h.r)
  /\ h.kind = "zdd" => FamilyRight(ns, h.r, h.means)
  /\ h.kind = "mtzdd" /\ ~h.old => ValuesRight(ns, tb, h.r, h.means)

HeldOK(ns, tb, hd) == hd \in [Objects -> Handle] /\ \A o \in Objects : ObjectOK(ns, tb, hd[o])

\* The entries of a memo of this epoch are right if it is of this generation,
\* and it is of no later one.
MemoOK(ns, gen, m, ep) ==
  /\ m \in Memos /\ m.since <= ep
  /\ m.entries # {} /\ m.since = ep =>
       m.generation <= gen /\ (m.generation = gen => BoundsOK(ns, m.entries))

CountsKept(ns, hd, ct) ==
  /\ ct.f \in Edges /\ ~ct.f.const /\ \E o \in Objects : hd[o].kind = "zdd" /\ hd[o].r = ct.f
  /\ CountMapOK(ns, Reach(ns, {ct.f}), ct.map)

CountsOK(ns, hd, ct) ==
  /\ ct = [f |-> ct.f, map |-> ct.map, kept |-> ct.kept] /\ ct.kept \in BOOLEAN
  /\ ct.kept => CountsKept(ns, hd, ct)

SessionsInv ==
  /\ generation \in Nat /\ epoch \in Nat /\ cache \in SUBSET Entries
  /\ StoreOK(nodes) /\ TableOK(table)
  /\ CodesOK(codes, nextCode) /\ nextCode # 0
  /\ CacheOK(nodes, table, cache, codes, nextCode)
  /\ HeldOK(nodes, table, held)
  /\ MemoOK(nodes, generation, bounds, epoch)
  /\ CountsOK(nodes, held, counts)

-----------------------------------------------------------------------------
(***************************************************************************)
(* A library that may be left: what the objects stand for is in it still.  *)
(***************************************************************************)
LibraryOK(L, cd, nx) ==
  /\ L \in Libraries /\ Carried(nodes, L.nodes, Roots)
  /\ Longer(table, L.table)
  /\ CacheOK(L.nodes, L.table, L.cache, cd, nx)
  /\ MemoOK(L.nodes, L.generation, L.memo, epoch)

LEMMA SelfLonger ==
  ASSUME NEW tb, TableOK(tb)
  PROVE  Longer(tb, tb)
BY DEF Longer, TableOK

LEMMA SelfGrown ==
  ASSUME NEW ns, StoreOK(ns)
  PROVE  Grown(ns, ns)
BY DEF Grown

\* The edges of the objects are live.
LEMMA RootsLive ==
  ASSUME SessionsInv
  PROVE  /\ \A c \in Roots : Live(nodes, c)
         /\ \A o \in Objects : held[o].r \in Roots
BY DEF SessionsInv, HeldOK, ObjectOK, Roots

LEMMA ObjectHeld ==
  ASSUME SessionsInv, NEW o \in Objects
  PROVE  ObjectOK(nodes, table, held[o]) /\ held[o] \in Handle
BY DEF SessionsInv, HeldOK

\* What an object stands for is the same wherever its edge is carried.
LEMMA FamilyCarried ==
  ASSUME NEW ns, NEW r, NEW means, FamilyRight(ns, r, means),
         NEW ms, \A s \in SUBSET Vars : Index(ms, r, s) = Index(ns, r, s)
  PROVE  FamilyRight(ms, r, means)
BY DEF FamilyRight, IsFamily

LEMMA ValuesCarried ==
  ASSUME NEW ns, StoreOK(ns), NEW tb, TableOK(tb), NEW r, Live(ns, r), NEW means, ValuesRight(ns, tb, r, means),
         NEW ms, \A s \in SUBSET Vars : Index(ms, r, s) = Index(ns, r, s),
         NEW ub, Longer(tb, ub)
  PROVE  ValuesRight(ms, ub, r, means)
<1>1. Len(tb) \in Nat /\ Len(ub) \in Nat /\ Len(tb) <= Len(ub)
  BY DEF TableOK, Longer
<1>2. ASSUME NEW s \in SUBSET Vars
      PROVE  Index(ms, r, s) < Len(ub) /\ Value(ms, ub, r, s) = means[s]
  <2>1. Index(ns, r, s) \in 0..(Len(tb) - 1) /\ Value(ns, tb, r, s) = tb[Index(ns, r, s) + 1]
    BY ValueNat DEF ValuesRight
  <2>2. Index(ms, r, s) = Index(ns, r, s) /\ Value(ns, tb, r, s) = means[s]
    BY DEF ValuesRight
  <2> DEFINE i == Index(ns, r, s)
  <2>3. i \in 0..(Len(ub) - 1) /\ i + 1 \in 1..Len(tb)
    BY <1>1, <2>1
  <2>4. ub[i + 1] = tb[i + 1]
    BY <2>3 DEF Longer
  <2>5. Value(ms, ub, r, s) = ub[i + 1]
    BY <2>2, <2>3 DEF Value, ValueAt
  <2> HIDE DEF i
  <2>6. i < Len(ub)
    BY <1>1, <2>3
  <2>7. QED
    BY <2>1, <2>2, <2>4, <2>5, <2>6 DEF i
<1>3. QED
  BY <1>2 DEF ValuesRight, Valued

LEMMA ObjectCarried ==
  ASSUME NEW ns, StoreOK(ns), NEW tb, TableOK(tb), NEW h, ObjectOK(ns, tb, h),
         NEW ms, Live(ms, h.r), \A s \in SUBSET Vars : Index(ms, h.r, s) = Index(ns, h.r, s),
         NEW ub, Longer(tb, ub)
  PROVE  ObjectOK(ms, ub, h)
<1>1. h \in Handle /\ Live(ns, h.r)
  BY DEF ObjectOK
<1>2. h.kind = "zdd" => FamilyRight(ms, h.r, h.means)
  BY FamilyCarried DEF ObjectOK
<1>3. h.kind = "mtzdd" /\ ~h.old => ValuesRight(ms, ub, h.r, h.means)
  BY <1>1, ValuesCarried DEF ObjectOK
<1>4. QED
  BY <1>1, <1>2, <1>3 DEF ObjectOK

LEMMA HeldCarried ==
  ASSUME SessionsInv, NEW ms, Carried(nodes, ms, Roots), NEW ub, Longer(table, ub)
  PROVE  HeldOK(ms, ub, held)
<1>1. StoreOK(nodes) /\ TableOK(table) /\ held \in [Objects -> Handle]
  BY DEF SessionsInv, HeldOK
<1>2. ASSUME NEW o \in Objects
      PROVE  ObjectOK(ms, ub, held[o])
  <2>1. ObjectOK(nodes, table, held[o]) /\ Live(nodes, held[o].r) /\ held[o].r \in Roots
    BY RootsLive, ObjectHeld
  <2> DEFINE r == held[o].r
  <2> HIDE DEF r
  <2>2. Live(ms, r) /\ \A s \in SUBSET Vars : Index(ms, r, s) = Index(nodes, r, s)
    BY <1>1, <2>1, CarriedKeeps DEF r
  <2>3. QED
    BY <1>1, <2>1, <2>2, ObjectCarried DEF r
<1>3. QED
  BY <1>1, <1>2 DEF HeldOK

LEMMA LibraryHeld ==
  ASSUME SessionsInv, NEW L, NEW cd, NEW nx, LibraryOK(L, cd, nx)
  PROVE  HeldOK(L.nodes, L.table, held) /\ StoreOK(L.nodes) /\ TableOK(L.table)
BY HeldCarried DEF LibraryOK, Carried, Longer

\* The same for the counts of a diagram that is held.
LEMMA CountsCarried ==
  ASSUME StoreOK(nodes), \A c \in Roots : Live(nodes, c), NEW ms, Carried(nodes, ms, Roots),
         NEW f \in Roots, NEW map, CountMapOK(nodes, Reach(nodes, {f}), map)
  PROVE  CountMapOK(ms, Reach(ms, {f}), map)
<1> DEFINE K == Reach(nodes, {f})
<1>1. /\ Reach(nodes, {f}) \subseteq Reach(ms, {f})
      /\ \A t \in Reach(nodes, {f}) : nodes[t] # Free /\ ms[t] = nodes[t]
  BY CarriedReaches
<1>2. Live(nodes, f) /\ StoreOK(ms)
  BY DEF Carried
<1>3. K \subseteq Slots /\ Closed(nodes, K)
  <2>1. {f} \subseteq Edges /\ \A c \in {f} : c.const \/ c.at \in Slots
    BY <1>2 DEF Live
  <2>2. QED
    BY <2>1, StoreEdges, ReachClosed
<1>4. Same(nodes, ms, K)
  BY <1>1, <1>3 DEF Same
<1>5. \A e \in map : CountEntryOK(nodes, K, e)
  BY DEF CountMapOK
<1>6. K \subseteq Reach(ms, {f})
  BY <1>1
<1> HIDE DEF K
<1>7. ASSUME NEW e \in map
      PROVE  CountEntryOK(ms, Reach(ms, {f}), e)
  <2>1. Live(nodes, e[1]) /\ ~e[1].const /\ Within(e[1], K) /\ e[2] = SizeOf(nodes, e[1]) /\ e[1] \in Edges
    BY <1>5 DEF CountEntryOK, Live
  <2>2. Live(ms, e[1]) /\ \A s \in SUBSET Vars : Index(ms, e[1], s) = Index(nodes, e[1], s)
    BY <1>2, <1>4, <2>1, IndexKept
  <2>3. SetsOf(ms, e[1]) = SetsOf(nodes, e[1])
    BY <2>2 DEF SetsOf
  <2>4. QED
    BY <1>6, <2>1, <2>2, <2>3 DEF CountEntryOK, SizeOf, Within
<1>8. QED
  BY <1>7 DEF CountMapOK

\* A call begins in the library as it is or after a collection.
Begun(L, cd, nx) == LibraryOK(L, cd, nx) /\ ~L.full /\ L.converted = {}

LEMMA LibraryBegun ==
  ASSUME SessionsInv, NEW cd, NEW nx, CacheOK(nodes, table, cache, cd, nx)
  PROVE  Begun(Library, cd, nx)
<1> DEFINE L == Library
<1>1. /\ L.nodes = nodes /\ L.generation = generation /\ L.table = table /\ L.cache = cache
      /\ L.memo = bounds /\ L.converted = {} /\ L.full = FALSE
  BY DEF Library
<1>2. L \in Libraries
  <2>1. Const(0) \in Edges
    BY DEF Const, Edges
  <2>2. QED
    BY <2>1 DEF Library, Libraries, SessionsInv, StoreOK, TableOK, MemoOK, Memos, Entries
<1> HIDE DEF L
<1>3. StoreOK(nodes) /\ TableOK(table) /\ MemoOK(nodes, generation, bounds, epoch)
  BY DEF SessionsInv
<1>4. Carried(nodes, nodes, Roots)
  BY <1>3, SelfGrown, CarriedGrown, RootsLive
<1>5. Longer(table, table)
  BY <1>3, SelfLonger
<1>6. LibraryOK(L, cd, nx) /\ ~L.full /\ L.converted = {}
  BY <1>1, <1>2, <1>3, <1>4, <1>5 DEF LibraryOK
<1>7. QED
  BY <1>6 DEF L, Begun

LEMMA MemoCollected ==
  ASSUME NEW ns, NEW ms, NEW gen \in Nat, NEW m, NEW ep, MemoOK(ns, gen, m, ep)
  PROVE  MemoOK(ms, gen + 1, m, ep)
<1>1. m.generation \in Nat
  BY DEF MemoOK, Memos
<1>2. m.entries # {} /\ m.since = ep => m.generation <= gen
  BY DEF MemoOK
<1>3. m.generation <= gen => m.generation <= gen + 1 /\ m.generation # gen + 1
  BY <1>1
<1>4. QED
  BY <1>2, <1>3 DEF MemoOK

LEMMA CollectedOK ==
  ASSUME SessionsInv, NEW L, NEW cd, NEW nx, LibraryOK(L, cd, nx)
  PROVE  /\ LibraryOK(bddgc(L), cd, nx) /\ ~bddgc(L).full
         /\ bddgc(L).converted = L.converted /\ bddgc(L).table = L.table
<1> DEFINE M == bddgc(L)
<1>1. L \in Libraries /\ StoreOK(L.nodes) /\ Carried(nodes, L.nodes, Roots) /\ Longer(table, L.table)
  BY DEF LibraryOK, Carried
<1>2. StoreOK(nodes) /\ \A c \in Roots : Live(nodes, c)
  BY RootsLive DEF SessionsInv
<1>3. \A c \in Roots : Live(L.nodes, c)
  BY <1>1, <1>2, CarriedKeeps
<1> HIDE DEF M
<1>4. Collected(L, M)
  BY <1>1, <1>3, GcCollects DEF M
<1>5. /\ M \in Libraries /\ Carried(L.nodes, M.nodes, Roots)
      /\ M.cache = {} /\ M.generation = L.generation + 1 /\ M.full = FALSE
      /\ M.table = L.table /\ M.memo = L.memo /\ M.converted = L.converted
  BY <1>4 DEF Collected
<1>6. Carried(nodes, M.nodes, Roots)
  BY <1>1, <1>5, CarriedTrans
<1>7. MemoOK(M.nodes, M.generation, M.memo, epoch)
  <2>1. L.generation \in Nat
    BY <1>1 DEF Libraries
  <2>2. MemoOK(L.nodes, L.generation, L.memo, epoch)
    BY DEF LibraryOK
  <2>3. MemoOK(M.nodes, L.generation + 1, L.memo, epoch)
    BY <2>1, <2>2, MemoCollected
  <2>4. QED
    BY <1>5, <2>3
<1>8. CacheOK(M.nodes, M.table, M.cache, cd, nx)
  BY <1>5 DEF CacheOK
<1>9. LibraryOK(M, cd, nx)
  BY <1>1, <1>5, <1>6, <1>7, <1>8 DEF LibraryOK
<1>10. QED
  BY <1>5, <1>9 DEF M

LEMMA EnteredBegun ==
  ASSUME SessionsInv, NEW cd, NEW nx, CacheOK(nodes, table, cache, cd, nx), NEW L \in Entered
  PROVE  Begun(L, cd, nx) /\ L.table = table
<1>1. Begun(Library, cd, nx) /\ Library.table = table
  BY LibraryBegun DEF Library
<1>2. CASE L = Library
  BY <1>1, <1>2
<1>3. CASE L = bddgc(Library)
  <2>1. LibraryOK(Library, cd, nx) /\ Library.converted = {}
    BY <1>1 DEF Begun
  <2>2. /\ LibraryOK(bddgc(Library), cd, nx) /\ ~bddgc(Library).full
        /\ bddgc(Library).converted = Library.converted /\ bddgc(Library).table = Library.table
    BY <2>1, CollectedOK
  <2>3. QED
    BY <1>1, <1>3, <2>1, <2>2 DEF Begun
<1>4. QED
  BY <1>2, <1>3 DEF Entered

\* A call that only adds nodes and keeps the memos leaves an OK library.
LEMMA MemoGrown ==
  ASSUME NEW ns, StoreOK(ns), NEW ms, Grown(ns, ms), NEW gen, NEW m, NEW ep, MemoOK(ns, gen, m, ep)
  PROVE  MemoOK(ms, gen, m, ep)
BY BoundsKept DEF MemoOK

LEMMA CarriedOnward ==
  ASSUME SessionsInv, NEW ns, Carried(nodes, ns, Roots), NEW ms, Grown(ns, ms)
  PROVE  Carried(nodes, ms, Roots)
<1>1. StoreOK(nodes) /\ StoreOK(ns) /\ \A c \in Roots : Live(nodes, c)
  BY RootsLive DEF SessionsInv, Carried
<1>2. \A c \in Roots : Live(ns, c)
  BY <1>1, CarriedKeeps
<1>3. Carried(ns, ms, Roots)
  BY <1>1, <1>2, CarriedGrown
<1>4. QED
  BY <1>3, CarriedTrans

LEMMA LibraryOnward ==
  ASSUME SessionsInv, NEW L, NEW cd, NEW nx, LibraryOK(L, cd, nx),
         NEW M \in Libraries, Onward(L, M), CacheOK(M.nodes, M.table, M.cache, cd, nx)
  PROVE  LibraryOK(M, cd, nx)
<1>1. StoreOK(L.nodes) /\ Carried(nodes, L.nodes, Roots) /\ Longer(table, L.table) /\ TableOK(table)
  BY DEF LibraryOK, Carried, SessionsInv
<1>2. Grown(L.nodes, M.nodes) /\ Longer(L.table, M.table) /\ M.generation = L.generation /\ M.memo = L.memo
  BY DEF Onward
<1>3. Carried(nodes, M.nodes, Roots)
  BY <1>1, <1>2, CarriedOnward
<1>4. Longer(table, M.table)
  BY <1>1, <1>2, LongerTrans
<1>5. MemoOK(M.nodes, M.generation, M.memo, epoch)
  BY <1>1, <1>2, MemoGrown DEF LibraryOK
<1>6. QED
  BY <1>3, <1>4, <1>5 DEF LibraryOK

LEMMA LibraryGrown ==
  ASSUME SessionsInv, NEW L, NEW cd, NEW nx, LibraryOK(L, cd, nx),
         NEW M \in Libraries, Onward(L, M), M.cache = L.cache
  PROVE  LibraryOK(M, cd, nx)
<1>1. StoreOK(L.nodes) /\ TableOK(L.table) /\ CacheOK(L.nodes, L.table, L.cache, cd, nx)
  BY DEF LibraryOK, Carried, Longer
<1>2. Grown(L.nodes, M.nodes) /\ Longer(L.table, M.table)
  BY DEF Onward
<1>3. CacheOK(M.nodes, M.table, L.cache, cd, nx)
  BY <1>1, <1>2, CacheKept
<1>4. QED
  BY <1>3, LibraryOnward

-----------------------------------------------------------------------------
(***************************************************************************)
(* The end of a call.                                                      *)
(***************************************************************************)
CodesNext ==
  /\ CodesOK(codes, nextCode)' /\ nextCode' # 0
  /\ CacheOK(nodes, table, cache, codes', nextCode')

LEMMA KeptCounts ==
  ASSUME SessionsInv, NEW ms, Carried(nodes, ms, Roots), NEW hd
  PROVE  CountsOK(ms, hd, Kept(counts, hd))
<1> DEFINE c == Kept(counts, hd)
           holds == \E o \in Objects : hd[o].kind = "zdd" /\ hd[o].r = counts.f
<1>1. /\ counts = [f |-> counts.f, map |-> counts.map, kept |-> counts.kept] /\ counts.kept \in BOOLEAN
      /\ counts.kept => CountsKept(nodes, held, counts)
  BY DEF SessionsInv, CountsOK
<1>2. c = [f |-> counts.f, map |-> counts.map, kept |-> counts.kept /\ holds]
  BY <1>1 DEF Kept
<1>3. c.f = counts.f /\ c.map = counts.map /\ c.kept = (counts.kept /\ holds)
  BY <1>2
<1>4. c = [f |-> c.f, map |-> c.map, kept |-> c.kept] /\ c.kept \in BOOLEAN
  BY <1>2
<1> HIDE DEF c
<1>5. ASSUME c.kept PROVE CountsKept(ms, hd, c)
  <2>1. counts.kept /\ holds /\ CountsKept(nodes, held, counts)
    BY <1>1, <1>3, <1>5
  <2> DEFINE f == counts.f
  <2>2. f \in Edges /\ ~f.const /\ CountMapOK(nodes, Reach(nodes, {f}), counts.map)
    BY <2>1 DEF CountsKept
  <2>3. f \in Roots
    BY <2>1, RootsLive DEF CountsKept
  <2> HIDE DEF f
  <2>4. StoreOK(nodes) /\ \A x \in Roots : Live(nodes, x)
    BY RootsLive DEF SessionsInv
  <2>5. CountMapOK(ms, Reach(ms, {f}), counts.map)
    BY <2>2, <2>3, <2>4, CountsCarried
  <2>6. QED
    BY <1>3, <2>1, <2>2, <2>5 DEF f, CountsKept
<1>6. QED
  BY <1>4, <1>5 DEF CountsOK, c

LEMMA LeaveKeeps ==
  ASSUME SessionsInv, CodesNext, NEW L, LibraryOK(L, codes', nextCode'),
         NEW hd, HeldOK(L.nodes, L.table, hd), Leave(L, hd)
  PROVE  SessionsInv'
<1>1. /\ nodes' = L.nodes /\ generation' = L.generation /\ table' = L.table /\ cache' = L.cache
      /\ bounds' = L.memo /\ held' = hd /\ counts' = Kept(counts, hd) /\ epoch' = epoch
  BY DEF Leave
<1>2. generation' \in Nat /\ (cache \in SUBSET Entries)' /\ (epoch \in Nat)'
  BY <1>1 DEF LibraryOK, Libraries, SessionsInv, Entries
<1>3. StoreOK(nodes)' /\ TableOK(table)'
  BY <1>1 DEF LibraryOK, Carried, Longer, StoreOK, TableOK, Live
<1>4. CacheOK(nodes, table, cache, codes, nextCode)' /\ MemoOK(nodes, generation, bounds, epoch)'
  BY <1>1 DEF LibraryOK
<1>5. HeldOK(nodes, table, held)'
  BY <1>1
<1>6. CountsOK(L.nodes, hd, Kept(counts, hd))
  BY KeptCounts DEF LibraryOK
<1>7. CountsOK(nodes, held, counts)'
  BY <1>1, <1>6
<1>8. QED
  BY <1>2, <1>3, <1>4, <1>5, <1>7 DEF SessionsInv, CodesNext

LEMMA CodesSame ==
  ASSUME SessionsInv, UNCHANGED <<nextCode, codes>>
  PROVE  CodesNext
BY DEF SessionsInv, CodesNext

\* What a call returns.
LEMMA ReturnKeeps ==
  ASSUME SessionsInv, CodesNext, NEW L, LibraryOK(L, codes', nextCode'),
         NEW o \in Objects, NEW k, NEW means, Return(L, o, k, means),
         ~L.full => ObjectOK(L.nodes, L.table, Made(k, L.r, means))
  PROVE  SessionsInv'
<1> DEFINE hd == IF L.full THEN held ELSE [held EXCEPT ![o] = Made(k, L.r, means)]
<1>1. HeldOK(L.nodes, L.table, held)
  BY LibraryHeld
<1>2. HeldOK(L.nodes, L.table, hd)
  BY <1>1 DEF HeldOK, ObjectOK
<1>3. Leave(L, hd)
  BY DEF Return
<1> HIDE DEF hd
<1>4. QED
  BY <1>2, <1>3, LeaveKeeps

-----------------------------------------------------------------------------
(***************************************************************************)
(* The steps of the program.                                               *)
(***************************************************************************)
\* The object of a terminal.
LEMMA ConstFamily ==
  ASSUME NEW ns, StoreOK(ns), NEW x \in {0, 1}
  PROVE  Live(ns, Const(x)) /\ FamilyRight(ns, Const(x), Constantly(x))
<1>1. Const(x) \in Edges /\ Const(x).const = TRUE /\ Const(x).at = x
  BY DEF Const, Edges
<1>2. Live(ns, Const(x))
  BY <1>1 DEF Live
<1> DEFINE r == Const(x)
<1> HIDE DEF r
<1>3. \A s \in SUBSET Vars : Index(ns, r, s) = IF s = {} THEN x ELSE 0
  BY <1>1, <1>2, IndexConst DEF r
<1>4. QED
  BY <1>2, <1>3 DEF r, FamilyRight, IsFamily, Constantly

LEMMA ConstValues ==
  ASSUME NEW ns, StoreOK(ns), NEW tb, TableOK(tb), NEW r, Live(ns, r), r.const, r.at < Len(tb),
         NEW x, tb[r.at + 1] = x
  PROVE  ValuesRight(ns, tb, r, Constantly(x))
<1>1. Valued(ns, tb, r) /\ \A s \in SUBSET Vars : Value(ns, tb, r, s) = IF s = {} THEN tb[r.at + 1] ELSE 0
  BY ConstValue
<1>2. QED
  BY <1>1 DEF ValuesRight, Constantly

LEMMA ConstantlyNat ==
  ASSUME NEW x \in Nat
  PROVE  Constantly(x) \in [SUBSET Vars -> Nat]
BY DEF Constantly

LEMMA MadeOK ==
  ASSUME NEW ns, NEW tb, NEW k \in {"zdd", "mtzdd"}, NEW r, Live(ns, r), NEW means \in [SUBSET Vars -> Nat],
         k = "zdd" => FamilyRight(ns, r, means), k = "mtzdd" => ValuesRight(ns, tb, r, means)
  PROVE  ObjectOK(ns, tb, Made(k, r, means))
<1> DEFINE h == Made(k, r, means)
<1>1. h.kind = k /\ h.r = r /\ h.means = means /\ h \in Handle
  BY DEF Made, Handle, Live
<1> HIDE DEF h
<1>2. ObjectOK(ns, tb, h)
  BY <1>1 DEF ObjectOK
<1>3. QED
  BY <1>2 DEF h

LEMMA NullOK ==
  ASSUME NEW ns, StoreOK(ns), NEW tb, TableOK(tb)
  PROVE  ObjectOK(ns, tb, Null)
<1>1. Live(ns, Const(0)) /\ FamilyRight(ns, Const(0), Constantly(0))
  BY ConstFamily
<1>2. ValuesRight(ns, tb, Const(0), Constantly(0))
  <2> DEFINE r == Const(0)
  <2>1. r.const /\ r.at = 0
    BY DEF Const
  <2> HIDE DEF r
  <2>2. r.at < Len(tb) /\ tb[r.at + 1] = 0
    BY <2>1 DEF TableOK
  <2>3. Live(ns, r)
    BY <1>1 DEF r
  <2>4. ValuesRight(ns, tb, r, Constantly(0))
    BY <2>1, <2>2, <2>3, ConstValues
  <2>5. QED
    BY <2>4 DEF r
<1>3. Constantly(0) \in [SUBSET Vars -> Nat]
  BY ConstantlyNat
<1>4. Kind \in {"zdd", "mtzdd"}
  BY DEF Kind
<1>5. QED
  BY <1>1, <1>2, <1>3, <1>4, MadeOK DEF Null

\* One object is replaced.
LEMMA HeldReplaced ==
  ASSUME NEW ns, NEW tb, HeldOK(ns, tb, held), NEW o \in Objects, NEW h, ObjectOK(ns, tb, h)
  PROVE  HeldOK(ns, tb, [held EXCEPT ![o] = h])
BY DEF HeldOK, ObjectOK

LEMMA LibraryHere ==
  ASSUME SessionsInv, CodesNext
  PROVE  /\ Begun(Library, codes', nextCode') /\ LibraryOK(Library, codes', nextCode')
         /\ Library.nodes = nodes /\ Library.table = table
         /\ HeldOK(nodes, table, held) /\ StoreOK(nodes) /\ TableOK(table)
BY LibraryBegun DEF CodesNext, Begun, Library, SessionsInv

LEMMA DropKeeps ==
  ASSUME SessionsInv, NEW o \in Objects, Drop(o)
  PROVE  SessionsInv'
<1>1. CodesNext
  BY CodesSame DEF Drop
<1> DEFINE hd == [held EXCEPT ![o] = Null]
<1>2. /\ LibraryOK(Library, codes', nextCode') /\ Library.nodes = nodes /\ Library.table = table
      /\ HeldOK(nodes, table, held) /\ StoreOK(nodes) /\ TableOK(table)
  BY <1>1, LibraryHere
<1>3. HeldOK(Library.nodes, Library.table, hd)
  BY <1>2, NullOK, HeldReplaced
<1>4. Leave(Library, hd)
  BY DEF Drop
<1> HIDE DEF hd
<1>5. QED
  BY <1>1, <1>2, <1>3, <1>4, LeaveKeeps

LEMMA SetSingleKeeps ==
  ASSUME SessionsInv, NEW o \in Objects, SetSingle(o)
  PROVE  SessionsInv'
<1>1. CodesNext
  BY CodesSame DEF SetSingle
<1> DEFINE h == Made("zdd", Const(1), Constantly(1))
           hd == [held EXCEPT ![o] = h]
<1>2. /\ LibraryOK(Library, codes', nextCode') /\ Library.nodes = nodes /\ Library.table = table
      /\ HeldOK(nodes, table, held) /\ StoreOK(nodes) /\ TableOK(table)
  BY <1>1, LibraryHere
<1>3. Live(nodes, Const(1)) /\ FamilyRight(nodes, Const(1), Constantly(1))
  BY <1>2, ConstFamily
<1>4. ObjectOK(nodes, table, h)
  BY <1>3, ConstantlyNat, MadeOK
<1>5. Leave(Library, hd)
  BY DEF SetSingle
<1> HIDE DEF h
<1>6. HeldOK(Library.nodes, Library.table, hd)
  BY <1>2, <1>4, HeldReplaced
<1> HIDE DEF hd
<1>7. QED
  BY <1>1, <1>2, <1>5, <1>6, LeaveKeeps

LEMMA CollectKeeps ==
  ASSUME SessionsInv, Collect
  PROVE  SessionsInv'
<1>1. CodesNext
  BY CodesSame DEF Collect
<1> DEFINE M == bddgc(Library)
<1>2. LibraryOK(M, codes', nextCode')
  BY <1>1, LibraryHere, CollectedOK
<1>3. Leave(M, held)
  BY DEF Collect
<1> HIDE DEF M
<1>4. HeldOK(M.nodes, M.table, held)
  BY <1>2, LibraryHeld
<1>5. QED
  BY <1>1, <1>2, <1>3, <1>4, LeaveKeeps

LEMMA TerminalKeeps ==
  ASSUME SessionsInv, NEW o \in Objects, NEW x \in TerminalValues, terminal(o, x)
  PROVE  SessionsInv'
<1>1. CodesNext
  BY CodesSame DEF terminal
<1>2. x \in Nat
  BY SessionsAssumption
<1> DEFINE L == Library
           M == get_or_insert(L, x)
<1>3. /\ LibraryOK(L, codes', nextCode') /\ L.nodes = nodes /\ L.table = table
      /\ StoreOK(nodes) /\ TableOK(table)
  BY <1>1, LibraryHere
<1>4. Return(M, o, "mtzdd", Constantly(x))
  BY DEF terminal
<1> HIDE DEF L
<1>5. L \in Libraries /\ TableOK(L.table) /\ StoreOK(L.nodes)
  BY <1>3 DEF LibraryOK
<1>6. Interned(L, x, M)
  BY <1>2, <1>5, GetOrInsert
<1> HIDE DEF M
<1>7. M \in Libraries /\ Onward(L, M) /\ M.cache = L.cache
  BY <1>5, <1>6, SelfGrown DEF Interned, Onward
<1>8. LibraryOK(M, codes', nextCode')
  BY <1>3, <1>7, LibraryGrown
<1>9. StoreOK(M.nodes) /\ TableOK(M.table)
  BY <1>5, <1>6 DEF Interned, Longer
<1>10. Live(M.nodes, M.r) /\ M.r.const /\ M.r.at < Len(M.table) /\ M.table[M.r.at + 1] = x
  BY <1>6 DEF Interned, Live
<1>11. ValuesRight(M.nodes, M.table, M.r, Constantly(x))
  BY <1>9, <1>10, ConstValues
<1>12. ObjectOK(M.nodes, M.table, Made("mtzdd", M.r, Constantly(x)))
  BY <1>2, <1>10, <1>11, ConstantlyNat, MadeOK
<1>13. QED
  BY <1>1, <1>4, <1>8, <1>12, ReturnKeeps

\* getnode_raw for the children lo and hi, from an OK library.
NodeAsked(L, v, lo, hi) ==
  /\ Live(L.nodes, lo) /\ EdgeLevel(L.nodes, lo) < LevelOf(v)
  /\ Live(L.nodes, hi) /\ EdgeLevel(L.nodes, hi) < LevelOf(v)

NodeGot(L, v, lo, hi, M, cd, nx) ==
  /\ LibraryOK(M, cd, nx) /\ M.table = L.table
  /\ ~M.full => Joins(M.nodes, M.r, v, L.nodes, lo, hi)

LEMMA IteOnce ==
  ASSUME SessionsInv, NEW L, NEW cd, NEW nx, LibraryOK(L, cd, nx), ~L.full, NEW v \in Vars,
         NEW lo, NEW hi, NodeAsked(L, v, lo, hi), NEW M, M = getnode_raw(L, v, lo, hi)
  PROVE  NodeGot(L, v, lo, hi, M, cd, nx)
<1>1. L \in Libraries /\ StoreOK(L.nodes) /\ TableOK(L.table)
  BY DEF LibraryOK, Carried, Longer
<1>2. MadeNode(L, v, lo, hi, M)
  BY <1>1, GetNode DEF NodeAsked
<1>3. M \in Libraries /\ SameRest(L, M) /\ Grown(L.nodes, M.nodes)
  BY <1>2 DEF MadeNode
<1>4. Onward(L, M) /\ M.cache = L.cache /\ M.table = L.table
  BY <1>1, <1>3, SelfLonger DEF SameRest, Onward
<1>5. LibraryOK(M, cd, nx)
  BY <1>3, <1>4, LibraryGrown
<1>6. QED
  BY <1>2, <1>4, <1>5 DEF MadeNode, NodeGot

\* The children as the objects of an OK library have them.
LEMMA IteAsked ==
  ASSUME SessionsInv, NEW L, NEW cd, NEW nx, LibraryOK(L, cd, nx), NEW v \in Vars,
         NEW p \in Objects, NEW q \in Objects,
         EdgeLevel(nodes, held[p].r) < LevelOf(v), EdgeLevel(nodes, held[q].r) < LevelOf(v)
  PROVE  NodeAsked(L, v, held[p].r, held[q].r)
<1>1. StoreOK(nodes) /\ Carried(nodes, L.nodes, Roots)
  BY DEF SessionsInv, LibraryOK
<1>2. ASSUME NEW r \in Roots
      PROVE  Live(L.nodes, r) /\ EdgeLevel(L.nodes, r) = EdgeLevel(nodes, r)
  BY <1>1, RootsLive, CarriedKeeps
<1>3. held[p].r \in Roots /\ held[q].r \in Roots
  BY RootsLive
<1>4. QED
  BY <1>2, <1>3 DEF NodeAsked

\* The node over two objects stands for the two.
JoinRight(ns, tb, k, r, v, a, b) ==
  /\ WithNode(v, a.means, b.means) \in [SUBSET Vars -> Nat]
  /\ k = "zdd" => FamilyRight(ns, r, WithNode(v, a.means, b.means))
  /\ k = "mtzdd" => ValuesRight(ns, tb, r, WithNode(v, a.means, b.means))

LEMMA JoinMeans ==
  ASSUME NEW ms, StoreOK(ms), NEW tb, NEW k, NEW v \in Vars,
         NEW a, ObjectOK(ms, tb, a), a.kind = k, ~a.old, NEW b, ObjectOK(ms, tb, b), b.kind = k, ~b.old,
         NEW ns, NEW r, Joins(ns, r, v, ms, a.r, b.r)
  PROVE  JoinRight(ns, tb, k, r, v, a, b)
<1> DEFINE m == WithNode(v, a.means, b.means)
<1>1. a.means \in [SUBSET Vars -> Nat] /\ b.means \in [SUBSET Vars -> Nat]
  BY DEF ObjectOK, Handle
<1>2. \A s \in SUBSET Vars : s \ {v} \in SUBSET Vars
  OBVIOUS
<1>3. \A s \in SUBSET Vars : m[s] = IF v \in s THEN b.means[s \ {v}] ELSE a.means[s]
  BY DEF WithNode
<1>4. m \in [SUBSET Vars -> Nat]
  BY <1>1, <1>2 DEF WithNode
<1> HIDE DEF m
<1>5. \A s \in SUBSET Vars :
        Index(ns, r, s) = IF v \in s THEN Index(ms, b.r, s \ {v}) ELSE Index(ms, a.r, s)
  BY DEF Joins
<1>6. ASSUME k = "zdd" PROVE FamilyRight(ns, r, m)
  <2>1. FamilyRight(ms, a.r, a.means) /\ FamilyRight(ms, b.r, b.means)
    BY <1>6 DEF ObjectOK
  <2>2. ASSUME NEW s \in SUBSET Vars
        PROVE  Index(ns, r, s) \in {0, 1} /\ Index(ns, r, s) = m[s]
    BY <1>2, <1>3, <1>5, <2>1 DEF FamilyRight, IsFamily
  <2>3. QED
    BY <2>2 DEF FamilyRight, IsFamily
<1>7. ASSUME k = "mtzdd" PROVE ValuesRight(ns, tb, r, m)
  <2>1. ValuesRight(ms, tb, a.r, a.means) /\ ValuesRight(ms, tb, b.r, b.means)
    BY <1>7 DEF ObjectOK
  <2>2. ASSUME NEW s \in SUBSET Vars
        PROVE  Index(ns, r, s) < Len(tb) /\ Value(ns, tb, r, s) = m[s]
    BY <1>2, <1>3, <1>5, <2>1 DEF ValuesRight, Valued, Value
  <2>3. QED
    BY <2>2 DEF ValuesRight, Valued
<1>8. QED
  BY <1>4, <1>6, <1>7 DEF JoinRight, m

LEMMA IteKeeps ==
  ASSUME SessionsInv, NEW o \in Objects, NEW v \in Vars, NEW p \in Objects, NEW q \in Objects, ite(o, v, p, q)
  PROVE  SessionsInv'
<1> DEFINE k == held[p].kind
           lo == held[p].r
           hi == held[q].r
           get(L) == getnode_raw(L, v, lo, hi)
           first == get(Library)
           again == get(bddgc(first))
           M == bdd_gc_guard(Library, get)
           means == WithNode(v, held[p].means, held[q].means)
<1>1. CodesNext
  BY CodesSame DEF ite
<1>2. /\ held[p].kind = k /\ ~held[p].old /\ held[q].kind = k /\ ~held[q].old
      /\ EdgeLevel(nodes, lo) < LevelOf(v) /\ EdgeLevel(nodes, hi) < LevelOf(v)
      /\ Return(M, o, k, means)
  BY DEF ite, Usable
<1>3. M = IF first.full THEN again ELSE first
  BY DEF bdd_gc_guard
<1> HIDE DEF M, means
<1>4. LibraryOK(Library, codes', nextCode') /\ ~Library.full
  BY <1>1, LibraryHere DEF Begun
<1>5. ASSUME NEW L, LibraryOK(L, codes', nextCode'), ~L.full
      PROVE  NodeGot(L, v, lo, hi, get(L), codes', nextCode')
  <2>1. NodeAsked(L, v, lo, hi)
    BY <1>2, <1>5, IteAsked
  <2>2. QED
    BY <1>5, <2>1, IteOnce
<1>6. NodeGot(Library, v, lo, hi, first, codes', nextCode')
  BY <1>4, <1>5
<1>7. LibraryOK(bddgc(first), codes', nextCode') /\ ~bddgc(first).full
  BY <1>6, CollectedOK DEF NodeGot
<1>8. NodeGot(bddgc(first), v, lo, hi, again, codes', nextCode')
  BY <1>5, <1>7
<1> HIDE DEF get, first, again
<1>9. \E L : LibraryOK(L, codes', nextCode') /\ NodeGot(L, v, lo, hi, M, codes', nextCode')
  BY <1>3, <1>4, <1>6, <1>7, <1>8
<1>10. PICK L : LibraryOK(L, codes', nextCode') /\ NodeGot(L, v, lo, hi, M, codes', nextCode')
  BY <1>9
<1>11. LibraryOK(M, codes', nextCode') /\ M.table = L.table
  BY <1>10 DEF NodeGot
<1>12. ASSUME ~M.full PROVE ObjectOK(M.nodes, M.table, Made(k, M.r, means))
  <2>1. HeldOK(L.nodes, L.table, held) /\ StoreOK(L.nodes)
    BY <1>10, LibraryHeld
  <2>2. ObjectOK(L.nodes, L.table, held[p]) /\ ObjectOK(L.nodes, L.table, held[q])
    BY <2>1 DEF HeldOK
  <2>3. Joins(M.nodes, M.r, v, L.nodes, held[p].r, held[q].r)
    BY <1>10, <1>12 DEF NodeGot
  <2>4. k \in {"zdd", "mtzdd"}
    BY <2>2 DEF ObjectOK, Handle
  <2> HIDE DEF k, lo, hi
  <2>5. JoinRight(M.nodes, L.table, k, M.r, v, held[p], held[q])
    BY <1>2, <2>1, <2>2, <2>3, JoinMeans
  <2>6. Live(M.nodes, M.r)
    BY <2>3 DEF Joins
  <2>7. QED
    BY <1>11, <2>4, <2>5, <2>6, MadeOK DEF JoinRight, means
<1>13. QED
  BY <1>1, <1>2, <1>11, <1>12, ReturnKeeps

-----------------------------------------------------------------------------
\* bddfinal: what is left is constant, and means the same in an empty table.
LEMMA EmptyStore ==
  StoreOK([s \in Slots |-> Free]) /\ TableOK(<<0>>)
<1>1. Free \in [var : Nat, lo : Edges, hi : Edges]
  BY DEF Free, Const, Edges
<1>2. [s \in Slots |-> Free] \in Stores
  BY <1>1 DEF Stores
<1>3. TableOK(<<0>>)
  BY DEF TableOK
<1>4. QED
  BY <1>2, <1>3 DEF StoreOK

LEMMA FinalObject ==
  ASSUME NEW ns, StoreOK(ns), NEW tb, TableOK(tb), NEW h, ObjectOK(ns, tb, h), h.r.const, h.r.at < 2,
         NEW ms, StoreOK(ms),
         NEW g, g = [h EXCEPT !.old = @ \/ (h.kind = "mtzdd" /\ h.r = Const(1))]
  PROVE  ObjectOK(ms, <<0>>, g)
<1>1. h \in Handle /\ Live(ns, h.r)
  BY DEF ObjectOK
<1>2. /\ g.kind = h.kind /\ g.r = h.r /\ g.means = h.means /\ g \in Handle
      /\ g.old = (h.old \/ (h.kind = "mtzdd" /\ h.r = Const(1)))
  BY <1>1 DEF Handle
<1> DEFINE r == h.r
<1>3. Live(ms, r) /\ r \in Edges
  BY <1>1 DEF Live
<1>4. \A s \in SUBSET Vars : /\ Index(ns, r, s) = IF s = {} THEN r.at ELSE 0
                             /\ Index(ms, r, s) = IF s = {} THEN r.at ELSE 0
  BY <1>1, <1>3, IndexConst
<1>5. ASSUME h.kind = "zdd" PROVE FamilyRight(ms, r, h.means)
  <2>1. FamilyRight(ns, r, h.means)
    BY <1>5 DEF ObjectOK
  <2> HIDE DEF r
  <2>2. QED
    BY <1>4, <2>1, FamilyCarried
<1>6. ASSUME h.kind = "mtzdd", ~g.old PROVE ValuesRight(ms, <<0>>, r, h.means)
  <2>1. ValuesRight(ns, tb, r, h.means) /\ r # Const(1)
    BY <1>2, <1>6 DEF ObjectOK
  <2>2. r.at = 0
    <3>1. r.const = TRUE /\ r.at \in Nat /\ r = [const |-> r.const, at |-> r.at]
      BY <1>3 DEF Edges
    <3>2. r.at = 0 \/ r.at = 1
      BY <3>1
    <3>3. r.at # 1
      BY <2>1, <3>1 DEF Const
    <3>4. QED
      BY <3>2, <3>3
  <2> HIDE DEF r
  <2>3. TableOK(<<0>>) /\ tb[1] = 0 /\ 0 < Len(tb) /\ Len(<<0>>) = 1
    BY DEF TableOK
  <2>4. r.const
    BY DEF r
  <2>5. \A s \in SUBSET Vars : Value(ns, tb, r, s) = 0
    <3>1. Live(ns, r) /\ r.at < Len(tb) /\ tb[r.at + 1] = 0
      BY <1>1, <2>2, <2>3 DEF r
    <3>2. \A s \in SUBSET Vars : Value(ns, tb, r, s) = IF s = {} THEN tb[r.at + 1] ELSE 0
      BY <2>4, <3>1, ConstValue
    <3>3. QED
      BY <3>1, <3>2
  <2> DEFINE ub == <<0>>
  <2>6. TableOK(ub) /\ r.at < Len(ub) /\ ub[r.at + 1] = 0
    BY <2>2, <2>3
  <2> HIDE DEF ub
  <2>7. Valued(ms, ub, r) /\ \A s \in SUBSET Vars : Value(ms, ub, r, s) = 0
    <3>1. Valued(ms, ub, r) /\ \A s \in SUBSET Vars : Value(ms, ub, r, s) = IF s = {} THEN ub[r.at + 1] ELSE 0
      BY <1>3, <2>4, <2>6, ConstValue
    <3>2. QED
      BY <2>6, <3>1
  <2>8. ValuesRight(ms, ub, r, h.means)
    BY <2>1, <2>5, <2>7 DEF ValuesRight
  <2>9. QED
    BY <2>8 DEF ub
<1>7. QED
  BY <1>2, <1>3, <1>5, <1>6 DEF ObjectOK

LEMMA FinalKeeps ==
  ASSUME SessionsInv, bddfinal
  PROVE  SessionsInv'
<1>1. /\ \A o \in Objects : held[o].r.const /\ held[o].r.at < 2
      /\ nodes' = [s \in Slots |-> Free] /\ table' = <<0>> /\ cache' = {} /\ nextCode' = nextCode
      /\ generation' = 0 /\ epoch' = epoch + 1
      /\ held' = [o \in Objects |->
                    [held[o] EXCEPT !.old = @ \/ (held[o].kind = "mtzdd" /\ held[o].r = Const(1))]]
      /\ codes' = codes /\ bounds' = bounds /\ counts' = counts
  BY DEF bddfinal, Reset, Finalizable
<1>2. StoreOK(nodes) /\ TableOK(table) /\ epoch \in Nat
  BY DEF SessionsInv
<1>3. StoreOK(nodes)' /\ TableOK(table)'
  <2>1. StoreOK(nodes') /\ TableOK(table')
    BY <1>1, EmptyStore
  <2>2. QED
    BY <2>1 DEF StoreOK, TableOK, Live
<1>4. HeldOK(nodes, table, held)'
  <2>1. ASSUME NEW o \in Objects PROVE ObjectOK(nodes', table', held'[o])
    <3> DEFINE h == held[o]
               g == held'[o]
    <3>1. ObjectOK(nodes, table, h) /\ h.r.const /\ h.r.at < 2
      BY <1>1, ObjectHeld
    <3>2. g = [h EXCEPT !.old = @ \/ (h.kind = "mtzdd" /\ h.r = Const(1))]
      BY <1>1
    <3>3. StoreOK(nodes') /\ table' = <<0>>
      BY <1>1, EmptyStore
    <3> HIDE DEF h, g
    <3>4. ObjectOK(nodes', <<0>>, g)
      BY <1>2, <3>1, <3>2, <3>3, FinalObject
    <3>5. QED
      BY <3>3, <3>4 DEF g
  <2>2. \A o \in Objects : held'[o] \in Handle
    BY <2>1 DEF ObjectOK
  <2>3. held' \in [Objects -> Handle]
    BY <1>1, <2>2
  <2>4. HeldOK(nodes', table', held')
    BY <2>1, <2>3 DEF HeldOK
  <2>5. QED
    BY <2>4
<1>5. MemoOK(nodes, generation, bounds, epoch)'
  <2>1. bounds \in Memos /\ bounds.since <= epoch /\ bounds.since \in Nat
    BY DEF SessionsInv, MemoOK, Memos
  <2>2. bounds.since <= epoch + 1 /\ bounds.since # epoch + 1
    BY <1>2, <2>1
  <2>3. MemoOK(nodes', generation', bounds, epoch + 1)
    BY <2>1, <2>2 DEF MemoOK
  <2>4. QED
    BY <1>1, <2>3
<1>6. CountsOK(nodes, held, counts)'
  <2>1. CountsOK(nodes, held, counts) /\ ~counts.kept
    BY <1>1 DEF SessionsInv, CountsOK, CountsKept
  <2>2. CountsOK(nodes', held', counts)
    BY <2>1 DEF CountsOK
  <2>3. QED
    BY <1>1, <2>2
<1>7. CacheOK(nodes, table, cache, codes, nextCode)' /\ CodesOK(codes, nextCode)' /\ nextCode' # 0
  BY <1>1 DEF CacheOK, SessionsInv
<1>8. generation' \in Nat /\ epoch' \in Nat /\ cache' \in SUBSET Entries
  BY <1>1, <1>2
<1>9. QED
  BY <1>3, <1>4, <1>5, <1>6, <1>7, <1>8 DEF SessionsInv

-----------------------------------------------------------------------------
\* A functor's code: no entry of the cache has a new one.
LEMMA CodesGiven ==
  ASSUME SessionsInv, NEW op \in Functors, mtbdd_alloc_op_code(op)
  PROVE  CodesNext /\ codes'[op] # 0
<1>1. CodesOK(codes, nextCode) /\ nextCode # 0 /\ CacheOK(nodes, table, cache, codes, nextCode)
  BY DEF SessionsInv
<1>2. CASE codes[op] # 0
  <2>1. UNCHANGED <<nextCode, codes>>
    BY <1>2 DEF mtbdd_alloc_op_code
  <2>2. QED
    BY <1>2, <2>1, CodesSame
<1>3. CASE codes[op] = 0
  <2>1. codes' = [codes EXCEPT ![op] = nextCode] /\ nextCode' = nextCode + 1
    BY <1>3 DEF mtbdd_alloc_op_code
  <2>2. nextCode \in Nat /\ codes \in [Functors -> Nat]
    BY <1>1 DEF CodesOK
  <2> DEFINE cd == codes'
             nx == nextCode'
  <2>3. /\ cd \in [Functors -> Nat] /\ cd[op] = nextCode /\ nx = nextCode + 1
        /\ \A x \in Functors : x # op => cd[x] = codes[x]
    BY <2>1, <2>2
  <2> HIDE DEF cd, nx
  <2>4. \A x \in Functors : x # op /\ codes[x] # 0 => codes[x] < nextCode
    BY <1>1 DEF CodesOK
  <2>5. CodesOK(cd, nx)
    <3>1. \A x \in Functors : cd[x] # 0 => cd[x] < nx
      <4> SUFFICES ASSUME NEW x \in Functors, cd[x] # 0 PROVE cd[x] < nx
        OBVIOUS
      <4>1. cd[x] = nextCode \/ cd[x] < nextCode
        BY <2>3, <2>4
      <4>2. cd[x] \in Nat
        BY <2>3
      <4>3. QED
        BY <2>2, <2>3, <4>1, <4>2
    <3>2. \A x, y \in Functors : cd[x] # 0 /\ cd[x] = cd[y] => x = y
      <4> SUFFICES ASSUME NEW x \in Functors, NEW y \in Functors, cd[x] # 0, cd[x] = cd[y], x # y PROVE FALSE
        OBVIOUS
      <4>1. CASE x # op /\ y # op
        BY <1>1, <2>3, <4>1 DEF CodesOK
      <4>2. CASE x = op \/ y = op
        <5>1. PICK z \in Functors : z # op /\ codes[z] = nextCode /\ codes[z] # 0
          BY <1>1, <2>3, <4>2
        <5>2. codes[z] < nextCode
          BY <2>4, <5>1
        <5>3. QED
          BY <2>2, <5>1, <5>2
      <4>3. QED
        BY <4>1, <4>2
    <3>3. QED
      BY <2>2, <2>3, <3>1, <3>2 DEF CodesOK
  <2>6. CacheOK(nodes, table, cache, cd, nx)
    <3> SUFFICES ASSUME NEW e \in cache
                 PROVE  /\ EntryOK(nodes, table, e, nx)
                        /\ \A x \in Functors : e.code = cd[x] => Results(nodes, table, e.r, x, nodes, table, e.f, e.g)
      BY DEF CacheOK
    <3>1. /\ EntryOK(nodes, table, e, nextCode)
          /\ \A x \in Functors : e.code = codes[x] => Results(nodes, table, e.r, x, nodes, table, e.f, e.g)
      BY <1>1 DEF CacheOK
    <3>2. e.code \in Nat /\ e.code < nextCode
      BY <3>1 DEF EntryOK
    <3>3. e.code < nx /\ e.code # nextCode
      BY <2>2, <2>3, <3>2
    <3>4. EntryOK(nodes, table, e, nx)
      BY <3>1, <3>3 DEF EntryOK
    <3>5. \A x \in Functors : e.code = cd[x] => e.code = codes[x]
      BY <2>3, <3>3
    <3>6. QED
      BY <3>1, <3>4, <3>5
  <2>7. nx # 0 /\ cd[op] # 0
    BY <1>1, <2>2, <2>3
  <2>8. QED
    BY <2>5, <2>6, <2>7 DEF CodesNext, cd, nx, CodesOK
<1>4. QED
  BY <1>2, <1>3

\* An attempt of apply.
ApplyGot(M, op, L, f, g, cd, nx) ==
  /\ LibraryOK(M, cd, nx)
  /\ ~M.full => Applied(M, op, L, f, g)

LEMMA ApplyOnce ==
  ASSUME SessionsInv, NEW cd, NEW nx, CodesOK(cd, nx), NEW op \in Functors, cd[op] # 0,
         NEW L, LibraryOK(L, cd, nx), NEW f, Operand(L, f), NEW g, Operand(L, g),
         NEW M, M = mtzdd_apply_rec[Height][L][f][g][op][cd[op]]
  PROVE  ApplyGot(M, op, L, f, g, cd, nx)
<1>1. L \in Libraries /\ StoreOK(L.nodes) /\ TableOK(L.table) /\ CacheOK(L.nodes, L.table, L.cache, cd, nx)
  BY DEF LibraryOK, Carried, Longer
<1>2. Good(L, cd, nx)
  BY <1>1 DEF Good
<1>3. Live(L.nodes, f) /\ Live(L.nodes, g)
  BY DEF Operand
<1>4. /\ EdgeLevel(L.nodes, f) \in 0..Height /\ f \in Edges
      /\ EdgeLevel(L.nodes, g) \in 0..Height /\ g \in Edges
  BY <1>1, <1>3, LiveLevel
<1>5. EdgeLevel(L.nodes, f) <= Height /\ EdgeLevel(L.nodes, g) <= Height /\ Height \in Nat
  BY <1>4, HeightNat
<1>6. ApplyKeeps(Height, cd, nx)
  BY <1>5, ApplyRight
<1>7. ApplyDone(L, M, f, g, op, cd, nx)
  BY <1>1, <1>2, <1>4, <1>5, <1>6 DEF ApplyKeeps
<1>8. Good(M, cd, nx) /\ Onward(L, M) /\ (~M.full => Applied(M, op, L, f, g))
  BY <1>7 DEF ApplyDone, After
<1>9. LibraryOK(M, cd, nx)
  BY <1>8, LibraryOnward DEF Good
<1>10. QED
  BY <1>8, <1>9 DEF ApplyGot

\* The operands as an OK library has them.
LEMMA ObjectOperand ==
  ASSUME SessionsInv, NEW L, NEW cd, NEW nx, LibraryOK(L, cd, nx), NEW p \in Usable("mtzdd")
  PROVE  /\ Operand(L, held[p].r) /\ held[p].means \in [SUBSET Vars -> Nat]
         /\ \A s \in SUBSET Vars : Value(L.nodes, L.table, held[p].r, s) = held[p].means[s]
<1>1. HeldOK(L.nodes, L.table, held)
  BY LibraryHeld
<1>2. ObjectOK(L.nodes, L.table, held[p]) /\ held[p].kind = "mtzdd" /\ ~held[p].old
  BY <1>1 DEF HeldOK, Usable
<1>3. QED
  BY <1>2 DEF ObjectOK, ValuesRight, Operand, Handle

LEMMA ApplyKeepsInv ==
  ASSUME SessionsInv, NEW o \in Objects, NEW p \in Objects, NEW q \in Objects, NEW op \in Functors,
         apply(o, p, q, op)
  PROVE  SessionsInv'
<1> DEFINE f == held[p].r
           g == held[q].r
           cd == codes'
           nx == nextCode'
           run(L) == mtzdd_apply_rec[Height][L][f][g][op][cd[op]]
           means == [s \in SUBSET Vars |-> BinOp(op, held[p].means[s], held[q].means[s])]
<1>1. CodesNext /\ cd[op] # 0
  BY CodesGiven DEF apply
<1>2. p \in Usable("mtzdd") /\ q \in Usable("mtzdd")
  BY DEF apply
<1>3. PICK L0 \in Entered : Return(bdd_gc_guard(L0, run), o, "mtzdd", means)
  BY DEF apply
<1> DEFINE first == run(L0)
           again == run(bddgc(first))
           M == bdd_gc_guard(L0, run)
<1>4. M = IF first.full THEN again ELSE first
  BY DEF bdd_gc_guard
<1> HIDE DEF M, means
<1>5. CodesOK(cd, nx) /\ CacheOK(nodes, table, cache, cd, nx)
  BY <1>1 DEF CodesNext, CodesOK
<1> HIDE DEF cd, nx
<1>6. LibraryOK(L0, cd, nx)
  BY <1>5, EnteredBegun DEF Begun
<1>7. ASSUME NEW L, LibraryOK(L, cd, nx)
      PROVE  ApplyGot(run(L), op, L, f, g, cd, nx)
  <2>1. Operand(L, f) /\ Operand(L, g)
    BY <1>2, <1>7, ObjectOperand
  <2> HIDE DEF f, g
  <2>2. QED
    BY <1>1, <1>5, <1>7, <2>1, ApplyOnce
<1>8. ApplyGot(first, op, L0, f, g, cd, nx)
  BY <1>6, <1>7
<1>9. LibraryOK(bddgc(first), cd, nx)
  BY <1>8, CollectedOK DEF ApplyGot
<1>10. ApplyGot(again, op, bddgc(first), f, g, cd, nx)
  BY <1>7, <1>9
<1> HIDE DEF run, first, again
<1>11. PICK L : LibraryOK(L, cd, nx) /\ ApplyGot(M, op, L, f, g, cd, nx)
  BY <1>4, <1>6, <1>8, <1>9, <1>10
<1>12. LibraryOK(M, cd, nx)
  BY <1>11 DEF ApplyGot
<1>13. ASSUME ~M.full PROVE ObjectOK(M.nodes, M.table, Made("mtzdd", M.r, means))
  <2>1. Operand(M, M.r) /\ Results(M.nodes, M.table, M.r, op, L.nodes, L.table, f, g)
    BY <1>11, <1>13 DEF ApplyGot, Applied
  <2>2. /\ held[p].means \in [SUBSET Vars -> Nat]
        /\ \A s \in SUBSET Vars : Value(L.nodes, L.table, f, s) = held[p].means[s]
    BY <1>2, <1>11, ObjectOperand
  <2>3. /\ held[q].means \in [SUBSET Vars -> Nat]
        /\ \A s \in SUBSET Vars : Value(L.nodes, L.table, g, s) = held[q].means[s]
    BY <1>2, <1>11, ObjectOperand
  <2>4. means \in [SUBSET Vars -> Nat]
    BY <2>2, <2>3, BinOpNat DEF means
  <2>5. \A s \in SUBSET Vars : means[s] = BinOp(op, held[p].means[s], held[q].means[s])
    BY DEF means
  <2> HIDE DEF f, g
  <2>6. \A s \in SUBSET Vars : Value(M.nodes, M.table, M.r, s) = means[s]
    BY <2>1, <2>2, <2>3, <2>5 DEF Results
  <2>7. Live(M.nodes, M.r) /\ ValuesRight(M.nodes, M.table, M.r, means)
    BY <2>1, <2>6 DEF Operand, ValuesRight
  <2>8. QED
    BY <2>4, <2>7, MadeOK
<1>14. Return(M, o, "mtzdd", means)
  BY <1>3 DEF M
<1>15. QED
  BY <1>1, <1>12, <1>13, <1>14, ReturnKeeps DEF cd, nx

-----------------------------------------------------------------------------
\* ZddCountMemo.
LEMMA OthersSame ==
  ASSUME SessionsInv, CountsOK(nodes, held, counts'),
         UNCHANGED <<nodes, held, table, cache, nextCode, codes, generation, epoch, bounds>>
  PROVE  SessionsInv'
<1>1. StoreOK(nodes)' /\ TableOK(table)' /\ HeldOK(nodes, table, held)' /\ CodesOK(codes, nextCode)'
  BY DEF SessionsInv, HeldOK, ObjectOK, StoreOK, TableOK, CodesOK
<1>2. CacheOK(nodes, table, cache, codes, nextCode)' /\ MemoOK(nodes, generation, bounds, epoch)'
  BY DEF SessionsInv
<1>3. CountsOK(nodes, held, counts)'
  OBVIOUS
<1>4. (generation \in Nat)' /\ (epoch \in Nat)' /\ (cache \in SUBSET Entries)' /\ nextCode' # 0
  BY DEF SessionsInv, Entries
<1>5. QED
  BY <1>1, <1>2, <1>3, <1>4 DEF SessionsInv

LEMMA CountMemoKeeps ==
  ASSUME SessionsInv, NEW p \in Objects, CountMemoFor(p)
  PROVE  SessionsInv'
<1> DEFINE f == held[p].r
           ct == [f |-> f, map |-> {}, kept |-> TRUE]
<1>1. held[p].kind = "zdd" /\ ~f.const /\ counts' = ct
  BY DEF CountMemoFor
<1>2. f \in Edges
  BY ObjectHeld DEF Handle
<1>3. CountMapOK(nodes, Reach(nodes, {f}), {})
  BY DEF CountMapOK
<1> HIDE DEF f
<1>4. ct.f = f /\ ct.map = {} /\ ct.kept = TRUE /\ ct = [f |-> ct.f, map |-> ct.map, kept |-> ct.kept]
  OBVIOUS
<1> HIDE DEF ct
<1>5. CountsKept(nodes, held, ct)
  BY <1>1, <1>2, <1>3, <1>4 DEF CountsKept, f
<1>6. CountsOK(nodes, held, ct)
  BY <1>4, <1>5 DEF CountsOK
<1>7. QED
  BY <1>1, <1>6, OthersSame DEF CountMemoFor

LEMMA ExactCountKeeps ==
  ASSUME SessionsInv, NEW p \in Objects, exact_count(p)
  PROVE  SessionsInv'
<1> DEFINE f == held[p].r
           res == bddexactcount_rec[Height][counts.map][f]
           ct == [counts EXCEPT !.map = res]
           K == Reach(nodes, {f})
<1>1. held[p].kind = "zdd" /\ counts.f = f /\ counts' = ct
  BY DEF exact_count, MemoFor
<1>2. /\ counts = [f |-> counts.f, map |-> counts.map, kept |-> counts.kept] /\ counts.kept \in BOOLEAN
      /\ counts.kept => CountsKept(nodes, held, counts)
  BY DEF SessionsInv, CountsOK
<1> HIDE DEF res
<1>3. ct = [f |-> counts.f, map |-> res, kept |-> counts.kept]
  BY <1>2
<1>4. ct.f = counts.f /\ ct.map = res /\ ct.kept = counts.kept /\ ct = [f |-> ct.f, map |-> ct.map, kept |-> ct.kept]
  BY <1>3
<1>5. ASSUME counts.kept PROVE CountMapOK(nodes, K, res)
  <2>1. CountMapOK(nodes, K, counts.map) /\ f \in Edges
    BY <1>1, <1>2, <1>5 DEF CountsKept
  <2>2. ObjectOK(nodes, table, held[p]) /\ StoreOK(nodes)
    BY ObjectHeld DEF SessionsInv
  <2>3. Live(nodes, f) /\ IsFamily(nodes, f)
    BY <1>1, <2>2 DEF ObjectOK, FamilyRight
  <2> HIDE DEF f
  <2>4. Closed(nodes, K) /\ Within(f, K)
    <3>1. {f} \subseteq Edges /\ \A c \in {f} : c.const \/ c.at \in Slots
      BY <2>3 DEF Live
    <3>2. QED
      BY <2>2, <3>1, StoreEdges, ReachClosed
  <2>5. EdgeLevel(nodes, f) \in 0..Height /\ Height \in Nat
    BY <2>2, <2>3, LiveLevel, HeightNat
  <2> HIDE DEF K
  <2>6. CountKeeps(Height, K)
    BY <2>2, <2>4, <2>5, CountRight
  <2>7. counts.map \in SUBSET (Edges \X Nat) /\ EdgeLevel(nodes, f) <= Height
    BY <2>1, <2>5 DEF CountMapOK
  <2>8. CountDone(nodes, K, counts.map, bddexactcount_rec[Height][counts.map][f], f)
    BY <2>1, <2>3, <2>4, <2>6, <2>7 DEF CountKeeps
  <2>9. QED
    BY <2>8 DEF CountDone, res
<1> HIDE DEF ct
<1>6. ASSUME ct.kept PROVE CountsKept(nodes, held, ct)
  <2>1. counts.kept /\ CountsKept(nodes, held, counts) /\ CountMapOK(nodes, K, res)
    BY <1>2, <1>4, <1>5, <1>6
  <2>2. QED
    BY <1>1, <1>4, <2>1 DEF CountsKept
<1>7. CountsOK(nodes, held, ct)
  BY <1>2, <1>4, <1>6 DEF CountsOK
<1>8. QED
  BY <1>1, <1>7, OthersSame DEF exact_count

-----------------------------------------------------------------------------
\* bddcostbound_le with a memo of this epoch, or an empty one.
MemoUsable(m) == m.since = epoch \/ m.entries = {}

\* The memo is brought up to date: what it holds then is right.
Current(L, M) ==
  /\ M \in Libraries /\ M.nodes = L.nodes /\ M.generation = L.generation /\ M.table = L.table
  /\ M.cache = L.cache /\ M.full = L.full
  /\ M.memo.generation = M.generation /\ M.memo.since <= epoch /\ MemoUsable(M.memo)
  /\ BoundsOK(M.nodes, M.memo.entries)

LEMMA MemoCurrent ==
  ASSUME epoch \in Nat, NEW L \in Libraries, MemoOK(L.nodes, L.generation, L.memo, epoch), MemoUsable(L.memo)
  PROVE  Current(L, invalidate_if_stale(L))
<1> DEFINE M == invalidate_if_stale(L)
<1>1. CASE L.memo.generation = L.generation
  <2>1. M = L
    BY <1>1 DEF invalidate_if_stale
  <2>2. L.memo.since <= epoch /\ (L.memo.entries # {} => BoundsOK(L.nodes, L.memo.entries))
    BY <1>1 DEF MemoOK, MemoUsable
  <2>3. BoundsOK(L.nodes, {})
    BY DEF BoundsOK
  <2>4. BoundsOK(L.nodes, L.memo.entries)
    BY <2>2, <2>3
  <2> HIDE DEF M
  <2>5. Current(L, M)
    BY <1>1, <2>1, <2>2, <2>4 DEF Current
  <2>6. QED
    BY <2>5 DEF M
<1>2. CASE L.memo.generation # L.generation
  <2> DEFINE m == [generation |-> L.generation, since |-> epoch, entries |-> {}]
  <2>1. M = [L EXCEPT !.memo = m]
    BY <1>2 DEF invalidate_if_stale
  <2>2. L.generation \in Nat
    BY DEF Libraries
  <2>3. m \in Memos /\ m.generation = L.generation /\ m.since = epoch /\ m.entries = {}
    BY <2>2 DEF Memos
  <2> HIDE DEF m, M
  <2>4. /\ M \in Libraries /\ M.nodes = L.nodes /\ M.generation = L.generation /\ M.table = L.table
        /\ M.cache = L.cache /\ M.full = L.full /\ M.memo = m
    BY <2>1, <2>3 DEF Libraries, Memos
  <2>5. BoundsOK(M.nodes, {})
    BY DEF BoundsOK
  <2>6. Current(L, M)
    BY <2>3, <2>4, <2>5 DEF Current, MemoUsable
  <2>7. QED
    BY <2>6 DEF M
<1>3. QED
  BY <1>1, <1>2

LEMMA MemoBounded ==
  ASSUME NEW L, NEW N, Current(L, N), NEW M, BGood(M), BOnward(N, M)
  PROVE  /\ MemoOK(M.nodes, M.generation, M.memo, epoch) /\ MemoUsable(M.memo)
         /\ Grown(L.nodes, M.nodes) /\ M.generation = L.generation /\ M.table = L.table /\ M.cache = L.cache
<1>1. /\ N.nodes = L.nodes /\ N.generation = L.generation /\ N.table = L.table /\ N.cache = L.cache
      /\ N.memo.generation = N.generation /\ N.memo.since <= epoch /\ MemoUsable(N.memo)
  BY DEF Current
<1>2. /\ Grown(N.nodes, M.nodes) /\ MemoStep(N.memo, M.memo)
      /\ M.generation = N.generation /\ M.table = N.table /\ M.cache = N.cache
  BY DEF BOnward
<1>3. M \in Libraries /\ BoundsOK(M.nodes, M.memo.entries)
  BY DEF BGood
<1>4. M.memo \in Memos /\ M.memo.generation \in Nat /\ M.memo.since \in Nat
  BY <1>3 DEF Libraries, Memos
<1>5. M.memo.since = epoch \/ M.memo = N.memo
  BY <1>2 DEF MemoStep
<1>6. M.memo.since <= epoch /\ MemoUsable(M.memo)
  BY <1>1, <1>4, <1>5 DEF MemoUsable
<1>7. M.memo.generation = M.generation
  BY <1>1, <1>2 DEF MemoStep
<1>8. M.memo.generation <= M.generation
  BY <1>4, <1>7
<1>9. MemoOK(M.nodes, M.generation, M.memo, epoch)
  BY <1>3, <1>4, <1>6, <1>8 DEF MemoOK
<1>10. QED
  BY <1>1, <1>2, <1>6, <1>9

\* An attempt.
BoundGot(M, L, f, b, cd, nx) ==
  /\ LibraryOK(M, cd, nx) /\ MemoUsable(M.memo)
  /\ ~M.full => Answered(M, L, f, b)

LEMMA BoundOnce ==
  ASSUME SessionsInv, NEW L, NEW cd, NEW nx, LibraryOK(L, cd, nx), MemoUsable(L.memo),
         NEW f, Live(L.nodes, f), IsFamily(L.nodes, f), NEW b \in Weights,
         NEW M, M = BoundAttempt(L, f, b)
  PROVE  BoundGot(M, L, f, b, cd, nx)
<1> DEFINE N == invalidate_if_stale(L)
<1>1. /\ L \in Libraries /\ StoreOK(L.nodes) /\ TableOK(L.table)
      /\ MemoOK(L.nodes, L.generation, L.memo, epoch) /\ epoch \in Nat
      /\ CacheOK(L.nodes, L.table, L.cache, cd, nx)
      /\ Carried(nodes, L.nodes, Roots) /\ Longer(table, L.table)
  BY DEF LibraryOK, Carried, Longer, SessionsInv
<1>2. M = bddcostbound_rec[Height][N][f][b]
  BY DEF BoundAttempt
<1>3. Current(L, N)
  BY <1>1, MemoCurrent
<1> HIDE DEF N
<1>4. N \in Libraries /\ N.nodes = L.nodes /\ BGood(N)
  BY <1>1, <1>3 DEF Current, BGood
<1>5. EdgeLevel(N.nodes, f) \in 0..Height /\ f \in Edges
  BY <1>1, <1>4, LiveLevel
<1>6. EdgeLevel(N.nodes, f) <= Height /\ Height \in Nat
  BY <1>5, HeightNat
<1>7. BoundKeeps(Height)
  BY <1>1, <1>6, BoundRight
<1>8. BDone(N, M, f, b)
  BY <1>2, <1>4, <1>5, <1>6, <1>7 DEF BoundKeeps
<1>9. BGood(M) /\ BOnward(N, M) /\ (~M.full => Answered(M, N, f, b))
  BY <1>8 DEF BDone
<1>10. /\ MemoOK(M.nodes, M.generation, M.memo, epoch) /\ MemoUsable(M.memo)
       /\ Grown(L.nodes, M.nodes) /\ M.generation = L.generation /\ M.table = L.table /\ M.cache = L.cache
  BY <1>3, <1>9, MemoBounded
<1>11. Carried(nodes, M.nodes, Roots)
  BY <1>1, <1>10, CarriedOnward
<1>12. CacheOK(M.nodes, M.table, M.cache, cd, nx)
  BY <1>1, <1>10, SelfLonger, CacheKept
<1>13. LibraryOK(M, cd, nx)
  BY <1>1, <1>9, <1>10, <1>11, <1>12 DEF LibraryOK, BGood
<1>14. QED
  BY <1>4, <1>9, <1>10, <1>13 DEF BoundGot, Answered

\* The sets of an answer are those of cost at most b.
LightOf(means, b) == [s \in SUBSET Vars |-> IF Cost(s) <= b THEN means[s] ELSE 0]

LEMMA AnswerMeans ==
  ASSUME NEW ms, NEW f, NEW means, FamilyRight(ms, f, means), NEW b \in Weights,
         NEW ns, NEW h, NEW aw \in Int, NEW rb \in Int, Light(ns, h, aw, rb, ms, f), Holds(b, aw, rb)
  PROVE  FamilyRight(ns, h, LightOf(means, b))
<1> DEFINE light == LightOf(means, b)
<1>1. ASSUME NEW s \in SUBSET Vars
      PROVE  Index(ns, h, s) \in {0, 1} /\ Index(ns, h, s) = light[s]
  <2>1. Index(ms, f, s) \in {0, 1} /\ Index(ms, f, s) = means[s]
    BY DEF FamilyRight, IsFamily
  <2>2. /\ Index(ns, h, s) # 0 => Index(ns, h, s) = Index(ms, f, s) /\ Cost(s) <= aw
        /\ Index(ns, h, s) = 0 /\ Index(ms, f, s) # 0 => rb <= Cost(s)
    BY DEF Light
  <2>3. Cost(s) \in Int /\ Cost(s) < WeightMax /\ b \in Int /\ WeightMax \in Int
    BY CostAdds, WeightEnds
  <2>4. Cost(s) <= aw => Cost(s) <= b
    BY <2>3 DEF Holds
  <2>5. rb <= Cost(s) => ~(Cost(s) <= b)
    BY <2>3 DEF Holds
  <2>6. light[s] = IF Cost(s) <= b THEN means[s] ELSE 0
    BY DEF LightOf
  <2> HIDE DEF light
  <2>7. QED
    BY <2>1, <2>2, <2>4, <2>5, <2>6
<1>2. QED
  BY <1>1 DEF FamilyRight, IsFamily

LEMMA LightNat ==
  ASSUME NEW means \in [SUBSET Vars -> Nat], NEW b
  PROVE  LightOf(means, b) \in [SUBSET Vars -> Nat]
BY DEF LightOf

\* The answer in the library: its diagram.
TakeH(L) == IF L.full THEN L ELSE [L EXCEPT !.r = L.r.h]

LEMMA TakeHOK ==
  ASSUME NEW L, NEW cd, NEW nx, LibraryOK(L, cd, nx), ~L.full => L.r.h \in Edges
  PROVE  /\ LibraryOK(TakeH(L), cd, nx) /\ TakeH(L).full = L.full /\ TakeH(L).nodes = L.nodes
         /\ TakeH(L).table = L.table
         /\ ~L.full => TakeH(L).r = L.r.h
<1>1. CASE L.full
  BY <1>1 DEF TakeH
<1>2. CASE ~L.full
  <2> DEFINE M == TakeH(L)
             h == L.r.h
  <2>1. M = [L EXCEPT !.r = h] /\ h \in Edges /\ L \in Libraries
    BY <1>2 DEF TakeH, LibraryOK
  <2> HIDE DEF M, h
  <2>2. /\ M \in Libraries /\ M.nodes = L.nodes /\ M.full = L.full /\ M.table = L.table /\ M.cache = L.cache
        /\ M.memo = L.memo /\ M.generation = L.generation /\ M.r = h
    BY <2>1 DEF Libraries
  <2>3. LibraryOK(M, cd, nx)
    BY <2>2 DEF LibraryOK
  <2>4. QED
    BY <2>2, <2>3 DEF M, h
<1>3. QED
  BY <1>1, <1>2

\* A constant is answered at once.
LEMMA BoundConstKeeps ==
  ASSUME SessionsInv, NEW o \in Objects, NEW p \in Objects, NEW b \in CostBounds,
         cost_bound_le(o, p, b), held[p].r.const
  PROVE  SessionsInv'
<1> DEFINE f == held[p].r
           x == IF b >= 0 THEN f.at ELSE 0
           M == [Library EXCEPT !.r = Const(x)]
           light == LightOf(held[p].means, b)
<1>1. CodesNext
  BY CodesSame DEF cost_bound_le
<1>2. held[p].kind = "zdd" /\ Return(M, o, "zdd", light)
  BY DEF cost_bound_le, LightOf
<1>3. b \in Int /\ b \in Weights
  BY SessionsAssumption, WeightEnds
<1>4. ObjectOK(nodes, table, held[p]) /\ StoreOK(nodes)
  BY ObjectHeld DEF SessionsInv
<1>5. Live(nodes, f) /\ FamilyRight(nodes, f, held[p].means) /\ held[p].means \in [SUBSET Vars -> Nat]
  BY <1>2, <1>4 DEF ObjectOK, Handle
<1> HIDE DEF f
<1>6. f.const
  BY DEF f
<1>7. \A s \in SUBSET Vars : held[p].means[s] = IF s = {} THEN f.at ELSE 0
  <2>1. \A s \in SUBSET Vars : Index(nodes, f, s) = IF s = {} THEN f.at ELSE 0
    BY <1>4, <1>5, <1>6, IndexConst
  <2>2. QED
    BY <1>5, <2>1 DEF FamilyRight
<1>8. f.at \in {0, 1}
  <2>1. Index(nodes, f, {}) = f.at
    BY <1>4, <1>5, <1>6, IndexConst
  <2>2. QED
    BY <1>5, <2>1 DEF FamilyRight, IsFamily
<1>9. x \in {0, 1}
  BY <1>8
<1>10. light = Constantly(x)
  <2>1. Cost({}) = 0
    BY CostAdds
  <2>2. ASSUME NEW s \in SUBSET Vars
        PROVE  (IF Cost(s) <= b THEN held[p].means[s] ELSE 0) = IF s = {} THEN x ELSE 0
    <3>1. CASE s = {}
      BY <1>3, <1>7, <2>1, <3>1
    <3>2. CASE s # {}
      BY <1>7, <3>2
    <3>3. QED
      BY <3>1, <3>2
  <2>3. QED
    BY <2>2 DEF Constantly, LightOf
<1>11. M.r = Const(x) /\ M.nodes = nodes /\ M.table = table
  BY DEF Library
<1>12. Live(nodes, Const(x)) /\ FamilyRight(nodes, Const(x), Constantly(x))
  BY <1>4, <1>9, ConstFamily
<1>13. LibraryOK(M, codes', nextCode')
  <2> DEFINE L == Library
  <2>1. LibraryOK(L, codes', nextCode') /\ L \in Libraries
    BY <1>1, LibraryHere DEF LibraryOK
  <2>2. Const(x) \in Edges
    BY <1>12 DEF Live
  <2>3. M = [L EXCEPT !.r = Const(x)]
    OBVIOUS
  <2> HIDE DEF L, M
  <2>4. /\ M \in Libraries /\ M.nodes = L.nodes /\ M.table = L.table /\ M.cache = L.cache
        /\ M.memo = L.memo /\ M.generation = L.generation
    BY <2>1, <2>2, <2>3 DEF Libraries
  <2>5. QED
    BY <2>1, <2>4 DEF LibraryOK
<1> HIDE DEF M, light, x
<1>14. Constantly(x) \in [SUBSET Vars -> Nat]
  BY <1>9, ConstantlyNat
<1>15. ObjectOK(M.nodes, M.table, Made("zdd", M.r, light))
  BY <1>10, <1>11, <1>12, <1>14, MadeOK
<1>16. QED
  BY <1>1, <1>2, <1>13, <1>15, ReturnKeeps

LEMMA BoundNodeKeeps ==
  ASSUME SessionsInv, Tolerated = {}, NEW o \in Objects, NEW p \in Objects, NEW b \in CostBounds,
         cost_bound_le(o, p, b), ~held[p].r.const
  PROVE  SessionsInv'
<1> DEFINE f == held[p].r
           run(L) == BoundAttempt(L, f, b)
           light == LightOf(held[p].means, b)
           cd == codes'
           nx == nextCode'
<1>1. CodesNext
  BY CodesSame DEF cost_bound_le
<1>2. held[p].kind = "zdd" /\ MemoUsable(bounds) /\ b \in Weights
  BY SessionsAssumption DEF cost_bound_le, MemoUsable
<1>3. PICK L0 \in Entered : Return(TakeH(bdd_gc_guard(L0, run)), o, "zdd", light)
  BY DEF cost_bound_le, TakeH, LightOf
<1> DEFINE first == run(L0)
           again == run(bddgc(first))
           M == bdd_gc_guard(L0, run)
<1>4. M = IF first.full THEN again ELSE first
  BY DEF bdd_gc_guard
<1>5. Return(TakeH(M), o, "zdd", light)
  BY <1>3
<1> HIDE DEF M, light
<1>6. CacheOK(nodes, table, cache, cd, nx)
  BY <1>1 DEF CodesNext
<1> HIDE DEF cd, nx
<1>7. LibraryOK(L0, cd, nx) /\ MemoUsable(L0.memo)
  <2>1. LibraryOK(L0, cd, nx)
    BY <1>6, EnteredBegun DEF Begun
  <2>2. Library.memo = bounds /\ bddgc(Library).memo = bounds
    BY DEF Library, bddgc
  <2>3. QED
    BY <1>2, <2>1, <2>2 DEF Entered
<1>8. ASSUME NEW L, LibraryOK(L, cd, nx), MemoUsable(L.memo)
      PROVE  BoundGot(run(L), L, f, b, cd, nx)
  <2>1. HeldOK(L.nodes, L.table, held)
    BY <1>8, LibraryHeld
  <2>2. Live(L.nodes, f) /\ IsFamily(L.nodes, f)
    BY <1>2, <2>1 DEF HeldOK, ObjectOK, FamilyRight
  <2> HIDE DEF f
  <2>3. QED
    BY <1>2, <1>8, <2>2, BoundOnce
<1>9. BoundGot(first, L0, f, b, cd, nx)
  BY <1>7, <1>8
<1> HIDE DEF run, first, again
<1>10. LibraryOK(bddgc(first), cd, nx) /\ MemoUsable(bddgc(first).memo)
  <2>1. LibraryOK(first, cd, nx) /\ MemoUsable(first.memo)
    BY <1>9 DEF BoundGot
  <2>2. LibraryOK(bddgc(first), cd, nx)
    BY <2>1, CollectedOK
  <2>3. first \in Libraries
    BY <2>1 DEF LibraryOK
  <2>4. bddgc(first).memo = first.memo
    BY <2>3 DEF bddgc, Libraries
  <2>5. QED
    BY <2>1, <2>2, <2>4
<1>11. BoundGot(again, bddgc(first), f, b, cd, nx)
  BY <1>8, <1>10 DEF run, again
<1>12. PICK L : LibraryOK(L, cd, nx) /\ BoundGot(M, L, f, b, cd, nx)
  BY <1>4, <1>7, <1>9, <1>10, <1>11
<1>13. LibraryOK(M, cd, nx) /\ (~M.full => Answered(M, L, f, b))
  BY <1>12 DEF BoundGot
<1>14. ASSUME ~M.full PROVE M.r.h \in Edges /\ Light(M.nodes, M.r.h, M.r.aw, M.r.rb, L.nodes, f)
                            /\ Holds(b, M.r.aw, M.r.rb) /\ M.r.aw \in Int /\ M.r.rb \in Int
  BY <1>13, <1>14 DEF Answered, BoundAnswers
<1> DEFINE T == TakeH(M)
<1>15. /\ LibraryOK(T, cd, nx) /\ T.full = M.full /\ T.nodes = M.nodes /\ T.table = M.table
       /\ ~M.full => T.r = M.r.h
  BY <1>13, <1>14, TakeHOK
<1> HIDE DEF T
<1>16. ASSUME ~T.full PROVE ObjectOK(T.nodes, T.table, Made("zdd", T.r, light))
  <2>1. HeldOK(L.nodes, L.table, held)
    BY <1>12, LibraryHeld
  <2>2. FamilyRight(L.nodes, f, held[p].means) /\ held[p].means \in [SUBSET Vars -> Nat]
    BY <1>2, <2>1 DEF HeldOK, ObjectOK, Handle
  <2> DEFINE means == held[p].means
             h == M.r.h
             aw == M.r.aw
             rb == M.r.rb
  <2>3. light = LightOf(means, b)
    BY DEF light
  <2>4. /\ FamilyRight(L.nodes, f, means) /\ Light(M.nodes, h, aw, rb, L.nodes, f) /\ Holds(b, aw, rb)
        /\ aw \in Int /\ rb \in Int /\ means \in [SUBSET Vars -> Nat]
        /\ T.r = h /\ T.nodes = M.nodes
    BY <1>14, <1>15, <1>16, <2>2
  <2> HIDE DEF means, h, aw, rb, f
  <2>5. FamilyRight(M.nodes, h, light)
    <3>1. b \in Weights
      BY <1>2
    <3>2. FamilyRight(M.nodes, h, LightOf(means, b))
      BY <2>4, <3>1, AnswerMeans
    <3>3. QED
      BY <2>3, <3>2
  <2>6. light \in [SUBSET Vars -> Nat]
    BY <2>3, <2>4, LightNat
  <2>7. Live(M.nodes, h)
    BY <2>4 DEF Light
  <2>8. QED
    BY <2>4, <2>5, <2>6, <2>7, MadeOK
<1>17. QED
  BY <1>1, <1>5, <1>15, <1>16, ReturnKeeps DEF T, cd, nx

-----------------------------------------------------------------------------
\* MTZDD::threshold_gt, when no conversion is retried.
Exceeding(x) == {i \in 0..(Len(table) - 1) : table[i + 1] > x}
AboveOf(means, x) == [s \in SUBSET Vars |-> IF means[s] > x THEN 1 ELSE 0]

LEMMA AboveMeans ==
  ASSUME TableOK(table), NEW x \in Nat, NEW ms, StoreOK(ms), NEW f, Live(ms, f),
         NEW means, ValuesRight(ms, table, f, means),
         NEW ns, NEW r, Chosen(ns, r, Exceeding(x), ms, f)
  PROVE  FamilyRight(ns, r, AboveOf(means, x))
<1>1. ASSUME NEW s \in SUBSET Vars
      PROVE  Index(ns, r, s) \in {0, 1} /\ Index(ns, r, s) = AboveOf(means, x)[s]
  <2> DEFINE i == Index(ms, f, s)
  <2>1. Index(ns, r, s) = IF i \in Exceeding(x) THEN 1 ELSE 0
    BY DEF Chosen
  <2>2. i \in 0..(Len(table) - 1) /\ means[s] = table[i + 1]
    <3>1. Valued(ms, table, f) /\ Value(ms, table, f, s) = means[s]
      BY DEF ValuesRight
    <3>2. Index(ms, f, s) \in 0..(Len(table) - 1) /\ Value(ms, table, f, s) = table[Index(ms, f, s) + 1]
      BY <3>1, ValueNat
    <3>3. QED
      BY <3>1, <3>2
  <2> HIDE DEF i
  <2>3. i \in Exceeding(x) <=> means[s] > x
    BY <2>2 DEF Exceeding
  <2>4. QED
    BY <2>1, <2>3 DEF AboveOf
<1>2. QED
  BY <1>1 DEF FamilyRight, IsFamily

LEMMA NoneAbove ==
  ASSUME StoreOK(nodes), TableOK(table), NEW x \in Nat, Exceeding(x) = {}, NEW f, Live(nodes, f),
         NEW means, ValuesRight(nodes, table, f, means)
  PROVE  FamilyRight(nodes, Const(0), AboveOf(means, x))
<1> DEFINE r == Const(0)
<1>1. Live(nodes, r) /\ FamilyRight(nodes, r, Constantly(0))
  BY ConstFamily
<1>2. EdgeLevel(nodes, r) = 0 /\ EdgeLevel(nodes, f) \in 0..Height
  BY LiveLevel DEF EdgeLevel, Const
<1>3. EdgeLevel(nodes, r) <= EdgeLevel(nodes, f)
  BY <1>2, HeightNat
<1>4. \A s \in SUBSET Vars : Index(nodes, r, s) = IF Index(nodes, f, s) \in Exceeding(x) THEN 1 ELSE 0
  BY <1>1 DEF FamilyRight, Constantly
<1> HIDE DEF r
<1>5. Chosen(nodes, r, Exceeding(x), nodes, f)
  BY <1>1, <1>3, <1>4 DEF Chosen
<1>6. FamilyRight(nodes, r, AboveOf(means, x))
  BY <1>5, AboveMeans
<1>7. QED
  BY <1>6 DEF r

LEMMA AboveNat ==
  ASSUME NEW means, NEW x
  PROVE  AboveOf(means, x) \in [SUBSET Vars -> Nat]
BY DEF AboveOf

LEMMA ThresholdOnce ==
  ASSUME SessionsInv, NEW L, NEW cd, NEW nx, LibraryOK(L, cd, nx), L.converted = {},
         NEW f, Live(L.nodes, f), NEW pred \in SUBSET Nat, 0 \notin pred,
         NEW M, M = mtzdd_to_zdd_rec[Height][L][f][pred], ~M.full
  PROVE  LibraryOK(M, cd, nx) /\ Chosen(M.nodes, M.r, pred, L.nodes, f)
<1>1. L \in Libraries /\ StoreOK(L.nodes) /\ TableOK(L.table)
  BY DEF LibraryOK, Carried, Longer
<1>2. ZGood(L, pred)
  BY <1>1 DEF ZGood, ConvertedOK
<1>3. EdgeLevel(L.nodes, f) \in 0..Height /\ f \in Edges
  BY <1>1, LiveLevel
<1>4. EdgeLevel(L.nodes, f) <= Height /\ Height \in Nat
  BY <1>3, HeightNat
<1>5. ToZddKeeps(Height, pred)
  BY <1>4, ToZddRight
<1>6. ZDone(L, M, f, pred)
  BY <1>1, <1>2, <1>3, <1>4, <1>5 DEF ToZddKeeps
<1>7. ZGood(M, pred) /\ ZOnward(L, M) /\ Chosen(M.nodes, M.r, pred, L.nodes, f)
  BY <1>6 DEF ZDone
<1>8. M \in Libraries /\ Onward(L, M) /\ M.cache = L.cache
  BY <1>1, <1>7, SelfLonger DEF ZGood, ZOnward, Onward
<1>9. QED
  BY <1>7, <1>8, LibraryGrown

LEMMA ThresholdKeeps ==
  ASSUME SessionsInv, Tolerated = {}, NEW o \in Objects, NEW p \in Objects, NEW x \in Thresholds,
         threshold_gt(o, p, x)
  PROVE  SessionsInv'
<1> DEFINE f == held[p].r
           pred == Exceeding(x)
           run(L) == IF pred = {} THEN [L EXCEPT !.r = Const(0)]
                     ELSE mtzdd_to_zdd_rec[Height][L][f][pred]
           above == AboveOf(held[p].means, x)
           cd == codes'
           nx == nextCode'
<1>1. CodesNext
  BY CodesSame DEF threshold_gt
<1>2. p \in Usable("mtzdd") /\ x \in Nat
  BY SessionsAssumption DEF threshold_gt
<1>3. PICK L \in IF pred = {} THEN {Library} ELSE Entered :
        ~run(L).full /\ Return(bdd_gc_guard(L, run), o, "zdd", above)
  BY DEF threshold_gt, Exceeding, AboveOf
<1> DEFINE M == run(L)
<1>4. ~M.full /\ Return(M, o, "zdd", above)
  BY <1>3 DEF bdd_gc_guard
<1> HIDE DEF above, cd, nx, pred
<1>5. CacheOK(nodes, table, cache, cd, nx)
  BY <1>1 DEF CodesNext, cd, nx
<1>6. L \in Entered
  BY <1>3 DEF Entered
<1>7. LibraryOK(L, cd, nx) /\ L.converted = {} /\ L.table = table
  BY <1>5, <1>6, EnteredBegun DEF Begun
<1>8. ObjectOK(L.nodes, L.table, held[p]) /\ held[p].kind = "mtzdd" /\ ~held[p].old
  BY <1>2, <1>7, LibraryHeld DEF HeldOK, Usable
<1>9. Live(L.nodes, f) /\ ValuesRight(L.nodes, table, f, held[p].means)
  BY <1>7, <1>8 DEF ObjectOK
<1>10. StoreOK(nodes) /\ TableOK(table)
  BY DEF SessionsInv
<1> HIDE DEF f
<1>11. LibraryOK(M, cd, nx) /\ Live(M.nodes, M.r) /\ FamilyRight(M.nodes, M.r, above)
  <2>1. CASE pred = {}
    <3>1. L = Library /\ M = [L EXCEPT !.r = Const(0)]
      BY <1>3, <2>1
    <3>2. L.nodes = nodes /\ L \in Libraries
      BY <1>7, <3>1 DEF Library, LibraryOK
    <3>3. Live(nodes, Const(0)) /\ FamilyRight(nodes, Const(0), above)
      <4>1. Live(nodes, Const(0))
        BY <1>10, ConstFamily
      <4>2. FamilyRight(nodes, Const(0), AboveOf(held[p].means, x))
        BY <1>2, <1>9, <1>10, <2>1, <3>2, NoneAbove DEF pred
      <4>3. QED
        BY <4>1, <4>2 DEF above
    <3>4. Const(0) \in Edges
      BY <3>3 DEF Live
    <3> HIDE DEF M
    <3>5. /\ M \in Libraries /\ M.nodes = L.nodes /\ M.table = L.table /\ M.cache = L.cache
          /\ M.memo = L.memo /\ M.generation = L.generation /\ M.r = Const(0)
      BY <3>1, <3>2, <3>4 DEF Libraries
    <3>6. QED
      BY <1>7, <3>2, <3>3, <3>5 DEF LibraryOK
  <2>2. CASE pred # {}
    <3>1. M = mtzdd_to_zdd_rec[Height][L][f][pred]
      BY <2>2
    <3>2. pred \in SUBSET Nat /\ 0 \notin pred
      BY <1>2, <1>10 DEF pred, Exceeding, TableOK
    <3> HIDE DEF M
    <3>3. ~M.full
      BY <1>4
    <3>4. LibraryOK(M, cd, nx) /\ Chosen(M.nodes, M.r, pred, L.nodes, f)
      BY <1>7, <1>9, <3>1, <3>2, <3>3, ThresholdOnce
    <3>5. Live(M.nodes, M.r) /\ Chosen(M.nodes, M.r, Exceeding(x), L.nodes, f)
      BY <3>4 DEF pred, Chosen
    <3>6. StoreOK(L.nodes)
      BY <1>7 DEF LibraryOK, Carried
    <3>7. FamilyRight(M.nodes, M.r, AboveOf(held[p].means, x))
      BY <1>2, <1>9, <1>10, <3>5, <3>6, AboveMeans
    <3>8. QED
      BY <3>4, <3>5, <3>7 DEF above
  <2>3. QED
    BY <2>1, <2>2
<1> HIDE DEF M
<1>12. above \in [SUBSET Vars -> Nat]
  BY AboveNat DEF above
<1>13. ObjectOK(M.nodes, M.table, Made("zdd", M.r, above))
  BY <1>11, <1>12, MadeOK
<1>14. QED
  BY <1>1, <1>4, <1>11, <1>13, ReturnKeeps DEF cd, nx

-----------------------------------------------------------------------------
LEMMA InvStart ==
  ASSUME Init
  PROVE  SessionsInv
<1>1. StoreOK(nodes) /\ TableOK(table)
  BY EmptyStore DEF Init
<1>2. HeldOK(nodes, table, held)
  <2>1. ObjectOK(nodes, table, Null) /\ Null \in Handle
    BY <1>1, NullOK DEF ObjectOK
  <2> HIDE DEF Null
  <2>2. QED
    BY <2>1 DEF Init, HeldOK
<1>3. CodesOK(codes, nextCode) /\ nextCode # 0
  BY DEF Init, CodesOK, BDD_OP_DYNAMIC_MIN
<1>4. CacheOK(nodes, table, cache, codes, nextCode) /\ cache \in SUBSET Entries
  BY DEF Init, CacheOK
<1>5. MemoOK(nodes, generation, bounds, epoch) /\ generation \in Nat /\ epoch \in Nat
  BY DEF Init, MemoOK, Memos
<1>6. CountsOK(nodes, held, counts)
  BY DEF Init, CountsOK
<1>7. QED
  BY <1>1, <1>2, <1>3, <1>4, <1>5, <1>6 DEF SessionsInv

LEMMA InvStutters ==
  ASSUME SessionsInv, UNCHANGED vars
  PROVE  SessionsInv'
<1>1. CountsOK(nodes, held, counts')
  BY DEF vars, SessionsInv
<1>2. UNCHANGED <<nodes, held, table, cache, nextCode, codes, generation, epoch, bounds>>
  BY DEF vars
<1>3. QED
  BY <1>1, <1>2, OthersSame

LEMMA InvStep ==
  ASSUME SessionsInv, Tolerated = {}, Next
  PROVE  SessionsInv'
<1>1. CASE Collect
  BY <1>1, CollectKeeps
<1>2. CASE bddfinal
  BY <1>2, FinalKeeps
<1>3. ASSUME NEW o \in Objects, Making(o)
      PROVE  SessionsInv'
  <2>1. CASE Drop(o)
    BY <2>1, DropKeeps
  <2>2. CASE SetSingle(o)
    BY <2>2, SetSingleKeeps
  <2>3. ASSUME NEW x \in TerminalValues, terminal(o, x) PROVE SessionsInv'
    BY <2>3, TerminalKeeps
  <2>4. ASSUME NEW v \in Vars, NEW p \in Usable(Kind), NEW q \in Usable(Kind), ite(o, v, p, q) PROVE SessionsInv'
    <3>1. p \in Objects /\ q \in Objects
      BY DEF Usable
    <3>2. QED
      BY <2>4, <3>1, IteKeeps
  <2>5. QED
    BY <1>3, <2>1, <2>2, <2>3, <2>4 DEF Making
<1>4. CASE Bounding
  <2>1. PICK o \in Objects, p \in Objects, b \in CostBounds : cost_bound_le(o, p, b)
    BY <1>4 DEF Bounding
  <2>2. CASE held[p].r.const
    BY <2>1, <2>2, BoundConstKeeps
  <2>3. CASE ~held[p].r.const
    BY <2>1, <2>3, BoundNodeKeeps
  <2>4. QED
    BY <2>2, <2>3
<1>5. CASE Counting
  <2>1. PICK p \in Objects : CountMemoFor(p) \/ exact_count(p)
    BY <1>5 DEF Counting
  <2>2. QED
    BY <2>1, CountMemoKeeps, ExactCountKeeps
<1>6. CASE Valuing
  <2>1. ASSUME NEW o \in Objects, NEW p \in Objects, NEW q \in Objects, NEW op \in Functors, apply(o, p, q, op)
        PROVE  SessionsInv'
    BY <2>1, ApplyKeepsInv
  <2>2. ASSUME NEW o \in Objects, NEW p \in Objects, NEW x \in Thresholds, threshold_gt(o, p, x)
        PROVE  SessionsInv'
    BY <2>2, ThresholdKeeps
  <2>3. QED
    BY <1>6, <2>1, <2>2 DEF Valuing
<1>7. QED
  BY <1>1, <1>2, <1>3, <1>4, <1>5, <1>6 DEF Next

LEMMA StandsZdd ==
  ASSUME NEW ns, NEW tb, NEW r, NEW means \in [SUBSET Vars -> Nat], FamilyRight(ns, r, means)
  PROVE  Stands(ns, tb, "zdd", r) = means
<1>1. \A s \in SUBSET Vars : Index(ns, r, s) = means[s]
  BY DEF FamilyRight
<1>2. Stands(ns, tb, "zdd", r) = [s \in SUBSET Vars |-> Index(ns, r, s)]
  BY DEF Stands
<1>3. QED
  BY <1>1, <1>2

LEMMA StandsMtzdd ==
  ASSUME NEW ns, NEW tb, NEW r
  PROVE  Stands(ns, tb, "mtzdd", r) = [s \in SUBSET Vars |-> Value(ns, tb, r, s)]
BY DEF Stands, Value

\* What the invariant says of every state.
LEMMA InvFamilies ==
  ASSUME SessionsInv
  PROVE  FamiliesKept
<1> SUFFICES ASSUME NEW o \in Objects, held[o].kind = "zdd"
             PROVE  Stands(nodes, table, "zdd", held[o].r) = held[o].means
  BY DEF FamiliesKept
<1>1. FamilyRight(nodes, held[o].r, held[o].means) /\ held[o].means \in [SUBSET Vars -> Nat]
  BY ObjectHeld DEF ObjectOK, Handle
<1>2. QED
  BY <1>1, StandsZdd

LEMMA InvValues ==
  ASSUME SessionsInv
  PROVE  ValuesKept
<1> SUFFICES ASSUME NEW o \in Objects, held[o].kind = "mtzdd", ~held[o].old
             PROVE  Stands(nodes, table, "mtzdd", held[o].r) = held[o].means
  BY DEF ValuesKept
<1>1. ValuesRight(nodes, table, held[o].r, held[o].means) /\ held[o].means \in [SUBSET Vars -> Nat]
  BY ObjectHeld DEF ObjectOK, Handle
<1>2. \A s \in SUBSET Vars : Value(nodes, table, held[o].r, s) = held[o].means[s]
  BY <1>1 DEF ValuesRight
<1>3. QED
  BY <1>1, <1>2, StandsMtzdd

LEMMA InvCodes ==
  ASSUME SessionsInv
  PROVE  CodesApart
<1> SUFFICES ASSUME NEW op \in Functors, NEW e \in cache, e.code = codes[op], NEW s \in SUBSET Vars
             PROVE  Stands(nodes, table, "mtzdd", e.r)[s] =
                      BinOp(op, Stands(nodes, table, "mtzdd", e.f)[s], Stands(nodes, table, "mtzdd", e.g)[s])
  BY DEF CodesApart
<1>1. Results(nodes, table, e.r, op, nodes, table, e.f, e.g)
  BY DEF SessionsInv, CacheOK
<1>2. Value(nodes, table, e.r, s) = BinOp(op, Value(nodes, table, e.f, s), Value(nodes, table, e.g, s))
  BY <1>1 DEF Results
<1>3. QED
  BY <1>2, StandsMtzdd

LEMMA InvCounts ==
  ASSUME SessionsInv
  PROVE  CountsCurrent
<1> SUFFICES ASSUME counts.kept, NEW e \in counts.map
             PROVE  e[2] = Cardinality({s \in SUBSET Vars : Stands(nodes, table, "zdd", e[1])[s] # 0})
  BY DEF CountsCurrent
<1>1. e[2] = SizeOf(nodes, e[1])
  BY DEF SessionsInv, CountsOK, CountsKept, CountMapOK, CountEntryOK
<1>2. {s \in SUBSET Vars : Stands(nodes, table, "zdd", e[1])[s] # 0} = SetsOf(nodes, e[1])
  BY DEF Stands, SetsOf
<1>3. QED
  BY <1>1, <1>2 DEF SizeOf

\* A program that follows none of the patterns of Tolerated keeps the
\* invariant: every object stands in the node and terminal tables for what it
\* was made as, and the cache and the memos are right where they may be used.
THEOREM SessionsCorrect ==
  ASSUME Tolerated = {}
  PROVE  Spec => []SessionsInv
<1>1. Init => SessionsInv
  BY InvStart
<1>2. SessionsInv /\ [Next]_vars => SessionsInv'
  BY InvStep, InvStutters
<1>3. QED
  BY <1>1, <1>2, PTL DEF Spec

\* For such a program every ZDD has the family its operation promises, through
\* collections, retries and bddfinal (mtbdd.cpp, zdd_adv_weight.cpp).
THEOREM FamiliesAlwaysKept ==
  ASSUME Tolerated = {}
  PROVE  Spec => []FamiliesKept
<1>1. Spec => []SessionsInv
  BY SessionsCorrect
<1>2. SessionsInv => FamiliesKept
  BY InvFamilies
<1>3. QED
  BY <1>1, <1>2, PTL

\* Every MTZDD has the values it was made with, but for the terminal of index 1
\* that bddfinal lets outlive its table (mtbdd_core.h, bdd_base.cpp).
THEOREM ValuesAlwaysKept ==
  ASSUME Tolerated = {}
  PROVE  Spec => []ValuesKept
<1>1. Spec => []SessionsInv
  BY SessionsCorrect
<1>2. SessionsInv => ValuesKept
  BY InvValues
<1>3. QED
  BY <1>1, <1>2, PTL

\* An entry of the cache under a functor's code is that functor's result: codes
\* are never given out twice (mtbdd_alloc_op_code), not over bddfinal either.
THEOREM CodesAlwaysApart ==
  ASSUME Tolerated = {}
  PROVE  Spec => []CodesApart
<1>1. Spec => []SessionsInv
  BY SessionsCorrect
<1>2. SessionsInv => CodesApart
  BY InvCodes
<1>3. QED
  BY <1>1, <1>2, PTL

\* A ZddCountMemo counts the nodes of its diagram as they are, as long as the
\* diagram is held (zdd_class.h, bdd_class.cpp).
THEOREM CountsAlwaysCurrent ==
  ASSUME Tolerated = {}
  PROVE  Spec => []CountsCurrent
<1>1. Spec => []SessionsInv
  BY SessionsCorrect
<1>2. SessionsInv => CountsCurrent
  BY InvCounts
<1>3. QED
  BY <1>1, <1>2, PTL
=============================================================================

------------------------- MODULE AddressSpaceProofs -------------------------
(***************************************************************************)
(* TLAPS proofs about address spaces, for any number of pages, page        *)
(* tables, directory entries, tasks and programs.                          *)
(***************************************************************************)
EXTENDS AddressSpace, FiniteSetTheorems, NaturalsInduction, WellFoundedInduction, TLAPS

Idxs  == 0 .. PerTable - 1
KDirs == {Dir(p) : p \in Phys}       \* entries of the directory for kernel memory
All(B) == {KERNEL} \cup B

(* The entry a walk through the directory of c ends at.                    *)
Entry(x, c, d, i) == IF x.pd[c][d] = NIL THEN Absent ELSE x.pt[x.pd[c][d]][i]
UserEntry(p) == [page |-> p, user |-> TRUE]
Reach(x, c, p) == \E d \in Dirs, i \in Idxs : Entry(x, c, d, i) = UserEntry(p)

(* In the contexts B kernel memory is not for user code, and what a task   *)
(* maps there the kernel maps too; elsewhere the kernel maps nothing and   *)
(* everything is for user code.                                            *)
Halves(x, B) ==
    /\ \A c \in All(B) : x.pd[c][0] = x.pd[KERNEL][0] /\ x.pd[c][0] # NIL
    /\ \A c \in All(B), d \in KDirs : x.pd[c][d] # NIL => x.pd[KERNEL][d] # NIL
    /\ \A c \in All(B), d \in KDirs, i \in Idxs :
          /\ ~Entry(x, c, d, i).user
          /\ Entry(x, c, d, i).page # NIL => Entry(x, KERNEL, d, i).page # NIL
    /\ \A d \in Dirs \ KDirs : x.pd[KERNEL][d] = NIL
    /\ \A c \in B, d \in Dirs \ KDirs, i \in Idxs :
          Entry(x, c, d, i).user <=> Entry(x, c, d, i).page # NIL

(* Which page tables are in use, and that they are shared only where they  *)
(* belong to the kernel.                                                   *)
IsLive(x, B, t) == \/ \E c \in All(B) : t \in x.own[c]
                   \/ \E c \in All(B), d \in Dirs : x.pd[c][d] = t
OneTable(x) == \A d \in Dirs \ {0} : x.pd[KERNEL][d] = NIL
TablesKept(x, B) ==
    /\ \A c \in All(B) : x.own[c] \subseteq x.tables
    /\ \A c, k \in All(B) : c # k => x.own[c] \cap x.own[k] = {}
    /\ \A c \in All(B), d \in Dirs : x.pd[c][d] # NIL =>
          x.pd[c][d] \in x.tables /\ \A k \in All(B) : x.pd[c][d] \notin x.own[k]
TablesApart(x, B) ==
    \A c, k \in All(B), d, e \in Dirs :
        x.pd[c][d] # NIL /\ x.pd[c][d] = x.pd[k][e] => d = e /\ (d \in KDirs \/ c = k)
TablesLive(x, B) == OneTable(x) => \A t \in x.tables : IsLive(x, B, t)
TablesOK(x, B) == TablesKept(x, B) /\ TablesApart(x, B) /\ TablesLive(x, B)

(* P holds the pages the kernel has for itself.                            *)
PagesOK(x, B, P) ==
    /\ NULL \in x.used /\ NULL \notin x.shared /\ NULL \notin P
    /\ P \subseteq x.used \cup x.shared
    /\ \A c \in B, p \in Phys : Reach(x, c, p) =>
          /\ p \in x.used \cup x.shared /\ p # NULL
          /\ p \in P => p \in x.shared
          /\ \A k \in B : k # c /\ Reach(x, k, p) => p \in x.shared
    /\ \A p \in x.used : p = NULL \/ p \in P \/ \E c \in B : Reach(x, c, p)

Good(x, B, P) == Halves(x, B) /\ TablesOK(x, B) /\ PagesOK(x, B, P)

StacksOK == \A s \in active :
    /\ stack[s] \in kernel => stack[s] \in m.shared
    /\ \A t \in active : s # t /\ stack[s] = stack[t] => stack[s] \in m.shared

IInv == /\ TypeOK /\ \A s \in active : stack[s] \in Phys
        /\ ~m.exhausted => ~m.badfree
        /\ ~m.halted /\ ~m.exhausted => Good(m, active, kernel \cup Stacks) /\ StacksOK
-----------------------------------------------------------------------------
(* Addresses: a directory entry and a table entry name one address.        *)

LEMMA Constants == /\ NPhys \in Nat \ {0} /\ NTables \in Nat /\ NTables > 2 /\ PerTable \in Nat \ {0} /\ NDirs \in Nat
                   /\ NPhys <= NDirs * PerTable /\ Offset \in Nat /\ NTasks \in Nat /\ MaxSpawns \in Nat
                   /\ NULL \in Phys /\ NIL \notin Phys /\ NIL \notin Tables /\ KERNEL \notin Slots /\ KERNEL \in Contexts
                   /\ Phys \subseteq Nat /\ Tables \subseteq Nat /\ Slots \subseteq Contexts
  BY SpaceAssumption DEF NULL, NIL, Phys, Tables, Slots, Contexts, KERNEL

LEMMA Division == ASSUME NEW n \in Nat \ {0}, NEW k \in Int, NEW q \in Int, NEW r \in Int,
                         q = k \div n, r = k % n
                  PROVE  k = q * n + r /\ r \in 0 .. n - 1
  BY Z3T(20)

LEMMA DivisionUnique ==
    ASSUME NEW n \in Nat \ {0}, NEW q \in Int, NEW r \in 0 .. n - 1, NEW a \in Int, NEW b \in 0 .. n - 1,
           q * n + r = a * n + b
    PROVE  q = a /\ r = b
  <1>1. (q - a) * n = b - r
    OBVIOUS
  <1>2. q - a <= -1 => (q - a) * n <= -n
    BY Z3
  <1>3. q - a >= 1 => (q - a) * n >= n
    BY Z3
  <1>4. q = a
    BY <1>1, <1>2, <1>3
  <1>5. QED BY <1>1, <1>4

LEMMA DirIdx == ASSUME NEW v \in 0 .. NDirs * PerTable - 1
                PROVE  Dir(v) \in Dirs /\ Idx(v) \in Idxs
  <1>1. PICK n, k : n = PerTable /\ k = NDirs
    OBVIOUS
  <1>2. n \in Nat \ {0} /\ k \in Nat /\ v \in Nat /\ v < k * n
    <2>1. n \in Nat \ {0} /\ k \in Nat /\ k * n \in Nat
      BY <1>1, Constants
    <2>2. QED BY <1>1, <2>1
  <1>3. PICK q, r : q = v \div n /\ r = v % n
    OBVIOUS
  <1>4. q \in Int /\ r \in Int
    BY <1>2, <1>3
  <1>5. v = q * n + r /\ r \in 0 .. n - 1
    BY ONLY <1>2, <1>3, <1>4, Division
  <1>6. q <= -1 => q * n <= -n
    BY ONLY <1>2, <1>4, Z3
  <1>7. q >= k => q * n >= k * n
    BY ONLY <1>2, <1>4, Z3
  <1>8. q \in 0 .. k - 1
    <2>1. PICK a, b : a = q * n /\ b = k * n
      OBVIOUS
    <2>2. a \in Int /\ b \in Int
      BY ONLY <1>2, <1>4, <2>1
    <2>3. QED BY ONLY <1>2, <1>4, <1>5, <1>6, <1>7, <2>1, <2>2
  <1>9. QED BY <1>1, <1>3, <1>5, <1>8 DEF Dir, Idx, Dirs, Idxs

LEMMA Address == ASSUME NEW d \in Dirs, NEW i \in Idxs
                 PROVE  \E v \in 0 .. NDirs * PerTable - 1 : Dir(v) = d /\ Idx(v) = i
  <1>1. PICK n, k, v : n = PerTable /\ k = NDirs /\ v = d * n + i
    OBVIOUS
  <1>2. n \in Nat \ {0} /\ k \in Nat /\ d \in 0 .. k - 1 /\ i \in 0 .. n - 1
    BY <1>1, Constants DEF Dirs, Idxs
  <1>3. v \in 0 .. k * n - 1
    <2>1. d * n <= (k - 1) * n /\ d * n \in Nat /\ (k - 1) * n = k * n - n /\ k * n \in Nat
      BY ONLY <1>2, Z3
    <2>2. PICK a, b : a = d * n /\ b = k * n
      OBVIOUS
    <2>3. QED BY ONLY <1>1, <1>2, <2>1, <2>2
  <1>4. PICK q, r : q = v \div n /\ r = v % n
    OBVIOUS
  <1>5. v \in Int /\ q \in Int /\ r \in Int
    BY <1>2, <1>3, <1>4
  <1>6. v = q * n + r /\ r \in 0 .. n - 1
    BY ONLY <1>2, <1>4, <1>5, Division
  <1>7. q = d /\ r = i
    <2>1. d \in Int /\ d * n + i = q * n + r
      BY ONLY <1>1, <1>2, <1>6
    <2>2. QED BY ONLY <1>2, <1>5, <1>6, <2>1, DivisionUnique
  <1>8. QED BY <1>1, <1>3, <1>4, <1>7 DEF Dir, Idx

LEMMA AddressUnique == ASSUME NEW v \in Nat, NEW w \in Nat, Dir(v) = Dir(w), Idx(v) = Idx(w)
                       PROVE  v = w
  <1>1. PICK n, q, r : n = PerTable /\ q = v \div n /\ r = v % n
    OBVIOUS
  <1>2. n \in Nat \ {0} /\ q \in Int /\ r \in Int /\ q = w \div n /\ r = w % n
    BY <1>1, Constants DEF Dir, Idx
  <1>3. v = q * n + r
    BY ONLY <1>1, <1>2, Division, v \in Nat
  <1>4. w = q * n + r
    BY ONLY <1>2, Division, w \in Nat
  <1>5. QED BY ONLY <1>3, <1>4

(* Kernel memory and user space have no directory entry in common.         *)
LEMMA KernelDirs == /\ KDirs \subseteq Dirs /\ 0 \in KDirs
                    /\ \A p \in Phys : Dir(p) \in KDirs /\ Dir(p) \in Dirs /\ Idx(p) \in Idxs
                    /\ \A v : IsUser(v) => Dir(v) \in Dirs \ KDirs /\ Idx(v) \in Idxs /\ v \in Nat
  <1>1. \A p \in Phys : p \in 0 .. NDirs * PerTable - 1
    <2>1. PICK a : a = NDirs * PerTable
      OBVIOUS
    <2>2. a \in Nat /\ NPhys <= a /\ NPhys \in Nat
      BY <2>1, Constants
    <2>3. \A p \in 0 .. NPhys - 1 : p \in 0 .. a - 1
      BY ONLY <2>2
    <2>4. QED BY <2>1, <2>3 DEF Phys
  <1>2. \A p \in Phys : Dir(p) \in Dirs /\ Idx(p) \in Idxs
    BY <1>1, DirIdx
  <1>3. Dir(0) = 0 /\ 0 \in Phys
    <2>1. PICK n, q, r : n = PerTable /\ q = 0 \div n /\ r = 0 % n
      OBVIOUS
    <2>2. n \in Nat \ {0} /\ q \in Int /\ r \in Int /\ 0 \in 0 .. n - 1
      BY <2>1, Constants
    <2>3. 0 = q * n + r /\ r \in 0 .. n - 1
      BY ONLY <2>1, <2>2, Division
    <2>4. 0 * n + 0 = q * n + r
      BY ONLY <2>2, <2>3
    <2>5. q = 0
      BY ONLY <2>2, <2>3, <2>4, DivisionUnique
    <2>6. QED BY <2>1, <2>5, Constants DEF Dir, NULL
  <1>4. \A v : IsUser(v) => Dir(v) \in Dirs \ KDirs /\ Idx(v) \in Idxs /\ v \in Nat
    BY DirIdx DEF IsUser, KDirs
  <1>5. QED BY <1>2, <1>3, <1>4 DEF KDirs
-----------------------------------------------------------------------------
(* The functions on memory, one by one: types, and what they leave alone.  *)

EntryType == [page : Phys \cup {NIL}, user : BOOLEAN]
TableType == [Idxs -> EntryType]
DirType   == [Dirs -> Tables \cup {NIL}]

LEMMA MemoryIs ==
    Memory = [used : SUBSET Phys, tables : SUBSET Tables, own : [Contexts -> SUBSET Tables],
              pd : [Contexts -> DirType], pt : [Tables -> TableType],
              halted : BOOLEAN, shared : SUBSET Phys, badfree : BOOLEAN, exhausted : BOOLEAN]
  BY DEF Memory, DirType, TableType, EntryType, Idxs

LEMMA AbsentIs == Absent \in EntryType /\ Absent.page = NIL /\ Absent.user = FALSE
  BY DEF Absent, EntryType

LEMMA Least == ASSUME NEW S \in SUBSET Nat, S # {} PROVE Lowest(S) \in S /\ \A q \in S : Lowest(S) <= q
  <1>1. \E x \in S : \A y \in S : ~(<<y, x>> \in OpToRel(<, Nat))
    BY NatLessThanWellFounded, WFMin
  <1>2. PICK x \in S : \A y \in S : ~(<<y, x>> \in OpToRel(<, Nat))
    BY <1>1
  <1>3. \A y \in S : ~(y < x)
    BY <1>2 DEF OpToRel
  <1>4. \E p \in S : \A q \in S : p <= q
    BY <1>3
  <1>5. QED BY <1>4 DEF Lowest

(* Everything but page tables and directories is left alone.               *)
Kept(x, y) == /\ y \in Memory /\ y.used = x.used /\ y.own = x.own /\ y.shared = x.shared
              /\ y.badfree = x.badfree /\ y.exhausted = x.exhausted /\ (x.halted => y.halted)

LEMMA Halted == ASSUME NEW x \in Memory PROVE Kept(x, Halt(x)) /\ Halt(x).halted
  <1>1. PICK b : b = TRUE
    OBVIOUS
  <1>2. PICK y : y = [x EXCEPT !.halted = b]
    OBVIOUS
  <1>3. y = Halt(x) /\ b \in BOOLEAN
    BY <1>1, <1>2 DEF Halt
  <1>4. y \in Memory /\ y.halted = b /\ y.used = x.used /\ y.own = x.own /\ y.shared = x.shared
        /\ y.badfree = x.badfree /\ y.exhausted = x.exhausted
    BY <1>2, <1>3, MemoryIs
  <1>5. QED BY <1>1, <1>3, <1>4 DEF Kept

(* Pages are taken and given back.                                         *)
Used(x, y, u) == /\ y \in Memory /\ y.used = u /\ y.tables = x.tables /\ y.own = x.own /\ y.pd = x.pd /\ y.pt = x.pt
                 /\ y.halted = x.halted

WithTaken(x, u, b) == [x EXCEPT !.used = u, !.exhausted = b]
WithFreed(x, u, b) == [x EXCEPT !.used = u, !.badfree = b]
WithShared(x, u) == [x EXCEPT !.shared = u]

LEMMA SetTaken == ASSUME NEW x \in Memory, NEW u \in SUBSET Phys, NEW b \in BOOLEAN, NEW y,
                         y = WithTaken(x, u, b)
                  PROVE  Used(x, y, u) /\ y.exhausted = b /\ y.badfree = x.badfree /\ y.shared = x.shared
  BY MemoryIs DEF Used, WithTaken, WithFreed, WithShared

LEMMA SetFreed == ASSUME NEW x \in Memory, NEW u \in SUBSET Phys, NEW b \in BOOLEAN, NEW y,
                         y = WithFreed(x, u, b)
                  PROVE  Used(x, y, u) /\ y.badfree = b /\ y.exhausted = x.exhausted /\ y.shared = x.shared
  BY MemoryIs DEF Used, WithTaken, WithFreed, WithShared

LEMMA SetShared == ASSUME NEW x \in Memory, NEW u \in SUBSET Phys, NEW y, y = WithShared(x, u)
                   PROVE  Used(x, y, x.used) /\ y.badfree = x.badfree /\ y.exhausted = x.exhausted /\ y.shared = u
  BY MemoryIs DEF Used, WithTaken, WithFreed, WithShared

LEMMA Take ==
    ASSUME NEW x \in Memory, NEW y, NEW q, q = pmm_page(x), y = pmm_take(x)
    PROVE  /\ Used(x, y, x.used \cup {q}) /\ y.badfree = x.badfree /\ y.shared = x.shared
           /\ q \in Phys
           /\ x.exhausted => y.exhausted
           /\ ~y.exhausted => ~x.exhausted /\ q \notin x.used
  <1>1. FreePhys(x) \subseteq Phys /\ FreePhys(x) \in SUBSET Nat
    BY Constants DEF FreePhys
  <1>2. q \in Phys /\ (FreePhys(x) # {} => q \notin x.used)
    BY <1>1, Least, Constants DEF pmm_page, FreePhys
  <1>3. PICK u, b : u = x.used \cup {q} /\ b = (x.exhausted \/ FreePhys(x) = {})
    OBVIOUS
  <1>4. u \in SUBSET Phys /\ b \in BOOLEAN /\ x.exhausted \in BOOLEAN
    BY <1>2, <1>3, MemoryIs
  <1>5. y = WithTaken(x, u, b)
    BY <1>3 DEF pmm_take, WithTaken
  <1>6. Used(x, y, u) /\ y.exhausted = b /\ y.badfree = x.badfree /\ y.shared = x.shared
    BY ONLY <1>4, <1>5, SetTaken, x \in Memory
  <1>7. QED BY <1>2, <1>3, <1>6

LEMMA Free ==
    ASSUME NEW x \in Memory, NEW p, NEW y, y = pmm_free(x, p)
    PROVE  /\ Used(x, y, x.used \ {p}) /\ y.shared = x.shared /\ y.exhausted = x.exhausted
           /\ y.badfree = (x.badfree \/ p \notin x.used \cup x.shared)
  <1>1. PICK u, b : u = x.used \ {p} /\ b = (x.badfree \/ p \notin x.used \cup x.shared)
    OBVIOUS
  <1>2. u \in SUBSET Phys /\ b \in BOOLEAN
    BY <1>1, MemoryIs
  <1>3. y = WithFreed(x, u, b)
    BY <1>1 DEF pmm_free, WithFreed
  <1>4. Used(x, y, u) /\ y.badfree = b /\ y.exhausted = x.exhausted /\ y.shared = x.shared
    BY ONLY <1>2, <1>3, SetFreed, x \in Memory
  <1>5. QED BY ONLY <1>1, <1>4, Zenon

(* vmm_map_page_unsafe: entry i of table t, at entry d of the directory.   *)
Sharing(x, c, d) == IF x.pd[c][d] = NIL /\ c = KERNEL THEN active \cup {c} ELSE {c}
Inserted(x, y, c, d, i, e, t) ==
    /\ ~x.halted /\ ~y.halted /\ t \in Tables /\ y.tables = x.tables \cup {t}
    /\ x.pd[c][d] = NIL => t \notin x.tables
    /\ x.pd[c][d] # NIL => t = x.pd[c][d]
    /\ \A k \in Contexts, f \in Dirs : y.pd[k][f] = IF f = d /\ k \in Sharing(x, c, d) THEN t ELSE x.pd[k][f]
    /\ \A u \in Tables, j \in Idxs : u # t => y.pt[u][j] = x.pt[u][j]
    /\ y.pt[t][i] = e
    /\ \A j \in Idxs : j # i => y.pt[t][j] = IF x.pd[c][d] = NIL THEN Absent ELSE x.pt[t][j]

WithTable(x, T, D, t, F) == [x EXCEPT !.tables = T, !.pd = D, !.pt[t] = F]

TableSet(x, y, T, D, t, F) ==
    /\ Kept(x, y) /\ y.tables = T /\ y.pd = D /\ y.halted = x.halted
    /\ y.pt[t] = F /\ \A u \in Tables : u # t => y.pt[u] = x.pt[u]

LEMMA SetTable ==
    ASSUME NEW x \in Memory, NEW T \in SUBSET Tables, NEW D \in [Contexts -> DirType], NEW t \in Tables,
           NEW F \in TableType, NEW y, y = WithTable(x, T, D, t, F)
    PROVE  TableSet(x, y, T, D, t, F)
  <1>1. PICK g : g = [x.pt EXCEPT ![t] = F]
    OBVIOUS
  <1>2. g \in [Tables -> TableType] /\ g[t] = F /\ \A u \in Tables : u # t => g[u] = x.pt[u]
    BY <1>1, MemoryIs
  <1>3. y = [x EXCEPT !.tables = T, !.pd = D, !.pt = g]
    BY <1>1, MemoryIs DEF WithTable
  <1>4. PICK z : z = [x EXCEPT !.tables = T, !.pd = D]
    OBVIOUS
  <1>5. z \in Memory /\ z.used = x.used /\ z.own = x.own /\ z.shared = x.shared /\ z.badfree = x.badfree
        /\ z.exhausted = x.exhausted /\ z.halted = x.halted /\ z.tables = T /\ z.pd = D
    BY <1>4, MemoryIs
  <1>6. y = [z EXCEPT !.pt = g]
    BY <1>3, <1>4, MemoryIs
  <1>7. y \in Memory /\ y.used = z.used /\ y.own = z.own /\ y.shared = z.shared /\ y.badfree = z.badfree
        /\ y.exhausted = z.exhausted /\ y.halted = z.halted /\ y.tables = z.tables /\ y.pd = z.pd /\ y.pt = g
    BY ONLY <1>2, <1>5, <1>6, MemoryIs
  <1>8. QED BY <1>2, <1>5, <1>7 DEF Kept, TableSet

LEMMA FreeTable == ASSUME NEW x \in Memory, ~NoTables(x, 1)
                   PROVE  pmm_alloc_pagetable(x) \in Tables /\ pmm_alloc_pagetable(x) \notin x.tables
  <1>1. FreeTables(x) # {}
    <2>1. SUFFICES ASSUME FreeTables(x) = {} PROVE FALSE
      OBVIOUS
    <2>2. Cardinality(FreeTables(x)) = 0
      BY <2>1, FS_EmptySet
    <2>3. QED BY <2>2 DEF NoTables
  <1>2. FreeTables(x) \in SUBSET Nat /\ FreeTables(x) \subseteq Tables
    BY Constants DEF FreeTables
  <1>3. Lowest(FreeTables(x)) \in FreeTables(x)
    BY <1>1, <1>2, Least
  <1>4. QED BY <1>3 DEF pmm_alloc_pagetable, FreeTables

LEMMA Unsafe ==
    ASSUME NEW x \in Memory, NEW c \in Contexts, NEW v, NEW d \in Dirs, NEW i \in Idxs, d = Dir(v), i = Idx(v),
           NEW e \in EntryType, active \subseteq Slots, NEW y, y = vmm_map_page_unsafe(x, c, v, e)
    PROVE  Kept(x, y) /\ (~y.halted => \E t : Inserted(x, y, c, d, i, e, t))
  <1>1. CASE x.halted \/ (x.pd[c][d] = NIL /\ NoTables(x, 1))
    <2>1. y = Halt(x)
      BY <1>1 DEF vmm_map_page_unsafe
    <2>2. QED BY <2>1, Halted
  <1>2. CASE ~(x.halted \/ (x.pd[c][d] = NIL /\ NoTables(x, 1)))
    <2>1. PICK t : t = IF x.pd[c][d] = NIL THEN pmm_alloc_pagetable(x) ELSE x.pd[c][d]
      OBVIOUS
    <2>2. PICK S : S = Sharing(x, c, d)
      OBVIOUS
    <2>3. x.pd \in [Contexts -> DirType] /\ x.pt \in [Tables -> TableType] /\ x.tables \in SUBSET Tables
          /\ x.pd[c] \in DirType /\ x.pd[c][d] \in Tables \cup {NIL}
      BY MemoryIs DEF DirType
    <2>4. t \in Tables /\ (x.pd[c][d] = NIL => t \notin x.tables) /\ (x.pd[c][d] # NIL => t = x.pd[c][d])
      BY <1>2, <2>1, <2>3, FreeTable
    <2>5. PICK D : D = [k \in Contexts |-> IF k \in S THEN [x.pd[k] EXCEPT ![d] = t] ELSE x.pd[k]]
      OBVIOUS
    <2>6. PICK F : F = [j \in DOMAIN x.pt[t] |-> IF j = i THEN e ELSE IF x.pd[c][d] = NIL THEN Absent ELSE x.pt[t][j]]
      OBVIOUS
    <2>7. PICK T : T = x.tables \cup {t}
      OBVIOUS
    <2>8. y = WithTable(x, T, D, t, F)
      BY <1>2, <2>1, <2>2, <2>5, <2>6, <2>7 DEF vmm_map_page_unsafe, WithTable, Sharing
    <2>9. /\ D \in [Contexts -> DirType]
          /\ \A k \in Contexts, f \in Dirs : D[k][f] = IF f = d /\ k \in S THEN t ELSE x.pd[k][f]
      <3>1. \A k \in Contexts : x.pd[k] \in DirType
        BY <2>3
      <3>2. ASSUME NEW k \in Contexts
            PROVE  D[k] \in DirType /\ \A f \in Dirs : D[k][f] = IF f = d /\ k \in S THEN t ELSE x.pd[k][f]
        <4>1. PICK h : h = x.pd[k]
          OBVIOUS
        <4>2. h \in DirType
          BY <3>1, <4>1
        <4>3. [h EXCEPT ![d] = t] \in DirType /\ \A f \in Dirs : [h EXCEPT ![d] = t][f] = IF f = d THEN t ELSE h[f]
          BY <2>4, <4>2 DEF DirType
        <4>4. D[k] = IF k \in S THEN [h EXCEPT ![d] = t] ELSE h
          BY <2>5, <4>1
        <4>5. QED BY <4>1, <4>2, <4>3, <4>4
      <3>3. QED BY <2>5, <3>2
    <2>10. F \in TableType /\ F[i] = e /\ \A j \in Idxs : j # i => F[j] = IF x.pd[c][d] = NIL THEN Absent ELSE x.pt[t][j]
      <3>1. x.pt[t] \in TableType /\ DOMAIN x.pt[t] = Idxs
        BY <2>3, <2>4 DEF TableType
      <3>2. \A j \in Idxs : F[j] = IF j = i THEN e ELSE IF x.pd[c][d] = NIL THEN Absent ELSE x.pt[t][j]
        BY <2>6, <3>1
      <3>3. \A j \in Idxs : F[j] \in EntryType
        BY <3>1, <3>2, AbsentIs DEF TableType
      <3>4. QED BY <2>6, <3>1, <3>2, <3>3 DEF TableType
    <2>11. T \in SUBSET Tables
      BY <2>3, <2>4, <2>7
    <2>12. /\ Kept(x, y) /\ y.tables = T /\ y.pd = D /\ y.halted = x.halted
           /\ y.pt[t] = F /\ \A u \in Tables : u # t => y.pt[u] = x.pt[u]
      <3>1. t \in Tables /\ D \in [Contexts -> DirType] /\ F \in TableType
        BY <2>4, <2>9, <2>10
      <3>2. TableSet(x, y, T, D, t, F)
        BY ONLY <2>8, <2>11, <3>1, SetTable, x \in Memory
      <3>3. QED BY ONLY <3>2 DEF TableSet
    <2>13. Inserted(x, y, c, d, i, e, t)
      BY <1>2, <2>2, <2>4, <2>7, <2>9, <2>10, <2>12 DEF Inserted
    <2>14. QED BY <2>12, <2>13
  <1>3. QED BY <1>1, <1>2

(* What an insertion does to the contexts B.                               *)
LEMMA InsertedTables ==
    ASSUME NEW x \in Memory, NEW y \in Memory, NEW B \in SUBSET Slots, NEW c \in All(B), NEW d \in Dirs, NEW i, NEW e, NEW t,
           Kept(x, y), Inserted(x, y, c, d, i, e, t), TablesOK(x, B), x.pd[KERNEL][0] # NIL,
           d \in KDirs \/ c # KERNEL
    PROVE  TablesOK(y, B)
  <1>0. All(B) \subseteq Contexts /\ KERNEL \in All(B)
    BY DEF All, Contexts
  <1>1. /\ t \in Tables /\ t # NIL /\ y.tables = x.tables \cup {t} /\ y.own = x.own /\ x.tables \subseteq Tables
        /\ x.pd[c][d] = NIL => t \notin x.tables
        /\ x.pd[c][d] # NIL => t = x.pd[c][d]
        /\ \A k \in All(B), f \in Dirs : y.pd[k][f] = IF f = d /\ k \in Sharing(x, c, d) THEN t ELSE x.pd[k][f]
    BY <1>0, Constants, MemoryIs DEF Inserted, Kept
  <1>2. /\ \A k \in All(B), f \in Dirs : x.pd[k][f] # NIL => x.pd[k][f] \in x.tables /\ \A l \in All(B) : x.pd[k][f] \notin x.own[l]
        /\ \A k \in All(B) : x.own[k] \subseteq x.tables
        /\ \A k, l \in All(B) : k # l => x.own[k] \cap x.own[l] = {}
    BY DEF TablesOK, TablesKept
  <1>3. \A l \in All(B) : t \notin x.own[l]
    BY <1>1, <1>2
  <1>4. TablesKept(y, B)
    <2>1. \A k \in All(B) : y.own[k] \subseteq y.tables
      BY <1>1, <1>2
    <2>2. \A k, l \in All(B) : k # l => y.own[k] \cap y.own[l] = {}
      BY <1>1, <1>2
    <2>3. ASSUME NEW k \in All(B), NEW f \in Dirs, y.pd[k][f] # NIL
          PROVE  y.pd[k][f] \in y.tables /\ \A l \in All(B) : y.pd[k][f] \notin y.own[l]
      <3>1. y.pd[k][f] = t \/ y.pd[k][f] = x.pd[k][f]
        BY <1>1
      <3>2. QED BY <1>1, <1>2, <1>3, <2>3, <3>1
    <2>4. QED BY <2>1, <2>2, <2>3 DEF TablesKept
  <1>5. ASSUME NEW l \in All(B), NEW g \in Dirs, x.pd[l][g] = t
        PROVE  g = d /\ (d \in KDirs \/ l = c)
    <2>1. x.pd[c][d] # NIL
      BY <1>1, <1>2, <1>5
    <2>2. x.pd[c][d] = x.pd[l][g]
      BY <1>1, <1>5, <2>1
    <2>3. QED BY <2>1, <2>2 DEF TablesOK, TablesApart
  <1>6. TablesApart(y, B)
    <2>1. SUFFICES ASSUME NEW k \in All(B), NEW l \in All(B), NEW f \in Dirs, NEW g \in Dirs,
                          y.pd[k][f] # NIL, y.pd[k][f] = y.pd[l][g]
                   PROVE  f = g /\ (f \in KDirs \/ k = l)
      BY DEF TablesApart
    <2>2. d \notin KDirs => Sharing(x, c, d) = {c}
      BY DEF Sharing
    <2>3. CASE f = d /\ k \in Sharing(x, c, d)
      <3>1. y.pd[l][g] = t
        BY <1>1, <2>1, <2>3
      <3>2. g = d /\ (d \in KDirs \/ l = c)
        BY <1>1, <1>5, <2>2, <3>1
      <3>3. QED BY <2>2, <2>3, <3>2
    <2>4. CASE g = d /\ l \in Sharing(x, c, d)
      <3>1. y.pd[k][f] = t
        BY <1>1, <2>1, <2>4
      <3>2. f = d /\ (d \in KDirs \/ k = c)
        BY <1>1, <1>5, <2>2, <3>1
      <3>3. QED BY <2>2, <2>4, <3>2
    <2>5. CASE ~(f = d /\ k \in Sharing(x, c, d)) /\ ~(g = d /\ l \in Sharing(x, c, d))
      <3>1. x.pd[k][f] # NIL /\ x.pd[k][f] = x.pd[l][g]
        BY <1>1, <2>1, <2>5
      <3>2. QED BY <3>1 DEF TablesOK, TablesApart
    <2>6. QED BY <2>3, <2>4, <2>5
  <1>7. TablesLive(y, B)
    <2>1. SUFFICES ASSUME OneTable(y), NEW u \in y.tables PROVE IsLive(y, B, u)
      BY DEF TablesLive
    <2>2. c \in Sharing(x, c, d)
      BY DEF Sharing
    <2>3. y.pd[c][d] = t
      BY <1>1, <2>2
    <2>4. CASE u = t
      BY <2>3, <2>4 DEF IsLive
    <2>5. CASE u # t
      <3>1. u \in x.tables /\ u # NIL
        BY <1>1, <2>1, <2>5, Constants
      <3>2. OneTable(x)
        <4>1. ASSUME NEW f \in Dirs \ {0} PROVE x.pd[KERNEL][f] = NIL
          BY <1>0, <1>1, <2>1, <4>1 DEF OneTable
        <4>2. QED BY <4>1 DEF OneTable
      <3>3. IsLive(x, B, u)
        BY <3>1, <3>2 DEF TablesOK, TablesLive
      <3>4. CASE \E k \in All(B) : u \in x.own[k]
        BY <1>1, <3>4 DEF IsLive
      <3>5. ASSUME NEW k \in All(B), NEW f \in Dirs, x.pd[k][f] = u PROVE IsLive(y, B, u)
        <4>1. CASE f = d /\ k \in Sharing(x, c, d)
          <5>1. CASE k = c
            BY <1>1, <2>5, <3>1, <3>5, <4>1, <5>1
          <5>2. CASE k # c
            <6>1. x.pd[c][d] = NIL /\ c = KERNEL
              BY <4>1, <5>2 DEF Sharing
            <6>2. d # 0 /\ y.pd[KERNEL][d] = t
              BY <2>3, <6>1
            <6>3. QED BY <1>1, <2>1, <6>2 DEF OneTable
          <5>3. QED BY <5>1, <5>2
        <4>2. CASE ~(f = d /\ k \in Sharing(x, c, d))
          <5>1. y.pd[k][f] = u
            BY <1>1, <3>5, <4>2
          <5>2. QED BY <5>1 DEF IsLive
        <4>3. QED BY <4>1, <4>2
      <3>6. QED BY <3>3, <3>4, <3>5 DEF IsLive
    <2>6. QED BY <2>4, <2>5
  <1>8. QED BY <1>4, <1>6, <1>7 DEF TablesOK

LEMMA InsertedEntries ==
    ASSUME NEW x \in Memory, NEW y \in Memory, NEW B \in SUBSET Slots, NEW c \in All(B), NEW d \in Dirs, NEW i \in Idxs, NEW e, NEW t,
           Kept(x, y), Inserted(x, y, c, d, i, e, t), TablesOK(x, B),
           NEW k \in All(B), NEW f \in Dirs, NEW j \in Idxs
    PROVE  /\ f # d \/ y.pd[k][f] # t => Entry(y, k, f, j) = Entry(x, k, f, j)
           /\ f = d /\ y.pd[k][f] = t => Entry(y, k, f, j) = IF j = i THEN e ELSE Entry(x, c, d, j)
  <1>0. All(B) \subseteq Contexts
    BY DEF All, Contexts
  <1>1. /\ t \in Tables /\ t # NIL
        /\ x.pd[c][d] = NIL => t \notin x.tables
        /\ x.pd[c][d] # NIL => t = x.pd[c][d]
        /\ y.pd[k][f] = IF f = d /\ k \in Sharing(x, c, d) THEN t ELSE x.pd[k][f]
        /\ \A u \in Tables : u # t => y.pt[u][j] = x.pt[u][j]
        /\ y.pt[t][i] = e
        /\ j # i => y.pt[t][j] = IF x.pd[c][d] = NIL THEN Absent ELSE x.pt[t][j]
    BY <1>0, Constants DEF Inserted
  <1>2. /\ x.pd[k][f] # NIL => x.pd[k][f] \in x.tables /\ x.pd[k][f] \in Tables
        /\ x.pd[c][d] # NIL /\ x.pd[c][d] = x.pd[k][f] => d = f
    <2>1. x.tables \subseteq Tables
      BY MemoryIs
    <2>2. QED BY <2>1 DEF TablesOK, TablesKept, TablesApart
  <1>3. ASSUME f # d \/ y.pd[k][f] # t PROVE Entry(y, k, f, j) = Entry(x, k, f, j)
    <2>1. y.pd[k][f] = x.pd[k][f]
      BY <1>1, <1>3
    <2>2. CASE x.pd[k][f] = NIL
      BY <2>1, <2>2 DEF Entry
    <2>3. CASE x.pd[k][f] # NIL
      <3>1. x.pd[k][f] # t
        BY <1>1, <1>2, <1>3, <2>1, <2>3
      <3>2. y.pt[x.pd[k][f]][j] = x.pt[x.pd[k][f]][j]
        BY <1>1, <1>2, <2>3, <3>1
      <3>3. QED BY <2>1, <2>3, <3>2 DEF Entry
    <2>4. QED BY <2>2, <2>3
  <1>4. ASSUME f = d, y.pd[k][f] = t PROVE Entry(y, k, f, j) = IF j = i THEN e ELSE Entry(x, c, d, j)
    <2>1. Entry(y, k, f, j) = y.pt[t][j]
      BY <1>1, <1>4 DEF Entry
    <2>2. j # i => y.pt[t][j] = Entry(x, c, d, j)
      BY <1>1 DEF Entry
    <2>3. QED BY <1>1, <2>1, <2>2
  <1>5. QED BY <1>3, <1>4

(* MapUser: one entry of one context.                                      *)
UserMapped(x, y, B, c, v, p) ==
    /\ Kept(x, y) /\ ~x.halted /\ Halves(y, B) /\ TablesOK(y, B)
    /\ \A k \in All(B), f \in Dirs, j \in Idxs :
          Entry(y, k, f, j) = IF k = c /\ f = Dir(v) /\ j = Idx(v) THEN UserEntry(p) ELSE Entry(x, k, f, j)

LEMMA UserEntryIs == ASSUME NEW p \in Phys
                     PROVE  UserEntry(p) \in EntryType /\ UserEntry(p).page = p /\ UserEntry(p).user = TRUE /\ UserEntry(p).page # NIL
  BY Constants DEF UserEntry, EntryType

LEMMA UserMap ==
    ASSUME NEW x \in Memory, NEW B \in SUBSET Slots, active \subseteq Slots, NEW c \in B, NEW v, IsUser(v), NEW p \in Phys,
           Halves(x, B), TablesOK(x, B), NEW y, y = MapUser(x, c, v, p), ~y.halted
    PROVE  UserMapped(x, y, B, c, v, p)
  <1>1. PICK d, i, e : d = Dir(v) /\ i = Idx(v) /\ e = UserEntry(p)
    OBVIOUS
  <1>2. d \in Dirs \ KDirs /\ i \in Idxs /\ e \in EntryType
    BY <1>1, KernelDirs, UserEntryIs
  <1>3. c \in All(B) /\ c # KERNEL /\ c \in Contexts /\ KERNEL \in All(B) /\ x.pd[KERNEL][d] = NIL /\ x.pd[KERNEL][0] # NIL
    BY <1>2, Constants DEF Halves, All
  <1>4. y = vmm_map_page_unsafe(x, c, v, e)
    BY <1>1, <1>3 DEF MapUser, vmm_map_page, UserEntry
  <1>5. Kept(x, y) /\ \E t : Inserted(x, y, c, d, i, e, t)
    BY <1>1, <1>2, <1>3, <1>4, Unsafe
  <1>6. PICK t : Inserted(x, y, c, d, i, e, t)
    BY <1>5
  <1>7. y \in Memory
    BY <1>5 DEF Kept
  <1>8. TablesOK(y, B)
    BY <1>2, <1>3, <1>5, <1>6, <1>7, InsertedTables
  <1>9. \A k \in All(B), f \in Dirs : y.pd[k][f] = IF f = d /\ k = c THEN t ELSE x.pd[k][f]
    <2>1. Sharing(x, c, d) = {c}
      BY <1>3 DEF Sharing
    <2>2. All(B) \subseteq Contexts
      BY DEF All, Contexts
    <2>3. QED BY <1>6, <2>1, <2>2 DEF Inserted
  <1>10. t # NIL
    BY <1>6, Constants DEF Inserted
  <1>11. \A k \in All(B), f \in Dirs, j \in Idxs :
            Entry(y, k, f, j) = IF k = c /\ f = d /\ j = i THEN e ELSE Entry(x, k, f, j)
    <2>1. TAKE k \in All(B), f \in Dirs, j \in Idxs
    <2>2. /\ f # d \/ y.pd[k][f] # t => Entry(y, k, f, j) = Entry(x, k, f, j)
          /\ f = d /\ y.pd[k][f] = t => Entry(y, k, f, j) = IF j = i THEN e ELSE Entry(x, c, d, j)
      BY <1>2, <1>3, <1>5, <1>6, <1>7, InsertedEntries
    <2>3. y.pd[k][f] = t /\ f = d => k = c
      <3>1. y.pd[c][d] = t /\ y.pd[c][d] # NIL
        BY <1>2, <1>3, <1>9, <1>10
      <3>2. QED BY <1>2, <1>3, <1>8, <3>1 DEF TablesOK, TablesApart
    <2>4. k = c /\ f = d => y.pd[k][f] = t
      BY <1>9
    <2>5. QED BY <2>2, <2>3, <2>4
  <1>12. Halves(y, B)
    <2>1. \A k \in All(B), f \in KDirs : y.pd[k][f] = x.pd[k][f]
      BY <1>2, <1>9, KernelDirs
    <2>2. \A k \in All(B), f \in KDirs, j \in Idxs : Entry(y, k, f, j) = Entry(x, k, f, j)
      BY <1>2, <1>11, KernelDirs
    <2>3. \A k \in All(B) : y.pd[k][0] = y.pd[KERNEL][0] /\ y.pd[k][0] # NIL
      BY <1>3, <2>1, KernelDirs DEF Halves
    <2>4. \A k \in All(B), f \in KDirs : y.pd[k][f] # NIL => y.pd[KERNEL][f] # NIL
      BY <1>3, <2>1 DEF Halves
    <2>5. \A k \in All(B), f \in KDirs, j \in Idxs :
             /\ ~Entry(y, k, f, j).user
             /\ Entry(y, k, f, j).page # NIL => Entry(y, KERNEL, f, j).page # NIL
      BY <1>3, <2>2 DEF Halves
    <2>6. \A f \in Dirs \ KDirs : y.pd[KERNEL][f] = NIL
      BY <1>3, <1>9 DEF Halves
    <2>7. \A k \in B, f \in Dirs \ KDirs, j \in Idxs : Entry(y, k, f, j).user <=> Entry(y, k, f, j).page # NIL
      <3>1. TAKE k \in B, f \in Dirs \ KDirs, j \in Idxs
      <3>2. Entry(y, k, f, j) = e \/ Entry(y, k, f, j) = Entry(x, k, f, j)
        BY <1>11 DEF All
      <3>3. e.user <=> e.page # NIL
        BY <1>1, UserEntryIs
      <3>4. QED BY <3>2, <3>3 DEF Halves
    <2>8. QED BY <2>3, <2>4, <2>5, <2>6, <2>7 DEF Halves
  <1>13. ~x.halted
    BY <1>6 DEF Inserted
  <1>14. QED BY <1>1, <1>5, <1>8, <1>11, <1>12, <1>13 DEF UserMapped

(* MapKernel: first in the current context, then in the kernel's.  Between *)
(* the two the current one is ahead at one entry.                          *)
HalvesBut(x, B, g, h) ==
    /\ \A c \in All(B) : x.pd[c][0] = x.pd[KERNEL][0] /\ x.pd[c][0] # NIL
    /\ \A c \in All(B), d \in KDirs \ {g} : x.pd[c][d] # NIL => x.pd[KERNEL][d] # NIL
    /\ \A c \in All(B), d \in KDirs, i \in Idxs :
          /\ ~Entry(x, c, d, i).user
          /\ d # g \/ i # h => (Entry(x, c, d, i).page # NIL => Entry(x, KERNEL, d, i).page # NIL)
    /\ \A d \in Dirs \ KDirs : x.pd[KERNEL][d] = NIL
    /\ \A c \in B, d \in Dirs \ KDirs, i \in Idxs :
          Entry(x, c, d, i).user <=> Entry(x, c, d, i).page # NIL

SameUser(x, y, B) == \A k \in All(B), f \in Dirs \ KDirs, j \in Idxs : Entry(y, k, f, j) = Entry(x, k, f, j)

LEMMA KernelInserted ==
    ASSUME NEW x \in Memory, NEW y \in Memory, NEW B \in SUBSET Slots, active \subseteq B, NEW c \in All(B),
           NEW d \in KDirs, NEW i \in Idxs, NEW e \in EntryType, ~e.user, e.page # NIL, NEW t,
           Kept(x, y), Inserted(x, y, c, d, i, e, t), TablesOK(x, B), HalvesBut(x, B, d, i)
    PROVE  /\ TablesOK(y, B) /\ HalvesBut(y, B, d, i) /\ SameUser(x, y, B)
           /\ c = KERNEL => Halves(y, B)
  <1>1. d \in Dirs /\ KERNEL \in All(B) /\ All(B) \subseteq Contexts /\ 0 \in Dirs /\ 0 \in KDirs
    BY KernelDirs DEF All, Contexts
  <1>2. x.pd[KERNEL][0] # NIL /\ x.pd[c][0] = x.pd[KERNEL][0]
    BY <1>1 DEF HalvesBut
  <1>3. TablesOK(y, B)
    BY <1>1, <1>2, InsertedTables
  <1>4. /\ t # NIL
        /\ x.pd[c][d] = NIL => t \notin x.tables
        /\ x.pd[c][d] # NIL => t = x.pd[c][d]
        /\ \A k \in All(B), f \in Dirs : y.pd[k][f] = IF f = d /\ k \in Sharing(x, c, d) THEN t ELSE x.pd[k][f]
    BY <1>1, Constants DEF Inserted
  <1>5. \A k \in All(B), f \in Dirs, j \in Idxs :
           /\ f # d \/ y.pd[k][f] # t => Entry(y, k, f, j) = Entry(x, k, f, j)
           /\ f = d /\ y.pd[k][f] = t => Entry(y, k, f, j) = IF j = i THEN e ELSE Entry(x, c, d, j)
    BY <1>1, InsertedEntries
  <1>6. SameUser(x, y, B)
    BY <1>5 DEF SameUser
  <1>7. \A k \in All(B) : y.pd[k][0] = y.pd[KERNEL][0] /\ y.pd[k][0] # NIL
    <2>1. \A k \in All(B) : x.pd[k][0] = x.pd[KERNEL][0] /\ x.pd[k][0] # NIL
      BY DEF HalvesBut
    <2>2. CASE d = 0
      <3>1. t = x.pd[KERNEL][0]
        BY <1>2, <1>4, <2>2
      <3>2. QED BY <1>1, <1>4, <2>1, <2>2, <3>1
    <2>3. CASE d # 0
      BY <1>1, <1>4, <2>1, <2>3
    <2>4. QED BY <2>2, <2>3
  <1>8. \A k \in All(B), f \in KDirs \ {d} : y.pd[k][f] # NIL => y.pd[KERNEL][f] # NIL
    <2>1. \A k \in All(B), f \in KDirs \ {d} : y.pd[k][f] = x.pd[k][f]
      BY <1>4, KernelDirs
    <2>2. QED BY <1>1, <2>1 DEF HalvesBut
  <1>9. \A k \in All(B), f \in KDirs, j \in Idxs : ~Entry(y, k, f, j).user
    <2>1. TAKE k \in All(B), f \in KDirs, j \in Idxs
    <2>2. f \in Dirs
      BY KernelDirs
    <2>3. Entry(y, k, f, j) = e \/ Entry(y, k, f, j) = Entry(x, k, f, j) \/ Entry(y, k, f, j) = Entry(x, c, d, j)
      BY <1>5, <2>2
    <2>4. QED BY <2>3 DEF HalvesBut
  <1>10. ASSUME NEW k \in All(B), NEW f \in KDirs, NEW j \in Idxs, f # d \/ j # i, Entry(y, k, f, j).page # NIL
         PROVE  Entry(y, KERNEL, f, j).page # NIL
    <2>1. f \in Dirs
      BY KernelDirs
    <2>2. CASE f # d
      <3>1. Entry(y, k, f, j) = Entry(x, k, f, j) /\ Entry(y, KERNEL, f, j) = Entry(x, KERNEL, f, j)
        BY <1>1, <1>5, <2>1, <2>2
      <3>2. QED BY <1>10, <2>2, <3>1 DEF HalvesBut
    <2>3. CASE f = d
      <3>1. Entry(y, k, f, j) = Entry(x, k, d, j) \/ Entry(y, k, f, j) = Entry(x, c, d, j)
        BY <1>5, <1>10, <2>1, <2>3
      <3>2. Entry(x, KERNEL, d, j).page # NIL
        BY <1>10, <2>3, <3>1 DEF HalvesBut
      <3>3. CASE y.pd[KERNEL][d] # t
        BY <1>1, <1>5, <2>3, <3>2, <3>3
      <3>4. CASE y.pd[KERNEL][d] = t
        <4>1. Entry(y, KERNEL, d, j) = Entry(x, c, d, j)
          BY <1>1, <1>5, <1>10, <2>3, <3>4
        <4>2. CASE c = KERNEL
          BY <2>3, <3>2, <4>1, <4>2
        <4>3. CASE c # KERNEL
          <5>1. x.pd[KERNEL][d] = t
            BY <1>1, <1>4, <3>4, <4>3 DEF Sharing
          <5>2. x.pd[KERNEL][d] \in x.tables
            BY <1>1, <1>4, <5>1 DEF TablesOK, TablesKept
          <5>3. x.pd[c][d] = t
            BY <1>4, <5>1, <5>2
          <5>4. Entry(x, c, d, j) = Entry(x, KERNEL, d, j)
            BY <5>1, <5>3 DEF Entry
          <5>5. QED BY <2>3, <3>2, <4>1, <5>4
        <4>4. QED BY <4>2, <4>3
      <3>5. QED BY <3>3, <3>4
    <2>4. QED BY <2>2, <2>3
  <1>11. \A f \in Dirs \ KDirs : y.pd[KERNEL][f] = NIL
    BY <1>1, <1>4 DEF HalvesBut
  <1>12. \A k \in B, f \in Dirs \ KDirs, j \in Idxs : Entry(y, k, f, j).user <=> Entry(y, k, f, j).page # NIL
    <2>1. \A k \in B : k \in All(B)
      BY DEF All
    <2>2. QED BY <1>6, <2>1 DEF HalvesBut, SameUser
  <1>13. HalvesBut(y, B, d, i)
    BY <1>7, <1>8, <1>9, <1>10, <1>11, <1>12 DEF HalvesBut
  <1>14. ASSUME c = KERNEL PROVE Halves(y, B)
    <2>1. y.pd[KERNEL][d] = t
      BY <1>1, <1>4, <1>14 DEF Sharing
    <2>2. Entry(y, KERNEL, d, i) = e
      BY <1>1, <1>5, <2>1
    <2>3. \A k \in All(B), f \in KDirs : y.pd[k][f] # NIL => y.pd[KERNEL][f] # NIL
      BY <1>4, <1>8, <2>1
    <2>4. \A k \in All(B), f \in KDirs, j \in Idxs :
             Entry(y, k, f, j).page # NIL => Entry(y, KERNEL, f, j).page # NIL
      BY <1>10, <2>2
    <2>5. QED BY <1>7, <1>9, <1>11, <1>12, <2>3, <2>4 DEF Halves
  <1>15. QED BY <1>3, <1>6, <1>13, <1>14

Placed == active \subseteq Slots /\ cur \in active \cup {KERNEL}

LEMMA KernelEntry == ASSUME NEW p \in Phys, NEW e, e = [page |-> p, user |-> FALSE]
                     PROVE  e \in EntryType /\ ~e.user /\ e.page # NIL
  BY Constants DEF EntryType

LEMMA MapUserKeeps ==
    ASSUME NEW x \in Memory, Placed, NEW c \in Slots, NEW v, IsUser(v), NEW p \in Phys
    PROVE  Kept(x, MapUser(x, c, v, p))
  <1>1. PICK d, i, e, y : d = Dir(v) /\ i = Idx(v) /\ e = UserEntry(p) /\ y = vmm_map_page_unsafe(x, c, v, e)
    OBVIOUS
  <1>2. d \in Dirs /\ i \in Idxs /\ e \in EntryType /\ c \in Contexts /\ c # KERNEL
    BY <1>1, KernelDirs, UserEntryIs, Constants
  <1>3. Kept(x, y)
    BY <1>1, <1>2, Unsafe DEF Placed
  <1>4. MapUser(x, c, v, p) = Halt(x) \/ MapUser(x, c, v, p) = y
    BY <1>1, <1>2 DEF MapUser, vmm_map_page, UserEntry
  <1>5. QED BY <1>3, <1>4, Halted

LEMMA KeptTwice == ASSUME NEW x, NEW y, NEW z, Kept(x, y), Kept(y, z) PROVE Kept(x, z)
  BY DEF Kept

LEMMA MapKernelKeeps ==
    ASSUME NEW x \in Memory, Placed, NEW p \in Phys
    PROVE  Kept(x, MapKernel(x, p))
  <1>1. PICK d, i, e : d = Dir(p) /\ i = Idx(p) /\ e = [page |-> p, user |-> FALSE]
    OBVIOUS
  <1>2. PICK z : z = IF cur # KERNEL THEN vmm_map_page_unsafe(x, cur, p, e) ELSE x
    OBVIOUS
  <1>3. PICK y : y = vmm_map_page_unsafe(z, KERNEL, p, e)
    OBVIOUS
  <1>4. d \in Dirs /\ i \in Idxs /\ e \in EntryType /\ cur \in Contexts /\ KERNEL \in Contexts
    BY <1>1, KernelDirs, KernelEntry, Constants DEF Placed
  <1>5. Kept(x, z)
    <2>1. Kept(x, x)
      BY DEF Kept
    <2>2. CASE cur = KERNEL
      BY <1>2, <2>1, <2>2
    <2>3. CASE cur # KERNEL
      <3>1. z = vmm_map_page_unsafe(x, cur, p, e)
        BY <1>2, <2>3
      <3>2. QED BY <1>1, <1>4, <3>1, Unsafe DEF Placed
    <2>4. QED BY <2>2, <2>3
  <1>6. z \in Memory
    BY <1>5 DEF Kept
  <1>7. Kept(z, y)
    BY <1>1, <1>3, <1>4, <1>6, Unsafe DEF Placed
  <1>8. MapKernel(x, p) = y
    BY <1>1, <1>2, <1>3 DEF MapKernel, vmm_map_page
  <1>9. QED BY <1>5, <1>7, <1>8, KeptTwice

LEMMA KernelMap ==
    ASSUME NEW x \in Memory, NEW B \in SUBSET Slots, active \subseteq B, Placed, NEW p \in Phys,
           Halves(x, B), TablesOK(x, B), NEW y, y = MapKernel(x, p), ~y.halted
    PROVE  ~x.halted /\ Halves(y, B) /\ TablesOK(y, B) /\ SameUser(x, y, B)
  <1>1. PICK d, i, e : d = Dir(p) /\ i = Idx(p) /\ e = [page |-> p, user |-> FALSE]
    OBVIOUS
  <1>2. d \in KDirs /\ d \in Dirs /\ i \in Idxs /\ e \in EntryType /\ ~e.user /\ e.page # NIL
    BY <1>1, KernelDirs, KernelEntry
  <1>3. PICK z : z = IF cur # KERNEL THEN vmm_map_page_unsafe(x, cur, p, e) ELSE x
    OBVIOUS
  <1>4. y = vmm_map_page_unsafe(z, KERNEL, p, e)
    BY <1>1, <1>3 DEF MapKernel, vmm_map_page
  <1>5. HalvesBut(x, B, d, i)
    BY DEF Halves, HalvesBut
  <1>6. cur \in Contexts /\ KERNEL \in Contexts /\ cur \in All(B) /\ KERNEL \in All(B)
    BY Constants DEF Placed, All
  <1>7. z \in Memory
    <2>1. CASE cur = KERNEL
      BY <1>3, <2>1
    <2>2. CASE cur # KERNEL
      <3>1. z = vmm_map_page_unsafe(x, cur, p, e)
        BY <1>3, <2>2
      <3>2. Kept(x, z)
        BY <1>1, <1>2, <1>6, <3>1, Unsafe DEF Placed
      <3>3. QED BY <3>2 DEF Kept
    <2>3. QED BY <2>1, <2>2
  <1>8. Kept(z, y) /\ \E t : Inserted(z, y, KERNEL, d, i, e, t)
    BY <1>1, <1>2, <1>4, <1>6, <1>7, Unsafe DEF Placed
  <1>9. PICK t : Inserted(z, y, KERNEL, d, i, e, t)
    BY <1>8
  <1>10. ~z.halted /\ y \in Memory
    BY <1>8, <1>9 DEF Inserted, Kept
  <1>11. ~x.halted /\ TablesOK(z, B) /\ HalvesBut(z, B, d, i) /\ SameUser(x, z, B)
    <2>1. CASE cur = KERNEL
      BY <1>3, <1>5, <1>10, <2>1 DEF SameUser
    <2>2. CASE cur # KERNEL
      <3>1. z = vmm_map_page_unsafe(x, cur, p, e)
        BY <1>3, <2>2
      <3>2. Kept(x, z) /\ \E u : Inserted(x, z, cur, d, i, e, u)
        BY <1>1, <1>2, <1>6, <1>10, <3>1, Unsafe DEF Placed
      <3>3. PICK u : Inserted(x, z, cur, d, i, e, u)
        BY <3>2
      <3>4. TablesOK(z, B) /\ HalvesBut(z, B, d, i) /\ SameUser(x, z, B)
        BY <1>2, <1>5, <1>6, <1>7, <3>2, <3>3, KernelInserted
      <3>5. ~x.halted
        BY <3>3 DEF Inserted
      <3>6. QED BY <3>4, <3>5
    <2>3. QED BY <2>1, <2>2
  <1>12. TablesOK(y, B) /\ SameUser(z, y, B) /\ Halves(y, B)
    BY <1>2, <1>6, <1>7, <1>8, <1>9, <1>10, <1>11, KernelInserted
  <1>13. QED BY <1>11, <1>12 DEF SameUser

(* Who reaches what depends on the user half alone.                        *)
LEMMA ReachUser == ASSUME NEW x, NEW B, Halves(x, B), NEW c \in B, NEW p
                   PROVE  Reach(x, c, p) <=> \E d \in Dirs \ KDirs, i \in Idxs : Entry(x, c, d, i) = UserEntry(p)
  <1>1. UserEntry(p).user
    BY DEF UserEntry
  <1>2. \A d \in KDirs, i \in Idxs : ~Entry(x, c, d, i).user
    BY DEF Halves, All
  <1>3. QED BY <1>1, <1>2 DEF Reach

LEMMA SameReach == ASSUME NEW x, NEW y, NEW B, Halves(x, B), Halves(y, B), SameUser(x, y, B), NEW c \in B, NEW p
                   PROVE  Reach(y, c, p) <=> Reach(x, c, p)
  <1>1. \A d \in Dirs \ KDirs, i \in Idxs : Entry(y, c, d, i) = Entry(x, c, d, i)
    BY DEF SameUser, All
  <1>2. QED BY <1>1, ReachUser

LEMMA SamePages ==
    ASSUME NEW x, NEW y, NEW B, NEW P, y.used = x.used, y.shared = x.shared,
           \A c \in B, p \in Phys : Reach(y, c, p) <=> Reach(x, c, p), x.used \subseteq Phys, PagesOK(x, B, P)
    PROVE  PagesOK(y, B, P)
  <1>1. NULL \in y.used /\ NULL \notin y.shared /\ NULL \notin P /\ P \subseteq y.used \cup y.shared
    BY DEF PagesOK
  <1>2. \A c \in B, p \in Phys : Reach(y, c, p) =>
          /\ p \in y.used \cup y.shared /\ p # NULL
          /\ p \in P => p \in y.shared
          /\ \A k \in B : k # c /\ Reach(y, k, p) => p \in y.shared
    BY DEF PagesOK
  <1>3. \A p \in y.used : p = NULL \/ p \in P \/ \E c \in B : Reach(y, c, p)
    BY DEF PagesOK
  <1>4. QED BY <1>1, <1>2, <1>3 DEF PagesOK

(* What a step between allocations may touch.                              *)
Step(x, y) == /\ y \in Memory /\ y.badfree = x.badfree /\ y.shared = x.shared
              /\ (x.halted => y.halted) /\ (x.exhausted => y.exhausted)

LEMMA StepTwice == ASSUME NEW x, NEW y, NEW z, Step(x, y), Step(y, z) PROVE Step(x, z)
  BY DEF Step

LEMMA KeptStep == ASSUME NEW x, NEW y, Kept(x, y) PROVE Step(x, y)
  BY DEF Kept, Step

LEMMA UsedSame ==
    ASSUME NEW x, NEW y, NEW u, Used(x, y, u), NEW B
    PROVE  /\ Halves(x, B) => Halves(y, B)
           /\ TablesOK(x, B) => TablesOK(y, B)
           /\ SameUser(x, y, B)
           /\ \A c, p : Reach(y, c, p) <=> Reach(x, c, p)
           /\ \A c, v : Walk(y, c, v) = Walk(x, c, v)
  <1>1. y.tables = x.tables /\ y.own = x.own /\ y.pd = x.pd /\ y.pt = x.pt
    BY DEF Used
  <1>2. \A c, d, i : Entry(y, c, d, i) = Entry(x, c, d, i)
    BY <1>1 DEF Entry
  <1>3. Halves(x, B) => Halves(y, B)
    BY <1>1, <1>2 DEF Halves
  <1>4. TablesKept(x, B) => TablesKept(y, B)
    BY <1>1 DEF TablesKept
  <1>5. TablesApart(x, B) => TablesApart(y, B)
    BY <1>1 DEF TablesApart
  <1>6. TablesLive(x, B) => TablesLive(y, B)
    BY <1>1 DEF TablesLive, IsLive, OneTable
  <1>7. SameUser(x, y, B) /\ \A c, p : Reach(y, c, p) <=> Reach(x, c, p)
    BY <1>2 DEF SameUser, Reach
  <1>8. \A c, v : Walk(y, c, v) = Walk(x, c, v)
    BY <1>1 DEF Walk
  <1>9. QED BY <1>3, <1>4, <1>5, <1>6, <1>7, <1>8 DEF TablesOK

LEMMA TakeStep == ASSUME NEW x \in Memory PROVE Step(x, pmm_take(x))
  <1>1. PICK q, y : q = pmm_page(x) /\ y = pmm_take(x)
    OBVIOUS
  <1>2. Used(x, y, x.used \cup {q}) /\ y.badfree = x.badfree /\ y.shared = x.shared /\ (x.exhausted => y.exhausted)
    BY <1>1, Take
  <1>3. QED BY <1>1, <1>2 DEF Step, Used

LEMMA TakeGood ==
    ASSUME NEW x \in Memory, NEW B, NEW P, Good(x, B, P), NEW q, q = pmm_page(x), NEW y, y = pmm_take(x), ~y.exhausted
    PROVE  /\ Good(y, B, P \cup {q}) /\ SameUser(x, y, B) /\ y.used = x.used \cup {q}
           /\ q \in Phys /\ q \notin x.used /\ ~x.exhausted /\ y.halted = x.halted
  <1>1. /\ Used(x, y, x.used \cup {q}) /\ y.shared = x.shared /\ q \in Phys
        /\ ~x.exhausted /\ q \notin x.used
    BY Take
  <1>2. y.used = x.used \cup {q} /\ y.halted = x.halted
    BY <1>1 DEF Used
  <1>3. Halves(y, B) /\ TablesOK(y, B) /\ SameUser(x, y, B) /\ \A c, p : Reach(y, c, p) <=> Reach(x, c, p)
    BY <1>1, UsedSame DEF Good
  <1>4. PagesOK(x, B, P)
    BY DEF Good
  <1>5. NULL \in x.used /\ NULL \notin x.shared /\ NULL \notin P /\ P \subseteq x.used \cup x.shared
    BY <1>4 DEF PagesOK
  <1>6. \A c \in B, p \in Phys : Reach(y, c, p) =>
          /\ p \in y.used \cup y.shared /\ p # NULL
          /\ p \in P \cup {q} => p \in y.shared
          /\ \A k \in B : k # c /\ Reach(y, k, p) => p \in y.shared
    BY <1>1, <1>2, <1>3, <1>4 DEF PagesOK
  <1>7. \A p \in y.used : p = NULL \/ p \in P \cup {q} \/ \E c \in B : Reach(y, c, p)
    BY <1>2, <1>3, <1>4 DEF PagesOK
  <1>8. PagesOK(y, B, P \cup {q})
    BY <1>1, <1>2, <1>5, <1>6, <1>7 DEF PagesOK
  <1>9. QED BY <1>1, <1>2, <1>3, <1>8 DEF Good

LEMMA AllocStep == ASSUME NEW x \in Memory, Placed PROVE Step(x, vmm_alloc(x))
  <1>1. PICK q, z : q = pmm_page(x) /\ z = pmm_take(x)
    OBVIOUS
  <1>2. Step(x, z) /\ q \in Phys
    BY <1>1, Take, TakeStep
  <1>3. z \in Memory
    BY <1>2 DEF Step
  <1>4. Step(z, MapKernel(z, q))
    BY <1>2, <1>3, MapKernelKeeps, KeptStep
  <1>5. QED BY <1>1, <1>2, <1>4, StepTwice DEF vmm_alloc

LEMMA AllocGood ==
    ASSUME NEW x \in Memory, NEW B \in SUBSET Slots, active \subseteq B, Placed, NEW P, Good(x, B, P),
           NEW q, q = pmm_page(x), NEW y, y = vmm_alloc(x), ~y.halted, ~y.exhausted
    PROVE  /\ Good(y, B, P \cup {q}) /\ SameUser(x, y, B) /\ y.used = x.used \cup {q}
           /\ q \in Phys /\ q \notin x.used /\ ~x.halted /\ ~x.exhausted
  <1>1. PICK z : z = pmm_take(x)
    OBVIOUS
  <1>2. q \in Phys /\ z \in Memory
    BY <1>1, Take DEF Used
  <1>3. y = MapKernel(z, q) /\ Kept(z, y)
    BY <1>1, <1>2, MapKernelKeeps DEF vmm_alloc
  <1>4. ~z.exhausted /\ y.used = z.used /\ y.shared = z.shared
    BY <1>3 DEF Kept
  <1>5. /\ Good(z, B, P \cup {q}) /\ SameUser(x, z, B) /\ z.used = x.used \cup {q}
        /\ q \notin x.used /\ ~x.exhausted /\ z.halted = x.halted
    BY <1>1, <1>4, TakeGood
  <1>6. ~z.halted /\ Halves(y, B) /\ TablesOK(y, B) /\ SameUser(z, y, B)
    BY <1>2, <1>3, <1>5, KernelMap DEF Good
  <1>7. \A c \in B, p \in Phys : Reach(y, c, p) <=> Reach(z, c, p)
    BY <1>5, <1>6, SameReach DEF Good
  <1>8. z.used \subseteq Phys
    BY <1>2, MemoryIs
  <1>9. PagesOK(y, B, P \cup {q})
    <2>1. PICK Q : Q = P \cup {q}
      OBVIOUS
    <2>2. PagesOK(z, B, Q)
      BY <1>5, <2>1 DEF Good
    <2>3. PagesOK(y, B, Q)
      BY <1>4, <1>7, <1>8, <2>2, SamePages
    <2>4. QED BY <2>1, <2>3
  <1>10. SameUser(x, y, B)
    BY <1>5, <1>6 DEF SameUser
  <1>11. QED BY <1>2, <1>4, <1>5, <1>6, <1>9, <1>10 DEF Good

LEMMA MapUserGood ==
    ASSUME NEW x \in Memory, NEW B \in SUBSET Slots, Placed, NEW c \in B, NEW v, IsUser(v), NEW q \in Phys, NEW P,
           Good(x, B, P \cup {q}), q \in P => q \in x.shared, Walk(x, c, v) = NIL,
           NEW y, y = MapUser(x, c, v, q), ~y.halted
    PROVE  Good(y, B, P) /\ UserMapped(x, y, B, c, v, q)
  <1>1. PICK Q, d, i : Q = P \cup {q} /\ d = Dir(v) /\ i = Idx(v)
    OBVIOUS
  <1>2. UserMapped(x, y, B, c, v, q)
    BY UserMap DEF Good, Placed
  <1>3. PagesOK(x, B, Q)
    BY <1>1 DEF Good
  <1>4. d \in Dirs /\ i \in Idxs /\ x.used \subseteq Phys /\ y.used = x.used /\ y.shared = x.shared
    BY <1>1, <1>2, KernelDirs, MemoryIs DEF UserMapped, Kept
  <1>5. \A k \in B, f \in Dirs, j \in Idxs :
           Entry(y, k, f, j) = IF k = c /\ f = d /\ j = i THEN UserEntry(q) ELSE Entry(x, k, f, j)
    BY <1>1, <1>2 DEF UserMapped, All
  <1>6. Entry(x, c, d, i).page = NIL
    BY <1>1, AbsentIs DEF Walk, Entry
  <1>7. \A p, r : UserEntry(p) = UserEntry(r) => p = r
    BY DEF UserEntry
  <1>8. \A k \in B, p \in Phys : Reach(y, k, p) <=> Reach(x, k, p) \/ (k = c /\ p = q)
    <2>1. TAKE k \in B, p \in Phys
    <2>2. ASSUME Reach(y, k, p) PROVE Reach(x, k, p) \/ (k = c /\ p = q)
      <3>1. PICK f \in Dirs, j \in Idxs : Entry(y, k, f, j) = UserEntry(p)
        BY <2>2 DEF Reach
      <3>2. QED BY <1>5, <1>7, <3>1 DEF Reach
    <2>3. ASSUME Reach(x, k, p) PROVE Reach(y, k, p)
      <3>1. PICK f \in Dirs, j \in Idxs : Entry(x, k, f, j) = UserEntry(p)
        BY <2>3 DEF Reach
      <3>2. UserEntry(p).page # NIL
        BY UserEntryIs
      <3>3. ~(k = c /\ f = d /\ j = i)
        BY <1>6, <3>1, <3>2
      <3>4. Entry(y, k, f, j) = UserEntry(p)
        BY <1>5, <3>1, <3>3
      <3>5. QED BY <3>4 DEF Reach
    <2>4. ASSUME k = c, p = q PROVE Reach(y, k, p)
      BY <1>4, <1>5, <2>4 DEF Reach
    <2>5. QED BY <2>2, <2>3, <2>4
  <1>9. NULL \in y.used /\ NULL \notin y.shared /\ NULL \notin Q /\ Q \subseteq y.used \cup y.shared
    BY <1>3, <1>4 DEF PagesOK
  <1>10. ASSUME NEW k \in B, NEW p \in Phys, Reach(y, k, p)
         PROVE  /\ p \in y.used \cup y.shared /\ p # NULL
                /\ p \in P => p \in y.shared
                /\ \A l \in B : l # k /\ Reach(y, l, p) => p \in y.shared
    <2>1. \A l \in B : Reach(x, l, p) =>
             /\ p \in x.used \cup x.shared /\ p # NULL
             /\ p \in Q => p \in x.shared
             /\ \A b \in B : b # l /\ Reach(x, b, p) => p \in x.shared
      BY <1>3 DEF PagesOK
    <2>2. p \in y.used \cup y.shared /\ p # NULL /\ (p \in P => p \in y.shared)
      BY <1>1, <1>4, <1>8, <1>9, <1>10, <2>1
    <2>3. ASSUME NEW l \in B, l # k, Reach(y, l, p) PROVE p \in y.shared
      BY <1>1, <1>4, <1>8, <1>10, <2>1, <2>3
    <2>4. QED BY <2>2, <2>3
  <1>11. \A p \in y.used : p = NULL \/ p \in P \/ \E k \in B : Reach(y, k, p)
    <2>1. TAKE p \in y.used
    <2>2. p \in Phys /\ (p = NULL \/ p \in P \/ p = q \/ \E k \in B : Reach(x, k, p))
      BY <1>1, <1>3, <1>4 DEF PagesOK
    <2>3. QED BY <1>8, <2>2
  <1>12. PagesOK(y, B, P)
    BY <1>1, <1>9, <1>10, <1>11 DEF PagesOK
  <1>13. QED BY <1>2, <1>12 DEF Good, UserMapped
-----------------------------------------------------------------------------
(* A new context: two fresh pages of the pool, the directory the kernel's. *)
WithContext(x, T, O, D) == [x EXCEPT !.tables = T, !.own = O, !.pd = D]
ContextSet(x, y, T, O, D) ==
    /\ y \in Memory /\ y.tables = T /\ y.own = O /\ y.pd = D /\ y.pt = x.pt /\ y.used = x.used /\ y.shared = x.shared
    /\ y.badfree = x.badfree /\ y.exhausted = x.exhausted /\ y.halted = x.halted

LEMMA SetContext ==
    ASSUME NEW x \in Memory, NEW T \in SUBSET Tables, NEW O \in [Contexts -> SUBSET Tables],
           NEW D \in [Contexts -> DirType], NEW y, y = WithContext(x, T, O, D)
    PROVE  ContextSet(x, y, T, O, D)
  BY MemoryIs DEF WithContext, ContextSet

LEMMA TwoFree ==
    ASSUME NEW x \in Memory, ~NoTables(x, 2), NEW t, t = Lowest(FreeTables(x)), NEW u, u = Lowest(FreeTables(x) \ {t})
    PROVE  t \in Tables /\ u \in Tables /\ t # u /\ t \notin x.tables /\ u \notin x.tables
  <1>1. PICK F : F = FreeTables(x)
    OBVIOUS
  <1>2. F \in SUBSET Nat /\ F \subseteq Tables /\ F \cap x.tables = {}
    BY <1>1, Constants DEF FreeTables
  <1>3. ~(Cardinality(F) < 2)
    BY <1>1 DEF NoTables
  <1>4. F # {}
    BY <1>3, FS_EmptySet
  <1>5. t \in F
    BY <1>1, <1>2, <1>4, Least
  <1>6. F # {t}
    BY <1>3, FS_Singleton
  <1>7. PICK G : G = F \ {t}
    OBVIOUS
  <1>8. G \in SUBSET Nat /\ G # {}
    BY <1>2, <1>4, <1>6, <1>7
  <1>9. u \in G
    BY <1>1, <1>7, <1>8, Least
  <1>10. QED BY <1>2, <1>5, <1>7, <1>9

(* t and u are the pages the context owns.                                 *)
Created(x, y, c, t, u) ==
    /\ ~x.halted /\ t \in Tables /\ u \in Tables /\ t \notin x.tables /\ u \notin x.tables
    /\ y.tables = x.tables \cup {t, u} /\ y.own[c] = {t, u} /\ y.pt = x.pt
    /\ \A k \in Contexts : k # c => y.own[k] = x.own[k] /\ y.pd[k] = x.pd[k]
    /\ \A d \in Dirs : y.pd[c][d] = x.pd[KERNEL][d]

LEMMA NewContext ==
    ASSUME NEW x \in Memory, NEW c \in Slots, NEW y, y = vmm_clone_kernel_context(vmm_create_context(x, c), c)
    PROVE  /\ Step(x, y) /\ y.used = x.used /\ y.exhausted = x.exhausted
           /\ ~y.halted => \E t, u : Created(x, y, c, t, u)
  <1>1. c \in Contexts /\ c # KERNEL /\ KERNEL \in Contexts
    BY Constants
  <1>2. PICK z : z = vmm_create_context(x, c)
    OBVIOUS
  <1>3. ASSUME z \in Memory
        PROVE  /\ y \in Memory /\ y.tables = z.tables /\ y.own = z.own /\ y.pt = z.pt /\ y.used = z.used /\ y.shared = z.shared
               /\ y.badfree = z.badfree /\ y.exhausted = z.exhausted /\ y.halted = z.halted
               /\ \A k \in Contexts : k # c => y.pd[k] = z.pd[k]
               /\ \A d \in Dirs : y.pd[c][d] = IF z.pd[KERNEL][d] # NIL THEN z.pd[KERNEL][d] ELSE z.pd[c][d]
    <2>1. z.tables \in SUBSET Tables /\ z.own \in [Contexts -> SUBSET Tables] /\ z.pd \in [Contexts -> DirType]
          /\ z.pd[c] \in DirType /\ z.pd[KERNEL] \in DirType
      BY <1>1, <1>3, MemoryIs
    <2>2. PICK f : f = [d \in Dirs |-> IF z.pd[KERNEL][d] # NIL THEN z.pd[KERNEL][d] ELSE z.pd[c][d]]
      OBVIOUS
    <2>3. f \in DirType
      BY <2>1, <2>2 DEF DirType
    <2>4. PICK D : D = [z.pd EXCEPT ![c] = f]
      OBVIOUS
    <2>5. D \in [Contexts -> DirType] /\ D[c] = f /\ \A k \in Contexts : k # c => D[k] = z.pd[k]
      BY <1>1, <2>1, <2>3, <2>4
    <2>6. y = [z EXCEPT !.pd = D]
      BY <1>2, <1>3, <2>2, <2>4, MemoryIs DEF vmm_clone_kernel_context
    <2>7. y = WithContext(z, z.tables, z.own, D)
      BY <1>3, <2>6, MemoryIs DEF WithContext
    <2>8. ContextSet(z, y, z.tables, z.own, D)
      BY <1>3, <2>1, <2>5, <2>7, SetContext
    <2>9. QED BY <2>2, <2>5, <2>8 DEF ContextSet
  <1>4. CASE x.halted \/ NoTables(x, 2)
    <2>1. z = Halt(x)
      BY <1>2, <1>4 DEF vmm_create_context
    <2>2. Kept(x, z) /\ z.halted
      BY <2>1, Halted
    <2>3. z \in Memory
      BY <2>2 DEF Kept
    <2>4. QED BY <1>3, <2>2, <2>3 DEF Kept, Step
  <1>5. CASE ~(x.halted \/ NoTables(x, 2))
    <2>1. PICK t : t = Lowest(FreeTables(x))
      OBVIOUS
    <2>2. PICK u : u = Lowest(FreeTables(x) \ {t})
      OBVIOUS
    <2>3. t \in Tables /\ u \in Tables /\ t # u /\ t \notin x.tables /\ u \notin x.tables
      BY <1>5, <2>1, <2>2, TwoFree
    <2>4. x.tables \in SUBSET Tables /\ x.own \in [Contexts -> SUBSET Tables] /\ x.pd \in [Contexts -> DirType]
      BY MemoryIs
    <2>5. PICK T, O, f : T = x.tables \cup {t, u} /\ O = [x.own EXCEPT ![c] = {t, u}] /\ f = [d \in Dirs |-> NIL]
      OBVIOUS
    <2>6. PICK D : D = [x.pd EXCEPT ![c] = f]
      OBVIOUS
    <2>7. T \in SUBSET Tables
      BY <2>3, <2>4, <2>5
    <2>8. O \in [Contexts -> SUBSET Tables] /\ O[c] = {t, u} /\ \A k \in Contexts : k # c => O[k] = x.own[k]
      <3>1. PICK g : g = {t, u}
        OBVIOUS
      <3>2. g \in SUBSET Tables
        BY <2>3, <3>1
      <3>3. QED BY <1>1, <2>4, <2>5, <3>1, <3>2
    <2>9. D \in [Contexts -> DirType] /\ D[c] = f /\ \A k \in Contexts : k # c => D[k] = x.pd[k]
      <3>1. f \in DirType
        BY <2>5 DEF DirType
      <3>2. QED BY <1>1, <2>4, <2>6, <3>1
    <2>10. z = WithContext(x, T, O, D)
      <3>1. z = [x EXCEPT !.tables = x.tables \cup {t, u}, !.own[c] = {t, u}, !.pd[c] = [d \in Dirs |-> NIL]]
        BY <1>2, <1>5, <2>1, <2>2 DEF vmm_create_context
      <3>2. QED BY <2>5, <2>6, <3>1, MemoryIs DEF WithContext
    <2>11. ContextSet(x, z, T, O, D)
      BY <2>7, <2>8, <2>9, <2>10, SetContext
    <2>12. /\ z \in Memory /\ z.tables = T /\ z.own = O /\ z.pd = D /\ z.pt = x.pt /\ z.used = x.used /\ z.shared = x.shared
           /\ z.badfree = x.badfree /\ z.exhausted = x.exhausted /\ z.halted = x.halted
      BY <2>11 DEF ContextSet
    <2>13. \A d \in Dirs : y.pd[c][d] = x.pd[KERNEL][d]
      <3>1. \A d \in Dirs : D[c][d] = NIL /\ D[KERNEL][d] = x.pd[KERNEL][d]
        BY <1>1, <2>5, <2>9
      <3>2. QED BY <1>3, <2>12, <3>1
    <2>14. Created(x, y, c, t, u)
      BY <1>3, <1>5, <2>3, <2>5, <2>8, <2>9, <2>12, <2>13 DEF Created
    <2>15. QED BY <1>3, <2>12, <2>14 DEF Step
  <1>6. QED BY <1>4, <1>5

LEMMA CreatedGood ==
    ASSUME NEW x \in Memory, NEW A \in SUBSET Slots, NEW c \in Slots, c \notin A, NEW P, Good(x, A, P),
           NEW y \in Memory, NEW t, NEW u, Created(x, y, c, t, u), y.used = x.used, y.shared = x.shared, NEW B, B = A \cup {c}
    PROVE  /\ Good(y, B, P)
           /\ \A d \in Dirs \ KDirs, i \in Idxs : Entry(y, c, d, i) = Absent
           /\ SameUser(x, y, A)
  <1>1. All(B) = All(A) \cup {c} /\ c # KERNEL /\ KERNEL \in All(A) /\ c \notin All(A) /\ All(B) \subseteq Contexts /\ KDirs \subseteq Dirs /\ 0 \in KDirs
    BY Constants, KernelDirs DEF All
  <1>2. /\ \A k \in All(A) : y.own[k] = x.own[k] /\ y.pd[k] = x.pd[k]
        /\ \A d \in Dirs : y.pd[c][d] = x.pd[KERNEL][d]
        /\ y.own[c] = {t, u} /\ y.tables = x.tables \cup {t, u} /\ y.pt = x.pt /\ t \notin x.tables /\ u \notin x.tables
    BY <1>1 DEF Created
  <1>3. /\ \A k \in All(A), d \in Dirs, i \in Idxs : Entry(y, k, d, i) = Entry(x, k, d, i)
        /\ \A d \in Dirs, i \in Idxs : Entry(y, c, d, i) = Entry(x, KERNEL, d, i)
    BY <1>2 DEF Entry
  <1>4. \A d \in Dirs \ KDirs, i \in Idxs : Entry(y, c, d, i) = Absent
    <2>1. \A d \in Dirs \ KDirs : x.pd[KERNEL][d] = NIL
      BY DEF Good, Halves
    <2>2. QED BY <1>3, <2>1 DEF Entry
  <1>5. SameUser(x, y, A)
    BY <1>3 DEF SameUser
  <1>6. Halves(y, B)
    <2>1. Halves(x, A)
      BY DEF Good
    <2>2. \A k \in All(B) : y.pd[k][0] = y.pd[KERNEL][0] /\ y.pd[k][0] # NIL
      <3>1. \A k \in All(A) : x.pd[k][0] = x.pd[KERNEL][0] /\ x.pd[k][0] # NIL
        BY <2>1 DEF Halves
      <3>2. y.pd[c][0] = x.pd[KERNEL][0] /\ y.pd[KERNEL] = x.pd[KERNEL]
        BY <1>1, <1>2
      <3>3. QED BY <1>1, <1>2, <3>1, <3>2
    <2>3. \A k \in All(B), d \in KDirs : y.pd[k][d] # NIL => y.pd[KERNEL][d] # NIL
      <3>1. \A k \in All(A), d \in KDirs : x.pd[k][d] # NIL => x.pd[KERNEL][d] # NIL
        BY <2>1 DEF Halves
      <3>2. y.pd[KERNEL] = x.pd[KERNEL]
        BY <1>1, <1>2
      <3>3. \A d \in KDirs : y.pd[c][d] = x.pd[KERNEL][d]
        BY <1>1, <1>2
      <3>4. TAKE k \in All(B), d \in KDirs
      <3>5. CASE k = c
        BY <3>2, <3>3, <3>5
      <3>6. CASE k # c
        <4>1. k \in All(A) /\ y.pd[k] = x.pd[k]
          BY <1>1, <1>2, <3>6
        <4>2. QED BY <3>1, <3>2, <4>1
      <3>7. QED BY <3>5, <3>6
    <2>4. \A k \in All(B), d \in KDirs, i \in Idxs :
             /\ ~Entry(y, k, d, i).user
             /\ Entry(y, k, d, i).page # NIL => Entry(y, KERNEL, d, i).page # NIL
      <3>1. \A k \in All(A), d \in KDirs, i \in Idxs :
             /\ ~Entry(x, k, d, i).user
             /\ Entry(x, k, d, i).page # NIL => Entry(x, KERNEL, d, i).page # NIL
        BY <2>1 DEF Halves
      <3>2. TAKE k \in All(B), d \in KDirs, i \in Idxs
      <3>3. PICK a \in All(A) : Entry(y, k, d, i) = Entry(x, a, d, i)
        BY <1>1, <1>3
      <3>4. Entry(y, KERNEL, d, i) = Entry(x, KERNEL, d, i)
        BY <1>1, <1>3
      <3>5. QED BY <3>1, <3>3, <3>4
    <2>5. \A d \in Dirs \ KDirs : y.pd[KERNEL][d] = NIL
      BY <1>1, <1>2, <2>1 DEF Halves
    <2>6. \A k \in B, d \in Dirs \ KDirs, i \in Idxs : Entry(y, k, d, i).user <=> Entry(y, k, d, i).page # NIL
      <3>1. \A k \in A : k \in All(A)
        BY DEF All
      <3>2. \A k \in A, d \in Dirs \ KDirs, i \in Idxs : Entry(y, k, d, i).user <=> Entry(y, k, d, i).page # NIL
        BY <1>3, <2>1, <3>1 DEF Halves
      <3>3. QED BY <1>4, <3>2, AbsentIs
    <2>7. QED BY <2>2, <2>3, <2>4, <2>5, <2>6 DEF Halves
  <1>7. TablesKept(x, A) /\ TablesApart(x, A) /\ TablesLive(x, A)
    BY DEF Good, TablesOK
  <1>8. TablesKept(y, B)
    <2>1. \A k \in All(B) : y.own[k] \subseteq y.tables
      BY <1>1, <1>2, <1>7 DEF TablesKept
    <2>2. \A k, l \in All(B) : k # l => y.own[k] \cap y.own[l] = {}
      <3>1. \A k, l \in All(A) : k # l => x.own[k] \cap x.own[l] = {}
        BY <1>7 DEF TablesKept
      <3>2. \A k \in All(A) : y.own[k] \cap {t, u} = {}
        BY <1>2, <1>7 DEF TablesKept
      <3>3. TAKE k, l \in All(B)
      <3>4. CASE k = c \/ l = c
        BY <1>1, <1>2, <3>2, <3>4
      <3>5. CASE k # c /\ l # c
        BY <1>1, <1>2, <3>1, <3>5
      <3>6. QED BY <3>4, <3>5
    <2>3. ASSUME NEW k \in All(B), NEW d \in Dirs, y.pd[k][d] # NIL
          PROVE  y.pd[k][d] \in y.tables /\ \A l \in All(B) : y.pd[k][d] \notin y.own[l]
      <3>1. PICK a \in All(A) : y.pd[k][d] = x.pd[a][d]
        BY <1>1, <1>2
      <3>2. x.pd[a][d] \in x.tables /\ \A l \in All(A) : x.pd[a][d] \notin x.own[l]
        BY <1>7, <2>3, <3>1 DEF TablesKept
      <3>3. QED BY <1>1, <1>2, <3>1, <3>2
    <2>4. QED BY <2>1, <2>2, <2>3 DEF TablesKept
  <1>9. TablesApart(y, B)
    <2>1. SUFFICES ASSUME NEW k \in All(B), NEW l \in All(B), NEW d \in Dirs, NEW e \in Dirs,
                          y.pd[k][d] # NIL, y.pd[k][d] = y.pd[l][e]
                   PROVE  d = e /\ (d \in KDirs \/ k = l)
      BY DEF TablesApart
    <2>2. PICK a \in All(A) : y.pd[k][d] = x.pd[a][d] /\ a = IF k = c THEN KERNEL ELSE k
      BY <1>1, <1>2
    <2>3. PICK b \in All(A) : y.pd[l][e] = x.pd[b][e] /\ b = IF l = c THEN KERNEL ELSE l
      BY <1>1, <1>2
    <2>4. d = e /\ (d \in KDirs \/ a = b)
      <3>1. x.pd[a][d] # NIL /\ x.pd[a][d] = x.pd[b][e]
        BY <2>1, <2>2, <2>3
      <3>2. QED BY <1>7, <3>1 DEF TablesApart
    <2>5. x.pd[KERNEL][d] # NIL => d \in KDirs
      BY DEF Good, Halves
    <2>6. QED BY <2>1, <2>2, <2>3, <2>4, <2>5
  <1>10. TablesLive(y, B)
    <2>1. SUFFICES ASSUME OneTable(y), NEW w \in y.tables PROVE IsLive(y, B, w)
      BY DEF TablesLive
    <2>2. CASE w \in {t, u}
      BY <1>1, <1>2, <2>2 DEF IsLive
    <2>3. CASE w \in x.tables
      <3>1. OneTable(x)
        BY <1>1, <1>2, <2>1 DEF OneTable
      <3>2. IsLive(x, A, w)
        BY <1>7, <2>3, <3>1 DEF TablesLive
      <3>3. QED BY <1>1, <1>2, <3>2 DEF IsLive
    <2>4. QED BY <1>2, <2>2, <2>3
  <1>11. PagesOK(y, B, P)
    <2>1. \A k \in A, p \in Phys : Reach(y, k, p) <=> Reach(x, k, p)
      <3>1. \A k \in A : k \in All(A)
        BY DEF All
      <3>2. QED BY <1>3, <3>1 DEF Reach
    <2>2. \A p \in Phys : ~Reach(y, c, p)
      <3>1. TAKE p \in Phys
      <3>2. \A d \in Dirs \ KDirs, i \in Idxs : Entry(y, c, d, i) # UserEntry(p)
        BY <1>4, UserEntryIs, AbsentIs
      <3>3. QED BY <1>6, <3>2, ReachUser
    <2>3. x.used \subseteq Phys /\ PagesOK(x, A, P)
      BY MemoryIs DEF Good
    <2>4. NULL \in y.used /\ NULL \notin y.shared /\ NULL \notin P /\ P \subseteq y.used \cup y.shared
      BY <2>3 DEF PagesOK
    <2>5. \A k \in A, p \in Phys : Reach(x, k, p) =>
             /\ p \in x.used \cup x.shared /\ p # NULL
             /\ p \in P => p \in x.shared
             /\ \A l \in A : l # k /\ Reach(x, l, p) => p \in x.shared
      BY <2>3 DEF PagesOK
    <2>6. \A k \in B, p \in Phys : Reach(y, k, p) =>
             /\ p \in y.used \cup y.shared /\ p # NULL
             /\ p \in P => p \in y.shared
             /\ \A l \in B : l # k /\ Reach(y, l, p) => p \in y.shared
      BY <2>1, <2>2, <2>5
    <2>7. \A p \in y.used : p = NULL \/ p \in P \/ \E k \in B : Reach(y, k, p)
      BY <2>1, <2>3 DEF PagesOK
    <2>8. QED BY <2>4, <2>6, <2>7 DEF PagesOK
  <1>12. QED BY <1>4, <1>5, <1>6, <1>8, <1>9, <1>10, <1>11 DEF Good, TablesOK
-----------------------------------------------------------------------------
(* A program being loaded into c: its pages are not given back, and what   *)
(* is mapped in the area of the vectors is mapped by its offset.           *)
Fresh(x, c) == \A v : IsUser(v) /\ Walk(x, c, v) # NIL =>
                   Walk(x, c, v) \in x.used /\ (v \in OffsetArea => v = Walk(x, c, v) + Offset)

LEMMA WalkEntry == ASSUME NEW x, NEW c, NEW v PROVE Walk(x, c, v) = Entry(x, c, Dir(v), Idx(v)).page
  BY AbsentIs DEF Walk, Entry

LEMMA WalkType == ASSUME NEW x \in Memory, NEW c \in Contexts, NEW v, IsUser(v)
                  PROVE  Entry(x, c, Dir(v), Idx(v)) \in EntryType /\ Walk(x, c, v) \in Phys \cup {NIL}
  <1>1. PICK d, i : d = Dir(v) /\ i = Idx(v)
    OBVIOUS
  <1>2. d \in Dirs /\ i \in Idxs
    BY <1>1, KernelDirs
  <1>3. x.pd \in [Contexts -> DirType] /\ x.pt \in [Tables -> TableType]
    BY MemoryIs
  <1>4. x.pd[c][d] \in Tables \cup {NIL}
    BY <1>2, <1>3 DEF DirType
  <1>5. Entry(x, c, d, i) \in EntryType
    BY <1>2, <1>3, <1>4, AbsentIs DEF Entry, TableType
  <1>6. Entry(x, c, d, i).page \in Phys \cup {NIL}
    BY <1>5 DEF EntryType
  <1>7. QED BY <1>1, <1>5, <1>6, WalkEntry

LEMMA SameWalk == ASSUME NEW x, NEW y, NEW B, SameUser(x, y, B), NEW c \in All(B), NEW v, IsUser(v)
                  PROVE  Walk(y, c, v) = Walk(x, c, v)
  <1>1. Dir(v) \in Dirs \ KDirs /\ Idx(v) \in Idxs
    BY KernelDirs
  <1>2. Entry(y, c, Dir(v), Idx(v)) = Entry(x, c, Dir(v), Idx(v))
    BY <1>1 DEF SameUser
  <1>3. QED BY <1>2, WalkEntry

(* What is mapped in user space is within reach, so it is not page 0.      *)
LEMMA WalkReach ==
    ASSUME NEW x \in Memory, NEW B \in SUBSET Slots, Halves(x, B), NEW c \in B, NEW v, IsUser(v), Walk(x, c, v) # NIL
    PROVE  Walk(x, c, v) \in Phys /\ Reach(x, c, Walk(x, c, v))
  <1>1. PICK d, i, e : d = Dir(v) /\ i = Idx(v) /\ e = Entry(x, c, d, i)
    OBVIOUS
  <1>2. d \in Dirs \ KDirs /\ i \in Idxs /\ c \in Contexts
    BY <1>1, KernelDirs, Constants
  <1>3. e \in EntryType /\ Walk(x, c, v) \in Phys \cup {NIL} /\ e.page = Walk(x, c, v)
    BY <1>1, <1>2, WalkType, WalkEntry
  <1>4. e.user
    BY <1>1, <1>2, <1>3 DEF Halves
  <1>5. e = UserEntry(e.page)
    BY <1>3, <1>4 DEF EntryType, UserEntry
  <1>6. QED BY <1>1, <1>2, <1>3, <1>5 DEF Reach

LEMMA FreshSame == ASSUME NEW x, NEW y, NEW B, SameUser(x, y, B), NEW c \in B, x.used \subseteq y.used, Fresh(x, c)
                   PROVE  Fresh(y, c)
  <1>1. c \in All(B)
    BY DEF All
  <1>2. \A v : IsUser(v) => Walk(y, c, v) = Walk(x, c, v)
    BY <1>1, SameWalk
  <1>3. QED BY <1>2 DEF Fresh

LEMMA MappedWalk ==
    ASSUME NEW x, NEW y, NEW B, NEW c \in B, NEW v, IsUser(v), NEW p \in Phys, UserMapped(x, y, B, c, v, p),
           NEW k \in All(B), NEW w, IsUser(w)
    PROVE  Walk(y, k, w) = IF k = c /\ w = v THEN p ELSE Walk(x, k, w)
  <1>1. Dir(w) \in Dirs /\ Idx(w) \in Idxs /\ v \in Nat /\ w \in Nat
    BY KernelDirs
  <1>2. Dir(w) = Dir(v) /\ Idx(w) = Idx(v) => w = v
    BY <1>1, AddressUnique
  <1>3. Entry(y, k, Dir(w), Idx(w)) = IF k = c /\ w = v THEN UserEntry(p) ELSE Entry(x, k, Dir(w), Idx(w))
    BY <1>1, <1>2 DEF UserMapped
  <1>4. QED BY <1>3, WalkEntry, UserEntryIs

LEMMA FreshMapped ==
    ASSUME NEW x, NEW y, NEW B, NEW c \in B, NEW v, IsUser(v), NEW p \in Phys, UserMapped(x, y, B, c, v, p),
           p \in x.used, v \in OffsetArea => v = p + Offset, Fresh(x, c)
    PROVE  Fresh(y, c)
  <1>1. \A w : IsUser(w) => Walk(y, c, w) = IF w = v THEN p ELSE Walk(x, c, w)
    BY MappedWalk DEF All
  <1>2. y.used = x.used
    BY DEF UserMapped, Kept
  <1>3. QED BY <1>1, <1>2 DEF Fresh

LEMMA OffsetFree ==
    ASSUME NEW q \in Phys
    PROVE  /\ IsUser(q + Offset) /\ q + Offset \in OffsetArea
           /\ \A x \in Memory, c \in Contexts : Fresh(x, c) /\ q \notin x.used => Walk(x, c, q + Offset) = NIL
  <1>1. PICK v : v = q + Offset
    OBVIOUS
  <1>2. v \in OffsetArea /\ IsUser(v)
    BY <1>1, SpaceAssumption DEF OffsetArea
  <1>3. ASSUME NEW x \in Memory, NEW c \in Contexts, Fresh(x, c), q \notin x.used, Walk(x, c, v) # NIL PROVE FALSE
    <2>1. PICK w : w = Walk(x, c, v)
      OBVIOUS
    <2>2. w \in Phys /\ w \in x.used /\ v = w + Offset
      BY <1>2, <1>3, <2>1, WalkType DEF Fresh
    <2>3. w \in Int /\ q \in Int /\ Offset \in Int
      BY <2>2, Constants
    <2>4. w = q
      <3>1. PICK a, b, o : a = w /\ b = q /\ o = Offset
        OBVIOUS
      <3>2. a \in Int /\ b \in Int /\ o \in Int /\ a + o = b + o
        BY <1>1, <2>2, <2>3, <3>1
      <3>3. a = b
        BY ONLY <3>2
      <3>4. QED BY <3>1, <3>3
    <2>5. QED BY <1>3, <2>2, <2>4
  <1>4. QED BY <1>1, <1>2, <1>3

(* A new page is nobody's, unless it was shared and freed.                 *)
LEMMA NewPage == ASSUME NEW x, NEW B, NEW P, Good(x, B, P), NEW q, q \notin x.used
                 PROVE  q \in P => q \in x.shared
  BY DEF Good, PagesOK
-----------------------------------------------------------------------------
LEMMA MapUserStep ==
    ASSUME NEW x \in Memory, Placed, NEW c \in Slots, NEW v, IsUser(v), NEW p \in Phys
    PROVE  Step(x, MapUser(x, c, v, p))
  BY MapUserKeeps, KeptStep

LEMMA PageIs == ASSUME NEW x \in Memory PROVE pmm_page(x) \in Phys
  BY Take

LEMMA InitTaskStep == ASSUME NEW x \in Memory, Placed, NEW c \in Slots PROVE Step(x, init_task(x, c))
  <1>1. PICK a : a = vmm_alloc(x)
    OBVIOUS
  <1>2. PICK b, q : b = vmm_alloc(a) /\ q = pmm_page(a)
    OBVIOUS
  <1>3. PICK y : y = vmm_clone_kernel_context(vmm_create_context(b, c), c)
    OBVIOUS
  <1>4. Step(x, a) /\ a \in Memory
    BY <1>1, AllocStep DEF Step
  <1>5. Step(a, b) /\ b \in Memory /\ q \in Phys
    BY <1>2, <1>4, AllocStep, PageIs DEF Step
  <1>6. Step(b, y)
    BY <1>3, <1>5, NewContext
  <1>7. y \in Memory
    BY <1>6 DEF Step
  <1>8. Step(y, MapUser(y, c, q + Offset, q))
    BY <1>5, <1>7, OffsetFree, MapUserStep
  <1>9. init_task(x, c) = MapUser(y, c, q + Offset, q)
    BY <1>1, <1>2, <1>3 DEF init_task
  <1>10. QED BY <1>4, <1>5, <1>6, <1>8, <1>9, StepTwice

LEMMA InitTaskGood ==
    ASSUME NEW x \in Memory, Placed, NEW A, A = active, NEW c \in Slots, c \notin A, NEW P, Good(x, A, P),
           NEW p, p = pmm_page(x), NEW y, y = init_task(x, c), ~y.halted, ~y.exhausted, NEW B, B = A \cup {c}
    PROVE  /\ Good(y, B, P \cup {p}) /\ Fresh(y, c)
           /\ p \in Phys /\ p \notin x.used /\ ~x.halted /\ ~x.exhausted
  <1>1. PICK a : a = vmm_alloc(x)
    OBVIOUS
  <1>2. PICK b, q : b = vmm_alloc(a) /\ q = pmm_page(a)
    OBVIOUS
  <1>3. PICK z : z = vmm_clone_kernel_context(vmm_create_context(b, c), c)
    OBVIOUS
  <1>4. PICK v : v = q + Offset
    OBVIOUS
  <1>5. y = MapUser(z, c, v, q)
    BY <1>1, <1>2, <1>3, <1>4 DEF init_task
  <1>6. Step(x, a) /\ a \in Memory
    BY <1>1, AllocStep DEF Step
  <1>7. Step(a, b) /\ b \in Memory /\ q \in Phys
    BY <1>2, <1>6, AllocStep, PageIs DEF Step
  <1>8. Step(b, z) /\ z.used = b.used /\ z.exhausted = b.exhausted /\ (~z.halted => \E t, u : Created(b, z, c, t, u))
    BY <1>3, <1>7, NewContext
  <1>9. z \in Memory /\ z.shared = b.shared
    BY <1>8 DEF Step
  <1>10. IsUser(v) /\ v \in OffsetArea
    BY <1>4, <1>7, OffsetFree
  <1>11. Kept(z, y)
    BY <1>5, <1>7, <1>9, <1>10, MapUserKeeps
  <1>12. ~z.halted /\ ~z.exhausted
    BY <1>11 DEF Kept
  <1>13. ~b.halted /\ ~b.exhausted
    BY <1>8, <1>12 DEF Step
  <1>14. ~a.halted /\ ~a.exhausted
    BY <1>7, <1>13 DEF Step
  <1>15. A \in SUBSET Slots /\ active \subseteq A /\ B \in SUBSET Slots /\ c \in B
    BY DEF Placed
  <1>16. PICK Q : Q = P \cup {p}
    OBVIOUS
  <1>17. Good(a, A, Q) /\ p \in Phys /\ p \notin x.used /\ ~x.halted /\ ~x.exhausted
    BY <1>1, <1>14, <1>15, <1>16, AllocGood
  <1>18. Good(b, A, Q \cup {q}) /\ q \notin a.used /\ b.used = a.used \cup {q}
    BY <1>2, <1>6, <1>13, <1>15, <1>17, AllocGood
  <1>19. PICK t, u : Created(b, z, c, t, u)
    BY <1>8, <1>12
  <1>20. Good(z, B, Q \cup {q}) /\ \A d \in Dirs \ KDirs, i \in Idxs : Entry(z, c, d, i) = Absent
    <2>1. PICK R : R = Q \cup {q}
      OBVIOUS
    <2>2. Good(b, A, R)
      BY <1>18, <2>1
    <2>3. Good(z, B, R) /\ \A d \in Dirs \ KDirs, i \in Idxs : Entry(z, c, d, i) = Absent
      BY <1>7, <1>8, <1>9, <1>15, <1>19, <2>2, CreatedGood
    <2>4. QED BY <2>1, <2>3
  <1>21. \A w : IsUser(w) => Walk(z, c, w) = NIL
    BY <1>20, KernelDirs, WalkEntry, AbsentIs
  <1>22. q \in Q => q \in z.shared
    BY <1>7, <1>9, <1>17, <1>18, NewPage DEF Step
  <1>23. Good(y, B, Q) /\ UserMapped(z, y, B, c, v, q)
    BY <1>5, <1>7, <1>9, <1>10, <1>15, <1>20, <1>21, <1>22, MapUserGood
  <1>24. Fresh(z, c) /\ q \in z.used
    BY <1>8, <1>18, <1>21 DEF Fresh
  <1>25. Fresh(y, c)
    BY <1>4, <1>7, <1>10, <1>15, <1>23, <1>24, FreshMapped
  <1>26. QED BY <1>16, <1>17, <1>23, <1>25

LEMMA LoadVectorStep == ASSUME NEW x \in Memory, Placed, NEW c \in Slots PROVE Step(x, load_vector(x, c))
  <1>1. PICK a, q : a = vmm_alloc(x) /\ q = pmm_page(x)
    OBVIOUS
  <1>2. Step(x, a) /\ a \in Memory /\ q \in Phys
    BY <1>1, AllocStep, PageIs DEF Step
  <1>3. Step(a, MapUser(a, c, q + Offset, q))
    BY <1>2, OffsetFree, MapUserStep
  <1>4. load_vector(x, c) = MapUser(a, c, q + Offset, q)
    BY <1>1 DEF load_vector
  <1>5. QED BY <1>2, <1>3, <1>4, StepTwice

LEMMA LoadVectorGood ==
    ASSUME NEW x \in Memory, Placed, NEW B \in SUBSET Slots, active \subseteq B, NEW c \in B, NEW P, Good(x, B, P), Fresh(x, c),
           NEW y, y = load_vector(x, c), ~y.halted, ~y.exhausted
    PROVE  Good(y, B, P) /\ Fresh(y, c)
  <1>1. PICK a, q : a = vmm_alloc(x) /\ q = pmm_page(x)
    OBVIOUS
  <1>2. PICK v : v = q + Offset
    OBVIOUS
  <1>3. y = MapUser(a, c, v, q)
    BY <1>1, <1>2 DEF load_vector
  <1>4. Step(x, a) /\ a \in Memory /\ q \in Phys
    BY <1>1, AllocStep, PageIs DEF Step
  <1>5. IsUser(v) /\ v \in OffsetArea /\ c \in Contexts /\ c \in Slots
    BY <1>2, <1>4, OffsetFree, Constants
  <1>6. Kept(a, y)
    BY <1>3, <1>4, <1>5, MapUserKeeps
  <1>7. ~a.halted /\ ~a.exhausted
    BY <1>6 DEF Kept
  <1>8. Good(a, B, P \cup {q}) /\ SameUser(x, a, B) /\ a.used = x.used \cup {q} /\ q \notin x.used
    BY <1>1, <1>7, AllocGood
  <1>9. Walk(a, c, v) = NIL
    <2>1. Walk(x, c, v) = NIL
      BY <1>2, <1>4, <1>5, <1>8, OffsetFree
    <2>2. c \in All(B)
      BY DEF All
    <2>3. QED BY <1>5, <1>8, <2>1, <2>2, SameWalk
  <1>10. q \in P => q \in a.shared
    BY <1>4, <1>8, NewPage DEF Step
  <1>11. Good(y, B, P) /\ UserMapped(a, y, B, c, v, q)
    BY <1>3, <1>4, <1>5, <1>8, <1>9, <1>10, MapUserGood
  <1>12. Fresh(a, c)
    BY <1>8, FreshSame
  <1>13. Fresh(y, c)
    BY <1>2, <1>4, <1>5, <1>8, <1>11, <1>12, FreshMapped
  <1>14. QED BY <1>11, <1>13

LEMMA LoadSegmentStep ==
    ASSUME NEW x \in Memory, Placed, NEW c \in Slots, NEW v, IsUser(v) PROVE Step(x, load_segment(x, c, v))
  <1>1. PICK a, q : a = pmm_take(x) /\ q = pmm_page(x)
    OBVIOUS
  <1>2. Step(x, a) /\ a \in Memory /\ q \in Phys
    BY <1>1, TakeStep, PageIs DEF Step
  <1>3. q \in a.used
    BY <1>1, Take DEF Used
  <1>4. Step(a, pmm_free(a, q))
    <2>1. PICK y : y = pmm_free(a, q)
      OBVIOUS
    <2>2. /\ Used(a, y, a.used \ {q}) /\ y.shared = a.shared /\ y.exhausted = a.exhausted
          /\ y.badfree = (a.badfree \/ q \notin a.used \cup a.shared)
      BY <1>2, <2>1, Free
    <2>3. a.badfree \in BOOLEAN
      BY <1>2, MemoryIs
    <2>4. y.badfree = a.badfree
      BY ONLY <1>3, <2>2, <2>3, Zenon
    <2>5. QED BY <2>1, <2>2, <2>4 DEF Step, Used
  <1>5. Step(a, MapUser(a, c, v, q))
    BY <1>2, MapUserStep
  <1>6. load_segment(x, c, v) = pmm_free(a, q) \/ load_segment(x, c, v) = MapUser(a, c, v, q)
    BY <1>1 DEF load_segment
  <1>7. QED BY <1>2, <1>4, <1>5, <1>6, StepTwice

LEMMA LoadSegmentGood ==
    ASSUME NEW x \in Memory, Placed, NEW B \in SUBSET Slots, NEW c \in B, NEW P, Good(x, B, P), Fresh(x, c),
           NEW v, IsUser(v), v \notin OffsetArea, NEW y, y = load_segment(x, c, v), ~y.halted, ~y.exhausted
    PROVE  Good(y, B, P) /\ Fresh(y, c)
  <1>1. PICK a, q : a = pmm_take(x) /\ q = pmm_page(x)
    OBVIOUS
  <1>2. Step(x, a) /\ a \in Memory /\ q \in Phys /\ c \in Slots /\ c \in All(B)
    BY <1>1, TakeStep, PageIs DEF Step, All
  <1>3. CASE vmm_lookup(x, c, v) # NULL
    <2>1. y = pmm_free(a, q)
      BY <1>1, <1>3 DEF load_segment
    <2>2. Used(a, y, a.used \ {q}) /\ y.shared = a.shared /\ y.exhausted = a.exhausted
      BY <1>2, <2>1, Free
    <2>3. ~a.exhausted
      BY <2>2
    <2>4. a.used = x.used \cup {q} /\ q \notin x.used /\ Used(x, a, x.used \cup {q}) /\ a.shared = x.shared
      BY <1>1, <2>3, Take DEF Used
    <2>5. y.used = x.used /\ y.shared = x.shared
      BY <2>2, <2>4 DEF Used
    <2>6. Used(x, y, x.used)
      BY <2>2, <2>4, <2>5 DEF Used
    <2>7. Halves(y, B) /\ TablesOK(y, B) /\ SameUser(x, y, B) /\ \A k, p : Reach(y, k, p) <=> Reach(x, k, p)
      BY <2>6, UsedSame DEF Good
    <2>8. x.used \subseteq Phys
      BY MemoryIs
    <2>9. PagesOK(y, B, P)
      BY <2>5, <2>7, <2>8, SamePages DEF Good
    <2>10. Fresh(y, c)
      BY <2>5, <2>7, FreshSame
    <2>11. QED BY <2>7, <2>9, <2>10 DEF Good
  <1>4. CASE vmm_lookup(x, c, v) = NULL
    <2>1. y = MapUser(a, c, v, q)
      BY <1>1, <1>4 DEF load_segment
    <2>2. Kept(a, y)
      BY <1>2, <2>1, MapUserKeeps
    <2>3. ~a.exhausted
      BY <2>2 DEF Kept
    <2>4. Good(a, B, P \cup {q}) /\ SameUser(x, a, B) /\ a.used = x.used \cup {q} /\ q \notin x.used
      BY <1>1, <2>3, TakeGood
    <2>5. Walk(x, c, v) = NIL
      <3>1. SUFFICES ASSUME Walk(x, c, v) # NIL PROVE FALSE
        OBVIOUS
      <3>2. Walk(x, c, v) \in Phys /\ Reach(x, c, Walk(x, c, v))
        BY <3>1, WalkReach DEF Good
      <3>3. Walk(x, c, v) # NULL
        BY <3>2 DEF Good, PagesOK
      <3>4. QED BY <1>4, <3>1, <3>3 DEF vmm_lookup
    <2>6. Walk(a, c, v) = NIL
      BY <1>2, <2>4, <2>5, SameWalk
    <2>7. q \in P => q \in a.shared
      BY <1>2, <2>4, NewPage DEF Step
    <2>8. Good(y, B, P) /\ UserMapped(a, y, B, c, v, q)
      BY <1>2, <2>1, <2>4, <2>6, <2>7, MapUserGood
    <2>9. Fresh(a, c)
      BY <2>4, FreshSame
    <2>10. Fresh(y, c)
      BY <1>2, <2>4, <2>8, <2>9, FreshMapped
    <2>11. QED BY <2>8, <2>10
  <1>5. QED BY <1>3, <1>4

(* The function init_elf defines by recursion, up to segment n.            *)
Loads(f, x, c, prog, n) ==
    f = [i \in 0 .. n |-> IF i = 0 THEN init_task(x, c) ELSE load_segment(f[i - 1], c, prog[i])]

LEMMA LoadsExists == ASSUME NEW x, NEW c, NEW prog, NEW n \in Nat PROVE \E f : Loads(f, x, c, prog, n)
  <1>1. PICK S : S = {k \in Nat : ~\E f : Loads(f, x, c, prog, k)}
    OBVIOUS
  <1>2. SUFFICES ASSUME S # {} PROVE FALSE
    BY <1>1
  <1>3. PICK k : k = Lowest(S)
    OBVIOUS
  <1>4. k \in S /\ \A j \in S : k <= j
    BY <1>1, <1>2, <1>3, Least
  <1>5. k \in Nat /\ \A f : ~Loads(f, x, c, prog, k)
    BY <1>1, <1>4
  <1>6. CASE k = 0
    <2>1. PICK f : f = [i \in 0 .. 0 |-> init_task(x, c)]
      OBVIOUS
    <2>2. f = [i \in 0 .. 0 |-> IF i = 0 THEN init_task(x, c) ELSE load_segment(f[i - 1], c, prog[i])]
      <3>1. \A i \in 0 .. 0 : i = 0
        OBVIOUS
      <3>2. QED BY <2>1, <3>1
    <2>3. QED BY <1>5, <1>6, <2>2 DEF Loads
  <1>7. CASE k # 0
    <2>1. PICK j : j = k - 1
      OBVIOUS
    <2>2. j \in Nat /\ ~(k <= j) /\ j + 1 = k
      BY <1>5, <1>7, <2>1
    <2>3. PICK g : Loads(g, x, c, prog, j)
      BY <1>1, <1>4, <2>2
    <2>4. \A i \in 0 .. j : g[i] = IF i = 0 THEN init_task(x, c) ELSE load_segment(g[i - 1], c, prog[i])
      BY <2>3 DEF Loads
    <2>5. PICK f : f = [i \in 0 .. k |-> IF i = k THEN load_segment(g[j], c, prog[k]) ELSE g[i]]
      OBVIOUS
    <2>6. \A i \in 0 .. j : i \in 0 .. k /\ i # k
      BY <2>2, <1>5
    <2>7. \A i \in 0 .. j : f[i] = g[i]
      BY <2>5, <2>6
    <2>8. \A i \in 0 .. k : i # 0 => i - 1 \in 0 .. j
      BY <1>5, <2>2
    <2>9. \A i \in 0 .. k : i # k => i \in 0 .. j
      BY <1>5, <2>2
    <2>10. f[k] = load_segment(f[k - 1], c, prog[k])
      <3>1. k \in 0 .. k /\ k - 1 = j /\ j \in 0 .. j
        BY <1>5, <2>1, <2>2
      <3>2. f[k - 1] = g[j]
        BY <2>7, <3>1
      <3>3. QED BY <2>5, <3>1, <3>2
    <2>11. \A i \in 0 .. k : f[i] = IF i = 0 THEN init_task(x, c) ELSE load_segment(f[i - 1], c, prog[i])
      <3>1. TAKE i \in 0 .. k
      <3>2. CASE i = k
        BY <1>7, <2>10, <3>2
      <3>3. CASE i # k
        <4>1. i \in 0 .. j /\ f[i] = g[i]
          BY <2>7, <2>9, <3>3
        <4>2. i # 0 => f[i - 1] = g[i - 1]
          BY <2>7, <2>8
        <4>3. QED BY <2>4, <4>1, <4>2
      <3>4. QED BY <3>2, <3>3
    <2>12. f = [i \in 0 .. k |-> IF i = 0 THEN init_task(x, c) ELSE load_segment(f[i - 1], c, prog[i])]
      BY <2>5, <2>11
    <2>13. QED BY <1>5, <2>12 DEF Loads
  <1>8. QED BY <1>6, <1>7

LEMMA InitElf ==
    ASSUME NEW x, NEW c, NEW prog, Len(prog) \in Nat
    PROVE  \E L : /\ init_elf(x, c, prog) = load_vector(load_vector(L[Len(prog)], c), c)
                  /\ L[0] = init_task(x, c)
                  /\ \A i \in 1 .. Len(prog) : L[i] = load_segment(L[i - 1], c, prog[i])
  <1>1. PICK n : n = Len(prog)
    OBVIOUS
  <1>2. PICK L : L = CHOOSE f : f = [i \in 0 .. Len(prog) |->
                        IF i = 0 THEN init_task(x, c) ELSE load_segment(f[i - 1], c, prog[i])]
    OBVIOUS
  <1>3. init_elf(x, c, prog) = load_vector(load_vector(L[Len(prog)], c), c)
    BY <1>2 DEF init_elf
  <1>4. Loads(L, x, c, prog, n)
    <2>1. \E f : Loads(f, x, c, prog, n)
      BY <1>1, LoadsExists
    <2>2. \E f : f = [i \in 0 .. Len(prog) |-> IF i = 0 THEN init_task(x, c) ELSE load_segment(f[i - 1], c, prog[i])]
      BY <1>1, <2>1 DEF Loads
    <2>3. L = [i \in 0 .. Len(prog) |-> IF i = 0 THEN init_task(x, c) ELSE load_segment(L[i - 1], c, prog[i])]
      BY <1>2, <2>2
    <2>4. QED BY <1>1, <2>3 DEF Loads
  <1>5. \A i \in 0 .. n : L[i] = IF i = 0 THEN init_task(x, c) ELSE load_segment(L[i - 1], c, prog[i])
    BY <1>4 DEF Loads
  <1>6. n \in Nat /\ 0 \in 0 .. n /\ \A i \in 1 .. n : i \in 0 .. n /\ i # 0
    BY <1>1
  <1>7. L[0] = init_task(x, c) /\ \A i \in 1 .. n : L[i] = load_segment(L[i - 1], c, prog[i])
    BY <1>5, <1>6
  <1>8. QED BY <1>1, <1>3, <1>7

LoadedOK(x, y, A, B, c, P, Q) ==
    /\ Step(x, y)
    /\ Good(x, A, P) /\ ~y.halted /\ ~y.exhausted => Good(y, B, Q) /\ Fresh(y, c) /\ pmm_page(x) \notin x.used

LEMMA LoadOne ==
    ASSUME NEW x, NEW y, Placed, NEW A, NEW B \in SUBSET Slots, NEW c \in B, NEW P, NEW Q, LoadedOK(x, y, A, B, c, P, Q),
           NEW v, IsUser(v), v \notin OffsetArea, NEW z, z = load_segment(y, c, v)
    PROVE  LoadedOK(x, z, A, B, c, P, Q)
  <1>1. y \in Memory /\ Step(x, y)
    BY DEF LoadedOK, Step
  <1>2. Step(y, z)
    BY <1>1, LoadSegmentStep
  <1>3. Step(x, z) /\ (~z.halted /\ ~z.exhausted => ~y.halted /\ ~y.exhausted)
    BY <1>1, <1>2, StepTwice DEF Step
  <1>4. ASSUME Good(x, A, P), ~z.halted, ~z.exhausted PROVE Good(z, B, Q) /\ Fresh(z, c) /\ pmm_page(x) \notin x.used
    <2>1. Good(y, B, Q) /\ Fresh(y, c) /\ pmm_page(x) \notin x.used
      BY <1>3, <1>4 DEF LoadedOK
    <2>2. QED BY <1>1, <1>4, <2>1, LoadSegmentGood
  <1>5. QED BY <1>3, <1>4 DEF LoadedOK

LEMMA VectorOne ==
    ASSUME NEW x, NEW y, Placed, NEW A, NEW B \in SUBSET Slots, active \subseteq B, NEW c \in B, NEW P, NEW Q,
           LoadedOK(x, y, A, B, c, P, Q), NEW z, z = load_vector(y, c)
    PROVE  LoadedOK(x, z, A, B, c, P, Q)
  <1>1. y \in Memory /\ Step(x, y)
    BY DEF LoadedOK, Step
  <1>2. Step(y, z)
    BY <1>1, LoadVectorStep
  <1>3. Step(x, z) /\ (~z.halted /\ ~z.exhausted => ~y.halted /\ ~y.exhausted)
    BY <1>1, <1>2, StepTwice DEF Step
  <1>4. ASSUME Good(x, A, P), ~z.halted, ~z.exhausted PROVE Good(z, B, Q) /\ Fresh(z, c) /\ pmm_page(x) \notin x.used
    <2>1. Good(y, B, Q) /\ Fresh(y, c) /\ pmm_page(x) \notin x.used
      BY <1>3, <1>4 DEF LoadedOK
    <2>2. QED BY <1>1, <1>4, <2>1, LoadVectorGood
  <1>5. QED BY <1>3, <1>4 DEF LoadedOK

LEMMA ProgramIs == ASSUME NEW prog \in Programs
                   PROVE  Len(prog) \in Nat /\ \A i \in 1 .. Len(prog) : IsUser(prog[i]) /\ prog[i] \notin OffsetArea
  <1>1. prog \in Seq(Nat) /\ \A i \in 1 .. Len(prog) : IsUser(prog[i]) /\ prog[i] \notin OffsetArea
    BY SpaceAssumption
  <1>2. QED BY <1>1

(* A program is loaded: its context joins those in order, p is its stack.  *)
LEMMA ElfLoaded ==
    ASSUME NEW x \in Memory, Placed, NEW c \in Slots, c \notin active, NEW prog \in Programs, NEW P,
           NEW p, p = pmm_page(x), NEW y, y = init_elf(x, c, prog)
    PROVE  LoadedOK(x, y, active, active \cup {c}, c, P, P \cup {p})
  <1>1. PICK A, B, Q : A = active /\ B = active \cup {c} /\ Q = P \cup {p}
    OBVIOUS
  <1>2. B \in SUBSET Slots /\ active \subseteq B /\ c \in B /\ A = active /\ B = A \cup {c} /\ c \notin A
    BY <1>1 DEF Placed
  <1>3. PICK n : n = Len(prog)
    OBVIOUS
  <1>4. n \in Nat /\ \A i \in 1 .. n : IsUser(prog[i]) /\ prog[i] \notin OffsetArea
    BY <1>3, ProgramIs
  <1>5. PICK L : /\ y = load_vector(load_vector(L[n], c), c)
                 /\ L[0] = init_task(x, c)
                 /\ \A i \in 1 .. n : L[i] = load_segment(L[i - 1], c, prog[i])
    BY <1>3, <1>4, InitElf
  <1>6. LoadedOK(x, L[0], A, B, c, P, Q)
    <2>1. PICK z : z = L[0]
      OBVIOUS
    <2>2. z = init_task(x, c)
      BY <1>5, <2>1
    <2>3. Step(x, z)
      BY <2>2, InitTaskStep
    <2>4. ASSUME Good(x, A, P), ~z.halted, ~z.exhausted PROVE Good(z, B, Q) /\ Fresh(z, c) /\ pmm_page(x) \notin x.used
      BY <1>1, <1>2, <2>2, <2>4, InitTaskGood
    <2>5. QED BY <2>1, <2>3, <2>4 DEF LoadedOK
  <1>7. \A i \in 0 .. n : LoadedOK(x, L[i], A, B, c, P, Q)
    <2>1. PICK S : S = {i \in 0 .. n : ~LoadedOK(x, L[i], A, B, c, P, Q)}
      OBVIOUS
    <2>2. SUFFICES ASSUME S # {} PROVE FALSE
      BY <2>1
    <2>3. PICK k : k = Lowest(S)
      OBVIOUS
    <2>4. S \in SUBSET Nat
      BY <1>4, <2>1
    <2>5. k \in S /\ \A j \in S : k <= j
      BY <2>2, <2>3, <2>4, Least
    <2>6. k \in 0 .. n /\ ~LoadedOK(x, L[k], A, B, c, P, Q)
      BY <2>1, <2>5
    <2>7. k # 0
      BY <1>6, <2>6
    <2>8. PICK j : j = k - 1
      OBVIOUS
    <2>9. j \in 0 .. n /\ ~(k <= j) /\ k \in 1 .. n
      BY <1>4, <2>6, <2>7, <2>8
    <2>10. LoadedOK(x, L[j], A, B, c, P, Q)
      BY <2>1, <2>5, <2>9
    <2>11. PICK v, w, z : v = prog[k] /\ w = L[j] /\ z = L[k]
      OBVIOUS
    <2>12. IsUser(v) /\ v \notin OffsetArea /\ z = load_segment(w, c, v) /\ LoadedOK(x, w, A, B, c, P, Q)
      BY <1>4, <1>5, <2>8, <2>9, <2>10, <2>11
    <2>13. LoadedOK(x, z, A, B, c, P, Q)
      BY <1>2, <2>12, LoadOne
    <2>14. QED BY <2>6, <2>11, <2>13
  <1>8. PICK w : w = L[n]
    OBVIOUS
  <1>9. LoadedOK(x, w, A, B, c, P, Q)
    BY <1>4, <1>7, <1>8
  <1>10. PICK z : z = load_vector(w, c)
    OBVIOUS
  <1>11. LoadedOK(x, z, A, B, c, P, Q)
    BY <1>2, <1>9, <1>10, VectorOne
  <1>12. y = load_vector(z, c)
    BY <1>5, <1>8, <1>10
  <1>13. LoadedOK(x, y, A, B, c, P, Q)
    BY <1>2, <1>11, <1>12, VectorOne
  <1>14. QED BY <1>1, <1>13
-----------------------------------------------------------------------------
(* A page of the kernel is given back; a shared one may stay in P.         *)
LEMMA FreeGood ==
    ASSUME NEW x \in Memory, NEW B, NEW P, Good(x, B, P), NEW p \in P, NEW Q, Q \subseteq P, P \ {p} \subseteq Q,
           p \in Q => p \in x.shared, NEW y, y = pmm_free(x, p)
    PROVE  Good(y, B, Q) /\ y.badfree = x.badfree
  <1>1. /\ Used(x, y, x.used \ {p}) /\ y.shared = x.shared
        /\ y.badfree = (x.badfree \/ p \notin x.used \cup x.shared)
    BY Free
  <1>2. y.used = x.used \ {p}
    BY <1>1 DEF Used
  <1>3. Halves(y, B) /\ TablesOK(y, B) /\ \A c, r : Reach(y, c, r) <=> Reach(x, c, r)
    BY <1>1, UsedSame DEF Good
  <1>4. PagesOK(x, B, P)
    BY DEF Good
  <1>5. NULL \in x.used /\ NULL \notin x.shared /\ NULL \notin P /\ P \subseteq x.used \cup x.shared
    BY <1>4 DEF PagesOK
  <1>6. x.badfree \in BOOLEAN /\ p \in x.used \cup x.shared
    BY <1>5, MemoryIs
  <1>7. y.badfree = x.badfree
    BY ONLY <1>1, <1>6, Zenon
  <1>8. \A c \in B, r \in Phys : Reach(x, c, r) =>
          /\ r \in x.used \cup x.shared /\ r # NULL
          /\ r \in P => r \in x.shared
          /\ \A k \in B : k # c /\ Reach(x, k, r) => r \in x.shared
    BY <1>4 DEF PagesOK
  <1>9. \A c \in B, r \in Phys : Reach(y, c, r) =>
          /\ r \in y.used \cup y.shared /\ r # NULL
          /\ r \in Q => r \in y.shared
          /\ \A k \in B : k # c /\ Reach(y, k, r) => r \in y.shared
    BY <1>1, <1>2, <1>3, <1>8
  <1>10. \A r \in y.used : r = NULL \/ r \in Q \/ \E c \in B : Reach(y, c, r)
    BY <1>2, <1>3, <1>4 DEF PagesOK
  <1>11. NULL \in y.used /\ NULL \notin y.shared /\ NULL \notin Q /\ Q \subseteq y.used \cup y.shared
    BY <1>1, <1>2, <1>5
  <1>12. PagesOK(y, B, Q)
    BY <1>9, <1>10, <1>11 DEF PagesOK
  <1>13. QED BY <1>3, <1>7, <1>12 DEF Good

(* A page that is shared may count as the kernel's or not.                 *)
LEMMA ShareIs ==
    ASSUME NEW x \in Memory, NEW q, q = pmm_page(x), NEW z, z = pmm_take(x), NEW y, y = Share(x)
    PROVE  Used(z, y, z.used) /\ y.badfree = z.badfree /\ y.exhausted = z.exhausted /\ y.shared = x.shared \cup {q} /\ y \in Memory
  <1>1. PICK u : u = x.shared \cup {q}
    OBVIOUS
  <1>2. Used(x, z, x.used \cup {q}) /\ z.shared = x.shared /\ q \in Phys
    BY Take
  <1>3. z \in Memory /\ x.shared \in SUBSET Phys
    BY <1>2, MemoryIs DEF Used
  <1>4. u \in SUBSET Phys
    BY <1>1, <1>2, <1>3
  <1>5. y = WithShared(z, u)
    BY <1>1, <1>2 DEF Share, WithShared
  <1>6. Used(z, y, z.used) /\ y.badfree = z.badfree /\ y.exhausted = z.exhausted /\ y.shared = u
    BY <1>3, <1>4, <1>5, SetShared
  <1>7. QED BY <1>1, <1>6 DEF Used

LEMMA ShareGood ==
    ASSUME NEW x \in Memory, NEW B, NEW P, Good(x, B, P), NEW q, q = pmm_page(x), NEW y, y = Share(x), ~y.exhausted
    PROVE  Good(y, B, P \cup {q}) /\ SameUser(x, y, B)
  <1>1. PICK z, Q : z = pmm_take(x) /\ Q = P \cup {q}
    OBVIOUS
  <1>2. Used(z, y, z.used) /\ y.exhausted = z.exhausted /\ y.shared = x.shared \cup {q} /\ y.used = z.used
    BY <1>1, ShareIs DEF Used
  <1>3. z.shared = x.shared
    BY <1>1, Take
  <1>4. Good(z, B, Q) /\ SameUser(x, z, B) /\ q \notin x.used
    BY <1>1, <1>2, TakeGood
  <1>5. Halves(y, B) /\ TablesOK(y, B) /\ SameUser(z, y, B) /\ \A c, r : Reach(y, c, r) <=> Reach(z, c, r)
    BY <1>2, <1>4, UsedSame DEF Good
  <1>6. NULL \in x.used
    BY DEF Good, PagesOK
  <1>7. PagesOK(z, B, Q)
    BY <1>4 DEF Good
  <1>8. NULL \in y.used /\ NULL \notin y.shared /\ NULL \notin Q /\ Q \subseteq y.used \cup y.shared
    BY <1>2, <1>3, <1>4, <1>6, <1>7 DEF PagesOK
  <1>9. \A c \in B, r \in Phys : Reach(y, c, r) =>
          /\ r \in y.used \cup y.shared /\ r # NULL
          /\ r \in Q => r \in y.shared
          /\ \A k \in B : k # c /\ Reach(y, k, r) => r \in y.shared
    BY <1>2, <1>3, <1>5, <1>7 DEF PagesOK
  <1>10. \A r \in y.used : r = NULL \/ r \in Q \/ \E c \in B : Reach(y, c, r)
    BY <1>2, <1>5, <1>7 DEF PagesOK
  <1>11. PagesOK(y, B, Q)
    BY <1>8, <1>9, <1>10 DEF PagesOK
  <1>12. SameUser(x, y, B)
    BY <1>4, <1>5 DEF SameUser
  <1>13. QED BY <1>1, <1>5, <1>11, <1>12 DEF Good

LEMMA SharedCounts ==
    ASSUME NEW x, NEW B, NEW P, Good(x, B, P), NEW q, q \in x.shared PROVE Good(x, B, P \cup {q})
  <1>1. PICK Q : Q = P \cup {q}
    OBVIOUS
  <1>2. PagesOK(x, B, P)
    BY DEF Good
  <1>3. NULL \in x.used /\ NULL \notin x.shared /\ NULL \notin Q /\ Q \subseteq x.used \cup x.shared
    BY <1>1, <1>2 DEF PagesOK
  <1>4. \A c \in B, r \in Phys : Reach(x, c, r) =>
          /\ r \in x.used \cup x.shared /\ r # NULL
          /\ r \in Q => r \in x.shared
          /\ \A k \in B : k # c /\ Reach(x, k, r) => r \in x.shared
    BY <1>1, <1>2 DEF PagesOK
  <1>5. \A r \in x.used : r = NULL \/ r \in Q \/ \E c \in B : Reach(x, c, r)
    BY <1>1, <1>2 DEF PagesOK
  <1>6. PagesOK(x, B, Q)
    BY <1>3, <1>4, <1>5 DEF PagesOK
  <1>7. QED BY <1>1, <1>6 DEF Good
-----------------------------------------------------------------------------
(* vmm_destroy_context, field by field.                                    *)
WithDestroyed(x, U, f, T, F, O, D) ==
    [x EXCEPT !.used = U, !.badfree = f, !.tables = T, !.pt = F, !.own = O, !.pd = D]
Destroyed(x, y, U, f, T, F, O, D) ==
    /\ y \in Memory /\ y.used = U /\ y.badfree = f /\ y.tables = T /\ y.pt = F /\ y.own = O /\ y.pd = D
    /\ y.shared = x.shared /\ y.exhausted = x.exhausted /\ y.halted = x.halted

LEMMA SetDestroyed ==
    ASSUME NEW x \in Memory, NEW U \in SUBSET Phys, NEW f \in BOOLEAN, NEW T \in SUBSET Tables,
           NEW F \in [Tables -> TableType], NEW O \in [Contexts -> SUBSET Tables], NEW D \in [Contexts -> DirType],
           NEW y, y = WithDestroyed(x, U, f, T, F, O, D)
    PROVE  Destroyed(x, y, U, f, T, F, O, D)
  <1>1. PICK z : z = [x EXCEPT !.used = U, !.badfree = f, !.pt = F]
    OBVIOUS
  <1>2. /\ z \in Memory /\ z.used = U /\ z.badfree = f /\ z.pt = F
        /\ z.shared = x.shared /\ z.exhausted = x.exhausted /\ z.halted = x.halted
    BY <1>1, MemoryIs
  <1>3. y = WithContext(z, T, O, D)
    BY <1>1, MemoryIs DEF WithDestroyed, WithContext
  <1>4. ContextSet(z, y, T, O, D)
    BY <1>2, <1>3, SetContext
  <1>5. QED BY <1>2, <1>4 DEF ContextSet, Destroyed

Gone(x, y, c) ==
    /\ y \in Memory /\ y.shared = x.shared /\ y.exhausted = x.exhausted /\ y.halted = x.halted
    /\ y.used = x.used \ DoomedPages(x, c)
    /\ y.badfree = (x.badfree \/ ~(DoomedPages(x, c) \subseteq x.used \cup x.shared))
    /\ y.tables = x.tables \ (DoomedTables(x, c) \cup x.own[c])
    /\ \A t \in Tables : t \notin DoomedTables(x, c) => y.pt[t] = x.pt[t]
    /\ \A k \in Contexts : k # c => y.own[k] = x.own[k] /\ y.pd[k] = x.pd[k]

LEMMA DestroyIs ==
    ASSUME NEW x \in Memory, NEW c \in Slots, NEW y, y = vmm_destroy_context(x, c)
    PROVE  Gone(x, y, c)
  <1>1. c \in Contexts
    BY Constants
  <1>2. PICK E, G : E = DoomedPages(x, c) /\ G = DoomedTables(x, c)
    OBVIOUS
  <1>3. PICK U, f, T : /\ U = x.used \ E /\ T = x.tables \ (G \cup x.own[c])
                       /\ f = (x.badfree \/ ~(E \subseteq x.used \cup x.shared))
    OBVIOUS
  <1>4. /\ x.used \in SUBSET Phys /\ x.badfree \in BOOLEAN /\ x.tables \in SUBSET Tables
        /\ x.pt \in [Tables -> TableType] /\ x.own \in [Contexts -> SUBSET Tables] /\ x.pd \in [Contexts -> DirType]
    BY MemoryIs
  <1>5. U \in SUBSET Phys /\ f \in BOOLEAN /\ T \in SUBSET Tables
    BY <1>3, <1>4
  <1>6. PICK F : F = Cleared(x.pt, G)
    OBVIOUS
  <1>7. F \in [Tables -> TableType] /\ \A t \in Tables : t \notin G => F[t] = x.pt[t]
    <2>1. PICK g : g = x.pt
      OBVIOUS
    <2>2. g \in [Tables -> TableType]
      BY <1>4, <2>1
    <2>3. \A t \in Tables : DOMAIN g[t] = Idxs /\ g[t] \in TableType
      BY <2>2 DEF TableType
    <2>4. F = [t \in Tables |-> IF t \in G THEN [i \in DOMAIN g[t] |-> Absent] ELSE g[t]]
      BY <1>6, <2>1 DEF Cleared
    <2>5. \A t \in Tables : [i \in DOMAIN g[t] |-> Absent] \in TableType
      BY <2>3, AbsentIs DEF TableType
    <2>6. \A t \in Tables : F[t] \in TableType /\ (t \notin G => F[t] = g[t])
      BY <2>3, <2>4, <2>5
    <2>7. QED BY <2>1, <2>4, <2>6
  <1>8. PICK o, h : o = {} /\ h = [d \in Dirs |-> NIL]
    OBVIOUS
  <1>9. o \in SUBSET Tables /\ h \in DirType
    BY <1>8 DEF DirType
  <1>10. PICK O, D : O = [x.own EXCEPT ![c] = o] /\ D = [x.pd EXCEPT ![c] = h]
    OBVIOUS
  <1>11. O \in [Contexts -> SUBSET Tables] /\ \A k \in Contexts : k # c => O[k] = x.own[k]
    BY <1>1, <1>4, <1>9, <1>10
  <1>12. D \in [Contexts -> DirType] /\ \A k \in Contexts : k # c => D[k] = x.pd[k]
    BY <1>1, <1>4, <1>9, <1>10
  <1>13. y = WithDestroyed(x, U, f, T, F, O, D)
    <2>1. y = [x EXCEPT !.used = U, !.badfree = f, !.tables = T, !.pt = F, !.own[c] = o, !.pd[c] = h]
      BY <1>2, <1>3, <1>6, <1>8 DEF vmm_destroy_context
    <2>2. QED BY <1>10, <2>1, MemoryIs DEF WithDestroyed
  <1>14. Destroyed(x, y, U, f, T, F, O, D)
    BY <1>5, <1>7, <1>11, <1>12, <1>13, SetDestroyed
  <1>15. /\ y \in Memory /\ y.used = U /\ y.badfree = f /\ y.tables = T /\ y.pt = F /\ y.own = O /\ y.pd = D
         /\ y.shared = x.shared /\ y.exhausted = x.exhausted /\ y.halted = x.halted
    BY <1>14 DEF Destroyed
  <1>16. y.badfree = (x.badfree \/ ~(E \subseteq x.used \cup x.shared))
    BY ONLY <1>3, <1>15, Zenon
  <1>17. QED BY <1>2, <1>3, <1>7, <1>11, <1>12, <1>15, <1>16 DEF Gone

(* The pages and tables that go are those of the user half.                *)
LEMMA DoomedPagesAre ==
    ASSUME NEW x \in Memory, NEW A \in SUBSET Slots, Halves(x, A), NEW c \in A
    PROVE  \A p : p \in DoomedPages(x, c) <=> p \in Phys /\ Reach(x, c, p)
  <1>1. c \in All(A) /\ c \in Contexts /\ KERNEL \in All(A)
    BY Constants DEF All
  <1>2. ASSUME NEW p \in DoomedPages(x, c) PROVE p \in Phys /\ Reach(x, c, p)
    <2>1. PICK v \in 0 .. NDirs * PerTable - 1 : Walk(x, c, v) # NIL /\ Walk(x, KERNEL, v) = NIL /\ p = Walk(x, c, v)
      BY <1>2 DEF DoomedPages, Mapped
    <2>2. PICK d, i, e : d = Dir(v) /\ i = Idx(v) /\ e = Entry(x, c, d, i)
      OBVIOUS
    <2>3. d \in Dirs /\ i \in Idxs
      BY <2>1, <2>2, DirIdx
    <2>4. e.page = p /\ p # NIL /\ Entry(x, KERNEL, d, i).page = NIL
      BY <2>1, <2>2, WalkEntry
    <2>5. d \notin KDirs
      BY <1>1, <2>2, <2>3, <2>4 DEF Halves
    <2>6. e.user
      BY <2>2, <2>3, <2>4, <2>5 DEF Halves
    <2>7. e \in EntryType
      <3>1. x.pd \in [Contexts -> DirType] /\ x.pt \in [Tables -> TableType]
        BY MemoryIs
      <3>2. x.pd[c][d] \in Tables \cup {NIL}
        BY <1>1, <2>3, <3>1 DEF DirType
      <3>3. QED BY <2>2, <2>3, <3>1, <3>2, AbsentIs DEF Entry, TableType
    <2>8. e = UserEntry(p) /\ p \in Phys
      BY <2>4, <2>6, <2>7 DEF EntryType, UserEntry
    <2>9. QED BY <2>2, <2>3, <2>8 DEF Reach
  <1>3. ASSUME NEW p \in Phys, Reach(x, c, p) PROVE p \in DoomedPages(x, c)
    <2>1. PICK d \in Dirs \ KDirs, i \in Idxs : Entry(x, c, d, i) = UserEntry(p)
      BY <1>3, ReachUser
    <2>2. PICK v \in 0 .. NDirs * PerTable - 1 : Dir(v) = d /\ Idx(v) = i
      BY <2>1, Address
    <2>3. Walk(x, c, v) = p /\ p # NIL
      BY <2>1, <2>2, WalkEntry, UserEntryIs
    <2>4. Walk(x, KERNEL, v) = NIL
      BY <2>1, <2>2 DEF Halves, Walk
    <2>5. QED BY <2>3, <2>4 DEF DoomedPages, Mapped
  <1>4. QED BY <1>2, <1>3

LEMMA DoomedTablesAre ==
    ASSUME NEW x, NEW A \in SUBSET Slots, Halves(x, A), NEW c \in A
    PROVE  \A t : t \in DoomedTables(x, c) <=> \E d \in Dirs \ KDirs : x.pd[c][d] = t /\ t # NIL
  <1>1. c \in All(A)
    BY DEF All
  <1>2. \A d \in Dirs : x.pd[c][d] # NIL => (x.pd[KERNEL][d] = NIL <=> d \notin KDirs)
    BY <1>1 DEF Halves
  <1>3. QED BY <1>2 DEF DoomedTables

LEMMA DestroyGood ==
    ASSUME NEW x \in Memory, NEW A \in SUBSET Slots, NEW c \in A, NEW P, Good(x, A, P), NEW y, Gone(x, y, c),
           NEW B, B = A \ {c}
    PROVE  Good(y, B, P) /\ y.badfree = x.badfree
  <1>1. PICK E, G : E = DoomedPages(x, c) /\ G = DoomedTables(x, c)
    OBVIOUS
  <1>2. Halves(x, A) /\ TablesKept(x, A) /\ TablesApart(x, A) /\ TablesLive(x, A) /\ PagesOK(x, A, P)
    BY DEF Good, TablesOK
  <1>3. \A p : p \in E <=> p \in Phys /\ Reach(x, c, p)
    BY <1>1, <1>2, DoomedPagesAre
  <1>4. \A t : t \in G <=> \E d \in Dirs \ KDirs : x.pd[c][d] = t /\ t # NIL
    BY <1>1, <1>2, DoomedTablesAre
  <1>5. /\ y \in Memory /\ y.shared = x.shared /\ y.used = x.used \ E
        /\ y.tables = x.tables \ (G \cup x.own[c])
        /\ \A t \in Tables : t \notin G => y.pt[t] = x.pt[t]
        /\ \A k \in Contexts : k # c => y.own[k] = x.own[k] /\ y.pd[k] = x.pd[k]
    BY <1>1 DEF Gone
  <1>6. /\ All(B) \subseteq All(A) /\ All(B) \subseteq Contexts /\ c \in All(A) /\ c \notin All(B) /\ KERNEL \in All(B) /\ c # KERNEL
        /\ All(A) = All(B) \cup {c} /\ B \subseteq A /\ B \subseteq All(B) /\ KDirs \subseteq Dirs /\ 0 \in KDirs
    BY Constants, KernelDirs DEF All
  <1>7. \A k \in All(B) : y.own[k] = x.own[k] /\ y.pd[k] = x.pd[k]
    BY <1>5, <1>6
  <1>8. \A k \in All(B), d \in Dirs : x.pd[k][d] \notin G
    <2>1. SUFFICES ASSUME NEW k \in All(B), NEW d \in Dirs, x.pd[k][d] \in G PROVE FALSE
      OBVIOUS
    <2>2. PICK e \in Dirs \ KDirs : x.pd[c][e] = x.pd[k][d] /\ x.pd[c][e] # NIL
      BY <1>4, <2>1
    <2>3. k \in All(A) /\ k # c
      BY <1>6
    <2>4. QED BY <1>2, <1>6, <2>2, <2>3 DEF TablesApart
  <1>9. \A k \in All(B), d \in Dirs, i \in Idxs : Entry(y, k, d, i) = Entry(x, k, d, i)
    <2>1. TAKE k \in All(B), d \in Dirs, i \in Idxs
    <2>2. y.pd[k] = x.pd[k] /\ x.pd[k][d] \notin G
      BY <1>7, <1>8
    <2>3. x.pd[k][d] # NIL => x.pd[k][d] \in Tables
      <3>1. x.tables \subseteq Tables /\ k \in All(A)
        BY <1>6, MemoryIs
      <3>2. QED BY <1>2, <3>1 DEF TablesKept
    <2>4. QED BY <1>5, <2>2, <2>3 DEF Entry
  <1>10. Halves(y, B)
    <2>1. \A k \in All(B) : y.pd[k][0] = y.pd[KERNEL][0] /\ y.pd[k][0] # NIL
      BY <1>2, <1>6, <1>7 DEF Halves
    <2>2. \A k \in All(B), d \in KDirs : y.pd[k][d] # NIL => y.pd[KERNEL][d] # NIL
      <3>1. \A k \in All(A), d \in KDirs : x.pd[k][d] # NIL => x.pd[KERNEL][d] # NIL
        BY <1>2 DEF Halves
      <3>2. TAKE k \in All(B), d \in KDirs
      <3>3. k \in All(A) /\ y.pd[k] = x.pd[k] /\ y.pd[KERNEL] = x.pd[KERNEL]
        BY <1>6, <1>7
      <3>4. QED BY <3>1, <3>3
    <2>3. \A k \in All(B), d \in KDirs, i \in Idxs :
             /\ ~Entry(y, k, d, i).user
             /\ Entry(y, k, d, i).page # NIL => Entry(y, KERNEL, d, i).page # NIL
      <3>1. TAKE k \in All(B), d \in KDirs, i \in Idxs
      <3>2. k \in All(A) /\ d \in Dirs
        BY <1>6
      <3>3. Entry(y, k, d, i) = Entry(x, k, d, i) /\ Entry(y, KERNEL, d, i) = Entry(x, KERNEL, d, i)
        BY <1>6, <1>9, <3>2
      <3>4. QED BY <1>2, <3>2, <3>3 DEF Halves
    <2>4. \A d \in Dirs \ KDirs : y.pd[KERNEL][d] = NIL
      BY <1>2, <1>6, <1>7 DEF Halves
    <2>5. \A k \in B, d \in Dirs \ KDirs, i \in Idxs : Entry(y, k, d, i).user <=> Entry(y, k, d, i).page # NIL
      <3>1. TAKE k \in B, d \in Dirs \ KDirs, i \in Idxs
      <3>2. k \in A /\ k \in All(B)
        BY <1>6
      <3>3. Entry(y, k, d, i) = Entry(x, k, d, i)
        BY <1>9, <3>2
      <3>4. QED BY <1>2, <3>2, <3>3 DEF Halves
    <2>6. QED BY <2>1, <2>2, <2>3, <2>4, <2>5 DEF Halves
  <1>11. TablesKept(y, B)
    <2>1. ASSUME NEW k \in All(B) PROVE y.own[k] \subseteq y.tables
      <3>1. k \in All(A) /\ k # c /\ y.own[k] = x.own[k]
        BY <1>6, <1>7
      <3>2. x.own[k] \subseteq x.tables /\ x.own[k] \cap x.own[c] = {}
        BY <1>2, <1>6, <3>1 DEF TablesKept
      <3>3. x.own[k] \cap G = {}
        <4>1. \A d \in Dirs : x.pd[c][d] # NIL => x.pd[c][d] \notin x.own[k]
          BY <1>2, <1>6, <3>1 DEF TablesKept
        <4>2. QED BY <1>4, <4>1
      <3>4. QED BY <1>5, <3>1, <3>2, <3>3
    <2>2. ASSUME NEW k \in All(B), NEW l \in All(B), k # l PROVE y.own[k] \cap y.own[l] = {}
      <3>1. k \in All(A) /\ l \in All(A) /\ y.own[k] = x.own[k] /\ y.own[l] = x.own[l]
        BY <1>6, <1>7
      <3>2. QED BY <1>2, <2>2, <3>1 DEF TablesKept
    <2>3. ASSUME NEW k \in All(B), NEW d \in Dirs, y.pd[k][d] # NIL
          PROVE  y.pd[k][d] \in y.tables /\ \A l \in All(B) : y.pd[k][d] \notin y.own[l]
      <3>1. k \in All(A) /\ y.pd[k] = x.pd[k]
        BY <1>6, <1>7
      <3>2. x.pd[k][d] \in x.tables /\ \A l \in All(A) : x.pd[k][d] \notin x.own[l]
        BY <1>2, <2>3, <3>1 DEF TablesKept
      <3>3. QED BY <1>5, <1>6, <1>7, <1>8, <3>1, <3>2
    <2>4. QED BY <2>1, <2>2, <2>3 DEF TablesKept
  <1>12. TablesApart(y, B)
    <2>1. SUFFICES ASSUME NEW k \in All(B), NEW l \in All(B), NEW d \in Dirs, NEW e \in Dirs,
                          y.pd[k][d] # NIL, y.pd[k][d] = y.pd[l][e]
                   PROVE  d = e /\ (d \in KDirs \/ k = l)
      BY DEF TablesApart
    <2>2. k \in All(A) /\ l \in All(A) /\ x.pd[k][d] # NIL /\ x.pd[k][d] = x.pd[l][e]
      BY <1>6, <1>7, <2>1
    <2>3. QED BY <1>2, <2>2 DEF TablesApart
  <1>13. TablesLive(y, B)
    <2>1. SUFFICES ASSUME OneTable(y), NEW t \in y.tables PROVE IsLive(y, B, t)
      BY DEF TablesLive
    <2>2. OneTable(x)
      BY <1>6, <1>7, <2>1 DEF OneTable
    <2>3. t \in x.tables /\ t \notin G /\ t \notin x.own[c] /\ t # NIL
      <3>1. x.tables \subseteq Tables
        BY MemoryIs
      <3>2. QED BY <1>5, <2>1, <3>1, Constants
    <2>4. IsLive(x, A, t)
      BY <1>2, <2>2, <2>3 DEF TablesLive
    <2>5. ASSUME NEW k \in All(A), t \in x.own[k] PROVE IsLive(y, B, t)
      <3>1. k \in All(B) /\ y.own[k] = x.own[k]
        BY <1>6, <1>7, <2>3, <2>5
      <3>2. QED BY <2>5, <3>1 DEF IsLive
    <2>6. ASSUME NEW k \in All(A), NEW d \in Dirs, x.pd[k][d] = t PROVE IsLive(y, B, t)
      <3>1. CASE k # c
        <4>1. k \in All(B) /\ y.pd[k][d] = t
          BY <1>6, <1>7, <2>6, <3>1
        <4>2. QED BY <4>1 DEF IsLive
      <3>2. CASE k = c
        <4>1. d \in KDirs
          BY <1>4, <2>3, <2>6, <3>2
        <4>2. x.pd[KERNEL][d] # NIL
          BY <1>2, <1>6, <2>3, <2>6, <3>2, <4>1 DEF Halves
        <4>3. d = 0
          BY <2>2, <4>2 DEF OneTable
        <4>4. x.pd[KERNEL][0] = t
          BY <1>2, <1>6, <2>6, <3>2, <4>3 DEF Halves
        <4>5. y.pd[KERNEL][0] = t /\ 0 \in Dirs
          BY <1>6, <1>7, <4>4
        <4>6. QED BY <1>6, <4>5 DEF IsLive
      <3>3. QED BY <3>1, <3>2
    <2>7. QED BY <2>4, <2>5, <2>6 DEF IsLive
  <1>14. \A k \in B : \A p : Reach(y, k, p) <=> Reach(x, k, p)
    <2>1. \A k \in B, d \in Dirs, i \in Idxs : Entry(y, k, d, i) = Entry(x, k, d, i)
      BY <1>6, <1>9
    <2>2. QED BY <2>1 DEF Reach
  <1>15. \A k \in A, p \in Phys : Reach(x, k, p) =>
            /\ p \in x.used \cup x.shared /\ p # NULL
            /\ p \in P => p \in x.shared
            /\ \A l \in A : l # k /\ Reach(x, l, p) => p \in x.shared
    BY <1>2 DEF PagesOK
  <1>16. PagesOK(y, B, P)
    <2>1. NULL \in x.used /\ NULL \notin x.shared /\ NULL \notin P /\ P \subseteq x.used \cup x.shared /\ x.used \subseteq Phys /\ x.shared \subseteq Phys
      BY <1>2, MemoryIs DEF PagesOK
    <2>2. NULL \in y.used /\ NULL \notin y.shared /\ NULL \notin P
      BY <1>3, <1>5, <1>15, <2>1
    <2>3. P \subseteq y.used \cup y.shared
      BY <1>3, <1>5, <1>15, <2>1
    <2>4. ASSUME NEW k \in B, NEW p \in Phys, Reach(y, k, p)
          PROVE  /\ p \in y.used \cup y.shared /\ p # NULL
                 /\ p \in P => p \in y.shared
                 /\ \A l \in B : l # k /\ Reach(y, l, p) => p \in y.shared
      <3>1. k \in A /\ k # c /\ Reach(x, k, p)
        BY <1>6, <1>14, <2>4
      <3>2. p \in x.used \cup x.shared /\ p # NULL /\ (p \in P => p \in x.shared)
        BY <1>15, <3>1
      <3>3. p \in E => p \in x.shared
        BY <1>3, <1>15, <3>1
      <3>4. \A l \in B : l # k /\ Reach(y, l, p) => p \in x.shared
        BY <1>6, <1>14, <1>15, <3>1
      <3>5. QED BY <1>5, <3>2, <3>3, <3>4
    <2>5. \A p \in y.used : p = NULL \/ p \in P \/ \E k \in B : Reach(y, k, p)
      <3>1. TAKE p \in y.used
      <3>2. p \in x.used /\ p \in Phys /\ ~Reach(x, c, p)
        BY <1>3, <1>5, <2>1
      <3>3. p = NULL \/ p \in P \/ \E k \in A : Reach(x, k, p)
        BY <1>2, <3>2 DEF PagesOK
      <3>4. QED BY <1>14, <3>2, <3>3
    <2>6. QED BY <2>2, <2>3, <2>4, <2>5 DEF PagesOK
  <1>17. y.badfree = x.badfree
    <2>1. E \subseteq x.used \cup x.shared
      BY <1>3, <1>15
    <2>2. x.badfree \in BOOLEAN
      BY MemoryIs
    <2>3. y.badfree = (x.badfree \/ ~(E \subseteq x.used \cup x.shared))
      BY <1>1, Zenon DEF Gone
    <2>4. PICK b, f, g : b = (E \subseteq x.used \cup x.shared) /\ f = x.badfree /\ g = y.badfree
      OBVIOUS
    <2>5. b = TRUE /\ f \in BOOLEAN /\ g = (f \/ ~b)
      BY <2>1, <2>2, <2>3, <2>4
    <2>6. g = f
      BY ONLY <2>5, Zenon
    <2>7. QED BY <2>4, <2>6
  <1>18. QED BY <1>10, <1>11, <1>12, <1>13, <1>16, <1>17 DEF Good, TablesOK
-----------------------------------------------------------------------------
(* The operations keep the invariant.                                      *)
LEMMA Now == ASSUME IInv
             PROVE  /\ m \in Memory /\ Placed /\ active \in SUBSET Slots /\ cur \in active \cup {KERNEL}
                    /\ stack \in [Slots -> Phys \cup {NIL}] /\ kernel \subseteq Phys /\ spawned \in 0 .. MaxSpawns
                    /\ \A s \in active : stack[s] \in Phys
                    /\ ~m.exhausted => ~m.badfree
                    /\ ~m.halted /\ ~m.exhausted => Good(m, active, kernel \cup Stacks) /\ StacksOK
                    /\ Stacks \subseteq Phys
  BY DEF IInv, TypeOK, Placed, Stacks

(* When only memory changes.                                               *)
LEMMA MemoryOnly ==
    ASSUME IInv, UNCHANGED <<active, stack, cur, spawned, kernel>>, NEW y, y = m', y \in Memory,
           m.shared \subseteq y.shared, m.exhausted => y.exhausted, y.badfree = m.badfree,
           ~y.halted /\ ~y.exhausted => ~m.halted /\ Good(y, active, kernel \cup Stacks)
    PROVE  IInv'
  <1>1. TypeOK'
    BY Now DEF TypeOK
  <1>2. Stacks' = Stacks
    BY DEF Stacks
  <1>3. (\A s \in active : stack[s] \in Phys)' /\ (~m.exhausted => ~m.badfree)'
    BY Now
  <1>4. ASSUME ~y.halted, ~y.exhausted PROVE Good(m, active, kernel \cup Stacks)' /\ StacksOK'
    <2>1. Good(m, active, kernel \cup Stacks)'
      BY <1>2, <1>4
    <2>2. StacksOK
      BY <1>4, Now
    <2>3. StacksOK'
      BY <2>2 DEF StacksOK
    <2>4. QED BY <2>1, <2>3
  <1>5. QED BY <1>1, <1>3, <1>4 DEF IInv

LEMMA StepOnly ==
    ASSUME IInv, UNCHANGED <<active, stack, cur, spawned, kernel>>, NEW y, y = m', Step(m, y),
           ~y.halted /\ ~y.exhausted => Good(y, active, kernel \cup Stacks)
    PROVE  IInv'
  <1>1. /\ y \in Memory /\ m.shared \subseteq y.shared /\ (m.exhausted => y.exhausted) /\ y.badfree = m.badfree
        /\ (~y.halted => ~m.halted)
    BY DEF Step
  <1>2. QED BY <1>1, MemoryOnly

LEMMA HeapIs == ASSUME NEW v \in Heap PROVE IsUser(v)
  BY SpaceAssumption

LEMMA MmapInv == ASSUME IInv, NEW v \in Heap, sys_mmap(v) PROVE IInv'
  <1>1. PICK y, a, q, P : y = m' /\ a = pmm_take(m) /\ q = pmm_page(m) /\ P = kernel \cup Stacks
    OBVIOUS
  <1>2. UNCHANGED <<active, stack, cur, spawned, kernel>> /\ cur \in active /\ Walk(m, cur, v) = NIL /\ ~m.halted
    BY DEF sys_mmap, Unmapped
  <1>3. m \in Memory /\ Placed /\ active \in SUBSET Slots /\ cur \in Slots /\ cur \in All(active) /\ IsUser(v)
    BY <1>2, Now, HeapIs DEF All
  <1>4. CASE FreePhys(m) = {}
    <2>1. y = Halt(m)
      BY <1>1, <1>4 DEF sys_mmap
    <2>2. Step(m, y) /\ y.halted
      BY <1>3, <2>1, Halted, KeptStep
    <2>3. QED BY <1>1, <1>2, <2>2, StepOnly
  <1>5. CASE FreePhys(m) # {}
    <2>1. y = MapUser(a, cur, v, q)
      BY <1>1, <1>5 DEF sys_mmap
    <2>2. Step(m, a) /\ a \in Memory /\ q \in Phys
      BY <1>1, <1>3, TakeStep, PageIs DEF Step
    <2>3. Kept(a, y)
      BY <1>3, <2>1, <2>2, MapUserKeeps
    <2>4. Step(m, y)
      BY <2>2, <2>3, KeptStep, StepTwice
    <2>5. ASSUME ~y.halted, ~y.exhausted PROVE Good(y, active, P)
      <3>1. ~a.exhausted /\ ~m.exhausted
        BY <2>2, <2>3, <2>5 DEF Kept, Step
      <3>2. Good(m, active, P)
        BY <1>1, <1>2, <3>1, Now
      <3>3. Good(a, active, P \cup {q}) /\ SameUser(m, a, active) /\ q \notin m.used
        BY <1>1, <1>3, <3>1, <3>2, TakeGood
      <3>4. Walk(a, cur, v) = NIL
        BY <1>2, <1>3, <3>3, SameWalk
      <3>5. q \in P => q \in a.shared
        BY <2>2, <3>2, <3>3, NewPage DEF Step
      <3>6. QED BY <1>2, <1>3, <2>1, <2>2, <2>5, <3>3, <3>4, <3>5, MapUserGood
    <2>6. QED BY <1>1, <1>2, <2>4, <2>5, StepOnly
  <1>6. QED BY <1>4, <1>5

LEMMA MmmapInv == ASSUME IInv, NEW v \in Heap, NEW w \in Heap, NEW s \in active, sys_mmmap(v, s, w) PROVE IInv'
  <1>1. PICK y, a, q, P : y = m' /\ a = Share(m) /\ q = pmm_page(m) /\ P = kernel \cup Stacks
    OBVIOUS
  <1>2. /\ UNCHANGED <<active, stack, cur, spawned, kernel>> /\ cur \in active /\ ~m.halted /\ s # cur
        /\ Walk(m, cur, v) = NIL /\ Walk(m, s, w) = NIL
    BY DEF sys_mmmap, Unmapped
  <1>3. /\ m \in Memory /\ Placed /\ active \in SUBSET Slots /\ cur \in Slots /\ s \in Slots
        /\ cur \in All(active) /\ s \in All(active) /\ IsUser(v) /\ IsUser(w)
    BY <1>2, Now, HeapIs DEF All
  <1>4. CASE FreePhys(m) = {}
    <2>1. y = Halt(m)
      BY <1>1, <1>4 DEF sys_mmmap
    <2>2. Step(m, y) /\ y.halted
      BY <1>3, <2>1, Halted, KeptStep
    <2>3. QED BY <1>1, <1>2, <2>2, StepOnly
  <1>5. CASE FreePhys(m) # {}
    <2>1. PICK b : b = MapUser(a, cur, v, q)
      OBVIOUS
    <2>2. y = MapUser(b, s, w, q)
      BY <1>1, <1>5, <2>1 DEF sys_mmmap
    <2>3. /\ a \in Memory /\ q \in Phys /\ a.shared = m.shared \cup {q} /\ a.badfree = m.badfree
          /\ m.exhausted => a.exhausted
      <3>1. PICK z : z = pmm_take(m)
        OBVIOUS
      <3>2. z.badfree = m.badfree /\ (m.exhausted => z.exhausted) /\ q \in Phys
        BY <1>1, <1>3, <3>1, Take
      <3>3. a.badfree = z.badfree /\ a.exhausted = z.exhausted /\ a.shared = m.shared \cup {q} /\ a \in Memory
        BY <1>1, <1>3, <3>1, ShareIs
      <3>4. QED BY <3>2, <3>3
    <2>4. Kept(a, b) /\ b \in Memory
      BY <1>3, <2>1, <2>3, MapUserKeeps DEF Kept
    <2>5. Kept(b, y)
      BY <1>3, <2>2, <2>3, <2>4, MapUserKeeps
    <2>6. y \in Memory /\ m.shared \subseteq y.shared /\ (m.exhausted => y.exhausted) /\ y.badfree = m.badfree
      BY <2>3, <2>4, <2>5 DEF Kept
    <2>7. ASSUME ~y.halted, ~y.exhausted PROVE Good(y, active, P)
      <3>1. ~b.exhausted /\ ~a.exhausted /\ ~m.exhausted /\ ~b.halted /\ b.shared = a.shared
        BY <2>3, <2>4, <2>5, <2>7 DEF Kept
      <3>2. Good(m, active, P)
        BY <1>1, <1>2, <3>1, Now
      <3>3. Good(a, active, P \cup {q}) /\ SameUser(m, a, active)
        BY <1>1, <1>3, <3>1, <3>2, ShareGood
      <3>4. Walk(a, cur, v) = NIL /\ Walk(a, s, w) = NIL
        BY <1>2, <1>3, <3>3, SameWalk
      <3>5. q \in a.shared /\ q \in b.shared
        BY <2>3, <3>1
      <3>6. Good(b, active, P) /\ UserMapped(a, b, active, cur, v, q)
        BY <1>2, <1>3, <2>1, <2>3, <3>1, <3>3, <3>4, <3>5, MapUserGood
      <3>7. Good(b, active, P \cup {q})
        BY <3>5, <3>6, SharedCounts
      <3>8. Walk(b, s, w) = NIL
        BY <1>2, <1>3, <2>3, <3>4, <3>6, MappedWalk
      <3>9. QED BY <1>3, <2>2, <2>3, <2>4, <2>7, <3>5, <3>7, <3>8, MapUserGood
    <2>8. QED BY <1>1, <1>2, <2>6, <2>7, MemoryOnly
  <1>6. QED BY <1>4, <1>5

LEMMA ScheduleInv == ASSUME IInv, NEW s \in active, schedule(s) PROVE IInv'
  <1>1. cur' = s /\ UNCHANGED <<m, active, stack, spawned, kernel>>
    BY DEF schedule
  <1>2. TypeOK'
    BY <1>1, Now DEF TypeOK
  <1>3. Stacks' = Stacks
    BY <1>1 DEF Stacks
  <1>4. (\A t \in active : stack[t] \in Phys)' /\ (~m.exhausted => ~m.badfree)'
    BY <1>1, Now
  <1>5. (~m.halted /\ ~m.exhausted => Good(m, active, kernel \cup Stacks))'
    BY <1>1, <1>3, Now
  <1>6. (~m.halted /\ ~m.exhausted => StacksOK)'
    BY <1>1, Now DEF StacksOK
  <1>7. QED BY <1>2, <1>4, <1>5, <1>6 DEF IInv

LEMMA KernelAllocInv == ASSUME IInv, kernel_alloc PROVE IInv'
  <1>1. PICK y, q, P : y = m' /\ q = pmm_page(m) /\ P = kernel \cup Stacks
    OBVIOUS
  <1>2. /\ ~m.halted /\ y = vmm_alloc(m) /\ kernel' = kernel \cup {q}
        /\ UNCHANGED <<active, stack, cur, spawned>>
    BY <1>1 DEF kernel_alloc, InKernel
  <1>3. m \in Memory /\ Placed /\ active \in SUBSET Slots /\ q \in Phys
    BY <1>1, Now, PageIs
  <1>4. Step(m, y)
    BY <1>2, <1>3, AllocStep
  <1>5. y \in Memory /\ y.shared = m.shared /\ y.badfree = m.badfree /\ (m.exhausted => y.exhausted)
    BY <1>4 DEF Step
  <1>6. TypeOK'
    BY <1>1, <1>2, <1>3, <1>5, Now DEF TypeOK
  <1>7. (\A s \in active : stack[s] \in Phys)' /\ (~m.exhausted => ~m.badfree)'
    BY <1>1, <1>2, <1>5, Now
  <1>8. Stacks' = Stacks
    BY <1>2 DEF Stacks
  <1>9. ASSUME ~y.halted, ~y.exhausted PROVE Good(m, active, kernel \cup Stacks)' /\ StacksOK'
    <2>1. Good(m, active, P) /\ StacksOK
      BY <1>1, <1>2, <1>5, <1>9, Now
    <2>2. Good(y, active, P \cup {q}) /\ q \notin m.used
      BY <1>1, <1>2, <1>3, <1>9, <2>1, AllocGood
    <2>3. P \cup {q} = kernel' \cup Stacks'
      BY <1>1, <1>2, <1>8
    <2>4. Good(m, active, kernel \cup Stacks)'
      BY <1>1, <1>2, <2>2, <2>3
    <2>5. \A s \in active : stack[s] = q => q \in m.shared
      <3>1. \A s \in active : stack[s] \in P
        BY <1>1 DEF Stacks
      <3>2. q \in P => q \in m.shared
        BY <2>1, <2>2, NewPage
      <3>3. QED BY <3>1, <3>2
    <2>6. StacksOK'
      BY <1>1, <1>2, <1>5, <2>1, <2>5 DEF StacksOK
    <2>7. QED BY <2>4, <2>6
  <1>10. QED BY <1>1, <1>6, <1>7, <1>9 DEF IInv

LEMMA FreeType ==
    ASSUME NEW x \in Memory, NEW p, NEW y, y = pmm_free(x, p)
    PROVE  y \in Memory /\ y.shared = x.shared /\ y.exhausted = x.exhausted /\ y.halted = x.halted
  <1>1. Used(x, y, x.used \ {p}) /\ y.shared = x.shared /\ y.exhausted = x.exhausted
    BY Free
  <1>2. QED BY <1>1 DEF Used

LEMMA KernelFreeInv == ASSUME IInv, NEW p \in kernel, kernel_free(p) PROVE IInv'
  <1>1. PICK y, P, Q : y = m' /\ P = kernel \cup Stacks /\ Q = (kernel \ {p}) \cup Stacks
    OBVIOUS
  <1>2. /\ ~m.halted /\ y = pmm_free(m, p) /\ kernel' = kernel \ {p}
        /\ UNCHANGED <<active, stack, cur, spawned>>
    BY <1>1 DEF kernel_free, InKernel
  <1>3. m \in Memory
    BY Now
  <1>4. y \in Memory /\ y.shared = m.shared /\ y.exhausted = m.exhausted
    BY <1>2, <1>3, FreeType
  <1>5. TypeOK'
    BY <1>1, <1>2, <1>4, Now DEF TypeOK
  <1>6. (\A s \in active : stack[s] \in Phys)'
    BY <1>2, Now
  <1>7. Stacks' = Stacks
    BY <1>2 DEF Stacks
  <1>8. ASSUME ~y.exhausted PROVE Good(m, active, kernel \cup Stacks)' /\ StacksOK' /\ y.badfree = m.badfree
    <2>1. Good(m, active, P) /\ StacksOK
      BY <1>1, <1>2, <1>4, <1>8, Now
    <2>2. p \in Q => p \in m.shared
      BY <1>1, <2>1 DEF StacksOK, Stacks
    <2>3. p \in P /\ Q \subseteq P /\ P \ {p} \subseteq Q
      BY <1>1
    <2>4. Good(y, active, Q) /\ y.badfree = m.badfree
      BY <1>2, <1>3, <2>1, <2>2, <2>3, FreeGood
    <2>5. Good(m, active, kernel \cup Stacks)'
      BY <1>1, <1>2, <1>7, <2>4
    <2>6. StacksOK'
      BY <1>1, <1>2, <1>4, <2>1 DEF StacksOK
    <2>7. QED BY <2>4, <2>5, <2>6
  <1>9. (~m.exhausted => ~m.badfree)'
    BY <1>1, <1>4, <1>8, Now
  <1>10. QED BY <1>1, <1>5, <1>6, <1>8, <1>9 DEF IInv

LEMMA ExitInv == ASSUME IInv, NEW s \in active, exit_task(s) PROVE IInv'
  <1>1. PICK y, P, p, A : y = m' /\ P = kernel \cup Stacks /\ p = stack[s] /\ A = active \ {s}
    OBVIOUS
  <1>2. PICK x : x = vmm_destroy_context(m, s)
    OBVIOUS
  <1>3. PICK z : z = pmm_free(x, p)
    OBVIOUS
  <1>4. /\ ~m.halted /\ y = (IF active = {s} THEN Halt(z) ELSE z)
        /\ active' = A /\ cur' = ContextAfterExit(s) /\ stack' = [stack EXCEPT ![s] = NIL]
        /\ UNCHANGED <<spawned, kernel>>
    BY <1>1, <1>2, <1>3 DEF exit_task
  <1>5. m \in Memory /\ active \in SUBSET Slots /\ s \in Slots
    BY Now
  <1>6. Gone(m, x, s)
    BY <1>2, <1>5, DestroyIs
  <1>7. x \in Memory /\ x.shared = m.shared /\ x.exhausted = m.exhausted
    BY <1>6 DEF Gone
  <1>8. z \in Memory /\ z.shared = x.shared /\ z.exhausted = x.exhausted
    BY <1>3, <1>7, FreeType
  <1>9. /\ y \in Memory /\ y.shared = m.shared /\ y.exhausted = m.exhausted /\ y.badfree = z.badfree
        /\ ~y.halted => y = z
    <2>1. Kept(z, Halt(z)) /\ Halt(z).halted
      BY <1>8, Halted
    <2>2. CASE active = {s}
      BY <1>4, <1>7, <1>8, <2>1, <2>2 DEF Kept
    <2>3. CASE active # {s}
      BY <1>4, <1>7, <1>8, <2>3
    <2>4. QED BY <2>2, <2>3
  <1>10. stack' \in [Slots -> Phys \cup {NIL}] /\ \A t \in A : stack'[t] = stack[t]
    <2>1. stack \in [Slots -> Phys \cup {NIL}] /\ NIL \in Phys \cup {NIL}
      BY Now
    <2>2. \A t \in A : t # s /\ t \in Slots
      BY <1>1, <1>5
    <2>3. QED BY <1>4, <2>1, <2>2
  <1>11. TypeOK'
    <2>1. cur' \in A \cup {KERNEL}
      BY <1>1, <1>4, Now DEF ContextAfterExit
    <2>2. QED BY <1>1, <1>4, <1>5, <1>9, <1>10, <2>1, Now DEF TypeOK
  <1>12. (\A t \in active : stack[t] \in Phys)'
    <2>1. \A t \in A : stack[t] \in Phys
      BY <1>1, Now
    <2>2. QED BY <1>4, <1>10, <2>1
  <1>13. Stacks' = {stack[t] : t \in A}
    BY <1>4, <1>10 DEF Stacks
  <1>14. ASSUME ~m.exhausted
         PROVE  Good(z, A, kernel \cup Stacks') /\ z.badfree = m.badfree /\ StacksOK'
    <2>1. Good(m, active, P) /\ StacksOK
      BY <1>1, <1>4, <1>14, Now
    <2>2. Good(x, A, P) /\ x.badfree = m.badfree
      BY <1>1, <1>5, <1>6, <2>1, DestroyGood
    <2>3. PICK Q : Q = kernel \cup Stacks'
      OBVIOUS
    <2>4. p \in P /\ Q \subseteq P /\ P \ {p} \subseteq Q
      BY <1>1, <1>13, <2>3 DEF Stacks
    <2>5. p \in Q => p \in x.shared
      BY <1>1, <1>7, <1>13, <2>1, <2>3 DEF StacksOK
    <2>6. Good(z, A, Q) /\ z.badfree = x.badfree
      BY <1>3, <1>7, <2>2, <2>4, <2>5, FreeGood
    <2>7. StacksOK'
      <3>1. \A t \in A : /\ stack[t] \in kernel => stack[t] \in m.shared
                         /\ \A u \in A : t # u /\ stack[t] = stack[u] => stack[t] \in m.shared
        BY <1>1, <2>1 DEF StacksOK
      <3>2. m'.shared = m.shared /\ kernel' = kernel /\ active' = A
        BY <1>1, <1>4, <1>9
      <3>3. QED BY <1>10, <3>1, <3>2 DEF StacksOK
    <2>8. QED BY <2>2, <2>3, <2>6, <2>7
  <1>15. (~m.exhausted => ~m.badfree)'
    BY <1>1, <1>9, <1>14, Now
  <1>16. ASSUME ~y.halted, ~y.exhausted PROVE Good(m, active, kernel \cup Stacks)' /\ StacksOK'
    <2>1. y = z /\ ~m.exhausted
      BY <1>9, <1>16
    <2>2. Good(z, A, kernel \cup Stacks') /\ StacksOK'
      BY <1>14, <2>1
    <2>3. QED BY <1>1, <1>4, <2>1, <2>2
  <1>17. QED BY <1>1, <1>11, <1>12, <1>15, <1>16 DEF IInv

LEMMA SpawnInv == ASSUME IInv, NEW prog \in Programs, spawn(prog) PROVE IInv'
  <1>1. PICK s \in Slots \ active : /\ m' = init_elf(m, s, prog)
                                    /\ active' = IF m'.halted THEN active ELSE active \cup {s}
                                    /\ stack' = [stack EXCEPT ![s] = pmm_page(m)]
    BY DEF spawn
  <1>2. PICK y, p, P, B : y = m' /\ p = pmm_page(m) /\ P = kernel \cup Stacks /\ B = active \cup {s}
    OBVIOUS
  <1>3. ~m.halted /\ spawned < MaxSpawns /\ spawned' = spawned + 1 /\ UNCHANGED <<cur, kernel>>
    BY DEF spawn
  <1>4. m \in Memory /\ Placed /\ active \in SUBSET Slots /\ s \in Slots /\ s \notin active /\ p \in Phys
    BY <1>2, Now, PageIs
  <1>5. LoadedOK(m, y, active, B, s, P, P \cup {p})
    BY <1>1, <1>2, <1>4, ElfLoaded
  <1>6. y \in Memory /\ y.shared = m.shared /\ y.badfree = m.badfree /\ (m.exhausted => y.exhausted)
    BY <1>5 DEF LoadedOK, Step
  <1>7. /\ stack' \in [Slots -> Phys \cup {NIL}] /\ stack'[s] = p
        /\ \A t \in active : stack'[t] = stack[t]
    <2>1. stack \in [Slots -> Phys \cup {NIL}] /\ p \in Phys \cup {NIL}
      BY <1>4, Now
    <2>2. \A t \in active : t # s /\ t \in Slots
      BY <1>4
    <2>3. QED BY <1>1, <1>2, <1>4, <2>1, <2>2
  <1>8. active' = active \/ active' = B
    BY <1>1, <1>2
  <1>9. TypeOK'
    <2>1. spawned' \in 0 .. MaxSpawns
      BY <1>3, Now, Constants
    <2>2. cur' \in active' \cup {KERNEL} /\ active' \subseteq Slots
      BY <1>2, <1>3, <1>4, <1>8, Now
    <2>3. QED BY <1>2, <1>3, <1>6, <1>7, <2>1, <2>2, Now DEF TypeOK
  <1>10. (\A t \in active : stack[t] \in Phys)'
    <2>1. \A t \in B : stack'[t] \in Phys
      BY <1>2, <1>4, <1>7, Now
    <2>2. QED BY <1>2, <1>8, <2>1
  <1>11. (~m.exhausted => ~m.badfree)'
    BY <1>2, <1>6, Now
  <1>12. ASSUME ~y.halted, ~y.exhausted PROVE Good(m, active, kernel \cup Stacks)' /\ StacksOK'
    <2>1. Good(m, active, P) /\ StacksOK
      BY <1>2, <1>3, <1>6, <1>12, Now
    <2>2. Good(y, B, P \cup {p}) /\ p \notin m.used
      BY <1>2, <1>5, <1>12, <2>1 DEF LoadedOK
    <2>3. active' = B
      BY <1>1, <1>2, <1>12
    <2>4. Stacks' = Stacks \cup {p}
      BY <1>2, <1>7, <2>3 DEF Stacks
    <2>5. kernel' \cup Stacks' = P \cup {p}
      BY <1>2, <1>3, <2>4
    <2>6. Good(m, active, kernel \cup Stacks)'
      BY <1>2, <2>2, <2>3, <2>5
    <2>7. p \in P => p \in m.shared
      BY <2>1, <2>2, NewPage
    <2>8. \A t \in active : stack[t] = p => p \in m.shared
      BY <1>2, <2>7 DEF Stacks
    <2>9. p \in kernel => p \in m.shared
      BY <1>2, <2>7
    <2>10. m'.shared = m.shared /\ kernel' = kernel
      BY <1>2, <1>3, <1>6
    <2>11. \A t \in B : stack'[t] = IF t = s THEN p ELSE stack[t]
      BY <1>2, <1>4, <1>7
    <2>12. ASSUME NEW t \in B
           PROVE  /\ stack'[t] \in kernel => stack'[t] \in m.shared
                  /\ \A u \in B : t # u /\ stack'[t] = stack'[u] => stack'[t] \in m.shared
      <3>1. CASE t = s
        BY <1>2, <2>8, <2>9, <2>11, <3>1
      <3>2. CASE t # s
        <4>1. t \in active /\ stack'[t] = stack[t]
          BY <1>2, <2>11, <3>2
        <4>2. ASSUME NEW u \in B, t # u, stack'[t] = stack'[u] PROVE stack'[t] \in m.shared
          BY <1>2, <2>1, <2>8, <2>11, <4>1, <4>2 DEF StacksOK
        <4>3. QED BY <2>1, <4>1, <4>2 DEF StacksOK
      <3>3. QED BY <3>1, <3>2
    <2>13. StacksOK'
      BY <2>3, <2>10, <2>12 DEF StacksOK
    <2>14. QED BY <2>6, <2>13
  <1>13. QED BY <1>2, <1>9, <1>10, <1>11, <1>12 DEF IInv

LEMMA InitInv == ASSUME Init PROVE IInv
  <1>1. /\ active = {} /\ cur = KERNEL /\ spawned = 0 /\ kernel = {} /\ stack = [s \in Slots |-> NIL]
    BY DEF Init
  <1>2. PICK o, D, F, h : /\ o = [c \in Contexts |-> IF c = KERNEL THEN {0, 1} ELSE {}]
                          /\ D = [c \in Contexts |-> [d \in Dirs |-> IF c = KERNEL /\ d = 0 THEN 2 ELSE NIL]]
                          /\ F = [t \in Tables |-> [i \in 0 .. PerTable - 1 |-> Absent]]
                          /\ h = FALSE
    OBVIOUS
  <1>3. m = [used |-> {NULL}, tables |-> {0, 1, 2}, own |-> o, pd |-> D, pt |-> F,
             halted |-> h, shared |-> {}, badfree |-> h, exhausted |-> h]
    BY <1>2 DEF Init, vmm_init
  <1>4. /\ m.used = {NULL} /\ m.tables = {0, 1, 2} /\ m.own = o /\ m.pd = D /\ m.pt = F
        /\ m.shared = {} /\ m.badfree = h
    BY <1>3
  <1>5. 0 \in Tables /\ 1 \in Tables /\ 2 \in Tables /\ 0 \in KDirs /\ 0 \in Dirs /\ NULL \in Phys /\ KERNEL \in Contexts /\ KDirs \subseteq Dirs
    BY Constants, KernelDirs DEF Tables
  <1>6. o \in [Contexts -> SUBSET Tables] /\ o[KERNEL] = {0, 1}
    BY <1>2, <1>5
  <1>7. D \in [Contexts -> DirType] /\ \A d \in Dirs : D[KERNEL][d] = IF d = 0 THEN 2 ELSE NIL
    <2>1. \A c \in Contexts : D[c] = [d \in Dirs |-> IF c = KERNEL /\ d = 0 THEN 2 ELSE NIL]
      BY <1>2
    <2>2. \A c \in Contexts : D[c] \in DirType
      <3>1. TAKE c \in Contexts
      <3>2. PICK g : g = D[c]
        OBVIOUS
      <3>3. g = [d \in Dirs |-> IF c = KERNEL /\ d = 0 THEN 2 ELSE NIL]
        BY <2>1, <3>2
      <3>4. \A d \in Dirs : g[d] = 2 \/ g[d] = NIL
        BY <3>3
      <3>5. \A d \in Dirs : g[d] \in Tables \cup {NIL}
        BY <1>5, <3>4
      <3>6. g \in [Dirs -> Tables \cup {NIL}]
        BY <3>3, <3>5
      <3>7. QED BY <3>2, <3>6 DEF DirType
    <2>3. QED BY <1>2, <1>5, <2>1, <2>2
  <1>8. F \in [Tables -> TableType] /\ \A t \in Tables, i \in Idxs : F[t][i] = Absent
    BY <1>2, AbsentIs DEF TableType, Idxs
  <1>9. m \in Memory
    <2>1. h \in BOOLEAN /\ {NULL} \in SUBSET Phys /\ {0, 1, 2} \in SUBSET Tables /\ {} \in SUBSET Phys
      BY <1>2, <1>5
    <2>2. QED BY <1>3, <1>6, <1>7, <1>8, <2>1, MemoryIs
  <1>10. TypeOK
    BY <1>1, <1>9, Constants DEF TypeOK
  <1>11. Stacks = {}
    BY <1>1 DEF Stacks
  <1>12. All({}) = {KERNEL}
    BY DEF All
  <1>13. NIL # 2 /\ NIL # 0 /\ NIL # 1
    BY DEF NIL
  <1>14. \A d \in Dirs, i \in Idxs : Entry(m, KERNEL, d, i) = Absent
    BY <1>4, <1>5, <1>7, <1>8 DEF Entry
  <1>15. Halves(m, {})
    <2>1. m.pd[KERNEL][0] = 2
      BY <1>4, <1>5, <1>7
    <2>2. \A d \in Dirs \ KDirs : m.pd[KERNEL][d] = NIL
      BY <1>4, <1>5, <1>7
    <2>3. \A c \in All({}), d \in KDirs, i \in Idxs :
             /\ ~Entry(m, c, d, i).user
             /\ Entry(m, c, d, i).page # NIL => Entry(m, KERNEL, d, i).page # NIL
      BY <1>5, <1>12, <1>14, AbsentIs
    <2>4. \A c \in All({}) : m.pd[c][0] = m.pd[KERNEL][0] /\ m.pd[c][0] # NIL
      BY <1>12, <1>13, <2>1
    <2>5. \A c \in All({}), d \in KDirs : m.pd[c][d] # NIL => m.pd[KERNEL][d] # NIL
      BY <1>12
    <2>6. QED BY <2>2, <2>3, <2>4, <2>5 DEF Halves
  <1>16. TablesOK(m, {})
    <2>1. \A d \in Dirs : m.pd[KERNEL][d] # NIL => d = 0 /\ m.pd[KERNEL][d] = 2
      BY <1>4, <1>7
    <2>2. m.own[KERNEL] = {0, 1} /\ m.pd[KERNEL][0] = 2
      BY <1>4, <1>5, <1>6, <1>7
    <2>3. TablesKept(m, {})
      BY <1>4, <1>12, <2>1, <2>2 DEF TablesKept
    <2>4. TablesApart(m, {})
      BY <1>12, <2>1 DEF TablesApart
    <2>5. TablesLive(m, {})
      BY <1>4, <1>5, <1>12, <2>2 DEF TablesLive, IsLive
    <2>6. QED BY <2>3, <2>4, <2>5 DEF TablesOK
  <1>17. PagesOK(m, {}, {})
    BY <1>4 DEF PagesOK
  <1>18. Good(m, {}, {})
    BY <1>15, <1>16, <1>17 DEF Good
  <1>19. Good(m, active, kernel \cup Stacks)
    BY <1>1, <1>11, <1>18
  <1>20. ~m.badfree
    BY <1>2, <1>4
  <1>21. QED BY <1>1, <1>10, <1>19, <1>20 DEF IInv, StacksOK

LEMMA NextInv == ASSUME IInv, Next PROVE IInv'
  <1>1. CASE \E prog \in Programs : spawn(prog)
    BY <1>1, SpawnInv
  <1>2. CASE \E s \in active : exit_task(s)
    BY <1>2, ExitInv
  <1>3. CASE \E s \in active : schedule(s)
    BY <1>3, ScheduleInv
  <1>4. CASE \E v \in Heap : sys_mmap(v)
    BY <1>4, MmapInv
  <1>5. CASE \E v, w \in Heap, s \in active : sys_mmmap(v, s, w)
    BY <1>5, MmmapInv
  <1>6. CASE kernel_alloc
    BY <1>6, KernelAllocInv
  <1>7. CASE \E p \in kernel : kernel_free(p)
    BY <1>7, KernelFreeInv
  <1>8. QED BY <1>1, <1>2, <1>3, <1>4, <1>5, <1>6, <1>7 DEF Next

(* The inductive invariant: until the system halts or memory runs out, the *)
(* two halves of every page directory are in order, page tables are shared *)
(* only in the kernel's half, and every page has an owner.                 *)
THEOREM SpaceInv == Spec => []IInv
  <1>1. Init => IInv
    BY InitInv
  <1>2. IInv /\ UNCHANGED vars => IInv'
    <2>1. SUFFICES ASSUME IInv, UNCHANGED vars PROVE IInv'
      OBVIOUS
    <2>2. m' = m /\ UNCHANGED <<active, stack, cur, spawned, kernel>>
      BY <2>1 DEF vars
    <2>3. QED BY <2>1, <2>2 DEF IInv, TypeOK, Stacks, StacksOK
  <1>3. IInv /\ [Next]_vars => IInv'
    BY <1>2, NextInv
  <1>4. QED BY <1>1, <1>3, PTL DEF Spec
-----------------------------------------------------------------------------
(* Every operation on page tables leaves memory, tasks and the contexts    *)
(* well-formed, even when it aborts halfway.                               *)
THEOREM AddressSpaceTypeOK == Spec => []TypeOK
  <1>1. IInv => TypeOK
    BY DEF IInv
  <1>2. QED BY <1>1, SpaceInv, PTL

(* What user code reaches, entry by entry.                                 *)
LEMMA UserPagesAre ==
    ASSUME NEW c \in active, Halves(m, active)
    PROVE  \A p : p \in UserPages(c) <=> p \in Phys /\ Reach(m, c, p)
  <1>1. c \in All(active)
    BY DEF All
  <1>2. \A p, d, i : m.pd[c][d] # NIL => (m.pt[m.pd[c][d]][i] = [page |-> p, user |-> TRUE] <=> Entry(m, c, d, i) = UserEntry(p))
    BY DEF Entry, UserEntry
  <1>3. \A p, d, i : Entry(m, c, d, i) = UserEntry(p) => m.pd[c][d] # NIL
    BY AbsentIs DEF Entry, UserEntry
  <1>4. \A d \in Dirs, i \in Idxs : Entry(m, c, d, i) # UserEntry(NIL)
    <2>1. SUFFICES ASSUME NEW d \in Dirs, NEW i \in Idxs, Entry(m, c, d, i) = UserEntry(NIL) PROVE FALSE
      OBVIOUS
    <2>2. Entry(m, c, d, i).user /\ Entry(m, c, d, i).page = NIL
      BY <2>1 DEF UserEntry
    <2>3. QED BY <1>1, <2>2 DEF Halves
  <1>5. \A p : p \in UserPages(c) <=> p \in Phys \cup {NIL} /\ Reach(m, c, p)
    BY <1>2, <1>3 DEF UserPages, Reach, Idxs
  <1>6. ~Reach(m, c, NIL)
    BY <1>4 DEF Reach
  <1>7. QED BY <1>5, <1>6

(* Memory protection: whatever programs are loaded, whatever they map and  *)
(* whoever exits first, user code reaches no page that is free, the        *)
(* kernel's or another task's, but for pages sys_mmmap shared.             *)
THEOREM AddressSpaceIsolation == Spec => []Isolation
  <1>1. ASSUME IInv PROVE Isolation
    <2>1. SUFFICES ASSUME ~m.halted, ~m.exhausted, NEW s \in active
                   PROVE  /\ UserPages(s) \subseteq m.used \cup m.shared
                          /\ UserPages(s) \cap (kernel \cup Stacks \cup {NULL}) \subseteq m.shared
                          /\ \A t \in active \ {s} : UserPages(s) \cap UserPages(t) \subseteq m.shared
      BY DEF Isolation
    <2>2. Halves(m, active) /\ PagesOK(m, active, kernel \cup Stacks)
      BY <1>1, <2>1, Now DEF Good
    <2>3. \A t \in active : \A p : p \in UserPages(t) <=> p \in Phys /\ Reach(m, t, p)
      BY <2>2, UserPagesAre
    <2>4. \A p \in Phys : Reach(m, s, p) =>
             /\ p \in m.used \cup m.shared /\ p # NULL
             /\ p \in kernel \cup Stacks => p \in m.shared
             /\ \A t \in active : t # s /\ Reach(m, t, p) => p \in m.shared
      BY <2>1, <2>2 DEF PagesOK
    <2>5. QED BY <2>3, <2>4
  <1>2. QED BY <1>1, SpaceInv, PTL

(* No page and no page table is lost when tasks come and go: what is in    *)
(* use is reachable or the kernel's, so vmm_destroy_context and exit_task  *)
(* give everything back.                                                   *)
THEOREM AddressSpaceNoLeak == Spec => []NoLeak
  <1>1. ASSUME IInv PROVE NoLeak
    <2>1. SUFFICES ASSUME ~m.halted, ~m.exhausted
                   PROVE  /\ m.used \subseteq {NULL} \cup kernel \cup Stacks \cup UNION {UserPages(s) : s \in active}
                          /\ OneKernelTable => m.tables = LiveTables
      BY DEF NoLeak
    <2>2. m \in Memory /\ Halves(m, active) /\ PagesOK(m, active, kernel \cup Stacks) /\ TablesKept(m, active) /\ TablesLive(m, active)
      BY <1>1, <2>1, Now DEF Good, TablesOK
    <2>3. \A t \in active : \A p : p \in UserPages(t) <=> p \in Phys /\ Reach(m, t, p)
      BY <2>2, UserPagesAre
    <2>4. m.used \subseteq Phys /\ m.tables \subseteq Tables
      BY <2>2, MemoryIs
    <2>5. m.used \subseteq {NULL} \cup kernel \cup Stacks \cup UNION {UserPages(s) : s \in active}
      <3>1. SUFFICES ASSUME NEW p \in m.used PROVE p \in {NULL} \cup kernel \cup Stacks \cup UNION {UserPages(s) : s \in active}
        OBVIOUS
      <3>2. p = NULL \/ p \in kernel \cup Stacks \/ \E s \in active : Reach(m, s, p)
        BY <2>2 DEF PagesOK
      <3>3. ASSUME NEW s \in active, Reach(m, s, p) PROVE p \in UNION {UserPages(t) : t \in active}
        BY <2>3, <2>4, <3>3
      <3>4. QED BY <3>2, <3>3
    <2>6. ASSUME OneKernelTable PROVE m.tables = LiveTables
      <3>1. OneTable(m)
        BY <2>6 DEF OneKernelTable, OneTable
      <3>2. \A t \in m.tables : t \in Tables /\ IsLive(m, active, t)
        BY <2>2, <2>4, <3>1 DEF TablesLive
      <3>3. m.tables \subseteq LiveTables
        BY <3>2 DEF LiveTables, IsLive, All
      <3>4. ASSUME NEW t \in LiveTables PROVE t \in m.tables
        <4>1. t \in Tables /\ t # NIL /\ \E c \in All(active) : t \in m.own[c] \/ \E d \in Dirs : m.pd[c][d] = t
          BY <3>4, Constants DEF LiveTables, All
        <4>2. QED BY <2>2, <4>1 DEF TablesKept
      <3>5. QED BY <3>3, <3>4
    <2>7. QED BY <2>5, <2>6
  <1>2. QED BY <1>1, SpaceInv, PTL

(* vmm_destroy_context, exit_task, init_elf and vmm_free give back no page *)
(* that is free already, which is what the allocator expects of them.      *)
THEOREM AddressSpaceFreesHeld == Spec => []FreesHeld
  <1>1. IInv => FreesHeld
    BY DEF IInv, FreesHeld
  <1>2. QED BY <1>1, SpaceInv, PTL
=============================================================================

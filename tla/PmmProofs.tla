----------------------------- MODULE PmmProofs -----------------------------
(***************************************************************************)
(* TLAPS proofs about the physical memory manager, for every page count,   *)
(* memory map and boot layout that satisfies LayoutAssumption.             *)
(***************************************************************************)
EXTENDS Pmm, FiniteSetTheorems, TLAPS

(* The inductive invariant: types, the exact bitmap and pool separation.   *)
IInv == TypeOK /\ BitmapExact /\ PoolSeparation

-----------------------------------------------------------------------------
(* Arithmetic of the wrapping counters.                                    *)

LEMMA WrapType == ASSUME NEW n \in Int PROVE Wrap(n) \in 0 .. WordPages - 1
  BY LayoutAssumption DEF Wrap

LEMMA DivMod == ASSUME NEW n \in Int
                PROVE  /\ n \div WordPages \in Int
                       /\ n = (n \div WordPages) * WordPages + Wrap(n)
  BY LayoutAssumption, Z3T(20) DEF Wrap

LEMMA WrapRemainder == ASSUME NEW r \in 0 .. WordPages - 1, NEW k \in Int
                       PROVE  Wrap(k * WordPages + r) = r
  BY LayoutAssumption, Z3T(20) DEF Wrap

(* Wrapping early or late makes no difference to a sum.                    *)
LEMMA WrapAdd == ASSUME NEW a \in Int, NEW b \in Int
                 PROVE  Wrap(Wrap(a) + b) = Wrap(a + b)
  <1> DEFINE ra == Wrap(a)
             ka == a \div WordPages
             r  == Wrap(ra + b)
             k  == (ra + b) \div WordPages
  <1>1. ra \in 0 .. WordPages - 1 /\ ka \in Int /\ a = ka * WordPages + ra
    BY WrapType, DivMod, LayoutAssumption
  <1>2. ra + b \in Int
    BY <1>1, LayoutAssumption
  <1>3. r \in 0 .. WordPages - 1 /\ k \in Int /\ ra + b = k * WordPages + r
    BY <1>2, WrapType, DivMod, LayoutAssumption
  <1> HIDE DEF ra, ka, r, k
  <1>4. a + b = (ka + k) * WordPages + r
    BY <1>1, <1>3, LayoutAssumption
  <1>5. Wrap((ka + k) * WordPages + r) = r
    BY <1>1, <1>3, WrapRemainder
  <1>6. QED BY <1>4, <1>5 DEF ra, r

-----------------------------------------------------------------------------
(* The range scan.                                                         *)

(* The page below the pool and the page at the top are used for good.      *)
LEMMA Fences == /\ PagingStart - 1 \in BootUsed /\ PagingStart - 1 \notin Pool
                /\ NPages - 1 \in BootUsed /\ NPages - 1 \notin Pool
  BY LayoutAssumption DEF BootUsed, Kernel, Pool, Pages

(* A window the range scan accepts lies inside the bitmap, misses the pool *)
(* and is free: the fences stop it from running into either.               *)
LEMMA WindowFresh ==
    ASSUME IInv, NEW count \in 1 .. MaxCount, NEW i \in FreeData, RangeFits(i, count)
    PROVE  /\ Window(i, count) \subseteq Pages
           /\ Window(i, count) \cap Pool = {}
           /\ Window(i, count) \cap used = {}
  <1>1. PagingStart - 1 \in used /\ NPages - 1 \in used
    BY Fences DEF IInv, BitmapExact
  <1>2. i \in Nat /\ count \in Nat /\ i \in Pages /\ i \notin Pool /\ i \notin used
    BY LayoutAssumption DEF FreeData, Pages
  <1>3. PagingStart - 1 \notin Window(i, count) /\ NPages - 1 \notin Window(i, count)
    BY <1>1, Fences DEF RangeFits
  <1>4. Window(i, count) \subseteq Pages
    BY <1>2, <1>3, LayoutAssumption DEF Window, Pages
  <1>5. Window(i, count) \cap Pool = {}
    BY <1>2, <1>3, LayoutAssumption DEF Window, Pages, Pool
  <1>6. QED BY <1>4, <1>5 DEF RangeFits

LEMMA WindowCard == ASSUME NEW i \in Nat, NEW count \in Nat
                    PROVE  IsFiniteSet(Window(i, count)) /\ Cardinality(Window(i, count)) = count
  BY FS_Interval DEF Window

-----------------------------------------------------------------------------
(* Every step hands out fresh data pages, hands out one fresh table page,  *)
(* takes held pages back, or leaves bitmap and holders alone.              *)
GiveData(S, n) ==
    /\ S \subseteq Pages /\ S \cap Pool = {} /\ S \cap used = {}
    /\ n \in Nat /\ IsFiniteSet(S) /\ Cardinality(S) = n
    /\ used' = used \cup S /\ pages' = pages \cup S /\ tables' = tables
    /\ granted' = S /\ pmm_usage_use(n)

GiveTable(S) ==
    /\ S \subseteq Pool /\ S \subseteq Pages /\ S \cap used = {}
    /\ IsFiniteSet(S) /\ Cardinality(S) = 1
    /\ used' = used \cup S /\ tables' = tables \cup S /\ pages' = pages
    /\ granted' = S /\ pmm_usage_use(1)

TakeBack(S, n) ==
    /\ S \subseteq pages \cup tables
    /\ n \in Nat /\ IsFiniteSet(S) /\ Cardinality(S) = n
    /\ used' = used \ S /\ pages' = pages \ S /\ tables' = tables \ S
    /\ granted' = {} /\ pmm_usage_unuse(n)

Idle == /\ UNCHANGED <<used, free_memory, used_memory, pages, tables>>
        /\ granted' = {} \/ UNCHANGED <<granted, halted>>

StepShape == \/ \E S \in SUBSET Pages, n \in Nat : GiveData(S, n)
             \/ \E S \in SUBSET Pages : GiveTable(S)
             \/ \E S \in SUBSET Pages, n \in Nat : TakeBack(S, n)
             \/ Idle

LEMMA AllocShape == IInv /\ pmm_alloc => StepShape
  <1> SUFFICES ASSUME IInv, pmm_alloc PROVE StepShape
    OBVIOUS
  <1>1. CASE \E p \in FreeData :
                /\ used' = used \cup {p} /\ pmm_usage_use(1)
                /\ pages' = pages \cup {p} /\ granted' = {p} /\ tables' = tables
    <2>1. PICK p \in FreeData :
                /\ used' = used \cup {p} /\ pmm_usage_use(1)
                /\ pages' = pages \cup {p} /\ granted' = {p} /\ tables' = tables
      BY <1>1
    <2>2. IsFiniteSet({p}) /\ Cardinality({p}) = 1
      BY FS_Singleton
    <2>3. {p} \in SUBSET Pages /\ {p} \cap Pool = {} /\ {p} \cap used = {}
      BY DEF FreeData
    <2>4. GiveData({p}, 1)
      BY <2>1, <2>2, <2>3 DEF GiveData
    <2>5. QED BY <2>3, <2>4 DEF StepShape
  <1>2. CASE Idle
    BY <1>2 DEF StepShape
  <1>3. QED BY <1>1, <1>2 DEF pmm_alloc, Idle

LEMMA TableShape == IInv /\ pmm_alloc_pagetable => StepShape
  <1> SUFFICES ASSUME IInv, pmm_alloc_pagetable PROVE StepShape
    OBVIOUS
  <1>1. CASE \E p \in FreeTable :
                /\ used' = used \cup {p} /\ pmm_usage_use(1)
                /\ tables' = tables \cup {p} /\ granted' = {p} /\ pages' = pages
    <2>1. PICK p \in FreeTable :
                /\ used' = used \cup {p} /\ pmm_usage_use(1)
                /\ tables' = tables \cup {p} /\ granted' = {p} /\ pages' = pages
      BY <1>1
    <2>2. IsFiniteSet({p}) /\ Cardinality({p}) = 1
      BY FS_Singleton
    <2>3. {p} \in SUBSET Pages /\ {p} \subseteq Pool /\ {p} \cap used = {}
      BY DEF FreeTable
    <2>4. GiveTable({p})
      BY <2>1, <2>2, <2>3 DEF GiveTable
    <2>5. QED BY <2>3, <2>4 DEF StepShape
  <1>2. CASE Idle
    BY <1>2 DEF StepShape
  <1>3. QED BY <1>1, <1>2 DEF pmm_alloc_pagetable, Idle

LEMMA RangeShape ==
    ASSUME IInv, NEW count \in 1 .. MaxCount, pmm_alloc_range(count)
    PROVE  StepShape
  <1>1. CASE \E i \in FreeData :
                /\ RangeFits(i, count)
                /\ used' = used \cup Window(i, count) /\ pmm_usage_use(count)
                /\ pages' = pages \cup Window(i, count)
                /\ granted' = Window(i, count) /\ tables' = tables
    <2>1. PICK i \in FreeData :
                /\ RangeFits(i, count)
                /\ used' = used \cup Window(i, count) /\ pmm_usage_use(count)
                /\ pages' = pages \cup Window(i, count)
                /\ granted' = Window(i, count) /\ tables' = tables
      BY <1>1
    <2>2. i \in Nat /\ count \in Nat
      BY LayoutAssumption DEF FreeData, Pages
    <2>3. IsFiniteSet(Window(i, count)) /\ Cardinality(Window(i, count)) = count
      BY <2>2, WindowCard
    <2>4. /\ Window(i, count) \subseteq Pages /\ Window(i, count) \cap Pool = {}
          /\ Window(i, count) \cap used = {}
      BY <2>1, WindowFresh
    <2>5. GiveData(Window(i, count), count)
      BY <2>1, <2>2, <2>3, <2>4 DEF GiveData
    <2>6. QED BY <2>2, <2>4, <2>5 DEF StepShape
  <1>2. CASE Idle
    BY <1>2 DEF StepShape
  <1>3. QED BY <1>1, <1>2 DEF pmm_alloc_range, Idle

LEMMA FreeShape == ASSUME IInv, NEW p \in Pages, pmm_free(p) PROVE StepShape
  <1>1. IsFiniteSet({p}) /\ Cardinality({p}) = 1 /\ {p} \in SUBSET Pages
    BY FS_Singleton
  <1>2. TakeBack({p}, 1)
    BY <1>1 DEF pmm_free, TakeBack
  <1>3. QED BY <1>1, <1>2 DEF StepShape

LEMMA FreeRangeShape ==
    ASSUME IInv, NEW i \in Pages, NEW count \in 1 .. MaxCount, pmm_free_range(i, count)
    PROVE  StepShape
  <1>1. i \in Nat /\ count \in Nat
    BY LayoutAssumption DEF Pages
  <1>2. IsFiniteSet(Window(i, count)) /\ Cardinality(Window(i, count)) = count
    BY <1>1, WindowCard
  <1>3. Window(i, count) \in SUBSET Pages /\ tables \ Window(i, count) = tables
    BY DEF pmm_free_range, IInv, TypeOK, BitmapExact
  <1>4. TakeBack(Window(i, count), count)
    BY <1>1, <1>2, <1>3 DEF pmm_free_range, TakeBack
  <1>5. QED BY <1>1, <1>3, <1>4 DEF StepShape

LEMMA NextShape == IInv /\ [Next]_vars => StepShape
  <1> SUFFICES ASSUME IInv, [Next]_vars PROVE StepShape
    OBVIOUS
  <1>1. CASE UNCHANGED vars
    BY <1>1 DEF vars, StepShape, Idle
  <1>2. CASE Next
    BY <1>2, AllocShape, TableShape, RangeShape, FreeShape, FreeRangeShape DEF Next
  <1>3. QED BY <1>1, <1>2

-----------------------------------------------------------------------------
LEMMA InitIInv == Init => IInv
  <1> SUFFICES ASSUME Init PROVE IInv
    OBVIOUS
  <1>1. BootUsed \subseteq Pages
    <2>1. Marked \subseteq Pages
      BY LayoutAssumption DEF Marked
    <2>2. QED BY <2>1, LayoutAssumption DEF BootUsed, Kernel, Pages
  <1>2. free_memory \in 0 .. WordPages - 1 /\ used_memory \in 0 .. WordPages - 1
    <2>1. IsFiniteSet(Pages) /\ IsFiniteSet(Kernel)
      BY FS_Interval, LayoutAssumption DEF Pages, Kernel
    <2>2. IsFiniteSet(Usable)
      BY <2>1, FS_Subset, LayoutAssumption
    <2>3. Cardinality(Usable) \in Nat /\ Cardinality(Kernel) \in Nat
      BY <2>1, <2>2, FS_CardinalityType
    <2>4. Len(BootMarks) \in Nat
      BY LayoutAssumption
    <2>5. QED BY <2>3, <2>4, WrapType DEF Init, pmm_init
  <1>3. QED BY <1>1, <1>2 DEF Init, pmm_init, IInv, TypeOK, BitmapExact, PoolSeparation

LEMMA UsageType ==
    ASSUME TypeOK, NEW n \in Nat, pmm_usage_use(n) \/ pmm_usage_unuse(n)
    PROVE  free_memory' \in 0 .. WordPages - 1 /\ used_memory' \in 0 .. WordPages - 1
  <1>1. free_memory \in Int /\ used_memory \in Int
    BY LayoutAssumption DEF TypeOK
  <1>2. QED BY <1>1, WrapType DEF pmm_usage_use, pmm_usage_unuse

LEMMA HaltedType == TypeOK /\ [Next]_vars => halted' \in BOOLEAN
  BY DEF TypeOK, Next, vars, pmm_alloc, pmm_alloc_pagetable, pmm_alloc_range, pmm_free, pmm_free_range

LEMMA StepIInv == IInv /\ [Next]_vars => IInv'
  <1> SUFFICES ASSUME IInv, [Next]_vars PROVE IInv'
    OBVIOUS
  <1>0. halted' \in BOOLEAN
    BY HaltedType DEF IInv
  <1>1. ASSUME NEW S \in SUBSET Pages, NEW n \in Nat, GiveData(S, n) PROVE IInv'
    <2>1. free_memory' \in 0 .. WordPages - 1 /\ used_memory' \in 0 .. WordPages - 1
      BY <1>1, UsageType DEF GiveData, IInv
    <2>2. TypeOK'
      BY <1>0, <1>1, <2>1 DEF GiveData, IInv, TypeOK
    <2>3. BitmapExact'
      BY <1>1 DEF GiveData, IInv, BitmapExact
    <2>4. PoolSeparation'
      BY <1>1 DEF GiveData, IInv, PoolSeparation
    <2>5. QED BY <2>2, <2>3, <2>4 DEF IInv
  <1>2. ASSUME NEW S \in SUBSET Pages, GiveTable(S) PROVE IInv'
    <2>1. free_memory' \in 0 .. WordPages - 1 /\ used_memory' \in 0 .. WordPages - 1
      BY <1>2, UsageType DEF GiveTable, IInv
    <2>2. TypeOK'
      BY <1>0, <1>2, <2>1 DEF GiveTable, IInv, TypeOK
    <2>3. BitmapExact'
      BY <1>2 DEF GiveTable, IInv, BitmapExact
    <2>4. PoolSeparation'
      BY <1>2 DEF GiveTable, IInv, PoolSeparation
    <2>5. QED BY <2>2, <2>3, <2>4 DEF IInv
  <1>3. ASSUME NEW S \in SUBSET Pages, NEW n \in Nat, TakeBack(S, n) PROVE IInv'
    <2>1. free_memory' \in 0 .. WordPages - 1 /\ used_memory' \in 0 .. WordPages - 1
      BY <1>3, UsageType DEF TakeBack, IInv
    <2>2. TypeOK'
      BY <1>0, <1>3, <2>1 DEF TakeBack, IInv, TypeOK
    <2>3. BitmapExact'
      BY <1>3 DEF TakeBack, IInv, BitmapExact
    <2>4. PoolSeparation'
      BY <1>3 DEF TakeBack, IInv, PoolSeparation
    <2>5. QED BY <2>2, <2>3, <2>4 DEF IInv
  <1>4. CASE Idle
    BY <1>0, <1>4 DEF Idle, IInv, TypeOK, BitmapExact, PoolSeparation
  <1>5. QED BY NextShape, <1>1, <1>2, <1>3, <1>4 DEF StepShape

(* The physical memory manager is type correct, its bitmap is exact and    *)
(* data pages never come from the page-table pool (pmm.c:123-202).         *)
THEOREM PmmSafety == Spec => [](TypeOK /\ BitmapExact /\ PoolSeparation)
  <1>1. Spec => []IInv
    BY InitIInv, StepIInv, PTL DEF Spec
  <1>2. IInv => TypeOK /\ BitmapExact /\ PoolSeparation
    BY DEF IInv
  <1>3. QED BY <1>1, <1>2, PTL

(* The bitmap, the two counters and what callers hold keep their types     *)
(* (TypeOK of Pmm): no request of any size marks or returns a page outside *)
(* the memory the manager was given.                                       *)
THEOREM PmmTypeOK == Spec => []TypeOK
  BY PmmSafety, PTL

LEMMA StepFresh == IInv /\ [Next]_vars =>
                      [granted' \cap (pages \cup tables) = {}]_vars
  <1> SUFFICES ASSUME IInv, [Next]_vars
               PROVE  [granted' \cap (pages \cup tables) = {}]_vars
    OBVIOUS
  <1>1. pages \cup tables \subseteq used
    BY DEF IInv, BitmapExact
  <1>2. QED BY <1>1, NextShape DEF StepShape, GiveData, GiveTable, TakeBack, Idle, vars

(* No allocation of pmm.c hands out a page a caller still holds.           *)
THEOREM PmmGrantsAreFresh == Spec => GrantsAreFresh
  <1>1. Spec => []IInv
    BY InitIInv, StepIInv, PTL DEF Spec
  <1>2. IInv /\ [Next]_vars =>
           [granted' \cap (pages \cup tables) = {}]_vars
    BY StepFresh
  <1>3. QED BY <1>1, <1>2, PTL DEF Spec, GrantsAreFresh

LEMMA StepOwnership == IInv /\ [Next]_vars => [Ownership!Next]_<<pages, tables>>
  <1> SUFFICES ASSUME IInv, [Next]_vars PROVE [Ownership!Next]_<<pages, tables>>
    OBVIOUS
  <1> DEFINE D == Pages \ (Pool \cup BootUsed)
             T == Pool \ BootUsed
  <1>0. BootUsed \subseteq used /\ pages \subseteq used /\ tables \subseteq used
    BY DEF IInv, BitmapExact
  <1>1. ASSUME NEW S \in SUBSET Pages, NEW n \in Nat, GiveData(S, n) PROVE Ownership!Next
    <2>1. S \in SUBSET D /\ S \subseteq D \ pages
      BY <1>0, <1>1 DEF GiveData
    <2>2. Ownership!GrantData(S)
      BY <1>1, <2>1 DEF GiveData, Ownership!GrantData
    <2>3. QED BY <2>1, <2>2 DEF Ownership!Next
  <1>2. ASSUME NEW S \in SUBSET Pages, GiveTable(S) PROVE Ownership!Next
    <2>1. S \in SUBSET T /\ S \subseteq T \ tables
      BY <1>0, <1>2 DEF GiveTable
    <2>2. Ownership!GrantTable(S)
      BY <1>2, <2>1 DEF GiveTable, Ownership!GrantTable
    <2>3. QED BY <2>1, <2>2 DEF Ownership!Next
  <1>3. ASSUME NEW S \in SUBSET Pages, NEW n \in Nat, TakeBack(S, n) PROVE Ownership!Next
    <2>1. S \in SUBSET (D \cup T)
      BY <1>3 DEF TakeBack, IInv, TypeOK, BitmapExact, PoolSeparation
    <2>2. Ownership!Return(S)
      BY <1>3 DEF TakeBack, Ownership!Return
    <2>3. QED BY <2>1, <2>2 DEF Ownership!Next
  <1>4. CASE Idle
    BY <1>4 DEF Idle
  <1>5. QED BY NextShape, <1>1, <1>2, <1>3, <1>4 DEF StepShape

(* The bitmap allocator implements exclusive ownership: PageOwnership.     *)
THEOREM PmmImplementsOwnership == Spec => OwnershipSpec
  <1>1. Spec => []IInv
    BY InitIInv, StepIInv, PTL DEF Spec
  <1>2. Init => Ownership!Init
    BY DEF Init, pmm_init, Ownership!Init
  <1>3. QED BY <1>1, <1>2, StepOwnership, PTL DEF Spec, OwnershipSpec, Ownership!Spec

-----------------------------------------------------------------------------
(* The counters.                                                           *)

Held == Cardinality(pages) + Cardinality(tables)
Base == Cardinality(Kernel) + Len(BootMarks)

LEMMA BaseType == Base \in Nat /\ Cardinality(Kernel) \in Nat /\ Cardinality(Usable) \in Nat
  <1>1. IsFiniteSet(Pages) /\ IsFiniteSet(Kernel)
    BY FS_Interval, LayoutAssumption DEF Pages, Kernel
  <1>2. IsFiniteSet(Usable)
    BY <1>1, FS_Subset, LayoutAssumption
  <1>3. Cardinality(Usable) \in Nat /\ Cardinality(Kernel) \in Nat
    BY <1>1, <1>2, FS_CardinalityType
  <1>4. QED BY <1>3, LayoutAssumption DEF Base

LEMMA PagesFinite == ASSUME NEW P \in SUBSET Pages
                     PROVE  IsFiniteSet(P) /\ Cardinality(P) \in Nat
  <1>1. IsFiniteSet(Pages)
    BY FS_Interval, LayoutAssumption DEF Pages
  <1>2. QED BY <1>1, FS_Subset, FS_CardinalityType

LEMMA HeldFinite == TypeOK => /\ IsFiniteSet(pages) /\ IsFiniteSet(tables)
                              /\ Cardinality(pages) \in Nat /\ Cardinality(tables) \in Nat
  BY PagesFinite DEF TypeOK

(* Moving n pages between the counters keeps their sum, modulo wrapping.   *)
LEMMA SumKept ==
    ASSUME NEW f \in Int, NEW u \in Int, NEW n \in Int
    PROVE  Wrap(Wrap(f - n) + Wrap(u + n)) = Wrap(f + u)
  <1>1. Wrap(u + n) \in Int /\ f - n \in Int /\ u + n \in Int
    BY WrapType, LayoutAssumption
  <1>2. Wrap(Wrap(f - n) + Wrap(u + n)) = Wrap((f - n) + Wrap(u + n))
    BY <1>1, WrapAdd
  <1>3. (f - n) + Wrap(u + n) = Wrap(u + n) + (f - n)
    BY <1>1
  <1>4. Wrap(Wrap(u + n) + (f - n)) = Wrap((u + n) + (f - n))
    BY <1>1, WrapAdd
  <1>5. (u + n) + (f - n) = f + u
    OBVIOUS
  <1>6. QED BY <1>2, <1>3, <1>4, <1>5

LEMMA DisjointUnion ==
    ASSUME NEW A, NEW B, IsFiniteSet(A), IsFiniteSet(B), A \cap B = {}
    PROVE  Cardinality(A \cup B) = Cardinality(A) + Cardinality(B)
  <1>1. Cardinality(A \cup B) = Cardinality(A) + Cardinality(B) - Cardinality(A \cap B)
    BY FS_Union
  <1>2. Cardinality(A \cap B) = 0
    BY FS_EmptySet
  <1>3. Cardinality(A) \in Nat /\ Cardinality(B) \in Nat
    BY FS_CardinalityType
  <1>4. QED BY <1>1, <1>2, <1>3

LEMMA GiveHeld == /\ \A S, n : IInv /\ GiveData(S, n) => Held' = Held + n
                  /\ \A S : IInv /\ GiveTable(S) => Held' = Held + 1
  <1>1. ASSUME NEW S, NEW n, IInv, GiveData(S, n) PROVE Held' = Held + n
    <2>1. pages \cap S = {}
      BY <1>1 DEF GiveData, IInv, BitmapExact
    <2>2. Cardinality(pages \cup S) = Cardinality(pages) + n
      BY <1>1, <2>1, HeldFinite, DisjointUnion DEF GiveData, IInv
    <2>3. QED BY <1>1, <2>2, HeldFinite DEF GiveData, Held, IInv
  <1>2. ASSUME NEW S, IInv, GiveTable(S) PROVE Held' = Held + 1
    <2>1. tables \cap S = {}
      BY <1>2 DEF GiveTable, IInv, BitmapExact
    <2>2. Cardinality(tables \cup S) = Cardinality(tables) + 1
      BY <1>2, <2>1, HeldFinite, DisjointUnion DEF GiveTable, IInv
    <2>3. QED BY <1>2, <2>2, HeldFinite DEF GiveTable, Held, IInv
  <1>3. QED BY <1>1, <1>2

LEMMA TakeHeld == ASSUME NEW S, NEW n, IInv, TakeBack(S, n) PROVE Held' = Held - n
  <1> DEFINE A == pages \cap S
             B == tables \cap S
  <1>1. IsFiniteSet(A) /\ IsFiniteSet(B)
    BY HeldFinite, FS_Subset DEF IInv
  <1>2. Cardinality(A) \in Nat /\ Cardinality(B) \in Nat
    BY <1>1, FS_CardinalityType
  <1>3. S = A \cup B /\ A \cap B = {}
    BY DEF TakeBack, IInv, BitmapExact
  <1>4. n = Cardinality(A) + Cardinality(B)
    BY <1>1, <1>3, DisjointUnion DEF TakeBack
  <1>5. Cardinality(pages \ S) = Cardinality(pages) - Cardinality(A)
    BY HeldFinite, FS_Difference DEF IInv
  <1>6. Cardinality(tables \ S) = Cardinality(tables) - Cardinality(B)
    BY HeldFinite, FS_Difference DEF IInv
  <1> HIDE DEF A, B
  <1>7. QED BY <1>2, <1>4, <1>5, <1>6, HeldFinite DEF TakeBack, Held, IInv

LEMMA CountersMove ==
    ASSUME IInv, IInv', Accounting, NEW n \in Int, Held' = Held + n,
           free_memory' = Wrap(free_memory - n), used_memory' = Wrap(used_memory + n)
    PROVE  Accounting'
  <1>1. free_memory \in Int /\ used_memory \in Int /\ Held \in Int /\ Base + Held \in Int
    BY LayoutAssumption, HeldFinite, BaseType DEF IInv, TypeOK, Held
  <1>2. used_memory = Wrap(Base + Held)
    BY BaseType, HeldFinite, LayoutAssumption DEF Accounting, Base, Held, IInv
  <1>3. used_memory' = Wrap((Base + Held) + n)
    BY <1>1, <1>2, WrapAdd
  <1>4. (Base + Held) + n = Base + Held'
    BY <1>1, BaseType
  <1>5. Wrap(free_memory' + used_memory') = Wrap(Cardinality(Usable))
    <2>1. Wrap(Wrap(free_memory - n) + Wrap(used_memory + n)) = Wrap(free_memory + used_memory)
      BY <1>1, SumKept
    <2>2. QED BY <2>1 DEF Accounting
  <1>6. Held' \in Int /\ Held' = Cardinality(pages)' + Cardinality(tables)'
    BY <1>1 DEF Held
  <1>7. Cardinality(pages)' \in Nat /\ Cardinality(tables)' \in Nat
    <2>1. pages' \in SUBSET Pages /\ tables' \in SUBSET Pages
      BY DEF IInv, TypeOK
    <2>2. QED BY <2>1, PagesFinite
  <1>8. Base + Held' = Cardinality(Kernel) + Len(BootMarks) + Cardinality(pages)' + Cardinality(tables)'
    BY <1>6, <1>7, BaseType, LayoutAssumption DEF Base
  <1>9. QED BY <1>3, <1>4, <1>5, <1>8 DEF Accounting

LEMMA InitAccounting == Init => Accounting
  <1> SUFFICES ASSUME Init PROVE Accounting
    OBVIOUS
  <1>1. Cardinality(pages) = 0 /\ Cardinality(tables) = 0
    BY FS_EmptySet DEF Init, pmm_init
  <1>2. Cardinality(Kernel) \in Nat /\ Cardinality(Usable) \in Nat /\ Len(BootMarks) \in Nat
    BY BaseType, LayoutAssumption
  <1> DEFINE U == Cardinality(Usable)
             B == Cardinality(Kernel) + Len(BootMarks)
  <1>3. U \in Int /\ B \in Int /\ free_memory = Wrap(U - B) /\ used_memory = Wrap(B)
    BY <1>2 DEF Init, pmm_init
  <1>4. used_memory = Wrap(B + Cardinality(pages) + Cardinality(tables))
    BY <1>1, <1>2, <1>3
  <1> HIDE DEF U, B
  <1>5. Wrap(B) = Wrap(0 + B) /\ Wrap(U) = Wrap(U + 0)
    BY <1>3
  <1>6. Wrap(free_memory + used_memory) = Wrap(U)
    <2>1. \A u \in Int : Wrap(Wrap(U - B) + Wrap(u + B)) = Wrap(U + u)
      BY <1>3, SumKept
    <2>2. Wrap(Wrap(U - B) + Wrap(0 + B)) = Wrap(U + 0)
      BY <2>1
    <2>3. QED BY <1>3, <1>5, <2>2
  <1>7. QED BY <1>4, <1>6 DEF Accounting, U, B

LEMMA StepAccounting == IInv /\ IInv' /\ Accounting /\ [Next]_vars => Accounting'
  <1> SUFFICES ASSUME IInv, IInv', Accounting, [Next]_vars PROVE Accounting'
    OBVIOUS
  <1>0. free_memory \in Int /\ used_memory \in Int /\ Held \in Int
    BY HeldFinite, LayoutAssumption DEF IInv, TypeOK, Held
  <1>1. ASSUME NEW S \in SUBSET Pages, NEW n \in Nat, GiveData(S, n) PROVE Accounting'
    <2>1. Held' = Held + n
      BY <1>1, GiveHeld
    <2>2. QED BY <1>1, <2>1, CountersMove DEF GiveData, pmm_usage_use
  <1>2. ASSUME NEW S \in SUBSET Pages, GiveTable(S) PROVE Accounting'
    <2>1. Held' = Held + 1
      BY <1>2, GiveHeld
    <2>2. QED BY <1>2, <2>1, CountersMove DEF GiveTable, pmm_usage_use
  <1>3. ASSUME NEW S \in SUBSET Pages, NEW n \in Nat, TakeBack(S, n) PROVE Accounting'
    <2> DEFINE m == 0 - n
    <2>1. Held' = Held + m /\ m \in Int
      BY <1>0, <1>3, TakeHeld
    <2>2. free_memory - m = free_memory + n /\ used_memory + m = used_memory - n
      BY <1>0, <1>3
    <2> HIDE DEF m
    <2>3. QED BY <1>3, <2>1, <2>2, CountersMove DEF TakeBack, pmm_usage_unuse
  <1>4. CASE Idle
    BY <1>4 DEF Idle, Accounting
  <1>5. QED BY NextShape, <1>1, <1>2, <1>3, <1>4 DEF StepShape

(* The counters shown by pmm_debug_print agree with the bitmap for ever,   *)
(* also when free_memory wraps below zero.                                 *)
THEOREM PmmAccounting == Spec => []Accounting
  <1>1. Spec => []IInv
    BY InitIInv, StepIInv, PTL DEF Spec
  <1>2. QED BY <1>1, InitAccounting, StepAccounting, PTL DEF Spec
=============================================================================

-------------------------------- MODULE Pmm --------------------------------
(***************************************************************************)
(* The physical memory manager (mckrnl/core/memory/pmm.c): a bitmap of     *)
(* 4 KiB pages, a second bitmap that singles out the page-table pool, and  *)
(* two counters kept beside them.                                          *)
(*                                                                         *)
(* Pages are numbered; a pointer p of the code is page p / 0x1000.  The    *)
(* ghost variables pages, tables and granted record what the callers hold  *)
(* and what the last call handed out; the code keeps no such record.       *)
(* Callers free only what they hold (the contract vmm.c and loader.c rely  *)
(* on; module AddressSpace checks who keeps it).                           *)
(***************************************************************************)
EXTENDS Integers, FiniteSets, Sequences

CONSTANTS NPages,      \* BITMAP_SIZE * 32, the pages the bitmaps cover
          KernelStart, \* kernel_start / 0x1000
          PagingStart, \* kernel_end = paging_start / 0x1000
          PagingEnd,   \* paging_end / 0x1000
          Usable,      \* pages of the type-1 regions of the multiboot map
          BootMarks,   \* pages passed to pmm_mark_used after the kernel's:
                       \* multiboot data, modules, NULL, framebuffer
          MaxCount,    \* bound on the count of a range allocation
          WordPages    \* 2^32 / 0x1000: the byte counters are uint32_t

Pages  == 0 .. NPages - 1
Kernel == KernelStart .. PagingStart - 1
Pool   == PagingStart .. PagingEnd - 1
Marked == {BootMarks[i] : i \in 1 .. Len(BootMarks)}

(* link.ld puts the pool directly behind a non-empty kernel image; the     *)
(* page at the top of the address space is firmware, never RAM.            *)
ASSUME LayoutAssumption ==
    /\ NPages \in Nat /\ KernelStart \in Nat /\ PagingStart \in Nat
    /\ PagingEnd \in Nat /\ MaxCount \in Nat
    /\ KernelStart < PagingStart /\ PagingStart <= PagingEnd
    /\ PagingEnd < NPages
    /\ Usable \subseteq Pages
    /\ NPages - 1 \notin Usable
    /\ BootMarks \in Seq(Pages)
    /\ WordPages \in Nat \ {0}

VARIABLES used,        \* pages whose bit in bitmap says used
          free_memory, \* free_memory / 0x1000
          used_memory, \* used_memory / 0x1000
          halted,      \* abortf(false, ...) stopped the machine
          pages,       \* ghost: data pages some caller holds
          tables,      \* ghost: page-table pages some caller holds
          granted      \* ghost: the pages the last allocation returned

vars == <<used, free_memory, used_memory, halted, pages, tables, granted>>

NoWrap(n) == n  \* mutation: signed counters

(* The counters are unsigned, so they wrap at WordPages pages.             *)
Wrap(n) == n % WordPages

FreeDataUnmasked == {p \in Pages : p \notin used}  \* mutation: the mask is not tested

(* bitmap_test(bitmap, i) and bitmap_test(bitmap_pagetable_mask, i)        *)
FreeData  == {p \in Pages : p \notin used /\ p \notin Pool}
FreeTable == {p \in Pages : p \notin used /\ p \in Pool}

BootUsed == (Pages \ Usable) \cup Kernel \cup Marked

(* Mutation: pages given back are not taken off used_memory.               *)
UnuseFreeOnly(n) == /\ free_memory' = Wrap(free_memory + n)
                    /\ UNCHANGED used_memory

(* The counters move together with every bit of the bitmap.                *)
pmm_usage_use(n)   == /\ free_memory' = Wrap(free_memory - n)
                      /\ used_memory' = Wrap(used_memory + n)
pmm_usage_unuse(n) == /\ free_memory' = Wrap(free_memory + n)
                      /\ used_memory' = Wrap(used_memory - n)

(* pmm_init, then the framebuffer marks of vmm_init.  Every mark counts,   *)
(* also the ones that hit a page already used.                             *)
pmm_init ==
    /\ used = BootUsed
    /\ free_memory = Wrap(Cardinality(Usable) - Cardinality(Kernel) - Len(BootMarks))
    /\ used_memory = Wrap(Cardinality(Kernel) + Len(BootMarks))
    /\ halted = FALSE
    /\ pages = {} /\ tables = {} /\ granted = {}

pmm_alloc ==
    /\ ~halted
    /\ \/ \E p \in FreeData :
             /\ \A q \in FreeData : p <= q
             /\ used' = used \cup {p}
             /\ pmm_usage_use(1)
             /\ pages' = pages \cup {p}
             /\ granted' = {p}
             /\ UNCHANGED <<halted, tables>>
       \/ /\ FreeData = {}
          /\ halted' = TRUE /\ granted' = {}
          /\ UNCHANGED <<used, free_memory, used_memory, pages, tables>>

pmm_alloc_pagetable ==
    /\ ~halted
    /\ \/ \E p \in FreeTable :
             /\ \A q \in FreeTable : p <= q
             /\ used' = used \cup {p}
             /\ pmm_usage_use(1)
             /\ tables' = tables \cup {p}
             /\ granted' = {p}
             /\ UNCHANGED <<halted, pages>>
       \/ /\ FreeTable = {}
          /\ halted' = TRUE /\ granted' = {}
          /\ UNCHANGED <<used, free_memory, used_memory, pages, tables>>

Window(i, count) == i .. i + count - 1

RangeFitsFirstPage(i, count) == i \in FreeData  \* mutation: only the first page is tested

(* The scan's tests: the first page must be free and outside the pool, a   *)
(* later one is rejected only when it is used and outside the pool.        *)
RangeFits(i, count) ==
    /\ i \in FreeData
    /\ \A q \in Window(i, count) : ~(q \in used /\ q \notin Pool)

pmm_alloc_range(count) ==
    /\ ~halted
    /\ \/ \E i \in FreeData :
             /\ RangeFits(i, count)
             /\ \A k \in FreeData : RangeFits(k, count) => i <= k
             /\ used' = used \cup Window(i, count)
             /\ pmm_usage_use(count)
             /\ pages' = pages \cup Window(i, count)
             /\ granted' = Window(i, count)
             /\ UNCHANGED <<halted, tables>>
       \/ /\ \A i \in FreeData : ~RangeFits(i, count)   \* returns NULL
          /\ granted' = {}
          /\ UNCHANGED <<used, free_memory, used_memory, halted, pages, tables>>

pmm_free(p) ==
    /\ ~halted
    /\ p \in pages \cup tables
    /\ used' = used \ {p}
    /\ pmm_usage_unuse(1)
    /\ pages' = pages \ {p}
    /\ tables' = tables \ {p}
    /\ granted' = {}
    /\ UNCHANGED halted

(* Mutation: the loop stops one page early.                                *)
FreeRangeShort(i, count) ==
    /\ ~halted
    /\ Window(i, count) \subseteq pages
    /\ used' = used \ Window(i, count - 1)
    /\ pmm_usage_unuse(count)
    /\ pages' = pages \ Window(i, count)
    /\ granted' = {}
    /\ UNCHANGED <<halted, tables>>

pmm_free_range(i, count) ==
    /\ ~halted
    /\ Window(i, count) \subseteq pages
    /\ used' = used \ Window(i, count)
    /\ pmm_usage_unuse(count)
    /\ pages' = pages \ Window(i, count)
    /\ granted' = {}
    /\ UNCHANGED <<halted, tables>>

Init == pmm_init

Next == \/ pmm_alloc
        \/ pmm_alloc_pagetable
        \/ \E count \in 1 .. MaxCount : pmm_alloc_range(count)
        \/ \E p \in Pages : pmm_free(p)
        \/ \E i \in Pages, count \in 1 .. MaxCount : pmm_free_range(i, count)

Spec == Init /\ [][Next]_vars
-----------------------------------------------------------------------------
TypeOK == /\ used \subseteq Pages
          /\ free_memory \in 0 .. WordPages - 1
          /\ used_memory \in 0 .. WordPages - 1
          /\ halted \in BOOLEAN
          /\ pages \subseteq Pages
          /\ tables \subseteq Pages
          /\ granted \subseteq Pages

(* The bitmap is exact: the used pages are those reserved at boot and      *)
(* those some caller holds, so no page leaks and none is lost, and the     *)
(* three groups do not overlap.                                            *)
BitmapExact == /\ used = BootUsed \cup pages \cup tables
               /\ BootUsed \cap (pages \cup tables) = {}
               /\ pages \cap tables = {}

(* No data page ever comes from the page-table pool, and page tables come  *)
(* only from it: pmm_alloc_range's inner test admits pool pages, so this   *)
(* rests on the kernel image lying directly below the pool.                *)
PoolSeparation == pages \cap Pool = {} /\ tables \subseteq Pool

(* The counters pmm_debug_print reports follow the bitmap: used_memory     *)
(* counts the boot marks and what the callers hold, and their sum stays    *)
(* the amount of usable memory.                                            *)
Accounting ==
    /\ used_memory = Wrap(Cardinality(Kernel) + Len(BootMarks) + Cardinality(pages) + Cardinality(tables))
    /\ Wrap(free_memory + used_memory) = Wrap(Cardinality(Usable))

(* A page handed out by an allocation is held by nobody at that moment.    *)
GrantsAreFresh == [][granted' \cap (pages \cup tables) = {}]_vars

(* The bitmap allocator implements exclusive ownership of two stocks.      *)
Ownership == INSTANCE PageOwnership WITH DataPages <- Pages \ (Pool \cup BootUsed),
                                         TablePages <- Pool \ BootUsed
OwnershipSpec == Ownership!Spec
=============================================================================

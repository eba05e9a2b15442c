---------------------------- MODULE AddressSpace ----------------------------
(***************************************************************************)
(* Page directories and who can reach which page: the virtual memory       *)
(* manager (mckrnl/core/memory/vmm.c) with the callers that build and take *)
(* down address spaces, init_task, init_elf, exit_task, sys_mmap and       *)
(* sys_mmmap.  All of them run with interrupts disabled, so each is one    *)
(* step; module Tasks has the steps inside exit_task.                      *)
(*                                                                         *)
(* Addresses count in pages.  Kernel memory is mapped where it lies in     *)
(* physical memory.  Stacks, arguments and the environment are one page    *)
(* each, a program is the sequence of the pages its segments cover, one    *)
(* page per segment: two segments may share a page.                        *)
(***************************************************************************)
EXTENDS Integers, FiniteSets, Sequences

CONSTANTS NPhys,      \* pages of physical memory outside the page-table pool
          NTables,    \* pages of the page-table pool
          PerTable,   \* entries of a page table, 1024
          NDirs,      \* entries of a page directory, 1024
          Offset,     \* USER_SPACE_OFFSET
          Programs,   \* programs: the pages of their segments
          Heap,       \* addresses user programs pass to mmap and mmmap
          NTasks,     \* task slots
          MaxSpawns,  \* bound on the tasks ever started
          MaxKernel   \* bound on the pages the kernel holds for itself

Phys   == 0 .. NPhys - 1
Tables == 0 .. NTables - 1
Slots  == 1 .. NTasks
KERNEL == 0                \* kernel_context
Contexts == {KERNEL} \cup Slots
Dirs   == 0 .. NDirs - 1
NIL == -1
NULL == 0                  \* pmm_init marks page 0 used

Dir(v) == v \div PerTable
Idx(v) == v % PerTable

(* Stacks and vectors are mapped at Offset (0xC0000000), programs at       *)
(* 0xB0000000, their heaps and tunnels at 0xA0000000 and above: apart from *)
(* each other, and from physical memory by whole directory entries.        *)
OffsetArea == {p + Offset : p \in Phys}
IsUser(v) == v \in 0 .. NDirs * PerTable - 1 /\ \A p \in Phys : Dir(v) # Dir(p)

ASSUME SpaceAssumption ==
    /\ NPhys \in Nat \ {0} /\ NTables \in Nat /\ PerTable \in Nat \ {0} /\ NDirs \in Nat
    /\ NTasks \in Nat /\ MaxSpawns \in Nat /\ MaxKernel \in Nat
    /\ NTables > 2 /\ NPhys <= NDirs * PerTable
    /\ Offset \in Nat /\ \A v \in OffsetArea \cup Heap : IsUser(v)
    /\ \A s \in Programs : /\ s \in Seq(Nat)
                            /\ \A i \in 1 .. Len(s) : IsUser(s[i]) /\ s[i] \notin OffsetArea

VARIABLES m,        \* physical and virtual memory, see Memory below
          active,   \* slots of active tasks; the context of slot s is s
          stack,    \* kernel stack of a task, by slot
          cur,      \* the context in cr3
          spawned,  \* tasks started so far (pids)
          kernel    \* ghost: pages the kernel allocated for itself

vars == <<m, active, stack, cur, spawned, kernel>>

(* used and tables are the bitmaps of module Pmm; own holds the two pool   *)
(* pages of a context; pd is a page directory, pt a page table whose       *)
(* entries name a page and carry PTE_USER.  Ghosts: shared holds the pages *)
(* sys_mmmap ever handed out; badfree records a pmm_free of a free page,   *)
(* which the sharing of pages has not spoilt; exhausted that no page was   *)
(* left and NULL was taken for one.                                        *)
Memory == [used : SUBSET Phys, tables : SUBSET Tables, own : [Contexts -> SUBSET Tables],
           pd : [Contexts -> [Dirs -> Tables \cup {NIL}]],
           pt : [Tables -> [0 .. PerTable - 1 -> [page : Phys \cup {NIL}, user : BOOLEAN]]],
           halted : BOOLEAN, shared : SUBSET Phys, badfree : BOOLEAN, exhausted : BOOLEAN]

Absent == [page |-> NIL, user |-> FALSE]
Halt(x) == [x EXCEPT !.halted = TRUE]
Lowest(S) == CHOOSE p \in S : \A q \in S : p <= q
-----------------------------------------------------------------------------
(* The allocators of module Pmm: the lowest free page, NULL when a range   *)
(* cannot be had, an abort when a single page cannot.                      *)
FreePhys(x) == Phys \ x.used
pmm_page(x) == IF FreePhys(x) = {} THEN NULL ELSE Lowest(FreePhys(x))
pmm_take(x) == [x EXCEPT !.used = @ \cup {pmm_page(x)}, !.exhausted = @ \/ FreePhys(x) = {}]
pmm_free(x, p) == [x EXCEPT !.used = @ \ {p}, !.badfree = @ \/ p \notin x.used \cup x.shared]

FreeTables(x) == Tables \ x.tables
pmm_alloc_pagetable(x) == Lowest(FreeTables(x))
NoTables(x, n) == Cardinality(FreeTables(x)) < n

(* A missing page table is allocated; one of the kernel is entered in the  *)
(* directories of the active tasks too.                                    *)
vmm_map_page_unsafe(x, c, v, e) ==
    IF x.halted \/ (x.pd[c][Dir(v)] = NIL /\ NoTables(x, 1)) THEN Halt(x)
    ELSE LET new == x.pd[c][Dir(v)] = NIL
             t == IF new THEN pmm_alloc_pagetable(x) ELSE x.pd[c][Dir(v)]
             sharing == IF new /\ c = KERNEL THEN active \cup {c} ELSE {c}
         IN  [x EXCEPT !.tables = @ \cup {t},
                       !.pd = [k \in Contexts |-> IF k \in sharing
                                                  THEN [@[k] EXCEPT ![Dir(v)] = t] ELSE @[k]],
                       !.pt[t] = [i \in DOMAIN @ |-> IF i = Idx(v) THEN e
                                                     ELSE IF new THEN Absent ELSE @[i]]]

(* A user mapping in a directory entry of the kernel aborts; a kernel      *)
(* mapping is entered in the current context as well.                      *)
vmm_map_page(x, c, v, e) ==
    IF c # KERNEL
    THEN IF x.pd[KERNEL][Dir(v)] # NIL THEN Halt(x) ELSE vmm_map_page_unsafe(x, c, v, e)
    ELSE vmm_map_page_unsafe(IF cur # KERNEL THEN vmm_map_page_unsafe(x, cur, v, e) ELSE x, c, v, e)

MapKernelUser(x, p) == \* mutation: kernel memory is mapped with PTE_USER
    vmm_map_page(x, KERNEL, p, [page |-> p, user |-> TRUE])
MapKernel(x, p) == vmm_map_page(x, KERNEL, p, [page |-> p, user |-> FALSE])
MapUser(x, c, v, p) == vmm_map_page(x, c, v, [page |-> p, user |-> TRUE])

vmm_alloc(x) == MapKernel(pmm_take(x), pmm_page(x))

(* The page an address leads to, NIL when the entry is not present.        *)
Walk(x, c, v) == IF x.pd[c][Dir(v)] = NIL THEN NIL ELSE x.pt[x.pd[c][Dir(v)]][Idx(v)].page

(* The same for callers, which cannot tell a mapping of page 0 from none.  *)
vmm_lookup(x, c, v) == IF Walk(x, c, v) = NIL THEN NULL ELSE Walk(x, c, v)

vmm_create_context(x, c) ==
    IF x.halted \/ NoTables(x, 2) THEN Halt(x)
    ELSE LET t == Lowest(FreeTables(x))
             u == Lowest(FreeTables(x) \ {t})
         IN  [x EXCEPT !.tables = @ \cup {t, u}, !.own[c] = {t, u},
                       !.pd[c] = [d \in Dirs |-> NIL]]

vmm_clone_kernel_context(x, c) ==
    [x EXCEPT !.pd[c] = [d \in Dirs |-> IF x.pd[KERNEL][d] # NIL THEN x.pd[KERNEL][d] ELSE @[d]]]

Mapped(x, c) == {v \in 0 .. NDirs * PerTable - 1 : Walk(x, c, v) # NIL}
(* Mutation: the kernel's pages are freed too.                             *)
DoomedPagesAll(x, c) == {Walk(x, c, v) : v \in Mapped(x, c)}

(* What the loops of vmm_destroy_context free: pages the kernel maps at    *)
(* the same place stay, and so do its page tables.                         *)
DoomedPages(x, c) ==
    {Walk(x, c, v) : v \in {w \in Mapped(x, c) : Walk(x, KERNEL, w) = NIL}}
DoomedTables(x, c) ==
    {x.pd[c][d] : d \in {e \in Dirs : x.pd[c][e] # NIL /\ x.pd[KERNEL][e] = NIL}}

(* A table is cleared when it is allocated, so what a free one holds does  *)
(* not matter.                                                             *)
Cleared(pt, S) == [t \in Tables |-> IF t \in S THEN [i \in DOMAIN pt[t] |-> Absent] ELSE pt[t]]

vmm_destroy_context(x, c) ==
    [x EXCEPT !.used = @ \ DoomedPages(x, c),
              !.badfree = @ \/ ~(DoomedPages(x, c) \subseteq x.used \cup x.shared),
              !.tables = @ \ (DoomedTables(x, c) \cup x.own[c]),
              !.pt = Cleared(@, DoomedTables(x, c)),
              !.own[c] = {}, !.pd[c] = [d \in Dirs |-> NIL]]
-----------------------------------------------------------------------------
(* init_task: the two stacks, then the context; q is the user stack.       *)
init_task(x, c) ==
    LET q == pmm_page(vmm_alloc(x))
        y == vmm_clone_kernel_context(vmm_create_context(vmm_alloc(vmm_alloc(x)), c), c)
    IN  MapUser(y, c, q + Offset, q)

(* Mutation: the page that is not needed is not given back.                *)
LoadKeepsPage(x, c, v) ==
    IF vmm_lookup(x, c, v) # NULL THEN pmm_take(x)
    ELSE MapUser(pmm_take(x), c, v, pmm_page(x))

(* A page another segment already brought is given back.                   *)
load_segment(x, c, v) ==
    IF vmm_lookup(x, c, v) # NULL THEN pmm_free(pmm_take(x), pmm_page(x))
    ELSE MapUser(pmm_take(x), c, v, pmm_page(x))

(* A page for the argument or environment vector.                          *)
load_vector(x, c) == MapUser(vmm_alloc(x), c, pmm_page(x) + Offset, pmm_page(x))

init_elf(x, c, prog) ==
    LET loaded[i \in 0 .. Len(prog)] ==
            IF i = 0 THEN init_task(x, c) ELSE load_segment(loaded[i - 1], c, prog[i])
    IN  load_vector(load_vector(loaded[Len(prog)], c), c)

(* sys_spawn, and load_init on the kernel's context at boot.               *)
spawn(prog) ==
    /\ ~m.halted /\ spawned < MaxSpawns
    /\ cur \in active \/ spawned = 0
    /\ \E s \in Slots \ active :
          /\ \A t \in Slots \ active : s <= t
          /\ m' = init_elf(m, s, prog)
          /\ active' = IF m'.halted THEN active ELSE active \cup {s}
          /\ stack' = [stack EXCEPT ![s] = pmm_page(m)]
    /\ spawned' = spawned + 1
    /\ UNCHANGED <<cur, kernel>>

ContextKept(s) == cur  \* mutation: the kernel's context is not activated
ContextAfterExit(s) == IF s = cur THEN KERNEL ELSE cur

(* exit_task of the current task or, for sys_kill, of another one.  When   *)
(* the last task is gone the scheduler aborts.                             *)
exit_task(s) ==
    /\ ~m.halted /\ cur \in active
    /\ LET x == pmm_free(vmm_destroy_context(m, s), stack[s])
       IN  m' = IF active = {s} THEN Halt(x) ELSE x
    /\ active' = active \ {s}
    /\ cur' = ContextAfterExit(s)
    /\ stack' = [stack EXCEPT ![s] = NIL]
    /\ UNCHANGED <<spawned, kernel>>

schedule(s) == /\ ~m.halted /\ active # {}
               /\ cur' = s
               /\ UNCHANGED <<m, active, stack, spawned, kernel>>

(* Programs pass addresses they have not mapped yet.                       *)
Unmapped(c, v) == Walk(m, c, v) = NIL

sys_mmap(v) ==
    /\ ~m.halted /\ cur \in active /\ Unmapped(cur, v)
    /\ m' = IF FreePhys(m) = {} THEN Halt(m) ELSE MapUser(pmm_take(m), cur, v, pmm_page(m))
    /\ UNCHANGED <<active, stack, cur, spawned, kernel>>

(* The page is shared with another task; without one the call is sys_mmap. *)
Share(x) == [pmm_take(x) EXCEPT !.shared = @ \cup {pmm_page(x)}]

sys_mmmap(v, s, w) ==
    /\ ~m.halted /\ cur \in active /\ Unmapped(cur, v) /\ Unmapped(s, w) /\ s # cur
    /\ m' = IF FreePhys(m) = {} THEN Halt(m)
            ELSE MapUser(MapUser(Share(m), cur, v, pmm_page(m)), s, w, pmm_page(m))
    /\ UNCHANGED <<active, stack, cur, spawned, kernel>>

(* vmm_alloc and vmm_free for the kernel's own use (file data, buffers),   *)
(* in a syscall or before the first task runs.                             *)
InKernel == ~m.halted /\ (cur \in active \/ spawned = 0)

kernel_alloc == /\ InKernel /\ Cardinality(kernel) < MaxKernel
                /\ m' = vmm_alloc(m)
                /\ kernel' = kernel \cup {pmm_page(m)}
                /\ UNCHANGED <<active, stack, cur, spawned>>

kernel_free(p) == /\ InKernel
                  /\ m' = pmm_free(m, p)
                  /\ kernel' = kernel \ {p}
                  /\ UNCHANGED <<active, stack, cur, spawned>>

(* vmm_init: the kernel image and the screen are mapped by table 2, page 0 *)
(* is not present in it.  The pages of the image are not counted.          *)
vmm_init ==
    m = [used |-> {NULL}, tables |-> {0, 1, 2},
         own |-> [c \in Contexts |-> IF c = KERNEL THEN {0, 1} ELSE {}],
         pd |-> [c \in Contexts |-> [d \in Dirs |-> IF c = KERNEL /\ d = 0 THEN 2 ELSE NIL]],
         pt |-> [t \in Tables |-> [i \in 0 .. PerTable - 1 |-> Absent]],
         halted |-> FALSE, shared |-> {}, badfree |-> FALSE, exhausted |-> FALSE]

Init == /\ vmm_init /\ active = {} /\ cur = KERNEL /\ spawned = 0 /\ kernel = {}
        /\ stack = [s \in Slots |-> NIL]

Next == \/ \E prog \in Programs : spawn(prog)
        \/ \E s \in active : exit_task(s)
        \/ \E s \in active : schedule(s)
        \/ \E v \in Heap : sys_mmap(v)
        \/ \E v, w \in Heap, s \in active : sys_mmmap(v, s, w)
        \/ kernel_alloc
        \/ \E p \in kernel : kernel_free(p)

Spec == Init /\ [][Next]_vars
-----------------------------------------------------------------------------
TypeOK == /\ m \in Memory /\ active \subseteq Slots /\ cur \in active \cup {KERNEL}
          /\ stack \in [Slots -> Phys \cup {NIL}] /\ kernel \subseteq Phys
          /\ spawned \in 0 .. MaxSpawns

(* What user code can reach in a context.                                  *)
UserPages(c) == {p \in Phys \cup {NIL} : \E d \in Dirs, i \in 0 .. PerTable - 1 :
                    m.pd[c][d] # NIL /\ m.pt[m.pd[c][d]][i] = [page |-> p, user |-> TRUE]}
Stacks == {stack[s] : s \in active}

(* User code never reaches a page that is free, which the next allocation  *)
(* hands to somebody else, or one that belongs to the kernel.              *)
NoStrayPages == ~m.halted =>
    \A s \in active : /\ UserPages(s) \subseteq m.used
                      /\ UserPages(s) \cap (kernel \cup Stacks \cup {NULL}) = {}

(* Memory protection across init_elf, sys_mmap and vmm_destroy_context:    *)
(* but for pages that were shared on purpose, user code reaches no page    *)
(* that is free, the kernel's or another task's.                           *)
Isolation == ~m.halted /\ ~m.exhausted =>
    \A s \in active :
        /\ UserPages(s) \subseteq m.used \cup m.shared
        /\ UserPages(s) \cap (kernel \cup Stacks \cup {NULL}) \subseteq m.shared
        /\ \A t \in active \ {s} : UserPages(s) \cap UserPages(t) \subseteq m.shared

(* vmm_destroy_context, exit_task and init_elf free no page twice: the     *)
(* contract module Pmm puts on its callers.                                *)
FreesHeld == ~m.exhausted => ~m.badfree

LiveTables == {t \in Tables : \E c \in {KERNEL} \cup active :
                  t \in m.own[c] \/ \E d \in Dirs : m.pd[c][d] = t}

(* All kernel memory lies under one entry of the page directory.           *)
OneKernelTable == \A d \in Dirs \ {0} : m.pd[KERNEL][d] = NIL

(* Every page in use is reachable by a task or held by the kernel, and     *)
(* every page-table page in use is part of a live context, so              *)
(* vmm_destroy_context and exit_task lose nothing when tasks come and go.  *)
(* When the kernel outgrows its first page table, vmm_map_page loses the   *)
(* one it put in the current context.                                      *)
NoLeak == ~m.halted /\ ~m.exhausted =>
    /\ m.used \subseteq {NULL} \cup kernel \cup Stacks \cup UNION {UserPages(s) : s \in active}
    /\ OneKernelTable => m.tables = LiveTables

(* "Synchronizing task contexts with kernel context" (vmm.c:283): memory   *)
(* the kernel allocated is mapped in every active task, whose syscalls     *)
(* use it.                                                                 *)
KernelMapped == ~m.halted =>
    \A s \in active : \A p \in kernel \cup Stacks : Walk(m, s, p) = p
=============================================================================

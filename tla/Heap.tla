-------------------------------- MODULE Heap --------------------------------
(***************************************************************************)
(* The segment-list heap.  The kernel has one of fixed size                *)
(* (mckrnl/core/memory/heap.c), every program has one that grows by mmap   *)
(* (user/libraries/libc/stdlib/heap.c); apart from that the two are the    *)
(* same code.  Init chooses which one is meant.                            *)
(*                                                                         *)
(* Addresses are offsets from heap_start.  A header is a record of         *)
(* heap.seg at its address; a block is named by its header, its pointer is *)
(* Hdr further on.  Payloads are left out, except for the canary word at   *)
(* the end of every used segment: heap.canary holds the headers whose      *)
(* canary has its value.  calloc is malloc and a memset of the payload.    *)
(***************************************************************************)
EXTENDS Integers, FiniteSets

CONSTANTS Hdr,       \* sizeof(heap_segment_header_t): 16; with ALLOC_STORE_LOCATION 28
          Granule,   \* 0x10 in the kernel, sizeof(heap_segment_header_t) in libc
          MinSplit,  \* 0x10, the least segment hsh_split makes
          Canary,    \* sizeof(heap_canary_t)
          Page,      \* the unit by which the heap grows, 0x1000
          WordSize,  \* size_t is unsigned: 2^32
          HeapSize,  \* bytes of the initial heap
          MaxHeap,   \* bound: a heap larger than this does not grow any more
          MaxBlocks, \* bound on the blocks held at once
          Sizes      \* sizes callers ask for

NULL == -1
None == [want |-> 0, size |-> 0, old |-> NULL, grown |-> 0]

(* Headers, pages and granules are whole canary words; a page has room for *)
(* a header, a granule and a canary (28 + 28 + 4 of 4096 bytes); nobody    *)
(* asks for so much that rounding up the size overflows size_t.            *)
ASSUME HeapAssumption ==
    /\ Canary \in Nat \ {0} /\ MinSplit \in Nat \ {0}
    /\ Hdr \in Nat \ {0} /\ Hdr % Canary = 0
    /\ Granule \in Nat \ {0} /\ Granule % Canary = 0
    /\ Page \in Nat \ {0} /\ Page % Canary = 0
    /\ HeapSize \in Nat /\ HeapSize % Canary = 0
    /\ Hdr + Granule + Canary <= Page /\ Hdr + MinSplit <= HeapSize
    /\ MaxHeap \in Nat /\ MaxBlocks \in Nat /\ WordSize \in Nat \ {0}
    /\ Sizes \subseteq Nat
    /\ \A n \in Sizes : n + 2 * (Canary + Granule) + 2 * Page < WordSize

VARIABLES heap,      \* [seg, last_hdr, end, canary]
          call,      \* the malloc in progress: what was asked for, the size
                     \* being looked for, the block realloc will free;
                     \* grown counts the expansions (ghost)
          grows,     \* libc's heap: malloc calls expand_heap
          halted,    \* abortf or abort ended the kernel or the program
          live,      \* ghost: the sizes callers asked for, by header
          held,      \* ghost: the number of pointers callers hold
          overrun    \* ghost: blocks whose holder wrote past their end

vars == <<heap, call, grows, halted, live, held, overrun>>

Wrap(n) == n % WordSize

(* Merge segment a with the one behind it when that one is free.           *)
hsh_combine_forward(h, a) ==
    LET n == h.seg[a].next IN
    IF n = NULL \/ (n # NULL /\ ~h.seg[n].free) THEN h
    ELSE [h EXCEPT
            !.last_hdr = IF @ = n THEN a ELSE @,
            !.seg = [x \in DOMAIN h.seg \ {n} |->
                 IF x = a THEN [h.seg[a] EXCEPT !.length = @ + h.seg[n].length + Hdr,
                                                !.next = h.seg[n].next]
                 ELSE IF x = h.seg[n].next THEN [h.seg[x] EXCEPT !.last = a]
                 ELSE h.seg[x]]]

hsh_combine_backward(h, a) ==
    IF h.seg[a].last # NULL /\ h.seg[h.seg[a].last].free
    THEN hsh_combine_forward(h, h.seg[a].last)
    ELSE h

Splits(h, a, n) == n >= MinSplit /\ h.seg[a].length >= n + Hdr + MinSplit

(* Mutation: the segment behind keeps its old last.                        *)
SplitKeepsLast(h, a, n) ==
    LET new == a + n + Hdr IN
    IF ~Splits(h, a, n) THEN h
    ELSE [h EXCEPT
            !.last_hdr = IF @ = a THEN new ELSE @,
            !.seg = [x \in DOMAIN h.seg \cup {new} |->
                 IF x = new THEN [length |-> h.seg[a].length - n - Hdr,
                                  next   |-> h.seg[a].next,
                                  last   |-> a,
                                  free   |-> h.seg[a].free]
                 ELSE IF x = a THEN [h.seg[a] EXCEPT !.next = new, !.length = n]
                 ELSE h.seg[x]]]

(* Cut segment a down to n bytes; the rest becomes a segment behind it.    *)
hsh_split(h, a, n) ==
    LET new == a + n + Hdr IN
    IF ~Splits(h, a, n) THEN h
    ELSE [h EXCEPT
            !.last_hdr = IF @ = a THEN new ELSE @,
            !.seg = [x \in DOMAIN h.seg \cup {new} |->
                 IF x = new THEN [length |-> h.seg[a].length - n - Hdr,
                                  next   |-> h.seg[a].next,
                                  last   |-> a,
                                  free   |-> h.seg[a].free]
                 ELSE IF x = a THEN [h.seg[a] EXCEPT !.next = new, !.length = n]
                 ELSE IF x = h.seg[a].next THEN [h.seg[x] EXCEPT !.last = new]
                 ELSE h.seg[x]]]

(* Mutation: the segment is not marked used.                               *)
PrepareKeepsFree(h, a) == [h EXCEPT !.canary = @ \cup {a}]

(* Mark segment a used and write its canary.                               *)
prepare_segment(h, a) == [h EXCEPT !.seg[a].free = FALSE, !.canary = @ \cup {a}]

(* A canary is lost with its segment: free segments have none.             *)
kfree(h, a) ==
    LET f == [h EXCEPT !.seg[a].free = TRUE, !.canary = @ \ {a}]
    IN  hsh_combine_backward(hsh_combine_forward(f, a), a)

(* Mutation: only the first segment is looked at.                          *)
CheckFirstCanary == heap.seg[0].free \/ 0 \in heap.canary

check_heap_canaries == \A a \in DOMAIN heap.seg : ~heap.seg[a].free => a \in heap.canary

(* Room for the canary, then up to the next granule, both in size_t.       *)
Padded(n) ==
    LET c == Wrap(n + Canary)
    IN  IF c % Granule > 0 THEN Wrap(c - (c % Granule) + Granule) ELSE c

(* The first fit of the walk along the list; Linked keeps the list in      *)
(* address order, so that is the fit with the lowest address.              *)
Fits(n) == {a \in DOMAIN heap.seg : heap.seg[a].free /\ heap.seg[a].length >= n}
FirstFit(n, a) == a \in Fits(n) /\ \A b \in Fits(n) : a <= b

Take(h, a, n) ==
    prepare_segment(IF h.seg[a].length > n THEN hsh_split(h, a, n) ELSE h, a)

CopyHitsAlways(h, old, new) == TRUE  \* mutation: copies the length of the new segment

(* krealloc copies the whole old segment, canary included, to the new one. *)
CopyHits(h, old, new) == h.seg[old].length > h.seg[new].length - Canary
Move(h, old, new) ==
    kfree(IF CopyHits(h, old, new) THEN [h EXCEPT !.canary = @ \ {new}] ELSE h, old)
-----------------------------------------------------------------------------
Idle == ~halted /\ call = None

Abort == halted' = TRUE /\ UNCHANGED <<grows, heap, call, live, held, overrun>>

(* kmalloc and malloc on entry.  Size 0 returns NULL and changes nothing.  *)
Enter(want, old) ==
    \/ ~check_heap_canaries /\ Abort
    \/ /\ check_heap_canaries
       /\ call' = [want |-> want, size |-> Padded(want), old |-> old, grown |-> 0]
       /\ UNCHANGED <<grows, heap, halted, live, held, overrun>>

InBounds(n) == heap.end <= MaxHeap \/ Fits(Padded(n)) # {}

kmalloc(n) == /\ Idle /\ InBounds(n) /\ held < MaxBlocks
              /\ n > 0 /\ Enter(n, NULL)

(* The walk finds a segment: the block is handed out, and the old one of   *)
(* a realloc is copied and freed.                                          *)
kmalloc_found ==
    /\ ~halted /\ call # None
    /\ \E a \in Fits(call.size) :
          /\ FirstFit(call.size, a)
          /\ LET h == Take(heap, a, call.size) IN
             IF call.old = NULL
             THEN /\ heap' = h
                  /\ live' = [x \in DOMAIN live \cup {a} |-> IF x = a THEN call.want ELSE live[x]]
                  /\ held' = held + 1
             ELSE /\ heap' = Move(h, call.old, a)
                  /\ live' = [x \in (DOMAIN live \ {call.old}) \cup {a} |->
                                 IF x = a THEN call.want ELSE live[x]]
                  /\ UNCHANGED held
    /\ call' = None
    /\ UNCHANGED <<grows, halted, overrun>>

(* The kernel heap is full: "kernel heap full: could not allocate".        *)
kmalloc_full == /\ ~halted /\ call # None /\ Fits(call.size) = {} /\ ~grows
                /\ Abort

RoundUp(n) == IF n % Page > 0 THEN n - (n % Page) + Page ELSE n

(* Mutation: the new segment is not merged with the one before it.         *)
ExpandUnmerged ==
    /\ ~halted /\ call # None /\ Fits(call.size) = {} /\ grows
    /\ heap' = [heap EXCEPT
                   !.end = @ + RoundUp(call.size),
                   !.last_hdr = heap.end,
                   !.seg = [x \in DOMAIN heap.seg \cup {heap.end} |->
                       IF x = heap.end
                       THEN [length |-> RoundUp(call.size) - Hdr, next |-> NULL,
                             last |-> heap.last_hdr, free |-> TRUE]
                       ELSE IF x = heap.last_hdr THEN [heap.seg[x] EXCEPT !.next = heap.end]
                       ELSE heap.seg[x]]]
    /\ call' = [call EXCEPT !.size = Padded(@), !.grown = @ + 1]
    /\ UNCHANGED <<grows, halted, live, held, overrun>>

(* A new last segment of whole pages, merged with a free one before it;    *)
(* then malloc is called again with the size that already includes the     *)
(* canary and the padding.                                                 *)
expand_heap ==
    /\ ~halted /\ call # None /\ Fits(call.size) = {} /\ grows
    /\ LET new == heap.end
           length == RoundUp(call.size)
           h == [heap EXCEPT
                   !.end = @ + length,
                   !.last_hdr = new,
                   !.seg = [x \in DOMAIN heap.seg \cup {new} |->
                       IF x = new THEN [length |-> length - Hdr, next |-> NULL,
                                        last |-> heap.last_hdr, free |-> TRUE]
                       ELSE IF x = heap.last_hdr THEN [heap.seg[x] EXCEPT !.next = new]
                       ELSE heap.seg[x]]]
       IN  heap' = hsh_combine_backward(h, new)
    /\ call' = [call EXCEPT !.size = Padded(@), !.grown = @ + 1]
    /\ UNCHANGED <<grows, halted, live, held, overrun>>

kfree_block(a) ==
    /\ Idle
    /\ \/ ~check_heap_canaries /\ Abort
       \/ /\ check_heap_canaries
          /\ heap' = kfree(heap, a)
          /\ live' = [x \in DOMAIN live \ {a} |-> live[x]]
          /\ held' = held - 1
          /\ UNCHANGED <<grows, call, halted, overrun>>

(* krealloc: size 0 frees, NULL allocates; both are the actions above.     *)
krealloc(a, n) ==
    /\ Idle /\ n > 0
    /\ \/ /\ n + Canary <= heap.seg[a].length
          /\ live' = [live EXCEPT ![a] = n]
          /\ UNCHANGED <<grows, heap, call, halted, held, overrun>>
       \/ /\ n + Canary > heap.seg[a].length
          /\ InBounds(n)
          /\ Enter(n, a)

(* A caller writes past the end of its block and hits the canary.          *)
Overrun(a) == /\ Idle
              /\ overrun' = overrun \cup {a}
              /\ heap' = [heap EXCEPT !.canary = @ \ {a}]
              /\ UNCHANGED <<grows, call, halted, live, held>>

initialize_heap ==
    heap = [seg |-> [x \in {0} |-> [length |-> HeapSize - Hdr, next |-> NULL,
                                    last |-> NULL, free |-> TRUE]],
            last_hdr |-> 0, end |-> HeapSize, canary |-> {}]

Init == initialize_heap /\ grows \in BOOLEAN /\ call = None /\ halted = FALSE
        /\ live = [x \in {} |-> 0] /\ held = 0 /\ overrun = {}

Next == \/ \E n \in Sizes : kmalloc(n)
        \/ kmalloc_found \/ kmalloc_full \/ expand_heap
        \/ \E a \in DOMAIN live : kfree_block(a)
        \/ \E a \in DOMAIN live, n \in Sizes : krealloc(a, n)
        \/ \E a \in DOMAIN live : Overrun(a)

Spec == Init /\ [][Next]_vars
-----------------------------------------------------------------------------
Headers == DOMAIN heap.seg

(* Types; and malloc expands the heap at most twice, although it pads the  *)
(* size again after every expansion: a second, when the first missed by a  *)
(* header, merges with the first, and then there is room.                  *)
TypeOK == /\ 0 \in Headers /\ Headers \subseteq 0 .. heap.end - 1
          /\ heap.end \in Nat
          /\ heap.seg \in [Headers -> [length : Nat, next : Headers \cup {NULL},
                                       last : Headers \cup {NULL}, free : BOOLEAN]]
          /\ heap.last_hdr \in Headers
          /\ heap.canary \subseteq Headers
          /\ call.old \in DOMAIN live \cup {NULL}
          /\ DOMAIN live \subseteq Headers
          /\ call.grown \in 0 .. 2
          /\ grows \in BOOLEAN /\ held \in Nat /\ overrun \subseteq DOMAIN live

(* The list is exact: segments follow each other without gap or overlap    *)
(* to the end of the heap, last is the inverse of next, and last_hdr is    *)
(* the segment no other follows.                                           *)
(* Free neighbours are always merged, so fragmentation ends when the last  *)
(* block is freed: the heap is one segment again.                          *)
Linked == \A a \in Headers :
    /\ heap.seg[a].free /\ heap.seg[a].next # NULL => ~heap.seg[heap.seg[a].next].free
    /\ a + Hdr + heap.seg[a].length = IF heap.seg[a].next = NULL THEN heap.end ELSE heap.seg[a].next
    /\ heap.seg[a].next # NULL => heap.seg[heap.seg[a].next].last = a
    /\ heap.seg[a].last # NULL => heap.seg[heap.seg[a].last].next = a
    /\ heap.seg[a].last = NULL <=> a = 0
    /\ heap.seg[a].next = NULL <=> a = heap.last_hdr

(* The used segments are the blocks callers hold, and each has room for    *)
(* what was asked for in front of its canary.                              *)
(* A canary is lost only by its holder's fault: realloc, which copies the  *)
(* old segment with its canary, never overwrites the canary of the new.    *)
BlocksHold == /\ {a \in Headers : ~heap.seg[a].free} = DOMAIN live
              /\ \A a \in DOMAIN live : live[a] + Canary <= heap.seg[a].length
              /\ DOMAIN live \ heap.canary \subseteq overrun

(* Once a block was overrun, the next malloc or free of any block stops    *)
(* before it touches the list the overrun may have damaged.                *)
OverrunDetected == [][heap'.seg # heap.seg => overrun = {}]_vars

(* The segment list implements the abstract allocator.                     *)
HeldBlocks == {[ptr |-> a + Hdr, size |-> live[a]] : a \in DOMAIN live}
Alloc == INSTANCE Allocation WITH blocks <- HeldBlocks, arena <- heap.end, pointers <- held
AllocationSpec == Alloc!Spec
=============================================================================

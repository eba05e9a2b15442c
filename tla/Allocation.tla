----------------------------- MODULE Allocation -----------------------------
(***************************************************************************)
(* What a heap promises its callers: every block handed out lies inside    *)
(* the arena and overlaps no other block, and stays where it is with the   *)
(* size that was asked for until its holder frees or resizes it.           *)
(***************************************************************************)
EXTENDS Naturals

VARIABLES blocks,      \* blocks held by callers: [ptr, size]
          arena,       \* the arena is 0 .. arena - 1
          pointers     \* how many pointers callers hold

Disjoint(b, c) == b.ptr + b.size <= c.ptr \/ c.ptr + c.size <= b.ptr

Fresh(b, held) == /\ b.size > 0
                  /\ b.ptr + b.size <= arena'
                  /\ \A c \in held : Disjoint(b, c)

Blocks == [ptr : Nat, size : Nat]

Init == blocks = {} /\ arena \in Nat /\ pointers = 0

Malloc(b) == b \in Blocks /\ Fresh(b, blocks) /\ blocks' = blocks \cup {b}
             /\ pointers' = pointers + 1

Free(b) == b \in blocks /\ blocks' = blocks \ {b} /\ pointers' = pointers - 1

(* The old block is given up only after the new one exists, so a block     *)
(* that moves overlaps no other, itself included.                          *)
Realloc(b, c) == /\ b \in blocks /\ c \in Blocks
                 /\ Fresh(c, IF c.ptr = b.ptr THEN blocks \ {b} ELSE blocks)
                 /\ blocks' = (blocks \ {b}) \cup {c}
                 /\ UNCHANGED pointers

Grow == arena' \in Nat /\ arena' >= arena

(* The steps are told by the blocks that appear and disappear.             *)
Next == /\ Grow
        /\ \/ UNCHANGED <<blocks, pointers>>
           \/ \E b \in blocks' \ blocks : Malloc(b)
           \/ \E b \in blocks \ blocks' : Free(b)
           \/ \E b \in blocks \ blocks', c \in blocks' \ blocks : Realloc(b, c)

Spec == Init /\ [][Next]_<<blocks, arena, pointers>>
=============================================================================

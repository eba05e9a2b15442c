--------------------------- MODULE PageOwnership ---------------------------
(***************************************************************************)
(* What the physical memory manager promises its callers: every page is    *)
(* either free or granted to exactly one holder, data pages and page-table *)
(* pages come from two separate stocks, and a grant only ever takes pages  *)
(* nobody holds.                                                           *)
(***************************************************************************)
CONSTANTS DataPages,   \* pages that may be granted as data
          TablePages   \* pages reserved for page directories and tables

VARIABLES pages,       \* data pages currently granted
          tables       \* table pages currently granted

Init == pages = {} /\ tables = {}

GrantData(S) == /\ S \subseteq DataPages \ pages
                /\ pages' = pages \cup S
                /\ UNCHANGED tables

GrantTable(S) == /\ S \subseteq TablePages \ tables
                 /\ tables' = tables \cup S
                 /\ UNCHANGED pages

Return(S) == /\ S \subseteq pages \cup tables
             /\ pages' = pages \ S
             /\ tables' = tables \ S

Next == \/ \E S \in SUBSET DataPages : GrantData(S)
        \/ \E S \in SUBSET TablePages : GrantTable(S)
        \/ \E S \in SUBSET (DataPages \cup TablePages) : Return(S)

Spec == Init /\ [][Next]_<<pages, tables>>
=============================================================================

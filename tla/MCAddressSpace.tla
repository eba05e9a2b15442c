--------------------------- MODULE MCAddressSpace ---------------------------
(* Two programs: one page, and two segments that share a page.             *)
EXTENDS AddressSpace

MCPrograms == {<<Offset + NPhys>>, <<Offset + NPhys, Offset + NPhys>>}
MCHeap == {Offset + NPhys + PerTable}
=============================================================================

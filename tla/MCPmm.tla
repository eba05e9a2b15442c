------------------------------- MODULE MCPmm -------------------------------
(* A 13-page machine: page 0 is NULL, 1-2 low RAM, 3-4 the kernel, 5-6 the  *)
(* page-table pool, 7 the multiboot data (its page is marked twice, as when *)
(* the info and the module table share it), 8-10 RAM, 11-12 firmware.       *)
EXTENDS Pmm

MCUsable    == 0 .. 10
MCBootMarks == <<7, 7, 0>>
=============================================================================

--------------------------- MODULE PageTableExec ---------------------------
(***************************************************************************)
(* PageTable with exec's use of uvmclear: the process image may get a     *)
(* stack guard page, a page that stays mapped but that walkaddr, and so  *)
(* copyout, refuses.                                                      *)
(***************************************************************************)
EXTENDS PageTable, TLC

(* exec: after sz = uvmalloc(pagetable, sz, sz + 2*PGSIZE) on a page-    *)
(* aligned sz, uvmclear(pagetable, sz - 2*PGSIZE) makes the lower of the  *)
(* two new pages inaccessible to the user (the guard page below the      *)
(* stack).                                                                *)
Clear(va) ==
  /\ Running
  /\ Apply(UvmClear(S, upt, va))
  /\ UNCHANGED <<upt, sz, kpt, cpt, csz, phase>>

NextExec ==
  \/ Next
  \/ PGROUNDUP(sz) >= 2 * PGSIZE /\ Clear(PGROUNDUP(sz) - 2 * PGSIZE)

SpecExec == Init /\ [][NextExec]_vars
=============================================================================

------------------------------ MODULE PageTable ------------------------------
(***************************************************************************)
(* src/kernel/vm.c: Sv39 page tables for one process, its per-process     *)
(* kernel page table (kpcreate, sync_pagetable, proc_free_k_pagetable)    *)
(* and a forked child's copy (uvmcopy).  A page-table page holds NPTE     *)
(* entries (512 in the code) and a tree has the code's three levels.      *)
(* Physical memory is a pool of frames 1..NFRAMES handed out by kalloc;   *)
(* a frame's entries are only read when it is a page-table page, so a     *)
(* freed frame is modelled as zeroed (kalloc's callers memset it anyway). *)
(* Every vm.c function is an operator from a machine state               *)
(*   [mem, free, crash, dbl]                                              *)
(* to the state it leaves (and its result); loops are RECURSIVE          *)
(* operators, a panic or a kernel trap sets crash and stops the machine,  *)
(* and dbl records a kfree of a frame already on the free list, which    *)
(* xv6's kfree does not detect.                                           *)
(* The callers (proc.c, exec.c) are not in the repository: each action is *)
(* one call of a vm.c function, with arguments the callers can pass.     *)
(***************************************************************************)
EXTENDS Naturals, FiniteSets, FiniteSetsExt

CONSTANTS
  NPTE,      \* entries per page-table page
  PGSIZE,    \* bytes per page
  NFRAMES,   \* physical frames kalloc can hand out
  MaxSz      \* largest process size the callers ask for, in bytes

Idx == 0..NPTE-1
Frames == 1..NFRAMES
DevFrame == NFRAMES + 1          \* a device or kernel-text frame, never kalloc'd
MAXVA == NPTE * NPTE * NPTE * PGSIZE
TRAMPOLINE == MAXVA - PGSIZE
Flags == {"V", "R", "W", "X", "U"}
Zero == [pa |-> 0, fl |-> {}]    \* a PTE of 0
Null == <<0, 0>>                 \* a null pte_t *
Ok == "none"                     \* crash while the machine runs

PGROUNDUP(a) == ((a + PGSIZE - 1) \div PGSIZE) * PGSIZE
PGROUNDDOWN(a) == (a \div PGSIZE) * PGSIZE
PX(level, va) == (va \div (PGSIZE * NPTE ^ level)) % NPTE
IsTable(e) == "V" \in e.fl /\ e.fl \cap {"R", "W", "X"} = {}
Read(s, p) == s.mem[p[1]][p[2]]
SetPte(s, p, e) == [s EXCEPT !.mem[p[1]][p[2]] = e]
Panic(s, msg) == [s EXCEPT !.crash = msg]

(* kalloc: the lowest free frame, or 0 when none is left.                 *)
Kalloc(s) ==
  IF s.free = {} THEN [s |-> s, pa |-> 0]
  ELSE [s |-> [s EXCEPT !.free = @ \ {Min(s.free)}], pa |-> Min(s.free)]

(* kfree: panics on a frame outside the kalloc range; puts the frame on  *)
(* the free list, with no check that it is not there already.            *)
Kfree(s, pa) ==
  IF pa \notin Frames THEN Panic(s, "kfree")
  ELSE [s EXCEPT !.mem[pa] = [i \in Idx |-> Zero],
                 !.free = @ \cup {pa},
                 !.dbl = @ \/ pa \in s.free]

(* walk: descend from level 2 to level 1, allocating a zeroed table page *)
(* for an invalid entry when alloc is set; 0 when it may not or kalloc   *)
(* fails; the address of the level-0 PTE otherwise.                       *)
RECURSIVE WalkLevel(_, _, _, _, _)
WalkLevel(s, pt, va, alloc, level) ==
  LET p == <<pt, PX(level, va)>>
      k == Kalloc(s)
  IN IF level = 0 THEN [s |-> s, pte |-> p]
     ELSE IF "V" \in Read(s, p).fl
       THEN WalkLevel(s, Read(s, p).pa, va, alloc, level - 1)
     ELSE IF ~alloc \/ k.pa = 0 THEN [s |-> s, pte |-> Null]
     ELSE WalkLevel(SetPte(k.s, p, [pa |-> k.pa, fl |-> {"V"}]), k.pa, va,
                    alloc, level - 1)

Walk(s, pt, va, alloc) ==
  IF va >= MAXVA THEN [s |-> Panic(s, "walk"), pte |-> Null]
  ELSE WalkLevel(s, pt, va, alloc, 2)

(* The leaf PTE that maps va in the tree rooted at pt, or 0.              *)
Leaf(s, pt, va) ==
  LET w == Walk(s, pt, va, FALSE) IN IF w.pte = Null THEN Zero ELSE Read(s, w.pte)

(* Bug variant: walkaddr without the PTE_U check.                        *)
WalkAddrNoU(s, pt, va) ==
  LET w == Walk(s, pt, va, FALSE)
  IN IF va >= MAXVA \/ w.pte = Null THEN 0
     ELSE IF "V" \notin Read(s, w.pte).fl THEN 0
     ELSE Read(s, w.pte).pa

(* walkaddr: the frame a user page maps, or 0 when va is out of range,   *)
(* its PTE is missing or invalid, or the page is not user-accessible.    *)
WalkAddr(s, pt, va) ==
  LET w == Walk(s, pt, va, FALSE)
  IN IF va >= MAXVA \/ w.pte = Null THEN 0
     ELSE IF "V" \notin Read(s, w.pte).fl THEN 0
     ELSE IF "U" \notin Read(s, w.pte).fl THEN 0
     ELSE Read(s, w.pte).pa

(* mappages: PTEs for [PGROUNDDOWN(va), PGROUNDDOWN(va+size-1)] mapping  *)
(* consecutive physical pages from pa; FALSE when walk cannot allocate,  *)
(* panic "remap" on a valid PTE.  pa counts pages.                        *)
RECURSIVE MapLoop(_, _, _, _, _, _)
MapLoop(s, pt, a, last, pa, perm) ==
  LET w == Walk(s, pt, a, TRUE)
      s2 == SetPte(w.s, w.pte, [pa |-> pa, fl |-> perm \cup {"V"}])
  IN IF w.s.crash # Ok \/ w.pte = Null THEN [s |-> w.s, ok |-> FALSE]
     ELSE IF "V" \in Read(w.s, w.pte).fl
       THEN [s |-> Panic(w.s, "remap"), ok |-> FALSE]
     ELSE IF a = last THEN [s |-> s2, ok |-> TRUE]
     ELSE MapLoop(s2, pt, a + PGSIZE, last, pa + 1, perm)

MapPages(s, pt, va, size, pa, perm) ==
  MapLoop(s, pt, PGROUNDDOWN(va), PGROUNDDOWN(va + size - 1), pa, perm)

(* uvmunmap: clear npages leaf PTEs from va, freeing their frames when   *)
(* do_free; panics when va is unaligned or a PTE is missing, invalid or  *)
(* not a leaf.                                                            *)
RECURSIVE UnmapLoop(_, _, _, _, _)
UnmapLoop(s, pt, a, stop, dofree) ==
  LET w == Walk(s, pt, a, FALSE)
      e == Read(w.s, w.pte)
  IN IF a >= stop \/ s.crash # Ok THEN s
     ELSE IF w.s.crash # Ok THEN w.s
     ELSE IF w.pte = Null THEN Panic(w.s, "uvmunmap: walk")
     ELSE IF "V" \notin e.fl THEN Panic(w.s, "uvmunmap: not mapped")
     ELSE IF e.fl = {"V"} THEN Panic(w.s, "uvmunmap: not a leaf")
     ELSE UnmapLoop(SetPte(IF dofree THEN Kfree(w.s, e.pa) ELSE w.s, w.pte, Zero),
                    pt, a + PGSIZE, stop, dofree)

UvmUnmap(s, pt, va, npages, dofree) ==
  IF va % PGSIZE # 0 THEN Panic(s, "uvmunmap: not aligned")
  ELSE UnmapLoop(s, pt, va, va + npages * PGSIZE, dofree)

(* Bug variant: uvmdealloc unmaps from the page holding newsz.          *)
UvmDeallocRoundDown(s, pt, oldsz, newsz) ==
  IF newsz >= oldsz THEN [s |-> s, sz |-> oldsz]
  ELSE [s |-> IF PGROUNDDOWN(newsz) < PGROUNDUP(oldsz)
              THEN UvmUnmap(s, pt, PGROUNDDOWN(newsz),
                            (PGROUNDUP(oldsz) - PGROUNDDOWN(newsz)) \div PGSIZE, TRUE)
              ELSE s,
        sz |-> newsz]

(* uvmdealloc: unmap and free the pages from PGROUNDUP(newsz) up to      *)
(* PGROUNDUP(oldsz); the new size.                                        *)
UvmDealloc(s, pt, oldsz, newsz) ==
  IF newsz >= oldsz THEN [s |-> s, sz |-> oldsz]
  ELSE [s |-> IF PGROUNDUP(newsz) < PGROUNDUP(oldsz)
              THEN UvmUnmap(s, pt, PGROUNDUP(newsz),
                            (PGROUNDUP(oldsz) - PGROUNDUP(newsz)) \div PGSIZE, TRUE)
              ELSE s,
        sz |-> newsz]

UserPerm == {"W", "X", "R", "U"}

RECURSIVE AllocLoop(_, _, _, _, _)

(* Bug variant: uvmalloc returns 0 on a kalloc failure without undoing   *)
(* the pages it mapped.                                                   *)
AllocLoopNoDealloc(s, pt, a, oldsz, newsz) ==
  LET k == Kalloc(s)
      m == MapPages(k.s, pt, a, PGSIZE, k.pa, UserPerm)
  IN IF a >= newsz THEN [s |-> s, sz |-> newsz]
     ELSE IF k.pa = 0 THEN [s |-> k.s, sz |-> 0]
     ELSE IF m.s.crash # Ok THEN [s |-> m.s, sz |-> 0]
     ELSE IF ~m.ok
       THEN [s |-> UvmDealloc(Kfree(m.s, k.pa), pt, a, oldsz).s, sz |-> 0]
     ELSE AllocLoop(m.s, pt, a + PGSIZE, oldsz, newsz)

(* uvmalloc: map a fresh frame at each page from PGROUNDUP(oldsz) below  *)
(* newsz; on a kalloc or mappages failure, free the frame just taken and *)
(* uvmdealloc back to oldsz, and return 0.                                *)
AllocLoop(s, pt, a, oldsz, newsz) ==
  LET k == Kalloc(s)
      m == MapPages(k.s, pt, a, PGSIZE, k.pa, UserPerm)
  IN IF a >= newsz THEN [s |-> s, sz |-> newsz]
     ELSE IF k.pa = 0 THEN [s |-> UvmDealloc(k.s, pt, a, oldsz).s, sz |-> 0]
     ELSE IF m.s.crash # Ok THEN [s |-> m.s, sz |-> 0]
     ELSE IF ~m.ok
       THEN [s |-> UvmDealloc(Kfree(m.s, k.pa), pt, a, oldsz).s, sz |-> 0]
     ELSE AllocLoop(m.s, pt, a + PGSIZE, oldsz, newsz)

UvmAlloc(s, pt, oldsz, newsz) ==
  IF newsz < oldsz THEN [s |-> s, sz |-> oldsz]
  ELSE AllocLoop(s, pt, PGROUNDUP(oldsz), PGROUNDUP(oldsz), newsz)

RECURSIVE FreeWalkFrom(_, _, _)

(* Bug variant: freewalk frees the pages below pt but not pt itself.     *)
FreeWalkKeepRoot(s, pt, i) ==
  LET e == s.mem[pt][i]
  IN IF s.crash # Ok THEN s
     ELSE IF i = NPTE THEN s
     ELSE IF IsTable(e)
       THEN FreeWalkFrom(SetPte(FreeWalkFrom(s, e.pa, 0), <<pt, i>>, Zero), pt, i + 1)
     ELSE IF "V" \in e.fl THEN Panic(s, "freewalk: leaf")
     ELSE FreeWalkFrom(s, pt, i + 1)

(* freewalk: free every page-table page below pt and pt itself; panics   *)
(* on a leaf that is still mapped.                                        *)
FreeWalkFrom(s, pt, i) ==
  LET e == s.mem[pt][i]
  IN IF s.crash # Ok THEN s
     ELSE IF i = NPTE THEN Kfree(s, pt)
     ELSE IF IsTable(e)
       THEN FreeWalkFrom(SetPte(FreeWalkFrom(s, e.pa, 0), <<pt, i>>, Zero), pt, i + 1)
     ELSE IF "V" \in e.fl THEN Panic(s, "freewalk: leaf")
     ELSE FreeWalkFrom(s, pt, i + 1)

(* uvmfree: unmap and free the pages below PGROUNDUP(sz), then freewalk. *)
UvmFree(s, pt, sz) ==
  FreeWalkFrom(IF sz > 0 THEN UvmUnmap(s, pt, 0, PGROUNDUP(sz) \div PGSIZE, TRUE)
               ELSE s, pt, 0)

(* uvmcreate: a zeroed page-table page, or 0.                            *)
UvmCreate(s) == Kalloc(s)

(* uvminit: the first process's code page at va 0.  kalloc's result is   *)
(* not checked: memset(0, ...) on failure traps.                          *)
UvmInit(s, pt) ==
  LET k == Kalloc(s)
  IN IF k.pa = 0 THEN Panic(k.s, "kerneltrap")
     ELSE MapPages(k.s, pt, 0, PGSIZE, k.pa, UserPerm).s

RECURSIVE CopyLoop(_, _, _, _, _)

(* Bug variants of uvmcopy.  The child maps the parent's frame instead   *)
(* of a copy of it.                                                       *)
CopyLoopShared(s, old, new, i, sz) ==
  LET w == Walk(s, old, i, FALSE)
      e == Read(w.s, w.pte)
      m == MapPages(w.s, new, i, PGSIZE, e.pa, e.fl)
  IN IF i >= sz THEN [s |-> s, ok |-> TRUE]
     ELSE IF w.s.crash # Ok THEN [s |-> w.s, ok |-> FALSE]
     ELSE IF w.pte = Null
       THEN [s |-> Panic(w.s, "uvmcopy: pte should exist"), ok |-> FALSE]
     ELSE IF "V" \notin e.fl
       THEN [s |-> Panic(w.s, "uvmcopy: page not present"), ok |-> FALSE]
     ELSE IF m.s.crash # Ok THEN [s |-> m.s, ok |-> FALSE]
     ELSE IF ~m.ok THEN [s |-> UvmUnmap(m.s, new, 0, i \div PGSIZE, TRUE), ok |-> FALSE]
     ELSE CopyLoop(m.s, old, new, i + PGSIZE, sz)

(* The error path unmaps one page fewer than were mapped.                *)
CopyLoopShortUnmap(s, old, new, i, sz) ==
  LET w == Walk(s, old, i, FALSE)
      e == Read(w.s, w.pte)
      k == Kalloc(w.s)
      m == MapPages(k.s, new, i, PGSIZE, k.pa, e.fl)
      err(s2) == [s |-> UvmUnmap(s2, new, 0, i \div PGSIZE - 1, TRUE), ok |-> FALSE]
  IN IF i >= sz THEN [s |-> s, ok |-> TRUE]
     ELSE IF w.s.crash # Ok THEN [s |-> w.s, ok |-> FALSE]
     ELSE IF w.pte = Null
       THEN [s |-> Panic(w.s, "uvmcopy: pte should exist"), ok |-> FALSE]
     ELSE IF "V" \notin e.fl
       THEN [s |-> Panic(w.s, "uvmcopy: page not present"), ok |-> FALSE]
     ELSE IF k.pa = 0 THEN err(k.s)
     ELSE IF m.s.crash # Ok THEN [s |-> m.s, ok |-> FALSE]
     ELSE IF ~m.ok THEN err(Kfree(m.s, k.pa))
     ELSE CopyLoop(m.s, old, new, i + PGSIZE, sz)

(* A failed mappages does not give back the frame just taken.            *)
CopyLoopLeak(s, old, new, i, sz) ==
  LET w == Walk(s, old, i, FALSE)
      e == Read(w.s, w.pte)
      k == Kalloc(w.s)
      m == MapPages(k.s, new, i, PGSIZE, k.pa, e.fl)
      err(s2) == [s |-> UvmUnmap(s2, new, 0, i \div PGSIZE, TRUE), ok |-> FALSE]
  IN IF i >= sz THEN [s |-> s, ok |-> TRUE]
     ELSE IF w.s.crash # Ok THEN [s |-> w.s, ok |-> FALSE]
     ELSE IF w.pte = Null
       THEN [s |-> Panic(w.s, "uvmcopy: pte should exist"), ok |-> FALSE]
     ELSE IF "V" \notin e.fl
       THEN [s |-> Panic(w.s, "uvmcopy: page not present"), ok |-> FALSE]
     ELSE IF k.pa = 0 THEN err(k.s)
     ELSE IF m.s.crash # Ok THEN [s |-> m.s, ok |-> FALSE]
     ELSE IF ~m.ok THEN err(m.s)
     ELSE CopyLoop(m.s, old, new, i + PGSIZE, sz)

(* uvmcopy: for each page below sz, take a frame and map it in new with  *)
(* the parent's flags; on failure unmap and free the first i/PGSIZE      *)
(* pages of new and return -1 (ok = FALSE).  The page contents are not   *)
(* modelled.                                                              *)
CopyLoop(s, old, new, i, sz) ==
  LET w == Walk(s, old, i, FALSE)
      e == Read(w.s, w.pte)
      k == Kalloc(w.s)
      m == MapPages(k.s, new, i, PGSIZE, k.pa, e.fl)
      err(s2) == [s |-> UvmUnmap(s2, new, 0, i \div PGSIZE, TRUE), ok |-> FALSE]
  IN IF i >= sz THEN [s |-> s, ok |-> TRUE]
     ELSE IF w.s.crash # Ok THEN [s |-> w.s, ok |-> FALSE]
     ELSE IF w.pte = Null
       THEN [s |-> Panic(w.s, "uvmcopy: pte should exist"), ok |-> FALSE]
     ELSE IF "V" \notin e.fl
       THEN [s |-> Panic(w.s, "uvmcopy: page not present"), ok |-> FALSE]
     ELSE IF k.pa = 0 THEN err(k.s)
     ELSE IF m.s.crash # Ok THEN [s |-> m.s, ok |-> FALSE]
     ELSE IF ~m.ok THEN err(Kfree(m.s, k.pa))
     ELSE CopyLoop(m.s, old, new, i + PGSIZE, sz)

UvmCopy(s, old, new, sz) == CopyLoop(s, old, new, 0, sz)

(* uvmclear: clear PTE_U of the PTE for va (exec's stack guard page);    *)
(* panics when walk finds no level-0 table.                               *)
UvmClear(s, pt, va) ==
  LET w == Walk(s, pt, va, FALSE)
  IN IF w.pte = Null THEN Panic(w.s, "uvmclear")
     ELSE SetPte(w.s, w.pte, [Read(w.s, w.pte) EXCEPT !.fl = @ \ {"U"}])

(* copyout: copy len bytes of src to dstva one page at a time; each page *)
(* is translated with walkaddr, and -1 is returned at the first page it  *)
(* refuses, after the earlier pages were written.  Page contents are not *)
(* modelled: the result records which byte k of src went to which        *)
(* physical byte address pa0 * PGSIZE + offset.                           *)
RECURSIVE CopyOutLoop(_, _, _, _, _, _)
CopyOutLoop(s, pt, dstva, k, len, acc) ==
  LET va0 == PGROUNDDOWN(dstva)
      pa0 == WalkAddr(s, pt, va0)
      n == IF PGSIZE - (dstva - va0) > len THEN len ELSE PGSIZE - (dstva - va0)
  IN IF len = 0 THEN [ok |-> TRUE, wrote |-> acc]
     ELSE IF pa0 = 0 THEN [ok |-> FALSE, wrote |-> acc]
     ELSE CopyOutLoop(s, pt, va0 + PGSIZE, k + n, len - n,
                      acc \cup {<<k + j, pa0 * PGSIZE + (dstva - va0) + j>> : j \in 0..n-1})

CopyOut(s, pt, dstva, len) == CopyOutLoop(s, pt, dstva, 0, len, {})

(* kpcreate: a kernel page table with the kernel's fixed mappings.  The  *)
(* six my_kvmmap calls (UART, virtio, PLIC, text, data, trampoline) map  *)
(* device and kernel frames at fixed addresses above every user address; *)
(* they are modelled by the trampoline page, mapped to a frame outside   *)
(* the kalloc range.  kalloc's result is not checked; my_kvmmap panics   *)
(* when mappages fails.                                                   *)
KpCreate(s) ==
  LET k == Kalloc(s)
      m == MapPages(k.s, k.pa, TRAMPOLINE, PGSIZE, DevFrame, {"R", "X"})
  IN IF k.pa = 0 THEN [s |-> Panic(k.s, "kerneltrap"), pt |-> 0]
     ELSE IF m.s.crash = Ok /\ ~m.ok THEN [s |-> Panic(m.s, "my_kvmmap"), pt |-> k.pa]
     ELSE [s |-> m.s, pt |-> k.pa]

RECURSIVE FreeKFrom(_, _, _)

(* Bug variant: proc_free_k_pagetable also frees the frames leaf PTEs    *)
(* map, as freewalk's callers do through uvmunmap.                        *)
FreeKFromLeaves(s, pt, i) ==
  LET e == s.mem[pt][i]
  IN IF s.crash # Ok THEN s
     ELSE IF i = NPTE THEN Kfree(s, pt)
     ELSE IF IsTable(e)
       THEN FreeKFrom(SetPte(FreeKFrom(s, e.pa, 0), <<pt, i>>, Zero), pt, i + 1)
     ELSE IF "V" \in e.fl THEN FreeKFrom(Kfree(s, e.pa), pt, i + 1)
     ELSE FreeKFrom(s, pt, i + 1)

(* proc_free_k_pagetable: free every page-table page below pt and pt     *)
(* itself, leaving the frames that leaf PTEs map.                         *)
FreeKFrom(s, pt, i) ==
  LET e == s.mem[pt][i]
  IN IF s.crash # Ok THEN s
     ELSE IF i = NPTE THEN Kfree(s, pt)
     ELSE IF IsTable(e)
       THEN FreeKFrom(SetPte(FreeKFrom(s, e.pa, 0), <<pt, i>>, Zero), pt, i + 1)
     ELSE FreeKFrom(s, pt, i + 1)

ProcFreeKPagetable(s, pt) == FreeKFrom(s, pt, 0)

RECURSIVE SyncLoop(_, _, _, _, _)

(* sync_pagetable: copy the user leaf PTE of each page in [start, end)   *)
(* into the kernel table without PTE_U, allocating kernel table pages.   *)
(* The loop starts at start as given, unrounded.  Neither walk's result  *)
(* is checked.  The store through a 0 kernel_pte goes through kpt, the   *)
(* table the caller runs on: it traps while va 0 is unmapped there, and  *)
(* once user page 0 has been synced it silently lands in that page.      *)
SyncLoop(s, upt, kpt, a, end) ==
  LET wu == Walk(s, upt, a, FALSE)
      wk == Walk(wu.s, kpt, a, TRUE)
  IN IF a >= end \/ s.crash # Ok THEN s
     ELSE IF wk.s.crash # Ok THEN wk.s
     ELSE IF wu.pte = Null THEN Panic(wk.s, "kerneltrap")
     ELSE IF wk.pte = Null
       THEN IF "V" \in Leaf(wk.s, kpt, 0).fl THEN SyncLoop(wk.s, upt, kpt, a + PGSIZE, end)
            ELSE Panic(wk.s, "kerneltrap")
     ELSE SyncLoop(SetPte(wk.s, wk.pte, [Read(wk.s, wu.pte) EXCEPT !.fl = @ \ {"U"}]),
                   upt, kpt, a + PGSIZE, end)

SyncPagetable(s, upt, kpt, start, end) == SyncLoop(s, upt, kpt, start, end)
-----------------------------------------------------------------------------
(* One process: its user page table upt of size sz, its kernel page      *)
(* table kpt, and a child page table cpt being forked from it.            *)
VARIABLES
  mem,    \* mem[f][i]: entry i of frame f
  free,   \* the frames on kalloc's free list
  crash,  \* Ok, or the panic (or trap) that stopped the kernel
  dbl,    \* some kfree put a frame on the free list twice
  upt,    \* root of the user page table (0 once uvmfree'd)
  sz,     \* the process size
  kpt,    \* root of the per-process kernel page table (0 once freed)
  cpt,    \* root of the child's user page table (0 when there is none)
  csz,    \* the size the child's table is freed with
  phase   \* the child's table: "none", "created", "copied" or "failed"

vars == <<mem, free, crash, dbl, upt, sz, kpt, cpt, csz, phase>>

S == [mem |-> mem, free |-> free, crash |-> crash, dbl |-> dbl]
Apply(s) == mem' = s.mem /\ free' = s.free /\ crash' = s.crash /\ dbl' = s.dbl

InitSz == 1     \* the size of initcode, less than a page

(* userinit and allocproc for the first process: uvmcreate, uvminit and  *)
(* kpcreate on an empty machine.                                          *)
Boot ==
  LET s0 == [mem |-> [f \in Frames |-> [i \in Idx |-> Zero]], free |-> Frames,
             crash |-> Ok, dbl |-> FALSE]
      u == UvmCreate(s0)
      k == KpCreate(UvmInit(u.s, u.pa))
  IN [s |-> k.s, upt |-> u.pa, kpt |-> k.pt]

Init ==
  /\ mem = Boot.s.mem /\ free = Boot.s.free
  /\ crash = Boot.s.crash /\ dbl = Boot.s.dbl
  /\ upt = Boot.upt /\ kpt = Boot.kpt /\ sz = InitSz
  /\ cpt = 0 /\ csz = 0 /\ phase = "none"

Running == crash = Ok /\ upt # 0

(* growproc(n > 0): sz = uvmalloc(pagetable, sz, sz + n), unless 0.     *)
Grow(newsz) ==
  LET r == UvmAlloc(S, upt, sz, newsz)
  IN /\ Running
     /\ Apply(r.s)
     /\ sz' = IF r.sz = 0 THEN sz ELSE r.sz
     /\ UNCHANGED <<upt, kpt, cpt, csz, phase>>

(* growproc(n < 0): sz = uvmdealloc(pagetable, sz, sz + n).              *)
Shrink(newsz) ==
  LET r == UvmDealloc(S, upt, sz, newsz)
  IN /\ Running
     /\ Apply(r.s)
     /\ sz' = r.sz
     /\ UNCHANGED <<upt, kpt, cpt, csz, phase>>

(* The pages of [start, end) have a level-0 table in the user tree, the  *)
(* condition under which walk(u_pagetable, address, 0) is not 0.          *)
UserTablesCover(start, end) ==
  \A a \in start..end-1 : Walk(S, upt, a, FALSE).pte # Null

(* sync_pagetable(pagetable, k_pagetable, start, end).                    *)
Sync(start, end) ==
  /\ Running /\ kpt # 0
  /\ UserTablesCover(start, end)
  /\ Apply(SyncPagetable(S, upt, kpt, start, end))
  /\ UNCHANGED <<upt, sz, kpt, cpt, csz, phase>>

(* fork: np->pagetable = uvmcreate() (fork fails when it returns 0).     *)
ForkCreate ==
  LET c == UvmCreate(S)
  IN /\ Running /\ phase = "none"
     /\ Apply(c.s)
     /\ cpt' = c.pa
     /\ phase' = IF c.pa = 0 THEN "none" ELSE "created"
     /\ UNCHANGED <<upt, sz, kpt, csz>>

(* fork: uvmcopy(p->pagetable, np->pagetable, p->sz).                     *)
ForkCopy ==
  LET r == UvmCopy(S, upt, cpt, sz)
  IN /\ Running /\ phase = "created"
     /\ Apply(r.s)
     /\ phase' = IF r.ok THEN "copied" ELSE "failed"
     /\ csz' = IF r.ok THEN sz ELSE 0
     /\ UNCHANGED <<upt, sz, kpt, cpt>>

(* The child's table is freed: uvmfree(pagetable, sz) with the size the  *)
(* child got (0 after a failed uvmcopy, as freeproc does).                *)
ChildFree ==
  /\ crash = Ok /\ phase \in {"copied", "failed"}
  /\ Apply(UvmFree(S, cpt, csz))
  /\ cpt' = 0 /\ csz' = 0 /\ phase' = "none"
  /\ UNCHANGED <<upt, sz, kpt>>

(* The process is freed: uvmfree(pagetable, sz).                          *)
ExitFree ==
  /\ Running
  /\ Apply(UvmFree(S, upt, sz))
  /\ upt' = 0 /\ sz' = 0
  /\ UNCHANGED <<kpt, cpt, csz, phase>>

(* The process is freed: proc_free_k_pagetable(kpagetable), after its    *)
(* user table.                                                            *)
KFree ==
  /\ crash = Ok /\ upt = 0 /\ kpt # 0
  /\ Apply(ProcFreeKPagetable(S, kpt))
  /\ kpt' = 0
  /\ UNCHANGED <<upt, sz, cpt, csz, phase>>

Pages == {a \in 0..PGROUNDUP(MaxSz) : a % PGSIZE = 0}

Next ==
  \/ \E n \in 0..MaxSz : n > sz /\ Grow(n)
  \/ \E n \in 0..MaxSz : n < sz /\ Shrink(n)
  \/ \E a, b \in 0..MaxSz : a < b /\ Sync(a, b)
  \/ ForkCreate \/ ForkCopy \/ ChildFree \/ ExitFree \/ KFree

Spec == Init /\ [][Next]_vars

-----------------------------------------------------------------------------
(* The page-table pages of the tree rooted at pt, and the frames its     *)
(* leaf PTEs map.                                                         *)
RECURSIVE TableFrames(_, _)
TableFrames(m, pt) ==
  {pt} \cup UNION {TableFrames(m, m[pt][i].pa) : i \in {j \in Idx : IsTable(m[pt][j])}}

LeafFrames(m, pt) ==
  UNION {{m[t][i].pa : i \in {j \in Idx : "V" \in m[t][j].fl /\ ~IsTable(m[t][j])}}
         : t \in TableFrames(m, pt)}

Tree(pt) == IF pt = 0 THEN {} ELSE TableFrames(mem, pt)
InUse == Tree(upt) \cup Tree(cpt) \cup Tree(kpt)
         \cup (IF upt = 0 THEN {} ELSE LeafFrames(mem, upt))
         \cup (IF cpt = 0 THEN {} ELSE LeafFrames(mem, cpt))

(* Every frame is either on kalloc's free list or used by one of the     *)
(* live page tables (as a table page, or as a user page it maps), never  *)
(* both: the failure paths of uvmalloc, uvmcopy and uvmdealloc, and      *)
(* uvmfree, freewalk and proc_free_k_pagetable, neither leak a frame nor *)
(* free one that is still used.                                           *)
FramesAccounted ==
  crash = Ok => /\ (InUse \cap Frames) \cup free = Frames
                /\ InUse \cap free = {}

(* No kfree puts a frame on the free list twice (kfree cannot tell, and  *)
(* the frame would later be handed out twice).                            *)
NoDoubleFree == ~dbl

(* With the callers' arguments, no vm.c function panics or dereferences *)
(* a null PTE.                                                            *)
NoPanic == crash = Ok

(* uvmalloc is all or nothing: when it returns newsz, every page from    *)
(* PGROUNDUP(oldsz) below newsz maps a frame that was free, with user    *)
(* permissions, and no other page changed; when it returns 0, the user   *)
(* mappings are what they were.                                           *)
UvmAllocAllOrNothing ==
  [][\A n \in 0..MaxSz :
       (n > sz /\ Grow(n)) =>
         \A a \in Pages :
            IF sz' # sz /\ a >= PGROUNDUP(sz) /\ a < n
            THEN /\ Leaf(S, upt, a)'.fl = UserPerm \cup {"V"}
                 /\ Leaf(S, upt, a)'.pa \in free
            ELSE Leaf(S, upt, a)' = Leaf(S, upt, a)]_vars

(* uvmcopy gives the child, for every page below sz, a fresh frame with  *)
(* the parent's flags and nothing else; when it fails the child maps no  *)
(* page at all, so freeproc's uvmfree(pagetable, 0) cannot meet a leaf.  *)
UvmCopyExact ==
  [][ForkCopy =>
       \A a \in Pages :
          IF phase' = "copied" /\ a < sz
          THEN /\ Leaf(S, cpt, a)'.fl = Leaf(S, upt, a).fl
               /\ Leaf(S, cpt, a)'.pa \in free
          ELSE Leaf(S, cpt, a)' = Zero]_vars

(* After sync_pagetable(u, k, start, end) the kernel table maps every    *)
(* page that holds a byte of [start, end) as the user table does, without *)
(* PTE_U, and its other mappings (the trampoline among them) are          *)
(* unchanged.  start and end are byte sizes, as uvmalloc's oldsz and      *)
(* newsz are, so start need not be page-aligned.                          *)
SyncMirrors ==
  [][\A a, b \in 0..MaxSz :
       (a < b /\ Sync(a, b) /\ crash' = Ok) =>
         \A x \in Pages \cup {TRAMPOLINE} :
            Leaf(S, kpt, x)' =
              IF PGROUNDDOWN(a) <= x /\ x < b
              THEN [Leaf(S, upt, x) EXCEPT !.fl = @ \ {"U"}]
              ELSE Leaf(S, kpt, x)]_vars

(* The frame the user page holding va maps, read from the leaf PTE, when *)
(* the page is valid and user-accessible; 0 otherwise.                    *)
UserFrame(va) ==
  LET e == Leaf(S, upt, PGROUNDDOWN(va))
  IN IF va < MAXVA /\ {"V", "U"} \subseteq e.fl THEN e.pa ELSE 0

(* copyout(pagetable, dst, src, len), for every destination around the   *)
(* user image and every length up to two pages, aligned or not: byte k   *)
(* of src goes to byte (dst+k) % PGSIZE of the frame of page dst+k, for  *)
(* every k before the first byte whose page is unmapped or not user-     *)
(* accessible (exec's guard page), and -1 is returned exactly when there *)
(* is such a byte.  Nothing is written outside the user's own pages.     *)
CopyOutCorrect ==
  Running =>
    \A dst \in 0..PGROUNDUP(MaxSz) + PGSIZE - 1, len \in 1..2 * PGSIZE :
       LET r == CopyOut(S, upt, dst, len)
           bad == {k \in 0..len-1 : UserFrame(dst + k) = 0}
           stop == IF bad = {} THEN len ELSE Min(bad)
       IN /\ r.ok = (bad = {})
          /\ r.wrote = {<<k, UserFrame(dst + k) * PGSIZE + ((dst + k) % PGSIZE)>> :
                        k \in 0..stop-1}

-----------------------------------------------------------------------------
(* Refinement: the user page table, read through walk, is the flat map   *)
(* of AddrSpace, and every step of the page-table code is a step of      *)
(* AddrSpace or leaves the map and size alone.                            *)
UMap == [a \in Pages |-> IF upt = 0 THEN 0 ELSE Leaf(S, upt, a).pa]

AS == INSTANCE AddrSpace WITH asz <- sz, amap <- UMap, alive <- (upt # 0)

(* The page-table implementation of uvmalloc, uvmdealloc and uvmfree     *)
(* behaves as the flat address space: growth by fresh frames or not at   *)
(* all, shrinking to PGROUNDUP(newsz), and nothing else moving the map.  *)
ImplementsAddrSpace == AS!Spec
=============================================================================

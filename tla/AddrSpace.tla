----------------------------- MODULE AddrSpace -----------------------------
(***************************************************************************)
(* What vm.c promises a process about its user memory, without page      *)
(* tables: a size and a flat map from each page address to the frame it  *)
(* maps (0 when unmapped).  uvmalloc (vm.c line 197) either grows the    *)
(* process by fresh frames or changes nothing; uvmdealloc (line 222)     *)
(* drops the pages at and above PGROUNDUP(newsz); uvmfree (line 258)     *)
(* drops them all.                                                        *)
(***************************************************************************)
EXTENDS Naturals

CONSTANTS PGSIZE, Pages, Frames, MaxSz

VARIABLES asz, amap, alive

avars == <<asz, amap, alive>>

RoundUp(a) == ((a + PGSIZE - 1) \div PGSIZE) * PGSIZE
Mapped == {amap[a] : a \in {p \in Pages : amap[p] # 0}}

(* The pages below the rounded-up size are mapped, to distinct frames,   *)
(* and no others.                                                         *)
Shape(sz, m) ==
  /\ \A a \in Pages : (m[a] # 0) <=> (a < RoundUp(sz))
  /\ \A a, b \in Pages : (a # b /\ m[a] # 0) => m[a] # m[b]

Init ==
  /\ alive = TRUE
  /\ asz \in 1..PGSIZE-1
  /\ amap \in [Pages -> Frames \cup {0}]
  /\ Shape(asz, amap)

(* uvmalloc(pagetable, sz, n): the new pages map frames nothing maps.    *)
Grow(n) ==
  /\ alive /\ n > asz
  /\ \/ /\ asz' = n
        /\ amap' \in [Pages -> Frames \cup {0}]
        /\ \A a \in Pages :
             IF RoundUp(asz) <= a /\ a < n THEN amap'[a] \in Frames \ Mapped
             ELSE amap'[a] = amap[a]
        /\ Shape(asz', amap')
     \/ UNCHANGED <<asz, amap>>
  /\ UNCHANGED alive

(* uvmdealloc(pagetable, sz, n).                                          *)
Shrink(n) ==
  /\ alive /\ n < asz
  /\ asz' = n
  /\ amap' = [a \in Pages |-> IF a >= RoundUp(n) THEN 0 ELSE amap[a]]
  /\ UNCHANGED alive

(* uvmfree(pagetable, sz).                                                *)
Free ==
  /\ alive
  /\ alive' = FALSE /\ asz' = 0 /\ amap' = [a \in Pages |-> 0]

Next == \/ \E n \in 0..MaxSz : Grow(n) \/ Shrink(n)
        \/ Free

Spec == Init /\ [][Next]_avars
=============================================================================

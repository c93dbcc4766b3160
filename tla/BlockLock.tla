------------------------------ MODULE BlockLock ------------------------------
(***************************************************************************)
(* What the buffer cache promises its callers (bio.c's header comment:    *)
(* "Only one process at a time can use a buffer"; bget's "return locked   *)
(* buffer"): a block is an exclusive lock.  bread acquires the block it    *)
(* names, blocking while another caller holds it; brelse releases it.     *)
(* Buffers, buckets, reference counts and spinlocks are not visible here. *)
(***************************************************************************)
CONSTANTS Threads, Keys   \* callers, and the <<dev, blockno>> they name

VARIABLE holders          \* holders[k]: the callers holding block k

Init == holders = [k \in Keys |-> {}]

(* bread(dev, blockno) returns: the caller now holds the block, which no  *)
(* other caller held.                                                      *)
Acquire(t, k) ==
  /\ holders[k] = {}
  /\ holders' = [holders EXCEPT ![k] = {t}]

(* brelse: the holder gives the block up.                                  *)
Release(t, k) ==
  /\ t \in holders[k]
  /\ holders' = [holders EXCEPT ![k] = {}]

Next == \E t \in Threads, k \in Keys : Acquire(t, k) \/ Release(t, k)

Spec == Init /\ [][Next]_holders
=============================================================================

------------------------------ MODULE BCacheOld ------------------------------
(***************************************************************************)
(* The earlier bget of src/bio_after.c, on the same state as BCache.  Its  *)
(* fast path only looks for a hit; its steal loop takes lock[new_id] even  *)
(* when new_id is the bucket it already holds, and it relabels the buffer  *)
(* it finds without moving it to bucket id.  bread, brelse, bpin and       *)
(* bunpin are the same code in both files and are taken from BCache.       *)
(***************************************************************************)
EXTENDS Naturals, FiniteSets, Sequences, SequencesExt

CONSTANTS Threads, Devs, Blocks, NBUF, NBUCKETS, None, MaxPinned

VARIABLES dev, blockno, valid, refcnt, bucket, lock, glock, sleep, panicked,
          pc, req, buf, scan, newid, pinned

C == INSTANCE BCache

vars == C!vars

(* binit, bread, brelse, bpin, bunpin and bget's hit path, global lock   *)
(* and re-lock of bucket id are the same code as in bio.c: they are       *)
(* BCache's actions.                                                        *)
Init == C!Init
BRead(t) == C!BRead(t)
BGetHit(t) == C!BGetHit(t)
BGetGlobal(t) == C!BGetGlobal(t)
BGetBucket(t) == C!BGetBucket(t)
AcquireSleep(t) == C!AcquireSleep(t)
BRelseSleep(t) == C!BRelseSleep(t)
BRelse(t) == C!BRelse(t)
BPin(t) == C!BPin(t)
BUnpin(t) == C!BUnpin(t)

(* bget, under bcache.lock[id]: no buffer of bucket id caches the block;  *)
(* the lock is released and the steal path is taken.                       *)
BGetMiss(t) ==
  LET id == C!Id(t)
  IN /\ lock[id] = None
     /\ SelectInSeq(bucket[id], LAMBDA b : C!KeyOf(b) = req[t]) = 0
     /\ C!Goto(t, "fast", "global")
     /\ UNCHANGED <<dev, blockno, valid, refcnt, bucket, lock, glock, sleep,
                    panicked, req, buf, scan, newid, pinned>>

(* Steal loop: acquire(&bcache.lock[new_id]), which spins forever when    *)
(* new_id is id, whose lock this thread holds; the buffer is in use.       *)
BGetScanBusy(t) ==
  LET b == scan[t]
  IN /\ C!Running
     /\ pc[t] = "scan"
     /\ b < NBUF
     /\ lock[C!Hash(blockno[b])] = None
     /\ refcnt[b] # 0
     /\ scan' = [scan EXCEPT ![t] = @ + 1]
     /\ UNCHANGED <<dev, blockno, valid, refcnt, bucket, lock, glock, sleep,
                    panicked, pc, req, buf, newid, pinned>>

(* Steal loop: acquire(&bcache.lock[new_id]) and find refcnt == 0.         *)
BGetScanFree(t) ==
  LET b == scan[t]
  IN /\ b < NBUF
     /\ lock[C!Hash(blockno[b])] = None
     /\ refcnt[b] = 0
     /\ lock' = [lock EXCEPT ![C!Hash(blockno[b])] = t]
     /\ newid' = [newid EXCEPT ![t] = C!Hash(blockno[b])]
     /\ buf' = [buf EXCEPT ![t] = b]
     /\ C!Goto(t, "scan", "claim")
     /\ UNCHANGED <<dev, blockno, valid, refcnt, bucket, glock, sleep,
                    panicked, req, scan, pinned>>

(* Relabel b and release the global lock, lock[id] and lock[new_id]; b    *)
(* stays in the list it was in.                                            *)
BGetSteal(t) ==
  /\ pc[t] = "claim"
  /\ C!Claim(t, buf[t])
  /\ lock' = [lock EXCEPT ![newid[t]] = None, ![C!Id(t)] = None]
  /\ glock' = None
  /\ scan' = [scan EXCEPT ![t] = 0]
  /\ newid' = [newid EXCEPT ![t] = 0]
  /\ C!Goto(t, "claim", "sleep")
  /\ UNCHANGED <<bucket, sleep, panicked, req, buf, pinned>>

(* No buffer found: release the global lock and lock[id], then panic.     *)
BGetPanic(t) ==
  /\ scan[t] = NBUF
  /\ lock' = [lock EXCEPT ![C!Id(t)] = None]
  /\ glock' = None
  /\ panicked' = TRUE
  /\ C!Goto(t, "scan", "panic")
  /\ UNCHANGED <<dev, blockno, valid, refcnt, bucket, sleep, req, buf, scan,
                 newid, pinned>>

Progress(t) ==
  \/ BGetHit(t) \/ BGetMiss(t) \/ BGetGlobal(t) \/ BGetBucket(t)
  \/ BGetScanBusy(t) \/ BGetScanFree(t) \/ BGetSteal(t) \/ BGetPanic(t)
  \/ AcquireSleep(t) \/ BRelseSleep(t) \/ BRelse(t)

Next == \E t \in Threads : BRead(t) \/ BPin(t) \/ BUnpin(t) \/ Progress(t)

Spec == Init /\ [][Next]_vars

-----------------------------------------------------------------------------
(* The properties of BCache, stated for this bget.                         *)

(* No deadlock: until a panic, whenever some thread is inside the cache,  *)
(* some thread inside the cache can take a step.                          *)
NoDeadlock ==
  (~panicked /\ \E t \in Threads : pc[t] \notin {"idle", "held"})
    => \E t \in Threads : ENABLED Progress(t)

(* Every buffer is in exactly one list, and every referenced buffer is in *)
(* the list its blockno hashes to, where bget's hit scan and brelse's     *)
(* lock look for it.                                                       *)
BucketPlacement == C!BucketPlacement
=============================================================================

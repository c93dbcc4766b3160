------------------------------- MODULE BCache -------------------------------
(***************************************************************************)
(* The hashed buffer cache of src/kernel/bio.c: NBUF buffers spread over   *)
(* NBUCKETS bucket lists, one spinlock per bucket, one global spinlock for *)
(* the steal path of bget, and one sleeplock per buffer.  Each kernel      *)
(* thread runs bread / bpin / bunpin / brelse; every lock acquisition is a *)
(* step of its own, and so is the refcnt check of the steal path and the   *)
(* claim that follows it, because the bucket lock taken there is the one   *)
(* of the buffer's blockno, which need not be the list the buffer is in.   *)
(***************************************************************************)
EXTENDS Naturals, FiniteSets, Sequences, SequencesExt

CONSTANTS
  Threads,    \* kernel threads using the cache
  Devs,       \* device numbers passed to bread (never 0)
  Blocks,     \* block numbers passed to bread
  NBUF,       \* number of buffers (param.h)
  NBUCKETS,   \* number of hash buckets
  None,       \* model value: no thread holds the lock / no buffer
  MaxPinned   \* bound on the buffers one thread keeps pinned at a time

ASSUME Devs \subseteq Nat \ {0} /\ Blocks \subseteq Nat
ASSUME NBUF \in Nat \ {0} /\ NBUCKETS \in Nat \ {0}
ASSUME None \notin Threads /\ MaxPinned \in Nat

Bufs    == 0 .. NBUF - 1
Buckets == 0 .. NBUCKETS - 1
Keys    == Devs \X Blocks

VARIABLES
  dev, blockno, valid, refcnt,  \* the fields of struct buf, over Bufs
  bucket,     \* bucket[i]: list bcache.head[i] as a sequence, head first
  lock,       \* lock[i]: the thread holding bcache.lock[i], or None
  glock,      \* the thread holding bcache.global_lock, or None
  sleep,      \* sleep[b]: the thread holding b->lock, or None
  panicked,   \* panic() was called: every CPU stops
  pc,         \* where each thread is
  req,        \* req[t]: the <<dev, blockno>> argument of t's bread
  buf,        \* buf[t]: the buffer t is claiming or holding (local b)
  scan,       \* scan[t]: index of the steal loop of bget
  newid,      \* newid[t]: local new_id of the steal loop
  pinned      \* pinned[t]: buffers t has bpin'ed and not yet bunpin'ed

vars == <<dev, blockno, valid, refcnt, bucket, lock, glock, sleep, panicked,
          pc, req, buf, scan, newid, pinned>>

Hash(blk) == blk % NBUCKETS
KeyOf(b) == <<dev[b], blockno[b]>>
Id(t) == Hash(req[t][2])
\* The list b is actually linked into, whatever its blockno says.
ListOf(b) == CHOOSE i \in Buckets : Contains(bucket[i], b)
\* Unlink b from its list and relink it at the head of list i.
Relink(b, i) ==
  [j \in Buckets |-> IF j = i THEN Cons(b, Remove(bucket[j], b))
                               ELSE Remove(bucket[j], b)]

(* binit: buffer b goes to list b % NBUCKETS, each inserted at the head.   *)
BinitList(i) == SetToSortSeq({b \in Bufs : b % NBUCKETS = i}, >)

\* The value of req, scan and newid outside of a call (they are dead there).
NoReq == CHOOSE k \in Keys : TRUE

Init ==
  /\ dev = [b \in Bufs |-> 0]
  /\ blockno = [b \in Bufs |-> 0]
  /\ valid = [b \in Bufs |-> FALSE]
  /\ refcnt = [b \in Bufs |-> 0]
  /\ bucket = [i \in Buckets |-> BinitList(i)]
  /\ lock = [i \in Buckets |-> None]
  /\ glock = None
  /\ sleep = [b \in Bufs |-> None]
  /\ panicked = FALSE
  /\ pc = [t \in Threads |-> "idle"]
  /\ req = [t \in Threads |-> NoReq]
  /\ buf = [t \in Threads |-> None]
  /\ scan = [t \in Threads |-> 0]
  /\ newid = [t \in Threads |-> 0]
  /\ pinned = [t \in Threads |-> {}]

\* Thread t moves from one point of the code to the next; after a panic no
\* CPU moves.
Running == ~panicked
Goto(t, from, to) == Running /\ pc[t] = from /\ pc' = [pc EXCEPT ![t] = to]

(* Relabel b for t's request with refcnt 1 (bget's recycle and steal).     *)
Claim(t, b) ==
  /\ dev' = [dev EXCEPT ![b] = req[t][1]]
  /\ blockno' = [blockno EXCEPT ![b] = req[t][2]]
  /\ valid' = [valid EXCEPT ![b] = FALSE]
  /\ refcnt' = [refcnt EXCEPT ![b] = 1]

(* bread(dev, blockno) is called.                                          *)
BRead(t) ==
  /\ \E k \in Keys : req' = [req EXCEPT ![t] = k]
  /\ Goto(t, "idle", "fast")
  /\ UNCHANGED <<dev, blockno, valid, refcnt, bucket, lock, glock, sleep,
                 panicked, buf, scan, newid, pinned>>

(* Bug variant of BGetHit: the hit forgets refcnt++.                       *)
BGetHitNoRef(t) ==
  LET id == Id(t)
      j  == SelectInSeq(bucket[id], LAMBDA b : KeyOf(b) = req[t])
  IN /\ lock[id] = None
     /\ j # 0
     /\ buf' = [buf EXCEPT ![t] = bucket[id][j]]
     /\ Goto(t, "fast", "sleep")
     /\ UNCHANGED <<dev, blockno, valid, refcnt, bucket, lock, glock, sleep,
                    panicked, req, scan, newid, pinned>>

(* bget, under bcache.lock[id]: the block is cached in bucket id.          *)
BGetHit(t) ==
  LET id == Id(t)
      j  == SelectInSeq(bucket[id], LAMBDA b : KeyOf(b) = req[t])
  IN /\ lock[id] = None
     /\ j # 0
     /\ refcnt' = [refcnt EXCEPT ![bucket[id][j]] = @ + 1]
     /\ buf' = [buf EXCEPT ![t] = bucket[id][j]]
     /\ Goto(t, "fast", "sleep")
     /\ UNCHANGED <<dev, blockno, valid, bucket, lock, glock, sleep,
                    panicked, req, scan, newid, pinned>>

(* bget, under bcache.lock[id]: not cached; recycle the least recently    *)
(* used free buffer of bucket id, scanning from the tail.                  *)
BGetRecycle(t) ==
  LET id == Id(t)
      j  == SelectLastInSeq(bucket[id], LAMBDA b : refcnt[b] = 0)
  IN /\ lock[id] = None
     /\ SelectInSeq(bucket[id], LAMBDA b : KeyOf(b) = req[t]) = 0
     /\ j # 0
     /\ Claim(t, bucket[id][j])
     /\ buf' = [buf EXCEPT ![t] = bucket[id][j]]
     /\ Goto(t, "fast", "sleep")
     /\ UNCHANGED <<bucket, lock, glock, sleep, panicked, req, scan, newid,
                    pinned>>

(* bget: bucket id neither caches the block nor has a free buffer; its    *)
(* lock is released before the global lock is taken.                      *)
BGetMiss(t) ==
  LET id == Id(t)
  IN /\ lock[id] = None
     /\ SelectInSeq(bucket[id], LAMBDA b : KeyOf(b) = req[t]) = 0
     /\ SelectInSeq(bucket[id], LAMBDA b : refcnt[b] = 0) = 0
     /\ Goto(t, "fast", "global")
     /\ UNCHANGED <<dev, blockno, valid, refcnt, bucket, lock, glock, sleep,
                    panicked, req, buf, scan, newid, pinned>>

(* acquire(&bcache.global_lock)                                            *)
BGetGlobal(t) ==
  /\ glock = None
  /\ glock' = t
  /\ Goto(t, "global", "bucket")
  /\ UNCHANGED <<dev, blockno, valid, refcnt, bucket, lock, sleep, panicked,
                 req, buf, scan, newid, pinned>>

(* acquire(&bcache.lock[id]) again; the steal loop starts at buf[0].  The  *)
(* bucket is not searched again for the block.                             *)
BGetBucket(t) ==
  /\ lock[Id(t)] = None
  /\ lock' = [lock EXCEPT ![Id(t)] = t]
  /\ scan' = [scan EXCEPT ![t] = 0]
  /\ Goto(t, "bucket", "scan")
  /\ UNCHANGED <<dev, blockno, valid, refcnt, bucket, glock, sleep, panicked,
                 req, buf, newid, pinned>>

(* Bug variant of BGetScanSkip: the `if(new_id == id) continue;` of the    *)
(* steal loop is missing, as in src/bio_after.c.                           *)
BGetScanNoSkip(t) == FALSE

(* Steal loop: a buffer whose blockno hashes to id is skipped.             *)
BGetScanSkip(t) ==
  /\ Running
  /\ pc[t] = "scan"
  /\ scan[t] < NBUF
  /\ Hash(blockno[scan[t]]) = Id(t)
  /\ scan' = [scan EXCEPT ![t] = @ + 1]
  /\ UNCHANGED <<dev, blockno, valid, refcnt, bucket, lock, glock, sleep,
                 panicked, pc, req, buf, newid, pinned>>

(* Steal loop: acquire lock[new_id]; the buffer is in use, release it.     *)
BGetScanBusy(t) ==
  LET b == scan[t]
  IN /\ Running
     /\ pc[t] = "scan"
     /\ b < NBUF
     /\ Hash(blockno[b]) # Id(t)
     /\ lock[Hash(blockno[b])] = None
     /\ refcnt[b] # 0
     /\ scan' = [scan EXCEPT ![t] = @ + 1]
     /\ UNCHANGED <<dev, blockno, valid, refcnt, bucket, lock, glock, sleep,
                    panicked, pc, req, buf, newid, pinned>>

(* Bug variant of BGetScanFree: refcnt is not checked.                     *)
BGetScanFreeNoCheck(t) ==
  LET b == scan[t]
  IN /\ pc[t] = "scan"
     /\ b < NBUF
     /\ Hash(blockno[b]) # Id(t)
     /\ lock[Hash(blockno[b])] = None
     /\ lock' = [lock EXCEPT ![Hash(blockno[b])] = t]
     /\ newid' = [newid EXCEPT ![t] = Hash(blockno[b])]
     /\ buf' = [buf EXCEPT ![t] = b]
     /\ Goto(t, "scan", "claim")
     /\ UNCHANGED <<dev, blockno, valid, refcnt, bucket, glock, sleep,
                    panicked, req, scan, pinned>>

(* Steal loop: acquire lock[new_id] and find refcnt == 0.                  *)
BGetScanFree(t) ==
  LET b == scan[t]
  IN /\ pc[t] = "scan"
     /\ b < NBUF
     /\ Hash(blockno[b]) # Id(t)
     /\ lock[Hash(blockno[b])] = None
     /\ refcnt[b] = 0
     /\ lock' = [lock EXCEPT ![Hash(blockno[b])] = t]
     /\ newid' = [newid EXCEPT ![t] = Hash(blockno[b])]
     /\ buf' = [buf EXCEPT ![t] = b]
     /\ Goto(t, "scan", "claim")
     /\ UNCHANGED <<dev, blockno, valid, refcnt, bucket, glock, sleep,
                    panicked, req, scan, pinned>>

(* Bug variant of BGetSteal: b is relabelled but left in its old list, as  *)
(* in src/bio_after.c.                                                     *)
BGetStealNoRelink(t) ==
  LET b == buf[t]
  IN /\ pc[t] = "claim"
     /\ Claim(t, b)
     /\ lock' = [lock EXCEPT ![newid[t]] = None, ![Id(t)] = None]
     /\ glock' = None
     /\ scan' = [scan EXCEPT ![t] = 0]
     /\ newid' = [newid EXCEPT ![t] = 0]
     /\ Goto(t, "claim", "sleep")
     /\ UNCHANGED <<bucket, sleep, panicked, req, buf, pinned>>

(* Steal: relabel b, move it to the head of list id, release lock[new_id], *)
(* lock[id] and the global lock.                                           *)
BGetSteal(t) ==
  LET b == buf[t]
  IN /\ pc[t] = "claim"
     /\ Claim(t, b)
     /\ bucket' = Relink(b, Id(t))
     /\ lock' = [lock EXCEPT ![newid[t]] = None, ![Id(t)] = None]
     /\ glock' = None
     /\ scan' = [scan EXCEPT ![t] = 0]
     /\ newid' = [newid EXCEPT ![t] = 0]
     /\ Goto(t, "claim", "sleep")
     /\ UNCHANGED <<sleep, panicked, req, buf, pinned>>

(* The steal loop found no buffer: panic("bget: no buffers").             *)
BGetPanic(t) ==
  /\ scan[t] = NBUF
  /\ panicked' = TRUE
  /\ Goto(t, "scan", "panic")
  /\ UNCHANGED <<dev, blockno, valid, refcnt, bucket, lock, glock, sleep,
                 req, buf, scan, newid, pinned>>

(* acquiresleep(&b->lock) at the end of bget, then bread reads the block  *)
(* from disk if it is not valid.                                           *)
AcquireSleep(t) ==
  /\ pc[t] = "sleep"
  /\ sleep[buf[t]] = None
  /\ sleep' = [sleep EXCEPT ![buf[t]] = t]
  /\ valid' = [valid EXCEPT ![buf[t]] = TRUE]
  /\ Goto(t, "sleep", "held")
  /\ UNCHANGED <<dev, blockno, refcnt, bucket, lock, glock, panicked, req,
                 buf, scan, newid, pinned>>

(* bpin(b): refcnt++ under lock[blockno % NBUCKETS].                       *)
BPin(t) ==
  LET b == buf[t]
  IN /\ Running
     /\ pc[t] = "held"
     /\ b \notin pinned[t]
     /\ Cardinality(pinned[t]) < MaxPinned
     /\ lock[Hash(blockno[b])] = None
     /\ refcnt' = [refcnt EXCEPT ![b] = @ + 1]
     /\ pinned' = [pinned EXCEPT ![t] = @ \cup {b}]
     /\ UNCHANGED <<dev, blockno, valid, bucket, lock, glock, sleep,
                    panicked, pc, req, buf, scan, newid>>

(* Bug variant of BUnpin: a buffer that was never pinned is unpinned.      *)
BUnpinUnchecked(t) ==
  LET b == buf[t]
  IN /\ Running
     /\ pc[t] = "held"
     /\ lock[Hash(blockno[b])] = None
     /\ refcnt' = [refcnt EXCEPT ![b] = @ - 1]
     /\ pinned' = [pinned EXCEPT ![t] = @ \ {b}]
     /\ UNCHANGED <<dev, blockno, valid, bucket, lock, glock, sleep,
                    panicked, pc, req, buf, scan, newid>>

(* bunpin(b): refcnt-- under lock[blockno % NBUCKETS], no relink.          *)
BUnpin(t) ==
  LET b == buf[t]
  IN /\ Running
     /\ pc[t] = "held"
     /\ b \in pinned[t]
     /\ lock[Hash(blockno[b])] = None
     /\ refcnt' = [refcnt EXCEPT ![b] = @ - 1]
     /\ pinned' = [pinned EXCEPT ![t] = @ \ {b}]
     /\ UNCHANGED <<dev, blockno, valid, bucket, lock, glock, sleep,
                    panicked, pc, req, buf, scan, newid>>

(* brelse(b): releasesleep(&b->lock) comes first.                          *)
BRelseSleep(t) ==
  /\ sleep' = [sleep EXCEPT ![buf[t]] = None]
  /\ Goto(t, "held", "relse")
  /\ UNCHANGED <<dev, blockno, valid, refcnt, bucket, lock, glock, panicked,
                 req, buf, scan, newid, pinned>>

(* brelse(b), under lock[blockno % NBUCKETS]: refcnt--, and a buffer that *)
(* became free moves to the head of that bucket's list.                    *)
BRelse(t) ==
  LET b  == buf[t]
      id == Hash(blockno[b])
  IN /\ pc[t] = "relse"
     /\ lock[id] = None
     /\ refcnt' = [refcnt EXCEPT ![b] = @ - 1]
     /\ bucket' = IF refcnt[b] - 1 = 0 THEN Relink(b, id) ELSE bucket
     /\ buf' = [buf EXCEPT ![t] = None]
     /\ req' = [req EXCEPT ![t] = NoReq]
     /\ Goto(t, "relse", "idle")
     /\ UNCHANGED <<dev, blockno, valid, lock, glock, sleep, panicked, scan,
                    newid, pinned>>

(* The steps that move a thread already inside the cache forward.          *)
Progress(t) ==
  \/ BGetHit(t) \/ BGetRecycle(t) \/ BGetMiss(t) \/ BGetGlobal(t)
  \/ BGetBucket(t) \/ BGetScanSkip(t) \/ BGetScanBusy(t) \/ BGetScanFree(t)
  \/ BGetSteal(t) \/ BGetPanic(t) \/ AcquireSleep(t) \/ BRelseSleep(t)
  \/ BRelse(t)

Next == \E t \in Threads : BRead(t) \/ BPin(t) \/ BUnpin(t) \/ Progress(t)

Spec == Init /\ [][Next]_vars

-----------------------------------------------------------------------------
(* Properties                                                              *)

\* Threads that hold a reference obtained from bget and not yet given back.
Holders(b) == {t \in Threads : buf[t] = b /\ pc[t] \in {"sleep", "held", "relse"}}

TypeOK ==
  /\ dev \in [Bufs -> Devs \cup {0}]
  /\ blockno \in [Bufs -> Blocks \cup {0}]
  /\ valid \in [Bufs -> BOOLEAN]
  /\ refcnt \in [Bufs -> Nat]
  /\ bucket \in [Buckets -> Seq(Bufs)]
  /\ lock \in [Buckets -> Threads \cup {None}]
  /\ glock \in Threads \cup {None}
  /\ sleep \in [Bufs -> Threads \cup {None}]
  /\ panicked \in BOOLEAN
  /\ pc \in [Threads -> {"idle", "fast", "global", "bucket", "scan", "claim",
                         "sleep", "held", "relse", "panic"}]
  /\ req \in [Threads -> Keys]
  /\ buf \in [Threads -> Bufs \cup {None}]
  /\ scan \in [Threads -> 0 .. NBUF]
  /\ newid \in [Threads -> Buckets]
  /\ pinned \in [Threads -> SUBSET Bufs]

(* Reference-count conservation (bget, brelse, bpin, bunpin): each         *)
(* buffer's refcnt is the number of threads that got it from bget and have *)
(* not finished brelse, plus the number of outstanding bpins on it.        *)
RefcntConserved ==
  \A b \in Bufs :
    refcnt[b] = Cardinality(Holders(b))
                + Cardinality({t \in Threads : b \in pinned[t]})

(* Eviction safety (recycle and steal paths of bget): a buffer a thread    *)
(* got from bget keeps the identity the thread asked for until its brelse, *)
(* so no other bget relabels it in between.                                *)
HolderMatchesRequest ==
  \A t \in Threads :
    pc[t] \in {"sleep", "held", "relse"} => KeyOf(buf[t]) = req[t]

(* binit, the steal relink and brelse's relink keep every buffer in        *)
(* exactly one bucket list, and every referenced buffer sits in the list   *)
(* its blockno hashes to, where bget's hit scan and brelse look for it.    *)
BucketPlacement ==
  /\ \A b \in Bufs :
       Cardinality({<<i, j>> \in Buckets \X (1 .. NBUF) :
                      j <= Len(bucket[i]) /\ bucket[i][j] = b}) = 1
  /\ \A b \in Bufs : refcnt[b] > 0 => ListOf(b) = Hash(blockno[b])

(* No deadlock among the spinlocks and sleeplocks of bget and brelse:      *)
(* until a panic, whenever some thread is inside the cache, some thread    *)
(* inside the cache can take a step.                                       *)
NoDeadlock ==
  (~panicked /\ \E t \in Threads : pc[t] \notin {"idle", "held"})
    => \E t \in Threads : ENABLED Progress(t)


(* bget panics only when the steal loop could not have found a free        *)
(* buffer: none of the buffers in bucket id, whose lock it holds, is free. *)
NoPanicWithFreeBuffer ==
  \A t \in Threads :
    pc[t] = "panic" => \A j \in 1 .. Len(bucket[Id(t)]) :
                          refcnt[bucket[Id(t)][j]] > 0

-----------------------------------------------------------------------------
(* Refinement: a block is held by the threads holding the sleeplock of a  *)
(* buffer labelled with it; acquiresleep at the end of bget acquires the  *)
(* block, releasesleep in brelse releases it, every other step leaves the *)
(* holders alone.                                                          *)
BlockHolders ==
  [k \in Keys |-> {sleep[b] : b \in {x \in Bufs : KeyOf(x) = k /\ sleep[x] # None}}]

BL == INSTANCE BlockLock WITH holders <- BlockHolders

(* bread/brelse implement an exclusive lock per block, as bio.c's header  *)
(* and spec.md promise: bget never hands a block to a caller while        *)
(* another caller holds it through the same or another buffer.            *)
ImplementsBlockLock == BL!Spec
=============================================================================

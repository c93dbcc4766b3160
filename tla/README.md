# TLA+ models of the xv6 lab: buffer cache, page tables and pingpong

The repository holds four C files of an xv6 lab:

| file | what it is |
|---|---|
| `src/kernel/bio.c` | the buffer cache with hash buckets: per-bucket spinlocks, one global spinlock, one sleeplock per buffer |
| `src/bio_after.c` | an earlier version of the same file, with a different `bget` steal path |
| `src/kernel/vm.c` | page tables: `walk`, `mappages`, `uvmunmap`, `uvmalloc`, `uvmcopy`, `freewalk`, per-process kernel page tables |
| `src/user/pingpong.c` | a user program: parent and child exchange one byte string over two pipes |

`spec.md` describes the buffer cache as the core.

## 1. Inventory

### Buffer cache (`src/kernel/bio.c`)

**State.**
- `bcache.buf[NBUF]`: each buffer has `dev`, `blockno`, `valid`, `refcnt`, the `prev`/`next` links and a sleeplock `lock`.
- `bcache.head[NBUCKETS]`: one circular list per bucket, most recently released first.
- `bcache.lock[NBUCKETS]`: one spinlock per bucket.
- `bcache.global_lock`: one spinlock.

**Operations.**
- `binit` puts `buf[i]` in list `i % NBUCKETS`, inserting at the head. It leaves `dev = blockno = 0`: the struct is zeroed.
- `bget(dev, blockno)` runs in three phases.
  1. Fast path, under `lock[id]` with `id = blockno % NBUCKETS`. It scans the list for a hit. On a hit it does `refcnt++`. Otherwise it recycles the last free buffer of the list (the least recently released one).
  2. Otherwise it releases `lock[id]` and takes `global_lock`, then `lock[id]`.
  3. It loops over `buf[0..NBUF-1]`. It skips buffers whose `blockno % NBUCKETS == id`. For each other buffer it takes `lock[new_id]` and checks `refcnt == 0`. On the first free one it relabels the buffer, moves it to list `id` and releases all locks. If none is free it panics.
  Every path ends in `acquiresleep(&b->lock)`.
- `bread` calls `bget`, then reads the block from disk if `!valid`.
- `bwrite` writes the buffer to disk.
- `brelse` releases the sleeplock. Then, under `lock[blockno % NBUCKETS]`, it does `refcnt--`. If the count reaches 0 it moves the buffer to the head of its list.
- `bpin` and `bunpin` do `refcnt++` and `refcnt--` under the bucket lock.

**Interactions.** Callers share the buffers. The spinlocks protect the lists and the metadata; the sleeplock protects the data. `refcnt` combines the references of `bget` with the pins that the log layer holds.

**What is hard.**
- Any number of CPUs run these paths concurrently.
- Between the fast path and the steal path no lock is held.
- The steal path picks the lock from `blockno`, not from the list the buffer is actually linked into.
- `brelse` drops the sleeplock before it takes the bucket lock.
- The pool is bounded, and running out of buffers is a panic.

**Correctness properties.**
- Reference-count conservation.
- A holder's buffer keeps the identity it asked for (eviction safety).
- Each buffer is in exactly one list, and a referenced buffer is in its hash bucket.
- Claims are made under the lock of the list that holds the buffer.
- No deadlock.
- No two referenced buffers have the same block.
- No panic while a free buffer is available to the loop.

### Earlier buffer cache (`src/bio_after.c`)

Its state and its `bread`/`brelse`/`bpin`/`bunpin` are identical to `bio.c`. `bget` differs in four ways:
- no in-bucket recycle;
- the steal loop does not skip bucket `id` (so it can call `acquire` on a lock it already holds);
- the stolen buffer is not moved to list `id`;
- it releases its locks before panicking.

The spec calls it the buggy predecessor.

### Page tables (`src/kernel/vm.c`)

**State.** A three-level Sv39 radix tree of PTEs, plus the physical pages from `kalloc`.

**Operations.**
- `walk`, `mappages`, `uvmunmap`, `uvmalloc`/`uvmdealloc`, `uvmcopy`, `uvmclear`, `freewalk`, `uvmfree`
- `copyout`
- the lab's per-process kernel page table: `kpcreate`, `proc_free_k_pagetable`, `sync_pagetable` (and `set_pte_U2K`, which nothing in the repository calls)
- printing: `vmprint`/`vpprint`

These functions are sequential; the calling process holds its page table. The hard parts are partial failure in the middle of a loop (`uvmalloc`, `uvmcopy`), page rounding at the boundaries (`mappages` with `size` not page-aligned), and keeping the kernel table's copy of the user's leaf PTEs in step with the user table (`sync_pagetable`, with byte-sized bounds).

**Properties.**
- After `mappages` every page of the range is mapped to the right physical page, and no page outside it changes.
- `uvmalloc` either grows by exactly the requested pages or leaves the mapping as it was.
- `uvmcopy` leaves the child as a copy or unmaps everything it mapped.
- `freewalk` frees each table page exactly once.
- `sync_pagetable` makes the kernel table agree with the user table on `[start,end)`, with `PTE_U` cleared.

### pingpong (`src/user/pingpong.c`)

**State.** Two pipes, two processes and their open file descriptors.

**Operations.** `fork`, `close`, `write`, `read` (blocking) and `exit`.

**Properties.** Both processes terminate; "received ping" is printed before "received pong"; there is no deadlock.

### External (not in the repository)

The spinlock, the sleeplock, the virtio driver, `panic` and the pipe implementation are not in the repository. They enter the models only through their interface:
- A spinlock or sleeplock is a holder variable with a blocking acquire.
- The disk read sets `valid`.
- `panic` stops every CPU.

## 2. Plan

Modules, in order of importance:

1. **`BCache`** (done): `src/kernel/bio.c`, every step of every operation. `MCBCache` adds thread symmetry.
2. **`BCacheOld`** (done): `src/bio_after.c`. It shares the state through `INSTANCE BCache` and has its own `bget` actions.
3. **`BlockLock`, an abstract specification** (done): the exclusive lock per block that bio.c's header comment and `spec.md` promise. `BCache` is checked against it through a refinement mapping from sleeplock holders to block holders. The check fails (`bcache_duplicate`), and the failure is the duplicate-buffer finding at the level of the interface. `BCacheOld` now names the actions it shares with `BCache` (done).
4. **Data and `bwrite`** (not done): buffer contents, the disk and `bwrite` (see Not modelled).
5. **Liveness of `bget`** (not done): this needs fairness the code does not give (see Fairness).
6. **`PageTable`** (done): `vm.c` over the three-level tree with 2 entries per table page. `AddrSpace` is its abstract specification (done). `walkaddr`, `uvmclear` and `copyout` are modelled, with `PageTableExec` adding exec's guard page (done). Still to do: `kpcreate` called per process rather than only at boot.
7. **`Pingpong`** (done): the two processes and the pipes, with liveness.

## 3. How `BCache` corresponds to the code

- **Per-buffer state.** `dev`, `blockno`, `valid` and `refcnt` are functions over `Bufs = 0..NBUF-1`.
- **Lists.** `bucket[i]` is the list `bcache.head[i]`, written as a sequence with the head first. `Relink(b, i)` is the unlink followed by the head insertion. `ListOf(b)` is the list `b` is physically linked into.
- **Locks.** `lock[i]`, `glock` and `sleep[b]` hold the thread that holds the lock, or `None`.
- **Threads.** `pc`, `req`, `buf`, `scan` and `newid` are each thread's program counter and the locals of `bget`. `pinned` records the caller's outstanding `bpin`s; this is caller state, used only to keep `bunpin` matched.

Actions:
- `BRead` is a call to `bread`.
- The fast path is one critical section under `lock[id]`, split into its three outcomes: `BGetHit`, `BGetRecycle` and `BGetMiss`. Each acquires and releases the lock within the step.
- `BGetGlobal` and `BGetBucket` each take one lock.
- The steal loop is split into `BGetScanSkip`, `BGetScanBusy` (acquire `lock[new_id]`, `refcnt != 0`, release) and `BGetScanFree` (acquire `lock[new_id]`, `refcnt == 0`). `BGetSteal` then relabels, relinks and releases.
- The check and the claim are separate steps. The lock taken need not be the lock of the buffer's list, so the claim is not atomic with respect to a fast path on the buffer's real list.
- `BGetPanic` is `panic("bget: no buffers")`. It sets `panicked`, and every action requires `Running`.
- `AcquireSleep` is `acquiresleep` at the end of `bget`, followed by `bread`'s disk read (`valid := TRUE`).
- `BRelseSleep` and `BRelse` are the two halves of `brelse`, split at the lock acquisition.
- `BPin` and `BUnpin` each do their whole critical section in one step.

**Abstractions.**
- Block contents and `bwrite` are left out. The refinement to `BlockLock` states the guarantee that the contents depend on: one holder per block.
- A thread holds at most one buffer at a time.
- A thread keeps at most `MaxPinned` pins.
- `refcnt` is a natural number. An unsigned wrap on underflow shows up as a `TypeOK` violation.

**Abstract specification.** `BlockLock` has one variable, `holders[k]`: the callers holding block `k`.
- `Acquire(t, k)` is enabled only while nobody holds `k`.
- `Release(t, k)` gives the block up.

`BCache` maps `holders[k]` to the threads holding the sleeplock of some buffer labelled `k` (`BlockHolders`). `AcquireSleep` is then `Acquire`, `BRelseSleep` is `Release`, and every other step leaves the holders unchanged. `ImplementsBlockLock` is `BL!Spec` with `BL == INSTANCE BlockLock WITH holders <- BlockHolders`.

`BCacheOld` reuses `BCache`'s actions through `C == INSTANCE BCache`. It names the ones its file shares with `bio.c` (`BRead`, `BGetHit`, `BGetGlobal`, `BGetBucket`, `AcquireSleep`, `BRelseSleep`, `BRelse`, `BPin`, `BUnpin` and `Init`), so that each is tied to that file's own lines.

## 3a. How `Pingpong` corresponds to the code

Each process runs its branch of `main` as a sequence of call records (`MainProg`, `ChildProg`, `ParentProg`, taken from lines 7-9, 13-19 and 24-30 of `pingpong.c`, each ending in `exit`). `code[p]` and `ip[p]` are the program and the program counter. `fds[p]` is the set of descriptors `p` has open, and `pipebuf[i]` holds the messages written into pipe `i` and not yet read.

There is one action per kind of call:
- `PipeCall` opens both ends.
- `Fork` copies the descriptors into the child. `PingpongForkFail` adds `ForkFail`: `fork` returns -1, which is not 0, so the parent alone takes the `else` branch.
- `CloseCall` closes one descriptor.
- `ReadCall` follows piperead. It blocks while the pipe is empty and a write end is open. It returns -1 on a closed descriptor, 0 when no writer is left, and otherwise the next message, which it records in `got[p]`.
- `WriteCall` appends a message if a reader is open.
- `PrintCall` models `printf`. `putc` writes each character with its own `write(1, &c, 1)`, so a line is `LineLen` separate steps appended to `out`. `LineLen` is 17, the length of `"4: received ping\n"`.
- `ExitCall` closes everything.

Transferring 5 bytes under the pipe lock is one step, as in the kernel.

## 3b. How `PageTable` corresponds to the code

- **Machine state.** The physical machine is the record `S = [mem, free, crash, dbl]`.
  - `mem[f]` is the table page in frame `f`: `NPTE` PTEs `[pa, fl]`.
  - `free` is the kalloc pool.
  - `crash` is the message of a `panic` or of a kernel trap caused by a write through a null pointer. It is `Ok` while the machine is running.
  - `dbl` records that `kfree` was called on a page that was already free.
- **Functions as operators.** Every vm.c function is an operator from a machine state to a new one, together with its result. `walk`, `mappages`, `uvmunmap`, `uvmalloc`, `freewalk`, `uvmcopy`, `proc_free_k_pagetable` and `sync_pagetable` are RECURSIVE operators, one recursion per loop iteration. Each keeps the code's early returns, its panics and its unchecked `kalloc` results.
  - `Kalloc` takes the lowest free frame and returns 0 when the pool is empty.
  - `Kfree` panics outside `Frames` and sets `dbl` on a double free.
- **Process state.** The variables `upt`, `sz`, `kpt`, `cpt`, `csz` and `phase` hold one process's user table, its size, its kernel table, and a forked child's table and size.
- **Actions.** The actions are the callers' uses of these functions. `proc.c` and `sysproc.c` are not in the repository, so the order of calls is the one their comments and vm.c's own comments require.
  - `Grow` is `sbrk` via `uvmalloc`; `Shrink` is `uvmdealloc`.
  - `Sync` is `sync_pagetable` over a byte range `[start, end)` whose user table pages exist. `start` and `end` range over every size up to `MaxSz`, aligned or not. The caller is `growproc` in `proc.c`, which is not in the repository; a size such as the old `p->sz` is in general unaligned.
  - `sync_pagetable` stores through the kernel walk's result unchecked. When that result is 0 the store goes to va 0 of `kpt`, the table the process runs on. It traps while va 0 is unmapped there, and it lands silently in user page 0 once that page has been synced. The model continues the loop in the second case, since page contents are not modelled.
  - `ForkCreate` and `ForkCopy` are `uvmcreate` and `uvmcopy`.
  - `ChildFree` and `ExitFree` are `uvmfree`.
  - `KFree` is `proc_free_k_pagetable`, once the user table is gone.
  - `Init` is `uvmcreate`, `uvminit` and `kpcreate`.
  - `PageTableExec` adds `Clear`: exec's `uvmclear(pagetable, sz - 2*PGSIZE)` on the guard page below the stack. The page stays mapped, without `PTE_U`.
- **`copyout`.** `WalkAddr` is `walkaddr`: 0 for an address out of range, a missing or invalid PTE, or a page without `PTE_U`. `CopyOut` is `copyout`'s page loop. Page contents are not modelled: its result is the set of pairs `<<k, b>>` saying that byte `k` of `src` was written to physical byte address `b` (frame times `PGSIZE` plus offset), and whether it returned 0. The invariant `CopyOutCorrect` compares this, in every reachable state and for every destination and length up to two pages, with a byte-wise reference read from the leaf PTEs.
- **The trampoline.** The kernel regions of `kpcreate` are abstracted to its trampoline mapping, which points at a device frame outside the pool.

**Abstract specification.** `AddrSpace` is what the user address space promises: a size and a map from pages to frames. Growing either maps exactly the new pages to frames not in use, or changes nothing. Shrinking unmaps exactly the pages above the rounded-up new size. Freeing empties the map. `PageTable` maps its state onto it through `walk`: `amap[a]` is the frame of the leaf PTE of page `a`. `pt_oom` checks `ImplementsAddrSpace`, which is `AS!Spec` under `INSTANCE AddrSpace WITH asz <- sz, amap <- UMap, alive <- (upt # 0)`.

## 4. Runs

Common setup for every run:
- two threads (model values, with symmetry over them);
- one device;
- three buffers;
- `MaxPinned = 1`.

Deadlock checking is off because a panic really stops the system. The deadlock freedom that matters is checked by the `NoDeadlock` invariant, which uses `ENABLED` over each thread's in-cache steps.

| run | module, bounds | expect | shows |
|---|---|---|---|
| `bcache_safety` | `MCBCache`, blocks {1,2,3}, 2 buckets | pass (214k states) | `RefcntConserved`, `HolderMatchesRequest`, `BucketPlacement` and `NoDeadlock` hold with two buckets |
| `bcache_duplicate` | blocks {1,3}, 2 buckets | violation of `ImplementsBlockLock` | t2 misses bucket 1 for block 3 and waits at the global lock. t1 then recycles the free buffer 1 of bucket 1 for block 3 in the fast path. t2 steals buffer 0 for block 3 without searching bucket 1 again, and both callers hold block 3 at once |
| `bcache_stale_bucket` | blocks {1,2,3,5}, 3 buckets | violation of `HolderMatchesRequest` | two threads hold buffer 1, for blocks 1 and 5 |
| `bcache_spurious_panic` | blocks {1,2,3}, 2 buckets | violation of `NoPanicWithFreeBuffer` | `bget` panics while a buffer in bucket `id` is free |
| `old_self_lock` | `MCBCacheOld` | violation of `NoDeadlock` | the steal loop spins on its own bucket lock |
| `old_no_relink` | `MCBCacheOld` | violation of `BucketPlacement` | a stolen buffer stays in its old list |

**Why these bounds are enough.**
- Two threads are enough for every two-party race in `bget`: the missing re-check, the wrong-lock claim, and a free buffer appearing behind the loop.
- Three buffers over two buckets give a bucket with two buffers, which exercises recycling and LRU. They also give a bucket with one buffer, which forces the steal path. Pins let one thread keep a buffer referenced without holding it.

**Why the safety run uses two buckets.** With two buckets the stale-`blockno` race cannot happen: a never-used buffer hashes to bucket 0, and if it lies in bucket 1, the thread stealing for bucket 1 already holds that lock. The race appears from three buckets on (`bcache_stale_bucket`). The safety run therefore checks the remaining properties where they hold.

**Mutants.** Every property of `bcache_safety` has a mutant in `PROJECT.json`: a bug variant of one action that TLC catches under the same configuration.
- an unguarded `bunpin` (breaks `TypeOK`);
- a hit that forgets `refcnt++` (breaks `RefcntConserved`);
- a steal without the `refcnt` check (breaks `HolderMatchesRequest`);
- a steal without the relink (breaks `BucketPlacement`);
- a steal loop without the own-bucket skip (breaks `NoDeadlock`).

### Pingpong runs

Every Pingpong run uses `LineLen = 17`. Deadlock checking is off: a terminated program has no step. `Termination` is the liveness property that matters.

| run | module | expect | shows |
|---|---|---|---|
| `pingpong` | `Pingpong` | pass (142 states) | the ping line precedes every pong character (`PingBeforePong`); since each process prints one line, the lines cannot interleave either. "received pong" is printed only after the pong was read (`PongOnlyWhenReceived`), and both processes terminate (`Termination`) |
| `pingpong_fork_fail` | `PingpongForkFail` | violation of `PongOnlyWhenReceived` | when fork fails, the parent prints "received pong" without receiving anything |

Mutants: the child writes before it prints, the child closes `p2[1]` before writing, and the child reads the wrong pipe (this one never terminates).

### PageTable runs

Every PageTable run uses `NPTE = 2` and `PGSIZE = 2`, so `MAXVA = 16`, and sizes of at most `MaxSz = 4` bytes. Deadlock checking is off, because a freed process and a crashed machine really stop.

| run | bounds | expect | shows |
|---|---|---|---|
| `pt_safety` | 16 frames (no OOM) | pass (78k states) | no frame leaks or is doubly owned (`FramesAccounted`), no double free, no panic, and `uvmcopy` yields an exact copy (`UvmCopyExact`) |
| `pt_oom` | `PageTableExec`, 12 frames | pass (26k states, about 1.5 min) | `uvmalloc` is all-or-nothing (`UvmAllocAllOrNothing`); a `uvmcopy` that fails at any page unmaps what it mapped and leaks nothing; `copyout` writes byte `k` to the right physical byte, stops at the first refused page (unmapped, or the guard page) after writing the pages before it, and writes nothing else (`CopyOutCorrect`); and `PageTable` implements `AddrSpace` (`ImplementsAddrSpace`), failures included |
| `pt_sync_oom` | 9 frames | violation of `NoPanic` | `sync_pagetable` writes through the 0 that `walk(k_pagetable, a, 1)` returns when kalloc is exhausted |
| `pt_sync_unaligned` | 16 frames | violation of `SyncMirrors` | after growing from size 1 to 3, `sync_pagetable(u, k, 1, 3)` visits only address 1, so user page 2 is never copied into the kernel table |

**Why these bounds are enough.**
- With `PGSIZE = 2` and sizes up to 4, sizes are both aligned and unaligned. This exercises `PGROUNDUP` in `uvmalloc` and `uvmdealloc`.
- With two entries per level, two pages share a level-0 table while the others need new table pages. `walk` therefore allocates in the middle of a loop.
- `CopyOutCorrect` tries every destination from 0 to one page past the largest image, and every length from 1 to two pages. An odd destination with a length of 4 spans three pages, so the first, middle and last chunks of `copyout`'s loop all occur, as does a chunk in the guard page or past `sz`.
- Sixteen frames with exec's guard page take about 7 minutes, so the guard page is added only in `pt_oom`. Twelve frames run out inside `uvmalloc` and inside `uvmcopy` at every page. Nine run out inside `sync_pagetable`. Sixteen never run out.

Mutants:
- `uvmdealloc` rounding the new size down;
- `uvmalloc` not undoing on failure;
- `freewalk` keeping the root;
- `uvmcopy` sharing frames, unmapping one page too few, or leaking the frame of the page that failed;
- `proc_free_k_pagetable` also freeing the frames that leaf PTEs map;
- `walkaddr` without its `PTE_U` check, which lets `copyout` write into the guard page.

## 5. Findings

1. `src/kernel/bio.c:110`: the steal path does not search bucket `id` again after re-taking `lock[id]` (lines 106-110). Meanwhile a fast path on the same bucket can recycle a free buffer for the same block. One block is then cached in two buffers, and two callers then hold the block at once. That breaks the exclusive access that the header comment ("Only one process at a time can use a buffer") and `spec.md` promise (`bcache_duplicate`).
2. `src/kernel/bio.c:115`: buffers keep the `blockno` 0 that `binit` left them, so the steal loop locks bucket 0 for a buffer that is linked into another list. A concurrent fast path can claim the same buffer, and two threads then hold one buffer for different blocks (`bcache_stale_bucket`). This needs three or more buckets; the code uses 13.
3. `src/kernel/bio.c:117`: skipping bucket `id` makes `bget` panic while a free buffer is in that bucket. `spec.md` §4.1 says such buffers are claimed in place (`bcache_spurious_panic`).
4. `src/bio_after.c:108` and `:109`: the self-deadlock and the missing relink of the earlier version.
5. `src/user/pingpong.c:28`: the parent does not check what `read` returned. When `fork` fails it reads EOF and still prints "received pong" (`pingpong_fork_fail`).
6. `src/kernel/vm.c:468`: `sync_pagetable` does not check either `walk` result. When the kernel walk cannot allocate a table page, the write at line 469 goes through address 0, and the kernel traps while va 0 is unmapped in the kernel table (`pt_sync_oom`). `uvmalloc`, which runs just before on the same growth, handles the same failure.
7. `src/kernel/vm.c:466`: `sync_pagetable` starts its loop at `start` without rounding it down. `start` and `end` are byte sizes, which `uvmalloc` rounds up on the same growth. With an unaligned `start`, the page that holds `end - 1` is skipped whenever `end`'s offset in its page is at most `start`'s (`pt_sync_unaligned`).

## 6. Fairness

The buffer-cache models assume no fairness. xv6 spinlocks (test-and-set) and sleeplocks (wakeup of all waiters) are not fair. A liveness property such as "every `bread` returns" would need strong fairness on `acquire` and `acquiresleep`. Under weak fairness a thread can starve: another thread can take the same lock again each time it is released. The code does not provide that fairness, so no `bget` liveness is checked. `NoDeadlock` states what the code does guarantee: some thread in the cache can always move.

`Pingpong` assumes weak fairness for each process's step. The xv6 scheduler runs every RUNNABLE process in turn. A process asleep in `piperead` is woken by the `pipewrite` or `pipeclose` that enables its read, and after that nothing disables the read again. So a process that can step keeps being able to until it does. `PageTable` checks only safety and the refinement, so it needs no fairness.

## 7. Not modelled

- The block contents and `bwrite`. A cache-coherence property ("`bread` returns the last contents written") would fail for the same reason `ImplementsBlockLock` fails. The only passing run it could join, `bcache_safety`, reaches the duplicate too. So it would add no question that `bcache_duplicate` does not already answer.
- A corrected `bget` that re-checks bucket `id`: it is not code of the repository.
- In `vm.c`:
  - `kvminit`, `kvmmap`, `kvminithart` and `kvmpa`: the global kernel table set up at boot, which no modelled operation changes afterwards;
  - page contents: `copyout` is modelled by the physical bytes it writes, not by their values;
  - `copyin` and `copyinstr`: they delegate to `copyin_new`, which is not in the repository;
  - the five device and kernel regions of `kpcreate`, which are one trampoline page.
- `kpcreate` runs only at boot in the model, when the pool is full. Its unchecked `kalloc` (line 398) is listed as a hazard.
- `set_pte_U2K`: nothing in the repository calls it. `sync_pagetable` copies leaf PTEs into kernel-owned tables rather than sharing the user's level-0 tables, as line 463's comment suggests. So no table is ever shared, and `proc_free_k_pagetable` cannot free one twice. `pt_safety`'s `NoDoubleFree` confirms this for the code as written.
- Whether the callers re-sync the kernel table after `uvmdealloc` is decided in `proc.c`, which is not in the repository.
- The spinlock, sleeplock, disk and pipe implementations: they are not in the repository.
- Printing (`vmprint`/`vpprint`, `test_pagetable`): it has no state to check.

# TLA+ models of the packet classifier

These modules model the concurrent core of the packet classifier and one of its data structures:
- the `ReadWriteLock` of `src/src/utils/threading.cpp`;
- the `RuleManager` built on it (same file, from line 277);
- the `PacketClassifier` facade that combines both (`src/unnamed/part_007`);
- the AVL `IntervalTree` of `src/src/data_structures/interval_tree.cpp`;
- the `SimpleThreadPool` of `src/src/utils/threading.cpp` (line 198 on).

TLC checks the modules on small configurations. `PROJECT.json` lists every component, run, mutant, finding and hazard, and maps each definition to the source lines it translates.

## The system

| Part | Source | State | Operations |
|------|--------|-------|------------|
| ReadWriteLock | threading.cpp 8-106, threading.h 14-65 | `active_readers_`, `waiting_writers_`, `writer_active_`, `writer_thread_id_`, `recursive_write_count_`, `reader_cv_`, `writer_cv_`, all under `mutex_` | readLock, readUnlock, tryReadLock, writeLock (recursive for its owner), writeUnlock, tryWriteLock; the RAII guards ReadLockGuard and WriteLockGuard |
| RuleManager | threading.cpp 277-478 | `rules_by_id_` (std::map id → rule), `rules_by_priority_cache_` (pointers into the map), `rw_lock_` | addRule, deleteRule, modifyRule, getRule, getRulesByPriority, getAllRules, detectConflict, incrementRuleMatchCount, resetRuleStatistics, resetAllRuleStatistics, rebuildPriorityCache |
| PacketClassifier | part_007, packet_classifier.h | a RuleManager, `specialized_structures_lock_`, tries, interval trees, a Bloom filter | addRule, deleteRule, modifyRule, classify, classifyBatch, statistics getters and resets, update/removeSpecializedStructures |
| PacketFilter::matches | packet_classifier.h 63-106 | none | protocol check (0 is any), port ranges with [0,0] as a wildcard; IP prefixes are not checked |
| IntervalTree | interval_tree.cpp 1-350 | an AVL tree of intervals with max_high | insert, remove, point and range queries, rotations |
| ConcurrentHashTable | interval_tree.cpp 351-597 | a linear-probing table of atomically claimed slots | insert, lookup, remove, resize, performRcuUpdate |
| BloomFilter | bloom_filter.cpp | a bit array and k hashes | insert, possiblyContains |
| MemoryPool | part_004 | blocks and an intrusive free list | allocate, deallocate, getUsedCount |
| RcuUtils | threading.cpp 108-196, threading.h | a global epoch, per-thread epochs, a callback list | rcuReadLock/Unlock, callRcu, synchronizeRcu, processRcuCallbacks |
| SimpleThreadPool | threading.cpp 198-276 | workers, a task vector used as a queue, `stop_` | enqueue, the worker loop, stop |
| CompressedTrie | part_006 | a character trie (placeholder) | insert, lookup, remove |
| Logger, example main | part_005, part_001, part_000 | output only | - |

**How the parts interact.** A rule change enters `PacketClassifier` and goes in three phases:
1. It is applied to the `RuleManager` under `rw_lock_`, held for writing.
2. The specialized structures are updated under `specialized_structures_lock_`, held for writing. These updates are conceptual: they only log.
3. The Bloom filter gets an insert.

The write lock of each phase is released before the next phase starts.

`classify` holds `specialized_structures_lock_` for reading. Under that lock it does the following:
1. It copies the pointer vector `rules_by_priority_cache_` under `rw_lock_` in read mode, through `getRulesByPriority`.
2. It walks the copied pointers *without* `rw_lock_`.
3. It calls `incrementRuleMatchCount` on the first match, which takes `rw_lock_` for writing.

The locks are always taken in the order spec → rm, never the reverse.

**What is hard to test.** All of these are listed with their lines in `PROJECT.json` under "hazards":
- the lock's condition-variable protocol (lost wake-ups, recursion, the try-variants);
- the self-deadlock of `detectConflict`;
- the windows in which `classify` reads rules that `deleteRule` frees or `modifyRule` overwrites;
- the order of equal priorities;
- the missing rollback;
- statistics credited to the wrong version of a rule;
- the interval tree's rebalancing and duplicate-range removal;
- the hash table's tombstone-less removal, racy insert, resize(0) and shrinking resize;
- RCU's grace period that waits for nobody;
- the thread pool's unlocked `stop_` check.

## Modules

- **`ReadWriteLock.tla`** holds operators on a lock record, one per method, with the same field names as the C++ members. Every method body runs under `mutex_`, so each call is one atomic step; a pass of the `cv.wait(lock, pred)` loop is one step too.
  - A thread blocked on `reader_cv_` or `writer_cv_` is a member of the record's `reader_cv` or `writer_cv` set.
  - `notify_one` removes any one member, nondeterministically; `notify_all` removes all of them.
  - `readUnlock` and `writeUnlock` return *sets* of possible results.
  - `tryReadLock` and `tryWriteLock` may also fail when the lock is free, because their `std::try_to_lock` on `mutex_` fails whenever another thread is inside a method.
  - Spurious wake-ups are not modelled; they only add re-evaluations of the predicate.
  - The module also defines variants with plausible bugs, which the mutants use.
- **`ReadWriteLockSpec.tla`** has threads calling one lock through guards:
  - `held[t]` is the stack of guards thread `t` owns; guards are released innermost first, as RAII does.
  - `pc[t]` records that `t` is inside a wait loop.
  - `MaxDepth` bounds the nesting, and `Ops` chooses the methods the threads call.
- **`AbstractRWLock.tla`** states what a recursive readers-writer lock promises: a writer, its depth, and per-thread read counts. `ReadWriteLockSpec` implements it through the mapping in `Abstract == INSTANCE AbstractRWLock WITH ...`: the writer is the thread with a "W" guard, and the counts are counted from `held`.
- **`ClassifierSystem.tla`** models the two locks, the rule map and the cache, with threads running the API calls.
  - **Labels.** `pc[t]` is the next step of a call, and each step is one lock call or one access to shared rule data. The labels follow the code: `add_rm_lock`, `add_rm_check`, `add_conflict`, `add_emplace`, then the specialized-structure phase (`upd_*`, `rem_*`, `bloom_*`), and so on.
  - **Rule data.** A rule is its priority, its `enabled` flag, its `PacketFilter` (protocol and the two port ranges), and its actions (a model value). `classify` is called with one `PacketHeader`, `Header`. `PacketFilterMatches` is `PacketFilter::matches`: protocol 0 matches any protocol, a port range of [0,0] matches any port, and any other range must contain the port. The IP prefixes are left out because `matches` never compares them. The MC filters exercise each branch: the protocol wildcard, the port wildcard, a range that contains the port and one that does not.
  - **Pointers.** A pointer is a `std::map` node number, so a pointer copied by `classify` can outlive an erase. Reading through a pointer to an erased node is undefined behaviour: any value may be read, and `freedRead` records that it happened.
  - **Priority cache.** `rebuildPriorityCache` can produce any ordering that is sorted by priority. `std::sort` is not stable and its comparator ignores the id.
  - **Observed tables.** `seen[t]` collects every rule table that existed while `t`'s classify was running. It is history only and feeds `ClassifyLinearizable`.
  - **`DetectConflictLocks`.** TRUE is the code as written. FALSE removes the `ReadLockGuard` from `detectConflict` (threading.cpp:420). As written, no rule can ever be added (see the findings), so every other question is asked of the FALSE variant.
  - **Bounds.** `MaxOps` bounds the number of API calls. Once all calls have returned, the `Finished` step stutters, so that deadlock checking still catches threads that are stuck.
  - **Statistics.** `getRuleStatistics` and `getStatistics` take `rw_lock_` for reading only to copy pointers (`getRule`, `getAllRules`) and read `match_count` through them afterwards; those reads set `freedRead` like classify's. The value they return is not kept, since nothing in the system reads it. `classifyBatch` holds no lock between its `classify` calls, so it is the same thread calling `classify` again.
  - **Left out** because they change no state or nothing reads them: logging, `last_match_time`, the conceptual trie/tree updates, and the Bloom filter's contents (`classify` ignores its answer). The `getRule` calls made for the Bloom filter are kept.
- **`IntervalTree.tla`** models the tree as nested records (`interval`, `max_high`, `height`, `left`, `right`; `Nil` is the null `unique_ptr`).
  - `insertRecursive`, `removeRecursive`, `findMin` and both `findOverlappingRecursive` overloads are RECURSIVE operators; `RotateLeft`/`RotateRight`, `UpdateNodeHeight` and `UpdateMaxHigh` follow the code field by field.
  - The tree is sequential (nothing calls it from two threads), so one action is one public call: `Insert` or `Remove` of an interval from `Intervals`.
  - After `std::move(new_interval)` into the recursive call, the AVL case checks of `insertRecursive` read `new_interval->low` through a null pointer. They are evaluated only when the balance leaves -1..1 (short-circuit `&&`), so an insert that unbalances a node yields `Crash`; the action then sets `crashed` and the behaviour ends, as the program does.
  - `contents` is a bag of the intervals inserted and not removed: the reference the queries are compared with. Equal intervals inserted twice are two nodes in the tree, hence a bag.
  - `MaxOps` bounds the number of calls. Deadlock is not checked: the behaviour stops when the calls run out or after a crash.
- **`SimpleThreadPool.tla`** has worker threads and client threads.
  - Each section under `queue_mutex_` is one step, so the mutex is implicit. The unlocked reads of `stop_` in `enqueue` and `stop` are steps of their own.
  - `condition_` is the set of workers with `wpc[w] = "wait"`. `notify_one` wakes any one of them, or nobody if none waits; `notify_all` wakes all. A woken worker goes back to `"loop"` and re-evaluates the predicate under the mutex.
  - A worker pass is `WorkerWait`, `WorkerExit` (stop_ and an empty queue), or `WorkerTake` (pop the front), followed by `WorkerRun` outside the mutex.
  - A client call is `enqueue` (`EnqCheck`, `EnqPush`, `EnqNotify`) or `stop` (`StopCheck`, `StopSet`, `StopNotify`, then one `StopJoin` step per worker, each blocking until that worker has exited). Only the clients in `Stoppers` call `stop`; the destructor is such a call by the owner.
  - Tasks are the numbers `1..MaxCalls`; running one adds it to `executed`. Task exceptions are caught and logged by the code, so they change nothing here.
- **`MC_ReadWriteLock.tla`**, **`MC_ClassifierSystem.tla`**, **`MC_IntervalTree.tla`** and **`MC_SimpleThreadPool.tla`** give TLC its constants and symmetry sets. Threads are interchangeable, so symmetry is used in the safety runs but not in the liveness runs.

## Runs

| Run | Expect | What it shows |
|-----|--------|---------------|
| `rwlock_safety` | pass | Three threads use every lock method, with guards nested two deep. Every step is a legal step of the abstract lock. Deadlock is not checked because it really happens here: a nested readLock under a waiting writer, and tryWriteLock released by writeUnlock. |
| `rwlock_liveness` | pass | Unnested guards, under weak fairness. The lock's counters and owner agree with the guards alive (`LockAgreesWithGuards`). While anyone waits, the lock keeps being granted (`WaitersProgress`). Single threads may starve, because the lock is not FIFO, so per-thread progress is deliberately not claimed. |
| `rwlock_trywrite` | violation | `tryWriteLock` followed by `writeUnlock` (what the unit test does) leaves the lock write-held with no owner. |
| `cls_all_ops` | pass | Every API call on two threads, with three calls. The cache is always a sorted image of the map. Every call returns. |
| `cls_add_classify` | pass | Three threads add rules, classify and reset statistics. Every classify returns the best rule of one table that existed during the call. |
| `cls_add_deadlock` | violation | The code as written: `addRule` never returns. |
| `cls_use_after_free` | violation | `deleteRule` erases a rule that a running classify still dereferences. |
| `cls_torn_read` | violation | A `modifyRule` overlapping a classify yields a (rule, actions) pair that no table during the call pairs that way. |
| `itree_ops` | pass | Up to seven inserts and removes that do not crash keep the tree ordered and AVL-balanced with exact heights and `max_high`, and point and range queries return exactly the stored intervals that overlap. |
| `itree_insert_crash` | violation | Three inserts of which the third unbalances a node reach the null dereference in `insertRecursive`. |
| `tpool_drain` | pass | Two workers and the owning thread making four `enqueue` or `stop` calls, under fairness. Every queued task runs (`EveryQueuedTaskRuns`). `stop` returns only once the queue is empty and every worker has exited (`StopDrainsQueue`). Every call returns (`EveryCallReturns`). |
| `tpool_stop_race` | violation | A second thread enqueues while the owner stops the pool. `enqueue` reads `stop_` as false, `stop` sets it, notifies and joins the workers, and the task pushed afterwards is never run. |

Every property of a passing run has a mutant in `PROJECT.json`: a plausible bug in a mapped definition that the run detects. The bugs are:
- a writer predicate that ignores readers;
- `readUnlock` without its notify;
- `writeUnlock` without its owner check;
- `writeLock` without the count reset, or without `waiting_writers_++`;
- `modifyRule` without the rebuild;
- a reversed comparator;
- `getHeight` returning -1 for a null node;
- `rotateLeft` without refreshing the lowered node's height and `max_high`;
- a range query that skips the right subtree when `high` equals the node's `low`;
- a worker that keeps its task after running it;
- a worker that exits on `stop_` without draining the queue;
- `enqueue` without `notify_one`;
- `stop` without `notify_all`.

**Bounds.** The bounds are chosen so that each case a property is about actually occurs.
- **Lock runs:** two or three threads and nesting depth two. That is enough for a reader and a writer to contend while a second writer waits, for recursion, and for read-under-write.
- **Classifier runs:** two rule ids and two priorities. Two input rule values suffice: either two matching rules of different priority, or one matching rule and its non-matching modification. Three or four calls are enough for add-then-overlap scenarios: two adds and a modify, or an add, a delete and a classify. Each violation is found within these bounds, and each mutant is caught.
- **Interval-tree runs:** lows and highs in 1..3 (six valid intervals, among them equal lows with different highs, plus [3,1] with low > high for the early return) and query points 0..4, which lie outside every interval on both sides. Seven calls reach trees of up to seven nodes (as far as inserts avoid the crash), removals of nodes with two children, and the rebalancing after a removal; each mutant is caught within them.
- **Thread-pool runs:** two workers, so that a notify can wake one worker while the other runs or waits, and both must be woken and joined by `stop`. Four calls by the owner let it enqueue several tasks, stop, and call both methods again after the stop (the early returns). Two calls by two threads are enough for the race.

**Fairness.** Weak fairness applies to each thread's own steps: the OS eventually schedules a runnable thread, and critical sections end. A thread blocked on a condition variable is not runnable, so fairness does not help it. Starting an API call is not fair: a caller may stop calling. In the thread pool, a worker in `condition_` is likewise not runnable; one in its loop or running a task is, and so is a client inside `enqueue` or `stop`.

## Findings

- **The conflict check deadlocks.** `detectConflict` read-locks `rw_lock_` while `addRule` and `modifyRule` hold it for writing, so the first `addRule` deadlocks (threading.cpp:420).
- **`tryWriteLock` cannot be released.** It records neither the owner nor the count, so `writeUnlock` is a no-op afterwards (threading.cpp:102).
- **`deleteRule` frees a rule a reader still uses.** It erases the rule after releasing the classifier's lock, which is a use-after-free for a concurrent `classify` (part_007:147).
- **`modifyRule` overwrites a rule a reader is reading.** It overwrites in place while `classify` reads without `rw_lock_`, so a classify can see a mixture of old and new (threading.cpp:361).
- **Inserting into the interval tree crashes.** `insertRecursive` dereferences the moved-from `new_interval` whenever a rotation is due, so a third insert that goes right twice crashes (interval_tree.cpp:119). TLC's trace inserts [1,1] three times. The unit test `InsertMultipleNonOverlappingIntervals` inserts three increasing intervals, which takes the same right-right path.
- **A task enqueued during `stop` is lost.** `enqueue` reads `stop_` without the mutex, so it can push after the workers have exited; the task never runs, while the `StopPool` test says stop waits for tasks to complete (threading.cpp:242).

Two more divergences were seen in earlier versions of these runs. Their runs were retired to make room for the thread pool, because the number of runs is limited:
- **`modifyRule` drops the statistics.** `it->second = new_rule_data` replaces `match_count` with the caller's value, while spec.md says it is monotone between resets (threading.cpp:362). `addRule`, a matching `classify`, then `modifyRule` takes `match_count` from 1 to 0 with no reset.
- **One of two rules with the same range cannot be removed from the interval tree.** `removeRecursive` stops at the first node with the range and does nothing if its `data_id` differs, while spec.md 4.2 removes by range and rule id (interval_tree.cpp:185). With the intervals [1,2] id 12, [1,2] id 99 and [2,3] id 23, removing the second of the two leaves it in the tree, and `QueriesMatchContents` fails.

Equal priorities are ordered by `std::sort` with a comparator that ignores the id, where spec.md wants (-priority, id) (threading.cpp:476). The model allows every such order, but no run is spent on the divergence: libstdc++ keeps id order below 17 rules, far beyond what TLC can build.

## Not modelled yet, and the plan

- **ConcurrentHashTable** (interval_tree.cpp 351-597): nothing in the system uses it. `ConcurrentHashTable.tla` and `MC_ConcurrentHashTable.tla` model it as sequential calls, because its own comments call `insert` and `remove` "a simple non-concurrent version". The probe loops of `insert`, `remove`, `lookup` and `resize` are RECURSIVE operators. `performRcuUpdate` is an action that does an `insert` or a `remove`; its `synchronizeRcu` only prints. `PROJECT.json` maps each definition to its lines.
  - `ht_ops.cfg` covers three keys, two of which collide at capacity 2, a table of 2 slots that can be resized to 2 or 3, and six calls. It checks that `current_size` counts the used slots, that `lookup` finds exactly the stored keys, and that growing `resize` keeps every key. It passes, with 753 distinct states. Each property has a variant that breaks it: `remove` ignoring `in_use`, `resize` keeping the old size, `lookup` stopping at the first empty slot, and `resize` skipping the last slot.
  - `ht_ops` is not one of the registered runs, because the project already has the maximum of twelve. `PROJECT.json` therefore lists the component as partly modelled. The other reason it is partial is that concurrent writers are not modelled.
  - Reached by the model but not checked by a registered run: `remove` stops at the first empty slot (line 505), and `insert` claims the first free slot before it has seen the whole chain (line 444). With keys a and b colliding, the calls insert a, insert b, remove a, insert b store b in two used slots. A later `remove(b)` then returns true while `lookup(b)` still finds b.
  - `resize(0)` makes the next call compute `% 0` (line 587), so the model never resizes to 0. A `resize` below the number of keys loses keys through the "Table is full" return (line 467), so `ResizeKeepsKeys` only claims growing resizes. The concurrent races need threads: the CAS followed by a separate key write, and two removes of one key both decrementing `current_size`.
- **BloomFilter:** its inserts run under `specialized_structures_lock_` held for writing and `classify` ignores its answer, so it cannot affect the classifier. No false negatives holds by construction, since `insert` and `possiblyContains` compute the same indices; a model would only restate that.
- **MemoryPool** and **RcuUtils** (a grace period that waits for nobody) are not modelled: the classifier never creates a MemoryPool, and only the unit tests call the RCU grace-period functions.
- **SimpleThreadPool:** two threads calling `stop` together both pass the unlocked check and join the same thread, which is undefined behaviour; the model lets only the owner stop the pool.
- **PacketFilter::matches** is modelled, but its edges are not run against spec.md's range semantics: [0,0] as "any" and low > high. **CompressedTrie** is a placeholder.
- The run budget is spent. A rule credited with a match of an earlier version of its id (delete and re-add between `classify`'s match and its increment, part_007:277) needs four calls on three threads and has no run.

Out of scope: Logger (formatting and output), the example program, and string formatting (`toString`).

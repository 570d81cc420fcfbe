# OneBase: TLA+ models, checks and proofs

OneBase is a small disk-based SQL database in C++ (`src/src`): a disk manager, a buffer pool
with an LRU-K replacer, a B+ tree, slotted table pages and a table heap, a catalog with
in-memory point-lookup indexes, a binder over a vendored PostgreSQL parser, a rule-based
optimizer, pull-based executors, and a server with one thread per client. This directory
models it in TLA+, checks the models with TLC on small instances and proves the safety
properties of all but one of them with TLAPS for all values of the constants. `PROJECT.json` lists every run, mutant,
theorem and hazard, and the source lines each definition translates.

## 1. Inventory

| Component | State | Operations | Used by | What is hard |
|---|---|---|---|---|
| Disk manager (`storage/disk`) | one file, one `fstream`, `next_page_id_` | ReadPage, WritePage, AllocatePage | buffer pool | stream error bits that stay set; reads past the end; restart |
| LRU-K replacer (`buffer/lru_k_replacer`) | per frame: last k accesses, evictable flag; `curr_size_`, clock | RecordAccess, SetEvictable, Evict, Remove, Size | buffer pool | victim independent of hash order; exact size |
| Buffer pool (`buffer/buffer_pool_manager`) | frames, `page_table_`, `free_list_`, pin counts, dirty flags | NewPage, FetchPage, UnpinPage, DeletePage, FlushPage, FlushAllPages | tree, heap | all interleavings of clients; failing device; crash; all frames pinned |
| Page guards (`buffer/page_guard`) | a pin, the latch of its frame, a dirty flag | construct, GetDataMut, move, Drop | tests only | release exactly once, latch before pin; waiting for latches |
| B+ tree (`storage/index`, `storage/page/b_plus_tree_*`) | pages linked by ids, parent ids, leaf chain | Insert, Remove, GetValue, Begin, iterator | tests (the catalog's indexes are hash maps) | splits and merges over several levels, pins, boundaries |
| Table pages and heap (`storage/page/table_page`, `storage/table`) | slotted pages in a chain | Insert/Update/Delete/GetTuple, iterator | executors, catalog | unsigned free space; updates without room for their copy; DML under a scan |
| Catalog (`catalog`) | tables and indexes by oid and by name | CreateTable, CreateIndex, DropIndex, lookups | binder, optimizer, executors | two maps that mirror each other; indexes built before or after rows |
| Binder, optimizer | none | statement to plan; seq scan to index scan, nested loop to hash join | server | names, tuple and column indexes; the plan must not change the answer |
| Executors, engine (`execution`) | cursor of the running statement | Init, Next | server | statements that change what they scan; table and indexes together; hash and sort orders; exceptions in the middle |
| Lock manager, transactions (`concurrency`) | – | every lock method throws `NotImplementedException` | nothing | – |
| Types, values, tuples, schema | – | comparison, arithmetic, serialisation | all | overflow, division by zero, NULL, column offsets |
| Server, client, protocol | `g_running`, sockets, threads | signal, accept, HandleClient, HandleQuery; REPL | users | shutdown races, blocked reads, clients that vanish |

How they interact. The server runs each client's statements in that client's thread: bind,
optimize, execute, send one answer. Executors call the catalog, the table heap and the
indexes; the heap fetches and unpins pages in the buffer pool, whose methods hold one latch
from their first to their last line; the pool calls the replacer and the disk manager under that
latch. No other part has a latch.

What makes each part correct, in one line each: the replacer evicts by LRU-K; the pool behaves
as if all pages were in memory and never moves a pinned page; the tree is an ordered map; a heap
keeps rows intact and rids stable; a guard releases its pin and its latch once; an index names exactly the rows with its key; a statement
means what it says of the tables as they were when it began; each query gets its own answer, and a
signal stops the server.

## 2. Modules

| Module | Models | Relation |
|---|---|---|
| `Replacer` | the contract of a replacer, as the pool relies on it | abstract |
| `LRUKReplacer` | `lru_k_replacer.cpp`, Evict iteration by iteration in any order | implements `Replacer` |
| `DiskManager` | `disk_manager.cpp`: file, size, stream state, next id | operators used by the pool |
| `PageStore` | a store with every page in memory, and what a crash may leave | abstract |
| `BufferPoolManager` | `buffer_pool_manager.cpp` over `DiskManager` and `Replacer` | implements `PageStore` |
| `OrderedMap` | a map with unique keys | abstract |
| `BPlusTree` | `b_plus_tree.cpp`, its pages and iterator | implements `OrderedMap` |
| `RowStore` | rows named by rids that are never given out twice | abstract |
| `TableHeap` | `table_page.cpp`, `table_heap.cpp`, one sequential scan | implements `RowStore` |
| `PageGuard` | `page_guard.cpp`: threads with guards and the frames' latches | composed with `BufferPoolManager` |
| `Execution` | `catalog.cpp`, the index scan rule, scan and DML executors | over rows and rids |
| `Value` | `value.cpp` and the operators of expressions | operators used by `Select` |
| `Select` | the binder's SELECT, the optimizer, the executors of a query, `HandleQuery` | checked against the meaning of the query |
| `Server` | `server_main.cpp`, `client_main.cpp`, `protocol.h` | statements are one step |
| `MC...` | constants of the TLC instances | extend the module |
| `...Proofs` | theorems and proofs about the module of that name (`BPlusTreeShapeProofs`: what the proofs of `BPlusTree` rest on) | extend the module |

### Correspondence with the code

**LRUKReplacer.** `tracked` is the domain of the entry map, `history[f]` the deque of the last
k timestamps, `is_evictable`, `curr_size`, `current_timestamp` the members of the same names.
Each method is an action; `Evict` is split into `EvictBegin`, one `Visit` per entry of the
`unordered_map`, in every order, and a return, so that the check covers every hash order. `log` is
a ghost: all accesses, from which the policy is restated independently (`NoLater`).

**DiskManager.** `file` and `size` are the file; `stream` is the state of `db_io_`: good, failed
(a short read set failbit) or bad (the device failed). A write on a failed stream does nothing
and reports nothing, which is what the code does. External faults are the `fault` argument.

**BufferPoolManager.** Each method is one action because it holds `latch_` throughout; a method
that throws has an action of its own that stops where the exception leaves the code. `pin[h]`
models the clients: a handle is one pin and the pointer that goes with it. `Write` is a client
that writes through its pointer; it remembers `wrote` and unpins dirty. `durable` is a history variable:
the contents a crash may leave. `Crash` ends the process (the destructor flushes nothing) and
opens the file again.

**BPlusTree.** One operation runs at a time, a step per page: `Find` or `Begin` fetches the root, `Descend` goes to a child, a
leaf step (`InsertPresent`, `Insert`, `RemoveAbsent`, `RemoveEntry`, `RemoveLast`, `GetValue`, `BeginAt`, `BeginFirst`) does what the
operation does there, and on the way up each round of the loops of `Insert` and `Remove` is one step: `SplitPage` or `SplitRoot`,
`BorrowFromLeft`, `BorrowFromRight`, `Merge` or `Collapse`. All four operations go down alike, so the descent
is shared and the leaf step says which one it was. `root`, `parent`, `next`, `keys` and `vals` are the members and arrays of
the pages; `pins` the pin counts; `starved` becomes true if a fetch ever finds all `pool_size` frames pinned, where
the code would use a null pointer. DeletePage refuses a pinned page (`Deleted`), so the order of unpinning and deleting matters.
The binary searches are iterated round by round (`Iterate`). Sizes are counted in entries. A scan is `Begin` and then
`Advance` (`operator*`, `operator++`) to the end; `due` is a ghost, the keys it has not passed.

**TableHeap.** Pages keep offsets and lengths of the slots; bytes are abstracted to the place they
occupy and the row they encode. Free space is computed modulo `Word`, as the unsigned
subtraction does. `UpdateTuple` takes any row its one test (`UpdateFits`) lets through, and writes its copy
wherever the free space pointer says (`Placed`). `Hit` are the slots under the copy; each then reads as any element of
`Noise`, and `torn` remembers the page. A slot that was hit may read as deleted, as another place, or as a row nobody
stored; the bytes of such a row may also crash the reader, which the model does not show. When the copy
reaches the header (`ReachesHeader`) the page's chain and counters are gone, or the copy begins before the page: `lost`
becomes true and the behaviour ends. Nothing else is assumed about updates.
The scan is the one of `SeqScanExecutor`, which moves on before it returns its
row. `cursor` is the local `<<page_id, slot>>` of `Begin()` and `operator++`: a step of the loop stops at a live
slot (`StopAtSlot`), skips a deleted one (`SkipSlot`), goes to the next page (`NextPage`) or ends (`ReachEnd`). Any insert, delete of a
returned row or update may happen between two calls of `Next`; `seen` and `due` are ghosts.

**Execution.** `indexes` and `index_names` are the catalog's maps; an index has the sequence of
rids of each key. A statement begins with the child the optimizer picks (any usable index, since
`GetTableIndexes` follows a hash order) and takes one row per step: the whole body of the DML loop for
this row, table and indexes. The sequential scan reads the heap as it is at that moment; the index
scan has a copy of the rids. Predicates are none or `column = constant`, the only ones for
which the optimizer uses an index; an assignment is `SET column = f(column)` for the `f` in `Setters`, which may be `Error` for some values: the
expression throws and the statement is over, with the rows updated so far (`UpdateThrows`).
Deletion leaves the slot, as in `TableHeap`. Tables exist and are filled in every way at the start, since
SQL has no CREATE TABLE and no INSERT ... VALUES here. Rows have INTEGER columns and so one size: an update
is never refused and keeps its slot. It may still find no room on its page for the copy. `UpdateTears` is that
alternative of every `UpdateRow`, since `Execution` does not count bytes: any slots of the table become `Noise`, the
indexes are maintained as if nothing had happened, `torn` becomes true and the behaviour ends there. The properties
speak of all that happens before.

**PageGuard.** Extends the pool: a guard is a variable of a thread and owns a handle of
`BufferPoolManager` and, by its class, the latch of the frame. The pool's methods stay one step; a
constructor is two (pin, then wait for the latch) and so is `Drop` (unlatch, then unpin), so the
other threads run in between. A move assignment is a `Drop` that remembers the guard it takes over
from. The clients take page latches in the order of page ids, an assumption without which two of them wait for each
other; other threads flush and delete pages without a guard.

**Value, Select.** A query is the parse tree the binder gets; `BindSelect` resolves names to tuple and
column indexes and builds the plan bottom up, `Optimize` applies the two rules, and an
executor is the sequence its `Next` returns up to the first exception, with the flag that its `Init` came to an end.
`Outcomes(plan)` is a set, because the order of groups is a hash table's and `std::sort` is not stable. A
failed `ONEBASE_ASSERT` or `UNREACHABLE` is the value `Throw`. Integers have `IntBits` bits and wrap
around. A tuple is its bytes (`data`) and the cached `values`, which a tuple of an index scan does not have.
Hash keys are the strings the code makes (`ToString`, with `#` between group columns). The reference
(`Meaning`, `Units`, `AnswerRow`, `Lists`) knows no plan: it works on names, sets of positions and values.

**Server.** One location per thread (`main`, `worker[c]`, `client[c]`) and two message queues per
connection. The signal may arrive at any step of the main thread, and the handler is assumed to run in that thread,
which is the one Linux prefers. POSIX allows any thread; with the main thread in `accept()`, a `close()` by another would
not wake it. `signal()` of glibc restarts
interrupted calls, so `read()` goes on and `accept()` fails on the closed socket. `accept()` may also fail at any other time,
for want of a file descriptor for instance, and the loop goes on (`AcceptFails`). The server ignores SIGPIPE; a client does not and may be killed by it, which
is `HangUp` at its prompt.

## 3. Runs

Passing runs:

| Run | Instance | Shows |
|---|---|---|
| `lruk` | 3 frames, K = 2, 7 accesses | the victim is LRU-K's in every visiting order, `curr_size_` is exact, the contract holds |
| `bufferpool_data` | 2 frames, 3 pages, 2 pins, 2 contents, crashes | a clean page equals its page on disk; the pool implements `PageStore` |
| `bufferpool_faults` | 2 frames, 3 pages, 3 pins, faults, crashes | page table, free list, replacer and pins agree whatever fails |
| `page_guards` | 2 threads with 2 and 1 guards, 1 frame, 2 pages, 2 contents | every pin and latch is released once and in order, changes are reported, readers are undisturbed, waiting constructors are served |
| `bplustree` | 6 keys, 7 entries, 8 pages, leaf max 2, internal max 3, 4 frames (1,053,252 states) | balance, parents, no lost pages or pins, frames suffice, scans in order, implements `OrderedMap` |
| `tableheap` | 2 pages of 32 bytes, rows of 4, 8 and 40 bytes, slots that are hit read as deleted (515,123 states) | rows intact but on torn pages, scans return every row once, implements `RowStore` |
| `execution` | 2 tables, 2 columns, 2 values, 2 slots, 2 indexes ever (3,582,678 states) | the catalog's maps mirror each other, indexes agree with tables, all statements mean the same with every plan |
| `select` | tables of up to 3 and 2 rows, every content; several hundred queries; an index or none | the optimizer's plan returns what the binder's does; answers are exactly what the query means |
| `server` | 2 clients, 2 queries each, who may stay at their prompts for ever (37,499 states) | answers stay in step, nobody is left waiting, no thread or connection is left when main() returns, and it returns after a signal once users leave |

Runs that show a disagreement of the code with its documentation (`findings` in `PROJECT.json`
quotes the lines):

| Run | What happens |
|---|---|
| `short_read` | A page unpinned clean after NewPage, evicted and fetched again is read past the end of the file; failbit stays set on the stream, and later write-backs vanish without an error. |
| `update_overrun` | Two rows of 4 bytes fill a page of 32. The first is updated to a row of its own size: the copy is written over the second one's slot, which then reads as deleted. |
| `idle_client` | A client at its prompt keeps the server from stopping after a signal. |

### Assumptions of the passing runs

They are switches in the `.cfg` files or exceptions named in a property, each the complement of
something the code does not do:

* `DirtyNewPages` (`bufferpool_data`): the client that creates a page unpins it dirty, as
  `TableHeap` and `BPlusTree` do. Without it, `short_read`.
* `IOFaults = {FALSE}` (`bufferpool_data`): contents are promised only on a device that works.
* `torn` (`tableheap`, `execution`, and the theorems about them): an update that finds no room for its copy
  (`table_page.cpp:96` asks for the growth only) is a step of both models. `TableHeap` excepts the rows of that update's
  page and no others; `Execution`, which does not know pages, ends. `update_overrun` shows what it does.
* `Setters` (`execution`): SET expressions have their column's type. With another one the row is stored and the
  maintenance of an index on the column throws (`update_executor.cpp:44`).
* `InsertExact` is about inserts from another table: `INSERT INTO t SELECT ... FROM t` meets the rows it has
  just inserted and inserts them again.
* `ShowsRawTuples` (`Select`): `SELECT *` from an index scan,
  whose tuples are not parsed, prints NULLs (`index_scan_executor.cpp:32`), and `SelectExact` excepts it.
* `AggregatesNothing` (`Select`): SUM, MIN and MAX of no rows without GROUP BY. `SelectExact` says that the answer is then an
  ERROR, which is what the code does and not what `lab3_query_execution_en.md:226` says ("return one row with default
  aggregate values (COUNT returns 0, SUM/MIN/MAX return NULL)"): `aggregation_executor.cpp:132` builds a tuple with
  `Value()`, whose size is asked for at `tuple.cpp:11` and throws.
* `InOrder` (`PageGuard`): latches are taken in the order of page ids.
* The premise of `ShutdownOnceUsersLeave` (`server`): no user stays at the prompt for ever. Without it, `idle_client`.

### Bounds

* Replacer: three frames are needed for a frame that beats another and is beaten by a third; 7
  accesses let two frames have more than K of them while a third has fewer.
* Pool: two frames and three pages make evictions necessary; three handles give a page two pins
  while the other frame is pinned too. `Handles` bounds the pins held at once, `MaxPages` the ids allocated.
* Tree: leaf max 2 and internal max 3 reach three levels with six keys, so splits and merges
  propagate through an internal level and replace the root; eight pages are as many as they need. Four frames is the least
  with which `PinsReleased` holds. Internal max 2 and leaf max 1 are left out, here and by `MaxSizeAssumption`: with
  them a split leaves an internal page with one child or an empty leaf.
* Heap: a 32-byte page holds two rows and then has no room for another copy, or one row and room for one or two copies; one row
  size never fits, and an insert may need the second page. So updates with and without room, those that hit their own slot,
  another's or the header, all occur. `MCNoise` has one value, a deleted slot, which takes a row away from under its rid; the proofs
  are for every `Noise`.
* Guards: one frame makes every second page evict the first, so a frame and its latch change pages; one
  thread can move and assign over, the other waits. With two frames a thread also holds one latch while it waits
  for another; that instance passes as well (446,594 states) and takes too long to be kept.
* Execution: two rows in a table let a scan have one behind and one before it; two indexes may compete,
  or one be dropped and created again. `MaxSlots` doubles as the table that refuses a row. The `MCSetters`
  exchange the two values, so that a row leaves the key its scan is for, or throw for one of them, so that a
  statement fails at its first or its second row. In this run `UpdateTears` turns slots to deleted ones only.
* Select: values 1 and 11 make strings that run together when a separator is missing; three rows have two in a
  group or equal in a sort, with one apart; 5-bit integers make `11 * 11` and sums wrap around. The queries cross a
  set of conditions (indexed, not, mixed with OR and AND, dividing by zero, naming no column) with targets,
  orders, groups and limits.
* Server: two clients show a thread that is busy while another is idle or waiting to be accepted;
  two queries show an answer being taken for the next one's.

Symmetry is used for handles, and for tables, index names and values, in runs that check invariants, and in
`bufferpool_data`, whose refinement property is a safety property that treats handles alike. No liveness run uses it.

### Fairness

`Server` and `PageGuard` have liveness. In `Server`, weak fairness of the main thread and of each worker is what the
operating system's scheduler gives; for a worker in `HandleQuery` it also says that a statement ends, which
is not so for an INSERT from its own table. The main thread's weak fairness does not ask for a failing `accept()` while the socket is
open; strong fairness of `Accept` says that `accept()` does not fail for ever with a connection waiting. Weak fairness of `Answered` and `ConnectionLost` says
that a client blocked in `read()` reads what arrives. Nothing is assumed of the users in `Spec`: that a client
waiting for an answer is answered or told of the loss, and that the connections of clients that have gone are closed, does
not rest on other users leaving. Only `ShutdownOnceUsersLeave` has a premise, that each client is again and again not at its prompt.

In `PageGuard`, weak fairness of each thread's next step inside a constructor or a `Drop`, and of dropping a guard it
holds (guards are local variables); a latch that is free now and then need not be granted, so the property
rests on the bound on acquisitions.

CHECK_DEADLOCK is off for `Server`, which stops, for `PageGuard`, whose threads come to an end, for `TableHeap`, which ends
when a header is lost, and for `Execution`, which ends when a page is torn.

## 4. Proofs

Every theorem holds for all values of the constants that satisfy the modules' named assumptions, which TLC evaluates
in the runs. What else a theorem assumes is in its `ASSUME` and below. In each module one invariant is inductive and
the properties follow from it; it was checked by TLC first.

| Module | Theorems | Assumes |
|---|---|---|
| `LRUKReplacerProofs` | `TypeCorrect`, `EvictsLRUK`, `SizeIsExact`, `Implements` | – |
| `BufferPoolProofs` | `BookkeepingHolds`, `TypeCorrect`, `HandlesAlwaysValid`, `FramesNeverLeak` | – (faults and crashes included) |
| | `DataInvariant`, `CleanPagesMatch`, `PoolImplementsPageStore` | `Reliable`: a device that works, new pages unpinned dirty |
| `PageGuardProofs` | `GuardInvariant`, `GuardTypes`, `PinsReleasedOnce`, `LatchesReleasedInTime`, `ChangesAreReported`, `ReadersAreUndisturbed` | – (`ChangesAreReported`: `~DirtyNewPages`) |
| `BPlusTreeShapeProofs` | `KeyIndexCorrect`, `LookupCorrect` | – |
| `BPlusTreeProofs` | `Invariance`, `TreeTyped`, `TreeWellFormed`, `TreeReleasesPins`, `TreeScansInOrder`, `TreeImplementsMap` | – |
| `TableHeapProofs` | `TuplesStayIntact`, `TypeCorrect`, `ScansReadLiveRows`, `RowsAreMetOnce`, `ScansAreComplete`, `HeapImplementsRowStore` | – (the properties except torn pages) |
| `ExecutionProofs` | `ExecutionInvariant`, `TypeCorrect`, `IndexesAgree`, `SelectIsExact`, `ModifyIsExact`, `InsertIsExact` | – |
| `ServerProofs` | `ServerInvariant`, `TypeCorrect`, `AnswersStayInStep`, `ServerStopsCleanly` | – |

**`LRUKReplacerProofs`**, for every number of frames and every k. `VictimIsLRUK` speaks of the complete access log, the
code sees k timestamps. `EntriesInv` says that a deque is the end of its frame's log, and all of it while shorter than k, which is
why its front decides as the log does. `ScanInv` says that in the middle of the loop of Evict the victim so far is no worse than any
entry visited, in whatever order. With `SizeCountsEvictable` they are inductive. `Implements` maps each method, and the
iterations of Evict to stutters, to the contract `Replacer` that the pool's model uses: the two models fit.

**`BufferPoolProofs`**, for every pool size, set of pages, handles and contents, with faults and crashes as the
constants allow. The inductive invariant is `Bookkeeping`, the conjunction of `TypeOK`,
`TableAgreesWithFrames`, `FreeFramesAreFree`, `ReplacerTracksUnpinned`, `PinCountIsHolders`,
`HandlesStayValid` and `NoFrameLeaks` (checked by `bufferpool_faults`). None is
inductive alone: that a pinned page stays needs that Evict returns only unpinned frames
(`ReplacerTracksUnpinned`), that pins are counted exactly (`PinCountIsHolders`), and that the front of
the free list is not in use (`FreeFramesAreFree`). `TakenFrame` gathers what is known of the frame
that NewPage or FetchPage takes; `AdmitKeepsBookkeeping` shows once that putting a page into it
keeps the invariant; then one lemma per action.

Its second part, the contents of pages, rests on `Bookkeeping` and `DataInv`: a page that is not resident is in the file, a clean resident
one equals the file's, and the file holds of each page something that `durable` says a crash may leave. The
stream must be good throughout, hence `Reliable`: with a page unpinned clean after NewPage the run `short_read` shows
how it fails. The refinement of `PageStore` is shown action by action: an eviction is a stutter because the frame
written back or dropped is what the file then holds.

**`PageGuardProofs`**, for any threads and guards, on a device that may fail. A step of a guard is a step of the pool or leaves it
alone, so `Bookkeeping` carries over from `BufferPoolProofs`. `Owned` makes guards and pins one to one, `Calls`
says that a thread is inside one constructor or Drop at a time and that a guard about to be moved from is left alone, `LatchAgrees`
that a latch counts its holders. `ChangesAreReported` is about the guards' dirty flag: `DirtyNewPages` would
count a page as changed by its creation, which a guard does not report. `ReadersAreUndisturbed` is an action
property: under a read latch a step that changes the page is `GetDataMut` of a BasicPageGuard, which takes no latch.

**`BPlusTreeShapeProofs`** and **`BPlusTreeProofs`**, for all keys and rids, any number of pages, every leaf max from 2, internal max from 3 and pool from 4 frames
on, so for trees of every height.

* The searches. `KeyIndexCorrect` and `LookupCorrect` show the two binary searches against what they are for: in a round that
  is not the last, the part still to be searched shrinks, the keys left of it are below the key and those right of it are not. That an
  iterated function keeps such a bound (`IterateKeeps`) is shown with a least counterexample (`LeastOf`).
* The invariant, `Inv`. A tree of unknown height is described without recursion: there *are* a level `le` and two
  upward closed sets of keys `lo` and `hi` for every page, a page's range being `lo` without `hi`, that fit locally. `Up`
  and `Down` link parent and child both ways, `Levelled` makes leaves level 0 and a parent one above its child,
  `Routed` cuts a parent's range at its keys, `Within` and `Ordered` place a page's keys, `Chained` makes a leaf's successor begin
  where the leaf ends. `Sizes` exempts the one page that an operation is about to put right, `Course` says which pages are pinned at each place,
  `OnTheWay` that the key sought lies in the range of the page come to. TLC checked it first,
  with the levels and ranges computed from the tree. Pages of one level have disjoint ranges (`SameRange`).
* The steps. `Joins` relates two trees that differ in that two neighbours under one parent are one page; `SplitKeepsTree` and
  `MergeKeepsTree` show that either side of it is a tree if the other is. `SplitPage` and `Merge` are its two
  directions; a borrow is a merge followed by a split at another place; a new root is put over the old one (`ToppedIsTree`), which is then
  split; `Collapse` is the converse. The pairs in the leaves are the same on both sides. So the steps
  that reorganise are stutters of `OrderedMap`.
* The properties. `TreeWellFormed` computes `Depth` as the difference of levels, by uniqueness of the function it is chosen from.
  `SearchDecides`: the key is in the leaf come to or nowhere, since ranges are disjoint. `TreeScansInOrder` uses `Chained`. In
  `TreeReleasesPins`, the frames an operation holds at one moment are in a set of four (`AtMostFour`).

**`TableHeapProofs`**, for every page size, all rows and all `Noise`, with updates as the code does them. `Layout` says that
the pages that are not torn are typed and sound (`TuplesIntact`); the point is that on a sound page the unsigned free
space does not wrap (`NoWrap`, `FreeSpace`), so the check of InsertTuple is the real one, and that a copy with room hits
no slot. An update without room makes its page torn in the same step, and no step writes on two pages.
The scan's invariant relates iterator, `cursor` and ghosts: whatever is due lies at or behind the place that the loop has come to,
what was seen lies before it, and the iterator at rest stands on a live row or on a torn page. Between two rounds of the loop this rests on
what the loop has just read, in slot order and page order. `HeapImplementsRowStore` shows that
each operation changes one slot of the heap or tears one page, that a deleted slot keeps its number, and that the scan's steps are
stutters.

**`ExecutionProofs`**, for any tables, columns, values, index names, column lists, SET expressions and `Noise`. The inductive invariant is
`TypeOK` with `~torn => IInv`, and `UpdateTears` keeps it by setting `torn`. The catalog part of `IInv` is `DataOK` and `IndexesAgreed`,
in the form that an index lists the pairs <<rid, key>> of its table (`Lists`, `Keyed`); `ReindexedLists` shows that one
row's removals and insertions follow that row's change. The statement part, `StmtInv`, splits the rows selected at the
beginning into `Due` and `Done` by where the child stands. UPDATE and DELETE have made of the done rows what they should and left the
others as they were, SELECT has returned the done ones, INSERT has copied them unless refused. It is what makes a statement
immune to its own changes: a row still due has its old values (`ScannedTable`), and an index scan has its own copy of the
rids. When the child is exhausted nothing is due, and the three theorems follow. What the loops of `BuiltMap` and
`RemoveEntry` compute is proved by the least number of iterations for which it would be wrong (`LeastOf`), since the
library's induction theorems cannot be used here.

**`ServerProofs`**, for any number of clients and queries. `Connections` places each connection in the backlog, with a thread,
or closed; `Control` ties `g_running`, the listening socket and the main thread together; `Exchange` says that a waiting client's
query is in exactly one place: sent, being executed, answered, or lost with its connection.

Only model-checked:

* liveness (`NoClientHangs`, `ConnectionsClosed`, `ShutdownOnceUsersLeave` of `Server`, `WaitersServed` of `PageGuard`): fairness and ENABLED are out of the prover's
  reach;
* everything about `Select`, whose plan trees are evaluated by recursive operators, with which the prover's SMT backend
  cannot work: what a recursive definition computes for every query would need induction over queries.

## 5. Not modelled

* Concurrent statements on the unlatched catalog, heap and indexes: data races of the server, so undefined
  behaviour of which nothing can be promised; here statements run one after the other.
* B+ tree iterators that live across an insert or a remove, of which nothing is promised either, and the tree over a pool
  that other clients have filled: the code dereferences the null pointer it gets. Alone, it needs four frames (`PinsReleased`).
* The null pointer that `FetchPage` returns when all frames are pinned, in the table heap (`table_heap.cpp:22,72,81,102`:
  an insert or update refused, a delete dropped, a scan cut short). One statement at a time never meets it on a pool of two or
  more frames: the heap holds one pin at a time, and two only while it appends a page.
* What happens after a page is torn in `Execution`, and after a page header is written over in `TableHeap`: the code follows row bytes
  as page ids, counts and offsets.
* FLOAT; the byte layout of tuples; NULL in a table (no statement puts one there); rows of varying size and ill-typed SET in `Execution`.
* In `Select`: lists of tables in FROM, and columns of the right table above a join (below).
* Lock manager and transactions: not implemented in the code.
* SHOW, parsing, formatting of results, the interactive shell, logging, configuration; the vendored parser.

Behaviour of the code met while modelling it that the runs leave out:

* With the default max sizes of the B+ tree the entry that makes a leaf overflow is written before the
  split, 4 bytes beyond the page (`b_plus_tree.cpp:68`); sizes are in entries here.
* `UpdateTuple` refuses a row that grows beyond its page's room; `update_executor.cpp:38` ignores this, moves
  the index entry and counts the row. Rows of `Execution` do not grow.
* `Evaluate` ignores `tuple_idx_` (`column_value_expression.h:11`): above a join, a column of the right table
  in ORDER BY, GROUP BY or the target list reads the left table's column of that index. ORDER BY after an
  aggregation likewise uses the index in the base table. The queries of `MCSelect` name the left table there.
* `FROM a, b` scans only `a` (`binder.cpp:484`) though names resolve in both.
* Aggregates come out after the group columns, whatever the order in the target list (`binder.cpp:621`).
* A hash join compares strings: FLOAT keys are equal when their two decimals are, and an INTEGER 1 joins a VARCHAR
  '1' where the nested loop join throws (`OptimizerPreserves` therefore speaks of plans that do not throw). VARCHAR
  group keys that contain `#` may run together.
* An index scan with a key that is no INTEGER throws even if the table is empty (`index_scan_executor.cpp:19`).
* A column after a VARCHAR has a wrong offset in a tuple that is not parsed (`schema.h:17`).

## 6. Plan

Every safety property that a run checks, but for those of `Select`, is proved. What would come next:

1. Model, if the code grows there: rows that grow under UPDATE together with the indexes, FROM lists, transactions, and
   the B+ tree under latches, once it has them.
2. The operators of a single executor of `Select` (filter, limit, projection) as lemmas over sequences, in a module
   without recursive operators.

# Verification of scrollviewer's streaming core

scrollviewer renders volumes far larger than memory by ray casting.  It streams
*bricks* (cubes of voxels) from a local or remote Zarr pyramid: the rays say what
they miss, a planner turns that into requests, a pipeline fetches and decodes, and
caches in RAM and on the GPU keep what fits.  This directory holds TLA+ models of
the parts that do so concurrently, the TLC runs that check them on small instances,
and proofs, checked by TLAPS, that hold for every size.  Paths below are relative to
`src/` in the repository.

## 1. Inventory

The path of a brick, with the module that models each part:

    ray caster on the GPU            RayFeedback
      | requests, two buffers behind fences
      v
    ViewerWindow's streaming loop    ViewerStreaming (over all that follows)
      | plan                         WorkingSetPlanner, with ManifestScan's manifest
      | submit(keys, priorities)
      v
    ChunkFetchPipeline               FetchPipeline -- implements --> BrickDelivery
      | read(key, stop, callback)
      v
    DiskCacheStore                   DiskCache  -- implements --> StoreContract
      | read(key, stop, callback)
      v
    HttpStore                        HttpStore  -- implements --> StoreContract
      ~ callback, then a decode job on the pipeline's ThreadPool
      v
    RamCache / LruCache              LruCache
      | drainReady, enqueue
      v
    BrickAssembler                   BrickAssembly
      v
    GpuUploader (ring of slots)      GpuUploader
      | uploadFromBoundPbo
      v
    GpuBrickCache                    GpuBrickCache -- implements --> BrickResidency
      | page tables, brick pool, surface mask (SurfaceMask)
      v
    ray caster on the GPU

Beside that path: Segmentation (a thread that floods a coarse level) and
ViewerLifetime (who owns the stores and the I/O pool, and what closing the window
does to their jobs).

Each component, with its state, its operations, how it talks to the others, what is
hard about it, and what makes it correct:

| Component | State | Operations and interactions | Hard behaviour | Correct when |
|---|---|---|---|---|
| **ChunkFetchPipeline** (`data/`) | dedupe map, priority heap, epoch, counters of fetches, decodes, callbacks and ready bytes, list of ready bricks; one mutex | `submit`, `drainReady`, `unpin` by the render thread; a callback per read by the store's threads; decode jobs on its pool; `pump` at the end of nearly every critical section | three kinds of threads adjust the counters; superseded heap entries; caps; cancellation; destructor waits for callbacks that issue reads | counters are exact, one read and one job per key, highest priority first, nothing waits for a pump nobody owes, everything submitted leaves, the destructor returns |
| **HttpStore** (`store/`) | `pending_`, the curl thread's active set and retry queue, attempts | `read` from any thread; the loop admits, drops stopped transfers, reaps and retries; callbacks from the curl thread | a stop token may be set at any moment; a failed transfer changes queues; shutdown | each unanswered read has one owner, each read gets one answer, caps on streams and attempts |
| **ChunkStore** | none: an interface | `read(key, stop, callback)` | callbacks on other threads | one answer per read, Cancelled only if asked for |
| **DiskCacheStore** | files: an entry per key and variant, `.tmp`, `.miss` | `read` posts an io job; the inner store's callback or a second job writes | shared directory, shared temporary names, full disk, kills, eviction | what is served is whole; absence is learnt from the remote store only; every read is answered |
| **LocalStore** | none | one io job per read | queued jobs are discarded with the pool | every read that somebody waits for is answered |
| **GdctTranscoder** | none | lossy recompression of bricks | runs on the io pool for a store that may be gone | as DiskCacheStore |
| **ThreadPool** (`core/`) | queue, threads, stop request | `post`, worker loop, destructor | jobs queued at destruction never run; the last owner may be one of its own jobs | nobody waits for a job that will not run |
| **LruCache / RamCache** | list of entries with pin counts, bytes used | `get`, `insert`, `pin`, `unpin` under a mutex | pins, replacement, over budget by design | bytes are exact, pinned entries stay, the coldest goes first |
| **BrickAssembler** (`render/`) | none | copies a brick and its borders from RAM, on the uploader's workers | neighbours absent at that moment are clamped for good | of two neighbours at least one has the other's voxels |
| **GpuUploader** | queue, ring of mapped slots with states and fences | `enqueue` (render thread), assembly jobs on a pool, `drainToGpu` (render thread), fences (GPU) | a slot passes between three actors; wakeups come only from `enqueue` and the drain | no slot is rewritten while it is copied, every brick is uploaded once |
| **GpuBrickCache** | slots, free list, brick-to-slot map, sparse page tables with dirty flags, their copies in textures | `seedEmpties`, `markEmpty`, `touch`, upload, `syncPageTables`, all on the render thread | four indexes updated one after another; a tile pool that may run out; textures lag mirrors | indexes agree, a frame never reads another brick's voxels, coarse levels stay, oldest goes first |
| **WorkingSetPlanner** | grid sizes | `plan` | grids rounded up twice, whole subtrees pruned, a cap on requests | nothing that could be seen is left out |
| **VolumeManifest** (`data/`), **tools/svmanifest** | table of the chunks' ranges; the scan's shared vector and counters | a parallel scan writes it, level by level; `load`, `at`, pruning | rows raced for past the end, workers counted down, a file read before it is whole | a chunk's entry never hides data it holds |
| **SurfaceMask** | blocks of marked cells, presence per level | `build` on eight tasks while the main thread waits, `upload` in a frame | integer splits of the rows, partial blocks merged, levels halved and rounded | the whole shell is marked, and present at every level by `build()`'s own halving |
| **vtkScrollVolumeMapper** | GL objects; two request buffers with fences | `Render`, `ReadFeedback`, `TakeFeedbackRequests`, the shader's walk | the GPU is frames behind and the CPU never waits for it; requests are dropped, replaced, lost | the CPU reads only what no frame writes; a ray gets its bricks in the end |
| **vtkScrollSurfaceMapper** | GL objects | `Render` | shares the brick pool's textures; used by nobody | draws what GpuBrickCache published |
| **ViewerWindow** (`app/`) | `uploadQueue_`, `queuedKeys_`, tick counters, `streamingActive_`, all the objects above | `openVolume`, `loadOverlay`, `pumpStreaming` (timer), `preRenderUpload` (callback), `updateSurfaceStreaming`, `runSegmentation` (thread), destructor | several submitters share one pipeline; the timer stops itself; a detached thread; order of destruction | every visible brick arrives while the viewer is open; nothing freezes it; closing ends |
| **Snic3D** (`data/`) | labels, clusters, bucketed queue | `snic3d`, `otsuThreshold` on the segmentation thread | distances shrink below the queue's cursor | a partition into connected clusters, and an end |
| **zarr/** (ArrayMeta, Codec, OmeMultiscale, OmeZarrVolume) | parsed metadata | parse, decode, chunk keys | formats | chunk arithmetic matches the format |
| **BrickKey**, **TifXyzSurface** (`data/`) | packed 64-bit key; points | `pack`; mesh loading | fields of fixed width | distinct bricks have distinct keys |
| **SurfaceWindow**, **core/** Log, Profiling, ByteBuffer, Result; build files, tests | - | - | - | - |

`PROJECT.json` lists the components with their status and, under `hazards`,
each place in the code where something can go wrong that a test would hardly reach,
with the property that watches it.

## 2. Modules and the code

A module has one action per operation, handler or step.  An action that takes the
mutex contains the whole critical section; work the code does outside of it is an
action of its own, because other threads can run in between.  Where a definition
is preceded by a variant named in the module's header (for instance
`RequestedWhileFetching` before `Requested`), the variant is a plausible mistake used to
show that a property would notice it; no behaviour uses it.

**FetchPipeline** - `data/ChunkFetchPipeline.cpp`, driven by
`ViewerWindow::pumpStreaming`.  `tracked`, `heap`, the counters and `ready` are the
members of those names.  `Plan` is the caller's residency check, outside the lock,
and `Submit` the locked submit; `DrainReady`, `UnpinRam` and `UnpinBytes` are the two
halves of a release; `FetchDone` is the store's callback (dropped, delivered, or late
on a destroyed pipeline); `DecodeStart/Fail/Insert/Publish` a decode job; and
`BeginDestroy/CallbacksDone/PoolJoined` the destructor.  `Pump` is the loop at the
end of each handler.  The heap is a set of (key, priority) entries; the order among
equal priorities and what the RAM cache evicts are free choices; bytes are counted in
bricks.  **MCFetchLive** adds the fairness and a history variable.

**BrickDelivery** - what the pipeline promises its user, as an abstract
specification of one record variable: the stage of each brick, how many submits left
it out while it was queued, which reads were told to stop, and what was handed over.
The mapping is at the end of FetchPipeline.

**ViewerStreaming** - `app/ViewerWindow.cpp`: `pumpStreaming`, `preRenderUpload` and
the prefetch of `openVolume`, for the main volume and the overlay, which share
`ramCache_`, `uploadQueue_` and `queuedKeys_`.  A tick that plans is two actions,
`Plan` (residency and RAM are read) and `Submit` (both submits and the decision
whether to go on), followed by `Frame`, the render callback; decodes and assembly
workers run in between.  `Repaint` is a frame without a plan.  The pipelines are two
instances of BrickDelivery; the rings and GPU caches are reduced to what
GpuUploader and GpuBrickCache are shown to do: a ring counts how often each brick
waits, is ready or is being copied, and a cache is a set of bricks with a coarse
order of age.  `scene` picks what is looked at: views, empty bricks, prefetched ones,
room in RAM.

**StoreContract** - `store/ChunkStore.h`: what a store promises, as an abstract
specification: each callback once, Cancelled only when told to stop or closed.

**HttpStore** - `store/HttpStore.cpp`: `pc` is where the curl thread is in `loop()`:
admitting, checking stop tokens, reaping, waiting, and emptying its queues at the end.
libcurl and the server are a choice of a status for each transfer.  Callbacks of
requests stopped before they start are called under the mutex, so the model assumes
that a callback does not read from the same store; the viewer's do not.

**DiskCache** - `store/DiskCacheStore.cpp`, for one key.  A file is the set of units
written to it, so that truncation, holes and two writers of one temporary file are
visible.  `setup` picks the installation: which viewer each read belongs to, whether
there is a transcoder, and whether viewers are killed, the disk fills or files are
removed.

**LruCache** - `core/LruCache.h` as `data/RamCache.h` uses it; one action per operation.

**GpuUploader** - `render/GpuUploader.cpp`: `Enqueue`, the assembly job (`StartJob`,
`Take`, `FinishAssembly`, `EndJob`), the drain (`BeginDrain`, `Recycle`, `SelectBatch`,
`UploadBatch`), `initialize()` as its two assignments (`MapBuffer`, `AssignSlots`),
and `GpuFinishes`.  The copy a fence covers is pending until the GPU has finished it;
a slot rewritten meanwhile reads as torn.

**GpuBrickCache** - `render/GpuBrickCache.cpp` with the order of calls that
`openVolume` and `vtkScrollVolumeMapper::Render` fix.  **BrickResidency** is its
abstraction: a flat page table, a pool, and a copy that the shaders see.  `Taken` is the
number of tiles that other levels already hold: with 0 there are tiles enough
(`TilesSuffice`), with more the pool runs out in the middle of an upload.

**RayFeedback** - `render/vtkScrollVolumeMapper.cpp`, the request buffers of
`Render` (both ends of a frame), `ReadFeedback`, `ReleaseGraphicsResources` and
`TakeFeedbackRequests`, and the part of the fragment shader that walks the page
tables.  `Ask` is one ray: the fallback from the level wanted to the first level the
tables know (`Walk`), the jump over what is empty or below the window, and the one
request it makes.  `Retire` is the GPU finishing its oldest frame; a fence is the
number of frames still to retire before it signals.

**WorkingSetPlanner**, **ManifestScan** - `render/WorkingSetPlanner.cpp`,
`data/VolumeManifest.cpp` and `tools/svmanifest_main.cpp`.  The first is the planner's
walk (`Visit` takes one brick off its stack) and the manifest's parser and lookups as
operators on a volume with one axis; the second the tool's scan (`TakeRow`, `ScanRow`, `FinishJob`, `WriteLevel`), and
`PlanWith`, the viewer that loads the file as far as it is written and plans with it.

**SurfaceMask** - `render/SurfaceMask.cpp` with its callers in ViewerWindow:
`Rebuild`, one `SweepBand` per task, `EndBuild` (merge, then presence per level) and
`UploadMask` in the next frame.  How the shader looks the presence up is not modelled.

**BrickAssembly** - `render/BrickAssembler.cpp` over LruCache: decode threads insert and
hand over bricks while workers look up the neighbours of others, one at a time.

**Segmentation** - `ViewerWindow::runSegmentation` and `data/Snic3D.cpp`: the click, the
chunks read one by one, Otsu's threshold, the seeds, the flood through the bucketed
queue (one `Flood` per popped entry), and the clusters posted back.

**ViewerLifetime** - `core/ThreadPool.cpp`, `readMetaSync`, the order of ViewerWindow's
members, and the jobs of the I/O pool: a read, an eviction (which owns its store),
an encoding (which has a bare pointer to it), a band of the mask.  `main` is where
the main thread is, and `joiner` who runs `~ThreadPool`.

**FetchPipelineProofs**, **HttpStoreProofs**, **DiskCacheProofs**, **GpuBrickCacheProofs**,
**ViewerStreamingProofs** (with RayFeedback), **CachesProofs** (LruCache, BrickAssembly,
SurfaceMask, ManifestScan with WorkingSetPlanner, and MCCaches), **ThreadsProofs**
(GpuUploader, Segmentation, ViewerLifetime, and MCThreads) - the theorems (section 5), and
**DataLemmas**, what several of them need of numbers, sequences and recursive functions.

The `MC*` modules name instances.  **MCCaches** and **MCThreads** put several modules
into one run: the parts share no variable (but for the RAM cache, which `ram` and
`borders` both use), so a behaviour chooses one of them
(`part`) at the start, runs it, and the others keep their initial states; their
fairness is that of each part while it is the one that runs.

## 3. What is checked

| Run | Question | Instance | Result |
|---|---|---|---|
| `fetch_safe` | Do the counters, the dedupe map, the heap and the caps stay consistent under every interleaving of submits, callbacks, decodes, releases and the destructor? | 3 keys, 2 priorities, 2 decode threads, caps 2/1/2, 2 submits, symmetric keys and threads | holds |
| `fetch_live` | Does the pipeline implement BrickDelivery, is the last plan delivered, does the destructor return? | 2 keys, 2 priorities, 1 decode thread, caps 1/1/1, 3 submits | holds |
| `fetch_teardown` | May every issued read's callback finish (`ChunkFetchPipeline.cpp:37-39`)? | 2 keys | **no** |
| `disk` | Whole entries, absence, contract, answers | 2-3 reads of a 2-unit object in five installations | holds |
| `disk_full` | Are corrupt entries refetched (`DiskCacheStore.h:37-38`)? | one viewer, full disk | **no** |
| `viewer` | Does the streaming loop come to rest, and is everything in view shown and nothing on its way when it does? | 2 bricks and 1 of the overlay, six scenes, 2 camera moves, 1 failing read, rings of 2 slots, GPU caches of 1, RAM for 1 or 2, quiet streak of 2 | holds |
| `viewer_prefetch` | Are the prefetched levels there when the loop rests (`ViewerWindow.cpp:1022-1026`)? | 1 brick in view, 1 prefetched, room for both | **no** |
| `caches` | gpu: voxels drawn, agreement of the four indexes, eviction, sparse tables implement flat ones. ram: bytes and pins under any calls. borders: seams. manifest: nothing lost between the scan, the file and the plan. mask: the whole shell marked, and present at every level in the bricks that halving the index leads to. All five: variables in their types, counters exact | gpu: 2 tiles of 2 bricks, 2 slots, tiles enough and too few, 2 frames. ram: 3 keys, sizes 1-2, budget 3. borders: 2 bricks, 2 workers. manifest: 10 voxels, chunks of 2, 3 levels, 2 scan jobs, 2 volumes, 4 views, caps 2 and none. mask: 4 surfaces, 3 slabs, 3 tasks, 3 levels | holds |
| `threads` | http: one owner and one answer per read, prompt cancellation, contract, shutdown. upload: ring, fences, wakeups. segment: the partition, and its end. window: whoever waits is released. All four: variables in their types, counters exact | http: 2 reads, 1 stream, 2 retries. upload: 3 bricks, 2 slots, 2 workers, queue of 2. segment: 3 scrolls of 5 x 2 voxels, 2 buckets, 2 clicks. window: pool of 2, 2 bands | holds |
| `feedback` | Does the CPU read only retired buffers, and does every ray get what it can show? | 2 rays over 2 cells, 2 levels, a buffer of 1 request, GPU up to 3 frames behind, 1 release | holds |
| `feedback_starves` | Are requests harvested "next time" (`vtkScrollVolumeMapper.cpp:160-161`)? | as above, the GPU never catching up | **no** |
| `window_close` | Are the pool's threads joined before the rest dies (`ThreadPool.h:38`)? | pool of 2 | **no** |

**Why the bounds are enough.**  In `fetch_safe` each cap can be reached by two
threads at once while a third key waits, and two submits make a key current,
superseded and resubmitted.  A key is abandoned only after two newer submits, hence
three in `fetch_live`.  One stream for two reads makes fresh requests and retries
compete, and two retries tell the first from the last.  An object of two units can
be empty, cut short, holed or whole.  Two slots and three bricks make the uploader's
ring and queue overflow.  Two tiles of two bricks let one brick of a tile arrive
beside an empty one, and let the tile pool run out between two tiles; two frames
make one brick older than another.  A brick with one neighbour meets each order of
two workers, and the RAM cache holds one brick beside a pinned one.  A grid of five
chunks is rounded up twice; a cap of two cuts a plan in the middle.  Rows that three
tasks cannot share evenly (one, three, four and five of them) and a hole exercise the
mask's splits.  A scroll of two rows lets two clusters meet on more than one side.  With
three frames in flight a buffer is written again while its older frame is under way.
In `viewer`, one place in RAM and on the GPU for two bricks makes each displace the other before it is uploaded; a
re-feed queue of one and a ring that takes two make the queue reject; two moves turn
the camera away and back.  What the scenes leave out: more bricks in view than the GPU
cache holds (the loop would not rest; `ViewerWindow.cpp:527-528` gives the pool
headroom against that), and a re-feed queue longer than the ring's queue (256 against
4096 in the code).

**Fairness.**  `fetch_live`: the store answers every read (HttpStore's
`EveryReadAnswered`: transfers have a timeout and attempts are bounded), decode
threads run, and the UI timer keeps calling `pumpStreaming`, which finishes the
submit it planned and renders while bricks are ready.  New plans and closing the
viewer are never forced, nor is success.  `disk`: the io pool runs and the inner store
answers.  `viewer`: the timer plans again and again although repaints keep coming
between (strong fairness), a tick and a frame run to their end, and for each brick
stores answer, decodes end and workers assemble.  `threads`: the curl thread runs and
every transfer ends in some status, since it has a timeout (strong fairness, as other
transfers end between); frames are drawn, workers run and the GPU signals fences; the
segmentation thread and the pool's workers run, and the main thread finishes what it
has begun to close.  Nobody is forced to read, stop, enqueue, click or close.
`feedback`: frames are drawn and planned, the GPU retires them, and of the bricks
asked for again and again some arrive (strong, since reads may fail in between).
`RaysGetTheirBricks` also assumes that the GPU catches up with the CPU now and then
(`CatchesUp`: again and again no frame is under way).  The code does not force that;
`feedback_starves` shows what happens without it.  The numbers of reads, submits and
bricks are finite, so the runs say nothing of starvation under endless load; there is
some (below).

**Deadlock** is checked in `fetch_safe`, `fetch_live` and `feedback`; in the other runs
all reads being done, a loop at rest or a window closed is a legitimate end.

## 4. Where the code and its comments disagree

1. `fetch_teardown`: `~ChunkFetchPipeline` waits until no callback is pending and then
   joins the decode pool, but a decode job that is still running ends in `pump()`,
   which may issue a read.  Nothing waits for its callback.
2. `viewer_prefetch`: `openVolume` submits whole coarse levels so that "orbiting a cold
   remote volume never pops", to the pipeline the streaming loop uses.  The loop's
   first submit names only what the view misses: it stops the prefetch reads in flight,
   and its second one lets the queued ones be dropped.  They are fetched when they come
   into view, like any other brick.
3. `disk_full`: the result of `fclose` is not looked at, and nothing calls
   `invalidate()`: a short entry is served in this session and all later ones.
4. `feedback_starves`: `ReadFeedback` leaves a buffer that is not retired "for the next
   harvest".  But the buffer it looks at is the previous frame's, and the next frame
   writes that one again and replaces its fence.  If the GPU has not finished a frame
   whenever the next one is issued, no fence is ever seen signaled: nothing is
   harvested, and rays stay with coarse bricks, until the GPU catches up.
5. `window_close`: the eviction job holds the last reference to its store when the
   window closes meanwhile, and the store the last one to the pool: `~ThreadPool` then
   runs on one of its own threads, which cannot join itself.

Seen while modelling, and not kept as runs:

- An encode job (`DiskCacheStore.cpp:129`) has a bare pointer to its store, and `ioPool_`
  is declared before `store_` and outlives it: a job still queued when the window closes
  runs on a destroyed store (`crashed` in ViewerLifetime).
- `runSegmentation` is detached and uses members of the window; nothing waits for it when
  the window closes.  For volumes of 16-bit voxels it copies the raw bytes as if they
  were 8-bit voxels.
- "Patched when neighbors arrive" (`BrickAssembler.h:15-16`): nothing assembles a brick
  again while it is on the GPU, so the clamped side of a seam stays (`OneSidedSeams` is
  what does hold).
- A request's brick coordinates are packed in 10 bits each: grids of more than 1024 bricks
  would alias.  Requests harvested on a frame between two plans are replaced by the next
  harvest.  The jitter that decimates requests is static per pixel, although
  `vtkScrollVolumeMapper.cpp:558-561` has every pixel ask "over a few frames".
- Pruning by the manifest assumes that a coarse chunk's maximum is at least that of the
  chunks below it, which a pyramid made by averaging need not satisfy; at the cap of 4096
  requests the descent stops, last pushed first.
- `build()` takes a brick of a coarser level to be the one with half the index
  (`SurfaceMask.cpp:155`); the shader takes a ray to be in brick
  `floor(p * levelShape / chunkDim)`, with a level's size rounded up
  (`vtkScrollVolumeMapper.cpp:588-589`, `:1467-1471`).  Where that size is not an exact part
  of the volume's, the two differ near the bricks' ends: of 257 voxels in chunks of 128,
  voxel 255 is marked in brick 0 of level 1 and looked up in brick 1 (255.5 / 257 * 129 is
  128.2).  With only the shell shown, a ray that finds level 1 there jumps over the shell
  (`:818-822`).  `MaskIsWhole` says nothing of the shader's brick.
- `surfaceWindow_` is never constructed, so `vtkScrollSurfaceMapper` is not used; nothing
  calls `SurfaceMask::releaseGraphicsResources` or `GpuUploader::release`.
- `DiskCacheStore::runEviction` runs once, when a volume is opened, although
  `DiskCacheStore.h:35` says periodically.
- Two viewers on one cache directory share `target + ".tmp"` (`DiskCacheStore.cpp:19`):
  the second `fopen` truncates what the first is about to rename, and a third read in
  that moment takes it for a hit, although `:36-37` calls a concurrent writer's copy "as
  good as ours".  Once both are done the entry is whole (`EntriesWhole` in `BytesAreWhole`).
- A key published between the residency check and the submit
  (`ViewerWindow.cpp:1176`, `:1187`) is fetched again; inserting it resets the pin count
  (`LruCache.h:41-46`), so the first `unpin` leaves the second ready brick unpinned, while
  `ChunkFetchPipeline.h:26` says "pinned in RamCache until unpin()".
- "Keys mirror the deque for dedup" (`ViewerWindow.h:144-145`): `queuedKeys_` is cleared
  whenever the main ring is idle, while `uploadQueue_` may hold bricks (the overlay's
  ring was full) and the overlay's ring may too; such bricks are queued and uploaded
  twice.  `IdleIsDone` and `Converges` hold all the same.
- `convergedTicks_` is not reset when the loop stops: after the first time it stops
  again after one quiet tick, not the streak of 40 that `ViewerWindow.cpp:1255-1263`
  explains.
- `updateSurfaceStreaming` submits the bricks of a surface once; what has not been
  started two submits later is dropped, as for the prefetch.
- `HttpStore.cpp:150-160` empties the active set and `pending_` at shutdown, "fail
  everything still in flight or queued", but not the retry queue.
- `ChunkFetchPipeline.h:50` says that requests absent from a newer epoch are dropped
  before IO; `kStaleWindow = 1` lets one newer submit pass.  `h:48-49` says that stale
  heap entries are re-pushed when popped; the code pushes at submit and drops on pop.
- `GpuBrickCache.cpp:38-42` caps the tile pool that the comment calls enough for every
  tile.  When it is exhausted, `uploadFromBoundPbo` still gives the brick a slot:
  `isResident()` says true and the shaders never find it (`caches` includes this
  case; `OneIndex` is claimed with tiles enough).
- A brick enqueued on the uploader before `initialize()` is taken by no one until the
  next enqueue; the overlay does so (`ViewerWindow.cpp:1323` and `:1340`).  The
  uploader's liveness is therefore claimed once a brick was enqueued afterwards (`late`).
- `LruCache::insert` may evict what it inserts and then returns another entry's value;
  only unpinned inserts do, which `RamCache` never makes.
- A `NotFound` is cached in a `.miss` file that never expires, while
  `tests/store_tests.cpp:108` says "not cached".
- Fresh requests are admitted before retries, and low ring slots drained before high
  ones: under endless load a retry, or a slot, can wait for ever.

## 5. What is proved

The theorems hold for every value of the constants, from the modules' named
assumptions only: finite sets of keys, caps of at least one, for GpuBrickCache
that a tile has room for a brick (`Offsets # {}`; `kTileDim` is 16,
`GpuBrickCache.h:39`), and for SurfaceMask that a level's grid is at most half the finer
one's, rounded up (`MaskAssumption`), as it is when each level's size is the finer one's
halved, rounded up or down.  The planner's theorem takes for granted, as the code does
(`WorkingSetPlanner.cpp:144-145`: "children of an empty region are empty too"), that what
could be seen in a brick could be seen in the coarser brick over it (`VolumesAssumption`): a pyramid
that averages dark and bright voxels breaks it, and the planner then loses bricks.
`SegAssumption` says that a level and its chunks have voxels and a seed's step is at least 1,
which `std::max(2, ...)` at `Snic3D.cpp:63` grants.

`FetchPipelineProofs` has two inductive invariants and a refinement.

- `TypeCorrect`, `CountersCorrect`, `NoDuplicateWork`, `QueuedKeyReachable`,
  `NeverStalls`, `WorkIsBounded`.  None of these is inductive by itself: a counter stays
  exact only if a key has one job and one read, and a pump owes its caller something only
  if the counters are exact.  The invariant `IInv` is their conjunction.  All handlers end
  in the same loop, so the argument goes through one lemma, `PumpLemma`: from a state that
  satisfies `PumpPre` (exact counters, every queued key with a current entry) a pump leads
  to one that satisfies `PumpPost`, whichever entries it pops and however far it gets.
  Each handler's lemma shows that what it does before the pump establishes `PumpPre`;
  `LeaveState` and `EnterState` do the counting of keys that change state.
- `HighestPriorityFirst`: whichever handler pumps, what it starts is never of a lower
  priority than what it leaves queued.  The entries a pump pops are a prefix of the heap's
  order, and the invariant gives each queued key an entry at its latest priority.
- `PinsAreExact`: `HandedOver` says what the caller holds - the map stays in step with the
  epochs, and each brick's pins in RAM are those of the ready list and of the releases
  under way.  It is inductive only together with `IInv`.
- `PipelineDelivers`: FetchPipeline refines BrickDelivery, one handler at a time.  `Seen`
  says what a stage is in terms of the map, `PromisedParts` takes a step of the abstract
  record apart into one claim per brick, and `NextDelivers` puts the handlers together.
  The abstract promise that something moves whenever something can (`Awake`) is where the
  invariants are needed: somebody owes a pump, or the exact counts leave no room.

`HttpStoreProofs`: `EachReadHasOneOwner`, `ServerLoadBounded`, `CancellationIsPrompt`,
and `StoreImplementsContract`: HttpStore refines StoreContract.  Here `IInv` adds to
the properties where the curl thread is (`Positions`: which queues may be non-empty,
what has been checked in this pass) and how attempts relate to the queues.
`ServerLoadBounded` is stated here only; no run checks it.

`DiskCacheProofs`: `CallersGetWholeBytes`, `AbsenceIsLearnt`, and `CacheIsAStore`: DiskCache
refines StoreContract, for any number of readers, viewers and units.  `DInv` adds that
nothing is written for a read before its bytes have come (`WritersRun`), that where no
viewer is killed and the disk has room a file in use is whole or whoever emptied it last
is still writing (`Covered`), and that with one viewer, no transcoder and room on the disk
the one writer there can be never touches the entry itself (`SingleWriter`).

`ViewerStreamingProofs`: `LoopStopsWhenDone` and `PoolsNeverOverflow`.  That an idle loop
has nothing left to do follows from knowing at each moment who will bring a wanted brick
further: the pipeline has it, or a queue has it, or the plan of this tick does
(`KeysAccountedFor`, `PlanHolds`), and a pipeline with something to do is awake
(`PipelinesAwake`, which the refinement of BrickDelivery justifies).

Of RayFeedback, `SignaledMeansRetired` and `CpuNeverRacesGpu`.  `FencesGuard` is
inductive once the buffers' numbers are known: the fence kept for a buffer is always
behind every frame in flight that writes it, because a new frame goes behind all
others.  The action property follows from it in one step.

`GpuBrickCacheProofs`: `IndexesAgree`, `DrawsOwnBricks`, `OldestGoes`, and
`CacheKeepsItsPromise`: the sparse page tables refine the flat ones of BrickResidency.  The
four indexes are updated one after another within an upload, so `CInv` says it piece by
piece: two levels share no tile (`TablesApart`), a texture differs from its mirror only
where the mirror is marked dirty (`MirrorsTracked`), a slot's voxels are those
of the brick it names (`PoolFilled`), slots, free list and map agree (`SlotsAgree`), what a
table says of a brick is its slot (`EntriesAgree`), and with tiles enough no brick that has a slot is missing from the tables (`NoHoles`).

`CachesProofs`: `LruTyped`, `BudgetHolds`, `SeamsAreOneSided`, `MaskTyped`,
`ShellIsWhole`, `ScanTyped`, `PlansAreLossless` and `CachesTyped`.  What a recursive function computes is shown along its
steps, with `UpTo` (DataLemmas), which takes a set instead of an operator and rests on the
least element of a set of naturals.

- `BudgetHolds`: `LruInv` says that the list has each key once and that `bytesUsed_` is the
  sum of its entries, which makes it the sum after the next operation too; `EvictIs`
  follows `evictLocked` from the end of the list and says what it may take.
- `SeamsAreOneSided`: a brick is handed over after it is in the RAM cache
  (`CameThroughCache`), so the later of two neighbours finds the earlier or a drop
  explains it; while both are under way `NeverBoth` says that not both can have looked and
  found nothing.
- `ShellIsWhole`: the bands cover all rows although eight does not divide them
  (`BandsCover`); what a task has swept is its band's cells until they are merged
  (`BandsSwept`, `MaskBuilt`); and a place halved and cut off at the grid level by level
  is the place in the finest grid divided and cut off once (`HalvesAgree`), so no
  level lacks the brick that halving leads to from a marked cell (`PresenceCovers`), nor
  has one outside its grid (`PresenceFits`, for `MaskTyped`).  The shader's rounding is
  another matter (section 4).
- `PlansAreLossless` goes through three arguments.  About the grid: halving a coordinate
  leads into the coarser grid however often sizes are rounded up (`ParentIs`, `ChildIs`),
  and a brick in view has its parent in view (`ParentInView`).  About the planner's walk,
  along its steps: what has come off the stack or is on it never repeats, so it is over
  after as many steps as there are bricks (`PlanEnds`); each brick that passes is listed,
  resident or cut off; its children are on the stack or were visited (`Exploring`).  Then
  every wanted brick is visited, from the coarsest level down (`WantedIsVisited`).  About
  the tool: `ScanInv` says that each row of a level is computed, held by a worker or not
  yet taken, and that no worker is done before all rows are taken
  (`RowsAccounted`), so a level written is whole, and a file, read whenever, is no
  manifest or one that calls nothing invisible that could show (`FileIsSound`).  As
  `RowsAccounted` also says that `running` counts the workers not yet done, the same
  invariant gives `ScanTyped`: the count never passes zero.
- `CachesTyped` is about the run of all parts: `PartsRunEach` shows that a behaviour of it is
  one of GpuBrickCache, ManifestScan and SurfaceMask, so that their type theorems hold of it;
  the RAM cache and the assemblers, which share the cache, keep `SharedInv`.

`ThreadsProofs`:

- `UploaderTypeCorrect`, `CopiesAreWhole` and `NothingIsLost`.  The drain
  takes slots back by their fences and the GPU by its own queue, so `UInv` says that the
  GPU's batches are the last of the fenced ones (`GpuBehind`), that no two batches share a
  slot (`BatchesDisjoint`), and that a worker only writes a slot that says so (`OwnSlots`).
  For `NothingIsLost` (each brick is uploaded once or still waits in one place) `OnePlace`
  says that a brick is in the queue, with a worker or in a ready slot, and in one of them
  only; it needs to know that no slot is in use before the ring exists (`RingAtRest`).
- `FloodIsExact`: while the flood runs, what waits in the queue is material beside its cluster or
  the cluster's seed (`WaitingReached`), a seed waits until it is in a cluster (`SeedsWait`),
  and the material beside labelled material is labelled or waits (`Frontier`).  An empty queue
  then leaves a labelled set that has its own neighbours, hence exactly what the seeds
  reach.  Connection is "in every set that has its own neighbours" (`Spread`), so that a
  cluster stays connected when one voxel beside it joins (`SpreadGrows`) without an
  induction over paths.  Nothing is behind the cursor (`NoneBehind`) because `push()` clamps to
  it, whatever the distances.  `OtsuIs` follows the threshold from split to split: it always
  leaves voxels above it, unless all are 0.
- `WaitsAreAnswered`: what the main thread still waits for is the number of jobs, queued and
  running, that owe an answer, and of reads passed on to the remote, one for one; since the
  main thread closes only when nothing is owed (`LifetimeInv`), the jobs that die with the
  pool owe none.  This is stated here only; no run checks it.
- `FloodTypeCorrect` and `WindowTypeCorrect`: the labels and the queue of a segmentation
  name its clusters at all times, and the window's jobs and answers stay in their types.
- `ThreadsTyped`: as `CachesTyped`, for the parts of `threads`, which share nothing.

Only model-checked:

- Liveness, and everything that rests on fairness, is out of the prover's reach:
  `LatestDelivered`, `DestructorReturns`, `EveryReadAnswered`, `Converges`,
  `CloseReturns`, `EveryBrickUploaded`, `SegmentationEnds`, `WindowGoesOn` and
  `RaysGetTheirBricks`.
- What a coarser level of a real volume keeps (`VolumesAssumption`) is not derived from a
  downsampling, and the variances that Otsu's method compares (`FartherApart`) are left
  opaque in the proof: it holds whichever of two splits the code prefers.

Every other property of a passing run is proved for all values of the constants.

## 6. What is not modelled

The table of components in `PROJECT.json` has the reasons.  In short: floating-point
geometry (frustum tests, cone tracing, TifXyz, the transcoder's transform), shading,
parsing, Qt widgets, the budget of the disk cache, and `updateSurfaceStreaming`, which
submits once per surface to the pipeline that ViewerStreaming models.  Space has one
axis in ManifestScan, SurfaceMask and BrickAssembly and two in Segmentation: what can go
wrong there (rounding, splitting, order) goes wrong along one axis, except the
neighbours of a flooded voxel.  In the modelled parts: bytes per brick, wall-clock time
and back-off delays (a retry may be admitted at any later pass), memory order within a
critical section, and torn reads of the vector that `GpuUploader::initialize()` assigns.

## 7. What could follow

`updateSurfaceStreaming` and views larger than the GPU cache in ViewerStreaming; the order of
a plan's requests, and pyramids that average, in ManifestScan.

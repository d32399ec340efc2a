# A verification of the video manager service

TLA+ models of the service in this repository (`src/src`), the TLC runs that check them and
theorems about them that TLAPS checks. Paths below are relative to the repository; line numbers
are those of the commit the models were written from.

The service receives a video as numbered blocks, puts the blocks together, starts an ffmpeg
process that cuts the video into DASH segments, and serves lists of videos and segments. It is
built on userver: requests are coroutines, and everything below may interleave at every lock,
file operation and database statement.

## 1. Inventory

| Component | State it keeps | Operations | Talks to |
|---|---|---|---|
| `UploadHandler` (POST /api/upload) | none | refuses bad requests with 400, else `push_block` | `UploadController` |
| `UploadControllerImpl` | `builders_` (map from upload to owned builder, mutex), the callback | `push_block` -> a task on fs-task-processor: get or create the builder, push, update, `is_ready`, build, delete, call back; `upload_callback`; `gc_task` (empty) | `ExpirationFileBuilder`, callback |
| `FileBuilder` (inside `ExpirationFileBuilder`) | digests of the blocks (shared mutex); part and result files in one directory | `push_block`, `is_ready`, `build`, `clear`, destructor | the file system |
| `ExpirationController` | an expiration time | `update`, `expired` (never called) | - |
| `DashConvertComponent` | owns the convert controller; gives the upload controller a callback that captures `this` | constructor | both controllers |
| `ConvertControllerImpl` | queue (mutex), condition variable, `stop_` (atomic), worker task | `enqueue`, the worker's loop, destructor | `ConvertConfig`, process starter |
| `ConvertConfig` | one argument vector | `apply` patches two paths into it | - |
| `UploadAccessor` (POST /api/access) | none | inserts a row, answers its id as upload token | Postgres |
| `VideosTakeHandler` (GET /api/videos) | none | selects all rows | Postgres |
| `StreamHandler` (GET /api/playback) | a client of the file cache | looks a file up | `FsCache` (userver) |
| `OptionsHandler` | none | CORS headers | - |
| `main` and the component list | which components exist | start, stop | userver's component manager |

How they interact: a client gets a token from `UploadAccessor`, posts the blocks to
`UploadHandler`; the task that records the last block builds the file and calls the callback;
the callback enqueues; the worker starts ffmpeg and does not wait for it; `StreamHandler` serves
what ffmpeg wrote from a snapshot of the output directories that `FsCache` refreshes periodically.
Shared state: `builders_`, each builder's digests, the directory `k_default_build_dir` (parts
and results of all uploads), the conversion queue, the table of videos.

What is hard here: the builder is used through a raw pointer outside the lock that protects the
map; completeness is checked and acted on in two steps; digests in memory stand for files on
disk although writes may fail and processes die; names of files are concatenated numbers;
shutdown sets a flag without the mutex of the condition it notifies. `PROJECT.json` lists the
hazards line by line.

What makes each part correct:

* upload controller: an entry of the map is a live builder of that upload; a builder is destroyed
  once; a complete upload is built by somebody; no task uses a destroyed builder;
* file builder: a recorded digest means the block is on disk; the result is all blocks in order;
  parts and results do not overwrite each other; parts do not outlive their upload;
* convert controller: each video enqueued is started once, in order; the worker never sleeps
  on work and leaves only when told and when the queue is empty; the destructor ends;
* components: an upload that completes finds its callback, and the callback a live component; an
  orderly exit has started every completed upload; the worker's process starter outlives it;
* catalog: a token names one video of one client; a client sees what it has registered; a video
  nobody can upload to is one whose answer was lost;
* the whole: what viewers get comes from whole uploads, with the length announced; what could be
  played stays; a video whose last block was answered with 200 can be played in the end.

## 2. Modules

| Module | What it is |
|---|---|
| `PartNames` | the file names of `FileBuilder` as the numbers their digits spell |
| `FileBuilder` | the builder object (digests) and writing at an offset of a file |
| `UploadController` | the state machine of requests, tasks, builders, files and crashes |
| `UploadProperties` | its properties and inductive invariants |
| `UploadPromise` | abstract: blocks are received, the file is built when none is missing, the blocks are given up, the video is delivered |
| `ConversionQueue` | abstract: videos wait in a queue and start in order, once |
| `ConvertController` | the state machine of `enqueue`, the worker and the destructor |
| `ConvertProperties` | its properties; the refinement mapping to `ConversionQueue` |
| `VideoService` | composition: `UploadPromise`, the callback, `ConversionQueue`, ffmpeg, the output directories, `FsCache`, `StreamHandler`, crashes |
| `ServiceProperties` | its properties and inductive invariant |
| `ServiceLifecycle` | component registration, configuration, construction, the callback, serving, destruction; the `ConvertController` of `dash-converter` inside |
| `VideoCatalog` | the handlers of the table of videos over a master and a replica |
| `MCUpload`, `MCConvert`, `MCService`, `MCLifecycle`, `MCCatalog` | instances for TLC |
| `PartNamesProofs`, `UploadProofs`, `SerialProofs`, `PromiseProofs` | theorems about the upload side |
| `ConvertProofs`, `ServiceProofs`, `LifecycleProofs`, `CatalogProofs` | theorems about the other parts |

`UploadController` EXTENDS `FileBuilder`, which EXTENDS `PartNames`; `ConvertProperties`
INSTANCEs `ConversionQueue`, `UploadProperties` INSTANCEs `UploadPromise`, and `VideoService`
composes the two abstract specifications that the detailed ones are shown to implement.
`ServiceLifecycle` INSTANCEs `ConvertProperties`, so that the actions of `ConvertController` are
conjuncts of its own. Operators that a comment calls "a bug to catch" are deliberate
mutations of the definition that follows them; the properties are shown to fail with them.

### Upload side

One member of `Tasks` is one POST with its fs task. Its `pc` walks through `async_push`
(`UploadControllerImpl.cpp:40-54`): `get` (get_file_builder, one step under the lock), `compare`
(get_hash_if_need_write), `open`/`write` (write_block), `record` (update_block_hash), `touch`
(update), `check` (is_ready), `build`/`copy` (build, one turn of the loop per step), `erase`
(the locked part of delete_file_builder), `clear` (the destructor, one part file per step),
`notify` (the callback). Each step is one locked section or one operation on one file.

`object` holds the builder objects by the task that created them, so that `ptr` (the raw
pointer), `builders` (the owner in the map) and `target` (the local `unique_ptr` of
delete_file_builder) are references; `freed` has the objects whose memory is gone. `disk` maps a
file name to its blocks. `fd` is the file an open stream writes to; removing a file detaches the
streams open on it. `Crash` loses everything but `disk`.

Faults (constant `Faults`, all off unless a run switches them on): `workspace` (the builder's
constructor throws), `open` (the part file does not open: an exception), `write` (the part write
fails: unnoticed), `result` (the result file does not open: unnoticed), `remove` (errors that
`clear` swallows). A part that is missing makes `build` throw whether or not faults are on.

Abstractions, and why they are enough:

* A digest is the content itself (no collisions of SHA-256). A block is one unit of a file.
* The read of a part and its append to the result are one step: nothing between
  `file_size` and `write` touches another variable, and a part being rewritten or removed at that
  moment is covered by the orders of whole steps, except for a size taken before and content
  read after a truncation.
* A failure of a write to the result is not a step of its own; it has the effect of the fault
  `result` (what is written is lost).
* A failed assertion, and the use of a released builder, abort the process (`Abort`): the debug
  build, with assertions and sanitizers. In the release build a released builder may also read
  as before, so other steps stay possible; an access past the digest vector is not modelled.
* Requests refused before `push_block` are one outcome. `vid` is an id that POST /api/access
  has given out; the service does not check it against the table.
* `PartNames` is bounded to block numbers of four digits (`PowersOfTen`): 9999 blocks of the
  25 MB a request may have.
* Cancellation of a handler whose client disconnects is not modelled.

The client is a parameter: `Overlap` (are requests of one upload in flight together), `Resend`
(is a block posted again never, after a failure, or at will) and `Requests`. Two kinds matter.
Any client at all is what the inductive invariant `IInv` holds for. A `ProperClient` posts the
blocks of an upload one after the other, numbers them up to one total, and uses uploads whose
names do not collide; for it the code keeps everything `UploadPromise` says, and section 3 shows
what happens to clients that miss one of the three.

`UploadPromise` is what such a client sees: `received` (the blocks), `file` (the result),
`stage` and `delivered`. The mapping (end of `UploadProperties`): a block is received when its
digest is recorded; the stage is `building` while a task copies into an open result, `blind`
when the result could not be opened, `built` between build and delete, `due` from the delete to
the callback. Part files, pointers, streams, retries and the removal of parts are stutters.

### Conversion side

`Enqueue`/`NotifyEnqueued` are the two halves of `enqueue`; the worker's `pc` is where it is in its
loop, the mutex is held exactly in `Locked` = test, wait, take. `Wait` has two steps, because the
predicate is evaluated before the task joins the waiters, and `SetStop`/`NotifyStopped`, which take
no mutex, may come in between; `missed` is a history variable for a `NotifyAll` of the destructor
that did. `command` is the argument vector of `ConvertConfig`, which `Apply` changes at its two
places and leaves so for the next video (the options of the streams and those of the DASH muxer are
a word each). Nothing in the class keeps `enqueue` from being called while the destructor waits, so
it may be; `promised` counts what had been enqueued before. `create_directory` and `Exec` may always
throw (`ConvertionFails`): the worker ends and the destructor's `Get` rethrows.

### From upload to viewer

`VideoService` takes the uploads from `UploadPromise` and the conversions from `ConversionQueue`:
the actions of the two abstract modules are conjuncts of its own, joined where the code joins
them. `Callback` is `Deliver` and `Add` in one step (the callback runs in the upload's task);
`Convert` starts an ffmpeg `process` nobody waits for (`Start`); a worker that dies (`Fail`)
leaves what waits in the queue. The queue is in memory: `Crash` empties it, and ffmpeg processes
may survive it or not.

External, modelled from how the code uses them: ffmpeg reads its source once and puts the
segments and then the manifest in the directory it was given, or exits at once when there is no
source; its argument `-y` (`ConvertConfig.cpp:154`) makes it overwrite what an earlier conversion
left; `FsCache` reads the files of the directories one by one (`ReadFile`) and replaces its
snapshot at once (`Publish`); the snapshot of a start is complete before anything is served.
What a client posts is a video ffmpeg can read, and the file cache is registered with an
update period (the lines in comments in `main.cpp:31` and `static_config.yaml:93-95`).
`convertion` makes the directory and does not empty it, so `out` keeps what it had.
`HandleStreamRequest` is one lookup, `NotFound` the 404 and `PushBodyChunk` the answer, which
uses the file handed out by the lookup.

`excused` is a history variable with the videos for which something named came in the way, all of
them things the code does not handle: a crash before the conversion was over; a result that could
not be opened and was delivered all the same; a conversion that waits for a worker that died;
a video built again while its last conversion was waiting or running. The properties promise
nothing more about those (except that what could be viewed stays, `ObjectsStay`).

The directory and the objects of a video are named by its id here: the code cuts the file name at
its last dot (`find_last_of('.')`), and a numeric name has none. The semaphore of the worker
(`max_simultaneous_locks` 2) is a local of one turn of its loop and limits nothing, so it has no
state.

### Components and catalog

`ServiceLifecycle` has the components of `main.cpp` and those of userver they look up by
`FindComponent`; `Uncommented` says whether the commented registration of the file cache is
taken in, `Config` which options `static_config.yaml` gives, which have to be those of the schemas
(`Configured`), `MayThrow` which constructors may fail for other reasons. The order of destruction
and the end of requests before it are userver's and are assumed.

The start and the end of `dash-converter` are several steps. `MakeController` is the part of its
constructor that makes the `ConvertController`: from then on its worker runs (`Work`), although the
constructor may yet give up while it looks for the upload processor (`BeginDestroy` of a component
that is `made`). `RegisterCallback` hands the callback over. When the component goes, the destructor
of the controller runs step by step (`BeginDestroy`, `DestructorStep`): it waits for the worker, for
ever if its `NotifyAll` was missed, and an exception of a conversion leaves it and ends the process
(`terminated`). The callback is never taken back: the upload controller, which `upload-processor` and
`video-uploader` share, keeps the address of the component after its end. That nobody calls it then
rests on the requests being drained first.

`VideoCatalog` models the two statements with the ways they fail: refused for a field that is
missing, failed, or committed with the answer lost (`lost`). The database (a master, a replica that
lags, a sequence that never goes back) is external. Rows that are neither answered nor uploaded to
remain: the code has no cleanup, and `OrphansAreLostAnswers` says where they come from.

## 3. Runs

| Run | Result | Instance and what it shows |
|---|---|---|
| `serial` | passes | 4 tasks; uploads 2 (two blocks, the first may be edited) and 3 (one block), a bad request; one request per upload in flight, retries of failures, part files that do not open and a workspace that is missing, one crash. The inductive invariant of the files; no use of a destroyed builder, no broken build, block numbers in range, a skipped block is on disk, digests agree with the disk, a published file stays a complete video, parts do not outlive their upload; and all steps are steps of `UploadPromise` or stutters. 279,343 states. |
| `parallel` | passes | 3 tasks post the 3 blocks of a video at once. Digests agree with the disk; a completely accepted upload reaches the converter. |
| `chaos` | passes | 3 tasks, files of one and two blocks under one token, in parallel, retries, all faults, one crash. The inductive invariant; the map never dangles; no double destruction; no missed completion. |
| `parallel_result` | violation | 2 blocks at once: both tasks build; the published file is truncated. |
| `shared_token_index` | violation | a second, longer file under the same token reaches `assert` in `FileBuilder.cpp:66`. |
| `lost_write` | violation | a digest is recorded for a block that was not written. |
| `colliding_names` | violation | the result of upload 11 is part 1 of upload 1. |
| `convert` | passes | 3 producers, 2 videos, enqueueing before and during destruction, conversions that throw, with fairness. The inductive invariant; nothing lost or reordered, no missed wake-up, what was enqueued before destruction is started before the worker leaves; implements `ConversionQueue`, its fairness included; the destructor hangs for no other reason than a `NotifyAll` that fell between predicate and wait (`OnlyAMissedWakeupHangs`), and ends otherwise. 28,625 states. |
| `service` | passes | 1 video of two or three blocks, uploaded up to twice, one crash, ffmpeg processes of both uploads, with fairness. The inductive invariant; a directory holds one conversion of a whole upload; answers are whole and as long as announced; nothing that could be viewed disappears; a delivered video is never forgotten, and the version in its directory is the last one (`NotForgotten`); a manifest that is visible gets its segments; a delivered video becomes playable or is excused. 201,370 states. |
| `lifecycle` | passes | The file cache registered; database, upload processor or converter may fail to start; 2 requests, 2 videos, conversions that throw, with fairness. The inductive invariant; whoever completes an upload finds callback and component there and the controller's destructor not begun; when the service has exited ffmpeg was started for every completed upload; the process starter is there as long as the worker runs; the service comes up, and once it stops it exits, is ended by the exception of a failed conversion, or hangs on a missed `NotifyAll` - the code guarantees no more. 33,543 states. |
| `shipped_start` | violation | the service as committed cannot construct `stream-handler`. |
| `catalog` | passes | 2 clients, ids up to 2. The inductive invariant; tokens are unique, every list that is answered has what its client registered, a row without a token is one whose answer was lost. 107,778 states. |

Bounds: two tasks are what every race of the upload side needs (two at `check`, two at `erase`); the
third and fourth serve retries, a second builder, and a second upload. Two blocks distinguish first,
last and number of blocks; three exercise an inner turn. One crash suffices for what a restart
finds, since all memory is lost at each. Three producers and two videos allow a video in hand, one
queued and one arriving, and two equal videos. In `service` one video suffices for what happens to a
directory, since videos share only the queue and the worker; the second upload gives a second build,
a second conversion and a newer snapshot. An instance with two videos of one block was checked too
for the safety properties (775 thousand states; too slow with liveness to be kept). No video of
`service` has one block, so that the prefix of one block which a build leaves when it breaks is no
whole upload; lengths two and three are its two versions. With two different blocks instead the
safety properties were checked too (591,904 states; not kept). `Watched` bounds the videos viewers
ask for, `MaxUploads` the uploads begun, `MaxId` the ids of `catalog`. Deadlock is not checked where
a run ends by itself (all tasks finished, service exited).

### Fairness

* Upload: weak fairness of each task's steps. fs-task-processor runs every ready task, and no
  step waits for anything but short critical sections, which are single steps.
* Conversion: weak fairness of the worker, of each `NotifyAll` after an `emplace`, and of the
  destructor once it has begun. `Enqueue` and `SetStop` may never come.
* Service: weak fairness of each upload's task once every block is there, of the worker, of the
  refresh of `FsCache` (a periodic task), of answering, and of each ffmpeg process (the operating
  system runs it). Clients, viewers, crashes and failures are under no fairness; that the worker
  may throw instead of starting a conversion is one of its steps.
* `UploadPromise` and the catalog are safety only.
* Lifecycle: weak fairness of the component manager, of the worker, and of the task of each request.

### What the violations say

1. **Completion is check-then-act** (`UploadControllerImpl.cpp:48-52`). `is_ready` and what
   follows are not atomic, so two tasks may both build. The same race makes the second use a
   builder the first has destroyed (property `NoUseAfterFree` holds in `serial` only).
   The properties of `serial` are what the code promises a client that waits for each answer.
2. **A token's number of blocks is that of its first request** (`:63-65`).
3. **A failed part write is remembered as done** (`FileBuilder.cpp:102`, `:41`).
4. **Names of different uploads collide** (`FileBuilder.cpp:50`, `:96`).
5. **The committed configuration does not start** (`main.cpp:31`, `StreamHandler.cpp:17`).

Three more limits of the code are stated in the properties rather than found by runs. The destructor
of the convert controller may wait for ever if its `NotifyAll` falls between predicate and wait:
`ShutdownEnds` and `Ends` let it, and `OnlyAMissedWakeupHangs` shows it to be the only way. Blocks
posted again after the build leave a builder that is never collected. What `excused` stands for
(section 2) is the third: after a result that could not be opened, for a worker that died, after a
crash, and for a video built again while its last conversion runs, the service properties promise
only `ObjectsStay`. The runs show that nothing else goes wrong, not that these do not.

The tests in `tests/test_basic.py` post to `/v1/hello`. Nothing builds `hello.cpp` or calls its
`AppendHello`, so the service has no such handler; it is not modelled.

## 4. Proofs

TLAPS checks, for every value of the constants that meets the named assumptions:

* `PartNamesProofs`: within one upload part names are distinct (`PartNamesInjective`) and
  differ from the result's (`ResultIsNotAPart`); across uploads they are not
  (`NamesCollideAcrossUploads`), but uploads whose ids lie within a factor of ten share no file
  (`SameWidthNamesApart`). The argument: the shift of a block number exceeds the number, so
  two numbers of equal width give names that differ by their difference, and a wider number
  gives a larger name.
* `UploadProofs`, any client, faults and crashes: `Spec => []IInv` (`Invariance`), and from it
  `TypeOK`, `MapNeverDangles`, `DestroyedOnce`, `NoLostCompletion`; and `RunsDown`
  (`RequestsRunDown`): each step of a task lowers its rank and nothing else raises it, so a
  request takes at most 120000 steps. With `~Overlap`, `NoUseAfterFree` (`SerialUploadsAreSafe`).
  With `ProperRequests`, `IndexInRange` (`NumbersInRange`).
* `UploadProofs`, a client that posts each block once, any number of them in flight (`PostsOnce`,
  `ProperRequests`): digests agree with the disk (`ParallelBlocksStored`, no unnoticed write
  failure); what has been answered in full has been delivered unless the process has died
  (`DeliveredBeforeAnswer`, any faults), and with one upload and no crash `CompleteUploadPublished`
  (`UploadReachesConverter`), even if tasks abort the process.
* `SerialProofs`: for a `ProperClient`, as long as no write of a part fails unnoticed,
  `Spec => []FilesInv` (`FilesInvariance`), whatever is retried, edited, fails to open or crashes.
  From it: digests agree with the disk, skipped blocks are there, no build breaks;
  a built file is whole when results can be opened (`ResultsAreWhole`); parts have an owner
  when they can be removed (`PartsAreOwned`). What has been published stays a complete video when
  results can be opened and either the service does not crash (`PublishedStaysIntact`) or,
  crashes included, the client does not post again what was answered with 200 and keeps some block
  of every video it edits (`PublishedSurvives`).
* `PromiseProofs`: for a `ProperClient`, as long as no write of a part fails unnoticed, the upload
  side implements `UploadPromise` (`UploadRefinement`).
* `ConvertProofs`: `Spec => []IInv`, from it `NothingLost`, `NoMissedWakeup`,
  `DrainedAtExit`, that the controller implements `ConversionQueue` (`Refinement`), that a
  worker which is awake with `stop_` set runs down to its end (`StoppedWorkerRunsDown`), and that
  the destructor hangs only on a missed `NotifyAll` (`HangsOnlyOnMissedNotify`).
* `ServiceProofs`: `Spec => []IInv` for any number of videos, uploads, processes and crashes, from
  it `ServedWhole`, `DirectoryIsOneConversion` and `ObjectsStay`; `NotForgotten`
  (`DeliveredIsKept`).
* `CatalogProofs`: `Spec => []IInv`, from it `TokensName` and `OrphansAreLostAnswers`
  (`OrphansExplained`), and `ReadsOwnWrites` of every list that is answered
  (`ClientsReadTheirWrites`).
* `LifecycleProofs`: `Spec => []IInv`, whichever constructors may throw, from it
  `CallbackReachesConverter`, `NothingLeftBehind` (`OrderlyExitLosesNothing`) and
  `WorkerKeepsItsStarter` (`StarterOutlivesWorker`); and that the service as committed never serves
  a request (`ShippedNeverServes`).

**Upload side, any client.** `IInv` is needed because the safety properties are not inductive:
that the map does not dangle rests on the pointers of tasks being to objects of their upload
(`PointerInv`), on objects being created only by tasks that have none (`CreatorInv`), on the
destructor owning what it destroys (`TargetInv`, `DestroyedOnce`), and that a completion is not
missed on block numbers staying within the vector (`NumberInv`). For serial clients
`HoldsTheMapsBuilder` adds that a task's pointer is the map's. There is one lemma per action and
under it one step per conjunct.

**Parallel posts.** The double build of section 3 destroys a builder and its files under the task
that builds second, so what survives it needs an argument about who uses what. `OnceInv` has it:
every digest of a builder was recorded in it by the one task of that block (`RecorderInv`), so a
complete builder has taken in every task of its upload (`AllRecorded`), and no task is left to
create another (`OneCompleteBuilder`) or to write a part that a destructor removes
(`OwnPartLeft`). `OnceFilesInv` adds that a part being written is the task's own and that a build
writes nothing but the result. `DeliveryInv` adds that a builder leaves the map complete
(`RemovedInv`), that it is the only one of its upload, and that a complete one has a task that
will deliver it, has been delivered, or was broken together with a request that is then not
answered with 200 (`CompletionInv`). `PostsOnce` excludes retries of failures too: a task whose
build breaks in that race is answered with an error, its block posted again creates a second
builder, and the destructor of the first may still be removing the part just written. It also
excludes crashes from `UploadReachesConverter`: after a crash the digests answered before it are
gone, and a client that does not post them again has a video that is never completed.

**Serial posts.** Names are kept apart (`PartsApart`, from `PartNamesInjective`,
`ResultIsNotAPart` and the client's uploads; `SameWidthClient` shows that ids with the same number
of digits suffice), so a step of a task touches only the files and the
builder of its own upload (`Frame`); what the invariant says of the others carries over
(`OthersKept`), and one lemma per action shows it for the upload itself. `FilesInv` adds to
`SerialInv` what the properties need to be inductive: a builder has the total of its upload
(`TotalsInv`), a part between its opening and the record of its digest belongs to the task that
writes it (`PartInv`), and the result has exactly the blocks before the loop's position
(`ResultInv`). `PromiseProofs` adds that with one task at a time that task decides the stage of
its upload, and takes each action to a step of `UploadPromise` or a stutter.

`PublishedSurvives` has to rule out that a delivered video is built a second time, since a crash
in the middle of that leaves a partial result under a published name. A second build needs every
block posted again; a client that keeps one block of the video, and does not post again what was
answered with 200, never does that. `SoleInv` follows this one block: its one post is what a
builder, a delivery in progress and a delivery have in common, so no later builder has it.
A client that edits every block of a video does build it twice (`KeepsSomeBlock`
is needed), and one that posts again at will does too.

**Conversion side.** `WaitInv` (a worker about to wait has seen an empty queue and has the
mutex), `StopInv` and `PromiseInv` strengthen the properties; the refinement maps the videos in
hand and in the queue to the abstract queue.

**Service.** The invariant says of every video that is not excused that its build has gone well
(`BuildInv`), that at most one conversion of it is waiting or running and its source does not
change meanwhile (`ConversionInv`), and that its directory changes from one whole conversion to
the next (`DirectoryInv`); `ServedInv` carries that through the snapshot to the answer.
`VersionInv` adds what `NotForgotten` needs: what ffmpeg has read is still the result file
(`ReadInv`), so that what it leaves is the last version. `NotForgotten` compares the directory
with the result only when no crash has happened, since a crash during a second build cuts the
result short while the directory rightly keeps the first version.

**Lifecycle.** The actions of the controller are those of `ConvertController`, so its invariant is
taken over from `ConvertProofs` by INSTANCE (`ConverterKept`), not proved again. `OwnerInv` says how
far the controller is when its component is anywhere between made and destroyed, `NeedsInv` that what
a constructor found is there, `DrainInv` that nothing is enqueued behind a worker that has left: with
it and `NothingLost` what was started at the exit is all that was completed.

**Catalog.** Ids come in order (`IdInv`), a row that waits to be answered is its client's own and
nobody's token (`OwnInv`), and what was seen stays and is in every list that is waited for
(`SeenInv`).

Assumptions: `BlocksAssumption`, `UploadAssumption`, `NoneIsNoBuilder`, `ConvertAssumption`,
`ServiceAssumption`, `LifecycleAssumption`, `CatalogAssumption` - types of constants and that
`None` is none of the values it stands apart from. TLC evaluates them. `ProperClient`,
`PostsOnce`, `OneUpload` and the restrictions on `Faults` and `MaxRestarts` are hypotheses of the
theorems that need them; the instance of `serial` meets those of `SerialProofs` (but for
`MaxRestarts = 0` of `PublishedStaysIntact`; it is an instance of `PublishedSurvives`), the
instance of `parallel` those about parallel posts.

Only model-checked, because it needs ENABLED and fairness: `ShutdownEnds`, `ImplementsFairQueue`,
`StartsUp`, `Ends`, `SnapshotCompletes`, `DeliveredIsPlayable`. Their safety halves are proved where
they say something: `RunsDown` (nothing but a task that is not run keeps a request from its answer),
`ShutdownRunsDown`, `OnlyAMissedWakeupHangs`, `NotForgotten`, `ShippedNeverServes`.
`CompleteUploadPublished` is the one liveness property that needs no fairness: what it promises has
happened before the last block is answered. `RunsDown`, `ShutdownRunsDown`, `BuildFaithful` and
`PushedIsPublished` are properties of theorems only; TLC was run on them, and on `DeliveryInv`, with
instances of `parallel` with one crash (with faults, or with two uploads: up to 3 million states),
which are not kept as runs.

## 5. Not modelled

* `OptionsHandler` but for its registration (three headers, no state), `hello.*` (neither built nor
  registered), build, deployment and tests.
* The encoding options in `ConvertConfig` (constants that no code reads), tags in the schema,
  logging, CORS headers and other formatting.
* `ExpirationController::expired` and `gc_task`: nothing calls the one and the other is empty.
* What ffmpeg does with a file that is no video, and a file it reads while it is being rewritten
  beyond what is said of `excused`; overlapping reads of `FsCache` within one file.
* The upload side in full and the conversion side in full in one state space: `VideoService`
  composes what they are shown to implement, for clients that post one block at a time. For
  other clients the violations of section 3 stand.
* Cancellation of a request by a client that disconnects: whether userver cancels the handler
  inside `push_block`, and what the abandoned task may still do, is not visible in this code.

## 6. Plan

The order of work was: upload side (most state, most hazards), conversion, lifecycle, catalog,
the abstract upload and its refinement, the composition, then the proofs of each. What is left:

1. `DeliveredBeforeAnswer` for clients that post again after a failure: retries are what
   `PostsOnce` excludes, and for them the statement needs the race of the double build named.
2. The refinement of `UploadPromise` for parallel clients, up to the double build.
3. Cancellation of a request by its client, as a further fault of `UploadController`.

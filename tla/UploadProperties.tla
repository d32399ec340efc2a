-------------------------- MODULE UploadProperties --------------------------
(***************************************************************************)
(* What the upload side promises, as properties of UploadController.       *)
(* Which of them hold depends on the client: on whether the blocks of one  *)
(* upload are in flight together and on when a block is posted again.      *)
(***************************************************************************)
EXTENDS UploadController, Functions

\* Type correctness of every variable of the upload side.
TypeOK ==
  /\ pc \in [Tasks -> {"idle"} \cup Running \cup Finished]
  /\ req \in [Tasks -> Requests \cup {None}]
  /\ builders \in [Uids -> Tasks \cup {None}]
  /\ object \in [Tasks -> BuilderObjects \cup {None}]
  /\ freed \in SUBSET Tasks
  /\ ptr \in [Tasks -> Tasks \cup {None}]
  /\ target \in [Tasks -> Tasks \cup {None}]
  /\ pos \in [Tasks -> Nat]
  /\ offset \in [Tasks -> Nat]
  /\ fd \in [Tasks -> Files \cup {None}]
  /\ disk \in [Files -> Content \cup {None}]
  /\ published \in Seq(Uids)
  /\ restarts \in Nat

-----------------------------------------------------------------------------
(* The builders_ map and the objects it owns.                              *)

\* The map never points to a builder that has been, or is being, destroyed:
\* get_file_builder hands out an object of the right upload, and only the
\* task that moved a builder out of the map destroys it.
MapNeverDangles ==
  \A u \in Uids : builders[u] # None =>
    /\ builders[u] \notin freed
    /\ object[builders[u]] # None /\ object[builders[u]].uid = u
    /\ \A t \in Tasks : pc[t] = "clear" => target[t] # builders[u]

\* Two tasks never destroy the same builder: the second of two tasks that
\* call delete_file_builder finds the entry gone.
DestroyedOnce ==
  /\ \A t \in Tasks : pc[t] = "clear" => target[t] \notin freed
  /\ \A s, t \in Tasks :
       pc[s] = "clear" /\ pc[t] = "clear" /\ s # t => target[s] # target[t]

\* No task uses a builder after another task has destroyed it: the pointer
\* get_file_builder returned under the lock is used without it.
NoUseAfterFree ==
  \A t \in Tasks : pc[t] \in UsesBuilder => ptr[t] \notin freed

\* A block's number is in the range of the vector of its builder, as the
\* assertions of FileBuilder say.
IndexInRange ==
  \A t \in Tasks : pc[t] \in {"compare", "record"} =>
    req[t].idx \in 1 .. Builder(t).total

-----------------------------------------------------------------------------
(* Completion.                                                             *)

\* Tasks that will see that their builder is ready, or have seen it.
Completing == {"touch", "check", "build", "copy", "erase", "broken"}

\* The last block is never missed: a builder in the map whose blocks all have
\* digests has a task that is on its way to build it (or whose build threw).
\* With is_ready checked before the digest is recorded, two tasks could each
\* miss the other's block and the upload would never complete.
NoLostCompletion ==
  \A u \in Uids : builders[u] # None /\ IsReady(object[builders[u]]) =>
    \E t \in Tasks : ptr[t] = builders[u] /\ pc[t] \in Completing

\* build never finds a part missing.
NoBrokenBuild == \A t \in Tasks : pc[t] # "broken"

-----------------------------------------------------------------------------
(* The digests in memory and the files on disk.                            *)

\* A task of upload u is at one of these steps.
Busy(u, steps) == \E t \in Tasks : pc[t] \in steps /\ Uid(t) = u

Rewriting(u, i) ==
  \E t \in Tasks : /\ pc[t] \in {"write", "record"}
                   /\ Uid(t) = u /\ req[t].idx = i

Stored(u) ==
  builders[u] # None =>
    LET b == object[builders[u]]
    IN  \A i \in 1 .. b.total :
          b.hash[i] # None /\ ~Rewriting(u, i) =>
            disk[PartName(u, i)] = <<b.hash[i]>>

\* A block with a digest in the builder of the map is on disk with exactly
\* that content, unless a task is rewriting it.
RecordedBlocksStored == \A u \in Uids : Stored(u)

\* "return new sha256 sum if block not exist or was updated": a block whose
\* write is skipped is on disk with the content posted.
SkippedBlockIsStored ==
  \A t \in Tasks :
    /\ pc[t] = "compare"
    /\ req[t].idx \in 1 .. Builder(t).total
    /\ ~NeedsWrite(Builder(t), req[t].idx, req[t].data)
    => disk[Part(t)] = <<req[t].data>>

\* When build returns, the result file holds every block the digests name.
BuildFaithful ==
  \A t \in Tasks : pc[t] = "erase" =>
    disk[ResultName(Uid(t))] = Assembled(Builder(t))

\* A file that is one of the videos the client posted for upload u.
IsVideo(u, file) ==
  \E r \in Requests :
    /\ r.uid = u /\ file # None /\ Len(file) = r.total
    /\ \A i \in 1 .. r.total :
         \E q \in Requests : q.uid = u /\ q.idx = i /\ q.data = file[i]

\* "build result file in directory": an upload handed to the converter has a
\* complete result file, except while it is being built again.
PublishedIntact ==
  \A u \in Range(published) :
    \/ \E t \in Tasks : pc[t] = "copy" /\ Uid(t) = u
    \/ IsVideo(u, disk[ResultName(u)])

\* A part file belongs to an upload in progress: to a builder of the map, or
\* to a builder whose destructor has yet to come to that block.  (A crash
\* leaves parts that nobody removes.)
PartsHaveOwner ==
  restarts = 0 => \A r \in Requests : \A i \in 1 .. r.total :
    disk[PartName(r.uid, i)] # None =>
      \/ builders[r.uid] # None
      \/ \E t \in Tasks : pc[t] = "clear" /\ Uid(t) = r.uid /\ pos[t] <= i

-----------------------------------------------------------------------------
(* Progress.                                                               *)

\* Every block of some video of u has been answered with 200.
AllPushed(u) ==
  \E r \in Requests :
    /\ r.uid = u /\ r.total # 0
    /\ \A i \in 1 .. r.total :
         \E t \in Tasks : /\ pc[t] = "ok" /\ Uid(t) = u
                          /\ req[t].idx = i /\ req[t].total = r.total

\* An upload all of whose blocks were answered with 200 reaches the converter.
CompleteUploadPublished ==
  \A u \in Uids : AllPushed(u) ~> (u \in Range(published))

\* How far a task is from its answer: the steps it has before it, where build
\* and the destructor have one for each block.
StepsLeft ==
  [get |-> 12, compare |-> 11, open |-> 10, write |-> 9, record |-> 8,
   touch |-> 7, check |-> 6, build |-> 5, copy |-> 4, erase |-> 3, clear |-> 2,
   notify |-> 1]

Rank(t) ==
  IF pc[t] \notin Running THEN 0
  ELSE 10000 * StepsLeft[pc[t]] - (IF pc[t] \in {"copy", "clear"} THEN pos[t] ELSE 0)

\* No request runs for ever: each step of its task brings the answer nearer,
\* and nothing another task does, nor a crash, takes it back.
RunsDown ==
  [][\A t \in Tasks : /\ Rank(t) \in Nat
                      /\ pc[t] \in Running => Rank(t)' <= Rank(t)
                      /\ Step(t) => Rank(t)' < Rank(t)]_vars

-----------------------------------------------------------------------------
(* The inductive invariant.                                                *)

\* The steps between get_file_builder and delete_file_builder.
Holding == UsesBuilder \cup {"write", "erase"}

\* A task serves a request that UploadHandler has let through.
RequestInv ==
  \A t \in Tasks : pc[t] \in Running =>
    req[t] \in Requests /\ req[t].total # 0 /\ req[t].idx # 0

\* A task creates at most one builder, and only in get_file_builder.
CreatorInv ==
  /\ \A t \in Tasks : pc[t] \in {"idle", "get"} => object[t] = None
  /\ \A t \in freed : object[t] # None

\* The pointer a task holds is to an object of its upload, released or not.
PointerInv ==
  \A t \in Tasks : pc[t] \in Holding =>
    ptr[t] \in Tasks /\ object[ptr[t]] # None /\ object[ptr[t]].uid = Uid(t)

\* The block numbers a task uses are those of its builder.
NumberInv ==
  \A t \in Tasks :
    /\ pc[t] \in {"open", "write", "record"} =>
         req[t].idx \in 1 .. Builder(t).total
    /\ pc[t] = "copy" => pos[t] \in 1 .. Builder(t).total

\* A builder under destruction is an object of its upload.
TargetInv ==
  \A t \in Tasks : pc[t] = "clear" =>
    /\ target[t] \in Tasks
    /\ object[target[t]] # None /\ object[target[t]].uid = Uid(t)
    /\ pos[t] \in 1 .. object[target[t]].total

\* A stream that has a file has one that exists.
StreamInv == \A t \in Tasks : fd[t] # None => disk[fd[t]] # None

IInv ==
  /\ TypeOK
  /\ RequestInv /\ CreatorInv /\ PointerInv /\ NumberInv /\ TargetInv
  /\ StreamInv
  /\ MapNeverDangles /\ DestroyedOnce /\ NoLostCompletion

\* With one request of an upload in flight at a time, a task between
\* get_file_builder and delete_file_builder holds the builder of the map.
OneAtATime ==
  \A s, t \in Tasks :
    pc[s] \in Running /\ pc[t] \in Running /\ Uid(s) = Uid(t) => s = t

HoldsTheMapsBuilder ==
  \A t \in Tasks : pc[t] \in Holding => ptr[t] = builders[Uid(t)]

SerialInv == IInv /\ OneAtATime /\ HoldsTheMapsBuilder

-----------------------------------------------------------------------------
(* The inductive invariant of the files, for a client that posts one block *)
(* at a time.                                                              *)

\* Such a client numbers the blocks of an upload from 1 to the total it says,
\* always the same, and no file of an upload has the name of another's.
ProperRequests ==
  \A q, r \in Requests :
    /\ r.total # 0 => r.idx <= r.total
    /\ q.uid = r.uid /\ q.total # 0 /\ r.total # 0 => q.total = r.total
    /\ q.uid # r.uid => \A i \in 1 .. q.total :
         /\ PartName(q.uid, i) # ResultName(r.uid)
         /\ \A j \in 1 .. r.total : PartName(q.uid, i) # PartName(r.uid, j)

ProperClient == ~Overlap /\ ProperRequests

\* A builder has as many blocks as its upload.
TotalsInv ==
  \A t \in Tasks : object[t] # None => \A r \in Requests :
    r.uid = object[t].uid /\ r.total # 0 => object[t].total = r.total

\* From its opening to the record of its digest, a part is the task's own.
PartInv(t) ==
  /\ pc[t] = "write"  => fd[t] = Part(t) /\ disk[Part(t)] = <<>>
  /\ pc[t] = "record" => disk[Part(t)] = <<req[t].data>>
  /\ pc[t] \notin {"write", "copy"} => fd[t] = None

\* The result file, when it could be opened, has the blocks up to offset; then
\* the builder is given up.
ResultInv(t) ==
  /\ pc[t] \in {"build", "copy", "erase"} => IsReady(Builder(t))
  /\ pc[t] = "copy" =>
       /\ offset[t] = pos[t] - 1
       /\ fd[t] \in {None, ResultName(Uid(t))}
       /\ fd[t] = None => "result" \in Faults
       /\ fd[t] # None => disk[ResultName(Uid(t))] =
                            [i \in 1 .. offset[t] |-> Builder(t).hash[i]]
  /\ pc[t] = "erase" /\ "result" \notin Faults =>
       disk[ResultName(Uid(t))] = Assembled(Builder(t))
  /\ pc[t] \in {"clear", "notify"} => builders[Uid(t)] = None

FilesInv ==
  /\ SerialInv /\ TotalsInv /\ NoBrokenBuild
  /\ \A t \in Tasks : PartInv(t) /\ ResultInv(t)
  /\ RecordedBlocksStored

\* Every digest is that of a block a client has posted for that upload.
PostedInv ==
  \A t \in Tasks : object[t] # None => \A i \in 1 .. object[t].total :
    object[t].hash[i] # None =>
      \E q \in Requests : /\ q.uid = object[t].uid /\ q.idx = i
                          /\ q.data = object[t].hash[i]

\* A result file is a video unless it is being built; it is there from the
\* first build on.
VideosInv ==
  /\ \A u \in Uids : disk[ResultName(u)] # None =>
       \/ \E t \in Tasks : pc[t] = "copy" /\ Uid(t) = u
       \/ IsVideo(u, disk[ResultName(u)])
  /\ \A u \in Range(published) : disk[ResultName(u)] # None
  /\ \A t \in Tasks : pc[t] \in {"erase", "clear", "notify"} =>
       disk[ResultName(Uid(t))] # None

-----------------------------------------------------------------------------
(* Clients that do not post again what has been answered with 200.         *)

\* UploadHandler lets the request through to push_block.
Accepted(r) == r.total # 0 /\ r.idx # 0

\* Two tasks serve the same request only if one of them has failed.
NoRepeatInv ==
  \A s, t \in Tasks : s # t /\ req[s] # None /\ req[s] = req[t] =>
    Resend = "failed" /\ (pc[s] \in Failure \/ pc[t] \in Failure)

\* The client has one version of the block that r posts.
Sole(r) ==
  /\ Accepted(r)
  /\ \A q \in Requests :
       Accepted(q) /\ q.uid = r.uid /\ q.idx = r.idx => q = r

\* A client that changes some blocks of a video, but never all of them.
KeepsSomeBlock ==
  \A q \in Requests : Accepted(q) =>
    \E r \in Requests : r.uid = q.uid /\ Sole(r)

\* The steps of a task that has recorded a digest, up to its answer.
Recorded == {"touch", "check", "build", "copy", "erase", "clear", "notify", "ok"}

\* The one post of such a block stands for the builders, and the deliveries,
\* that have it: no later builder of a delivered upload ever has the block.
HasSole(r) ==
  /\ builders[r.uid] # None
  /\ object[builders[r.uid]].hash[r.idx] # None

SoleInv ==
  \A r \in Requests : Sole(r) =>
    /\ HasSole(r) => \E s \in Tasks : req[s] = r /\ pc[s] \in Recorded
    /\ Busy(r.uid, {"clear", "notify"}) =>
         \E s \in Tasks : req[s] = r /\ pc[s] \in {"clear", "notify", "ok"}
    /\ r.uid \in Range(published) =>
         /\ \E s \in Tasks : req[s] = r /\ pc[s] = "ok"
         /\ ~HasSole(r) /\ ~Busy(r.uid, {"clear", "notify"})

\* What is about to be delivered, or has been, is a video.
DeliveredInv ==
  /\ \A t \in Tasks : pc[t] \in {"erase", "clear", "notify"} =>
       IsVideo(Uid(t), disk[ResultName(Uid(t))])
  /\ \A u \in Range(published) : IsVideo(u, disk[ResultName(u)])

-----------------------------------------------------------------------------
(* A client that posts every block of a video once, in any order and with  *)
(* as many requests in flight as it likes.                                 *)

PostsOnce ==
  /\ Resend = "never"
  /\ \A q, r \in Requests :
       Accepted(q) /\ Accepted(r) /\ q.uid = r.uid /\ q.idx = r.idx => q = r

\* The task that created a builder keeps the pointer to it.
OwnerInv ==
  \A x \in Tasks : object[x] # None =>
    /\ ptr[x] = x /\ req[x] \in Requests /\ Accepted(req[x])
    /\ object[x].uid = Uid(x)

\* The digests of a builder were recorded in it by the tasks of its blocks.
RecorderInv ==
  \A x \in Tasks : object[x] # None => \A i \in 1 .. object[x].total :
    object[x].hash[i] # None =>
      \E s \in Tasks : /\ ptr[s] = x /\ pc[s] \in Recorded \cup {"broken"}
                       /\ req[s] \in Requests /\ Accepted(req[s])
                       /\ Uid(s) = object[x].uid /\ req[s].idx = i

\* Only complete builders are built and destroyed.
BuiltInv ==
  \A t \in Tasks :
    /\ pc[t] \in {"build", "copy", "erase"} => IsReady(Builder(t))
    /\ pc[t] = "clear" => IsReady(object[target[t]])

OnceInv ==
  IInv /\ TotalsInv /\ NoRepeatInv /\ OwnerInv /\ RecorderInv /\ BuiltInv

\* A build writes nothing but the result.
CopyInv(t) == pc[t] = "copy" => fd[t] \in {None, ResultName(Uid(t))}

OnceFilesInv ==
  OnceInv /\ (\A t \in Tasks : PartInv(t) /\ CopyInv(t)) /\ RecordedBlocksStored

-----------------------------------------------------------------------------
(* What such a client is promised: its complete uploads are delivered.     *)

\* The process has died at least once: by a crash, or aborted by a task.
Died == restarts > 0 \/ \E t \in Tasks : pc[t] = "lost"

\* When the last block of a video is answered with 200 the video has been
\* handed to the converter, unless the process has died: it is delivered
\* before the answer, by the task of some block, whatever order the blocks
\* are recorded in and however many tasks find the upload complete.
PushedIsPublished ==
  Died \/ \A u \in Uids : AllPushed(u) => u \in Range(published)

\* A task that has recorded its digest did so in an object of its upload.
RecordedInv ==
  \A t \in Tasks : pc[t] \in Recorded \cup {"broken"} =>
    /\ req[t] \in Requests /\ Accepted(req[t])
    /\ ptr[t] \in Tasks /\ object[ptr[t]] # None
    /\ object[ptr[t]].uid = Uid(t)
    /\ object[ptr[t]].hash[req[t].idx] # None

\* A builder leaves the map complete, and no other takes its place.
RemovedInv ==
  \A x \in Tasks : object[x] # None =>
    builders[object[x].uid] = x \/ IsReady(object[x])

SoleBuilderInv ==
  \A x, y \in Tasks :
    object[x] # None /\ object[y] # None /\ object[x].uid = object[y].uid => x = y

\* A complete upload has a task that will deliver it, has delivered it, or
\* has failed; a failed one leaves its own block unanswered.
CompletionInv ==
  \A x \in Tasks : object[x] # None /\ IsReady(object[x]) =>
    \/ \E t \in Tasks : ptr[t] = x /\ pc[t] \in Completing \cup {"clear", "notify"}
    \/ object[x].uid \in Range(published)

DeliveryInv ==
  /\ OnceInv /\ RemovedInv /\ SoleBuilderInv
  /\ Died \/ (RecordedInv /\ CompletionInv)

\* A task that has passed UploadHandler's checks serves an accepted request.
AcceptedInv ==
  \A t \in Tasks : pc[t] \notin {"idle", "rejected"} =>
    req[t] \in Requests /\ Accepted(req[t])

\* The client uploads one video.
OneUpload == \A q, r \in Requests : q.uid = r.uid

-----------------------------------------------------------------------------
(* What a client that posts one block at a time is promised.               *)

\* The upload of u as the abstract specification sees it.
Received(u) == IF builders[u] = None THEN None ELSE object[builders[u]].hash

StageOf(u) ==
  IF Busy(u, {"copy"})
    THEN IF \E t \in Tasks : pc[t] = "copy" /\ Uid(t) = u /\ fd[t] = None
           THEN "blind" ELSE "building"
  ELSE IF Busy(u, {"erase"}) THEN "built"
  ELSE IF Busy(u, {"clear", "notify"}) THEN "due"
  ELSE "receiving"

Receipts == [u \in Uids |-> Received(u)]
Results  == [u \in Uids |-> disk[ResultName(u)]]
StageMap == [u \in Uids |-> StageOf(u)]

Promise == INSTANCE UploadPromise
  WITH Videos <- Uids, Lengths <- {r.total : r \in Requests} \ {0},
       received <- Receipts, file <- Results, stage <- StageMap,
       delivered <- published

\* The part files, pointers and streams come to what UploadPromise says: the
\* result file is written only when every block has been received since the
\* last build, or the last crash, in order and with the blocks received last,
\* and only then are the blocks given up and the video delivered.
ImplementsPromise == Promise!Spec

=============================================================================

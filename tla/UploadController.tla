-------------------------- MODULE UploadController --------------------------
(***************************************************************************)
(* The upload side of the service: UploadHandler hands every block of a    *)
(* multipart upload to UploadControllerImpl::push_block, which runs a task *)
(* on fs-task-processor.  The task finds or creates the FileBuilder of the *)
(* upload, writes the block to a part file, records its digest and, when   *)
(* every block has a digest, concatenates the parts into the result file,  *)
(* deletes the builder and calls the callback that enqueues a conversion.  *)
(*                                                                         *)
(* One task is one HTTP request.  A step of a task is a section that runs  *)
(* under one lock (builders_ or blocks_hashes_) or one operation on one    *)
(* file; between two steps other tasks run.  A builder is identified by    *)
(* the task that created it.                                               *)
(***************************************************************************)
EXTENDS FileBuilder, FiniteSets

CONSTANTS
  Tasks,        \* requests the service handles, one fs task each
  Requests,     \* what a client may post: [uid, total, idx, data]
  Overlap,      \* whether requests of one upload are in flight together
  Resend,       \* when a client posts a block again: never, failed, always
  Faults,       \* the file operations that may fail
  MaxRestarts   \* bound on the crashes of the process

ASSUME UploadAssumption ==
  /\ None \notin Tasks /\ None \notin Requests
  /\ \A r \in Requests :
       r \in [uid : VideoIds, total : {0} \cup BlockNumbers,
              idx : {0} \cup BlockNumbers, data : Blocks]
  /\ Overlap \in BOOLEAN
  /\ Resend \in {"never", "failed", "always"}
  /\ Faults \subseteq {"workspace", "open", "write", "result", "remove"}
  /\ MaxRestarts \in Nat

\* The builder objects there can be: each has the upload and the number of
\* blocks of the request that created it, and one digest or None per block.
BuilderObjects ==
  UNION {{[uid |-> r.uid, total |-> r.total, hash |-> h] :
            h \in [1 .. r.total -> Blocks \cup {None}]} :
         r \in {q \in Requests : q.total # 0}}

ASSUME NoneIsNoBuilder ==
  None \notin BuilderObjects /\ \A b \in BuilderObjects : b.hash # None

VARIABLES
  pc,         \* where each task is
  req,        \* the request it serves
  builders,   \* builders_: the builder of each upload
  object,     \* the builder objects, by the task that created them
  freed,      \* the builders whose memory has been released
  ptr,        \* the raw pointer get_file_builder returned to the task
  target,     \* delete_file_builder's unique_ptr to what it destroys
  pos,        \* the block number of build's and clear's loops
  offset,     \* build's write position in the result file
  fd,         \* the file a task's output stream writes to
  disk,       \* k_default_build_dir, the directory of parts and results
  published,  \* history: the uploads passed to on_constructed_callback_
  restarts    \* the crashes so far

task == <<req, ptr, target, pos, offset>>
heap == <<builders, object, freed>>
vars == <<pc, task, heap, fd, disk, published, restarts>>

-----------------------------------------------------------------------------
Uids  == {r.uid : r \in Requests}
Files == {ResultName(u) : u \in Uids} \cup
         UNION {{PartName(r.uid, i) : i \in 1 .. r.total} : r \in Requests}

Failure  == {"failed", "broken", "lost"}
Finished == {"ok", "rejected"} \cup Failure
Running  == {"get", "compare", "open", "write", "record", "touch", "check",
             "build", "copy", "erase", "clear", "notify"}

\* The steps that read or write the FileBuilder object through ptr.
UsesBuilder == {"compare", "open", "record", "touch", "check", "build", "copy"}

Uid(t)     == req[t].uid
Builder(t) == object[ptr[t]]
\* A bug to catch: a part named after the number of blocks.
LastPart(t) == PartName(Builder(t).uid, Builder(t).total)

Part(t)    == PartName(Builder(t).uid, req[t].idx)

Goto(t, from, to) == pc[t] = from /\ pc' = [pc EXCEPT ![t] = to]

Open(t, file) ==
  /\ disk' = [disk EXCEPT ![file] = <<>>]
  /\ fd'   = [fd EXCEPT ![t] = file]

Close(t) == fd' = [fd EXCEPT ![t] = None]

\* A write goes to the file the stream has open; it is lost when the stream
\* failed to open or the file has been unlinked since.
Write(t, at, blocks) ==
  disk' = IF fd[t] = None THEN disk
          ELSE [disk EXCEPT ![fd[t]] = WriteAt(@, at, blocks)]

-----------------------------------------------------------------------------
(* The client and UploadHandler.                                           *)

MayPost(r) ==
  /\ Overlap \/ \A s \in Tasks : pc[s] \in Running => Uid(s) # r.uid
  /\ \A s \in Tasks : req[s] = r =>
       \/ Resend = "always"
       \/ Resend = "failed" /\ pc[s] \in Failure

\* HandleRequestThrow answers 400 when a number is missing or zero (that is
\* what StrToSizeT yields for text that is not a number), else it pushes.
HandleRequest(t, r) ==
  /\ MayPost(r)
  /\ Goto(t, "idle", IF r.total = 0 \/ r.idx = 0 THEN "rejected" ELSE "get")
  /\ req' = [req EXCEPT ![t] = r]
  /\ UNCHANGED <<ptr, target, pos, offset, heap, fd, disk, published, restarts>>

-----------------------------------------------------------------------------
(* The task of async_push.                                                 *)

\* get_file_builder, under the lock on builders_.
GetFileBuilder(t) ==
  /\ Goto(t, "get", "compare")
  /\ \/ /\ builders[Uid(t)] = None
        /\ builders' = [builders EXCEPT ![Uid(t)] = t]
        /\ object'   = [object EXCEPT ![t] = NewBuilder(Uid(t), req[t].total)]
        /\ ptr'      = [ptr EXCEPT ![t] = t]
     \/ /\ builders[Uid(t)] # None
        /\ ptr' = [ptr EXCEPT ![t] = builders[Uid(t)]]
        /\ UNCHANGED <<builders, object>>
  /\ UNCHANGED <<req, target, pos, offset, freed, fd, disk, published, restarts>>

\* The constructor of ExpirationFileBuilder passes on what that of FileBuilder
\* throws when the directory is missing; the entry stays in the map with a null
\* pointer, as if it were absent.
GetFileBuilderFails(t) ==
  /\ "workspace" \in Faults
  /\ Goto(t, "get", "failed")
  /\ builders[Uid(t)] = None
  /\ UNCHANGED <<task, heap, fd, disk, published, restarts>>

\* A bug to catch: no assertion on the block number.
CompareUnchecked(t) ==
  /\ Goto(t, "compare", "open")
  /\ UNCHANGED <<task, heap, fd, disk, published, restarts>>

\* get_hash_if_need_write: assert on the index, then compare the digests
\* under the shared lock.  An equal digest ends FileBuilder::push_block.
Compare(t) ==
  /\ pc[t] = "compare" /\ req[t].idx \in 1 .. Builder(t).total
  /\ Goto(t, "compare", IF NeedsWrite(Builder(t), req[t].idx, req[t].data)
                        THEN "open" ELSE "touch")
  /\ UNCHANGED <<task, heap, fd, disk, published, restarts>>

\* write_block opens the part file, which creates or truncates it...
OpenPart(t) ==
  /\ Goto(t, "open", "write")
  /\ Open(t, Part(t))
  /\ UNCHANGED <<task, heap, published, restarts>>

\* ...and throws when it cannot.
OpenPartFails(t) ==
  /\ "open" \in Faults
  /\ Goto(t, "open", "failed")
  /\ UNCHANGED <<task, heap, fd, disk, published, restarts>>

\* write_block writes and closes.
WritePart(t) ==
  /\ Goto(t, "write", "record")
  /\ Write(t, 0, <<req[t].data>>)
  /\ Close(t)
  /\ UNCHANGED <<task, heap, published, restarts>>

\* Nobody looks at the state of the stream after the write.
WritePartFails(t) ==
  /\ "write" \in Faults
  /\ Goto(t, "write", "record")
  /\ Close(t)
  /\ UNCHANGED <<task, heap, disk, published, restarts>>

\* A bug to catch: completeness is judged before the digest is recorded.
RecordAfterCheck(t) ==
  /\ Goto(t, "record", IF IsReady(Builder(t)) THEN "touch" ELSE "ok")
  /\ object' = [object EXCEPT ![ptr[t]].hash[req[t].idx] = req[t].data]
  /\ UNCHANGED <<task, builders, freed, fd, disk, published, restarts>>

\* update_block_hash, under the exclusive lock.
UpdateBlockHash(t) ==
  /\ Goto(t, "record", "touch")
  /\ object' = [object EXCEPT ![ptr[t]].hash[req[t].idx] = req[t].data]
  /\ UNCHANGED <<task, builders, freed, fd, disk, published, restarts>>

\* ExpirationFileBuilder::update stores a later expiration time, which
\* nothing reads: gc_task is empty.
Touch(t) ==
  /\ Goto(t, "touch", "check")
  /\ UNCHANGED <<task, heap, fd, disk, published, restarts>>

\* is_ready, under the shared lock.
CheckReady(t) ==
  /\ Goto(t, "check", IF IsReady(Builder(t)) THEN "build" ELSE "ok")
  /\ UNCHANGED <<task, heap, fd, disk, published, restarts>>

\* build opens the result file, which creates or truncates it...
OpenResult(t) ==
  /\ Goto(t, "build", "copy")
  /\ Open(t, ResultName(Builder(t).uid))
  /\ pos'    = [pos EXCEPT ![t] = 1]
  /\ offset' = [offset EXCEPT ![t] = 0]
  /\ UNCHANGED <<req, ptr, target, heap, published, restarts>>

\* ...and goes on as if it were open when it is not.
OpenResultFails(t) ==
  /\ "result" \in Faults
  /\ Goto(t, "build", "copy")
  /\ pos'    = [pos EXCEPT ![t] = 1]
  /\ offset' = [offset EXCEPT ![t] = 0]
  /\ UNCHANGED <<req, ptr, target, heap, fd, disk, published, restarts>>

\* A bug to catch: build stops one block early.
CopyAllButLast(t) ==
  LET part == disk[PartName(Builder(t).uid, pos[t])]
      last == pos[t] >= Builder(t).total - 1
  IN  /\ Goto(t, "copy", IF last THEN "erase" ELSE "copy")
      /\ part # None
      /\ Write(t, offset[t], part)
      /\ offset' = [offset EXCEPT ![t] = @ + Len(part)]
      /\ pos'    = [pos EXCEPT ![t] = @ + 1]
      /\ fd'     = IF last THEN [fd EXCEPT ![t] = None] ELSE fd
      /\ UNCHANGED <<req, ptr, target, heap, published, restarts>>

\* One turn of build's loop: a part file is read and appended.
CopyBlock(t) ==
  LET part == disk[PartName(Builder(t).uid, pos[t])]
      last == pos[t] = Builder(t).total
  IN  /\ Goto(t, "copy", IF last THEN "erase" ELSE "copy")
      /\ part # None
      /\ Write(t, offset[t], part)
      /\ offset' = [offset EXCEPT ![t] = @ + Len(part)]
      /\ pos'    = [pos EXCEPT ![t] = @ + 1]
      /\ fd'     = IF last THEN [fd EXCEPT ![t] = None] ELSE fd
      /\ UNCHANGED <<req, ptr, target, heap, published, restarts>>

\* file_size throws when a part is missing; the builder stays in the map.
CopyBlockFails(t) ==
  /\ Goto(t, "copy", "broken")
  /\ disk[PartName(Builder(t).uid, pos[t])] = None
  /\ Close(t)
  /\ UNCHANGED <<task, heap, disk, published, restarts>>

\* A bug to catch: the builder is destroyed but its entry stays in the map.
DeleteKeepsEntry(t) ==
  /\ Goto(t, "erase", IF builders[Uid(t)] = None THEN "notify" ELSE "clear")
  /\ target' = [target EXCEPT ![t] = builders[Uid(t)]]
  /\ pos'    = [pos EXCEPT ![t] = 1]
  /\ UNCHANGED <<req, ptr, offset, heap, fd, disk, published, restarts>>

\* delete_file_builder, under the lock on builders_: whatever builder the map
\* holds for the upload, if any, is moved out and the entry erased.
DeleteFileBuilder(t) ==
  /\ Goto(t, "erase", IF builders[Uid(t)] = None THEN "notify" ELSE "clear")
  /\ target'   = [target EXCEPT ![t] = builders[Uid(t)]]
  /\ builders' = [builders EXCEPT ![Uid(t)] = None]
  /\ pos'      = [pos EXCEPT ![t] = 1]
  /\ UNCHANGED <<req, ptr, offset, object, freed, fd, disk, published, restarts>>

\* A bug to catch: clear leaves the last part.
ClearAllButLast(t) ==
  LET b    == object[target[t]]
      part == PartName(b.uid, pos[t])
      last == pos[t] = b.total
  IN  /\ Goto(t, "clear", IF last THEN "notify" ELSE "clear")
      /\ pos'   = [pos EXCEPT ![t] = @ + 1]
      /\ freed' = IF last THEN freed \cup {target[t]} ELSE freed
      /\ disk'  = IF last THEN disk ELSE [disk EXCEPT ![part] = None]
      /\ UNCHANGED <<req, ptr, target, offset, builders, object, fd, published,
                     restarts>>

\* The destructor, outside the lock: clear removes the part files one after
\* the other (streams open on a removed file lose it), then the memory of
\* the builder is released.  Errors of remove are swallowed.
ClearBlock(t) ==
  LET b    == object[target[t]]
      part == PartName(b.uid, pos[t])
      last == pos[t] = b.total
  IN  /\ Goto(t, "clear", IF last THEN "notify" ELSE "clear")
      /\ pos'   = [pos EXCEPT ![t] = @ + 1]
      /\ freed' = IF last THEN freed \cup {target[t]} ELSE freed
      /\ \/ /\ disk' = [disk EXCEPT ![part] = None]
            /\ fd' = [s \in Tasks |-> IF fd[s] = part THEN None ELSE fd[s]]
         \/ "remove" \in Faults /\ UNCHANGED <<disk, fd>>
      /\ UNCHANGED <<req, ptr, target, offset, builders, object, published,
                     restarts>>

\* on_constructed_callback_, then push_block returns and the answer is 200.
Notify(t) ==
  /\ Goto(t, "notify", "ok")
  /\ published' = Append(published, Uid(t))
  /\ UNCHANGED <<task, heap, fd, disk, restarts>>

-----------------------------------------------------------------------------
(* The process.  What it holds in memory is lost when it dies.             *)

ProcessDies ==
  /\ pc' = [t \in Tasks |-> IF pc[t] \in Running THEN "lost" ELSE pc[t]]
  /\ builders' = [u \in Uids |-> None]
  /\ object'   = [t \in Tasks |-> None]
  /\ freed'    = {}
  /\ ptr'      = [t \in Tasks |-> None]
  /\ target'   = [t \in Tasks |-> None]
  /\ fd'       = [t \in Tasks |-> None]
  /\ UNCHANGED <<req, pos, offset, disk, published>>

Crash == restarts < MaxRestarts /\ ProcessDies /\ restarts' = restarts + 1

\* A task fails the assertion on the block number, or uses a builder that has
\* been released: the sanitizers and assertions of the debug build abort.  (In
\* the release build a released builder may also still read as before, so the
\* other steps do not require that it is not in freed.)
Abort(t) ==
  /\ \/ pc[t] \in UsesBuilder /\ ptr[t] \in freed
     \/ pc[t] = "compare" /\ req[t].idx \notin 1 .. Builder(t).total
  /\ ProcessDies
  /\ UNCHANGED restarts

-----------------------------------------------------------------------------
Init ==
  /\ pc        = [t \in Tasks |-> "idle"]
  /\ req       = [t \in Tasks |-> None]
  /\ builders  = [u \in Uids |-> None]
  /\ object    = [t \in Tasks |-> None]
  /\ freed     = {}
  /\ ptr       = [t \in Tasks |-> None]
  /\ target    = [t \in Tasks |-> None]
  /\ pos       = [t \in Tasks |-> 0]
  /\ offset    = [t \in Tasks |-> 0]
  /\ fd        = [t \in Tasks |-> None]
  /\ disk      = [f \in Files |-> None]
  /\ published = <<>>
  /\ restarts  = 0

\* A step of the running task t.
Step(t) ==
  \/ GetFileBuilder(t) \/ GetFileBuilderFails(t)
  \/ Compare(t)
  \/ OpenPart(t) \/ OpenPartFails(t)
  \/ WritePart(t) \/ WritePartFails(t)
  \/ UpdateBlockHash(t)
  \/ Touch(t)
  \/ CheckReady(t)
  \/ OpenResult(t) \/ OpenResultFails(t)
  \/ CopyBlock(t) \/ CopyBlockFails(t)
  \/ DeleteFileBuilder(t)
  \/ ClearBlock(t)
  \/ Notify(t)
  \/ Abort(t)

Next ==
  \/ \E t \in Tasks, r \in Requests : HandleRequest(t, r)
  \/ \E t \in Tasks : Step(t)
  \/ Crash

Spec == Init /\ [][Next]_vars

\* fs-task-processor runs every task that is ready: weak fairness per task.
FairSpec == Spec /\ \A t \in Tasks : WF_vars(Step(t))

=============================================================================

---------------------------- MODULE VideoService ----------------------------
(***************************************************************************)
(* The way of a video through the service: from the upload (UploadPromise) *)
(* by the callback of DashConvertComponent to the queue (ConversionQueue), *)
(* to an ffmpeg process nobody waits for, to its output directory, to the  *)
(* snapshot of that directory which FsCache keeps, to StreamHandler.  The  *)
(* service may crash between any two steps; ffmpeg processes may outlive   *)
(* it.                                                                     *)
(*                                                                         *)
(* ffmpeg and FsCache are external: an ffmpeg process reads its source,    *)
(* puts the segments and then the manifest in place; FsCache reads the     *)
(* files one after the other and then replaces its snapshot at once.       *)
(***************************************************************************)
EXTENDS Naturals, Sequences, FiniteSets

CONSTANTS Videos, Blocks, Lengths, None,
          Watched,      \* bound on the videos that viewers watch
          MaxUploads,   \* bound on the uploads delivered or in progress
          MaxRestarts   \* bound on the crashes

ASSUME ServiceAssumption ==
  /\ None \notin Blocks /\ None \notin Seq(Blocks)
  /\ Lengths \subseteq Nat \ {0}
  /\ Watched \subseteq Videos
  /\ MaxUploads \in Nat /\ MaxRestarts \in Nat

Objects == {"segments", "manifest"}
Phases  == {"reading", "exited"} \cup Objects
Places  == Videos \X Objects
Viewed  == Watched \X Objects

VARIABLES
  received, file, stage, delivered,  \* the uploads, see UploadPromise
  pending, started, open,            \* the conversions, see ConversionQueue
  process,     \* the ffmpeg process of each conversion started
  out,         \* the output directories: what is at each place
  cache,       \* the snapshot StreamHandler looks into
  fresh,       \* the next snapshot, while it is being read
  unread,      \* the places still to be read for it
  request,     \* what StreamHandler has found for the viewer it serves
  reply,       \* the last answer: the length it announced, and its body
  restarts,    \* the crashes so far
  excused      \* history: the videos that something has come in the way of

Upload == INSTANCE UploadPromise
Queue  == INSTANCE ConversionQueue

uploads     == <<received, file, stage, delivered>>
conversions == <<pending, started, open, process>>
snapshot    == <<cache, fresh, unread>>
viewer      == <<request, reply>>
vars == <<uploads, conversions, out, snapshot, viewer, restarts, excused>>

Empty == [place \in Viewed |-> None]

Excuse(vs) == excused' = excused \cup vs

InProgress == {v \in Videos : received[v] # None \/ stage[v] # "receiving"}

\* Conversions of v that are waiting or running.
Running(v) == {p \in DOMAIN process : process[p].video = v /\ process[p].at # "exited"}
Unsettled(v) == Running(v) # {} \/ \E i \in DOMAIN pending : pending[i] = v

-----------------------------------------------------------------------------
(* Uploads.                                                                *)

\* A client posts blocks.
Post(v) ==
  /\ \E n \in Lengths :
       \/ /\ Len(delivered) + Cardinality(InProgress) < MaxUploads
          /\ Upload!Begin(v, n)
       \/ \E i \in 1 .. n, b \in Blocks : Upload!Store(v, i, b)
  /\ UNCHANGED <<conversions, out, snapshot, viewer, restarts, excused>>

\* The task of the last block builds the file.  Opening it may fail; when the
\* last conversion of the video is not over, it empties the file under it.
BuildStep(v) ==
  /\ Upload!Build(v)
  /\ Excuse(IF \/ stage'[v] = "blind"
               \/ stage[v] = "receiving" /\ Unsettled(v) THEN {v} ELSE {})
  /\ UNCHANGED <<conversions, out, snapshot, viewer, restarts>>

\* A bug to catch: nobody has registered the callback.
CallbackMissing(v) ==
  /\ Upload!Deliver(v)
  /\ UNCHANGED <<conversions, out, snapshot, viewer, restarts, excused>>

\* The callback: a delivered video is enqueued.  When the worker has died of
\* an earlier video nobody will ever take it.
Callback(v) ==
  /\ Upload!Deliver(v)
  /\ Queue!Add(v)
  /\ Excuse(IF open THEN {} ELSE {v})
  /\ UNCHANGED <<process, out, snapshot, viewer, restarts>>

-----------------------------------------------------------------------------
(* Conversions.                                                            *)

\* A bug to catch: the directory of the video is emptied first.
ConvertCleans ==
  /\ Queue!Start
  /\ process' = Append(process, [video |-> Head(pending), content |-> None,
                                 at |-> "reading"])
  /\ out' = [place \in Places |-> IF place[1] = Head(pending) THEN None
                                  ELSE out[place]]
  /\ UNCHANGED <<uploads, snapshot, viewer, restarts, excused>>

\* The worker starts ffmpeg for the first video that waits, whatever else is
\* still running.  The directory is created if need be and keeps what it has.
Convert ==
  /\ Queue!Start
  /\ process' = Append(process, [video |-> Head(pending), content |-> None,
                                 at |-> "reading"])
  /\ UNCHANGED <<uploads, out, snapshot, viewer, restarts, excused>>

\* An exception ends the worker: what waits, waits for ever.
ConvertFails ==
  /\ Queue!Fail
  /\ Excuse({pending[i] : i \in DOMAIN pending})
  /\ UNCHANGED <<uploads, process, out, snapshot, viewer, restarts>>

\* A bug to catch: without -y ffmpeg gives up when its output is there.
FfmpegKeepsOutput(p) ==
  LET v      == process[p].video
      source == IF out[<<v, "manifest">>] = None THEN file[v] ELSE None
  IN  /\ process[p].at = "reading"
      /\ process' = [process EXCEPT ![p] =
                       [video |-> v, content |-> source,
                        at |-> IF source = None THEN "exited" ELSE "segments"]]
      /\ UNCHANGED <<uploads, pending, started, open, out, snapshot, viewer,
                     restarts, excused>>

\* With -y ffmpeg overwrites what an earlier conversion has left.
FfmpegReads(p) ==
  LET v      == process[p].video
      source == file[v]
  IN  /\ process[p].at = "reading"
      /\ process' = [process EXCEPT ![p] =
                       [video |-> v, content |-> source,
                        at |-> IF source = None THEN "exited" ELSE "segments"]]
      /\ UNCHANGED <<uploads, pending, started, open, out, snapshot, viewer,
                     restarts, excused>>

FfmpegWrites(p) ==
  LET at == process[p].at
  IN  /\ at \in Objects
      /\ out' = [out EXCEPT ![<<process[p].video, at>>] =
                   process[p].content]
      /\ process' = [process EXCEPT ![p].at =
                       IF at = "segments" THEN "manifest" ELSE "exited"]
      /\ UNCHANGED <<uploads, pending, started, open, snapshot, viewer,
                     restarts, excused>>

-----------------------------------------------------------------------------
(* The file cache and StreamHandler.                                       *)

ReadFile(place) ==
  /\ place \in unread
  /\ fresh'  = [fresh EXCEPT ![place] = out[place]]
  /\ unread' = unread \ {place}
  /\ UNCHANGED <<uploads, conversions, out, cache, viewer, restarts, excused>>

\* A bug to catch: the directory is read once only.
PublishOnce ==
  /\ unread = {}
  /\ cache' = fresh
  /\ UNCHANGED <<uploads, conversions, out, fresh, unread, viewer, restarts,
                 excused>>

Publish ==
  /\ unread = {}
  /\ cache'  = fresh
  /\ fresh'  = Empty
  /\ unread' = Viewed
  /\ UNCHANGED <<uploads, conversions, out, viewer, restarts, excused>>

\* HandleStreamRequest: TryGetFile, which hands out the file of the snapshot
\* of the moment...
HandleStreamRequest(place) ==
  /\ request = None
  /\ request' = [place |-> place, found |-> cache[place]]
  /\ reply'   = None
  /\ UNCHANGED <<uploads, conversions, out, snapshot, restarts, excused>>

\* ...404 when there is none...
NotFound ==
  /\ request # None /\ request.found = None
  /\ request' = None
  /\ reply'   = [status |-> 404]
  /\ UNCHANGED <<uploads, conversions, out, snapshot, restarts, excused>>

\* Bugs to catch: the file is looked up again, or the check is missing.
PushBodyChunkLooksAgain ==
  /\ request # None /\ request.found # None
  /\ request' = None
  /\ reply'   = [status |-> 200, place |-> request.place,
                 length |-> request.found, body |-> cache[request.place]]
  /\ UNCHANGED <<uploads, conversions, out, snapshot, restarts, excused>>
PushBodyChunkUnchecked ==
  /\ request # None
  /\ request' = None
  /\ reply'   = [status |-> 200, place |-> request.place,
                 length |-> request.found, body |-> request.found]
  /\ UNCHANGED <<uploads, conversions, out, snapshot, restarts, excused>>

\* ...else its length and then its data.
PushBodyChunk ==
  /\ request # None /\ request.found # None
  /\ request' = None
  /\ reply'   = [status |-> 200, place |-> request.place,
                 length |-> request.found, body |-> request.found]
  /\ UNCHANGED <<uploads, conversions, out, snapshot, restarts, excused>>

-----------------------------------------------------------------------------
(* The process.  The queue, the uploads in progress and the request die    *)
(* with it; at the next start FsCache reads the directories before the     *)
(* service serves.                                                         *)

Crash(survivors) ==
  /\ restarts < MaxRestarts /\ restarts' = restarts + 1
  /\ Upload!Crash
  /\ pending' = <<>> /\ open' = TRUE /\ UNCHANGED started
  /\ process' = [p \in DOMAIN process |->
                   IF p \in survivors THEN process[p]
                   ELSE [process[p] EXCEPT !.at = "exited"]]
  /\ Excuse({v \in Videos :
               \/ \E i \in DOMAIN pending : pending[i] = v
               \/ \E p \in DOMAIN process \ survivors :
                    process[p].video = v /\ process[p].at # "exited"})
  /\ cache' = [place \in Viewed |-> out[place]]
  /\ fresh' = Empty /\ unread' = Viewed
  /\ request' = None /\ reply' = None
  /\ UNCHANGED out

-----------------------------------------------------------------------------
Init ==
  /\ Upload!Init /\ Queue!Init
  /\ process = <<>>
  /\ out = [place \in Places |-> None]
  /\ cache = Empty /\ fresh = Empty /\ unread = Viewed
  /\ request = None /\ reply = None
  /\ restarts = 0 /\ excused = {}

UploadStep  == \E v \in Videos : BuildStep(v) \/ Callback(v)
WorkerStep  == Convert \/ ConvertFails
FfmpegStep  == \E p \in DOMAIN process : FfmpegReads(p) \/ FfmpegWrites(p)
RefreshStep == Publish \/ \E place \in Viewed : ReadFile(place)
AnswerStep  == NotFound \/ PushBodyChunk

Next ==
  \/ \E v \in Videos : Post(v)
  \/ UploadStep \/ WorkerStep \/ FfmpegStep \/ RefreshStep \/ AnswerStep
  \/ \E place \in Viewed : HandleStreamRequest(place)
  \/ \E survivors \in SUBSET DOMAIN process : Crash(survivors)

Spec == Init /\ [][Next]_vars

\* The tasks of the service that can run do, FsCache refreshes periodically,
\* and the operating system runs every ffmpeg process.
FairSpec ==
  /\ Spec
  /\ \A v \in Videos : WF_vars(BuildStep(v) \/ Callback(v))
  /\ WF_vars(WorkerStep) /\ WF_vars(RefreshStep) /\ WF_vars(AnswerStep)
  /\ \A p \in 1 .. MaxUploads :
       WF_vars(p \in DOMAIN process /\ (FfmpegReads(p) \/ FfmpegWrites(p)))

=============================================================================

-------------------------- MODULE ServiceProperties --------------------------
(***************************************************************************)
(* What the service promises those who upload videos and those who watch   *)
(* them, as properties of VideoService.                                    *)
(***************************************************************************)
EXTENDS VideoService

Content == Seq(Blocks) \cup {None}

\* Type correctness of every variable of the service.
TypeOK ==
  /\ received \in [Videos -> Seq(Blocks \cup {None}) \cup {None}]
  /\ file \in [Videos -> Content]
  /\ stage \in [Videos -> Upload!Stages]
  /\ delivered \in Seq(Videos) /\ pending \in Seq(Videos) /\ started \in Seq(Videos)
  /\ open \in BOOLEAN
  /\ process \in Seq([video : Videos, content : Content, at : Phases])
  /\ out \in [Places -> Content]
  /\ cache \in [Viewed -> Content] /\ fresh \in [Viewed -> Content]
  /\ unread \in SUBSET Viewed
  /\ request = None \/ request \in [place : Viewed, found : Content]
  /\ \/ reply \in {None, [status |-> 404]}
     \/ reply \in [status : {200}, place : Viewed, length : Seq(Blocks),
                   body : Seq(Blocks)]
  /\ restarts \in Nat
  /\ excused \in SUBSET Videos

-----------------------------------------------------------------------------
(* What is served.                                                         *)

Whole(content) == content \in Seq(Blocks) /\ Len(content) \in Lengths

\* The directory of a video holds one conversion of a whole upload: nothing of
\* a file being written or, once ffmpeg is done, of two uploads.  Only what
\* excuses a video may break this: nobody waits for ffmpeg, limits how many
\* run, or keeps a second build from the file it reads.
DirectoryIsOneConversion ==
  \A v \in Videos \ excused :
    /\ \A o \in Objects : out[<<v, o>>] # None => Whole(out[<<v, o>>])
    /\ Running(v) = {} => out[<<v, "segments">>] = out[<<v, "manifest">>]

\* What a viewer gets comes from a whole upload and has the length announced,
\* whatever is built, converted and published while it is served.
ServedWhole ==
  reply # None /\ reply.status = 200 =>
    /\ reply.length = reply.body
    /\ reply.place[1] \notin excused => Whole(reply.body)

\* What a viewer could get once stays there, through refreshes, conversions of
\* a newer upload and restarts of the service.
ObjectsStay ==
  [][\A place \in Viewed : cache[place] # None => cache'[place] # None]_vars

Delivered(v) == \E i \in DOMAIN delivered : delivered[i] = v

\* A video that has been delivered is never forgotten: it waits for its
\* conversion, is being converted, or is in its directory.  And it is the last
\* version that is there: when nothing is being done about the video the
\* directory holds its result file, unless a crash has cut a build short.
Kept(v) ==
  Delivered(v) /\ ~Unsettled(v) =>
    \A o \in Objects :
      /\ out[<<v, o>>] # None
      /\ stage[v] = "receiving" /\ restarts = 0 => out[<<v, o>>] = file[v]

NotForgotten == \A v \in Videos \ excused : Kept(v)

-----------------------------------------------------------------------------
(* Progress.                                                               *)

\* A snapshot that has a manifest without the segments it names, because they
\* were read at different moments, is replaced by one that has both.
SnapshotCompletes ==
  \A v \in Watched :
    (cache[<<v, "manifest">>] # None) ~> (cache[<<v, "segments">>] # None)

Playable(v) == \A o \in Objects : cache[<<v, o>>] # None

\* A video that has been delivered, its last block answered with 200, can be
\* played in the end, unless the process died before its conversion was over,
\* the result file could not be opened, an earlier conversion threw, or the
\* video was built again too soon.
DeliveredIsPlayable ==
  \A v \in Watched :
    Delivered(v) ~> (Playable(v) \/ v \in excused)

-----------------------------------------------------------------------------
(* The inductive invariant.                                                *)

\* What is in a snapshot is in place, and in the next snapshot or still to be
\* read for it; ffmpeg writes only what it has read.
PlacesInv ==
  \A place \in Viewed :
    /\ fresh[place] # None => out[place] # None
    /\ cache[place] # None =>
         out[place] # None /\ (place \in unread \/ fresh[place] # None)

FfmpegInv ==
  \A p \in DOMAIN process :
    process[p].at \in Objects => process[p].content # None

\* An upload in progress has a proper number of blocks, and all of them while
\* its file is being built.
ReceivedInv ==
  \A v \in Videos :
    /\ received[v] # None => Len(received[v]) \in Lengths
    /\ stage[v] = "building" =>
         /\ Upload!Complete(v) /\ file[v] \in Seq(Blocks)
         /\ Len(file[v]) < Len(received[v])

\* A build that nothing has come in the way of ends with a whole file...
BuildInv(v) ==
  /\ stage[v] # "blind"
  /\ stage[v] \in {"built", "due"} => Whole(file[v])

Queued(v) == \E i \in DOMAIN pending : pending[i] = v

\* ...which stays as it is until its conversion, the only one, is over...
ConversionInv(v) ==
  /\ Unsettled(v) => stage[v] = "receiving" /\ Whole(file[v])
  /\ Queued(v) => Running(v) = {}
  /\ \A i, j \in DOMAIN pending : pending[i] = v /\ pending[j] = v => i = j
  /\ \A p, q \in Running(v) : p = q
  /\ \A p \in Running(v) : process[p].at \in Objects => Whole(process[p].content)

\* ...and the directory has its segments before its manifest.
DirectoryInv(v) ==
  /\ \A o \in Objects : out[<<v, o>>] # None => Whole(out[<<v, o>>])
  /\ (\A p \in Running(v) : process[p].at # "manifest") =>
       out[<<v, "segments">>] = out[<<v, "manifest">>]
  /\ \A p \in Running(v) :
       process[p].at = "manifest" => out[<<v, "segments">>] = process[p].content

\* What is read, published, found and answered is what was in the directory.
ServedInv ==
  /\ \A place \in Viewed : place[1] \notin excused =>
       /\ fresh[place] # None => Whole(fresh[place])
       /\ cache[place] # None => Whole(cache[place])
  /\ request # None /\ request.found # None /\ request.place[1] \notin excused =>
       Whole(request.found)

\* What ffmpeg has read is still what the result file holds.
ReadInv(v) ==
  \A p \in Running(v) : process[p].at \in Objects => process[p].content = file[v]

VersionInv == \A v \in Videos \ excused : ReadInv(v) /\ Kept(v)

IInv ==
  /\ TypeOK /\ PlacesInv /\ FfmpegInv /\ ReceivedInv
  /\ \A v \in Videos \ excused : BuildInv(v) /\ ConversionInv(v) /\ DirectoryInv(v)
  /\ ServedInv /\ ServedWhole

=============================================================================

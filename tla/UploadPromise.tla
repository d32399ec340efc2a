--------------------------- MODULE UploadPromise ---------------------------
(***************************************************************************)
(* What the upload side promises a client that posts the blocks of a video *)
(* one after the other: blocks are received in any order; once none is     *)
(* missing the result file is written, block by block and in order; the    *)
(* blocks are then given up and the video is delivered to the converter.   *)
(* A crash loses the blocks received and keeps the result files.           *)
(* UploadController is shown to implement this, without pointers, part     *)
(* files, offsets and streams.                                             *)
(***************************************************************************)
EXTENDS Naturals, Sequences

CONSTANTS Videos,
          Blocks,   \* contents of blocks
          Lengths,  \* numbers of blocks a video may have
          None

VARIABLES received,  \* the blocks of each upload in progress, None for none
          file,      \* the result file of each video, None before the first
          stage,     \* what is being done about a video
          delivered  \* the videos handed to the converter, oldest first

promise == <<received, file, stage, delivered>>

Stages == {"receiving", "building", "blind", "built", "due"}

Complete(v) == received[v] # None /\ \A i \in DOMAIN received[v] : received[v][i] # None

Goes(v, from, to) == stage[v] = from /\ stage' = [stage EXCEPT ![v] = to]

\* The first block of an upload is on its way.
Begin(v, n) ==
  /\ stage[v] = "receiving" /\ received[v] = None
  /\ received' = [received EXCEPT ![v] = [i \in 1 .. n |-> None]]
  /\ UNCHANGED <<file, stage, delivered>>

\* A block is received, for the first time or edited.
Store(v, i, b) ==
  /\ stage[v] = "receiving" /\ received[v] # None /\ i \in DOMAIN received[v]
  /\ received' = [received EXCEPT ![v][i] = b]
  /\ UNCHANGED <<file, stage, delivered>>

\* The result file is opened and emptied...
StartBuild(v) ==
  /\ Complete(v)
  /\ Goes(v, "receiving", "building")
  /\ file' = [file EXCEPT ![v] = <<>>]
  /\ UNCHANGED <<received, delivered>>

\* ...or cannot be opened, which nobody notices: it stays as it was.
StartBlind(v) ==
  /\ Complete(v)
  /\ Goes(v, "receiving", "blind")
  /\ UNCHANGED <<received, file, delivered>>

EndBlind(v) ==
  /\ Goes(v, "blind", "built")
  /\ UNCHANGED <<received, file, delivered>>

\* The next block is appended to the result; after the last one it is built.
NextBlock(v) == Len(file[v]) + 1

Grow(v) ==
  /\ stage[v] = "building" /\ NextBlock(v) \in DOMAIN received[v]
  /\ file' = [file EXCEPT ![v] = Append(@, received[v][NextBlock(v)])]
  /\ stage' = [stage EXCEPT ![v] =
                 IF NextBlock(v) + 1 \in DOMAIN received[v] THEN "building"
                 ELSE "built"]
  /\ UNCHANGED <<received, delivered>>

\* The blocks are given up.
Release(v) ==
  /\ Goes(v, "built", "due")
  /\ received' = [received EXCEPT ![v] = None]
  /\ UNCHANGED <<file, delivered>>

\* A bug to catch: the video is delivered before its file is built.
DeliverEarly(v) ==
  /\ Goes(v, "building", "receiving")
  /\ delivered' = Append(delivered, v)
  /\ UNCHANGED <<received, file>>

\* The callback is called.
Deliver(v) ==
  /\ Goes(v, "due", "receiving")
  /\ delivered' = Append(delivered, v)
  /\ UNCHANGED <<received, file>>

Crash ==
  /\ received' = [v \in Videos |-> None]
  /\ stage' = [v \in Videos |-> "receiving"]
  /\ UNCHANGED <<file, delivered>>

Init ==
  /\ received  = [v \in Videos |-> None]
  /\ file      = [v \in Videos |-> None]
  /\ stage     = [v \in Videos |-> "receiving"]
  /\ delivered = <<>>

\* A step of the upload of v on its way from complete to delivered.
Build(v) ==
  StartBuild(v) \/ StartBlind(v) \/ EndBlind(v) \/ Grow(v) \/ Release(v)

Next ==
  \/ \E v \in Videos :
       \/ \E n \in Lengths :
            Begin(v, n) \/ \E i \in 1 .. n, b \in Blocks : Store(v, i, b)
       \/ Build(v)
       \/ Deliver(v)
  \/ Crash

Spec == Init /\ [][Next]_promise

=============================================================================

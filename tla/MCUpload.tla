------------------------------ MODULE MCUpload ------------------------------
(***************************************************************************)
(* Instances of the upload side for TLC.  The requests of a client are the *)
(* blocks of its uploads; which instance a run checks is in its cfg.       *)
(***************************************************************************)
EXTENDS UploadProperties, TLC

CONSTANTS t1, t2, t3, t4, blockA, blockB, blockC

Symmetric == Permutations(Tasks)

\* The blocks of an upload of n blocks, each with its own content.
Upload(uid, contents) ==
  {[uid |-> uid, total |-> Len(contents), idx |-> i, data |-> contents[i]] :
   i \in 1 .. Len(contents)}

\* One video of two blocks.
OneVideo == Upload(2, <<blockA, blockB>>)

\* One video of three blocks.
LongVideo == Upload(2, <<blockA, blockB, blockC>>)

\* Two videos whose names do not collide, the first block of one of which the
\* client may edit, and a request without a block number.
TwoVideos ==
  Upload(2, <<blockA, blockB>>) \cup Upload(2, <<blockB, blockB>>) \cup
  Upload(3, <<blockB>>) \cup
  {[uid |-> 2, total |-> 2, idx |-> 0, data |-> blockA]}

\* Videos 1 and 11: part 1 of video 1 has the name of the result of 11.
CollidingVideos == Upload(1, <<blockA, blockB>>) \cup Upload(11, <<blockB>>)

\* Two files of different length posted under one upload token.
ShortFilesOneToken == Upload(2, <<blockA>>) \cup Upload(2, <<blockA, blockB>>)
LongFilesOneToken ==
  Upload(2, <<blockA, blockB>>) \cup Upload(2, <<blockA, blockB, blockC>>)

=============================================================================

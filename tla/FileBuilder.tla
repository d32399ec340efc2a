---------------------------- MODULE FileBuilder ----------------------------
(***************************************************************************)
(* The FileBuilder object of one upload: the vector of block digests it    *)
(* keeps in memory, and what its file streams do to a file.                *)
(*                                                                         *)
(* A block's content is a value of Blocks and its SHA-256 digest is        *)
(* represented by the content itself: two blocks have equal digests iff    *)
(* they have equal content.  None stands for the empty digest, and for a   *)
(* file that does not exist.  A file is a sequence of blocks.              *)
(***************************************************************************)
EXTENDS PartNames, Sequences

CONSTANTS Blocks,   \* contents of blocks
          None,     \* no digest, no file, no pointer
          Hole      \* what a write beyond the end of a file leaves before it

ASSUME BlocksAssumption ==
  /\ None \notin Blocks /\ Hole \notin Blocks /\ None \notin FileNames
  /\ None \notin Seq(Blocks \cup {Hole})

Content == Seq(Blocks \cup {Hole})

-----------------------------------------------------------------------------
(* The object.                                                             *)

\* Bugs to catch: a vector one too short, a count that stops one early, a
\* digest that is never compared.
ShortBuilder(uid, total) ==
  [uid |-> uid, total |-> total - 1, hash |-> [i \in 1 .. total - 1 |-> None]]
ReadyTooSoon(b) == \A i \in 1 .. b.total - 1 : b.hash[i] # None
NeedsFirstWrite(b, idx, block) == b.hash[idx] = None

\* FileBuilder::FileBuilder: the digests of all blocks are empty.
NewBuilder(uid, total) ==
  [uid |-> uid, total |-> total, hash |-> [i \in 1 .. total |-> None]]

\* FileBuilder::is_ready counts the digests that are not empty and compares
\* the count with total_blocks_, the length of the vector.
IsReady(b) == \A i \in 1 .. b.total : b.hash[i] # None

\* FileBuilder::get_hash_if_need_write returns a digest to record.
NeedsWrite(b, idx, block) == b.hash[idx] # block

\* The content a build should produce: every block, in order.
Assembled(b) == [i \in 1 .. b.total |-> b.hash[i]]

-----------------------------------------------------------------------------
(* A stream that writes blocks at an offset of an open file.               *)

WriteAt(file, offset, blocks) ==
  LET end == offset + Len(blocks)
  IN  [k \in 1 .. (IF Len(file) > end THEN Len(file) ELSE end) |->
         IF k > offset /\ k <= end THEN blocks[k - offset]
         ELSE IF k <= Len(file) THEN file[k]
         ELSE Hole]

=============================================================================

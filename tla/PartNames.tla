----------------------------- MODULE PartNames -----------------------------
(***************************************************************************)
(* The names FileBuilder gives to its files.  An upload is named by the    *)
(* decimal text of its video id (UploadHandler calls std::to_string on the *)
(* int64 "vid"), a part file by that text followed by the decimal text of  *)
(* the block number, and the result file by the text of the id alone; all  *)
(* of them live in one directory, k_default_build_dir.                     *)
(*                                                                         *)
(* A name is represented by the number its digits spell, which loses       *)
(* nothing: no id and no block number starts with a zero.                  *)
(***************************************************************************)
EXTENDS Integers

\* The bound on block numbers: four digits.  (A size_t has up to twenty, but
\* 9999 blocks of at most 25 MB, the limit on a request, are 250 GB.)
PowersOfTen == {10, 100, 1000, 10000}

\* videos.id is a bigserial: ids start at 1.
VideoIds     == Nat \ {0}
BlockNumbers == 1 .. 9999

\* The power of ten that makes room for the digits of i.
Shift(i) == CHOOSE p \in PowersOfTen :
              i < p /\ \A q \in PowersOfTen : i < q => p <= q

\* A bug to catch: the upload's name left out of the part's.
UnprefixedPartName(uid, idx) == idx

PartName(uid, idx) == uid * Shift(idx) + idx
ResultName(uid)    == uid

-----------------------------------------------------------------------------
\* What every file name is: the number spelled by at least one digit.
FileNames == Nat \ {0}

=============================================================================

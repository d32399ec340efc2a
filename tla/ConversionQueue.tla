-------------------------- MODULE ConversionQueue --------------------------
(***************************************************************************)
(* What the conversion side promises: videos wait in a queue and their     *)
(* conversions start in the order in which the videos were enqueued, each  *)
(* exactly once, until a conversion throws or the service ends.            *)
(* ConvertController is shown to implement this.                           *)
(***************************************************************************)
EXTENDS Sequences

CONSTANT Videos

VARIABLES pending,   \* videos waiting for their conversion to start
          started,   \* videos whose conversion has started, oldest first
          open       \* whether somebody serves the queue

Add(v) == pending' = Append(pending, v) /\ UNCHANGED <<started, open>>

Start ==
  /\ open /\ pending # <<>>
  /\ started' = Append(started, Head(pending))
  /\ pending' = Tail(pending)
  /\ UNCHANGED open

\* The conversion of the first video throws, and nobody serves the others.
Fail ==
  /\ open /\ pending # <<>>
  /\ open' = FALSE
  /\ UNCHANGED <<pending, started>>

\* At the end of the service the queue closes, and only when it is empty.
Close ==
  /\ open /\ pending = <<>>
  /\ open' = FALSE
  /\ UNCHANGED <<pending, started>>

Init == pending = <<>> /\ started = <<>> /\ open = TRUE
Next == Start \/ Fail \/ Close \/ \E v \in Videos : Add(v)

Spec     == Init /\ [][Next]_<<pending, started, open>>
FairSpec == Spec /\ WF_<<pending, started, open>>(Start \/ Fail)

=============================================================================

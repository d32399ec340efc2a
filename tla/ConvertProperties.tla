-------------------------- MODULE ConvertProperties --------------------------
(***************************************************************************)
(* What the conversion side promises, as properties of ConvertController,  *)
(* and the abstract queue it implements.                                   *)
(***************************************************************************)
EXTENDS ConvertController

\* Type correctness; the worker has a video in hand exactly while it is about
\* to start its conversion, or has died of it.
TypeOK ==
  /\ prod \in [Producers -> {"idle", "notify", "done"}]
  /\ worker \in Locked \cup {"lock", "waiting", "convert", "done", "dead"}
  /\ hand \in IF worker \in {"convert", "dead"} THEN Videos ELSE {None}
  /\ \E v \in Videos \cup {None} : command = Arguments(v, v)
  /\ queue \in Seq(Videos)
  /\ stop \in BOOLEAN
  /\ owner \in {"alive", "notify", "join", "destroyed", "terminated"}
  /\ promised \in Nat /\ missed \in BOOLEAN
  /\ enqueued \in Seq(Videos)
  /\ started \in Seq(Videos)

InHand == IF hand = None THEN <<>> ELSE <<hand>>

\* Every video enqueued is converted, in hand or in the queue: none is lost,
\* none is converted twice and none overtakes another, with any number of
\* tasks enqueueing and the destructor running.
NothingLost == enqueued = started \o (InHand \o queue)

\* The worker never sleeps on a queue with videos in it unless a NotifyAll is
\* on its way: between the predicate and Wait no video slips in unnoticed.
NoMissedWakeup ==
  worker = "waiting" /\ queue # <<>> =>
    owner = "notify" \/ \E p \in Producers : prod[p] = "notify"

\* The worker returns only when told to, and only when every video enqueued
\* before destruction began has been started, whatever else is enqueued
\* meanwhile: stop_ does not overtake the videos in front of it.
DrainedAtExit == worker = "done" => stop /\ promised <= Len(started)

\* A destructor that waits for a worker that sleeps, or is going to, is there
\* for one reason: its NotifyAll came while the worker was between its
\* predicate and Wait.  The worker tests stop_ under the mutex and the
\* destructor sets it without, so that such a NotifyAll is lost; no other
\* order of their steps, and no call of enqueue, makes the destructor hang.
OnlyAMissedWakeupHangs ==
  owner = "join" /\ worker \in {"wait", "waiting"} => missed

\* A worker about to wait has seen the queue empty and still has the mutex.
WaitInv == worker = "wait" => queue = <<>>

\* Once destruction has begun stop_ is set; before, it is not.
StopInv == stop <=> owner # "alive"

\* What was enqueued before destruction is part of all that is enqueued.
PromiseInv == promised <= Len(enqueued)

IInv ==
  /\ TypeOK /\ NothingLost /\ NoMissedWakeup /\ DrainedAtExit
  /\ OnlyAMissedWakeupHangs /\ WaitInv /\ StopInv /\ PromiseInv

-----------------------------------------------------------------------------
(* The way of the worker to its end.                                       *)

\* The steps the worker has left when nothing more is enqueued and it does not
\* sleep: at most five for each video in the queue.
StepsOf ==
  [waiting |-> 4, lock |-> 3, test |-> 2, wait |-> 5, take |-> 1, convert |-> 4,
   done |-> 0, dead |-> 0]

WorkLeft == 5 * Len(queue) + StepsOf[worker]

\* Neither asleep nor, with the predicate behind it, about to sleep.
Awake == worker \notin {"wait", "waiting"}

\* Once the destructor's NotifyAll has found the worker awake the worker never
\* sleeps again, and each of its steps brings it nearer to its end, which only
\* another call of enqueue can put off.
ShutdownRunsDown ==
  [][stop /\ Awake =>
       /\ Awake' /\ WorkLeft \in Nat
       /\ WorkerStep => WorkLeft' < WorkLeft
       /\ (\A p \in Producers, v \in Videos : ~Enqueue(p, v)) =>
            WorkLeft' <= WorkLeft]_vars

-----------------------------------------------------------------------------
\* The videos that wait are those in the queue and the one in hand.
Abstract == INSTANCE ConversionQueue
            WITH pending <- InHand \o queue,
                 open    <- worker \notin {"done", "dead"}

\* The conversions start in the order of enqueue and each video starts once;
\* the worker leaves an empty queue unless a conversion throws (a step of the
\* abstract queue or none).
ImplementsQueue == Abstract!Spec

\* And each does start, whether or not the controller is being destroyed, as
\* long as no conversion throws.
ImplementsFairQueue == Abstract!FairSpec

\* A destructor that waits returns, or ends the process when a conversion has
\* thrown, unless its NotifyAll was missed.
ShutdownEnds ==
  owner = "join" ~> owner \in {"destroyed", "terminated"} \/ missed

=============================================================================

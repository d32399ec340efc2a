------------------------- MODULE ConvertController -------------------------
(***************************************************************************)
(* The conversion side: ConvertControllerImpl keeps a queue of videos      *)
(* under a mutex, a condition variable and one worker task that takes the  *)
(* videos in turn and starts an ffmpeg process for each.  Upload tasks     *)
(* enqueue; the destructor sets stop_, notifies and waits for the worker.  *)
(*                                                                         *)
(* enqueue and the worker synchronise on the mutex, which the worker holds *)
(* while its pc is in Locked.  The destructor takes no lock.               *)
(***************************************************************************)
EXTENDS Naturals, Sequences

CONSTANTS Producers,    \* calls of enqueue, one upload task each
          Videos,       \* what they enqueue: a path and a file name
          None

ASSUME ConvertAssumption == None \notin Videos

VARIABLES
  prod,      \* where each call of enqueue is
  worker,    \* where convert_task_ is
  hand,      \* the video it has popped and not yet started
  command,   \* command_args_ of the ConvertConfig
  queue,     \* convert_queue_
  stop,      \* stop_
  owner,     \* where the owner of the controller is
  promised,  \* history: how many videos had been enqueued when it set stop_
  missed,    \* history: whether its NotifyAll found the worker about to wait
  enqueued,  \* history: all the videos enqueued
  started    \* history: the videos an ffmpeg process was started for

history == <<promised, missed, enqueued, started>>
vars    == <<prod, worker, hand, command, queue, stop, owner, history>>

Locked   == {"test", "wait", "take"}

\* A bug to catch: Wait gives the mutex up before it joins the waiters.
FreeBeforeWaiting == worker \notin {"test", "take"}

LockFree == worker \notin Locked

\* A bug to catch: nobody is woken.
NotifyNobody == worker' = worker

\* NotifyAll: the worker, if it waits, goes back to acquire the mutex.
NotifyAll == worker' = IF worker = "waiting" THEN "lock" ELSE worker

-----------------------------------------------------------------------------
(* ConvertConfig: one vector of arguments for ffmpeg, with two places for  *)
(* the paths of a video; a video stands for its paths, one word for the    *)
(* options of the streams, and one for those of the DASH muxer.            *)

Arguments(input, output) ==
  <<"-hide_banner", "-y", "-i", input, "streams", "dash", output>>

\* As constructed the two places, "{}" and "{}/manifest.mpd", name no video.
InitialCommand == Arguments(None, None)

\* A bug to catch: the output is that of the last video.
ApplyInputOnly(v) == command' = [command EXCEPT ![4] = v]

\* apply writes the paths of a video to command_args_[3] and to its back, and
\* returns a copy.
Apply(v) == command' = [command EXCEPT ![4] = v, ![Len(command)] = v]

\* The video that ffmpeg converts with these arguments, if it is one.
VideoOf(args) == IF args[4] = args[Len(args)] THEN args[4] ELSE None

-----------------------------------------------------------------------------
(* enqueue.                                                                *)

\* emplace, under the mutex...
Enqueue(p, v) ==
  /\ prod[p] = "idle" /\ LockFree
  /\ owner \in {"alive", "notify", "join"}
  /\ queue'    = Append(queue, v)
  /\ enqueued' = Append(enqueued, v)
  /\ prod'     = [prod EXCEPT ![p] = "notify"]
  /\ UNCHANGED <<worker, hand, command, stop, owner, promised, missed, started>>

\* ...and NotifyAll after it is released.
NotifyEnqueued(p) ==
  /\ prod[p] = "notify"
  /\ NotifyAll
  /\ prod' = [prod EXCEPT ![p] = "done"]
  /\ UNCHANGED <<hand, command, queue, stop, owner, history>>

-----------------------------------------------------------------------------
(* The worker's loop.                                                      *)

WorkerGoes(from, to) == worker = from /\ worker' = to

Lock ==
  /\ WorkerGoes("lock", "test")
  /\ UNCHANGED <<prod, hand, command, queue, stop, owner, history>>

\* A bug to catch: the predicate ignores stop_.
TestQueueOnly ==
  /\ WorkerGoes("test", IF queue # <<>> THEN "take" ELSE "wait")
  /\ UNCHANGED <<prod, hand, command, queue, stop, owner, history>>

\* The predicate of Wait: !queue_lock->empty() || stop_.
Test ==
  /\ WorkerGoes("test", IF queue # <<>> \/ stop THEN "take" ELSE "wait")
  /\ UNCHANGED <<prod, hand, command, queue, stop, owner, history>>

\* Wait joins the waiters of the condition and releases the mutex in one step,
\* after the predicate has been evaluated.
Wait ==
  /\ WorkerGoes("wait", "waiting")
  /\ UNCHANGED <<prod, hand, command, queue, stop, owner, history>>

\* A bug to catch: the worker leaves as soon as stop_ is set.
ReturnAtOnce ==
  /\ WorkerGoes("take", "done")
  /\ stop
  /\ UNCHANGED <<prod, hand, command, queue, stop, owner, history>>

\* if (stop_ && queue_lock->empty()) return
Return ==
  /\ WorkerGoes("take", "done")
  /\ stop /\ queue = <<>>
  /\ UNCHANGED <<prod, hand, command, queue, stop, owner, history>>

\* A bug to catch: the video is read but not popped.
TakeWithoutPop ==
  /\ WorkerGoes("take", "convert")
  /\ queue # <<>>
  /\ hand' = Head(queue)
  /\ UNCHANGED <<prod, command, queue, stop, owner, history>>

\* front, pop, and the end of the locked section.
Take ==
  /\ WorkerGoes("take", "convert")
  /\ queue # <<>>
  /\ hand'  = Head(queue)
  /\ queue' = Tail(queue)
  /\ UNCHANGED <<prod, command, stop, owner, history>>

\* A bug to catch: apply hands out the arguments before it has patched them.
CommandOfLastVideo ==
  /\ WorkerGoes("convert", "lock")
  /\ Apply(hand)
  /\ started' = Append(started, VideoOf(command))
  /\ hand'    = None
  /\ UNCHANGED <<prod, queue, stop, owner, promised, missed, enqueued>>

\* convertion makes the output directory, patches the paths of the video into
\* the arguments of the one ConvertConfig and starts ffmpeg with them; nobody
\* waits for its end.  The semaphore is local to this turn of the loop: it is
\* never contended.
Convertion ==
  /\ WorkerGoes("convert", "lock")
  /\ Apply(hand)
  /\ started' = Append(started, VideoOf(command'))
  /\ hand'    = None
  /\ UNCHANGED <<prod, queue, stop, owner, promised, missed, enqueued>>

\* create_directory throws, or Exec after apply: nobody catches, the task ends.
ConvertionFails ==
  /\ WorkerGoes("convert", "dead")
  /\ UNCHANGED command \/ Apply(hand)
  /\ UNCHANGED <<prod, hand, queue, stop, owner, history>>

-----------------------------------------------------------------------------
(* The destructor.                                                         *)

\* stop_ = true, without the mutex.  Nothing in the class keeps enqueue from
\* being called while the destructor waits.
SetStop ==
  /\ owner = "alive"
  /\ stop' = TRUE /\ owner' = "notify"
  /\ promised' = Len(enqueued)
  /\ UNCHANGED <<prod, worker, hand, command, queue, missed, enqueued, started>>

\* A bug to catch: the destructor leaves the worker to itself.
NotifyNobodyAtStop ==
  /\ owner = "notify" /\ owner' = "join"
  /\ missed' = (worker = "wait")
  /\ UNCHANGED <<prod, worker, hand, command, queue, stop, promised, enqueued,
                 started>>

\* A worker that has evaluated its predicate and does not wait yet is not
\* woken.
NotifyStopped ==
  /\ owner = "notify" /\ owner' = "join"
  /\ NotifyAll
  /\ missed' = (worker = "wait")
  /\ UNCHANGED <<prod, hand, command, queue, stop, promised, enqueued, started>>

\* A bug to catch: the task is dropped, not waited for.
JoinNobody ==
  /\ owner = "join" /\ owner' = "destroyed"
  /\ UNCHANGED <<prod, worker, hand, command, queue, stop, history>>

\* convert_task_.Get(): the exception of a worker that died leaves the
\* destructor, which terminates the process.
Join ==
  /\ owner = "join" /\ worker \in {"done", "dead"}
  /\ owner' = IF worker = "done" THEN "destroyed" ELSE "terminated"
  /\ UNCHANGED <<prod, worker, hand, command, queue, stop, history>>

-----------------------------------------------------------------------------
Init ==
  /\ prod     = [p \in Producers |-> "idle"]
  /\ worker   = "lock"
  /\ hand     = None
  /\ command  = InitialCommand
  /\ queue    = <<>>
  /\ stop     = FALSE
  /\ owner    = "alive"
  /\ promised = 0
  /\ missed   = FALSE
  /\ enqueued = <<>>
  /\ started  = <<>>

WorkerStep == Lock \/ Test \/ Wait \/ Return \/ Take \/ Convertion \/ ConvertionFails
OwnerStep  == NotifyStopped \/ Join

Next ==
  \/ \E p \in Producers, v \in Videos : Enqueue(p, v)
  \/ \E p \in Producers : NotifyEnqueued(p)
  \/ WorkerStep
  \/ SetStop
  \/ OwnerStep

Spec == Init /\ [][Next]_vars

\* Every task that can run does: the worker on convert-task-processor, the
\* upload tasks, and the thread that destroys the components once it has begun.
FairSpec ==
  /\ Spec
  /\ WF_vars(WorkerStep) /\ WF_vars(OwnerStep)
  /\ \A p \in Producers : WF_vars(NotifyEnqueued(p))

=============================================================================

--------------------------- MODULE ConvertProofs ---------------------------
(***************************************************************************)
(* Theorems about the conversion side, for every set of producers and of   *)
(* videos, whether or not conversions throw.                               *)
(***************************************************************************)
EXTENDS ConvertProperties, SequenceTheorems, TLAPS

-----------------------------------------------------------------------------
(* Lemmas about sequences.                                                 *)

\* Appending to the second of two sequences appends to their concatenation.
LEMMA AppendToSecond ==
  ASSUME NEW S, NEW s \in Seq(S), NEW t \in Seq(S), NEW e \in S
  PROVE  s \o Append(t, e) = Append(s \o t, e)
<1>1. Append(t, e) = t \o <<e>> /\ <<e>> \in Seq(S)
  BY AppendIsConcat
<1>2. s \o t \in Seq(S)
  BY ConcatProperties
<1>3. Append(s \o t, e) = (s \o t) \o <<e>>
  BY <1>2, AppendIsConcat
<1>4. QED
  BY <1>1, <1>3, ConcatAssociative

\* A sequence is its head followed by its tail, and the other way round.
LEMMA HeadThenTail ==
  ASSUME NEW S, NEW q \in Seq(S), q # <<>>
  PROVE  Head(q) \in S /\ Tail(q) \in Seq(S) /\ <<Head(q)>> \o Tail(q) = q
  OBVIOUS

\* What follows the first element of a sequence is its tail.
LEMMA FirstAndRest ==
  ASSUME NEW S, NEW q \in Seq(S), NEW e \in S
  PROVE  /\ <<e>> \o q \in Seq(S) /\ <<e>> \o q # <<>>
         /\ Head(<<e>> \o q) = e /\ Tail(<<e>> \o q) = q
  OBVIOUS

-----------------------------------------------------------------------------
(* The invariant.                                                          *)

\* The videos in hand are a sequence of videos.
LEMMA InHandType ==
  ASSUME TypeOK
  PROVE  /\ InHand \in Seq(Videos)
         /\ InHand \o queue \in Seq(Videos)
         /\ worker \in {"convert", "dead"} => InHand = <<hand>> /\ hand \in Videos
         /\ worker \notin {"convert", "dead"} => InHand = <<>> /\ hand = None
<1>1. CASE worker \in {"convert", "dead"}
  <2>1. hand \in Videos /\ InHand = <<hand>>
    BY <1>1, ConvertAssumption DEF TypeOK, InHand
  <2>2. InHand \in Seq(Videos) /\ queue \in Seq(Videos)
    BY <2>1 DEF TypeOK
  <2>3. QED
    BY <1>1, <2>1, <2>2, ConcatProperties
<1>2. CASE worker \notin {"convert", "dead"}
  <2>1. hand = None /\ InHand = <<>>
    BY <1>2 DEF TypeOK, InHand
  <2>2. InHand \in Seq(Videos) /\ queue \in Seq(Videos)
    BY <2>1 DEF TypeOK
  <2>3. QED
    BY <1>2, <2>1, <2>2, ConcatProperties
<1>3. QED
  BY <1>1, <1>2

\* apply leaves a vector of arguments in which both places speak of the video
\* it was given, whatever video they spoke of before.
LEMMA ApplyPatches ==
  ASSUME NEW v, NEW w, command = Arguments(w, w), Apply(v)
  PROVE  command' = Arguments(v, v) /\ VideoOf(command') = v
<1>1. Len(command) = 7
  BY DEF Arguments
<1>2. command' = Arguments(v, v)
  BY <1>1 DEF Apply, Arguments
<1>3. QED
  BY <1>2 DEF VideoOf, Arguments

\* The invariant holds when the controller has been constructed.
LEMMA InitInv == Init => IInv
<1> SUFFICES ASSUME Init PROVE IInv
  OBVIOUS
<1>1. TypeOK
  <2>1. <<>> \in Seq(Videos)
    OBVIOUS
  <2>2. QED
    BY <2>1 DEF Init, InitialCommand, TypeOK
<1>2. NothingLost
  BY ConcatEmptySeq DEF Init, NothingLost, InHand
<1>3. PromiseInv
  BY DEF Init, PromiseInv
<1>4. QED
  BY <1>1, <1>2, <1>3 DEF Init, IInv, NoMissedWakeup, DrainedAtExit, WaitInv,
                      StopInv, OnlyAMissedWakeupHangs

\* emplace adds a video at the end, behind the one in hand; the worker cannot
\* be between its predicate and Wait, and the call still has to notify.
LEMMA EnqueueStep ==
  ASSUME IInv, NEW p \in Producers, NEW v \in Videos, Enqueue(p, v)
  PROVE  IInv'
<1> USE DEF IInv, Enqueue, LockFree, Locked
<1>1. TypeOK'
  BY AppendProperties DEF TypeOK
<1>2. NothingLost'
  <2>1. InHand' \o queue' = Append(InHand \o queue, v)
    <3>1. InHand \in Seq(Videos) /\ queue \in Seq(Videos)
      BY InHandType DEF TypeOK
    <3>2. InHand' = InHand /\ queue' = Append(queue, v)
      BY DEF InHand
    <3> HIDE DEF IInv, Enqueue, LockFree, Locked
    <3>3. QED
      BY <3>1, <3>2, AppendToSecond
  <2>2. enqueued' = Append(started \o (InHand \o queue), v)
    BY DEF NothingLost
  <2> DEFINE waiting == InHand \o queue
  <2>3. started \in Seq(Videos) /\ waiting \in Seq(Videos)
    BY InHandType DEF TypeOK
  <2> HIDE DEF waiting
  <2>4. started \o Append(waiting, v) = Append(started \o waiting, v)
    BY <2>3, AppendToSecond
  <2>5. QED
    BY <2>1, <2>2, <2>4 DEF NothingLost, waiting
<1>3. NoMissedWakeup' /\ WaitInv' /\ StopInv' /\ DrainedAtExit'
  BY DEF TypeOK, NoMissedWakeup, WaitInv, StopInv, DrainedAtExit
<1>6. OnlyAMissedWakeupHangs'
  BY DEF OnlyAMissedWakeupHangs
<1>4. PromiseInv'
  <2>1. Len(enqueued') = Len(enqueued) + 1 /\ Len(enqueued) \in Nat
    BY DEF TypeOK
  <2>2. QED
    BY <2>1 DEF PromiseInv, TypeOK, history
<1>5. QED
  BY <1>1, <1>2, <1>3, <1>4, <1>6

\* NotifyAll wakes the worker, so that it needs nobody else.
LEMMA NotifyStep ==
  ASSUME IInv, NotifyStopped \/ \E p \in Producers : NotifyEnqueued(p)
  PROVE  IInv'
<1> USE DEF IInv, NotifyStopped, NotifyEnqueued, NotifyAll, history
<1>1. UNCHANGED <<hand, queue, stop, promised, enqueued, started>>
  OBVIOUS
<1>2. TypeOK'
  BY DEF TypeOK, Locked
<1>3. NothingLost'
  BY <1>1 DEF NothingLost, InHand
<1>4. NoMissedWakeup' /\ DrainedAtExit' /\ WaitInv'
  BY DEF TypeOK, NoMissedWakeup, DrainedAtExit, WaitInv
<1>5. StopInv' /\ PromiseInv'
  BY DEF TypeOK, StopInv, PromiseInv
<1>6. OnlyAMissedWakeupHangs'
  <2>1. CASE NotifyStopped
    <3>1. worker # "test" \/ worker' # "wait"
      BY <2>1
    <3>2. QED
      BY <2>1, <3>1 DEF OnlyAMissedWakeupHangs
  <2>2. ASSUME NEW p \in Producers, NotifyEnqueued(p)
        PROVE  OnlyAMissedWakeupHangs'
    BY <2>2 DEF OnlyAMissedWakeupHangs
  <2>3. QED
    BY <2>1, <2>2
<1>7. QED
  BY <1>2, <1>3, <1>4, <1>5, <1>6

\* stop_ is set: what has been enqueued until now is promised.
LEMMA SetStopStep ==
  ASSUME IInv, SetStop
  PROVE  IInv'
<1> USE DEF IInv, SetStop
<1>1. Len(enqueued) \in Nat
  BY DEF TypeOK
<1>2. TypeOK' /\ PromiseInv'
  BY <1>1 DEF TypeOK, PromiseInv
<1>3. NothingLost'
  BY DEF NothingLost, InHand
<1>4. NoMissedWakeup' /\ WaitInv' /\ StopInv' /\ OnlyAMissedWakeupHangs'
  BY DEF NoMissedWakeup, WaitInv, StopInv, OnlyAMissedWakeupHangs
<1>5. DrainedAtExit'
  BY DEF TypeOK, DrainedAtExit, StopInv
<1>6. QED
  BY <1>2, <1>3, <1>4, <1>5

\* The worker takes the first video: it goes from the queue to the hand.
LEMMA TakeStep ==
  ASSUME IInv, Take
  PROVE  IInv'
<1> USE DEF IInv, Take, WorkerGoes, history
<1>1. Head(queue) \in Videos /\ Tail(queue) \in Seq(Videos)
  BY HeadThenTail DEF TypeOK
<1>2. TypeOK'
  BY <1>1 DEF TypeOK
<1>3. InHand \o queue = queue
  BY InHandType, ConcatEmptySeq DEF TypeOK
<1>4. InHand' \o queue' = queue
  BY <1>1, <1>2, ConvertAssumption, HeadThenTail DEF TypeOK, InHand
<1>5. NothingLost'
  BY <1>3, <1>4 DEF NothingLost
<1>6. NoMissedWakeup' /\ DrainedAtExit' /\ WaitInv' /\ StopInv' /\ PromiseInv'
  BY DEF NoMissedWakeup, DrainedAtExit, WaitInv, StopInv, PromiseInv
<1>7. OnlyAMissedWakeupHangs'
  BY DEF OnlyAMissedWakeupHangs
<1>8. QED
  BY <1>2, <1>5, <1>6, <1>7

\* The video in hand has been started, under its own paths.
LEMMA ConvertionStep ==
  ASSUME IInv, Convertion
  PROVE  IInv'
<1> USE DEF IInv, Convertion, WorkerGoes
<1>1. hand \in Videos /\ InHand = <<hand>> /\ queue \in Seq(Videos)
  BY InHandType DEF TypeOK
<1>8. command' = Arguments(hand, hand) /\ started' = Append(started, hand)
  BY <1>1, ApplyPatches DEF TypeOK
<1>2. TypeOK'
  BY <1>1, <1>8, AppendProperties DEF TypeOK
<1>3. InHand' \o queue' = queue
  BY <1>1, ConcatEmptySeq DEF InHand
<1>4. NothingLost'
  <2>1. started \in Seq(Videos) /\ <<hand>> \in Seq(Videos)
    BY <1>1 DEF TypeOK
  <2>2. started' = started \o <<hand>>
    BY <1>8, <2>1, AppendIsConcat
  <2>3. enqueued = started \o (<<hand>> \o queue)
    BY <1>1 DEF NothingLost
  <2>4. enqueued' = started' \o queue
    BY <1>1, <2>1, <2>2, <2>3, ConcatAssociative
  <2>5. QED
    BY <1>3, <2>4 DEF NothingLost
<1>5. NoMissedWakeup' /\ DrainedAtExit' /\ WaitInv' /\ StopInv' /\ PromiseInv'
  BY DEF NoMissedWakeup, DrainedAtExit, WaitInv, StopInv, PromiseInv
<1>7. OnlyAMissedWakeupHangs'
  BY DEF OnlyAMissedWakeupHangs
<1>6. QED
  BY <1>2, <1>4, <1>5, <1>7

\* A worker that returns has started everything enqueued before stop_ was set:
\* its hand and the queue are empty, so nothing enqueued is missing.
LEMMA ReturnDrains ==
  ASSUME IInv, Return
  PROVE  DrainedAtExit'
<1>1. InHand = <<>> /\ queue = <<>> /\ started \in Seq(Videos)
  BY InHandType DEF IInv, TypeOK, Return, WorkerGoes
<1>2. enqueued = started
  <2>1. InHand \o queue = <<>>
    BY <1>1, ConcatEmptySeq
  <2>2. started \o <<>> = started
    BY <1>1, ConcatEmptySeq
  <2>3. QED
    BY <2>1, <2>2 DEF IInv, NothingLost
<1>3. promised <= Len(started) /\ stop
  BY <1>2 DEF IInv, PromiseInv, Return
<1>4. QED
  BY <1>3 DEF DrainedAtExit, Return, history

\* The steps that move the worker or the owner and no video.
LEMMA ControlStep ==
  ASSUME IInv, Lock \/ Test \/ Wait \/ Return \/ ConvertionFails \/ Join
  PROVE  IInv'
<1> USE DEF IInv, Lock, Test, Wait, Return, ConvertionFails, Join, WorkerGoes,
            history
<1>1. UNCHANGED <<prod, hand, queue, stop, promised, missed, enqueued, started>>
  OBVIOUS
<1>8. \E v \in Videos \cup {None} : command' = Arguments(v, v)
  <2>1. CASE UNCHANGED command
    BY <2>1 DEF TypeOK
  <2>2. CASE ConvertionFails /\ Apply(hand)
    <3>1. hand \in Videos
      BY <2>2 DEF TypeOK
    <3>2. QED
      BY <2>2, <3>1, ApplyPatches DEF TypeOK
  <2>3. QED
    BY <2>1, <2>2
<1>2. TypeOK'
  BY <1>8 DEF TypeOK, Locked
<1>9. OnlyAMissedWakeupHangs'
  <2>1. CASE Test
    BY <2>1 DEF OnlyAMissedWakeupHangs, StopInv
  <2>2. CASE ~Test
    BY <1>1, <2>2 DEF OnlyAMissedWakeupHangs
  <2>3. QED
    BY <2>1, <2>2
<1>3. NothingLost'
  BY <1>1 DEF NothingLost, InHand
<1>4. NoMissedWakeup' /\ WaitInv'
  BY DEF TypeOK, NoMissedWakeup, WaitInv
<1>5. StopInv' /\ PromiseInv'
  BY <1>1 DEF StopInv, PromiseInv
<1>6. DrainedAtExit'
  <2>1. CASE Return
    BY <2>1, ReturnDrains
  <2>2. CASE ~Return
    BY <1>1, <2>2 DEF TypeOK, DrainedAtExit
  <2>3. QED
    BY <2>1, <2>2
<1>7. QED
  BY <1>2, <1>3, <1>4, <1>5, <1>6, <1>9

\* Every step preserves the invariant.
LEMMA NextInv == IInv /\ [Next]_vars => IInv'
<1> SUFFICES ASSUME IInv, [Next]_vars PROVE IInv'
  OBVIOUS
<1>1. ASSUME NEW p \in Producers, NEW v \in Videos, Enqueue(p, v) PROVE IInv'
  BY <1>1, EnqueueStep
<1>2. CASE NotifyStopped \/ \E p \in Producers : NotifyEnqueued(p)
  BY <1>2, NotifyStep
<1>3. CASE Take
  BY <1>3, TakeStep
<1>4. CASE Convertion
  BY <1>4, ConvertionStep
<1>5. CASE Lock \/ Test \/ Wait \/ Return \/ ConvertionFails \/ Join
  BY <1>5, ControlStep
<1>6. CASE SetStop
  BY <1>6, SetStopStep
<1>7. CASE UNCHANGED vars
  BY <1>7 DEF vars, history, IInv, TypeOK, NothingLost, InHand, NoMissedWakeup,
              DrainedAtExit, OnlyAMissedWakeupHangs, WaitInv, StopInv, PromiseInv
<1>8. QED
  BY <1>1, <1>2, <1>3, <1>4, <1>5, <1>6, <1>7 DEF Next, WorkerStep, OwnerStep

\* The invariant always holds.
THEOREM Invariance == Spec => []IInv
  BY InitInv, NextInv, PTL DEF Spec

\* Every variable has its type; the worker has a video in hand exactly while it
\* is about to start its conversion, or has died of it.
THEOREM TypeCorrect == Spec => []TypeOK
<1>1. IInv => TypeOK
  BY DEF IInv
<1>2. QED
  BY <1>1, Invariance, PTL

\* No video enqueued is lost, duplicated or overtaken by a later one.
THEOREM EveryVideoAccounted == Spec => []NothingLost
<1>1. IInv => NothingLost
  BY DEF IInv
<1>2. QED
  BY <1>1, Invariance, PTL

\* The worker never sleeps on a video that nobody will wake it for.
THEOREM NoSleepOnWork == Spec => []NoMissedWakeup
<1>1. IInv => NoMissedWakeup
  BY DEF IInv
<1>2. QED
  BY <1>1, Invariance, PTL

\* The destructor hangs for no other reason than a missed NotifyAll.
THEOREM HangsOnlyOnMissedNotify == Spec => []OnlyAMissedWakeupHangs
<1>1. IInv => OnlyAMissedWakeupHangs
  BY DEF IInv
<1>2. QED
  BY <1>1, Invariance, PTL

\* A worker that returns has started every video enqueued before destruction.
THEOREM ExitAfterDrain == Spec => []DrainedAtExit
<1>1. IInv => DrainedAtExit
  BY DEF IInv
<1>2. QED
  BY <1>1, Invariance, PTL

-----------------------------------------------------------------------------
(* Refinement.                                                             *)

\* Every step of the controller is a step of the abstract queue or none: Take
\* moves a video from the queue to the hand, which is still waiting, Convertion
\* starts the first of the waiting videos, a conversion that throws ends the
\* service of the queue, and Return closes it when nothing is waiting.
LEMMA StepRefines ==
  ASSUME IInv, [Next]_vars
  PROVE  [Abstract!Next]_<<InHand \o queue, started, worker \notin {"done", "dead"}>>
<1> DEFINE waiting == InHand \o queue
           serving == worker \notin {"done", "dead"}
<1>1. ASSUME NEW p \in Producers, NEW v \in Videos, Enqueue(p, v)
      PROVE  Abstract!Add(v)
  <2>1. waiting' = Append(waiting, v)
    BY <1>1, InHandType, AppendToSecond DEF IInv, TypeOK, InHand, Enqueue
  <2>2. QED
    BY <1>1, <2>1 DEF Enqueue, Abstract!Add
<1>2. CASE Take
  <2>1. waiting = queue
    <3>1. queue \in Seq(Videos) /\ InHand = <<>>
      BY <1>2, InHandType DEF IInv, TypeOK, Take, WorkerGoes
    <3>2. QED
      BY <3>1, ConcatEmptySeq
  <2>2. Head(queue) \in Videos /\ <<Head(queue)>> \o Tail(queue) = queue
    <3>1. queue \in Seq(Videos) /\ queue # <<>>
      BY <1>2, SMTT(30) DEF IInv, TypeOK, Take
    <3>2. QED
      BY <3>1, HeadThenTail
  <2>3. waiting' = queue
    BY <1>2, <2>2, ConvertAssumption, Zenon DEF InHand, Take
  <2>4. QED
    BY <1>2, <2>1, <2>3 DEF Take, WorkerGoes, history
<1>3. CASE Convertion
  <2>1. waiting = <<hand>> \o queue /\ hand \in Videos /\ queue \in Seq(Videos)
    BY <1>3, InHandType DEF IInv, TypeOK, Convertion, WorkerGoes
  <2>2. waiting # <<>> /\ Head(waiting) = hand /\ Tail(waiting) = queue
    BY <2>1, FirstAndRest
  <2>3. waiting' = queue
    BY <1>3, <2>1, ConcatEmptySeq DEF InHand, Convertion
  <2>4. serving /\ serving'
    BY <1>3 DEF Convertion, WorkerGoes
  <2>5. started' = Append(started, hand)
    BY <1>3, ApplyPatches DEF IInv, TypeOK, Convertion
  <2>6. Abstract!Start
    BY <2>2, <2>3, <2>4, <2>5 DEF Abstract!Start
  <2>7. QED
    BY <2>6 DEF Abstract!Next
<1>4. CASE ConvertionFails
  <2>1. hand \in Videos /\ queue \in Seq(Videos) /\ waiting = <<hand>> \o queue
    BY <1>4, InHandType DEF IInv, TypeOK, ConvertionFails, WorkerGoes
  <2>2. waiting # <<>>
    BY <2>1, FirstAndRest
  <2>3. UNCHANGED <<waiting, started>> /\ serving /\ ~serving'
    BY <1>4 DEF ConvertionFails, WorkerGoes, InHand, history
  <2>4. Abstract!Fail
    BY <2>2, <2>3 DEF Abstract!Fail
  <2>5. QED
    BY <2>4 DEF Abstract!Next
<1>5. CASE Return
  <2>1. waiting = <<>>
    BY <1>5, InHandType, ConcatEmptySeq DEF IInv, TypeOK, Return, WorkerGoes
  <2>2. UNCHANGED <<waiting, started>> /\ serving /\ ~serving'
    BY <1>5 DEF Return, WorkerGoes, InHand, history
  <2>3. Abstract!Close
    BY <2>1, <2>2 DEF Abstract!Close
  <2>4. QED
    BY <2>3 DEF Abstract!Next
<1>6. CASE \/ Lock \/ Test \/ Wait \/ SetStop \/ NotifyStopped \/ Join
           \/ \E p \in Producers : NotifyEnqueued(p)
  <2>1. UNCHANGED <<hand, queue, started>>
    BY <1>6 DEF Lock, Test, Wait, SetStop, NotifyStopped, Join, NotifyEnqueued,
                history
  <2>2. serving' = serving
    BY <1>6 DEF Lock, Test, Wait, SetStop, NotifyStopped, Join, NotifyEnqueued,
                NotifyAll, WorkerGoes
  <2>3. QED
    BY <2>1, <2>2 DEF InHand
<1>7. CASE UNCHANGED vars
  BY <1>7 DEF vars, history, InHand
<1>8. QED
  BY <1>1, <1>2, <1>3, <1>4, <1>5, <1>6, <1>7
     DEF Next, WorkerStep, OwnerStep, Abstract!Next

\* The controller implements the abstract queue: conversions start in the order
\* of enqueue, each once, and the worker leaves an empty queue unless a
\* conversion throws.
THEOREM Refinement == Spec => ImplementsQueue
<1>1. Init => Abstract!Init
  BY ConcatEmptySeq DEF Init, Abstract!Init, InHand
<1>2. QED
  BY <1>1, StepRefines, Invariance, PTL DEF Spec, ImplementsQueue, Abstract!Spec


-----------------------------------------------------------------------------
(* The end of the worker.                                                  *)

\* With stop_ set, a worker that is awake takes the next video or returns: it
\* never sleeps again, and it has at most five steps for each video there is.
\* What remains of ShutdownEnds, that the worker does take its steps, is
\* ENABLED and fairness.
THEOREM StoppedWorkerRunsDown == Spec => ShutdownRunsDown
<1>1. ASSUME IInv, [Next]_vars
      PROVE  [stop /\ Awake =>
                /\ Awake' /\ WorkLeft \in Nat
                /\ WorkerStep => WorkLeft' < WorkLeft
                /\ (\A p \in Producers, v \in Videos : ~Enqueue(p, v)) =>
                     WorkLeft' <= WorkLeft]_vars
  <2> SUFFICES ASSUME stop, Awake, ~UNCHANGED vars
               PROVE  /\ Awake' /\ WorkLeft \in Nat
                      /\ WorkerStep => WorkLeft' < WorkLeft
                      /\ (\A p \in Producers, v \in Videos : ~Enqueue(p, v)) =>
                           WorkLeft' <= WorkLeft
    OBVIOUS
  <2>1. queue \in Seq(Videos) /\ Len(queue) \in Nat
    BY <1>1 DEF IInv, TypeOK
  <2>2. StepsOf[worker] \in 0 .. 4
    BY <1>1 DEF Awake, StepsOf, IInv, TypeOK, Locked
  <2>3. WorkLeft \in Nat
    BY <2>1, <2>2 DEF WorkLeft
  <2>9. WorkLeft' \in Nat
    <3>1. IInv'
      BY <1>1, NextInv
    <3>2. Len(queue') \in Nat /\ StepsOf[worker'] \in 0 .. 5
      BY <3>1 DEF StepsOf, IInv, TypeOK, Locked
    <3>3. QED
      BY <3>2 DEF WorkLeft
  <2>4. CASE WorkerStep
    <3>1. CASE Lock \/ Test \/ Wait \/ Return \/ ConvertionFails
      <4>1. queue' = queue
        BY <3>1 DEF Lock, Test, Wait, Return, ConvertionFails
      <4>2. \/ worker = "lock" /\ worker' = "test"
            \/ worker = "test" /\ worker' = "take"
            \/ worker = "take" /\ worker' = "done"
            \/ worker = "convert" /\ worker' = "dead"
        BY <3>1 DEF Lock, Test, Wait, Return, ConvertionFails, WorkerGoes, Awake
      <4>7. StepsOf[worker'] \in 0 .. 4 /\ StepsOf[worker'] < StepsOf[worker]
        BY <4>2 DEF StepsOf
      <4>3. Awake'
        BY <3>1 DEF Lock, Test, Wait, Return, ConvertionFails, WorkerGoes, Awake
      <4>4. WorkLeft' = 5 * Len(queue) + StepsOf[worker']
        BY <4>1 DEF WorkLeft
      <4>5. WorkLeft' < WorkLeft
        BY <2>1, <2>2, <4>4, <4>7 DEF WorkLeft
      <4>6. QED
        BY <2>3, <2>9, <4>3, <4>5
    <3>2. CASE Take
      <4>1. /\ queue # <<>> /\ queue' = Tail(queue)
            /\ worker = "take" /\ worker' = "convert"
        BY <3>2 DEF Take, WorkerGoes
      <4>2. Len(Tail(queue)) = Len(queue) - 1
        BY <2>1, <4>1
      <4>3. WorkLeft = 5 * Len(queue) + 1 /\ WorkLeft' = 5 * (Len(queue) - 1) + 4
        BY <4>1, <4>2 DEF WorkLeft, StepsOf
      <4>4. WorkLeft' < WorkLeft
        BY <2>1, <4>3
      <4>5. QED
        BY <2>3, <2>9, <4>1, <4>4 DEF Awake
    <3>3. CASE Convertion
      <4>1. queue' = queue /\ worker = "convert" /\ worker' = "lock"
        BY <3>3 DEF Convertion, WorkerGoes
      <4>2. WorkLeft = 5 * Len(queue) + 4 /\ WorkLeft' = 5 * Len(queue) + 3
        BY <4>1 DEF WorkLeft, StepsOf
      <4>3. WorkLeft' < WorkLeft
        BY <2>1, <4>2
      <4>4. QED
        BY <2>3, <2>9, <4>1, <4>3 DEF Awake
    <3>4. QED
      BY <2>4, <3>1, <3>2, <3>3 DEF WorkerStep
  <2>5. ASSUME NEW p \in Producers, NEW v \in Videos, Enqueue(p, v)
        PROVE  worker' = worker
    BY <2>5 DEF Enqueue
  <2>6. CASE SetStop \/ OwnerStep \/ \E p \in Producers : NotifyEnqueued(p)
    <3>1. queue' = queue /\ worker' = worker
      BY <2>6 DEF SetStop, OwnerStep, NotifyStopped, Join, NotifyEnqueued, NotifyAll,
                  Awake
    <3>2. WorkLeft' = WorkLeft
      BY <3>1 DEF WorkLeft
    <3>4. CASE WorkerStep
      BY <2>4, <3>4
    <3>5. CASE ~WorkerStep
      BY <2>3, <3>1, <3>2, <3>5 DEF Awake
    <3>6. QED
      BY <3>4, <3>5
  <2>7. CASE \E p \in Producers, v \in Videos : Enqueue(p, v)
    <3>1. worker' = worker
      BY <2>5, <2>7
    <3>2. CASE WorkerStep
      BY <2>4, <3>2
    <3>3. CASE ~WorkerStep
      BY <2>3, <2>7, <3>1, <3>3 DEF Awake
    <3>4. QED
      BY <3>2, <3>3
  <2>8. QED
    BY <1>1, <2>4, <2>6, <2>7 DEF Next
<1>2. QED
  BY <1>1, Invariance, PTL DEF Spec, ShutdownRunsDown

=============================================================================

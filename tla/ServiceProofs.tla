---------------------------- MODULE ServiceProofs ----------------------------
(***************************************************************************)
(* The safety of the whole service, for any number of videos, uploads,     *)
(* ffmpeg processes and crashes.                                           *)
(***************************************************************************)
EXTENDS ServiceProperties, TLAPS

\* A content that is none is a sequence of blocks.
LEMMA ContentIsBlocks ==
  ASSUME NEW c \in Content, c # None
  PROVE  c \in Seq(Blocks)
BY DEF Content

\* A place that may be viewed is an object of a video.
LEMMA ViewedPlaces ==
  ASSUME NEW place \in Viewed
  PROVE  /\ place \in Places /\ place[1] \in Videos /\ place[2] \in Objects
         /\ place = <<place[1], place[2]>>
BY ServiceAssumption DEF Viewed, Places

\* What the processes are.
Processes == [video : Videos, content : Content, at : Phases]

\* What the fields of a process and of its changes are.
LEMMA ProcessFields ==
  ASSUME IInv, NEW p \in DOMAIN process
  PROVE  /\ process \in Seq(Processes) /\ process[p] \in Processes
         /\ process[p].video \in Videos /\ process[p].content \in Content
<1>1. process \in Seq(Processes)
  BY DEF IInv, TypeOK, Processes
<1>2. process[p] \in Processes
  BY <1>1
<1>3. QED
  BY <1>1, <1>2 DEF Processes

\* Initially nothing is there.
LEMMA InitInv == Init => IInv
<1> SUFFICES ASSUME Init PROVE IInv
  OBVIOUS
<1> USE DEF Init, Upload!Init, Queue!Init, Empty
<1>1. TypeOK
  BY ServiceAssumption DEF TypeOK, Content, Upload!Stages
<1>2. PlacesInv /\ FfmpegInv /\ ReceivedInv
  BY DEF PlacesInv, FfmpegInv, ReceivedInv, Viewed, Objects, Phases
<1>3. ASSUME NEW v \in Videos
      PROVE  BuildInv(v) /\ ConversionInv(v) /\ DirectoryInv(v)
  BY DEF BuildInv, ConversionInv, DirectoryInv, Unsettled, Queued, Running, Places,
         Objects
<1>4. ServedInv /\ ServedWhole
  BY DEF ServedInv, ServedWhole, Viewed
<1>5. QED
  BY <1>1, <1>2, <1>3, <1>4 DEF IInv

\* A step that leaves the file, the stage and the processes of a video alone,
\* and queues it no further, keeps what is known of its conversions.
LEMMA ConversionKept ==
  ASSUME NEW w, ConversionInv(w),
         stage'[w] = stage[w], file'[w] = file[w], Running(w)' = Running(w),
         \A p \in Running(w) : process'[p] = process[p],
         Queued(w)' => Queued(w),
         \A i, j \in DOMAIN pending' : pending'[i] = w /\ pending'[j] = w => i = j
  PROVE  ConversionInv(w)'
<1>1. Unsettled(w)' => Unsettled(w)
  BY DEF Unsettled, Queued
<1>2. \A p \in Running(w)' :
        process'[p].at \in Objects => Whole(process'[p].content)
  BY DEF ConversionInv
<1>3. \A p, q \in Running(w)' : p = q
  BY DEF ConversionInv
<1>4. Queued(w)' => Running(w)' = {}
  BY DEF ConversionInv
<1>5. Unsettled(w)' => stage'[w] = "receiving" /\ Whole(file'[w])
  BY <1>1 DEF ConversionInv
<1>6. QED
  BY <1>2, <1>3, <1>4, <1>5 DEF ConversionInv, Whole

\* And one that leaves its directory alone keeps what is known of that.
LEMMA DirectoryKept ==
  ASSUME NEW w, DirectoryInv(w), Running(w)' = Running(w),
         \A p \in Running(w) : process'[p] = process[p],
         \A o \in Objects : out'[<<w, o>>] = out[<<w, o>>]
  PROVE  DirectoryInv(w)'
BY DEF DirectoryInv, Whole, Objects

-----------------------------------------------------------------------------
(* Uploads.                                                                *)

\* What an upload in progress receives touches no file and no conversion.
LEMMA PostStep ==
  ASSUME IInv, NEW v \in Videos, Post(v)
  PROVE  IInv'
<1>1. /\ UNCHANGED <<file, stage, delivered, conversions, out, snapshot, viewer,
                     restarts, excused>>
      /\ \A w \in Videos : w # v => received'[w] = received[w]
      /\ stage[v] = "receiving"
  BY DEF Post, Upload!Begin, Upload!Store, IInv, TypeOK
<1>2. /\ received' \in [Videos -> Seq(Blocks \cup {None}) \cup {None}]
      /\ received'[v] # None => Len(received'[v]) \in Lengths
  <2>1. CASE \E n \in Lengths : Upload!Begin(v, n)
    <3>1. PICK n \in Lengths : Upload!Begin(v, n)
      BY <2>1
    <3>2. /\ n \in Nat
          /\ [i \in 1 .. n |-> None] \in Seq(Blocks \cup {None})
          /\ Len([i \in 1 .. n |-> None]) = n
      BY ServiceAssumption
    <3>3. QED
      BY <3>1, <3>2 DEF Upload!Begin, IInv, TypeOK
  <2>2. CASE \E n \in Lengths : \E i \in 1 .. n, b \in Blocks : Upload!Store(v, i, b)
    <3>1. PICK i \in Nat, b \in Blocks : Upload!Store(v, i, b)
      BY <2>2, ServiceAssumption
    <3>2. /\ received[v] \in Seq(Blocks \cup {None}) /\ i \in DOMAIN received[v]
          /\ received' = [received EXCEPT ![v] = [received[v] EXCEPT ![i] = b]]
      BY <3>1 DEF Upload!Store, IInv, TypeOK
    <3>3. /\ [received[v] EXCEPT ![i] = b] \in Seq(Blocks \cup {None})
          /\ Len([received[v] EXCEPT ![i] = b]) = Len(received[v])
      BY <3>2
    <3>4. QED
      BY <3>1, <3>2, <3>3 DEF Upload!Store, ReceivedInv, IInv, TypeOK
  <2>3. QED
    BY <2>1, <2>2 DEF Post
<1>3. TypeOK'
  BY <1>1, <1>2 DEF IInv, TypeOK, conversions, snapshot, viewer
<1>7. ReceivedInv'
  BY <1>1, <1>2 DEF IInv, ReceivedInv, Upload!Complete
<1>4. PlacesInv' /\ FfmpegInv' /\ ServedInv' /\ ServedWhole'
  BY <1>1 DEF IInv, PlacesInv, FfmpegInv, ServedInv, ServedWhole, conversions,
              snapshot, viewer
<1>5. ASSUME NEW w \in Videos \ excused'
      PROVE  BuildInv(w)' /\ ConversionInv(w)' /\ DirectoryInv(w)'
  <2>1. BuildInv(w) /\ ConversionInv(w) /\ DirectoryInv(w)
    BY <1>1 DEF IInv
  <2>2. BuildInv(w)'
    BY <1>1, <2>1 DEF BuildInv
  <2>3. ConversionInv(w)' /\ DirectoryInv(w)'
    BY <1>1, <2>1 DEF ConversionInv, DirectoryInv, Unsettled, Queued, Running,
                      conversions
  <2>4. QED
    BY <2>2, <2>3
<1>6. QED
  BY <1>7, <1>3, <1>4, <1>5 DEF IInv

\* A build that finds the conversions of the video settled, and its result
\* file opened, writes as many blocks as there are.
LEMMA BuildStepStep ==
  ASSUME IInv, NEW v \in Videos, BuildStep(v)
  PROVE  IInv'
<1>1. /\ UNCHANGED <<delivered, conversions, out, snapshot, viewer, restarts>>
      /\ excused' \in SUBSET Videos /\ excused \subseteq excused'
  BY DEF BuildStep, Excuse, Upload!Build, Upload!StartBuild, Upload!StartBlind,
         Upload!EndBlind, Upload!Grow, Upload!Release, IInv, TypeOK
<1>2. /\ \A w \in Videos : w # v => /\ received'[w] = received[w]
                                    /\ file'[w] = file[w] /\ stage'[w] = stage[w]
      /\ stage' \in [Videos -> Upload!Stages]
  <2> USE DEF IInv, TypeOK, Upload!Goes, Upload!Stages
  <2>1. CASE Upload!StartBuild(v)
    BY <2>1 DEF Upload!StartBuild
  <2>2. CASE Upload!StartBlind(v)
    BY <2>2 DEF Upload!StartBlind
  <2>3. CASE Upload!EndBlind(v)
    BY <2>3 DEF Upload!EndBlind
  <2>4. CASE Upload!Grow(v)
    BY <2>4 DEF Upload!Grow
  <2>5. CASE Upload!Release(v)
    BY <2>5 DEF Upload!Release
  <2>6. QED
    BY <2>1, <2>2, <2>3, <2>4, <2>5 DEF BuildStep, Upload!Build
<1>3. ASSUME Upload!Grow(v)
      PROVE  /\ received[v] # None /\ received[v] \in Seq(Blocks \cup {None})
             /\ file[v] \in Seq(Blocks)
             /\ received[v][Len(file[v]) + 1] \in Blocks
             /\ Len(file[v]) < Len(received[v]) /\ Len(received[v]) \in Lengths
             /\ file' = [file EXCEPT ![v] =
                           Append(file[v], received[v][Len(file[v]) + 1])]
             /\ stage'[v] = IF Len(file[v]) + 2 \in DOMAIN received[v] THEN "building"
                            ELSE "built"
             /\ received' = received
  <2>1. /\ stage[v] = "building" /\ Len(file[v]) + 1 \in DOMAIN received[v]
        /\ file' = [file EXCEPT ![v] =
                      Append(file[v], received[v][Len(file[v]) + 1])]
        /\ received' = received
    BY <1>3 DEF Upload!Grow, Upload!NextBlock
  <2>2. /\ Upload!Complete(v) /\ file[v] \in Seq(Blocks)
        /\ Len(file[v]) < Len(received[v])
        /\ received[v] # None => Len(received[v]) \in Lengths
    BY <2>1 DEF IInv, ReceivedInv
  <2>3. received[v] # None /\ received[v][Len(file[v]) + 1] # None
    BY <2>1, <2>2 DEF Upload!Complete
  <2>4. received[v] \in Seq(Blocks \cup {None})
    BY <2>3 DEF IInv, TypeOK
  <2>5. received[v][Len(file[v]) + 1] \in Blocks
    BY <2>1, <2>3, <2>4
  <2>6. Len(file[v]) + 1 + 1 = Len(file[v]) + 2
    BY <2>2
  <2>7. stage'[v] = IF Len(file[v]) + 2 \in DOMAIN received[v] THEN "building"
                    ELSE "built"
    BY <1>3, <2>6 DEF Upload!Grow, Upload!NextBlock, IInv, TypeOK
  <2>8. QED
    BY <2>1, <2>2, <2>3, <2>4, <2>5, <2>7
<1>4. \/ /\ Upload!StartBuild(v) /\ Upload!Complete(v) /\ received' = received
         /\ stage[v] = "receiving" /\ stage'[v] = "building"
         /\ file'[v] = <<>> /\ file' \in [Videos -> Content]
         /\ Unsettled(v) => v \in excused'
      \/ /\ stage[v] = "receiving" /\ stage'[v] = "blind" /\ v \in excused'
         /\ UNCHANGED <<received, file>>
      \/ /\ stage[v] = "blind" /\ stage'[v] = "built" /\ UNCHANGED <<received, file>>
      \/ /\ Upload!Grow(v) /\ stage[v] = "building"
      \/ /\ stage[v] = "built" /\ stage'[v] = "due" /\ file' = file
         /\ received' = [received EXCEPT ![v] = None]
  <2> USE DEF Upload!Goes
  <2>1. CASE Upload!StartBuild(v)
    BY <2>1 DEF Upload!StartBuild, BuildStep, Excuse, IInv, TypeOK, Content
  <2>2. CASE Upload!StartBlind(v)
    BY <2>2 DEF Upload!StartBlind, BuildStep, Excuse, IInv, TypeOK
  <2>3. CASE Upload!EndBlind(v)
    BY <2>3 DEF Upload!EndBlind, IInv, TypeOK
  <2>4. CASE Upload!Grow(v)
    BY <2>4 DEF Upload!Grow
  <2>5. CASE Upload!Release(v)
    BY <2>5 DEF Upload!Release, IInv, TypeOK
  <2>6. QED
    BY <2>1, <2>2, <2>3, <2>4, <2>5 DEF BuildStep, Upload!Build
<1>5. /\ received' \in [Videos -> Seq(Blocks \cup {None}) \cup {None}]
      /\ file' \in [Videos -> Content]
  <2>1. /\ received \in [Videos -> Seq(Blocks \cup {None}) \cup {None}]
        /\ file \in [Videos -> Content]
    BY DEF IInv, TypeOK
  <2>2. CASE Upload!Grow(v)
    <3>1. Append(file[v], received[v][Len(file[v]) + 1]) \in Content
      BY <1>3, <2>2 DEF Content
    <3>2. QED
      BY <1>3, <2>1, <2>2, <3>1
  <2>3. CASE ~Upload!Grow(v)
    BY <1>4, <2>1, <2>3
  <2>4. QED
    BY <2>2, <2>3
<1>6. TypeOK'
  BY <1>1, <1>2, <1>5 DEF IInv, TypeOK, conversions, snapshot, viewer
<1>7. ReceivedInv'
  <2>1. ASSUME NEW w \in Videos, w # v
        PROVE  /\ received'[w] # None => Len(received'[w]) \in Lengths
               /\ stage'[w] = "building" =>
                    /\ Upload!Complete(w)' /\ file'[w] \in Seq(Blocks)
                    /\ Len(file'[w]) < Len(received'[w])
    BY <1>2, <2>1 DEF IInv, ReceivedInv, Upload!Complete
  <2>2. received'[v] # None => Len(received'[v]) \in Lengths
    BY <1>3, <1>4 DEF IInv, ReceivedInv, TypeOK
  <2>3. ASSUME stage'[v] = "building"
        PROVE  /\ Upload!Complete(v)' /\ file'[v] \in Seq(Blocks)
               /\ Len(file'[v]) < Len(received'[v])
    <3>1. CASE stage[v] = "receiving" /\ Upload!Complete(v) /\ received' = received
               /\ file'[v] = <<>>
      <4>1. Len(received[v]) \in Nat \ {0}
        BY <3>1, ServiceAssumption DEF Upload!Complete, IInv, ReceivedInv
      <4>2. QED
        BY <3>1, <4>1 DEF Upload!Complete
    <3>2. CASE Upload!Grow(v) /\ stage[v] = "building"
      <4>1. Upload!Complete(v) /\ received' = received
        BY <1>3, <3>2 DEF IInv, ReceivedInv
      <4>2. file'[v] = Append(file[v], received[v][Len(file[v]) + 1])
        BY <1>3, <3>2 DEF IInv, TypeOK
      <4>3. Len(file[v]) + 2 \in DOMAIN received[v]
        BY <1>3, <2>3, <3>2
      <4>4. QED
        BY <1>3, <3>2, <4>1, <4>2, <4>3 DEF Upload!Complete
    <3>3. QED
      BY <1>4, <2>3, <3>1, <3>2
  <2>4. QED
    BY <2>1, <2>2, <2>3 DEF ReceivedInv
<1>8. PlacesInv' /\ FfmpegInv' /\ ServedInv' /\ ServedWhole'
  BY <1>1 DEF IInv, PlacesInv, FfmpegInv, ServedInv, ServedWhole, conversions,
              snapshot, viewer
<1>9. ASSUME NEW w \in Videos \ excused'
      PROVE  BuildInv(w)' /\ ConversionInv(w)' /\ DirectoryInv(w)'
  <2>1. BuildInv(w) /\ ConversionInv(w) /\ DirectoryInv(w)
    BY <1>1 DEF IInv
  <2>2. /\ Unsettled(w)' = Unsettled(w) /\ Queued(w)' = Queued(w)
        /\ Running(w)' = Running(w)
    BY <1>1 DEF Unsettled, Queued, Running, conversions
  <2>3. DirectoryInv(w)'
    BY <1>1, <2>1, <2>2 DEF DirectoryInv, conversions
  <2>4. w = v => ~Unsettled(v)
    BY <1>4, <2>1 DEF BuildInv, ConversionInv
  <2>5. ConversionInv(w)'
    BY <1>1, <1>2, <2>1, <2>2, <2>4 DEF ConversionInv, conversions
  <2>6. BuildInv(w)'
    <3>1. CASE w # v
      BY <1>2, <2>1, <3>1 DEF BuildInv
    <3>2. CASE w = v /\ Upload!Grow(v)
      <4>1. file'[v] = Append(file[v], received[v][Len(file[v]) + 1])
        BY <1>3, <3>2 DEF IInv, TypeOK
      <4>2. stage'[v] = "built" => Len(file'[v]) = Len(received[v])
        BY <1>3, <3>2, <4>1
      <4>3. file'[v] \in Seq(Blocks)
        BY <1>3, <3>2, <4>1
      <4>4. QED
        BY <1>3, <3>2, <4>2, <4>3 DEF BuildInv, Whole
    <3>3. CASE w = v /\ ~Upload!Grow(v)
      BY <1>4, <2>1, <3>3 DEF BuildInv, Whole
    <3>4. QED
      BY <3>1, <3>2, <3>3
  <2>7. QED
    BY <2>3, <2>5, <2>6
<1>10. QED
  BY <1>6, <1>7, <1>8, <1>9 DEF IInv


\* What is delivered is whole and waits for its conversion, the only one.
LEMMA CallbackStep ==
  ASSUME IInv, NEW v \in Videos, Callback(v)
  PROVE  IInv'
<1>1. /\ stage[v] = "due" /\ stage' = [stage EXCEPT ![v] = "receiving"]
      /\ delivered' = Append(delivered, v) /\ pending' = Append(pending, v)
      /\ excused' \in SUBSET Videos /\ excused \subseteq excused'
      /\ UNCHANGED <<received, file, started, open, process, out, snapshot, viewer,
                     restarts>>
  BY DEF Callback, Upload!Deliver, Upload!Goes, Queue!Add, Excuse, IInv, TypeOK
<1>2. TypeOK'
  BY <1>1 DEF IInv, TypeOK, snapshot, viewer, Upload!Stages
<1>3. PlacesInv' /\ FfmpegInv' /\ ServedInv' /\ ServedWhole'
  BY <1>1 DEF IInv, PlacesInv, FfmpegInv, ServedInv, ServedWhole, snapshot, viewer
<1>4. ReceivedInv'
  BY <1>1 DEF IInv, ReceivedInv, Upload!Complete, TypeOK
<1>5. pending \in Seq(Videos)
  BY DEF IInv, TypeOK
<1>6. ASSUME NEW w \in Videos \ excused'
      PROVE  BuildInv(w)' /\ ConversionInv(w)' /\ DirectoryInv(w)'
  <2>1. BuildInv(w) /\ ConversionInv(w) /\ DirectoryInv(w)
    BY <1>1 DEF IInv
  <2>2. Running(w)' = Running(w)
    BY <1>1 DEF Running
  <2>3. DirectoryInv(w)'
    BY <1>1, <2>1, <2>2 DEF DirectoryInv
  <2>4. BuildInv(w)'
    BY <1>1, <2>1 DEF BuildInv, IInv, TypeOK
  <2>5. CASE w # v
    <3>1. \A i \in DOMAIN pending' : pending'[i] = w =>
            i \in DOMAIN pending /\ pending[i] = w
      BY <1>1, <1>5, <2>5
    <3>2. stage'[w] = stage[w]
      BY <1>1, <2>5 DEF IInv, TypeOK
    <3>3. Queued(w)' => Queued(w)
      BY <3>1 DEF Queued
    <3>4. \A i, j \in DOMAIN pending' : pending'[i] = w /\ pending'[j] = w => i = j
      BY <2>1, <3>1 DEF ConversionInv
    <3>5. ConversionInv(w)'
      BY <1>1, <2>1, <2>2, <3>2, <3>3, <3>4, ConversionKept
    <3>6. QED
      BY <2>3, <2>4, <3>5
  <2>6. CASE w = v
    <3>1. ~Unsettled(v) /\ Whole(file[v])
      BY <1>1, <2>1, <2>6 DEF BuildInv, ConversionInv
    <3>2. /\ Running(v) = {}
          /\ \A i \in DOMAIN pending : pending[i] # v
      BY <3>1 DEF Unsettled
    <3>3. \A i \in DOMAIN pending' : pending'[i] = v => i = Len(pending) + 1
      BY <1>1, <1>5, <3>2
    <3>4. stage'[v] = "receiving"
      BY <1>1 DEF IInv, TypeOK
    <3>5. Running(v)' = {}
      BY <2>2, <2>6, <3>2
    <3>6. \A i, j \in DOMAIN pending' : pending'[i] = v /\ pending'[j] = v => i = j
      BY <3>3
    <3>7. Whole(file'[v])
      BY <1>1, <3>1
    <3>8. ConversionInv(v)'
      BY <3>4, <3>5, <3>6, <3>7 DEF ConversionInv, Whole
    <3>9. QED
      BY <2>3, <2>4, <2>6, <3>8
  <2>7. QED
    BY <2>3, <2>4, <2>5, <2>6
<1>7. QED
  BY <1>2, <1>3, <1>4, <1>6 DEF IInv

-----------------------------------------------------------------------------
(* Conversions.                                                            *)

\* The conversion that starts is no longer queued and runs alone.
LEMMA ConvertStep ==
  ASSUME IInv, Convert
  PROVE  IInv'
<1> DEFINE v == Head(pending)
           new == [video |-> v, content |-> None, at |-> "reading"]
<1>1. /\ pending # <<>> /\ pending \in Seq(Videos) /\ v \in Videos
      /\ pending' = Tail(pending) /\ started' = Append(started, v)
      /\ process' = Append(process, new)
      /\ UNCHANGED <<uploads, open, out, snapshot, viewer, restarts, excused>>
  BY DEF Convert, Queue!Start, IInv, TypeOK
<1>2. /\ new \in [video : Videos, content : Content, at : Phases]
      /\ process \in Seq([video : Videos, content : Content, at : Phases])
  BY <1>1 DEF IInv, TypeOK, Content, Phases
<1>3. /\ DOMAIN process' = DOMAIN process \cup {Len(process) + 1}
      /\ Len(process) + 1 \notin DOMAIN process
      /\ process'[Len(process) + 1] = new
      /\ \A p \in DOMAIN process : process'[p] = process[p]
  BY <1>1, <1>2
<1>4. TypeOK'
  BY <1>1, <1>2, SMTT(30) DEF IInv, TypeOK, uploads, snapshot, viewer
<1>5. FfmpegInv'
  BY <1>3 DEF IInv, FfmpegInv, Objects
<1>6. PlacesInv' /\ ReceivedInv' /\ ServedInv' /\ ServedWhole'
  BY <1>1 DEF IInv, PlacesInv, ReceivedInv, Upload!Complete, ServedInv, ServedWhole,
              uploads, snapshot, viewer
<1>7. ASSUME NEW w \in Videos \ excused'
      PROVE  BuildInv(w)' /\ ConversionInv(w)' /\ DirectoryInv(w)'
  <2>1. BuildInv(w) /\ ConversionInv(w) /\ DirectoryInv(w)
    BY <1>1 DEF IInv
  <2>2. BuildInv(w)'
    BY <1>1, <2>1 DEF BuildInv, uploads
  <2>3. /\ \A i \in DOMAIN pending' : i + 1 \in DOMAIN pending /\ pending'[i] = pending[i + 1]
        /\ 1 \in DOMAIN pending /\ pending[1] = v
        /\ \A i \in DOMAIN pending' : i \in Nat \ {0}
    BY <1>1
  <2>4. Queued(w)' => Queued(w)
    BY <2>3 DEF Queued
  <2>5. \A i, j \in DOMAIN pending' : pending'[i] = w /\ pending'[j] = w => i = j
    <3> SUFFICES ASSUME NEW i \in DOMAIN pending', NEW j \in DOMAIN pending',
                        pending'[i] = w, pending'[j] = w
                 PROVE  i = j
      OBVIOUS
    <3>1. i + 1 = j + 1
      BY <2>1, <2>3 DEF ConversionInv
    <3>2. QED
      BY <2>3, <3>1
  <2>6. CASE w # v
    <3>1. Running(w)' = Running(w)
      BY <1>3, <2>6 DEF Running
    <3>2. Running(w) \subseteq DOMAIN process
      BY DEF Running
    <3>3. DirectoryInv(w)'
      BY <1>1, <1>3, <2>1, <3>1, <3>2, DirectoryKept
    <3>4. ConversionInv(w)'
      BY <1>1, <1>3, <2>1, <2>4, <2>5, <3>1, <3>2, ConversionKept DEF uploads
    <3>5. QED
      BY <2>2, <3>3, <3>4
  <2>7. CASE w = v
    <3>1. Queued(w) /\ Unsettled(w)
      BY <2>3, <2>7 DEF Queued, Unsettled
    <3>2. Running(w) = {} /\ stage[w] = "receiving" /\ Whole(file[w])
      BY <2>1, <3>1 DEF ConversionInv
    <3>3. Running(w)' = {Len(process) + 1}
      BY <1>3, <2>7, <3>2 DEF Running
    <3>4. ~Queued(w)'
      <4> SUFFICES ASSUME NEW i \in DOMAIN pending', pending'[i] = w
                   PROVE  FALSE
        BY DEF Queued
      <4>1. i + 1 = 1
        BY <2>1, <2>3, <2>7 DEF ConversionInv
      <4>2. QED
        BY <2>3, <4>1
    <3>5. process'[Len(process) + 1].at = "reading"
      BY <1>3
    <3>6. DirectoryInv(w)'
      BY <1>1, <2>1, <3>2, <3>3, <3>5 DEF DirectoryInv
    <3>7. ConversionInv(w)'
      BY <1>1, <2>5, <3>2, <3>3, <3>4, <3>5
         DEF ConversionInv, Unsettled, Queued, uploads, Objects
    <3>8. QED
      BY <2>2, <3>6, <3>7
  <2>8. QED
    BY <2>6, <2>7
<1>8. QED
  BY <1>4, <1>5, <1>6, <1>7 DEF IInv

\* Nothing but the queue changes when the worker dies.
LEMMA ConvertFailsStep ==
  ASSUME IInv, ConvertFails
  PROVE  IInv'
<1>1. /\ UNCHANGED <<uploads, pending, started, process, out, snapshot, viewer,
                     restarts>>
      /\ open' = FALSE
      /\ excused' \in SUBSET Videos /\ excused \subseteq excused'
  BY DEF ConvertFails, Queue!Fail, Excuse, IInv, TypeOK
<1>2. TypeOK'
  BY <1>1, ZenonT(40) DEF IInv, TypeOK, uploads, snapshot, viewer
<1>3. PlacesInv' /\ FfmpegInv' /\ ReceivedInv' /\ ServedInv' /\ ServedWhole'
  BY <1>1 DEF IInv, PlacesInv, FfmpegInv, ReceivedInv, Upload!Complete, ServedInv,
              ServedWhole, uploads, snapshot, viewer
<1>4. ASSUME NEW w \in Videos \ excused'
      PROVE  BuildInv(w)' /\ ConversionInv(w)' /\ DirectoryInv(w)'
  <2>1. BuildInv(w) /\ ConversionInv(w) /\ DirectoryInv(w)
    BY <1>1 DEF IInv
  <2>2. QED
    BY <1>1, <2>1 DEF BuildInv, ConversionInv, DirectoryInv, Unsettled, Queued,
                      Running, uploads
<1>5. QED
  BY <1>2, <1>3, <1>4 DEF IInv

\* ffmpeg reads the file its video still has.
LEMMA FfmpegReadsStep ==
  ASSUME IInv, NEW p \in DOMAIN process, FfmpegReads(p)
  PROVE  IInv'
<1> DEFINE v == process[p].video
           source == file[v]
           at == IF source = None THEN "exited" ELSE "segments"
           new == [video |-> v, content |-> source, at |-> at]
<1>1. /\ process \in Seq(Processes) /\ process[p] \in Processes
      /\ v \in Videos /\ source \in Content
  BY ProcessFields DEF IInv, TypeOK
<1>2. /\ process[p].at = "reading"
      /\ process' = [process EXCEPT ![p] = new]
      /\ UNCHANGED <<uploads, pending, started, open, out, snapshot, viewer,
                     restarts, excused>>
  BY DEF FfmpegReads
<1>3. new \in Processes
  BY <1>1 DEF Processes, Phases, Objects
<1> HIDE DEF new
<1>4. /\ DOMAIN process' = DOMAIN process /\ process'[p] = new
      /\ \A q \in DOMAIN process : q # p => process'[q] = process[q]
  BY <1>1, <1>2
<1>5. TypeOK'
  BY <1>1, <1>2, <1>3 DEF IInv, TypeOK, Processes, uploads, snapshot, viewer
<1>6. FfmpegInv'
  BY <1>4 DEF IInv, FfmpegInv, Objects, new
<1>7. PlacesInv' /\ ReceivedInv' /\ ServedInv' /\ ServedWhole'
  BY <1>2 DEF IInv, PlacesInv, ReceivedInv, Upload!Complete, ServedInv, ServedWhole,
              uploads, snapshot, viewer
<1>8. ASSUME NEW w \in Videos \ excused'
      PROVE  BuildInv(w)' /\ ConversionInv(w)' /\ DirectoryInv(w)'
  <2>1. BuildInv(w) /\ ConversionInv(w) /\ DirectoryInv(w)
    BY <1>2 DEF IInv
  <2>2. BuildInv(w)'
    BY <1>2, <2>1 DEF BuildInv, uploads
  <2>3. Running(w) \subseteq DOMAIN process
    BY DEF Running
  <2>4. CASE w # v
    <3>1. Running(w)' = Running(w) /\ p \notin Running(w)
      BY <1>4, <2>4 DEF Running, new
    <3>2. DirectoryInv(w)'
      BY <1>2, <1>4, <2>1, <2>3, <3>1, DirectoryKept
    <3>3. ConversionInv(w)'
      <4>1. Queued(w)' => Queued(w)
        BY <1>2 DEF Queued
      <4>2. \A i, j \in DOMAIN pending' : pending'[i] = w /\ pending'[j] = w => i = j
        BY <1>2, <2>1 DEF ConversionInv
      <4>3. QED
        BY <1>2, <1>4, <2>1, <2>3, <3>1, <4>1, <4>2, ConversionKept DEF uploads
    <3>4. QED
      BY <2>2, <3>2, <3>3
  <2>5. CASE w = v
    <3>1. p \in Running(w)
      BY <1>2, <2>5 DEF Running
    <3>2. Running(w) = {p} /\ ~Queued(w) /\ Whole(source) /\ stage[w] = "receiving"
      BY <2>1, <2>5, <3>1 DEF ConversionInv, Unsettled
    <3>3. Running(w)' = IF source = None THEN {} ELSE {p}
      BY <1>4, <2>5, <3>2 DEF Running, new
    <3>4. DirectoryInv(w)'
      <4>1. out[<<w, "segments">>] = out[<<w, "manifest">>]
        BY <1>2, <2>1, <3>2 DEF DirectoryInv
      <4>2. \A q \in Running(w)' : process'[q].at = "segments"
        BY <1>4, <3>3 DEF new
      <4>3. QED
        BY <1>2, <2>1, <4>1, <4>2 DEF DirectoryInv, Whole
    <3>5. ConversionInv(w)'
      <4>1. ~Queued(w)' /\ stage'[w] = "receiving" /\ Whole(file'[w])
        BY <1>2, <2>5, <3>2 DEF Queued, uploads
      <4>2. \A q, r \in Running(w)' : q = r
        BY <3>3
      <4>3. \A q \in Running(w)' : process'[q].content = source
        BY <1>4, <3>3 DEF new
      <4>4. QED
        BY <3>2, <4>1, <4>2, <4>3 DEF ConversionInv, Queued, Whole
    <3>6. QED
      BY <2>2, <3>4, <3>5
  <2>6. QED
    BY <2>4, <2>5
<1>9. QED
  BY <1>5, <1>6, <1>7, <1>8 DEF IInv

\* ffmpeg writes the segments and then the manifest of what it has read.
LEMMA FfmpegWritesStep ==
  ASSUME IInv, NEW p \in DOMAIN process, FfmpegWrites(p)
  PROVE  IInv'
<1> DEFINE v == process[p].video
           content == process[p].content
           at == process[p].at
           next == IF at = "segments" THEN "manifest" ELSE "exited"
<1>1. /\ process \in Seq(Processes) /\ process[p] \in Processes
      /\ v \in Videos /\ content \in Content /\ at \in Objects /\ content # None
  <2>1. at \in Objects
    BY DEF FfmpegWrites
  <2>2. content # None
    BY <2>1 DEF IInv, FfmpegInv
  <2>3. QED
    BY <2>1, <2>2, ProcessFields
<1>2. /\ process' = [process EXCEPT ![p].at = next]
      /\ out' = [out EXCEPT ![<<v, at>>] = content]
      /\ UNCHANGED <<uploads, pending, started, open, snapshot, viewer, restarts,
                     excused>>
  BY DEF FfmpegWrites
<1>3. /\ DOMAIN process' = DOMAIN process
      /\ process'[p].video = v /\ process'[p].content = content
      /\ process'[p].at = next
      /\ \A q \in DOMAIN process : q # p => process'[q] = process[q]
  BY <1>1, <1>2 DEF Processes
<1>4. process' \in Seq(Processes)
  <2>1. [process[p] EXCEPT !.at = next] \in Processes
    BY <1>1 DEF Processes, Phases, Objects
  <2>2. process' = [process EXCEPT ![p] = [process[p] EXCEPT !.at = next]]
    BY <1>2
  <2>3. QED
    BY <1>1, <2>1, <2>2
<1>5. /\ out \in [Places -> Content] /\ out' \in [Places -> Content]
      /\ <<v, at>> \in Places /\ out'[<<v, at>>] = content
      /\ \A place \in Places : place # <<v, at>> => out'[place] = out[place]
  BY <1>1, <1>2 DEF IInv, TypeOK, Places
<1> HIDE DEF next
<1>6. TypeOK'
  BY <1>2, <1>4, <1>5 DEF IInv, TypeOK, Processes, uploads, snapshot, viewer
<1>7. FfmpegInv'
  BY <1>1, <1>3 DEF IInv, FfmpegInv
<1>8. PlacesInv'
  BY <1>1, <1>2, <1>5, ViewedPlaces DEF IInv, PlacesInv, snapshot
<1>9. ReceivedInv' /\ ServedInv' /\ ServedWhole'
  BY <1>2 DEF IInv, ReceivedInv, Upload!Complete, ServedInv, ServedWhole,
              uploads, snapshot, viewer
<1>10. ASSUME NEW w \in Videos \ excused'
       PROVE  BuildInv(w)' /\ ConversionInv(w)' /\ DirectoryInv(w)'
  <2>1. BuildInv(w) /\ ConversionInv(w) /\ DirectoryInv(w)
    BY <1>2 DEF IInv
  <2>2. BuildInv(w)'
    BY <1>2, <2>1 DEF BuildInv, uploads
  <2>3. Running(w) \subseteq DOMAIN process
    BY DEF Running
  <2>4. /\ Queued(w)' <=> Queued(w)
        /\ \A i, j \in DOMAIN pending' : pending'[i] = w /\ pending'[j] = w => i = j
    BY <1>2, <2>1 DEF ConversionInv, Queued
  <2>5. CASE w # v
    <3>1. Running(w)' = Running(w) /\ p \notin Running(w)
      BY <1>3, <2>5 DEF Running
    <3>2. \A o \in Objects : out'[<<w, o>>] = out[<<w, o>>]
      BY <1>5, <2>5 DEF Places
    <3>3. DirectoryInv(w)'
      BY <1>3, <2>1, <2>3, <3>1, <3>2, DirectoryKept
    <3>4. ConversionInv(w)'
      BY <1>2, <1>3, <2>1, <2>3, <2>4, <3>1, ConversionKept DEF uploads
    <3>5. QED
      BY <2>2, <3>3, <3>4
  <2>6. CASE w = v
    <3>1. p \in Running(w)
      BY <1>1, <2>6 DEF Running, Objects
    <3>2. /\ Running(w) = {p} /\ ~Queued(w) /\ Whole(content)
          /\ stage[w] = "receiving" /\ Whole(file[w])
      BY <1>1, <2>1, <3>1 DEF ConversionInv, Unsettled
    <3>3. CASE at = "segments"
      <4>1. next = "manifest"
        BY <3>3 DEF next
      <4>2. Running(w)' = {p}
        BY <1>3, <2>6, <3>2, <4>1 DEF Running
      <4>3. /\ out'[<<w, "segments">>] = content
            /\ out'[<<w, "manifest">>] = out[<<w, "manifest">>]
        BY <1>5, <2>6, <3>3 DEF Places, Objects
      <4>4. DirectoryInv(w)'
        BY <1>3, <2>1, <3>2, <4>1, <4>2, <4>3 DEF DirectoryInv, Whole, Objects
      <4>5. ConversionInv(w)'
        BY <1>2, <1>3, <2>4, <3>2, <4>1, <4>2
           DEF ConversionInv, Queued, Whole, uploads
      <4>6. QED
        BY <2>2, <4>4, <4>5
    <3>4. CASE at = "manifest"
      <4>1. next = "exited"
        BY <3>4 DEF next
      <4>2. Running(w)' = {}
        BY <1>3, <2>6, <3>2, <4>1 DEF Running
      <4>3. /\ out'[<<w, "manifest">>] = content
            /\ out'[<<w, "segments">>] = out[<<w, "segments">>]
        BY <1>5, <2>6, <3>4 DEF Places, Objects
      <4>4. out[<<w, "segments">>] = content
        BY <2>1, <3>1, <3>4 DEF DirectoryInv
      <4>5. DirectoryInv(w)'
        BY <3>2, <4>2, <4>3, <4>4 DEF DirectoryInv, Whole, Objects
      <4>6. ConversionInv(w)'
        BY <2>4, <3>2, <4>2 DEF ConversionInv, Queued, Unsettled
      <4>7. QED
        BY <2>2, <4>5, <4>6
    <3>5. QED
      BY <1>1, <3>3, <3>4 DEF Objects
  <2>7. QED
    BY <2>5, <2>6
<1>11. QED
  BY <1>6, <1>7, <1>8, <1>9, <1>10 DEF IInv

-----------------------------------------------------------------------------
(* The file cache and StreamHandler.                                       *)

\* Nothing else than the snapshot and the viewer is concerned.
LEMMA ViewerKeeps ==
  ASSUME IInv, UNCHANGED <<uploads, conversions, out, restarts, excused>>
  PROVE  /\ FfmpegInv' /\ ReceivedInv'
         /\ \A w \in Videos \ excused' :
              BuildInv(w)' /\ ConversionInv(w)' /\ DirectoryInv(w)'
<1>1. FfmpegInv' /\ ReceivedInv'
  BY DEF IInv, FfmpegInv, ReceivedInv, Upload!Complete, uploads, conversions
<1>2. ASSUME NEW w \in Videos \ excused'
      PROVE  BuildInv(w)' /\ ConversionInv(w)' /\ DirectoryInv(w)'
  <2>1. BuildInv(w) /\ ConversionInv(w) /\ DirectoryInv(w)
    BY DEF IInv
  <2>2. QED
    BY <2>1 DEF BuildInv, ConversionInv, DirectoryInv, Unsettled, Queued, Running,
                uploads, conversions
<1>3. QED
  BY <1>1, <1>2

\* What is in place and undisturbed is whole.
LEMMA PlacesWhole ==
  ASSUME IInv, NEW place \in Viewed, place[1] \notin excused, out[place] # None
  PROVE  Whole(out[place])
<1>1. place[1] \in Videos \ excused /\ place[2] \in Objects
  BY ViewedPlaces
<1>2. place = <<place[1], place[2]>>
  BY ViewedPlaces
<1>3. DirectoryInv(place[1])
  BY <1>1 DEF IInv
<1>4. out[<<place[1], place[2]>>] # None => Whole(out[<<place[1], place[2]>>])
  BY <1>1, <1>3 DEF DirectoryInv
<1>5. QED
  BY <1>2, <1>4

\* A file that is read, and a snapshot that is published, keep what the last
\* snapshot had.
LEMMA RefreshSteps ==
  ASSUME IInv, RefreshStep
  PROVE  IInv'
<1>1. UNCHANGED <<uploads, conversions, out, viewer, restarts, excused>>
  BY DEF RefreshStep, Publish, ReadFile
<1>2. /\ out \in [Places -> Content] /\ cache \in [Viewed -> Content]
      /\ fresh \in [Viewed -> Content] /\ unread \in SUBSET Viewed
  BY DEF IInv, TypeOK
<1>3. /\ cache' \in [Viewed -> Content] /\ fresh' \in [Viewed -> Content]
      /\ unread' \in SUBSET Viewed
      /\ PlacesInv' /\ ServedInv'
  <2>1. CASE Publish
    <3>1. /\ unread = {} /\ cache' = fresh /\ unread' = Viewed
          /\ fresh' = [place \in Viewed |-> None]
      BY <2>1 DEF Publish, Empty
    <3>2. PlacesInv'
      BY <1>1, <3>1 DEF IInv, PlacesInv
    <3>3. ServedInv'
      BY <1>1, <3>1 DEF IInv, ServedInv, Whole, viewer
    <3>4. QED
      BY <1>2, <3>1, <3>2, <3>3 DEF Content
  <2>2. ASSUME NEW place \in Viewed, ReadFile(place)
        PROVE  /\ cache' \in [Viewed -> Content] /\ fresh' \in [Viewed -> Content]
               /\ unread' \in SUBSET Viewed
               /\ PlacesInv' /\ ServedInv'
    <3>1. /\ cache' = cache /\ unread' = unread \ {place}
          /\ fresh' = [fresh EXCEPT ![place] = out[place]]
      BY <2>2 DEF ReadFile
    <3>2. out[place] \in Content
      BY <1>2, ViewedPlaces
    <3>3. PlacesInv'
      BY <1>1, <1>2, <3>1 DEF IInv, PlacesInv
    <3>4. place[1] \notin excused /\ out[place] # None => Whole(out[place])
      BY PlacesWhole
    <3>5. ServedInv'
      BY <1>1, <1>2, <3>1, <3>4 DEF IInv, ServedInv, Whole, viewer
    <3>6. QED
      BY <1>2, <3>1, <3>2, <3>3, <3>5
  <2>3. QED
    BY <2>1, <2>2 DEF RefreshStep
<1>4. ServedWhole'
  BY <1>1 DEF IInv, ServedWhole, Whole, viewer
<1>5. TypeOK'
  BY <1>1, <1>3 DEF IInv, TypeOK, uploads, conversions, viewer
<1>6. QED
  BY <1>1, <1>3, <1>4, <1>5, ViewerKeeps DEF IInv

\* StreamHandler finds what is in the snapshot, and answers what it has found.
LEMMA ViewerSteps ==
  ASSUME IInv,
         AnswerStep \/ \E place \in Viewed : HandleStreamRequest(place)
  PROVE  IInv'
<1>1. UNCHANGED <<uploads, conversions, out, snapshot, restarts, excused>>
  BY DEF AnswerStep, NotFound, PushBodyChunk, HandleStreamRequest
<1>2. /\ request' = None \/ request' \in [place : Viewed, found : Content]
      /\ \/ reply' \in {None, [status |-> 404]}
         \/ reply' \in [status : {200}, place : Viewed, length : Seq(Blocks),
                        body : Seq(Blocks)]
      /\ ServedInv' /\ ServedWhole'
  <2>1. CASE NotFound
    BY <1>1, <2>1 DEF NotFound, IInv, ServedInv, ServedWhole, Whole, snapshot
  <2>2. CASE PushBodyChunk
    <3>1. /\ request \in [place : Viewed, found : Content] /\ request.found # None
          /\ request' = None
          /\ reply' = [status |-> 200, place |-> request.place,
                       length |-> request.found, body |-> request.found]
      BY <2>2 DEF PushBodyChunk, IInv, TypeOK
    <3>2. request # None
      BY <2>2 DEF PushBodyChunk
    <3>3. request.found \in Seq(Blocks) /\ request.place \in Viewed
      BY <3>1, ContentIsBlocks
    <3>4. request.place[1] \notin excused => Whole(request.found)
      BY <3>1, <3>2 DEF IInv, ServedInv
    <3>5. ServedWhole'
      BY <1>1, <3>1, <3>4 DEF ServedWhole, Whole
    <3>6. ServedInv'
      BY <1>1, <3>1 DEF IInv, ServedInv, Whole, snapshot
    <3>7. QED
      BY <3>1, <3>3, <3>5, <3>6
  <2>3. ASSUME NEW place \in Viewed, HandleStreamRequest(place)
        PROVE  /\ request' \in [place : Viewed, found : Content]
               /\ reply' = None
               /\ ServedInv' /\ ServedWhole'
    <3>1. /\ request' = [place |-> place, found |-> cache[place]] /\ reply' = None
      BY <2>3 DEF HandleStreamRequest
    <3>2. cache[place] \in Content
      BY DEF IInv, TypeOK
    <3>3. ServedInv'
      BY <1>1, <3>1 DEF IInv, ServedInv, Whole, snapshot
    <3>4. QED
      BY <3>1, <3>2, <3>3 DEF ServedWhole
  <2>4. QED
    BY <2>1, <2>2, <2>3 DEF AnswerStep
<1>3. TypeOK'
  BY <1>1, <1>2 DEF IInv, TypeOK, uploads, conversions, snapshot
<1>4. PlacesInv'
  BY <1>1 DEF IInv, PlacesInv, snapshot
<1>5. QED
  BY <1>1, <1>2, <1>3, <1>4, ViewerKeeps DEF IInv

-----------------------------------------------------------------------------
(* The process.                                                            *)

\* A crash excuses the videos whose conversion it ends or forgets.
LEMMA CrashStep ==
  ASSUME IInv, NEW survivors \in SUBSET DOMAIN process, Crash(survivors)
  PROVE  IInv'
<1> DEFINE dead(p) == [process[p] EXCEPT !.at = "exited"]
<1>1. /\ received' = [v \in Videos |-> None]
      /\ stage' = [v \in Videos |-> "receiving"]
      /\ pending' = <<>> /\ open' = TRUE
      /\ process' = [p \in DOMAIN process |-> IF p \in survivors THEN process[p]
                                              ELSE dead(p)]
      /\ cache' = [place \in Viewed |-> out[place]]
      /\ fresh' = [place \in Viewed |-> None] /\ unread' = Viewed
      /\ request' = None /\ reply' = None
      /\ restarts' = restarts + 1
      /\ UNCHANGED <<file, delivered, started, out>>
  BY DEF Crash, Upload!Crash, Empty
<1>2. /\ excused' = excused \cup
           {v \in Videos :
              \/ \E i \in DOMAIN pending : pending[i] = v
              \/ \E p \in DOMAIN process \ survivors :
                   process[p].video = v /\ process[p].at # "exited"}
      /\ excused' \in SUBSET Videos
  BY DEF Crash, Excuse, IInv, TypeOK
<1>3. \A p \in DOMAIN process :
        /\ dead(p) \in Processes
        /\ dead(p).video = process[p].video /\ dead(p).at = "exited"
  BY ProcessFields DEF Processes, Phases
<1> HIDE DEF dead
<1>4. /\ DOMAIN process' = DOMAIN process
      /\ \A p \in DOMAIN process :
           process'[p] = IF p \in survivors THEN process[p] ELSE dead(p)
  BY <1>1
<1>5. process' \in Seq(Processes)
  <2>1. process \in Seq(Processes)
    BY DEF IInv, TypeOK, Processes
  <2>2. Len(process) \in Nat /\ DOMAIN process = 1 .. Len(process)
    BY <2>1
  <2>3. \A p \in 1 .. Len(process) :
          (IF p \in survivors THEN process[p] ELSE dead(p)) \in Processes
    BY <1>3, <2>2, ProcessFields
  <2>4. process' \in [1 .. Len(process) -> Processes]
    BY <1>1, <2>2, <2>3
  <2>5. QED
    BY <2>2, <2>4
<1>6. TypeOK'
  <2>1. \A place \in Viewed : out[place] \in Content
    BY ViewedPlaces DEF IInv, TypeOK
  <2>2. /\ cache' \in [Viewed -> Content] /\ fresh' \in [Viewed -> Content]
        /\ received' \in [Videos -> Seq(Blocks \cup {None}) \cup {None}]
        /\ stage' \in [Videos -> Upload!Stages]
    BY <1>1, <2>1 DEF Content, Upload!Stages
  <2>3. QED
    BY <1>1, <1>2, <1>5, <2>2 DEF IInv, TypeOK, Processes
<1>7. FfmpegInv'
  BY <1>3, <1>4 DEF IInv, FfmpegInv, Objects
<1>8. PlacesInv' /\ ReceivedInv' /\ ServedWhole'
  BY <1>1 DEF PlacesInv, ReceivedInv, ServedWhole
<1>9. ServedInv'
  <2>1. ASSUME NEW place \in Viewed, place[1] \notin excused', out[place] # None
        PROVE  Whole(out[place])
    BY <1>2, <2>1, PlacesWhole
  <2>2. QED
    BY <1>1, <2>1 DEF ServedInv, Whole
<1>10. ASSUME NEW w \in Videos \ excused'
       PROVE  BuildInv(w)' /\ ConversionInv(w)' /\ DirectoryInv(w)'
  <2>1. w \notin excused
    BY <1>2
  <2>2. BuildInv(w) /\ ConversionInv(w) /\ DirectoryInv(w)
    BY <2>1 DEF IInv
  <2>3. \A p \in Running(w) : p \in DOMAIN process /\ p \in survivors
    BY <1>2 DEF Running
  <2>4. \A p \in DOMAIN process : p \in Running(w)' <=> p \in Running(w)
    BY <1>3, <1>4, <2>3 DEF Running
  <2>5. Running(w)' = Running(w)
    BY <1>4, <2>4 DEF Running
  <2>6. \A p \in Running(w) : process'[p] = process[p]
    BY <1>4, <2>3
  <2>7. DirectoryInv(w)'
    BY <1>1, <2>2, <2>5, <2>6, DirectoryKept
  <2>8. BuildInv(w)' /\ stage'[w] = "receiving" /\ ~Queued(w)'
    BY <1>1 DEF BuildInv, Queued
  <2>9. Unsettled(w)' => Whole(file'[w])
    BY <1>1, <2>2, <2>5, <2>8 DEF ConversionInv, Unsettled, Queued
  <2>10. ConversionInv(w)'
    BY <1>1, <2>2, <2>5, <2>6, <2>8, <2>9, SMTT(30) DEF ConversionInv, Whole
  <2>11. QED
    BY <2>7, <2>8, <2>10
<1>11. QED
  BY <1>6, <1>7, <1>8, <1>9, <1>10 DEF IInv

-----------------------------------------------------------------------------
(* The theorems.                                                           *)

\* Every step keeps the inductive invariant.
LEMMA NextInv == IInv /\ [Next]_vars => IInv'
<1> SUFFICES ASSUME IInv, [Next]_vars PROVE IInv'
  OBVIOUS
<1>1. ASSUME NEW v \in Videos, Post(v) \/ BuildStep(v) \/ Callback(v)
      PROVE  IInv'
  BY <1>1, PostStep, BuildStepStep, CallbackStep
<1>2. CASE WorkerStep
  BY <1>2, ConvertStep, ConvertFailsStep DEF WorkerStep
<1>3. CASE FfmpegStep
  BY <1>3, FfmpegReadsStep, FfmpegWritesStep DEF FfmpegStep
<1>4. CASE RefreshStep
  BY <1>4, RefreshSteps
<1>5. CASE AnswerStep \/ \E place \in Viewed : HandleStreamRequest(place)
  BY <1>5, ViewerSteps
<1>6. ASSUME NEW survivors \in SUBSET DOMAIN process, Crash(survivors)
      PROVE  IInv'
  BY <1>6, CrashStep
<1>7. CASE UNCHANGED vars
  <2>1. UNCHANGED <<uploads, conversions, out, snapshot, viewer, restarts, excused>>
    BY <1>7 DEF vars
  <2>2. TypeOK' /\ PlacesInv' /\ ServedInv' /\ ServedWhole'
    BY <2>1 DEF IInv, TypeOK, PlacesInv, ServedInv, ServedWhole, Whole, uploads,
                conversions, snapshot, viewer
  <2>3. QED
    BY <2>1, <2>2, ViewerKeeps DEF IInv
<1>8. QED
  BY <1>1, <1>2, <1>3, <1>4, <1>5, <1>6, <1>7 DEF Next, UploadStep

\* The inductive invariant of the service holds for any number of videos,
\* uploads, conversions and crashes.
THEOREM Invariance == Spec => []IInv
<1>1. QED
  BY InitInv, NextInv, PTL DEF Spec

\* A viewer gets whole uploads, with the length announced.
THEOREM OnlyWholeUploadsServed == Spec => []ServedWhole
<1>1. IInv => ServedWhole
  BY DEF IInv
<1>2. QED
  BY <1>1, Invariance, PTL

\* The directory of a video has the segments and the manifest of one upload.
THEOREM OneConversionPerDirectory == Spec => []DirectoryIsOneConversion
<1>1. IInv => DirectoryIsOneConversion
  <2> SUFFICES ASSUME IInv, NEW v \in Videos \ excused
               PROVE  /\ \A o \in Objects : out[<<v, o>>] # None => Whole(out[<<v, o>>])
                      /\ Running(v) = {} =>
                           out[<<v, "segments">>] = out[<<v, "manifest">>]
    BY Zenon DEF DirectoryIsOneConversion
  <2>1. DirectoryInv(v)
    BY DEF IInv
  <2>2. QED
    BY <2>1 DEF DirectoryInv
<1>2. QED
  BY <1>1, Invariance, PTL

\* What could be viewed once can be viewed for ever.
THEOREM NothingDisappears == Spec => ObjectsStay
<1>1. ASSUME IInv, [Next]_vars
      PROVE  [\A place \in Viewed : cache[place] # None => cache'[place] # None]_vars
  <2> SUFFICES ASSUME NEW place \in Viewed, cache[place] # None, ~UNCHANGED vars
               PROVE  cache'[place] # None
    OBVIOUS
  <2>1. /\ out[place] # None
        /\ place \in unread \/ fresh[place] # None
    BY <1>1 DEF IInv, PlacesInv
  <2>2. CASE Publish
    BY <2>1, <2>2 DEF Publish
  <2>3. ASSUME NEW survivors \in SUBSET DOMAIN process, Crash(survivors)
        PROVE  cache'[place] # None
    BY <2>1, <2>3 DEF Crash
  <2>4. ASSUME NEW v \in Videos, Post(v) \/ BuildStep(v) \/ Callback(v)
        PROVE  cache' = cache
    BY <2>4 DEF Post, BuildStep, Callback, snapshot
  <2>5. ASSUME WorkerStep \/ FfmpegStep \/ AnswerStep
        PROVE  cache' = cache
    BY <2>5 DEF WorkerStep, Convert, ConvertFails, FfmpegStep, FfmpegReads,
                FfmpegWrites, AnswerStep, NotFound, PushBodyChunk, snapshot
  <2>6. ASSUME NEW q \in Viewed, ReadFile(q) \/ HandleStreamRequest(q)
        PROVE  cache' = cache
    BY <2>6 DEF ReadFile, HandleStreamRequest, snapshot
  <2>7. QED
    BY <1>1, <2>2, <2>3, <2>4, <2>5, <2>6 DEF Next, UploadStep, RefreshStep
<1>2. QED
  BY <1>1, Invariance, PTL DEF Spec, ObjectsStay


-----------------------------------------------------------------------------
(* The version that is viewed in the end.                                  *)

\* What concerns another video only leaves the versions of this one alone.
LEMMA VersionKept ==
  ASSUME NEW w \in Videos, ReadInv(w), Kept(w),
         file'[w] = file[w], stage'[w] = stage[w], restarts' = restarts,
         Delivered(w)' => Delivered(w), Queued(w)' <=> Queued(w),
         Running(w)' = Running(w),
         \A p \in Running(w) : process'[p] = process[p],
         \A o \in Objects : out'[<<w, o>>] = out[<<w, o>>]
  PROVE  ReadInv(w)' /\ Kept(w)'
<1>1. ReadInv(w)'
  BY DEF ReadInv
<1>2. Unsettled(w)' <=> Unsettled(w)
  BY DEF Unsettled, Queued
<1>3. ASSUME Delivered(w)', ~Unsettled(w)', NEW o \in Objects
      PROVE  /\ out'[<<w, o>>] # None
             /\ stage'[w] = "receiving" /\ restarts' = 0 =>
                  out'[<<w, o>>] = file'[w]
  BY <1>2, <1>3 DEF Kept
<1>4. QED
  BY <1>1, <1>3 DEF Kept

\* The steps that touch neither files, directories nor conversions.
LEMMA VersionElsewhere ==
  ASSUME IInv, VersionInv,
         UNCHANGED <<file, stage, delivered, conversions, out, restarts, excused>>
  PROVE  VersionInv'
<1> SUFFICES ASSUME NEW w \in Videos \ excused PROVE ReadInv(w)' /\ Kept(w)'
  BY DEF VersionInv
<1>1. ReadInv(w) /\ Kept(w)
  BY DEF VersionInv
<1>2. QED
  BY <1>1, VersionKept DEF Running, Queued, Delivered, conversions

\* A build changes the file when no conversion of it is left, and is then more
\* than receiving.
LEMMA VersionBuild ==
  ASSUME IInv, IInv', VersionInv, NEW v \in Videos, BuildStep(v)
  PROVE  VersionInv'
<1> SUFFICES ASSUME NEW w \in Videos \ excused' PROVE ReadInv(w)' /\ Kept(w)'
  BY DEF VersionInv
<1>1. /\ UNCHANGED <<delivered, conversions, out, restarts>>
      /\ excused \subseteq excused'
      /\ stage[v] = "receiving" /\ Unsettled(v) => v \in excused'
  BY DEF BuildStep, Excuse, Upload!Build, Upload!StartBuild, Upload!StartBlind,
         Upload!EndBlind, Upload!Grow, Upload!Release
<1>2. ReadInv(w) /\ Kept(w)
  BY <1>1 DEF VersionInv
<1>3. /\ Running(w)' = Running(w) /\ (Queued(w)' <=> Queued(w))
      /\ (Delivered(w)' <=> Delivered(w)) /\ (Unsettled(w)' <=> Unsettled(w))
      /\ process' = process
  BY <1>1 DEF Running, Queued, Delivered, Unsettled, conversions
<1>4. CASE w # v
  <2>1. file'[w] = file[w] /\ stage'[w] = stage[w]
    BY <1>4 DEF BuildStep, Upload!Build, Upload!StartBuild, Upload!StartBlind,
                Upload!EndBlind, Upload!Grow, Upload!Release, Upload!Goes, IInv,
                TypeOK
  <2>2. QED
    BY <1>1, <1>2, <1>3, <2>1, VersionKept
<1>5. CASE w = v
  <2>1. stage'[v] # "receiving"
    BY DEF BuildStep, Upload!Build, Upload!StartBuild, Upload!StartBlind,
           Upload!EndBlind, Upload!Grow, Upload!Release, Upload!Goes, IInv, TypeOK
  <2>2. ~Unsettled(v)
    <3>1. w \in Videos \ excused
      BY <1>1
    <3>2. Unsettled(v) => stage[v] = "receiving"
      BY <1>5, <3>1 DEF IInv, ConversionInv
    <3>3. QED
      BY <1>1, <1>5, <3>2
  <2>3. ReadInv(w)'
    BY <1>3, <1>5, <2>2 DEF ReadInv, Unsettled
  <2>4. Kept(w)'
    BY <1>1, <1>2, <1>3, <1>5, <2>1 DEF Kept
  <2>5. QED
    BY <2>3, <2>4
<1>6. QED
  BY <1>4, <1>5

\* A video that is delivered waits for its conversion.
LEMMA VersionCallback ==
  ASSUME IInv, VersionInv, NEW v \in Videos, Callback(v)
  PROVE  VersionInv'
<1> SUFFICES ASSUME NEW w \in Videos \ excused' PROVE ReadInv(w)' /\ Kept(w)'
  BY DEF VersionInv
<1>1. /\ stage' = [stage EXCEPT ![v] = "receiving"]
      /\ delivered' = Append(delivered, v) /\ pending' = Append(pending, v)
      /\ excused \subseteq excused'
      /\ UNCHANGED <<file, process, out, restarts>>
      /\ delivered \in Seq(Videos) /\ pending \in Seq(Videos)
  BY DEF Callback, Upload!Deliver, Upload!Goes, Queue!Add, Excuse, IInv, TypeOK
<1>2. ReadInv(w) /\ Kept(w)
  BY <1>1 DEF VersionInv
<1>3. Running(w)' = Running(w)
  BY <1>1 DEF Running
<1>4. CASE w # v
  <2>1. stage'[w] = stage[w]
    BY <1>1, <1>4 DEF IInv, TypeOK
  <2>2. Delivered(w)' => Delivered(w)
    BY <1>1, <1>4 DEF Delivered
  <2>3. Queued(w)' <=> Queued(w)
    <3>1. \A i \in DOMAIN pending' : pending'[i] = w =>
            i \in DOMAIN pending /\ pending[i] = w
      BY <1>1, <1>4
    <3>2. \A i \in DOMAIN pending : i \in DOMAIN pending' /\ pending'[i] = pending[i]
      BY <1>1
    <3>3. QED
      BY <3>1, <3>2 DEF Queued
  <2>4. QED
    BY <1>1, <1>2, <1>3, <2>1, <2>2, <2>3, VersionKept
<1>5. CASE w = v
  <2>1. /\ Len(pending) + 1 \in DOMAIN pending'
        /\ pending'[Len(pending) + 1] = v
    BY <1>1
  <2>2. Unsettled(w)'
    BY <1>5, <2>1 DEF Unsettled
  <2>3. ReadInv(w)'
    BY <1>1, <1>2, <1>3 DEF ReadInv
  <2>4. QED
    BY <2>2, <2>3 DEF Kept
<1>6. QED
  BY <1>4, <1>5

\* A conversion that starts goes from the queue to a process, which has read
\* nothing yet.
LEMMA VersionConvert ==
  ASSUME IInv, VersionInv, Convert
  PROVE  VersionInv'
<1> SUFFICES ASSUME NEW w \in Videos \ excused' PROVE ReadInv(w)' /\ Kept(w)'
  BY DEF VersionInv
<1> DEFINE v == Head(pending)
           new == [video |-> v, content |-> None, at |-> "reading"]
<1>1. /\ pending # <<>> /\ pending \in Seq(Videos) /\ v \in Videos
      /\ pending' = Tail(pending) /\ process' = Append(process, new)
      /\ UNCHANGED <<uploads, out, restarts, excused>>
      /\ process \in Seq(Processes)
  BY DEF Convert, Queue!Start, IInv, TypeOK, Processes
<1>2. /\ DOMAIN process' = DOMAIN process \cup {Len(process) + 1}
      /\ Len(process) + 1 \notin DOMAIN process
      /\ process'[Len(process) + 1] = new
      /\ \A p \in DOMAIN process : process'[p] = process[p]
  BY <1>1
<1>3. ReadInv(w) /\ Kept(w)
  BY <1>1 DEF VersionInv
<1>4. ReadInv(w)'
  <2> SUFFICES ASSUME NEW p \in Running(w)', process'[p].at \in Objects
               PROVE  process'[p].content = file'[w]
    BY DEF ReadInv
  <2>1. p \in DOMAIN process' /\ new.at = "reading"
    BY DEF Running
  <2>2. p \in DOMAIN process /\ process'[p] = process[p]
    BY <1>2, <2>1 DEF Objects
  <2>3. p \in Running(w)
    BY <2>2 DEF Running
  <2>4. QED
    BY <1>1, <1>3, <2>2, <2>3 DEF ReadInv, uploads
<1>5. CASE w = v
  <2>1. Len(process) + 1 \in Running(w)'
    BY <1>2, <1>5 DEF Running
  <2>2. Unsettled(w)'
    BY <2>1 DEF Unsettled
  <2>3. QED
    BY <1>4, <2>2 DEF Kept
<1>6. CASE w # v
  <2>1. Running(w)' = Running(w) /\ Running(w) \subseteq DOMAIN process
    BY <1>2, <1>6 DEF Running
  <2>2. Queued(w)' <=> Queued(w)
    <3>1. \A i \in DOMAIN pending' :
            i + 1 \in DOMAIN pending /\ pending'[i] = pending[i + 1]
      BY <1>1
    <3>2. \A i \in DOMAIN pending : pending[i] = w =>
            i - 1 \in DOMAIN pending' /\ pending'[i - 1] = w
      BY <1>1, <1>6
    <3>3. QED
      BY <3>1, <3>2 DEF Queued
  <2>3. Delivered(w)' => Delivered(w)
    BY <1>1 DEF Delivered, uploads
  <2>4. QED
    BY <1>1, <1>2, <1>3, <2>1, <2>2, <2>3, VersionKept DEF uploads
<1>7. QED
  BY <1>5, <1>6

\* The worker that dies excuses what waits.
LEMMA VersionConvertFails ==
  ASSUME IInv, VersionInv, ConvertFails
  PROVE  VersionInv'
<1> SUFFICES ASSUME NEW w \in Videos \ excused' PROVE ReadInv(w)' /\ Kept(w)'
  BY DEF VersionInv
<1>1. /\ UNCHANGED <<uploads, pending, process, out, restarts>>
      /\ excused \subseteq excused'
  BY DEF ConvertFails, Queue!Fail, Excuse
<1>2. ReadInv(w) /\ Kept(w)
  BY <1>1 DEF VersionInv
<1>3. QED
  BY <1>1, <1>2, VersionKept DEF Running, Queued, Delivered, uploads

\* ffmpeg reads the file that waits for it, which exists.
LEMMA VersionReads ==
  ASSUME IInv, VersionInv, NEW p \in DOMAIN process, FfmpegReads(p)
  PROVE  VersionInv'
<1> SUFFICES ASSUME NEW w \in Videos \ excused' PROVE ReadInv(w)' /\ Kept(w)'
  BY DEF VersionInv
<1> DEFINE v == process[p].video
           source == file[v]
           at == IF source = None THEN "exited" ELSE "segments"
           new == [video |-> v, content |-> source, at |-> at]
<1>1. /\ process[p].at = "reading"
      /\ process' = [process EXCEPT ![p] = new]
      /\ UNCHANGED <<uploads, pending, out, restarts, excused>>
      /\ process \in Seq(Processes)
  BY ProcessFields DEF FfmpegReads
<1>2. /\ DOMAIN process' = DOMAIN process /\ process'[p] = new
      /\ \A q \in DOMAIN process : q # p => process'[q] = process[q]
  BY <1>1
<1>3. ReadInv(w) /\ Kept(w)
  BY <1>1 DEF VersionInv
<1>4. /\ Queued(w)' <=> Queued(w)
      /\ Delivered(w)' => Delivered(w)
      /\ Running(w) \subseteq DOMAIN process
  BY <1>1 DEF Queued, Delivered, Running, uploads
<1>5. CASE w # v
  <2>1. Running(w)' = Running(w) /\ p \notin Running(w)
    BY <1>2, <1>5 DEF Running
  <2>2. QED
    BY <1>1, <1>2, <1>3, <1>4, <2>1, VersionKept DEF uploads
<1>6. CASE w = v
  <2>1. p \in Running(w)
    BY <1>1, <1>6 DEF Running
  <2>2. Whole(file[w])
    BY <1>1, <2>1 DEF IInv, ConversionInv, Unsettled
  <2>3. source # None
    BY <1>6, <2>2, ServiceAssumption DEF Whole
  <2>4. p \in Running(w)' /\ Unsettled(w)'
    BY <1>2, <1>6, <2>3 DEF Running, Unsettled
  <2>5. ASSUME NEW q \in Running(w)', process'[q].at \in Objects
        PROVE  process'[q].content = file'[w]
    <3>1. CASE q = p
      BY <1>1, <1>2, <1>6, <3>1 DEF uploads
    <3>2. CASE q # p
      <4>1. q \in Running(w) /\ process'[q] = process[q]
        BY <1>2, <3>2 DEF Running
      <4>2. QED
        BY <1>1, <1>3, <2>5, <4>1 DEF ReadInv, uploads
    <3>3. QED
      BY <3>1, <3>2
  <2>6. QED
    BY <2>4, <2>5 DEF ReadInv, Kept
<1>7. QED
  BY <1>5, <1>6

\* ffmpeg leaves in the directory what the result file holds.
LEMMA VersionWrites ==
  ASSUME IInv, VersionInv, NEW p \in DOMAIN process, FfmpegWrites(p)
  PROVE  VersionInv'
<1> SUFFICES ASSUME NEW w \in Videos \ excused' PROVE ReadInv(w)' /\ Kept(w)'
  BY DEF VersionInv
<1> DEFINE v == process[p].video
           content == process[p].content
           at == process[p].at
           next == IF at = "segments" THEN "manifest" ELSE "exited"
<1>1. /\ process \in Seq(Processes) /\ process[p] \in Processes
      /\ v \in Videos /\ at \in Objects /\ content # None
  <2>1. at \in Objects
    BY DEF FfmpegWrites
  <2>2. content # None
    BY <2>1 DEF IInv, FfmpegInv
  <2>3. QED
    BY <2>1, <2>2, ProcessFields
<1>2. /\ process' = [process EXCEPT ![p].at = next]
      /\ out' = [out EXCEPT ![<<v, at>>] = content]
      /\ UNCHANGED <<uploads, pending, restarts, excused>>
  BY DEF FfmpegWrites
<1>3. /\ DOMAIN process' = DOMAIN process
      /\ process'[p].video = v /\ process'[p].content = content
      /\ process'[p].at = next
      /\ \A q \in DOMAIN process : q # p => process'[q] = process[q]
  BY <1>1, <1>2 DEF Processes
<1>4. /\ <<v, at>> \in Places /\ out'[<<v, at>>] = content
      /\ \A place \in Places : place # <<v, at>> => out'[place] = out[place]
  BY <1>1, <1>2 DEF IInv, TypeOK, Places
<1>5. ReadInv(w) /\ Kept(w)
  BY <1>2 DEF VersionInv
<1>6. /\ Queued(w)' <=> Queued(w)
      /\ Delivered(w)' <=> Delivered(w)
      /\ Running(w) \subseteq DOMAIN process
  BY <1>2 DEF Queued, Delivered, Running, uploads
<1>7. CASE w # v
  <2>1. Running(w)' = Running(w) /\ p \notin Running(w)
    BY <1>3, <1>7 DEF Running
  <2>2. \A o \in Objects : out'[<<w, o>>] = out[<<w, o>>]
    BY <1>4, <1>7 DEF Places
  <2>3. QED
    BY <1>2, <1>3, <1>5, <1>6, <2>1, <2>2, VersionKept DEF uploads
<1>8. CASE w = v
  <2>1. p \in Running(w)
    BY <1>1, <1>8 DEF Running, Objects
  <2>2. /\ Running(w) = {p} /\ ~Queued(w) /\ DirectoryInv(w)
    BY <1>2, <2>1 DEF IInv, ConversionInv
  <2>3. content = file[w]
    BY <1>1, <1>5, <2>1 DEF ReadInv
  <2>4. ReadInv(w)'
    <3>1. \A q \in Running(w)' : q = p
      BY <1>3, <2>2 DEF Running
    <3>2. QED
      BY <1>2, <1>3, <2>3, <3>1 DEF ReadInv, uploads
  <2>5. CASE at = "segments"
    <3>1. p \in Running(w)'
      BY <1>3, <1>8, <2>5 DEF Running
    <3>2. QED
      BY <2>4, <3>1 DEF Kept, Unsettled
  <2>6. CASE at = "manifest"
    <3>1. out[<<w, "segments">>] = content
      BY <2>1, <2>2, <2>6 DEF DirectoryInv
    <3>2. \A o \in Objects : out'[<<w, o>>] = content
      BY <1>4, <1>8, <2>6, <3>1 DEF Objects, Places
    <3>3. Kept(w)'
      BY <1>1, <1>2, <2>3, <3>2 DEF Kept, uploads
    <3>4. QED
      BY <2>4, <3>3
  <2>7. QED
    BY <1>1, <2>5, <2>6 DEF Objects
<1>9. QED
  BY <1>7, <1>8

\* A crash excuses what it forgets and ends; what it cuts short is a build.
LEMMA VersionCrash ==
  ASSUME IInv, VersionInv, NEW survivors \in SUBSET DOMAIN process,
         Crash(survivors)
  PROVE  VersionInv'
<1> SUFFICES ASSUME NEW w \in Videos \ excused' PROVE ReadInv(w)' /\ Kept(w)'
  BY DEF VersionInv
<1> DEFINE dead(p) == [process[p] EXCEPT !.at = "exited"]
<1>1. /\ pending' = <<>>
      /\ process' = [p \in DOMAIN process |-> IF p \in survivors THEN process[p]
                                              ELSE dead(p)]
      /\ restarts' = restarts + 1 /\ restarts \in Nat
      /\ UNCHANGED <<file, delivered, out>>
      /\ excused' = excused \cup
           {x \in Videos :
              \/ \E i \in DOMAIN pending : pending[i] = x
              \/ \E p \in DOMAIN process \ survivors :
                   process[p].video = x /\ process[p].at # "exited"}
  BY DEF Crash, Upload!Crash, Excuse, IInv, TypeOK
<1>2. \A p \in DOMAIN process :
        dead(p).video = process[p].video /\ dead(p).at = "exited"
  BY ProcessFields DEF Processes
<1> HIDE DEF dead
<1>3. w \notin excused /\ ReadInv(w) /\ Kept(w) /\ ~Queued(w)
  BY <1>1 DEF VersionInv, Queued
<1>4. \A p \in Running(w) : p \in DOMAIN process /\ p \in survivors
  BY <1>1 DEF Running
<1>5. \A p \in DOMAIN process :
        process'[p] = IF p \in survivors THEN process[p] ELSE dead(p)
  BY <1>1
<1>6. \A p \in DOMAIN process : p \in Running(w)' <=> p \in Running(w)
  BY <1>1, <1>2, <1>4, <1>5 DEF Running
<1>7. Running(w)' = Running(w)
  BY <1>1, <1>6 DEF Running
<1>8. ReadInv(w)'
  BY <1>1, <1>3, <1>4, <1>5, <1>7 DEF ReadInv
<1>9. Kept(w)'
  <2>1. restarts' # 0
    BY <1>1
  <2>2. Delivered(w)' => Delivered(w)
    BY <1>1 DEF Delivered
  <2>3. ~Unsettled(w)' => ~Unsettled(w)
    BY <1>3, <1>7 DEF Unsettled, Queued
  <2>4. QED
    BY <1>1, <1>3, <2>1, <2>2, <2>3 DEF Kept
<1>10. QED
  BY <1>8, <1>9

\* A delivered video waits, is being converted or can be watched, in its last
\* version: the queue, the processes and the directories between them lose
\* nothing, with any number of videos, uploads and crashes.  (That it is not
\* only kept but converted and published is liveness: DeliveredIsPlayable.)
THEOREM DeliveredIsKept == Spec => []NotForgotten
<1>1. Init => VersionInv
  BY DEF Init, Upload!Init, Queue!Init, VersionInv, ReadInv, Kept, Running, Delivered
<1>2. IInv /\ IInv' /\ VersionInv /\ [Next]_vars => VersionInv'
  <2> SUFFICES ASSUME IInv, IInv', VersionInv, [Next]_vars PROVE VersionInv'
    OBVIOUS
  <2>1. ASSUME NEW v \in Videos, Post(v) PROVE VersionInv'
    <3>1. UNCHANGED <<file, stage, delivered, conversions, out, restarts, excused>>
      BY <2>1 DEF Post, Upload!Begin, Upload!Store
    <3>2. QED
      BY <3>1, VersionElsewhere
  <2>2. ASSUME NEW v \in Videos, BuildStep(v) \/ Callback(v) PROVE VersionInv'
    BY <2>2, VersionBuild, VersionCallback
  <2>3. CASE WorkerStep
    BY <2>3, VersionConvert, VersionConvertFails DEF WorkerStep
  <2>4. CASE FfmpegStep
    BY <2>4, VersionReads, VersionWrites DEF FfmpegStep
  <2>5. CASE \/ RefreshStep \/ AnswerStep \/ UNCHANGED vars
             \/ \E place \in Viewed : HandleStreamRequest(place)
    <3>1. UNCHANGED <<file, stage, delivered, conversions, out, restarts, excused>>
      BY <2>5 DEF RefreshStep, Publish, ReadFile, AnswerStep, NotFound,
                  PushBodyChunk, HandleStreamRequest, uploads, vars
    <3>2. QED
      BY <3>1, VersionElsewhere
  <2>6. ASSUME NEW survivors \in SUBSET DOMAIN process, Crash(survivors)
        PROVE  VersionInv'
    BY <2>6, VersionCrash
  <2>7. QED
    BY <2>1, <2>2, <2>3, <2>4, <2>5, <2>6 DEF Next, UploadStep
<1>3. VersionInv => NotForgotten
  BY DEF VersionInv, NotForgotten
<1>4. QED
  BY <1>1, <1>2, <1>3, Invariance, PTL DEF Spec

=============================================================================

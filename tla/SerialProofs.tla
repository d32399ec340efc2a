---------------------------- MODULE SerialProofs ----------------------------
(***************************************************************************)
(* What a client that posts the blocks of an upload one after the other is *)
(* promised about the files: theorems for every set of tasks and uploads,  *)
(* every retry, failure to open a file and crash, as long as the client is *)
(* a ProperClient and no write of a part fails unnoticed.                  *)
(***************************************************************************)
EXTENDS UploadProofs

-----------------------------------------------------------------------------
(* Names and builders.                                                     *)

\* The part files of all uploads are different files, none of them a result.
LEMMA PartsApart ==
  ASSUME ProperClient, NEW u, NEW i, IsPart(u, i)
  PROVE  /\ PartName(u, i) \in Files
         /\ \A v \in Uids : PartName(u, i) # ResultName(v)
         /\ \A v, j : IsPart(v, j) /\ PartName(u, i) = PartName(v, j) =>
              u = v /\ i = j
BY FilesApart DEF ProperClient

\* A task between get_file_builder and delete_file_builder has the builder of
\* its upload, with all its blocks.
LEMMA HeldBuilder ==
  ASSUME ProperClient, FilesInv, NEW t \in Tasks, pc[t] \in Holding
  PROVE  /\ pc[t] \in Running /\ req[t] \in Requests /\ Uid(t) \in Uids
         /\ ptr[t] \in Tasks /\ ptr[t] = builders[Uid(t)]
         /\ Builder(t) \in BuilderObjects /\ Builder(t) # None
         /\ Builder(t).uid = Uid(t) /\ Builder(t).total = req[t].total
         /\ req[t].idx \in 1 .. Builder(t).total /\ req[t].data \in Blocks
         /\ \A i \in 1 .. Builder(t).total : IsPart(Uid(t), i)
<1>1. ProperRequests /\ IInv /\ TotalsInv
  BY DEF ProperClient, FilesInv, SerialInv
<1>2. ptr[t] = builders[Uid(t)]
  BY DEF FilesInv, SerialInv, HoldsTheMapsBuilder
<1>3. QED
  BY <1>1, <1>2, PointedBuilder

-----------------------------------------------------------------------------
(* What a stream writes.                                                   *)

\* A function on 1 .. n is a sequence of length n.
LEMMA PrefixLength ==
  ASSUME NEW n \in Nat, NEW h, \A i \in 1 .. n : h[i] \in Blocks
  PROVE  /\ [i \in 1 .. n |-> h[i]] \in Seq(Blocks)
         /\ Len([i \in 1 .. n |-> h[i]]) = n
<1> DEFINE f == [i \in 1 .. n |-> h[i]]
<1>1. f \in [1 .. n -> Blocks]
  OBVIOUS
<1>2. f \in Seq(Blocks)
  BY <1>1, SeqDef
<1>3. DOMAIN f = 1 .. Len(f) /\ Len(f) \in Nat
  BY <1>2
<1>4. 1 .. n = 1 .. Len(f)
  BY <1>3
<1>5. QED
  BY <1>2, <1>3, <1>4

\* A block written at the end of a file.
LEMMA WriteNext ==
  ASSUME NEW n \in Nat, NEW h, \A i \in 1 .. n + 1 : h[i] \in Blocks
  PROVE  WriteAt([i \in 1 .. n |-> h[i]], n, <<h[n + 1]>>) =
           [i \in 1 .. n + 1 |-> h[i]]
<1> DEFINE f == [i \in 1 .. n |-> h[i]]
<1>1. Len(f) = n
  BY PrefixLength
<1>2. Len(<<h[n + 1]>>) = 1 /\ <<h[n + 1]>>[1] = h[n + 1]
  OBVIOUS
<1>3. WriteAt(f, n, <<h[n + 1]>>) =
        [k \in 1 .. n + 1 |-> IF k > n /\ k <= n + 1 THEN <<h[n + 1]>>[k - n]
                              ELSE IF k <= n THEN f[k] ELSE Hole]
  <2> HIDE DEF f
  <2>1. QED
    BY <1>1, <1>2 DEF WriteAt
<1>4. \A k \in 1 .. n + 1 :
        (IF k > n /\ k <= n + 1 THEN <<h[n + 1]>>[k - n]
         ELSE IF k <= n THEN f[k] ELSE Hole) = h[k]
  <2> SUFFICES ASSUME NEW k \in 1 .. n + 1
               PROVE  (IF k > n /\ k <= n + 1 THEN <<h[n + 1]>>[k - n]
                       ELSE IF k <= n THEN f[k] ELSE Hole) = h[k]
    OBVIOUS
  <2>1. CASE k = n + 1
    BY <1>2, <2>1
  <2>2. CASE k # n + 1
    <3>1. k \in 1 .. n /\ ~(k > n)
      BY <2>2
    <3>2. QED
      BY <3>1
  <2>3. QED
    BY <2>1, <2>2
<1>5. QED
  BY <1>3, <1>4

-----------------------------------------------------------------------------
(* A task leaves the tasks and files of other uploads alone.               *)

Frame(t) ==
  /\ req' = req
  /\ \A s \in Tasks : s # t =>
       /\ pc'[s] = pc[s] /\ ptr'[s] = ptr[s] /\ pos'[s] = pos[s]
       /\ offset'[s] = offset[s] /\ fd'[s] = fd[s]
  /\ \A v \in Uids : v # Uid(t) =>
       /\ builders'[v] = builders[v]
       /\ disk'[ResultName(v)] = disk[ResultName(v)]
       /\ \A i : IsPart(v, i) => disk'[PartName(v, i)] = disk[PartName(v, i)]
  /\ \A s \in Tasks : object[s] # None /\ object[s].uid # Uid(t) =>
       object'[s] = object[s]

\* The steps that change no file.
LEMMA NoFileFrame ==
  ASSUME ProperClient, FilesInv, NEW t \in Tasks,
         \/ GetFileBuilder(t) \/ GetFileBuilderFails(t) \/ Compare(t)
         \/ OpenPartFails(t) \/ UpdateBlockHash(t) \/ Touch(t) \/ CheckReady(t)
         \/ OpenResultFails(t) \/ DeleteFileBuilder(t) \/ Notify(t)
  PROVE  Frame(t) /\ disk' = disk /\ UNCHANGED fd
<1> USE DEF Goto, task, heap, FilesInv, SerialInv, IInv, TypeOK
<1>1. CASE GetFileBuilder(t)
  <2>1. object[t] = None
    BY <1>1 DEF GetFileBuilder, CreatorInv
  <2>2. QED
    BY <1>1, <2>1 DEF GetFileBuilder, Frame
<1>2. CASE \/ GetFileBuilderFails(t) \/ Compare(t) \/ OpenPartFails(t)
           \/ Touch(t) \/ CheckReady(t) \/ Notify(t)
  BY <1>2 DEF GetFileBuilderFails, Compare, OpenPartFails, Touch, CheckReady,
              Notify, Frame
<1>3. CASE UpdateBlockHash(t)
  <2>1. ptr[t] \in Tasks /\ object[ptr[t]].uid = Uid(t)
    BY <1>3 DEF UpdateBlockHash, PointerInv, Holding, UsesBuilder
  <2>2. QED
    BY <1>3, <2>1 DEF UpdateBlockHash, Frame
<1>4. CASE OpenResultFails(t) \/ DeleteFileBuilder(t)
  BY <1>4 DEF OpenResultFails, DeleteFileBuilder, Frame
<1>5. QED
  BY <1>1, <1>2, <1>3, <1>4

\* Opening and writing.
LEMMA FileFrame ==
  ASSUME ProperClient, FilesInv, NEW t \in Tasks,
         OpenPart(t) \/ WritePart(t) \/ OpenResult(t) \/ CopyBlock(t)
  PROVE  /\ Frame(t)
         /\ UNCHANGED heap
         /\ \A f \in Files :
              f # (IF pc[t] \in {"open", "write"} THEN PartName(Uid(t), req[t].idx)
                   ELSE ResultName(Uid(t))) => disk'[f] = disk[f]
<1> DEFINE file == IF pc[t] \in {"open", "write"} THEN PartName(Uid(t), req[t].idx)
                   ELSE ResultName(Uid(t))
<1>1. pc[t] \in Holding /\ pc[t] \in {"open", "write", "build", "copy"}
  BY DEF OpenPart, WritePart, OpenResult, CopyBlock, Goto, Holding, UsesBuilder
<1>2. /\ Uid(t) \in Uids /\ Builder(t).uid = Uid(t)
      /\ IsPart(Uid(t), req[t].idx)
  BY <1>1, HeldBuilder
<1>3. disk \in [Files -> Content \cup {None}]
  BY DEF FilesInv, SerialInv, IInv, TypeOK
<1>4. \A f \in Files : f # file => disk'[f] = disk[f]
  <2>1. CASE OpenPart(t)
    BY <1>2, <1>3, <2>1 DEF OpenPart, Open, Part, Goto
  <2>2. CASE WritePart(t)
    <3>1. pc[t] = "write" /\ fd[t] = PartName(Uid(t), req[t].idx)
      BY <1>2, <2>2 DEF WritePart, Goto, FilesInv, PartInv, Part
    <3>2. QED
      BY <1>3, <2>2, <3>1 DEF WritePart, Write
  <2>3. CASE OpenResult(t)
    BY <1>2, <1>3, <2>3 DEF OpenResult, Open, Goto
  <2>4. CASE CopyBlock(t)
    <3>1. pc[t] = "copy" /\ fd[t] \in {None, ResultName(Uid(t))}
      BY <2>4 DEF CopyBlock, Goto, FilesInv, ResultInv
    <3>2. QED
      BY <1>3, <2>4, <3>1 DEF CopyBlock, Write
  <2>5. QED
    BY <2>1, <2>2, <2>3, <2>4
<1>5. ASSUME NEW v \in Uids, v # Uid(t)
      PROVE  /\ disk'[ResultName(v)] = disk[ResultName(v)]
             /\ \A i : IsPart(v, i) => disk'[PartName(v, i)] = disk[PartName(v, i)]
  <2>1. ResultName(v) \in Files /\ ResultName(v) # file
    <3>1. ResultName(v) # PartName(Uid(t), req[t].idx)
      BY <1>2, PartsApart
    <3>2. ResultName(v) # ResultName(Uid(t)) /\ ResultName(v) \in Files
      BY <1>5 DEF ResultName, Files
    <3>3. QED
      BY <3>1, <3>2
  <2>2. ASSUME NEW i, IsPart(v, i)
        PROVE  PartName(v, i) \in Files /\ PartName(v, i) # file
    BY <1>2, <1>5, <2>2, PartsApart
  <2> HIDE DEF file
  <2>3. QED
    BY <1>4, <2>1, <2>2
<1>6. /\ req' = req /\ UNCHANGED <<builders, object, freed>>
      /\ \A s \in Tasks : s # t =>
           /\ pc'[s] = pc[s] /\ ptr'[s] = ptr[s] /\ pos'[s] = pos[s]
           /\ offset'[s] = offset[s] /\ fd'[s] = fd[s]
  BY DEF OpenPart, WritePart, OpenResult, CopyBlock, Goto, Open, Close, task,
         heap, FilesInv, SerialInv, IInv, TypeOK
<1>7. QED
  BY <1>4, <1>5, <1>6 DEF Frame, heap

\* The destructor removes parts of its own upload, which nobody has open.
LEMMA ClearFrame ==
  ASSUME ProperClient, FilesInv, NEW t \in Tasks, ClearBlock(t)
  PROVE  /\ Frame(t)
         /\ \A v \in Uids : disk'[ResultName(v)] = disk[ResultName(v)]
<1> DEFINE b == object[target[t]]
           part == PartName(b.uid, pos[t])
<1>1. pc[t] = "clear" /\ Uid(t) \in Uids /\ target[t] \in Tasks
  BY DEF ClearBlock, Goto, FilesInv, SerialInv, IInv, RequestInv, TargetInv,
         Running, Uids, Uid
<1>2. b \in BuilderObjects /\ b.uid = Uid(t) /\ pos[t] \in 1 .. b.total
  BY <1>1 DEF FilesInv, SerialInv, IInv, TypeOK, TargetInv
<1>3. IsPart(Uid(t), pos[t])
  BY <1>2, BuilderFields DEF IsPart
<1>4. disk \in [Files -> Content \cup {None}]
  BY DEF FilesInv, SerialInv, IInv, TypeOK
<1>5. \A f \in Files : f # part => disk'[f] = disk[f]
  BY <1>4 DEF ClearBlock
<1>6. \A v \in Uids : ResultName(v) \in Files /\ ResultName(v) # part
  BY <1>2, <1>3, PartsApart DEF Files
<1>7. \A v, i : v # Uid(t) /\ IsPart(v, i) =>
        PartName(v, i) \in Files /\ PartName(v, i) # part
  BY <1>2, <1>3, PartsApart
<1>8. ASSUME NEW s \in Tasks, s # t
      PROVE  fd'[s] = fd[s]
  <2>1. CASE fd[s] = None
    BY <2>1 DEF ClearBlock
  <2>2. CASE fd[s] # None
    <3>1. pc[s] \in {"write", "copy"} /\ pc[s] \in Holding
      BY <2>2 DEF FilesInv, PartInv, Holding, UsesBuilder
    <3>2. /\ pc[s] \in Running /\ Uid(s) \in Uids /\ Builder(s).uid = Uid(s)
          /\ IsPart(Uid(s), req[s].idx)
      BY <3>1, HeldBuilder
    <3>3. Uid(s) # Uid(t)
      BY <1>1, <1>8, <3>2 DEF FilesInv, SerialInv, OneAtATime, Running
    <3>4. fd[s] # part
      <4>1. fd[s] = PartName(Uid(s), req[s].idx) \/ fd[s] = ResultName(Uid(s))
        BY <2>2, <3>1, <3>2 DEF FilesInv, PartInv, ResultInv, Part
      <4>2. QED
        BY <1>6, <1>7, <3>2, <3>3, <4>1
    <3>5. QED
      BY <3>4 DEF ClearBlock
  <2>3. QED
    BY <2>1, <2>2
<1>9. /\ req' = req /\ UNCHANGED <<builders, object>>
      /\ \A s \in Tasks : s # t =>
           /\ pc'[s] = pc[s] /\ ptr'[s] = ptr[s] /\ pos'[s] = pos[s]
           /\ offset'[s] = offset[s]
  BY DEF ClearBlock, Goto, FilesInv, SerialInv, IInv, TypeOK
<1> HIDE DEF part
<1>10. QED
  BY <1>5, <1>6, <1>7, <1>8, <1>9 DEF Frame

\* What a step of t does not touch stays as it should be.
LEMMA OthersKept ==
  ASSUME ProperClient, FilesInv, NEW t \in Tasks, pc[t] \in Running, Frame(t)
  PROVE  /\ \A s \in Tasks : s # t => PartInv(s)' /\ ResultInv(s)'
         /\ \A v \in Uids : v # Uid(t) => Stored(v)'
<1>1. ASSUME NEW s \in Tasks, s # t
      PROVE  PartInv(s)' /\ ResultInv(s)'
  <2>1. /\ pc'[s] = pc[s] /\ ptr'[s] = ptr[s] /\ pos'[s] = pos[s]
        /\ offset'[s] = offset[s] /\ fd'[s] = fd[s] /\ req' = req
    BY <1>1 DEF Frame
  <2>2. CASE pc[s] \in Holding
    <3>1. /\ pc[s] \in Running /\ Uid(s) \in Uids /\ ptr[s] \in Tasks
          /\ Builder(s) # None /\ Builder(s).uid = Uid(s)
          /\ IsPart(Uid(s), req[s].idx)
      BY <2>2, HeldBuilder
    <3>2. Uid(s) # Uid(t)
      BY <1>1, <3>1 DEF FilesInv, SerialInv, OneAtATime
    <3>3. Builder(s)' = Builder(s) /\ Uid(s)' = Uid(s)
      BY <2>1, <3>1, <3>2 DEF Frame, Builder, Uid
    <3>4. /\ Part(s)' = Part(s) /\ disk'[Part(s)] = disk[Part(s)]
          /\ disk'[ResultName(Uid(s))] = disk[ResultName(Uid(s))]
      BY <2>1, <3>1, <3>2, <3>3 DEF Frame, Part
    <3>5. PartInv(s)'
      BY <2>1, <3>4 DEF FilesInv, PartInv
    <3>6. ResultInv(s)'
      <4>1. pc[s] \notin {"clear", "notify"}
        BY <2>2 DEF Holding, UsesBuilder
      <4>2. QED
        BY <2>1, <3>3, <3>4, <4>1 DEF FilesInv, ResultInv
    <3>7. QED
      BY <3>5, <3>6
  <2>3. CASE pc[s] \in {"clear", "notify"}
    <3>1. pc[s] \in Running /\ Uid(s) \in Uids /\ Uid(s)' = Uid(s)
      BY <2>1, <2>3 DEF FilesInv, SerialInv, IInv, RequestInv, Running, Uid, Uids
    <3>2. Uid(s) # Uid(t)
      BY <1>1, <3>1 DEF FilesInv, SerialInv, OneAtATime
    <3>3. builders'[Uid(s)] = None
      BY <2>3, <3>1, <3>2 DEF Frame, FilesInv, ResultInv
    <3>4. QED
      BY <2>1, <2>3, <3>1, <3>3 DEF FilesInv, PartInv, ResultInv
  <2>4. CASE pc[s] \notin Holding \cup {"clear", "notify"}
    BY <2>1, <2>4 DEF FilesInv, PartInv, ResultInv, Holding, UsesBuilder
  <2>5. QED
    BY <2>2, <2>3, <2>4
<1>2. ASSUME NEW v \in Uids, v # Uid(t), builders'[v] # None
      PROVE  Stored(v)'
  <2> DEFINE b == object[builders[v]]
  <2>1. builders'[v] = builders[v] /\ builders[v] \in Tasks
    BY <1>2 DEF Frame, FilesInv, SerialInv, IInv, TypeOK
  <2>2. b \in BuilderObjects /\ b # None /\ b.uid = v
    BY <2>1, UploadAssumption DEF FilesInv, SerialInv, IInv, TypeOK, MapNeverDangles
  <2>3. object'[builders'[v]] = b
    BY <1>2, <2>1, <2>2 DEF Frame
  <2>4. \A i \in 1 .. b.total : disk'[PartName(v, i)] = disk[PartName(v, i)]
    BY <1>2, <2>2, BuilderFields DEF Frame, IsPart
  <2>5. \A i : Rewriting(v, i) => Rewriting(v, i)'
    BY <1>2 DEF Frame, Rewriting, Uid
  <2>6. Stored(v)
    BY DEF FilesInv, RecordedBlocksStored
  <2> HIDE DEF b
  <2>7. QED
    BY <1>2, <2>1, <2>3, <2>4, <2>5, <2>6 DEF Stored, b
<1>3. QED
  BY <1>1, <1>2 DEF Stored

\* The same for the upload of t itself, when its parts stay.
LEMMA OwnStoredKept ==
  ASSUME ProperClient, FilesInv, NEW u \in Uids,
         builders'[u] = builders[u], UNCHANGED object,
         \A i : IsPart(u, i) => disk'[PartName(u, i)] = disk[PartName(u, i)],
         req' = req,
         \A s \in Tasks : pc[s] \in {"write", "record"} =>
                             pc'[s] \in {"write", "record"}
  PROVE  Stored(u)'
<1> SUFFICES ASSUME builders[u] # None
             PROVE  Stored(u)'
  BY DEF Stored
<1> DEFINE b == object[builders[u]]
<1>1. builders[u] \in Tasks
  BY DEF FilesInv, SerialInv, IInv, TypeOK
<1>2. b \in BuilderObjects /\ b.uid = u
  BY <1>1 DEF FilesInv, SerialInv, IInv, TypeOK, MapNeverDangles
<1>3. \A i \in 1 .. b.total : disk'[PartName(u, i)] = disk[PartName(u, i)]
  BY <1>2, BuilderFields DEF IsPart
<1>4. Stored(u)
  BY DEF FilesInv, RecordedBlocksStored
<1>5. ASSUME NEW i, Rewriting(u, i)
      PROVE  Rewriting(u, i)'
  <2>1. PICK s \in Tasks : /\ pc[s] \in {"write", "record"}
                           /\ req[s].uid = u /\ req[s].idx = i
    BY <1>5 DEF Rewriting, Uid
  <2>2. QED
    BY <2>1 DEF Rewriting, Uid
<1> HIDE DEF b
<1>6. QED
  BY <1>3, <1>4, <1>5 DEF Stored, b

-----------------------------------------------------------------------------
(* A step of a task, action by action.                                     *)

\* What has to be shown of a step of t, given its frame.
Kept(t) ==
  /\ PartInv(t)' /\ ResultInv(t)' /\ TotalsInv' /\ NoBrokenBuild'
  /\ \A u \in Uids : u = Uid(t) => Stored(u)'

\* Steps that only move the task on.
LEMMA QuietFiles ==
  ASSUME ProperClient, FilesInv, NEW t \in Tasks,
         \/ GetFileBuilderFails(t) \/ Compare(t) \/ OpenPartFails(t)
         \/ Touch(t) \/ CheckReady(t) \/ Notify(t)
  PROVE  Kept(t)
<1>1. /\ UNCHANGED <<task, heap, fd, disk>>
      /\ pc[t] \in {"get", "compare", "open", "touch", "check", "notify"}
      /\ pc' = [pc EXCEPT ![t] = pc'[t]]
      /\ pc'[t] \in {"failed", "compare", "open", "touch", "check", "build", "ok"}
      /\ pc'[t] = "build" => IsReady(Builder(t))
  BY DEF GetFileBuilderFails, Compare, OpenPartFails, Touch, CheckReady, Notify,
         Goto, FilesInv, SerialInv, IInv, TypeOK
<1>2. /\ UNCHANGED <<req, ptr, object, builders>>
      /\ Uid(t) \in Uids /\ Uid(t)' = Uid(t) /\ Builder(t)' = Builder(t)
  BY <1>1 DEF task, heap, FilesInv, SerialInv, IInv, RequestInv, Running, Uid,
              Uids, Builder
<1>3. PartInv(t)' /\ ResultInv(t)'
  BY <1>1, <1>2 DEF FilesInv, PartInv, ResultInv
<1>4. ASSUME NEW u \in Uids
      PROVE  Stored(u)'
  <2>1. \A s \in Tasks : pc[s] \in {"write", "record"} => pc'[s] = pc[s]
    BY <1>1 DEF FilesInv, SerialInv, IInv, TypeOK
  <2>2. QED
    BY <1>1, <1>2, <2>1, OwnStoredKept
<1>5. TotalsInv' /\ NoBrokenBuild'
  BY <1>1, <1>2 DEF FilesInv, TotalsInv, NoBrokenBuild, SerialInv, IInv, TypeOK
<1>6. QED
  BY <1>3, <1>4, <1>5 DEF Kept

\* get_file_builder: a new builder has no digest.
LEMMA GetFileBuilderFiles ==
  ASSUME ProperClient, FilesInv, NEW t \in Tasks, GetFileBuilder(t)
  PROVE  Kept(t)
<1>1. /\ pc[t] = "get" /\ pc' = [pc EXCEPT ![t] = "compare"]
      /\ UNCHANGED <<req, fd, disk>>
      /\ req[t] \in Requests /\ req[t].total # 0 /\ Uid(t) \in Uids
  BY DEF GetFileBuilder, Goto, FilesInv, SerialInv, IInv, RequestInv, Running,
         Uid, Uids
<1>2. PartInv(t)' /\ ResultInv(t)' /\ NoBrokenBuild'
  BY <1>1 DEF FilesInv, PartInv, ResultInv, NoBrokenBuild, SerialInv, IInv, TypeOK
<1>3. CASE builders[Uid(t)] = None
  <2> DEFINE new == NewBuilder(Uid(t), req[t].total)
  <2>1. /\ builders' = [builders EXCEPT ![Uid(t)] = t]
        /\ object' = [object EXCEPT ![t] = new]
    BY <1>3 DEF GetFileBuilder
  <2>2. /\ object'[t] = new /\ builders'[Uid(t)] = t
        /\ \A s \in Tasks : s # t => object'[s] = object[s]
    BY <1>1, <2>1 DEF FilesInv, SerialInv, IInv, TypeOK
  <2>3. new.uid = Uid(t) /\ new.total = req[t].total
        /\ \A i \in 1 .. new.total : new.hash[i] = None
    BY DEF NewBuilder
  <2> HIDE DEF new
  <2>4. TotalsInv'
    BY <1>1, <2>2, <2>3 DEF FilesInv, TotalsInv, ProperClient,
         ProperRequests, Uid
  <2>5. \A u \in Uids : u = Uid(t) => Stored(u)'
    BY <2>2, <2>3 DEF Stored
  <2>6. QED
    BY <1>2, <2>4, <2>5 DEF Kept
<1>4. CASE builders[Uid(t)] # None
  <2>1. UNCHANGED <<builders, object>>
    BY <1>4 DEF GetFileBuilder
  <2>2. TotalsInv'
    BY <2>1 DEF FilesInv, TotalsInv
  <2>3. \A s \in Tasks : pc[s] \in {"write", "record"} => pc'[s] = pc[s]
    BY <1>1 DEF FilesInv, SerialInv, IInv, TypeOK
  <2>4. \A u \in Uids : Stored(u)'
    BY <1>1, <2>1, <2>3, OwnStoredKept
  <2>5. QED
    BY <1>2, <2>2, <2>4 DEF Kept
<1>5. QED
  BY <1>3, <1>4

\* The steps of a task that holds a builder and leaves all builders alone.
LEMMA HolderFacts ==
  ASSUME ProperClient, FilesInv, NEW t \in Tasks, pc[t] \in Holding,
         req' = req, ptr' = ptr, UNCHANGED <<builders, object>>
  PROVE  /\ Uid(t)' = Uid(t) /\ Builder(t)' = Builder(t) /\ Part(t)' = Part(t)
         /\ TotalsInv'
         /\ Part(t) = PartName(Uid(t), req[t].idx)
         /\ Part(t) \in Files /\ ResultName(Uid(t)) \in Files
         /\ disk \in [Files -> Content \cup {None}]
         /\ fd \in [Tasks -> Files \cup {None}]
         /\ pc \in [Tasks -> {"idle"} \cup Running \cup Finished]
<1>1. Uid(t)' = Uid(t) /\ Builder(t)' = Builder(t) /\ Part(t)' = Part(t)
  BY DEF Uid, Builder, Part
<1>2. TotalsInv'
  BY DEF FilesInv, TotalsInv
<1>3. /\ Builder(t).uid = Uid(t) /\ Uid(t) \in Uids
      /\ IsPart(Uid(t), req[t].idx)
  BY HeldBuilder
<1>4. Part(t) = PartName(Uid(t), req[t].idx) /\ Part(t) \in Files
  BY <1>3, PartsApart DEF Part
<1>5. ResultName(Uid(t)) \in Files
  BY <1>3 DEF Files
<1>6. /\ disk \in [Files -> Content \cup {None}]
      /\ fd \in [Tasks -> Files \cup {None}]
      /\ pc \in [Tasks -> {"idle"} \cup Running \cup Finished]
  BY DEF FilesInv, SerialInv, IInv, TypeOK
<1>7. QED
  BY <1>1, <1>2, <1>4, <1>5, <1>6

\* The other parts of the upload are left alone while one is rewritten.
LEMMA PartRewritten ==
  ASSUME ProperClient, FilesInv, NEW t \in Tasks, pc[t] \in {"open", "write"},
         NEW q \in {"write", "record"}, pc' = [pc EXCEPT ![t] = q],
         req' = req, ptr' = ptr, UNCHANGED <<builders, object>>,
         \A f \in Files : f # Part(t) => disk'[f] = disk[f],
         NEW u \in Uids, u = Uid(t)
  PROVE  Stored(u)'
<1> SUFFICES ASSUME builders[u] # None
             PROVE  Stored(u)'
  BY DEF Stored
<1> DEFINE b == object[builders[u]]
<1>1. pc[t] \in Holding
  BY DEF Holding, UsesBuilder
<1>2. b = Builder(t) /\ b.uid = u /\ \A i \in 1 .. b.total : IsPart(u, i)
  BY <1>1, HeldBuilder DEF Builder
<1>3. \A s \in Tasks : pc[s] \in {"write", "record"} =>
                         pc'[s] \in {"write", "record"}
  BY <1>1, HolderFacts
<1>4. pc'[t] = q
  BY <1>1, HolderFacts
<1>5. ASSUME NEW i \in 1 .. b.total, b.hash[i] # None, ~Rewriting(u, i)'
      PROVE  disk'[PartName(u, i)] = <<b.hash[i]>>
  <2>1. i # req[t].idx
    BY <1>4, <1>5 DEF Rewriting, Uid
  <2>2. PartName(u, i) \in Files /\ PartName(u, i) # Part(t)
    <3>1. IsPart(u, i) /\ IsPart(u, req[t].idx)
      BY <1>1, <1>2, HeldBuilder
    <3>2. QED
      BY <1>1, <2>1, <3>1, PartsApart, HolderFacts
  <2>3. ~Rewriting(u, i)
    BY <1>3, <1>5 DEF Rewriting, Uid
  <2>4. disk[PartName(u, i)] = <<b.hash[i]>>
    BY <1>5, <2>3 DEF FilesInv, RecordedBlocksStored, Stored
  <2>5. QED
    BY <2>2, <2>4
<1>6. QED
  BY <1>5 DEF Stored

\* A part is emptied, and is from then on being rewritten...
LEMMA OpenPartFiles ==
  ASSUME ProperClient, FilesInv, NEW t \in Tasks, OpenPart(t)
  PROVE  Kept(t)
<1>1. /\ pc[t] = "open" /\ pc' = [pc EXCEPT ![t] = "write"]
      /\ disk' = [disk EXCEPT ![Part(t)] = <<>>]
      /\ fd' = [fd EXCEPT ![t] = Part(t)]
      /\ req' = req /\ ptr' = ptr /\ UNCHANGED <<builders, object>>
  BY DEF OpenPart, Open, Goto, task, heap
<1>2. pc[t] \in Holding
  BY <1>1 DEF Holding, UsesBuilder
<1>3. PartInv(t)' /\ ResultInv(t)' /\ TotalsInv' /\ NoBrokenBuild'
  BY <1>1, <1>2, HolderFacts DEF PartInv, ResultInv, FilesInv, NoBrokenBuild
<1>4. ASSUME NEW u \in Uids, u = Uid(t)
      PROVE  Stored(u)'
  <2>1. \A f \in Files : f # Part(t) => disk'[f] = disk[f]
    BY <1>1, <1>2, HolderFacts
  <2>2. QED
    BY <1>1, <1>4, <2>1, PartRewritten
<1>5. QED
  BY <1>3, <1>4 DEF Kept

\* ...until the block is written; a stream writes to the part it has opened...
LEMMA WritePartFiles ==
  ASSUME ProperClient, FilesInv, NEW t \in Tasks, WritePart(t)
  PROVE  Kept(t)
<1>1. /\ pc[t] = "write" /\ pc' = [pc EXCEPT ![t] = "record"]
      /\ Write(t, 0, <<req[t].data>>)
      /\ fd' = [fd EXCEPT ![t] = None]
      /\ req' = req /\ ptr' = ptr /\ UNCHANGED <<builders, object>>
  BY DEF WritePart, Close, Goto, task, heap
<1>2. pc[t] \in Holding
  BY <1>1 DEF Holding
<1>3. fd[t] = Part(t) /\ disk[Part(t)] = <<>> /\ fd[t] # None
  <2>1. fd[t] = Part(t) /\ disk[Part(t)] = <<>>
    BY <1>1 DEF FilesInv, PartInv
  <2>2. QED
    BY <1>1, <1>2, <2>1, HolderFacts, NoneIsNoFile
<1>4. disk' = [disk EXCEPT ![Part(t)] = <<req[t].data>>]
  BY <1>1, <1>3, WriteFirst DEF Write
<1>5. PartInv(t)' /\ ResultInv(t)' /\ TotalsInv' /\ NoBrokenBuild'
  BY <1>1, <1>2, <1>4, HolderFacts DEF PartInv, ResultInv, FilesInv, NoBrokenBuild
<1>6. ASSUME NEW u \in Uids, u = Uid(t)
      PROVE  Stored(u)'
  <2>1. \A f \in Files : f # Part(t) => disk'[f] = disk[f]
    BY <1>2, <1>4, HolderFacts
  <2>2. QED
    BY <1>1, <1>6, <2>1, PartRewritten
<1>7. QED
  BY <1>5, <1>6 DEF Kept

\* ...and its digest recorded.
LEMMA UpdateBlockHashFiles ==
  ASSUME ProperClient, FilesInv, NEW t \in Tasks, UpdateBlockHash(t)
  PROVE  Kept(t)
<1> DEFINE x == Builder(t)
           i == req[t].idx
           d == req[t].data
           y == [x EXCEPT !.hash[i] = d]
<1>1. /\ pc[t] = "record" /\ pc' = [pc EXCEPT ![t] = "touch"]
      /\ object' = [object EXCEPT ![ptr[t]] = y]
      /\ UNCHANGED <<req, ptr, builders, fd, disk>>
  BY DEF UpdateBlockHash, Goto, task, Builder
<1>2. pc[t] \in Holding
  BY <1>1 DEF Holding, UsesBuilder
<1>3. /\ x \in BuilderObjects /\ x # None /\ x.uid = Uid(t) /\ i \in 1 .. x.total
      /\ d \in Blocks /\ ptr[t] \in Tasks /\ ptr[t] = builders[Uid(t)]
      /\ \A j \in 1 .. x.total : IsPart(Uid(t), j)
  BY <1>2, HeldBuilder
<1>4. y \in BuilderObjects /\ y.uid = x.uid /\ y.total = x.total
  BY <1>3, RecordDigest, ZenonT(40)
<1>5. y.hash[i] = d /\ \A j \in 1 .. x.total : j # i => y.hash[j] = x.hash[j]
  <2>1. x.hash \in [1 .. x.total -> Blocks \cup {None}]
    BY <1>3, BuilderFields
  <2>2. x = [uid |-> x.uid, total |-> x.total, hash |-> x.hash]
    BY <1>3, BuilderFields
  <2>3. y.hash = [x.hash EXCEPT ![i] = d]
    BY <2>2
  <2>4. QED
    BY <1>3, <2>1, <2>3, ZenonT(40)
<1> HIDE DEF y
<1>6. /\ object'[ptr[t]] = y
      /\ \A s \in Tasks : s # ptr[t] => object'[s] = object[s]
      /\ pc'[t] = "touch" /\ \A s \in Tasks : s # t => pc'[s] = pc[s]
  BY <1>1, <1>3 DEF FilesInv, SerialInv, IInv, TypeOK
<1>7. PartInv(t)' /\ ResultInv(t)' /\ NoBrokenBuild'
  BY <1>1, <1>6 DEF PartInv, ResultInv, FilesInv, NoBrokenBuild
<1>8. TotalsInv'
  <2>1. x = object[ptr[t]]
    BY DEF Builder
  <2>2. QED
    BY <1>1, <1>3, <1>4, <1>6, <2>1 DEF FilesInv, TotalsInv
<1>9. ASSUME NEW u \in Uids, u = Uid(t)
      PROVE  Stored(u)'
  <2>1. builders'[u] = ptr[t] /\ object'[builders'[u]] = y
    BY <1>1, <1>3, <1>6, <1>9
  <2>2. disk[PartName(u, i)] = <<d>>
    BY <1>1, <1>3, <1>9 DEF FilesInv, PartInv, Part
  <2>3. ASSUME NEW j \in 1 .. x.total, j # i, x.hash[j] # None, ~Rewriting(u, j)'
        PROVE  disk[PartName(u, j)] = <<x.hash[j]>>
    <3>1. ~Rewriting(u, j)
      BY <1>1, <1>6, <2>3 DEF Rewriting, Uid
    <3>2. builders[u] # None /\ object[builders[u]] = x
      BY <1>3, <1>9, UploadAssumption DEF Builder
    <3>3. QED
      BY <2>3, <3>1, <3>2 DEF FilesInv, RecordedBlocksStored, Stored
  <2> HIDE DEF i, d, x
  <2>4. QED
    BY <1>1, <1>4, <1>5, <2>1, <2>2, <2>3 DEF Stored
<1>10. QED
  BY <1>7, <1>8, <1>9 DEF Kept

\* A digest that is there is that of a block.
LEMMA ReadyBlocks ==
  ASSUME NEW b \in BuilderObjects, IsReady(b)
  PROVE  \A i \in 1 .. b.total : b.hash[i] \in Blocks
<1>1. b.hash \in [1 .. b.total -> Blocks \cup {None}]
  BY BuilderFields
<1>2. QED
  BY <1>1 DEF IsReady

\* The builder a task builds from has every block on disk.
LEMMA ReadyToCopy ==
  ASSUME ProperClient, FilesInv, NEW t \in Tasks, pc[t] \in {"build", "copy"}
  PROVE  /\ IsReady(Builder(t))
         /\ \A i \in 1 .. Builder(t).total :
              /\ Builder(t).hash[i] \in Blocks
              /\ disk[PartName(Uid(t), i)] = <<Builder(t).hash[i]>>
<1> DEFINE b == Builder(t)
           u == Uid(t)
<1>1. pc[t] \in Holding /\ pc[t] \in Running
  BY DEF Holding, UsesBuilder, Running
<1>2. /\ b \in BuilderObjects /\ b = object[builders[u]] /\ u \in Uids
      /\ builders[u] \in Tasks
  BY <1>1, HeldBuilder DEF Builder
<1>3. IsReady(b)
  BY DEF FilesInv, ResultInv
<1>4. \A i \in 1 .. b.total : b.hash[i] \in Blocks
  BY <1>2, <1>3, ReadyBlocks
<1>5. \A i : ~Rewriting(u, i)
  <2> SUFFICES ASSUME NEW s \in Tasks, pc[s] \in {"write", "record"}, Uid(s) = u
               PROVE  FALSE
    BY DEF Rewriting
  <2>1. s = t
    BY <1>1 DEF FilesInv, SerialInv, OneAtATime, Running
  <2>2. QED
    BY <2>1
<1>6. builders[u] # None
  BY <1>2, UploadAssumption
<1>7. ASSUME NEW i \in 1 .. b.total
      PROVE  disk[PartName(u, i)] = <<b.hash[i]>>
  <2>1. b.hash[i] # None
    BY <1>3 DEF IsReady
  <2>2. QED
    BY <1>2, <1>5, <1>6, <2>1 DEF FilesInv, RecordedBlocksStored, Stored
<1>8. QED
  BY <1>3, <1>4, <1>7

\* Writing the result leaves the parts.
LEMMA ResultWritten ==
  ASSUME ProperClient, FilesInv, NEW t \in Tasks, pc[t] \in {"build", "copy"},
         NEW q \in {"copy", "erase"}, pc' = [pc EXCEPT ![t] = q],
         req' = req, ptr' = ptr, UNCHANGED <<builders, object>>,
         \A f \in Files : f # ResultName(Uid(t)) => disk'[f] = disk[f],
         NEW u \in Uids, u = Uid(t)
  PROVE  Stored(u)'
<1>1. \A s \in Tasks : pc[s] \in {"write", "record"} => pc'[s] = pc[s]
  BY DEF FilesInv, SerialInv, IInv, TypeOK
<1>2. \A i : IsPart(u, i) => disk'[PartName(u, i)] = disk[PartName(u, i)]
  BY PartsApart
<1>3. QED
  BY <1>1, <1>2, OwnStoredKept

\* The result file is opened, or is not.
LEMMA OpenResultFiles ==
  ASSUME ProperClient, FilesInv, NEW t \in Tasks,
         OpenResult(t) \/ OpenResultFails(t)
  PROVE  Kept(t)
<1>1. /\ pc[t] = "build" /\ pc' = [pc EXCEPT ![t] = "copy"]
      /\ pos' = [pos EXCEPT ![t] = 1] /\ offset' = [offset EXCEPT ![t] = 0]
      /\ req' = req /\ ptr' = ptr /\ UNCHANGED <<builders, object>>
      /\ \/ /\ disk' = [disk EXCEPT ![ResultName(Builder(t).uid)] = <<>>]
            /\ fd' = [fd EXCEPT ![t] = ResultName(Builder(t).uid)]
         \/ "result" \in Faults /\ UNCHANGED <<disk, fd>>
  BY DEF OpenResult, OpenResultFails, Open, Goto, heap
<1>2. pc[t] \in Holding
  BY <1>1 DEF Holding, UsesBuilder
<1>3. Builder(t).uid = Uid(t) /\ Uid(t) \in Uids
  BY <1>2, HeldBuilder
<1>4. /\ pc'[t] = "copy" /\ pos'[t] = 1 /\ offset'[t] = 0
  BY <1>1, <1>2, HolderFacts DEF FilesInv, SerialInv, IInv, TypeOK
<1>5. fd[t] = None
  BY <1>1 DEF FilesInv, PartInv
<1>6. /\ fd'[t] \in {None, ResultName(Uid(t))}
      /\ fd'[t] = None => "result" \in Faults
      /\ fd'[t] # None => disk'[ResultName(Uid(t))] = <<>>
  BY <1>1, <1>2, <1>3, <1>5, HolderFacts, NoneIsNoFile
<1>7. <<>> = [i \in 1 .. 0 |-> Builder(t).hash[i]]
  OBVIOUS
<1>8. IsReady(Builder(t))
  BY <1>1 DEF FilesInv, ResultInv
<1>9. PartInv(t)' /\ ResultInv(t)' /\ TotalsInv' /\ NoBrokenBuild'
  <2>1. offset'[t] = pos'[t] - 1
    BY <1>4
  <2>2. PartInv(t)' /\ TotalsInv'
    BY <1>1, <1>2, <1>4, HolderFacts DEF PartInv
  <2>3. NoBrokenBuild'
    BY <1>1, <1>2, HolderFacts DEF FilesInv, NoBrokenBuild
  <2>4. ResultInv(t)'
    BY <1>1, <1>2, <1>4, <1>6, <1>7, <1>8, <2>1, HolderFacts DEF ResultInv
  <2>5. QED
    BY <2>2, <2>3, <2>4
<1>10. ASSUME NEW u \in Uids, u = Uid(t)
       PROVE  Stored(u)'
  <2>1. \A f \in Files : f # ResultName(Uid(t)) => disk'[f] = disk[f]
    BY <1>1, <1>2, <1>3, HolderFacts
  <2>2. QED
    BY <1>1, <1>10, <2>1, ResultWritten
<1>11. QED
  BY <1>9, <1>10 DEF Kept

\* One turn of build's loop: the next block goes to the end of the result, if
\* that is open.
LEMMA CopyBlockFacts ==
  ASSUME ProperClient, FilesInv, NEW t \in Tasks, CopyBlock(t)
  PROVE  LET b == Builder(t)
             n == offset[t]
             f == ResultName(Uid(t))
         IN  /\ pc[t] = "copy" /\ n \in Nat /\ pos[t] = n + 1 /\ pos[t] \in 1 .. b.total
             /\ pc' = [pc EXCEPT ![t] = IF pos[t] = b.total THEN "erase" ELSE "copy"]
             /\ pc'[t] = IF pos[t] = b.total THEN "erase" ELSE "copy"
             /\ offset'[t] = n + 1 /\ pos'[t] = n + 2
             /\ fd[t] = None => disk' = disk
             /\ fd[t] # None =>
                  /\ disk[f] = [i \in 1 .. n |-> b.hash[i]]
                  /\ disk' = [disk EXCEPT ![f] = [i \in 1 .. n + 1 |-> b.hash[i]]]
             /\ fd'[t] = IF pos[t] = b.total THEN None ELSE fd[t]
             /\ req' = req /\ ptr' = ptr /\ UNCHANGED <<builders, object>>
<1> DEFINE b == Builder(t)
           n == offset[t]
           f == ResultName(Uid(t))
           part == disk[PartName(b.uid, pos[t])]
<1>1. /\ pc[t] = "copy"
      /\ pc' = [pc EXCEPT ![t] = IF pos[t] = b.total THEN "erase" ELSE "copy"]
      /\ Write(t, n, part)
      /\ offset' = [offset EXCEPT ![t] = offset[t] + Len(part)]
      /\ pos'    = [pos EXCEPT ![t] = pos[t] + 1]
      /\ fd'     = IF pos[t] = b.total THEN [fd EXCEPT ![t] = None] ELSE fd
      /\ req' = req /\ ptr' = ptr /\ UNCHANGED <<builders, object>>
  BY DEF CopyBlock, Goto, heap
<1>2. pc[t] \in Holding
  BY <1>1 DEF Holding, UsesBuilder
<1>3. b.uid = Uid(t) /\ b.total \in BlockNumbers /\ pos[t] \in 1 .. b.total
  BY <1>1, <1>2, HeldBuilder, BuilderFields DEF FilesInv, SerialInv, IInv, NumberInv
<1>4. n \in Nat /\ pos[t] \in Nat /\ n = pos[t] - 1
  BY <1>1 DEF FilesInv, SerialInv, IInv, TypeOK, ResultInv
<1>5. pos[t] = n + 1
  BY <1>4
<1>6. /\ \A i \in 1 .. b.total : b.hash[i] \in Blocks
      /\ part = <<b.hash[n + 1]>>
  BY <1>1, <1>3, <1>5, ReadyToCopy
<1>7. \A i \in 1 .. n + 1 : b.hash[i] \in Blocks
  <2>1. b.total \in Int
    BY <1>3, BlockRange
  <2>2. \A i \in 1 .. n + 1 : i \in 1 .. b.total
    BY <1>3, <1>4, <1>5, <2>1
  <2>3. QED
    BY <1>6, <2>2
<1>8. Len(part) = 1
  BY <1>6
<1>9. fd[t] = None => disk' = disk
  BY <1>1 DEF Write
<1>10. ASSUME fd[t] # None
       PROVE  /\ disk[f] = [i \in 1 .. n |-> b.hash[i]]
              /\ disk' = [disk EXCEPT ![f] = [i \in 1 .. n + 1 |-> b.hash[i]]]
  <2>1. fd[t] = f /\ disk[f] = [i \in 1 .. n |-> b.hash[i]]
    BY <1>1, <1>10 DEF FilesInv, ResultInv
  <2>2. WriteAt([i \in 1 .. n |-> b.hash[i]], n, <<b.hash[n + 1]>>) =
          [i \in 1 .. n + 1 |-> b.hash[i]]
    BY <1>4, <1>7, WriteNext
  <2>3. QED
    BY <1>1, <1>6, <1>10, <2>1, <2>2 DEF Write
<1>11. offset'[t] = n + 1 /\ pos'[t] = n + 2
  <2>1. offset'[t] = n + 1 /\ pos'[t] = pos[t] + 1
    BY <1>1, <1>8 DEF FilesInv, SerialInv, IInv, TypeOK
  <2>2. QED
    BY <1>4, <1>5, <2>1
<1>12. /\ pc'[t] = (IF pos[t] = b.total THEN "erase" ELSE "copy")
       /\ fd'[t] = (IF pos[t] = b.total THEN None ELSE fd[t])
  BY <1>1, <1>2, HolderFacts
<1>13. QED
  BY <1>1, <1>3, <1>4, <1>5, <1>9, <1>10, <1>11, <1>12

\* After the last turn the result is whole.
LEMMA CopyBlockFiles ==
  ASSUME ProperClient, FilesInv, NEW t \in Tasks, CopyBlock(t)
  PROVE  Kept(t)
<1> DEFINE b == Builder(t)
           n == offset[t]
           f == ResultName(Uid(t))
           last == pos[t] = b.total
<1>1. /\ pc[t] = "copy" /\ n \in Nat /\ pos[t] = n + 1
      /\ pc' = [pc EXCEPT ![t] = IF last THEN "erase" ELSE "copy"]
      /\ pc'[t] = IF last THEN "erase" ELSE "copy"
      /\ offset'[t] = n + 1 /\ pos'[t] = n + 2
      /\ fd[t] = None => disk' = disk
      /\ fd[t] # None => disk' = [disk EXCEPT ![f] = [i \in 1 .. n + 1 |-> b.hash[i]]]
      /\ fd'[t] = IF last THEN None ELSE fd[t]
      /\ req' = req /\ ptr' = ptr /\ UNCHANGED <<builders, object>>
  BY CopyBlockFacts
<1>2. pc[t] \in Holding
  BY <1>1 DEF Holding, UsesBuilder
<1>3. Uid(t)' = Uid(t) /\ Builder(t)' = b /\ f \in Files /\ TotalsInv'
  BY <1>1, <1>2, HolderFacts
<1>4. /\ IsReady(b) /\ fd[t] \in {None, f}
      /\ fd[t] = None => "result" \in Faults
  BY <1>1 DEF FilesInv, ResultInv
<1>5. fd[t] # None => disk'[f] = [i \in 1 .. n + 1 |-> b.hash[i]]
  BY <1>1, <1>2, HolderFacts
<1>6. last => [i \in 1 .. n + 1 |-> b.hash[i]] = Assembled(b)
  BY <1>1 DEF Assembled
<1>7. offset'[t] = pos'[t] - 1
  BY <1>1
<1>8. PartInv(t)'
  BY <1>1 DEF PartInv
<1>9. NoBrokenBuild'
  BY <1>1, <1>2, HolderFacts DEF FilesInv, NoBrokenBuild
<1>10. ResultInv(t)'
  <2> HIDE DEF b
  <2>1. CASE last
    <3>1. pc'[t] = "erase"
      BY <1>1, <2>1
    <3>2. "result" \notin Faults => disk'[f] = Assembled(b)
      BY <1>4, <1>5, <1>6, <2>1
    <3>3. QED
      BY <1>3, <1>4, <3>1, <3>2 DEF ResultInv
  <2>2. CASE ~last
    <3>1. pc'[t] = "copy" /\ fd'[t] = fd[t]
      BY <1>1, <2>2
    <3>2. fd'[t] # None => disk'[f] = [i \in 1 .. offset'[t] |-> b.hash[i]]
      BY <1>1, <1>5, <3>1
    <3>3. QED
      BY <1>3, <1>4, <1>7, <3>1, <3>2 DEF ResultInv
  <2>3. QED
    BY <2>1, <2>2
<1>11. ASSUME NEW u \in Uids, u = Uid(t)
       PROVE  Stored(u)'
  <2>1. \A g \in Files : g # f => disk'[g] = disk[g]
    BY <1>1, <1>2, HolderFacts
  <2>2. QED
    BY <1>1, <1>11, <2>1, ResultWritten
<1>12. QED
  BY <1>3, <1>8, <1>9, <1>10, <1>11 DEF Kept

\* No part is missing.
LEMMA NoMissingPart ==
  ASSUME ProperClient, FilesInv, NEW t \in Tasks, CopyBlockFails(t)
  PROVE  FALSE
<1>1. pc[t] = "copy" /\ disk[PartName(Builder(t).uid, pos[t])] = None
  BY DEF CopyBlockFails, Goto
<1>2. /\ Builder(t).uid = Uid(t) /\ pos[t] \in 1 .. Builder(t).total
  BY <1>1, HeldBuilder DEF Holding, UsesBuilder, FilesInv, SerialInv, IInv, NumberInv
<1>3. PICK d \in Blocks : disk[PartName(Uid(t), pos[t])] = <<d>>
  BY <1>1, <1>2, ReadyToCopy
<1>4. <<d>> \in Content /\ None \notin Content
  BY BlocksAssumption DEF Content
<1>5. QED
  BY <1>1, <1>2, <1>3, <1>4

\* The builder is taken out of the map, and its parts are removed.
LEMMA DeleteFileBuilderFiles ==
  ASSUME ProperClient, FilesInv, NEW t \in Tasks, DeleteFileBuilder(t)
  PROVE  Kept(t)
<1>1. /\ pc[t] = "erase" /\ pc' = [pc EXCEPT ![t] = pc'[t]]
      /\ pc'[t] \in {"clear", "notify"}
      /\ builders' = [builders EXCEPT ![Uid(t)] = None]
      /\ UNCHANGED <<req, object, fd, disk>>
  BY DEF DeleteFileBuilder, Goto, FilesInv, SerialInv, IInv, TypeOK
<1>2. Uid(t) \in Uids /\ Uid(t)' = Uid(t)
  BY <1>1, HeldBuilder DEF Holding, Uid
<1>3. builders'[Uid(t)] = None
  BY <1>1, <1>2 DEF FilesInv, SerialInv, IInv, TypeOK
<1>4. PartInv(t)' /\ ResultInv(t)'
  BY <1>1, <1>2, <1>3 DEF FilesInv, PartInv, ResultInv
<1>5. TotalsInv' /\ NoBrokenBuild'
  BY <1>1 DEF FilesInv, TotalsInv, NoBrokenBuild, SerialInv, IInv, TypeOK
<1>6. QED
  BY <1>3, <1>4, <1>5 DEF Kept, Stored

\* While they are, the map has no builder for the upload.
LEMMA ClearBlockFiles ==
  ASSUME ProperClient, FilesInv, NEW t \in Tasks, ClearBlock(t)
  PROVE  Kept(t)
<1>1. /\ pc[t] = "clear" /\ pc' = [pc EXCEPT ![t] = pc'[t]]
      /\ pc'[t] \in {"clear", "notify"}
      /\ UNCHANGED <<req, object, builders>>
      /\ fd'[t] \in {None, fd[t]}
  BY DEF ClearBlock, Goto, FilesInv, SerialInv, IInv, TypeOK
<1>2. Uid(t)' = Uid(t) /\ builders[Uid(t)] = None /\ fd[t] = None
  BY <1>1 DEF FilesInv, PartInv, ResultInv, Uid
<1>3. PartInv(t)' /\ ResultInv(t)'
  BY <1>1, <1>2 DEF PartInv, ResultInv
<1>4. TotalsInv' /\ NoBrokenBuild'
  BY <1>1 DEF FilesInv, TotalsInv, NoBrokenBuild, SerialInv, IInv, TypeOK
<1>5. QED
  BY <1>1, <1>2, <1>3, <1>4 DEF Kept, Stored

-----------------------------------------------------------------------------
(* Every step keeps the invariant of the files.                            *)

\* A request arrives: its task has no file yet, and no other task changes.
LEMMA HandleRequestFiles ==
  ASSUME ProperClient, FilesInv, NEW t \in Tasks, NEW r \in Requests,
         HandleRequest(t, r)
  PROVE  /\ TotalsInv' /\ NoBrokenBuild' /\ RecordedBlocksStored'
         /\ \A s \in Tasks : PartInv(s)' /\ ResultInv(s)'
<1>1. /\ pc[t] = "idle" /\ pc' = [pc EXCEPT ![t] = pc'[t]]
      /\ pc'[t] \in {"rejected", "get"}
      /\ req' = [req EXCEPT ![t] = r]
      /\ UNCHANGED <<ptr, pos, offset, builders, object, fd, disk>>
  BY DEF HandleRequest, Goto, heap, FilesInv, SerialInv, IInv, TypeOK
<1>2. /\ \A s \in Tasks : s # t => pc'[s] = pc[s] /\ req'[s] = req[s]
      /\ pc'[t] \in {"rejected", "get"}
  BY <1>1 DEF FilesInv, SerialInv, IInv, TypeOK
<1>3. TotalsInv' /\ NoBrokenBuild'
  BY <1>1, <1>2 DEF FilesInv, TotalsInv, NoBrokenBuild
<1>4. ASSUME NEW s \in Tasks
      PROVE  PartInv(s)' /\ ResultInv(s)'
  <2>1. CASE s = t
    BY <1>1, <1>2, <2>1 DEF FilesInv, PartInv, ResultInv
  <2>2. CASE s # t
    BY <1>1, <1>2, <2>2 DEF FilesInv, PartInv, ResultInv, Part, Builder, Uid
  <2>3. QED
    BY <2>1, <2>2
<1>5. ASSUME NEW u \in Uids
      PROVE  Stored(u)'
  <2>1. ASSUME NEW i, Rewriting(u, i)
        PROVE  Rewriting(u, i)'
    <3>1. PICK s \in Tasks : /\ pc[s] \in {"write", "record"}
                             /\ req[s].uid = u /\ req[s].idx = i
      BY <2>1 DEF Rewriting, Uid
    <3>2. s # t
      BY <1>1, <3>1
    <3>3. QED
      BY <1>2, <3>1, <3>2 DEF Rewriting, Uid
  <2>2. Stored(u)
    BY DEF FilesInv, RecordedBlocksStored
  <2>3. QED
    BY <1>1, <2>1, <2>2 DEF Stored
<1>6. Uids' = Uids
  BY DEF Uids
<1>7. QED
  BY <1>3, <1>4, <1>5 DEF RecordedBlocksStored

\* After a crash there are only files.
LEMMA ProcessDiesFiles ==
  ASSUME ProperClient, FilesInv, ProcessDies
  PROVE  /\ TotalsInv' /\ NoBrokenBuild' /\ RecordedBlocksStored'
         /\ \A s \in Tasks : PartInv(s)' /\ ResultInv(s)'
<1>1. /\ \A s \in Tasks : /\ pc'[s] \notin Running /\ pc'[s] # "broken"
                          /\ object'[s] = None /\ fd'[s] = None
      /\ \A u \in Uids : builders'[u] = None
  BY DEF ProcessDies, FilesInv, NoBrokenBuild, Running
<1>2. QED
  BY <1>1 DEF TotalsInv, NoBrokenBuild, RecordedBlocksStored, Stored, PartInv,
              ResultInv, Running

\* A step of a task other than the end of the process.
LEMMA TaskFiles ==
  ASSUME ProperClient, "write" \notin Faults, FilesInv, NEW t \in Tasks,
         Step(t), ~Abort(t)
  PROVE  Frame(t) /\ Kept(t) /\ pc[t] \in Running
<1>1. CASE GetFileBuilder(t)
  BY <1>1, NoFileFrame, GetFileBuilderFiles DEF GetFileBuilder, Goto, Running
<1>2. CASE \/ GetFileBuilderFails(t) \/ Compare(t) \/ OpenPartFails(t)
           \/ Touch(t) \/ CheckReady(t) \/ Notify(t)
  <2>1. pc[t] \in Running
    BY <1>2 DEF GetFileBuilderFails, Compare, OpenPartFails, Touch, CheckReady,
                Notify, Goto, Running
  <2>2. QED
    BY <1>2, <2>1, NoFileFrame, QuietFiles
<1>3. CASE OpenPart(t)
  BY <1>3, FileFrame, OpenPartFiles DEF OpenPart, Goto, Running
<1>4. CASE WritePart(t)
  BY <1>4, FileFrame, WritePartFiles DEF WritePart, Goto, Running
<1>5. CASE UpdateBlockHash(t)
  BY <1>5, NoFileFrame, UpdateBlockHashFiles DEF UpdateBlockHash, Goto, Running
<1>6. CASE OpenResult(t)
  BY <1>6, FileFrame, OpenResultFiles DEF OpenResult, Goto, Running
<1>7. CASE OpenResultFails(t)
  BY <1>7, NoFileFrame, OpenResultFiles DEF OpenResultFails, Goto, Running
<1>8. CASE CopyBlock(t)
  BY <1>8, FileFrame, CopyBlockFiles DEF CopyBlock, Goto, Running
<1>9. CASE DeleteFileBuilder(t)
  BY <1>9, NoFileFrame, DeleteFileBuilderFiles DEF DeleteFileBuilder, Goto, Running
<1>10. CASE ClearBlock(t)
  BY <1>10, ClearFrame, ClearBlockFiles DEF ClearBlock, Goto, Running
<1>11. CASE CopyBlockFails(t) \/ WritePartFails(t)
  BY <1>11, NoMissingPart DEF WritePartFails
<1>12. QED
  BY <1>1, <1>2, <1>3, <1>4, <1>5, <1>6, <1>7, <1>8, <1>9, <1>10, <1>11 DEF Step

\* At first there is no file, no builder and no task.
LEMMA FilesInit == ASSUME Init PROVE FilesInv
<1>1. SerialInv
  BY InitInv DEF SerialInv, OneAtATime, HoldsTheMapsBuilder, Init, Running,
                 Holding, UsesBuilder
<1>2. QED
  BY <1>1 DEF Init, FilesInv, TotalsInv, NoBrokenBuild, RecordedBlocksStored,
              Stored, PartInv, ResultInv

\* The invariant of the files is inductive.
LEMMA FilesNext ==
  ASSUME ProperClient, "write" \notin Faults, FilesInv, [Next]_vars
  PROVE  FilesInv'
<1>1. SerialInv'
  BY NextInv, OneAtATimeKept, HoldsTheMapsBuilderKept
     DEF FilesInv, SerialInv, IInv, ProperClient
<1>2. ASSUME NEW t \in Tasks, NEW r \in Requests, HandleRequest(t, r)
      PROVE  FilesInv'
  BY <1>1, <1>2, HandleRequestFiles DEF FilesInv
<1>3. ASSUME NEW t \in Tasks, Step(t), ~Abort(t)
      PROVE  FilesInv'
  <2>1. Frame(t) /\ Kept(t) /\ pc[t] \in Running
    BY <1>3, TaskFiles
  <2>2. \A s \in Tasks : PartInv(s)' /\ ResultInv(s)'
    BY <2>1, OthersKept DEF Kept
  <2>3. \A u \in Uids : Stored(u)'
    BY <2>1, OthersKept DEF Kept
  <2>4. QED
    BY <1>1, <2>1, <2>2, <2>3 DEF Kept, FilesInv, RecordedBlocksStored
<1>4. CASE Crash \/ \E t \in Tasks : Abort(t)
  BY <1>1, <1>4, ProcessDiesFiles DEF Crash, Abort, FilesInv
<1>5. CASE UNCHANGED vars
  <2>1. TotalsInv' /\ NoBrokenBuild'
    BY <1>5 DEF vars, task, heap, FilesInv, TotalsInv, NoBrokenBuild
  <2>2. \A s \in Tasks : PartInv(s)' /\ ResultInv(s)'
    BY <1>5, ZenonT(40) DEF vars, task, heap, FilesInv, PartInv, ResultInv, Part, Builder, Uid
  <2>3. RecordedBlocksStored'
    BY <1>5 DEF vars, task, heap, FilesInv, RecordedBlocksStored, Stored,
                Rewriting, Uid
  <2>4. QED
    BY <1>1, <2>1, <2>2, <2>3 DEF FilesInv
<1>6. QED
  BY <1>2, <1>3, <1>4, <1>5 DEF Next

\* The invariant of the files, for a client that posts the blocks of an upload
\* one after the other.
THEOREM FilesInvariance ==
  ASSUME ProperClient, "write" \notin Faults
  PROVE  Spec => []FilesInv
<1>1. Init => FilesInv
  BY FilesInit
<1>2. FilesInv /\ [Next]_vars => FilesInv'
  BY FilesNext
<1>3. QED
  BY <1>1, <1>2, PTL DEF Spec

\* A block with a digest is on disk: neither retries nor failures to open a
\* file nor crashes separate the digests from the parts.
THEOREM DigestsMatchDisk ==
  ASSUME ProperClient, "write" \notin Faults
  PROVE  Spec => []RecordedBlocksStored
<1>1. FilesInv => RecordedBlocksStored
  BY DEF FilesInv
<1>2. QED
  BY <1>1, FilesInvariance, PTL

\* A block that is not written again, because its digest is known, is on disk.
THEOREM SkippedBlocksAreStored ==
  ASSUME ProperClient, "write" \notin Faults
  PROVE  Spec => []SkippedBlockIsStored
<1>1. ASSUME FilesInv, NEW t \in Tasks, pc[t] = "compare",
             ~NeedsWrite(Builder(t), req[t].idx, req[t].data)
      PROVE  disk[Part(t)] = <<req[t].data>>
  <2> DEFINE b == Builder(t)
  <2>1. pc[t] \in Holding
    BY <1>1 DEF Holding, UsesBuilder
  <2>2. /\ pc[t] \in Running /\ Uid(t) \in Uids /\ b.uid = Uid(t)
        /\ ptr[t] \in Tasks /\ ptr[t] = builders[Uid(t)]
        /\ req[t].idx \in 1 .. b.total /\ req[t].data \in Blocks
    BY <1>1, <2>1, HeldBuilder
  <2>3. b.hash[req[t].idx] = req[t].data /\ b.hash[req[t].idx] # None
    BY <1>1, <2>2, BlocksAssumption DEF NeedsWrite
  <2>4. ~Rewriting(Uid(t), req[t].idx)
    <3> SUFFICES ASSUME NEW s \in Tasks, pc[s] \in {"write", "record"},
                        Uid(s) = Uid(t)
                 PROVE  FALSE
      BY DEF Rewriting
    <3>1. s = t
      BY <1>1, <2>2 DEF FilesInv, SerialInv, OneAtATime, Running
    <3>2. QED
      BY <1>1, <3>1
  <2>5. builders[Uid(t)] # None /\ b = object[builders[Uid(t)]]
    BY <2>2, UploadAssumption DEF Builder
  <2> HIDE DEF b
  <2>6. disk[PartName(Uid(t), req[t].idx)] = <<req[t].data>>
    BY <1>1, <2>2, <2>3, <2>4, <2>5 DEF FilesInv, RecordedBlocksStored, Stored
  <2>7. QED
    BY <2>2, <2>6 DEF Part, b
<1>2. FilesInv => SkippedBlockIsStored
  BY <1>1 DEF SkippedBlockIsStored
<1>3. QED
  BY <1>2, FilesInvariance, PTL

\* No build finds a part missing.
THEOREM NoBuildBreaks ==
  ASSUME ProperClient, "write" \notin Faults
  PROVE  Spec => []NoBrokenBuild
<1>1. FilesInv => NoBrokenBuild
  BY DEF FilesInv
<1>2. QED
  BY <1>1, FilesInvariance, PTL

\* When build returns, the result file has every block, in order.
THEOREM ResultsAreWhole ==
  ASSUME ProperClient, "write" \notin Faults, "result" \notin Faults
  PROVE  Spec => []BuildFaithful
<1>1. FilesInv => BuildFaithful
  BY DEF FilesInv, ResultInv, BuildFaithful
<1>2. QED
  BY <1>1, FilesInvariance, PTL

-----------------------------------------------------------------------------
(* Parts are removed with their builder.                                   *)

\* No task of such a client aborts the process.
LEMMA NoAbort ==
  ASSUME ProperClient, FilesInv, NEW t \in Tasks, Abort(t)
  PROVE  FALSE
<1>1. pc[t] \in UsesBuilder /\ pc[t] \in Holding
  BY DEF Abort, UsesBuilder, Holding
<1>2. /\ Uid(t) \in Uids /\ ptr[t] \in Tasks /\ ptr[t] = builders[Uid(t)]
      /\ req[t].idx \in 1 .. Builder(t).total
  BY <1>1, HeldBuilder
<1>3. ptr[t] \notin freed
  BY <1>2, UploadAssumption DEF FilesInv, SerialInv, IInv, MapNeverDangles
<1>4. QED
  BY <1>2, <1>3 DEF Abort

Clearing(u, i) == \E s \in Tasks : pc[s] = "clear" /\ Uid(s) = u /\ pos[s] <= i

\* A step of the upload itself leaves no part without a builder.
LEMMA OwnPartsKept ==
  ASSUME ProperClient, "write" \notin Faults, "remove" \notin Faults, FilesInv,
         NEW t \in Tasks, Step(t), ~Abort(t),
         NEW r \in Requests, r.uid = Uid(t), NEW i \in 1 .. r.total,
         disk'[PartName(r.uid, i)] # None,
         disk[PartName(r.uid, i)] # None =>
           builders[r.uid] # None \/ Clearing(r.uid, i)
  PROVE  builders'[r.uid] # None \/ Clearing(r.uid, i)'
<1> DEFINE u == Uid(t)
<1>1. /\ Frame(t) /\ pc[t] \in Running /\ u \in Uids
  BY TaskFiles DEF Uids
<1>2. CASE pc[t] \in Holding /\ ~DeleteFileBuilder(t)
  <2>1. builders[u] # None
    <3>1. ptr[t] \in Tasks /\ ptr[t] = builders[u]
      BY <1>2, HeldBuilder, SMTT(30)
    <3>2. QED
      BY <3>1, UploadAssumption
  <2>2. builders' = builders
    BY <1>2, StepFacts, ZenonT(40) DEF FilesInv, SerialInv, IInv, GetFileBuilder, Goto,
         Holding, UsesBuilder, Step, GetFileBuilderFails, Compare, OpenPart,
         OpenPartFails, WritePart, WritePartFails, UpdateBlockHash, Touch,
         CheckReady, OpenResult, OpenResultFails, CopyBlock, CopyBlockFails,
         ClearBlock, Notify, heap
  <2>3. QED
    BY <2>1, <2>2
<1>3. CASE GetFileBuilder(t)
  <2>1. builders'[u] # None
    BY <1>1, <1>3, UploadAssumption DEF GetFileBuilder, FilesInv, SerialInv,
                                        IInv, TypeOK
  <2>2. QED
    BY <2>1
<1>4. CASE GetFileBuilderFails(t) \/ Notify(t)
  <2>1. pc[t] # "clear" /\ UNCHANGED <<builders, disk>>
    BY <1>4 DEF GetFileBuilderFails, Notify, Goto, heap
  <2>2. \A s \in Tasks : pc[s] = "clear" =>
          pc'[s] = "clear" /\ Uid(s)' = Uid(s) /\ pos'[s] = pos[s]
    BY <1>1, <2>1 DEF Frame, Uid
  <2>3. Clearing(r.uid, i) => Clearing(r.uid, i)'
    <3>1. ASSUME NEW s \in Tasks, pc[s] = "clear", Uid(s) = r.uid, pos[s] <= i
          PROVE  pc'[s] = "clear" /\ Uid(s)' = r.uid /\ pos'[s] <= i
      BY <2>2, <3>1
    <3>2. QED
      BY <3>1 DEF Clearing
  <2>4. QED
    BY <2>1, <2>3
<1>5. CASE DeleteFileBuilder(t)
  <2>1. pc[t] = "erase" /\ builders[u] # None
    <3>1. pc[t] = "erase"
      BY <1>5 DEF DeleteFileBuilder, Goto
    <3>2. QED
      BY <3>1, HeldBuilder, UploadAssumption DEF Holding
  <2>2. pc'[t] = "clear" /\ pos'[t] = 1 /\ Uid(t)' = u
    BY <1>1, <1>5, <2>1 DEF DeleteFileBuilder, Goto, Frame, Uid, FilesInv,
                            SerialInv, IInv, TypeOK
  <2>3. 1 <= i
    OBVIOUS
  <2>4. QED
    BY <2>2, <2>3 DEF Clearing
<1>6. CASE ClearBlock(t)
  <2> DEFINE b == object[target[t]]
  <2>1. pc[t] = "clear" /\ builders[u] = None
    BY <1>6 DEF ClearBlock, Goto, FilesInv, ResultInv
  <2>2. /\ target[t] \in Tasks /\ b # None /\ b.uid = u
        /\ b \in BuilderObjects /\ pos[t] \in 1 .. b.total
    BY <2>1 DEF FilesInv, SerialInv, IInv, TargetInv, TypeOK
  <2>3. b.total = r.total /\ b.total \in BlockNumbers
    <3>1. r.total # 0
      OBVIOUS
    <3>2. QED
      BY <2>2, <3>1, BuilderFields DEF FilesInv, TotalsInv
  <2>4. /\ disk' = [disk EXCEPT ![PartName(u, pos[t])] = None]
        /\ pos' = [pos EXCEPT ![t] = pos[t] + 1]
        /\ pc' = [pc EXCEPT ![t] = IF pos[t] = b.total THEN "notify" ELSE "clear"]
    BY <1>6, <2>2 DEF ClearBlock, Goto
  <2>5. i # pos[t] /\ disk[PartName(u, i)] # None
    <3>1. IsPart(u, i)
      BY DEF IsPart
    <3>2. PartName(u, i) \in Files
      BY <3>1, PartsApart
    <3>3. QED
      BY <2>4, <3>2 DEF FilesInv, SerialInv, IInv, TypeOK
  <2>6. PICK s \in Tasks : pc[s] = "clear" /\ Uid(s) = u /\ pos[s] <= i
    BY <2>1, <2>5 DEF Clearing
  <2>7. s = t
    BY <1>1, <2>6 DEF FilesInv, SerialInv, OneAtATime, Running
  <2>8. pos[t] \in Int /\ pos[t] <= b.total /\ i <= b.total /\ i \in Int
    BY <2>2, <2>3, BlockRange
  <2>9. pos[t] # b.total /\ pos[t] + 1 <= i
    BY <2>5, <2>6, <2>7, <2>8
  <2>10. pc'[t] = "clear" /\ pos'[t] = pos[t] + 1 /\ Uid(t)' = u
    BY <1>1, <2>4, <2>9 DEF Frame, Uid, FilesInv, SerialInv, IInv, TypeOK
  <2>11. QED
    BY <2>9, <2>10 DEF Clearing
<1>7. QED
  BY <1>1, <1>2, <1>3, <1>4, <1>5, <1>6
     DEF Step, Goto, Holding, UsesBuilder, Compare, OpenPart, OpenPartFails,
         WritePart, WritePartFails, UpdateBlockHash, Touch, CheckReady,
         OpenResult, OpenResultFails, CopyBlock, CopyBlockFails

\* Every step leaves every part an owner.
LEMMA OwnersNext ==
  ASSUME ProperClient, "write" \notin Faults, "remove" \notin Faults, FilesInv,
         PartsHaveOwner, [Next]_vars
  PROVE  PartsHaveOwner'
<1> SUFFICES ASSUME restarts' = 0, NEW r \in Requests, NEW i \in 1 .. r.total,
                    disk'[PartName(r.uid, i)] # None
             PROVE  builders'[r.uid] # None \/ Clearing(r.uid, i)'
  BY DEF PartsHaveOwner, Clearing
<1>1. restarts = 0 /\ disk[PartName(r.uid, i)] # None =>
        builders[r.uid] # None \/ Clearing(r.uid, i)
  BY DEF PartsHaveOwner, Clearing
<1>2. ASSUME NEW t \in Tasks, NEW q \in Requests, HandleRequest(t, q)
      PROVE  builders'[r.uid] # None \/ Clearing(r.uid, i)'
  <2>1. UNCHANGED <<builders, disk, pos, restarts>>
    BY <1>2 DEF HandleRequest, heap
  <2>2. \A s \in Tasks : pc[s] = "clear" => pc'[s] = "clear" /\ Uid(s)' = Uid(s)
    BY <1>2 DEF HandleRequest, Goto, Uid, FilesInv, SerialInv, IInv, TypeOK
  <2>3. Clearing(r.uid, i) => Clearing(r.uid, i)'
    BY <2>1, <2>2 DEF Clearing
  <2>4. QED
    BY <1>1, <2>1, <2>3
<1>3. ASSUME NEW t \in Tasks, Step(t)
      PROVE  builders'[r.uid] # None \/ Clearing(r.uid, i)'
  <2>1. ~Abort(t)
    BY NoAbort
  <2>2. restarts' = restarts
    BY <1>3, <2>1 DEF Step, GetFileBuilder, GetFileBuilderFails, Compare,
         OpenPart, OpenPartFails, WritePart, WritePartFails, UpdateBlockHash,
         Touch, CheckReady, OpenResult, OpenResultFails, CopyBlock,
         CopyBlockFails, DeleteFileBuilder, ClearBlock, Notify
  <2>3. CASE r.uid = Uid(t)
    BY <1>1, <1>3, <2>1, <2>2, <2>3, OwnPartsKept
  <2>4. CASE r.uid # Uid(t)
    <3>1. Frame(t)
      BY <1>3, <2>1, TaskFiles
    <3>2. r.uid \in Uids /\ IsPart(r.uid, i)
      BY DEF Uids, IsPart
    <3>3. /\ builders'[r.uid] = builders[r.uid]
          /\ disk'[PartName(r.uid, i)] = disk[PartName(r.uid, i)]
      BY <2>4, <3>1, <3>2 DEF Frame
    <3>4. ASSUME Clearing(r.uid, i)
          PROVE  Clearing(r.uid, i)'
      <4>1. PICK s \in Tasks : pc[s] = "clear" /\ Uid(s) = r.uid /\ pos[s] <= i
        BY <3>4 DEF Clearing
      <4>2. s # t
        BY <2>4, <4>1
      <4>3. QED
        BY <3>1, <4>1, <4>2 DEF Frame, Clearing, Uid
    <3>5. QED
      BY <1>1, <2>2, <3>3, <3>4
  <2>5. QED
    BY <2>3, <2>4
<1>4. CASE Crash
  <2>1. restarts \in Nat /\ restarts' = restarts + 1
    BY <1>4 DEF Crash, FilesInv, SerialInv, IInv, TypeOK
  <2>2. QED
    BY <2>1
<1>5. CASE UNCHANGED vars
  BY <1>1, <1>5 DEF vars, task, heap, Clearing, Uid
<1>6. QED
  BY <1>2, <1>3, <1>4, <1>5 DEF Next

\* A part belongs to an upload in progress, or is about to be removed: without
\* a crash, complete uploads leave nothing but their results behind.
THEOREM PartsAreOwned ==
  ASSUME ProperClient, "write" \notin Faults, "remove" \notin Faults
  PROVE  Spec => []PartsHaveOwner
<1>1. Init => PartsHaveOwner
  <2> SUFFICES ASSUME Init, NEW r \in Requests, NEW i \in 1 .. r.total
               PROVE  disk[PartName(r.uid, i)] = None
    BY DEF PartsHaveOwner
  <2>1. PartName(r.uid, i) \in Files
    BY DEF Files
  <2>2. QED
    BY <2>1 DEF Init
<1>2. FilesInv /\ PartsHaveOwner /\ [Next]_vars => PartsHaveOwner'
  BY OwnersNext
<1>3. QED
  BY <1>1, <1>2, FilesInvariance, PTL DEF Spec

-----------------------------------------------------------------------------
(* What has been handed to the converter stays a video.                    *)

\* The digests of a builder are those of blocks posted for its upload.
LEMMA PostedKept ==
  ASSUME ProperClient, FilesInv, PostedInv, NEW t \in Tasks,
         Step(t), ~Abort(t)
  PROVE  PostedInv'
<1>1. CASE GetFileBuilder(t)
  <2>1. \A s \in Tasks : object'[s] = object[s] \/
          object'[s] = NewBuilder(Uid(t), req[t].total)
    BY <1>1 DEF GetFileBuilder, FilesInv, SerialInv, IInv, TypeOK
  <2>2. \A i \in 1 .. req[t].total :
          NewBuilder(Uid(t), req[t].total).hash[i] = None
    BY DEF NewBuilder
  <2>3. NewBuilder(Uid(t), req[t].total).total = req[t].total
    BY DEF NewBuilder
  <2>4. QED
    BY <2>1, <2>2, <2>3 DEF PostedInv
<1>2. CASE UpdateBlockHash(t)
  <2> DEFINE o == ptr[t]
             i == req[t].idx
             d == req[t].data
  <2>1. /\ pc[t] = "record"
        /\ object' = [object EXCEPT ![o].hash[i] = d]
    BY <1>2 DEF UpdateBlockHash, Goto
  <2>2. /\ o \in Tasks /\ req[t] \in Requests
        /\ object[o] \in BuilderObjects /\ object[o] # None
        /\ object[o].uid = req[t].uid
    BY <2>1, HeldBuilder DEF Holding, UsesBuilder, Builder, Uid
  <2>3. /\ \A s \in Tasks : s # o => object'[s] = object[s]
        /\ object'[o] = [object[o] EXCEPT !.hash[i] = d]
    BY <2>1, <2>2 DEF FilesInv, SerialInv, IInv, TypeOK
  <2>4. /\ object'[o].uid = object[o].uid /\ object'[o].total = object[o].total
        /\ object'[o].hash = [object[o].hash EXCEPT ![i] = d]
    BY <2>2, <2>3 DEF BuilderObjects
  <2>5. object[o].hash \in [1 .. object[o].total -> Blocks \cup {None}]
    BY <2>2, BuilderFields
  <2>6. ASSUME NEW k \in 1 .. object'[o].total, object'[o].hash[k] # None
        PROVE  \E q \in Requests : /\ q.uid = object'[o].uid /\ q.idx = k
                                   /\ q.data = object'[o].hash[k]
    <3>1. CASE k = i
      <4>1. object'[o].hash[k] = d
        BY <2>4, <2>5, <2>6, <3>1
      <4>2. QED
        BY <2>2, <2>4, <3>1, <4>1
    <3>2. CASE k # i
      <4>1. object'[o].hash[k] = object[o].hash[k] /\ k \in 1 .. object[o].total
        BY <2>4, <2>5, <2>6, <3>2
      <4>2. QED
        BY <2>2, <2>4, <2>6, <4>1 DEF PostedInv
    <3>3. QED
      BY <3>1, <3>2
  <2>7. ASSUME NEW s \in Tasks, s # o, object'[s] # None,
               NEW k \in 1 .. object'[s].total, object'[s].hash[k] # None
        PROVE  \E q \in Requests : /\ q.uid = object'[s].uid /\ q.idx = k
                                   /\ q.data = object'[s].hash[k]
    <3>1. object'[s] = object[s]
      BY <2>3, <2>7
    <3>2. QED
      BY <2>7, <3>1 DEF PostedInv
  <2>8. ASSUME NEW s \in Tasks, object'[s] # None,
               NEW k \in 1 .. object'[s].total, object'[s].hash[k] # None
        PROVE  \E q \in Requests : /\ q.uid = object'[s].uid /\ q.idx = k
                                   /\ q.data = object'[s].hash[k]
    <3>1. CASE s = o
      BY <2>6, <2>8, <3>1
    <3>2. CASE s # o
      BY <2>7, <2>8, <3>2
    <3>3. QED
      BY <3>1, <3>2
  <2>9. QED
    BY <2>8 DEF PostedInv
<1>3. CASE ~(GetFileBuilder(t) \/ UpdateBlockHash(t))
  <2>1. object' = object
    BY <1>3 DEF Step, GetFileBuilderFails, Compare, OpenPart, OpenPartFails,
         WritePart, WritePartFails, Touch, CheckReady, OpenResult,
         OpenResultFails, CopyBlock, CopyBlockFails, DeleteFileBuilder,
         ClearBlock, Notify, heap
  <2>2. QED
    BY <2>1 DEF PostedInv
<1>4. QED
  BY <1>1, <1>2, <1>3

\* What build has assembled is a video the client posted.
LEMMA AssembledIsVideo ==
  ASSUME ProperClient, FilesInv, PostedInv, NEW t \in Tasks,
         pc[t] \in {"build", "copy"}
  PROVE  IsVideo(Uid(t), Assembled(Builder(t))) /\ Assembled(Builder(t)) # None
<1> DEFINE b == Builder(t)
           file == Assembled(b)
<1>1. /\ b # None /\ b \in BuilderObjects /\ b.uid = Uid(t)
      /\ b.total = req[t].total /\ req[t] \in Requests /\ ptr[t] \in Tasks
  BY HeldBuilder DEF Holding, UsesBuilder
<1>2. \A i \in 1 .. b.total : b.hash[i] \in Blocks
  BY ReadyToCopy
<1>3. b.total \in Nat
  BY <1>1, BuilderFields, BlockRange
<1>4. file = [i \in 1 .. b.total |-> b.hash[i]]
  BY DEF Assembled
<1>5. file \in Seq(Blocks) /\ Len(file) = b.total
  BY <1>2, <1>3, <1>4, PrefixLength
<1>6. file # None
  <2>1. file \in [1 .. b.total -> Blocks \cup {Hole}]
    BY <1>2, <1>4
  <2>2. file \in Content
    BY <1>3, <2>1, SeqDef DEF Content
  <2>3. QED
    BY <2>2, BlocksAssumption DEF Content
<1>7. ASSUME NEW i \in 1 .. b.total
      PROVE  \E q \in Requests : q.uid = Uid(t) /\ q.idx = i /\ q.data = file[i]
  <2>1. b.hash[i] # None /\ file[i] = b.hash[i]
    BY <1>2, <1>4, BlocksAssumption
  <2>2. QED
    BY <1>1, <2>1 DEF PostedInv, Builder
<1> HIDE DEF file
<1>8. IsVideo(Uid(t), file)
  BY <1>1, <1>5, <1>6, <1>7 DEF IsVideo, Uid
<1>9. QED
  BY <1>6, <1>8 DEF file

\* What a step of t does to the result of its own upload.
OwnVideo(t, u) ==
  /\ disk'[ResultName(u)] # None =>
       pc'[t] = "copy" \/ IsVideo(u, disk'[ResultName(u)])
  /\ disk[ResultName(u)] # None => disk'[ResultName(u)] # None
  /\ pc'[t] \in {"erase", "clear", "notify"} => disk'[ResultName(u)] # None
  /\ \/ published' = published
     \/ pc[t] = "notify" /\ published' = Append(published, u)

\* A step other than a build's.
LEMMA ResultLeft ==
  ASSUME FilesInv, VideosInv, NEW t \in Tasks, pc[t] \in Running,
         NEW u \in Uids, u = Uid(t), pc[t] # "copy",
         disk'[ResultName(u)] = disk[ResultName(u)],
         pc'[t] \in {"erase", "clear", "notify"} => pc[t] \in {"erase", "clear"},
         \/ published' = published
         \/ pc[t] = "notify" /\ published' = Append(published, u)
  PROVE  OwnVideo(t, u)
<1>1. \A s \in Tasks : ~(pc[s] = "copy" /\ Uid(s) = u)
  BY DEF FilesInv, SerialInv, OneAtATime, Running
<1>2. disk[ResultName(u)] # None => IsVideo(u, disk[ResultName(u)])
  BY <1>1 DEF VideosInv
<1>3. pc[t] \in {"erase", "clear"} => disk[ResultName(u)] # None
  BY DEF VideosInv
<1>4. QED
  BY <1>2, <1>3 DEF OwnVideo

\* Every step of a task leaves the result of its upload a video, or goes on
\* with its build.
LEMMA OwnVideoKept ==
  ASSUME ProperClient, "write" \notin Faults, "result" \notin Faults,
         FilesInv, FilesInv', PostedInv, VideosInv, NEW t \in Tasks,
         Step(t), ~Abort(t), NEW u \in Uids, u = Uid(t), Frame(t),
         pc[t] \in Running
  PROVE  OwnVideo(t, u)
<1>1. pc \in [Tasks -> {"idle"} \cup Running \cup Finished]
  BY DEF FilesInv, SerialInv, IInv, TypeOK
<1>2. CASE \/ GetFileBuilder(t) \/ GetFileBuilderFails(t) \/ Compare(t)
           \/ OpenPartFails(t) \/ UpdateBlockHash(t) \/ Touch(t) \/ CheckReady(t)
  <2>1. disk' = disk
    BY <1>2, NoFileFrame
  <2>2. pc[t] # "copy" /\ pc'[t] \notin {"erase", "clear", "notify"}
    BY <1>1, <1>2 DEF GetFileBuilder, GetFileBuilderFails, Compare, OpenPartFails,
                 UpdateBlockHash, Touch, CheckReady, Goto
  <2>3. published' = published
    BY <1>2 DEF GetFileBuilder, GetFileBuilderFails, Compare, OpenPartFails,
                 UpdateBlockHash, Touch, CheckReady
  <2>4. QED
    BY <2>1, <2>2, <2>3, ResultLeft
<1>3. CASE OpenPart(t) \/ WritePart(t)
  <2>1. /\ pc[t] \in {"open", "write"} /\ pc[t] \in Holding
        /\ pc'[t] \notin {"erase", "clear", "notify"} /\ published' = published
    BY <1>1, <1>3 DEF OpenPart, WritePart, Goto, Holding, UsesBuilder
  <2>2. IsPart(u, req[t].idx)
    BY <2>1, HeldBuilder
  <2>3. ResultName(u) \in Files /\ ResultName(u) # PartName(u, req[t].idx)
    BY <2>2, PartsApart DEF Files
  <2>4. disk'[ResultName(u)] = disk[ResultName(u)]
    BY <1>3, <2>1, <2>3, FileFrame
  <2>5. QED
    BY <2>1, <2>4, ResultLeft
<1>4. CASE DeleteFileBuilder(t) \/ Notify(t)
  <2>1. disk' = disk
    BY <1>4, NoFileFrame
  <2>2. /\ pc[t] # "copy"
        /\ pc'[t] \in {"erase", "clear", "notify"} => pc[t] = "erase"
    BY <1>1, <1>4 DEF DeleteFileBuilder, Notify, Goto
  <2>3. \/ published' = published
        \/ pc[t] = "notify" /\ published' = Append(published, u)
    BY <1>4 DEF DeleteFileBuilder, Notify, Goto
  <2>4. QED
    BY <2>1, <2>2, <2>3, ResultLeft
<1>5. CASE ClearBlock(t)
  <2>1. disk'[ResultName(u)] = disk[ResultName(u)]
    BY <1>5, ClearFrame
  <2>2. pc[t] = "clear" /\ published' = published
    BY <1>5 DEF ClearBlock, Goto
  <2>3. QED
    BY <2>1, <2>2, ResultLeft
<1>6. CASE OpenResult(t)
  <2>1. pc[t] = "build" /\ pc'[t] = "copy" /\ published' = published
    BY <1>1, <1>6 DEF OpenResult, Goto
  <2>2. Builder(t).uid = u /\ ResultName(u) \in Files
    BY <2>1, HeldBuilder DEF Holding, UsesBuilder, Files
  <2>3. disk'[ResultName(u)] = <<>>
    BY <1>6, <2>2 DEF OpenResult, Open, FilesInv, SerialInv, IInv, TypeOK
  <2>4. <<>> # None
    <3>1. <<>> \in Content
      BY DEF Content
    <3>2. QED
      BY <3>1, BlocksAssumption DEF Content
  <2>5. QED
    BY <2>1, <2>3, <2>4 DEF OwnVideo
<1>7. CASE CopyBlock(t)
  <2> DEFINE b == Builder(t)
             n == offset[t]
             f == ResultName(u)
  <2>1. /\ pc[t] = "copy" /\ n \in Nat /\ n + 1 \in 1 .. b.total
        /\ pc'[t] = IF pos[t] = b.total THEN "erase" ELSE "copy"
        /\ fd[t] # None => disk' = [disk EXCEPT ![f] = [i \in 1 .. n + 1 |-> b.hash[i]]]
        /\ ptr' = ptr /\ object' = object /\ req' = req
    BY <1>7, CopyBlockFacts
  <2>2. published' = published
    BY <1>7 DEF CopyBlock
  <2>3. f \in Files /\ disk \in [Files -> Content \cup {None}]
    BY DEF Files, FilesInv, SerialInv, IInv, TypeOK
  <2>4. fd[t] # None
    BY <2>1 DEF FilesInv, ResultInv
  <2>5. disk'[f] = [i \in 1 .. n + 1 |-> b.hash[i]]
    BY <2>1, <2>3, <2>4
  <2>6. disk'[f] # None
    <3>1. b.total \in Nat /\ \A i \in 1 .. b.total : b.hash[i] \in Blocks
      BY <2>1, HeldBuilder, ReadyToCopy, BuilderFields, BlockRange
         DEF Holding, UsesBuilder
    <3>2. \A i \in 1 .. n + 1 : i \in 1 .. b.total
      BY <2>1, <3>1
    <3>3. [i \in 1 .. n + 1 |-> b.hash[i]] \in Content
      <4>1. [i \in 1 .. n + 1 |-> b.hash[i]] \in [1 .. n + 1 -> Blocks \cup {Hole}]
        BY <3>1, <3>2
      <4>2. n + 1 \in Nat
        BY <2>1
      <4>3. QED
        BY <4>1, <4>2, SeqDef DEF Content
    <3>4. QED
      BY <2>5, <3>3, BlocksAssumption DEF Content
  <2>7. CASE pc'[t] = "copy"
    BY <2>2, <2>6, <2>7 DEF OwnVideo
  <2>8. CASE pc'[t] = "erase"
    <3>1. Builder(t)' = b /\ Uid(t)' = u
      BY <2>1 DEF Builder, Uid
    <3>2. disk'[ResultName(Uid(t)')] = Assembled(Builder(t)')
      BY <2>8 DEF FilesInv, ResultInv
    <3>3. disk'[f] = Assembled(b)
      BY <3>1, <3>2
    <3>4. IsVideo(u, Assembled(b))
      BY <2>1, AssembledIsVideo
    <3>5. QED
      BY <2>2, <2>6, <3>3, <3>4 DEF OwnVideo
  <2>9. QED
    BY <2>1, <2>7, <2>8
<1>8. CASE OpenResultFails(t) \/ CopyBlockFails(t) \/ WritePartFails(t)
  BY <1>8, NoMissingPart DEF OpenResultFails, WritePartFails
<1>9. QED
  BY <1>2, <1>3, <1>4, <1>5, <1>6, <1>7, <1>8 DEF Step

\* The results of the other uploads are left alone.
LEMMA VideosKept ==
  ASSUME ProperClient, FilesInv, VideosInv, NEW t \in Tasks, pc[t] \in Running,
         NEW u \in Uids, u = Uid(t), Frame(t), OwnVideo(t, u)
  PROVE  VideosInv'
<1>1. /\ \A s \in Tasks : Uid(s)' = Uid(s) /\ (s # t => pc'[s] = pc[s])
      /\ \A v \in Uids : v # u => disk'[ResultName(v)] = disk[ResultName(v)]
  BY DEF Frame, Uid
<1>2. ASSUME NEW v \in Uids, disk'[ResultName(v)] # None
      PROVE  \/ \E s \in Tasks : pc'[s] = "copy" /\ Uid(s)' = v
             \/ IsVideo(v, disk'[ResultName(v)])
  <2>1. CASE v = u
    BY <1>1, <1>2, <2>1 DEF OwnVideo
  <2>2. CASE v # u
    <3>1. \/ \E s \in Tasks : pc[s] = "copy" /\ Uid(s) = v
          \/ IsVideo(v, disk[ResultName(v)])
      BY <1>1, <1>2, <2>2 DEF VideosInv
    <3>2. CASE \E s \in Tasks : pc[s] = "copy" /\ Uid(s) = v
      <4>1. PICK s \in Tasks : pc[s] = "copy" /\ Uid(s) = v
        BY <3>2
      <4>2. QED
        BY <1>1, <2>2, <4>1
    <3>3. CASE IsVideo(v, disk[ResultName(v)])
      BY <1>1, <2>2, <3>3
    <3>4. QED
      BY <3>1, <3>2, <3>3
  <2>3. QED
    BY <2>1, <2>2
<1>3. ASSUME NEW v \in Range(published')
      PROVE  disk'[ResultName(v)] # None
  <2>1. published \in Seq(Uids)
    BY DEF FilesInv, SerialInv, IInv, TypeOK
  <2>2. v \in Range(published) \/ (v = u /\ pc[t] = "notify")
    <3>1. CASE published' = published
      BY <1>3, <3>1
    <3>2. CASE published' # published
      <4>1. pc[t] = "notify" /\ published' = Append(published, u)
        BY <3>2 DEF OwnVideo
      <4>2. \A x \in Range(Append(published, u)) : x \in Range(published) \/ x = u
        BY <2>1 DEF Range
      <4>3. QED
        BY <1>3, <4>1, <4>2
    <3>3. QED
      BY <3>1, <3>2
  <2>3. disk[ResultName(v)] # None
    BY <2>2 DEF VideosInv
  <2>4. v \in Uids
    BY <2>1, <2>2 DEF Range
  <2>5. QED
    BY <1>1, <2>3, <2>4 DEF OwnVideo
<1>4. ASSUME NEW s \in Tasks, pc'[s] \in {"erase", "clear", "notify"}
      PROVE  disk'[ResultName(Uid(s)')] # None
  <2>1. CASE s = t
    BY <1>1, <1>4, <2>1 DEF OwnVideo
  <2>2. CASE s # t
    <3>1. pc[s] \in {"erase", "clear", "notify"} /\ Uid(s)' = Uid(s)
      BY <1>1, <1>4, <2>2
    <3>2. disk[ResultName(Uid(s))] # None
      BY <3>1 DEF VideosInv
    <3>3. pc[s] \in Running
      BY <3>1 DEF Running
    <3>4. Uid(s) # u
      BY <2>2, <3>3 DEF FilesInv, SerialInv, OneAtATime
    <3>5. Uid(s) \in Uids
      BY <3>3 DEF Uid, Uids, FilesInv, SerialInv, IInv, RequestInv
    <3>6. QED
      BY <1>1, <3>1, <3>2, <3>4, <3>5
  <2>3. QED
    BY <2>1, <2>2
<1>5. QED
  BY <1>2, <1>3, <1>4 DEF VideosInv

\* A video that the converter has been given stays complete, however often its
\* blocks are posted again, as long as the service lives and results can be
\* opened.
THEOREM PublishedStaysIntact ==
  ASSUME ProperClient, "write" \notin Faults, "result" \notin Faults,
         MaxRestarts = 0
  PROVE  Spec => []PublishedIntact
<1> DEFINE Inv == PostedInv /\ VideosInv
<1>1. Init => Inv
  BY DEF Init, PostedInv, VideosInv, Files, Range
<1>2. FilesInv /\ FilesInv' /\ Inv /\ [Next]_vars => Inv'
  <2> SUFFICES ASSUME FilesInv, FilesInv', Inv, [Next]_vars
               PROVE  Inv'
    OBVIOUS
  <2>1. ASSUME NEW t \in Tasks, NEW r \in Requests, HandleRequest(t, r)
        PROVE  Inv'
    <3>1. /\ pc[t] = "idle" /\ pc'[t] \in {"rejected", "get"}
          /\ \A s \in Tasks : s # t => pc'[s] = pc[s] /\ Uid(s)' = Uid(s)
          /\ UNCHANGED <<object, disk, published>>
      BY <2>1 DEF HandleRequest, Goto, heap, Uid, FilesInv, SerialInv, IInv, TypeOK
    <3>2. PostedInv'
      BY <3>1 DEF PostedInv
    <3>3. VideosInv'
      <4>1. \A v : (\E s \in Tasks : pc[s] = "copy" /\ Uid(s) = v) =>
                   (\E s \in Tasks : pc'[s] = "copy" /\ Uid(s)' = v)
        BY <3>1
      <4>2. \A s \in Tasks : pc'[s] \in {"erase", "clear", "notify"} =>
              pc[s] = pc'[s] /\ Uid(s)' = Uid(s)
        BY <3>1
      <4>3. QED
        BY <3>1, <4>1, <4>2 DEF VideosInv
    <3>4. QED
      BY <3>2, <3>3
  <2>2. ASSUME NEW t \in Tasks, Step(t)
        PROVE  Inv'
    <3>1. ~Abort(t)
      BY NoAbort
    <3>2. Frame(t) /\ pc[t] \in Running
      BY <2>2, <3>1, TaskFiles
    <3>3. PICK u \in Uids : u = Uid(t)
      BY <3>2 DEF Uid, Uids, FilesInv, SerialInv, IInv, RequestInv
    <3>4. PostedInv'
      BY <2>2, <3>1, PostedKept
    <3>5. VideosInv'
      BY <2>2, <3>1, <3>2, <3>3, OwnVideoKept, VideosKept
    <3>6. QED
      BY <3>4, <3>5
  <2>3. CASE Crash
    <3>1. restarts \in Nat /\ restarts < 0
      BY <2>3 DEF Crash, FilesInv, SerialInv, IInv, TypeOK
    <3>2. QED
      BY <3>1
  <2>4. CASE UNCHANGED vars
    <3>1. UNCHANGED <<pc, req, object, disk, published>>
      BY <2>4 DEF vars, task, heap
    <3>2. PostedInv'
      BY <3>1 DEF PostedInv
    <3>3. VideosInv'
      BY <3>1 DEF VideosInv, Uid
    <3>4. QED
      BY <3>2, <3>3
  <2>5. QED
    BY <2>1, <2>2, <2>3, <2>4 DEF Next
<1>3. FilesInv /\ Inv => PublishedIntact
  <2>1. FilesInv => published \in Seq(Uids)
    BY DEF FilesInv, SerialInv, IInv, TypeOK
  <2>2. published \in Seq(Uids) => Range(published) \subseteq Uids
    BY DEF Range
  <2>3. QED
    BY <2>1, <2>2 DEF VideosInv, PublishedIntact
<1>4. QED
  BY <1>1, <1>2, <1>3, FilesInvariance, PTL DEF Spec

-----------------------------------------------------------------------------
(* Deliveries and crashes.                                                 *)

\* The block of which the client has one version has a place in every builder
\* of its upload.
LEMMA SolePlace ==
  ASSUME ProperRequests, IInv, TotalsInv, NEW r \in Requests, Accepted(r),
         NEW x \in Tasks, object[x] # None, object[x].uid = r.uid
  PROVE  r.idx \in 1 .. object[x].total
<1>1. object[x].total = r.total
  BY DEF TotalsInv, Accepted
<1>2. /\ r.idx \in {0} \cup BlockNumbers /\ r.total \in {0} \cup BlockNumbers
      /\ r.idx # 0 /\ r.idx <= r.total
  BY UploadAssumption DEF ProperRequests, Accepted
<1>3. QED
  BY <1>1, <1>2, BlockUpTo

\* A task that builds an upload has all its blocks, that one too.
LEMMA BuildsHaveSole ==
  ASSUME ProperClient, FilesInv, NEW r \in Requests, Accepted(r),
         NEW t \in Tasks, pc[t] \in {"build", "copy", "erase"}, Uid(t) = r.uid
  PROVE  HasSole(r)
<1>1. /\ ptr[t] \in Tasks /\ ptr[t] = builders[r.uid] /\ Builder(t) # None
      /\ Builder(t).uid = r.uid
  BY HeldBuilder DEF Holding, UsesBuilder
<1>2. IsReady(Builder(t))
  BY DEF FilesInv, ResultInv
<1>3. r.idx \in 1 .. Builder(t).total
  BY <1>1, SolePlace DEF ProperClient, FilesInv, SerialInv, Builder
<1>4. Builder(t).hash[r.idx] # None
  BY <1>2, <1>3 DEF IsReady
<1>5. QED
  BY <1>1, <1>4, UploadAssumption DEF HasSole, Builder

\* A builder that gets that block gets it from the one request for it.
LEMMA SoleRecorded ==
  ASSUME ProperClient, FilesInv, FilesInv', NEW t \in Tasks, Step(t), ~Abort(t),
         NEW r \in Requests, Sole(r), HasSole(r)'
  PROVE  HasSole(r) \/ (UpdateBlockHash(t) /\ req[t] = r)
<1> DEFINE u == r.uid
           i == r.idx
           x == builders'[u]
<1>1. u \in Uids /\ Accepted(r)
  BY DEF Uids, Sole
<1>2. x # None /\ object'[x].hash[i] # None
  BY DEF HasSole
<1>3. x \in Tasks /\ object'[x] # None /\ object'[x].uid = u
  BY <1>1, <1>2 DEF FilesInv, SerialInv, IInv, TypeOK, MapNeverDangles
<1>4. i \in 1 .. object'[x].total
  <2>1. object'[x].total = r.total
    BY <1>1, <1>3 DEF FilesInv, TotalsInv, Accepted
  <2>2. /\ r.idx \in {0} \cup BlockNumbers /\ r.total \in {0} \cup BlockNumbers
        /\ r.idx # 0 /\ r.idx <= r.total
    BY <1>1, UploadAssumption DEF ProperClient, ProperRequests, Accepted
  <2>3. QED
    BY <2>1, <2>2, BlockUpTo
<1> HIDE DEF x
<1>5. /\ object[x] # None
      /\ object'[x].uid = object[x].uid /\ object'[x].total = object[x].total
      /\ \/ object'[x].hash[i] = object[x].hash[i]
         \/ UpdateBlockHash(t) /\ ptr[t] = x /\ req[t].idx = i
  <2>1. IInv
    BY DEF FilesInv, SerialInv
  <2>2. \/ /\ object'[x].total = req[t].total
           /\ \A k \in 1 .. req[t].total : object'[x].hash[k] = None
        \/ /\ object[x] # None
           /\ object'[x].uid = object[x].uid /\ object'[x].total = object[x].total
           /\ \A k \in 1 .. object[x].total :
                \/ object'[x].hash[k] = object[x].hash[k]
                \/ UpdateBlockHash(t) /\ ptr[t] = x /\ req[t].idx = k
    BY <1>3, <2>1, BuilderMoves
  <2> HIDE DEF i
  <2>3. CASE /\ object'[x].total = req[t].total
             /\ \A k \in 1 .. req[t].total : object'[x].hash[k] = None
    BY <1>2, <1>4, <2>3
  <2>4. CASE /\ object[x] # None
             /\ object'[x].uid = object[x].uid /\ object'[x].total = object[x].total
             /\ \A k \in 1 .. object[x].total :
                  \/ object'[x].hash[k] = object[x].hash[k]
                  \/ UpdateBlockHash(t) /\ ptr[t] = x /\ req[t].idx = k
    <3>1. i \in 1 .. object[x].total
      BY <1>4, <2>4, Zenon
    <3>2. QED
      BY <2>4, <3>1
  <2>5. QED
    BY <2>2, <2>3, <2>4
<1>6. builders[u] = x
  BY <1>1, <1>3, <1>5, EntryKept, Zenon DEF FilesInv, SerialInv, x
<1>7. CASE object'[x].hash[i] = object[x].hash[i]
  BY <1>2, <1>3, <1>6, <1>7, UploadAssumption DEF HasSole
<1>8. CASE UpdateBlockHash(t) /\ ptr[t] = x /\ req[t].idx = i
  <2>1. pc[t] = "record"
    BY <1>8 DEF UpdateBlockHash, Goto
  <2>2. req[t] \in Requests /\ Accepted(req[t]) /\ Uid(t) = object[x].uid
    BY <1>8, <2>1 DEF FilesInv, SerialInv, IInv, RequestInv, PointerInv, Running,
                      Holding, UsesBuilder, Accepted
  <2>3. req[t] = r
    BY <1>3, <1>5, <1>8, <2>2 DEF Sole, Uid
  <2>4. QED
    BY <1>8, <2>3
<1>9. QED
  BY <1>5, <1>7, <1>8

\* A task that gives up a builder, or has, is past all of the upload's blocks.
LEMMA SoleKept ==
  ASSUME ProperClient, Resend # "always", FilesInv, FilesInv', NoRepeatInv, SoleInv,
         NEW t \in Tasks, Step(t), ~Abort(t)
  PROVE  SoleInv'
<1> SUFFICES ASSUME NEW r \in Requests, Sole(r)
             PROVE  /\ HasSole(r)' => \E s \in Tasks : req'[s] = r /\ pc'[s] \in Recorded
                    /\ Busy(r.uid, {"clear", "notify"})' =>
                         \E s \in Tasks : /\ req'[s] = r
                                          /\ pc'[s] \in {"clear", "notify", "ok"}
                    /\ r.uid \in Range(published') =>
                         /\ \E s \in Tasks : req'[s] = r /\ pc'[s] = "ok"
                         /\ ~HasSole(r)' /\ ~Busy(r.uid, {"clear", "notify"})'
  BY DEF SoleInv
<1> DEFINE u == r.uid
<1>1. /\ TypeOK /\ req' = req /\ pc[t] \in Running /\ \A s \in Tasks : Uid(s)' = Uid(s)
      /\ \A s \in Tasks : s # t => pc'[s] = pc[s]
      /\ \A s \in Tasks : s # t /\ pc[s] \in Running => Uid(s) # Uid(t)
  BY TaskMoves DEF FilesInv, SerialInv, IInv, OneAtATime, Uid
<1>2. u \in Uids /\ Accepted(r)
  BY DEF Uids, Sole
<1>3. \A s \in Tasks : pc'[s] # "broken"
  BY DEF FilesInv, NoBrokenBuild
<1>4. ASSUME HasSole(r)'
      PROVE  \E s \in Tasks : req'[s] = r /\ pc'[s] \in Recorded
  <2>1. CASE HasSole(r)
    <3>1. PICK s \in Tasks : req[s] = r /\ pc[s] \in Recorded
      BY <2>1 DEF SoleInv
    <3>2. pc'[s] \in Recorded
      <4>1. CASE s # t
        BY <1>1, <3>1, <4>1
      <4>2. CASE s = t
        <5>1. pc[t] \in {"touch", "check", "build", "copy", "erase", "clear", "notify"}
          BY <1>1, <3>1, <4>2 DEF Recorded, Running
        <5>2. pc'[t] \in Recorded \cup {"broken"}
          BY <1>1, <5>1, TaskMoves
        <5>3. QED
          BY <1>3, <4>2, <5>2
      <4>3. QED
        BY <4>1, <4>2
    <3>3. QED
      BY <1>1, <3>1, <3>2
  <2>2. CASE UpdateBlockHash(t) /\ req[t] = r
    <3>1. pc'[t] = "touch"
      BY <1>1, <2>2 DEF UpdateBlockHash, Goto, TypeOK
    <3>2. QED
      BY <1>1, <2>2, <3>1 DEF Recorded
  <2>3. QED
    BY <1>4, <2>1, <2>2, SoleRecorded
<1>5. ASSUME NEW q \in Tasks, pc'[q] \in {"clear", "notify"}, Uid(q) = u
      PROVE  \/ pc[q] \in {"clear", "notify"}
             \/ q = t /\ pc[t] = "erase" /\ HasSole(r)
  <2>1. CASE q # t
    BY <1>1, <1>5, <2>1
  <2>2. CASE q = t
    <3>1. pc[t] \in {"clear", "erase"}
      BY <1>1, <1>5, <2>2 DEF Step, GetFileBuilder, GetFileBuilderFails, Compare,
         OpenPart, OpenPartFails, WritePart, WritePartFails, UpdateBlockHash,
         Touch, CheckReady, OpenResult, OpenResultFails, CopyBlock,
         CopyBlockFails, DeleteFileBuilder, ClearBlock, Notify, Goto, TypeOK
    <3>2. QED
      BY <1>2, <1>5, <2>2, <3>1, BuildsHaveSole
  <2>3. QED
    BY <2>1, <2>2
<1>6. ASSUME NEW s \in Tasks, req[s] = r, pc[s] \in {"clear", "notify", "ok"}
      PROVE  pc'[s] \in {"clear", "notify", "ok"}
  <2>1. CASE s # t
    BY <1>1, <1>6, <2>1
  <2>2. CASE s = t
    <3>1. ClearBlock(t) \/ Notify(t)
      BY <1>1, <1>6, <2>2 DEF Step, GetFileBuilder, GetFileBuilderFails, Compare,
         OpenPart, OpenPartFails, WritePart, WritePartFails, UpdateBlockHash,
         Touch, CheckReady, OpenResult, OpenResultFails, CopyBlock,
         CopyBlockFails, DeleteFileBuilder, Goto, Running
    <3>2. QED
      BY <1>1, <2>2, <3>1 DEF ClearBlock, Notify, Goto, TypeOK
  <2>3. QED
    BY <2>1, <2>2
<1>7. ASSUME Busy(u, {"clear", "notify"})'
      PROVE  \E s \in Tasks : req'[s] = r /\ pc'[s] \in {"clear", "notify", "ok"}
  <2>1. PICK q \in Tasks : pc'[q] \in {"clear", "notify"} /\ Uid(q) = u
    BY <1>1, <1>7 DEF Busy
  <2>2. CASE pc[q] \in {"clear", "notify"}
    <3>1. Busy(u, {"clear", "notify"})
      BY <2>1, <2>2 DEF Busy
    <3>2. PICK s \in Tasks : req[s] = r /\ pc[s] \in {"clear", "notify", "ok"}
      BY <3>1 DEF SoleInv
    <3>3. QED
      BY <1>1, <1>6, <3>2
  <2>3. CASE q = t /\ HasSole(r)
    <3>1. PICK s \in Tasks : req[s] = r /\ pc[s] \in Recorded
      BY <2>3 DEF SoleInv
    <3>2. CASE s = t
      BY <1>1, <2>1, <2>3, <3>1, <3>2
    <3>3. CASE s # t
      <4>1. Uid(s) = Uid(t)
        BY <2>1, <2>3, <3>1 DEF Uid
      <4>2. pc[s] = "ok"
        BY <1>1, <3>1, <3>3, <4>1 DEF Recorded, Running
      <4>3. QED
        BY <1>1, <3>1, <3>3, <4>2
    <3>4. QED
      BY <3>2, <3>3
  <2>4. QED
    BY <1>5, <2>1, <2>2, <2>3
<1>8. ASSUME u \in Range(published)
      PROVE  /\ \E s \in Tasks : req'[s] = r /\ pc'[s] = "ok"
             /\ ~HasSole(r)' /\ ~Busy(u, {"clear", "notify"})'
  <2>1. /\ \E s \in Tasks : req[s] = r /\ pc[s] = "ok"
        /\ ~HasSole(r) /\ ~Busy(u, {"clear", "notify"})
    BY <1>8 DEF SoleInv
  <2>2. PICK s \in Tasks : req[s] = r /\ pc[s] = "ok"
    BY <2>1
  <2>3. s # t
    BY <1>1, <2>2 DEF Running
  <2>4. ~(UpdateBlockHash(t) /\ req[t] = r)
    <3> SUFFICES ASSUME UpdateBlockHash(t), req[t] = r
                 PROVE  FALSE
      OBVIOUS
    <3>1. pc[t] = "record" /\ r # None
      BY UploadAssumption DEF UpdateBlockHash, Goto
    <3>2. QED
      BY <2>2, <2>3, <3>1 DEF NoRepeatInv, Failure
  <2>5. ~HasSole(r)'
    BY <2>1, <2>4, SoleRecorded
  <2>6. ~Busy(u, {"clear", "notify"})'
    <3> SUFFICES ASSUME NEW q \in Tasks, pc'[q] \in {"clear", "notify"}, Uid(q) = u
                 PROVE  FALSE
      BY <1>1 DEF Busy
    <3>1. pc[q] \in {"clear", "notify"}
      BY <1>5, <2>1
    <3>2. QED
      BY <2>1, <3>1 DEF Busy
  <2>7. QED
    BY <1>1, <2>2, <2>3, <2>5, <2>6
<1>9. ASSUME u \in Range(published'), u \notin Range(published)
      PROVE  /\ \E s \in Tasks : req'[s] = r /\ pc'[s] = "ok"
             /\ ~HasSole(r)' /\ ~Busy(u, {"clear", "notify"})'
  <2>1. Notify(t) /\ u = Uid(t)
    <3>1. published' # published
      BY <1>9
    <3>2. Notify(t)
      BY <3>1 DEF Step, GetFileBuilder, GetFileBuilderFails, Compare, OpenPart,
         OpenPartFails, WritePart, WritePartFails, UpdateBlockHash, Touch,
         CheckReady, OpenResult, OpenResultFails, CopyBlock, CopyBlockFails,
         DeleteFileBuilder, ClearBlock
    <3>3. published' = Append(published, Uid(t)) /\ published \in Seq(Uids)
      BY <1>1, <3>2 DEF Notify, TypeOK
    <3>4. \A v \in Range(Append(published, Uid(t))) :
            v \in Range(published) \/ v = Uid(t)
      BY <3>3 DEF Range
    <3>5. QED
      BY <1>9, <3>2, <3>3, <3>4
  <2>2. pc[t] = "notify" /\ pc'[t] = "ok" /\ builders' = builders
    BY <1>1, <2>1 DEF Notify, Goto, TypeOK, heap
  <2>3. Busy(u, {"clear", "notify"})
    BY <2>1, <2>2 DEF Busy
  <2>4. PICK s \in Tasks : req[s] = r /\ pc[s] \in {"clear", "notify", "ok"}
    BY <2>3 DEF SoleInv
  <2>5. pc'[s] = "ok"
    <3>1. CASE s = t
      BY <2>2, <3>1
    <3>2. CASE s # t
      <4>1. Uid(s) = Uid(t)
        BY <2>1, <2>4 DEF Uid
      <4>2. pc[s] = "ok"
        BY <1>1, <2>4, <3>2, <4>1 DEF Running
      <4>3. QED
        BY <1>1, <3>2, <4>2
    <3>3. QED
      BY <3>1, <3>2
  <2>6. ~HasSole(r)'
    <3>1. builders[u] = None
      BY <2>1, <2>2 DEF FilesInv, ResultInv
    <3>2. QED
      BY <2>2, <3>1 DEF HasSole
  <2>7. ~Busy(u, {"clear", "notify"})'
    <3> SUFFICES ASSUME NEW q \in Tasks, pc'[q] \in {"clear", "notify"}, Uid(q) = u
                 PROVE  FALSE
      BY <1>1 DEF Busy
    <3>1. q # t
      BY <2>2
    <3>2. pc[q] \in Running
      BY <1>1, <3>1 DEF Running
    <3>3. QED
      BY <1>1, <2>1, <3>1, <3>2
  <2>8. QED
    BY <1>1, <2>4, <2>5, <2>6, <2>7
<1>10. QED
  BY <1>4, <1>7, <1>8, <1>9

\* The result of an upload changes only while a task builds it.
LEMMA OwnResultLeft ==
  ASSUME ProperClient, FilesInv, NEW t \in Tasks, Step(t), ~Abort(t),
         pc[t] \notin {"build", "copy"}, NEW u \in Uids, u = Uid(t)
  PROVE  disk'[ResultName(u)] = disk[ResultName(u)]
<1>1. ResultName(u) \in Files /\ IInv /\ PartInv(t)
  BY DEF Files, FilesInv, SerialInv
<1>2. ~Touches(t, ResultName(u))
  <2>1. CASE pc[t] \in {"open", "write"}
    <3>1. IsPart(u, req[t].idx)
      BY <2>1, HeldBuilder DEF Holding, UsesBuilder
    <3>2. QED
      BY <2>1, <3>1, PartsApart DEF Touches
  <2>2. CASE pc[t] = "clear"
    <3>1. /\ object[target[t]] \in BuilderObjects /\ object[target[t]].uid = u
          /\ pos[t] \in 1 .. object[target[t]].total
      BY <1>1, <2>2 DEF IInv, TypeOK, TargetInv
    <3>2. IsPart(u, pos[t])
      BY <3>1, BuilderFields DEF IsPart
    <3>3. QED
      BY <2>2, <3>2, PartsApart DEF Touches
  <2>3. QED
    BY <2>1, <2>2 DEF Touches
<1>3. QED
  BY <1>1, <1>2, FilesTouched

\* What is delivered is a video when it is, and its upload is not built again.
LEMMA DeliveredKept ==
  ASSUME ProperClient, KeepsSomeBlock, "write" \notin Faults,
         "result" \notin Faults, FilesInv, FilesInv', PostedInv, SoleInv,
         DeliveredInv, NEW t \in Tasks, Step(t), ~Abort(t)
  PROVE  DeliveredInv'
<1>1. /\ TypeOK /\ TypeOK' /\ req' = req /\ pc[t] \in Running
      /\ \A s \in Tasks : Uid(s)' = Uid(s) /\ (s # t => pc'[s] = pc[s])
      /\ \A s \in Tasks : s # t /\ pc[s] \in Running => Uid(s) # Uid(t)
      /\ Frame(t)
  BY TaskMoves, TaskFiles DEF FilesInv, SerialInv, IInv, OneAtATime, Uid
<1>2. PICK u \in Uids : u = Uid(t) /\ req[t] \in Requests /\ Accepted(req[t])
  BY <1>1 DEF FilesInv, SerialInv, IInv, RequestInv, Uid, Uids, Accepted
<1>3. \A v \in Uids : v # u => disk'[ResultName(v)] = disk[ResultName(v)]
  BY <1>1, <1>2 DEF Frame
<1>4. pc[t] \notin {"build", "copy"} => disk'[ResultName(u)] = disk[ResultName(u)]
  BY <1>2, OwnResultLeft
<1>5. ASSUME pc'[t] \in {"erase", "clear", "notify"}
      PROVE  IsVideo(u, disk'[ResultName(u)])
  <2>1. CASE pc[t] \in {"erase", "clear", "notify"}
    <3>1. IsVideo(u, disk[ResultName(u)])
      BY <1>2, <2>1 DEF DeliveredInv
    <3>2. QED
      BY <1>4, <2>1, <3>1
  <2>2. CASE pc[t] \notin {"erase", "clear", "notify"}
    <3>1. CopyBlock(t)
      BY <1>1, <1>5, <2>2, ZenonT(40) DEF Step, GetFileBuilder, GetFileBuilderFails, Compare,
         OpenPart, OpenPartFails, WritePart, WritePartFails, UpdateBlockHash,
         Touch, CheckReady, OpenResult, OpenResultFails, CopyBlockFails,
         DeleteFileBuilder, ClearBlock, Notify, Goto, TypeOK
    <3>2. pc[t] = "copy" /\ pc'[t] = "erase"
      BY <1>1, <1>5, <2>2, <3>1 DEF CopyBlock, Goto, TypeOK
    <3>3. ptr' = ptr /\ object' = object
      BY <3>1 DEF CopyBlock, heap
    <3>4. Builder(t)' = Builder(t)
      BY <3>3 DEF Builder
    <3>5. disk'[ResultName(Uid(t)')] = Assembled(Builder(t)')
      BY <3>2 DEF FilesInv, ResultInv
    <3>6. IsVideo(Uid(t), Assembled(Builder(t)))
      BY <3>2, AssembledIsVideo
    <3>7. QED
      BY <1>1, <1>2, <3>4, <3>5, <3>6
  <2>3. QED
    BY <2>1, <2>2
<1>6. ASSUME NEW s \in Tasks, pc'[s] \in {"erase", "clear", "notify"}
      PROVE  IsVideo(Uid(s)', disk'[ResultName(Uid(s)')])
  <2>1. CASE s = t
    BY <1>1, <1>2, <1>5, <1>6, <2>1
  <2>2. CASE s # t
    <3>1. pc[s] \in {"erase", "clear", "notify"} /\ pc[s] \in Running
      BY <1>1, <1>6, <2>2 DEF Running
    <3>2. IsVideo(Uid(s), disk[ResultName(Uid(s))])
      BY <3>1 DEF DeliveredInv
    <3>3. Uid(s) \in Uids /\ Uid(s) # u
      BY <1>1, <1>2, <2>2, <3>1 DEF FilesInv, SerialInv, IInv, RequestInv, Uid, Uids
    <3>4. QED
      BY <1>1, <1>3, <3>2, <3>3
  <2>3. QED
    BY <2>1, <2>2
<1>7. ASSUME NEW v \in Range(published')
      PROVE  IsVideo(v, disk'[ResultName(v)])
  <2>1. v \in Range(published) \/ (v = u /\ pc[t] = "notify")
    <3>1. CASE published' = published
      BY <1>7, <3>1
    <3>2. CASE published' # published
      <4>1. Notify(t)
        BY <3>2 DEF Step, GetFileBuilder, GetFileBuilderFails, Compare, OpenPart,
           OpenPartFails, WritePart, WritePartFails, UpdateBlockHash, Touch,
           CheckReady, OpenResult, OpenResultFails, CopyBlock, CopyBlockFails,
           DeleteFileBuilder, ClearBlock
      <4>2. /\ pc[t] = "notify" /\ published' = Append(published, u)
            /\ published \in Seq(Uids)
        BY <1>1, <1>2, <4>1 DEF Notify, Goto, TypeOK
      <4>3. \A x \in Range(Append(published, u)) : x \in Range(published) \/ x = u
        BY <4>2 DEF Range
      <4>4. QED
        BY <1>7, <4>2, <4>3
    <3>3. QED
      BY <3>1, <3>2
  <2>2. CASE v \in Range(published)
    <3>1. IsVideo(v, disk[ResultName(v)]) /\ v \in Uids
      <4>1. IsVideo(v, disk[ResultName(v)])
        BY <1>1, <2>2 DEF DeliveredInv
      <4>2. published \in Seq(Uids)
        BY <1>1 DEF TypeOK
      <4>3. v \in Uids
        BY <2>2, <4>2 DEF Range
      <4>4. QED
        BY <4>1, <4>3
    <3>2. CASE v # u
      BY <1>3, <3>1, <3>2
    <3>3. CASE v = u
      <4>1. PICK r \in Requests : r.uid = u /\ Sole(r)
        BY <1>2 DEF KeepsSomeBlock, Uid
      <4>2. Accepted(r) /\ ~HasSole(r)
        BY <2>2, <3>3, <4>1 DEF SoleInv, Sole
      <4>3. pc[t] \notin {"build", "copy"}
        BY <1>2, <4>1, <4>2, BuildsHaveSole
      <4>4. QED
        BY <1>4, <3>1, <3>3, <4>3
    <3>4. QED
      BY <3>2, <3>3
  <2>3. CASE v = u /\ pc[t] = "notify"
    <3>1. IsVideo(u, disk[ResultName(u)])
      BY <1>2, <2>3 DEF DeliveredInv
    <3>2. QED
      BY <1>4, <2>3, <3>1
  <2>4. QED
    BY <2>1, <2>2, <2>3
<1>8. QED
  BY <1>6, <1>7 DEF DeliveredInv

\* A video that the converter has been given stays complete for good, crashes
\* included, for a client that does not post again what was answered with 200
\* and never changes every block of a video: its upload is not built again.
THEOREM PublishedSurvives ==
  ASSUME ProperClient, KeepsSomeBlock, Resend # "always",
         "write" \notin Faults, "result" \notin Faults
  PROVE  Spec => []PublishedIntact
<1> DEFINE Inv == NoRepeatInv /\ PostedInv /\ SoleInv /\ DeliveredInv
<1>1. Init => Inv
  <2> SUFFICES ASSUME Init PROVE Inv
    OBVIOUS
  <2>1. /\ \A s \in Tasks : pc[s] = "idle" /\ req[s] = None /\ object[s] = None
        /\ \A v \in Uids : builders[v] = None
        /\ published = <<>>
    BY DEF Init
  <2>2. NoRepeatInv /\ PostedInv
    BY <2>1 DEF NoRepeatInv, PostedInv
  <2>3. Range(published) = {}
    BY <2>1 DEF Range
  <2>4. SoleInv
    <3>1. \A r \in Requests : ~HasSole(r) /\ ~Busy(r.uid, {"clear", "notify"})
      BY <2>1 DEF HasSole, Busy, Uids
    <3>2. QED
      BY <2>3, <3>1 DEF SoleInv
  <2>5. DeliveredInv
    BY <2>1, <2>3 DEF DeliveredInv
  <2>6. QED
    BY <2>2, <2>4, <2>5
<1>2. FilesInv /\ FilesInv' /\ Inv /\ [Next]_vars => Inv'
  <2> SUFFICES ASSUME FilesInv, FilesInv', Inv, [Next]_vars
               PROVE  Inv'
    OBVIOUS
  <2>0. TypeOK /\ NoRepeatInv'
    BY NoRepeatKept DEF FilesInv, SerialInv, IInv
  <2>1. ASSUME NEW t \in Tasks, NEW q \in Requests, HandleRequest(t, q)
        PROVE  Inv'
    <3>1. /\ pc[t] = "idle" /\ pc'[t] \in {"rejected", "get"}
          /\ \A s \in Tasks : s # t =>
               pc'[s] = pc[s] /\ req'[s] = req[s] /\ Uid(s)' = Uid(s)
          /\ UNCHANGED <<object, builders, disk, published>>
      BY <2>0, <2>1 DEF HandleRequest, Goto, heap, Uid, TypeOK
    <3>2. PostedInv'
      BY <3>1 DEF PostedInv
    <3>3. \A r \in Requests :
            /\ HasSole(r)' <=> HasSole(r)
            /\ Busy(r.uid, {"clear", "notify"})' => Busy(r.uid, {"clear", "notify"})
      BY <3>1 DEF HasSole, Busy
    <3>4. \A s \in Tasks : pc[s] # "idle" => pc'[s] = pc[s] /\ req'[s] = req[s]
      BY <3>1
    <3>5. SoleInv'
      <4> SUFFICES ASSUME NEW r \in Requests, Sole(r)
                   PROVE  /\ HasSole(r)' => \E s \in Tasks : req'[s] = r /\ pc'[s] \in Recorded
                          /\ Busy(r.uid, {"clear", "notify"})' =>
                               \E s \in Tasks : /\ req'[s] = r
                                                /\ pc'[s] \in {"clear", "notify", "ok"}
                          /\ r.uid \in Range(published') =>
                               /\ \E s \in Tasks : req'[s] = r /\ pc'[s] = "ok"
                               /\ ~HasSole(r)' /\ ~Busy(r.uid, {"clear", "notify"})'
        BY DEF SoleInv
      <4>1. HasSole(r)' => \E s \in Tasks : req'[s] = r /\ pc'[s] \in Recorded
        BY <3>3, <3>4 DEF SoleInv, Recorded
      <4>2. Busy(r.uid, {"clear", "notify"})' =>
              \E s \in Tasks : req'[s] = r /\ pc'[s] \in {"clear", "notify", "ok"}
        BY <3>3, <3>4 DEF SoleInv
      <4>3. r.uid \in Range(published') =>
              /\ \E s \in Tasks : req'[s] = r /\ pc'[s] = "ok"
              /\ ~HasSole(r)' /\ ~Busy(r.uid, {"clear", "notify"})'
        BY <3>1, <3>3, <3>4 DEF SoleInv
      <4>4. QED
        BY <4>1, <4>2, <4>3
    <3>6. DeliveredInv'
      <4>1. \A s \in Tasks : pc'[s] \in {"erase", "clear", "notify"} =>
              pc[s] = pc'[s] /\ Uid(s)' = Uid(s)
        BY <3>1
      <4>2. QED
        BY <3>1, <4>1 DEF DeliveredInv
    <3>7. QED
      BY <2>0, <3>2, <3>5, <3>6
  <2>2. ASSUME NEW t \in Tasks, Step(t)
        PROVE  Inv'
    <3>1. ~Abort(t)
      BY NoAbort
    <3>2. PostedInv'
      BY <2>2, <3>1, PostedKept
    <3>3. SoleInv' /\ DeliveredInv'
      BY <2>2, <3>1, SoleKept, DeliveredKept
    <3>4. QED
      BY <2>0, <3>2, <3>3
  <2>3. ASSUME Crash
        PROVE  Inv'
    <3>1. /\ \A s \in Tasks : pc'[s] \notin Running /\ object'[s] = None
          /\ \A v \in Uids : builders'[v] = None
          /\ UNCHANGED <<req, disk, published>>
      BY <2>3 DEF Crash, ProcessDies, Running
    <3>2. PostedInv'
      BY <3>1 DEF PostedInv
    <3>3. \A r \in Requests : ~HasSole(r)' /\ ~Busy(r.uid, {"clear", "notify"})'
      BY <3>1 DEF HasSole, Busy, Uids, Running
    <3>4. \A s \in Tasks : pc[s] = "ok" => pc'[s] = "ok"
      BY <2>3 DEF Crash, ProcessDies, Running
    <3>5. SoleInv'
      BY <3>1, <3>3, <3>4 DEF SoleInv
    <3>6. DeliveredInv'
      BY <3>1 DEF DeliveredInv, Running
    <3>7. QED
      BY <2>0, <3>2, <3>5, <3>6
  <2>4. ASSUME UNCHANGED vars
        PROVE  Inv'
    <3>1. UNCHANGED <<pc, req, object, builders, disk, published>>
      BY <2>4 DEF vars, task, heap
    <3>2. PostedInv'
      BY <3>1 DEF PostedInv
    <3>3. SoleInv'
      BY <3>1 DEF SoleInv, HasSole, Busy, Uid
    <3>4. DeliveredInv'
      BY <3>1 DEF DeliveredInv, Uid
    <3>5. QED
      BY <2>0, <3>2, <3>3, <3>4
  <2>5. QED
    BY <2>1, <2>2, <2>3, <2>4 DEF Next
<1>3. FilesInv /\ Inv => PublishedIntact
  BY DEF DeliveredInv, PublishedIntact
<1>4. QED
  BY <1>1, <1>2, <1>3, FilesInvariance, PTL DEF Spec

=============================================================================

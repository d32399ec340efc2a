--------------------------- MODULE PromiseProofs ---------------------------
(***************************************************************************)
(* The upload side implements UploadPromise for a client that posts the    *)
(* blocks of an upload one after the other: for every set of tasks and     *)
(* uploads, every retry, failure to open a file and crash.                 *)
(***************************************************************************)
EXTENDS SerialProofs

-----------------------------------------------------------------------------
(* An upload as the promise sees it.                                       *)

\* The stage of an upload whose only task is at step p with stream f.
StageAt(p, f) ==
  IF p = "copy" THEN IF f = None THEN "blind" ELSE "building"
  ELSE IF p = "erase" THEN "built"
  ELSE IF p \in {"clear", "notify"} THEN "due"
  ELSE "receiving"

\* The task of an upload decides its stage, before...
LEMMA StageNow ==
  ASSUME FilesInv, NEW t \in Tasks, pc[t] \in Running
  PROVE  StageOf(Uid(t)) = StageAt(pc[t], fd[t])
<1>1. \A s \in Tasks : pc[s] \in Running /\ Uid(s) = Uid(t) => s = t
  BY DEF FilesInv, SerialInv, OneAtATime
<1>2. ASSUME NEW S, S \subseteq Running
      PROVE  Busy(Uid(t), S) <=> pc[t] \in S
  BY <1>1, <1>2 DEF Busy
<1>3. /\ {"copy"} \subseteq Running /\ {"erase"} \subseteq Running
      /\ {"clear", "notify"} \subseteq Running
  BY DEF Running
<1>4. /\ Busy(Uid(t), {"copy"}) <=> pc[t] = "copy"
      /\ Busy(Uid(t), {"erase"}) <=> pc[t] = "erase"
      /\ Busy(Uid(t), {"clear", "notify"}) <=> pc[t] \in {"clear", "notify"}
  BY <1>2, <1>3
<1>5. (\E s \in Tasks : pc[s] = "copy" /\ Uid(s) = Uid(t) /\ fd[s] = None)
        <=> pc[t] = "copy" /\ fd[t] = None
  BY <1>1 DEF Running
<1>6. QED
  BY <1>4, <1>5 DEF StageOf, StageAt

\* ...and after its step.
LEMMA StageNext ==
  ASSUME FilesInv, NEW t \in Tasks, pc[t] \in Running, Frame(t),
         NEW u, u = Uid(t)
  PROVE  StageOf(u)' = StageAt(pc'[t], fd'[t])
<1>1. \A s \in Tasks : pc'[s] \in Running /\ Uid(s)' = u => s = t
  BY DEF FilesInv, SerialInv, OneAtATime, Frame, Uid
<1>2. Uid(t)' = u
  BY DEF Frame, Uid
<1>3. ASSUME NEW S, S \subseteq Running
      PROVE  Busy(u, S)' <=> pc'[t] \in S
  BY <1>1, <1>2, <1>3 DEF Busy
<1>4. /\ {"copy"} \subseteq Running /\ {"erase"} \subseteq Running
      /\ {"clear", "notify"} \subseteq Running
  BY DEF Running
<1>5. /\ Busy(u, {"copy"})' <=> pc'[t] = "copy"
      /\ Busy(u, {"erase"})' <=> pc'[t] = "erase"
      /\ Busy(u, {"clear", "notify"})' <=> pc'[t] \in {"clear", "notify"}
  BY <1>3, <1>4
<1>6. (\E s \in Tasks : pc'[s] = "copy" /\ Uid(s)' = u /\ fd'[s] = None)
        <=> pc'[t] = "copy" /\ fd'[t] = None
  BY <1>1, <1>2 DEF Running
<1>7. QED
  BY <1>5, <1>6 DEF StageOf, StageAt

\* The other uploads look as before.
LEMMA OthersView ==
  ASSUME FilesInv, NEW t \in Tasks, Frame(t), NEW v \in Uids, v # Uid(t)
  PROVE  /\ Received(v)' = Received(v)
         /\ disk'[ResultName(v)] = disk[ResultName(v)]
         /\ StageOf(v)' = StageOf(v)
<1>1. builders'[v] = builders[v] /\ disk'[ResultName(v)] = disk[ResultName(v)]
  BY DEF Frame
<1>2. ASSUME builders[v] # None
      PROVE  object'[builders[v]] = object[builders[v]]
  <2>1. /\ builders[v] \in Tasks /\ object[builders[v]] # None
        /\ object[builders[v]].uid = v
    BY <1>2 DEF FilesInv, SerialInv, IInv, TypeOK, MapNeverDangles
  <2>2. QED
    BY <2>1 DEF Frame
<1>3. Received(v)' = Received(v)
  BY <1>1, <1>2 DEF Received
<1>4. \A s \in Tasks :
        /\ Uid(s)' = Uid(s)
        /\ Uid(s) = v => pc'[s] = pc[s] /\ fd'[s] = fd[s]
  BY DEF Frame, Uid
<1>5. ASSUME NEW S PROVE Busy(v, S)' <=> Busy(v, S)
  BY <1>4 DEF Busy
<1>6. (\E s \in Tasks : pc'[s] = "copy" /\ Uid(s)' = v /\ fd'[s] = None)
        <=> (\E s \in Tasks : pc[s] = "copy" /\ Uid(s) = v /\ fd[s] = None)
  BY <1>4
<1>7. StageOf(v)' = StageOf(v)
  BY <1>5, <1>6 DEF StageOf
<1>8. QED
  BY <1>1, <1>3, <1>7

\* What a step of t changes in the promise's view is about its own upload.
LEMMA OwnView ==
  ASSUME FilesInv, NEW t \in Tasks, pc[t] \in Running, Frame(t),
         NEW u \in Uids, u = Uid(t)
  PROVE  /\ Receipts' = [Receipts EXCEPT ![u] = Received(u)']
         /\ Results'  = [Results EXCEPT ![u] = disk'[ResultName(u)]]
         /\ StageMap' = [StageMap EXCEPT ![u] = StageAt(pc'[t], fd'[t])]
         /\ Receipts[u] = Received(u)
         /\ Results[u] = disk[ResultName(u)]
         /\ StageMap[u] = StageAt(pc[t], fd[t])
<1>1. \A v \in Uids : v # u =>
        /\ Received(v)' = Received(v)
        /\ disk'[ResultName(v)] = disk[ResultName(v)]
        /\ StageOf(v)' = StageOf(v)
  BY OthersView
<1>2. /\ StageOf(u) = StageAt(pc[t], fd[t])
      /\ StageOf(u)' = StageAt(pc'[t], fd'[t])
  BY StageNow, StageNext
<1>3. Receipts' = [Receipts EXCEPT ![u] = Received(u)']
  BY <1>1 DEF Receipts
<1>4. Results' = [Results EXCEPT ![u] = disk'[ResultName(u)]]
  BY <1>1 DEF Results
<1>5. StageMap' = [StageMap EXCEPT ![u] = StageAt(pc'[t], fd'[t])]
  BY <1>1, <1>2 DEF StageMap
<1>6. QED
  BY <1>2, <1>3, <1>4, <1>5 DEF Receipts, Results, StageMap

-----------------------------------------------------------------------------
(* Steps the promise does not see.                                         *)

\* A step that changes nothing the promise sees of its own upload.
LEMMA Invisible ==
  ASSUME FilesInv, NEW t \in Tasks, pc[t] \in Running, Frame(t),
         NEW u \in Uids, u = Uid(t),
         Received(u)' = Received(u),
         disk'[ResultName(u)] = disk[ResultName(u)],
         StageAt(pc'[t], fd'[t]) = StageAt(pc[t], fd[t]),
         published' = published
  PROVE  UNCHANGED Promise!promise
<1>1. /\ Receipts' = [Receipts EXCEPT ![u] = Receipts[u]]
      /\ Results' = [Results EXCEPT ![u] = Results[u]]
      /\ StageMap' = [StageMap EXCEPT ![u] = StageMap[u]]
  BY OwnView
<1>2. Receipts' = Receipts /\ Results' = Results /\ StageMap' = StageMap
  BY <1>1 DEF Receipts, Results, StageMap
<1>3. QED
  BY <1>2 DEF Promise!promise

\* The steps before a build leave the stage, the result and, but for the
\* record of a digest and the first block of an upload, the blocks.
LEMMA ReceivingStep ==
  ASSUME ProperClient, FilesInv, NEW t \in Tasks, pc[t] \in Running, Frame(t),
         NEW u \in Uids, u = Uid(t),
         \/ GetFileBuilder(t) /\ builders[u] # None
         \/ GetFileBuilderFails(t) \/ Compare(t) \/ OpenPart(t)
         \/ OpenPartFails(t) \/ WritePart(t) \/ Touch(t) \/ CheckReady(t)
  PROVE  UNCHANGED Promise!promise
<1>1. UNCHANGED <<builders, object, published>>
  BY DEF GetFileBuilder, GetFileBuilderFails, Compare, OpenPart, OpenPartFails,
         WritePart, Touch, CheckReady, Goto, heap
<1>2. Received(u)' = Received(u)
  BY <1>1 DEF Received
<1>3. /\ pc[t] \notin {"copy", "erase", "clear", "notify"}
      /\ pc'[t] \notin {"copy", "erase", "clear", "notify"}
  <2>1. pc \in [Tasks -> {"idle"} \cup Running \cup Finished]
    BY DEF FilesInv, SerialInv, IInv, TypeOK
  <2>2. CASE GetFileBuilder(t) \/ GetFileBuilderFails(t) \/ Compare(t)
    BY <2>1, <2>2 DEF GetFileBuilder, GetFileBuilderFails, Compare, Goto
  <2>3. CASE OpenPart(t) \/ OpenPartFails(t) \/ WritePart(t)
    BY <2>1, <2>3 DEF OpenPart, OpenPartFails, WritePart, Goto
  <2>4. CASE Touch(t) \/ CheckReady(t)
    BY <2>1, <2>4 DEF Touch, CheckReady, Goto
  <2>5. QED
    BY <2>2, <2>3, <2>4
<1>4. StageAt(pc'[t], fd'[t]) = StageAt(pc[t], fd[t])
  BY <1>3 DEF StageAt
<1>5. disk'[ResultName(u)] = disk[ResultName(u)]
  <2>1. CASE OpenPart(t) \/ WritePart(t)
    <3>1. pc[t] \in {"open", "write"} /\ pc[t] \in Holding
      BY <2>1 DEF OpenPart, WritePart, Goto, Holding, UsesBuilder
    <3>2. IsPart(u, req[t].idx)
      BY <3>1, HeldBuilder
    <3>3. ResultName(u) \in Files /\ ResultName(u) # PartName(u, req[t].idx)
      BY <3>2, PartsApart DEF Files
    <3>4. QED
      BY <2>1, <3>1, <3>3, FileFrame
  <2>2. CASE ~(OpenPart(t) \/ WritePart(t))
    BY <2>2, NoFileFrame
  <2>3. QED
    BY <2>1, <2>2
<1>6. QED
  BY <1>1, <1>2, <1>4, <1>5, Invisible

\* Neither does it see the removal of the parts.
LEMMA ClearStep ==
  ASSUME ProperClient, FilesInv, NEW t \in Tasks, pc[t] \in Running, Frame(t),
         NEW u \in Uids, u = Uid(t), ClearBlock(t)
  PROVE  UNCHANGED Promise!promise
<1>1. UNCHANGED <<builders, object, published>>
  BY DEF ClearBlock
<1>2. Received(u)' = Received(u)
  BY <1>1 DEF Received
<1>3. pc[t] = "clear" /\ pc'[t] \in {"clear", "notify"}
  BY DEF ClearBlock, Goto, FilesInv, SerialInv, IInv, TypeOK
<1>4. StageAt(pc'[t], fd'[t]) = StageAt(pc[t], fd[t])
  BY <1>3 DEF StageAt
<1>5. disk'[ResultName(u)] = disk[ResultName(u)]
  BY ClearFrame
<1>6. QED
  BY <1>1, <1>2, <1>4, <1>5, Invisible

-----------------------------------------------------------------------------
(* Steps of the promise.                                                   *)

\* The first block of an upload, or the first after a build or a crash.
LEMMA BeginStep ==
  ASSUME ProperClient, FilesInv, NEW t \in Tasks, pc[t] \in Running, Frame(t),
         NEW u \in Uids, u = Uid(t), GetFileBuilder(t), builders[u] = None
  PROVE  Promise!Begin(u, req[t].total) /\ req[t].total \in {r.total : r \in Requests} \ {0}
<1> DEFINE n == req[t].total
<1>1. /\ req[t] \in Requests /\ n # 0
      /\ pc[t] = "get" /\ pc'[t] = "compare"
      /\ builders'[u] = t /\ object'[t] = NewBuilder(u, n)
      /\ UNCHANGED <<disk, published>>
  BY DEF GetFileBuilder, Goto, FilesInv, SerialInv, IInv, TypeOK, RequestInv, Running
<1>2. Received(u) = None /\ Received(u)' = [i \in 1 .. n |-> None]
  BY <1>1, UploadAssumption DEF Received, NewBuilder
<1>3. /\ StageAt(pc[t], fd[t]) = "receiving"
      /\ StageAt(pc'[t], fd'[t]) = "receiving"
  BY <1>1 DEF StageAt
<1>4. /\ Receipts[u] = None /\ StageMap[u] = "receiving"
      /\ Receipts' = [Receipts EXCEPT ![u] = [i \in 1 .. n |-> None]]
      /\ Results' = [Results EXCEPT ![u] = Results[u]]
      /\ StageMap' = [StageMap EXCEPT ![u] = StageMap[u]]
  BY <1>1, <1>2, <1>3, OwnView
<1>5. Results' = Results /\ StageMap' = StageMap
  BY <1>4 DEF Results, StageMap
<1>6. QED
  BY <1>1, <1>4, <1>5 DEF Promise!Begin

\* The record of a digest is when a block counts as received.
LEMMA StoreStep ==
  ASSUME ProperClient, FilesInv, NEW t \in Tasks, pc[t] \in Running, Frame(t),
         NEW u \in Uids, u = Uid(t), UpdateBlockHash(t)
  PROVE  /\ Promise!Store(u, req[t].idx, req[t].data)
         /\ req[t].total \in {r.total : r \in Requests} \ {0}
         /\ req[t].idx \in 1 .. req[t].total /\ req[t].data \in Blocks
<1> DEFINE b == Builder(t)
           i == req[t].idx
<1>1. /\ pc[t] = "record" /\ pc'[t] = "touch"
      /\ object' = [object EXCEPT ![ptr[t]].hash[i] = req[t].data]
      /\ UNCHANGED <<builders, disk, published>>
  BY DEF UpdateBlockHash, Goto, FilesInv, SerialInv, IInv, TypeOK
<1>2. pc[t] \in Holding
  BY <1>1 DEF Holding, UsesBuilder
<1>3. /\ ptr[t] \in Tasks /\ builders[u] = ptr[t] /\ builders[u] # None
      /\ b \in BuilderObjects /\ b.total = req[t].total /\ req[t] \in Requests
      /\ i \in 1 .. b.total /\ req[t].data \in Blocks
  BY <1>2, HeldBuilder, UploadAssumption
<1>4. b.hash \in [1 .. b.total -> Blocks \cup {None}]
  BY <1>3, BuilderFields
<1>5. Received(u) = b.hash
  BY <1>3 DEF Received, Builder
<1>6. Received(u)' = [b.hash EXCEPT ![i] = req[t].data]
  <2>1. object'[ptr[t]] = [b EXCEPT !.hash[i] = req[t].data]
    BY <1>1, <1>3 DEF Builder, FilesInv, SerialInv, IInv, TypeOK
  <2>2. object'[ptr[t]].hash = [b.hash EXCEPT ![i] = req[t].data]
    BY <1>3, <2>1 DEF BuilderObjects
  <2>3. QED
    BY <1>1, <1>3, <2>2 DEF Received
<1>7. /\ StageAt(pc[t], fd[t]) = "receiving"
      /\ StageAt(pc'[t], fd'[t]) = "receiving"
  BY <1>1 DEF StageAt
<1>8. /\ Receipts[u] = b.hash /\ StageMap[u] = "receiving"
      /\ Receipts' = [Receipts EXCEPT ![u] = [b.hash EXCEPT ![i] = req[t].data]]
      /\ Results' = [Results EXCEPT ![u] = Results[u]]
      /\ StageMap' = [StageMap EXCEPT ![u] = StageMap[u]]
  BY <1>1, <1>5, <1>6, <1>7, OwnView
<1>9. Results' = Results /\ StageMap' = StageMap
  BY <1>8 DEF Results, StageMap
<1>10. Receipts' = [Receipts EXCEPT ![u][i] = req[t].data]
  BY <1>8 DEF Receipts
<1>11. Receipts[u] # None /\ i \in DOMAIN Receipts[u]
  <2>1. DOMAIN Receipts[u] = 1 .. b.total
    BY <1>4, <1>8
  <2>2. Receipts[u] # None
    BY <1>3, <1>8, NoneIsNoBuilder
  <2>3. QED
    BY <1>3, <2>1, <2>2
<1>12. Promise!Store(u, i, req[t].data)
  BY <1>1, <1>8, <1>9, <1>10, <1>11 DEF Promise!Store
<1>13. req[t].total \in {r.total : r \in Requests} \ {0}
  BY <1>1, <1>3 DEF FilesInv, SerialInv, IInv, RequestInv, Running
<1>14. QED
  BY <1>3, <1>12, <1>13

\* A task that builds sees every block received.
LEMMA BuilderView ==
  ASSUME ProperClient, FilesInv, NEW t \in Tasks,
         pc[t] \in {"build", "copy", "erase"}, NEW u \in Uids, u = Uid(t)
  PROVE  /\ Received(u) = Builder(t).hash /\ Received(u) # None
         /\ Builder(t).uid = u /\ builders[u] # None
         /\ Builder(t).total \in BlockNumbers
         /\ Builder(t).hash \in [1 .. Builder(t).total -> Blocks \cup {None}]
         /\ \A i \in 1 .. Builder(t).total : Builder(t).hash[i] # None
<1>1. pc[t] \in Holding
  BY DEF Holding, UsesBuilder
<1>2. /\ ptr[t] \in Tasks /\ builders[u] = ptr[t] /\ builders[u] # None
      /\ Builder(t) \in BuilderObjects /\ Builder(t).uid = u
  BY <1>1, HeldBuilder, UploadAssumption
<1>3. Received(u) = Builder(t).hash /\ Received(u) # None
  BY <1>2, NoneIsNoBuilder DEF Received, Builder
<1>4. IsReady(Builder(t))
  BY DEF FilesInv, ResultInv
<1>5. QED
  BY <1>2, <1>3, <1>4, BuilderFields DEF IsReady

\* The result is opened, or not.
LEMMA StartStep ==
  ASSUME ProperClient, FilesInv, NEW t \in Tasks, pc[t] \in Running, Frame(t),
         NEW u \in Uids, u = Uid(t), OpenResult(t) \/ OpenResultFails(t)
  PROVE  Promise!StartBuild(u) \/ Promise!StartBlind(u)
<1>1. /\ pc[t] = "build" /\ pc'[t] = "copy"
      /\ UNCHANGED <<builders, object, published>>
  BY DEF OpenResult, OpenResultFails, Goto, heap, FilesInv, SerialInv, IInv, TypeOK
<1>2. Received(u)' = Received(u)
  BY <1>1 DEF Received
<1>3. /\ Receipts[u] = Received(u) /\ StageMap[u] = "receiving"
      /\ Receipts' = [Receipts EXCEPT ![u] = Receipts[u]]
      /\ Results' = [Results EXCEPT ![u] = disk'[ResultName(u)]]
      /\ StageMap' = [StageMap EXCEPT ![u] = StageAt(pc'[t], fd'[t])]
      /\ Results[u] = disk[ResultName(u)]
  BY <1>1, <1>2, OwnView DEF StageAt
<1>4. Receipts' = Receipts
  BY <1>3 DEF Receipts
<1>5. Promise!Complete(u)
  <2>1. /\ Received(u) # None
        /\ DOMAIN Received(u) = 1 .. Builder(t).total
        /\ \A i \in 1 .. Builder(t).total : Received(u)[i] # None
    BY <1>1, BuilderView
  <2>2. QED
    BY <1>3, <2>1 DEF Promise!Complete
<1>6. CASE OpenResult(t)
  <2>1. Builder(t).uid = u
    BY <1>1, BuilderView
  <2>2. ResultName(u) \in Files /\ ResultName(u) # None
    BY NoneIsNoFile DEF Files
  <2>3. fd'[t] # None /\ disk'[ResultName(u)] = <<>>
    BY <1>6, <2>1, <2>2 DEF OpenResult, Open, FilesInv, SerialInv, IInv, TypeOK
  <2>4. StageAt(pc'[t], fd'[t]) = "building"
    BY <1>1, <2>3 DEF StageAt
  <2>5. Promise!StartBuild(u)
    BY <1>1, <1>3, <1>4, <1>5, <2>3, <2>4 DEF Promise!StartBuild, Promise!Goes
  <2>6. QED
    BY <2>5
<1>7. CASE OpenResultFails(t)
  <2>1. fd'[t] = None /\ disk' = disk
    BY <1>1, <1>7 DEF OpenResultFails, FilesInv, PartInv
  <2>2. StageAt(pc'[t], fd'[t]) = "blind"
    BY <1>1, <2>1 DEF StageAt
  <2>3. Results' = Results
    BY <1>3, <2>1 DEF Results
  <2>4. Promise!StartBlind(u)
    BY <1>1, <1>3, <1>4, <1>5, <2>2, <2>3 DEF Promise!StartBlind, Promise!Goes
  <2>5. QED
    BY <2>4
<1>8. QED
  BY <1>6, <1>7

\* The numbers that are left after the next one.
LEMMA OneMore ==
  ASSUME NEW total \in BlockNumbers, NEW n \in Nat, n + 1 \in 1 .. total
  PROVE  n + 2 \in 1 .. total <=> n + 1 # total
<1>1. total \in Int /\ n + 1 <= total
  BY BlockRange
<1>2. n + 1 # total <=> n + 2 <= total
  BY <1>1, SMT
<1>3. QED
  BY <1>1, <1>2, SMT

\* The next block after a prefix of the blocks makes the next prefix.
LEMMA NextOfPrefix ==
  ASSUME NEW n \in Nat, NEW h, \A i \in 1 .. n + 1 : h[i] \in Blocks
  PROVE  /\ Len([i \in 1 .. n |-> h[i]]) = n
         /\ Append([i \in 1 .. n |-> h[i]], h[n + 1]) = [i \in 1 .. n + 1 |-> h[i]]
<1> DEFINE f == [i \in 1 .. n |-> h[i]]
           g == [i \in 1 .. n + 1 |-> h[i]]
<1>1. f \in Seq(Blocks) /\ Len(f) = n
  BY PrefixLength
<1>2. g \in Seq(Blocks) /\ Len(g) = n + 1
  BY PrefixLength
<1>3. \A i \in 1 .. n : f[i] = h[i] /\ g[i] = h[i]
  OBVIOUS
<1>4. g[n + 1] = h[n + 1] /\ h[n + 1] \in Blocks
  OBVIOUS
<1> HIDE DEF f, g
<1>5. /\ Append(f, h[n + 1]) \in Seq(Blocks) /\ Len(Append(f, h[n + 1])) = n + 1
      /\ \A i \in 1 .. n : Append(f, h[n + 1])[i] = f[i]
      /\ Append(f, h[n + 1])[n + 1] = h[n + 1]
  BY <1>1, <1>4
<1>6. \A i \in 1 .. n + 1 : Append(f, h[n + 1])[i] = g[i]
  BY <1>3, <1>4, <1>5
<1>7. Append(f, h[n + 1]) = g
  BY <1>2, <1>5, <1>6, SeqEqual
<1>8. QED
  BY <1>1, <1>7 DEF f, g

\* A turn of build's loop appends a block, if the result is open.
LEMMA CopyStep ==
  ASSUME ProperClient, FilesInv, NEW t \in Tasks, pc[t] \in Running, Frame(t),
         NEW u \in Uids, u = Uid(t), CopyBlock(t)
  PROVE  \/ Promise!Grow(u) \/ Promise!EndBlind(u)
         \/ UNCHANGED Promise!promise
<1> DEFINE b == Builder(t)
           n == offset[t]
           last == n + 1 = b.total
<1>1. /\ pc[t] = "copy" /\ n \in Nat /\ pos[t] = n + 1 /\ n + 1 \in 1 .. b.total
      /\ pc'[t] = IF last THEN "erase" ELSE "copy"
      /\ fd'[t] = IF last THEN None ELSE fd[t]
      /\ UNCHANGED <<builders, object>>
  BY CopyBlockFacts
<1>2. published' = published
  BY DEF CopyBlock
<1>3. /\ Received(u) = b.hash /\ b.total \in BlockNumbers
      /\ b.hash \in [1 .. b.total -> Blocks \cup {None}]
  BY <1>1, BuilderView
<1>4. Received(u)' = Received(u)
  BY <1>1 DEF Received
<1>5. /\ Receipts[u] = b.hash
      /\ Receipts' = [Receipts EXCEPT ![u] = Receipts[u]]
      /\ Results[u] = disk[ResultName(u)]
      /\ Results' = [Results EXCEPT ![u] = disk'[ResultName(u)]]
      /\ StageMap[u] = StageAt(pc[t], fd[t])
      /\ StageMap' = [StageMap EXCEPT ![u] = StageAt(pc'[t], fd'[t])]
  BY <1>3, <1>4, OwnView
<1>6. Receipts' = Receipts
  BY <1>5 DEF Receipts
<1>7. CASE fd[t] = None /\ last
  <2>1. disk' = disk
    BY <1>7, CopyBlockFacts
  <2>2. Results' = Results
    BY <1>5, <2>1 DEF Results
  <2>3. StageMap[u] = "blind" /\ StageMap' = [StageMap EXCEPT ![u] = "built"]
    BY <1>1, <1>5, <1>7 DEF StageAt
  <2>4. Promise!EndBlind(u)
    BY <1>2, <1>6, <2>2, <2>3 DEF Promise!EndBlind, Promise!Goes
  <2>5. QED
    BY <2>4
<1>8. CASE fd[t] = None /\ ~last
  <2>1. disk' = disk
    BY <1>8, CopyBlockFacts
  <2>2. StageAt(pc'[t], fd'[t]) = StageAt(pc[t], fd[t])
    BY <1>1, <1>8 DEF StageAt
  <2>3. QED
    BY <1>2, <1>4, <2>1, <2>2, Invisible
<1>9. CASE fd[t] # None
  <2> DEFINE now  == [i \in 1 .. n |-> b.hash[i]]
             then == [i \in 1 .. n + 1 |-> b.hash[i]]
  <2>1. /\ disk[ResultName(u)] = now
        /\ disk' = [disk EXCEPT ![ResultName(u)] = then]
    BY <1>9, CopyBlockFacts
  <2>2. ResultName(u) \in Files /\ disk \in [Files -> Content \cup {None}]
    BY DEF Files, FilesInv, SerialInv, IInv, TypeOK
  <2>3. Results[u] = now /\ Results' = [Results EXCEPT ![u] = then]
    BY <1>5, <2>1, <2>2
  <2>4. Len(now) = n /\ Append(now, b.hash[n + 1]) = then
    <3>1. \A i \in 1 .. n + 1 : b.hash[i] \in Blocks
      <4>1. \A i \in 1 .. n + 1 : i \in 1 .. b.total
        BY <1>1, <1>3, BlockRange
      <4>2. \A i \in 1 .. b.total : b.hash[i] # None
        BY <1>1, BuilderView
      <4>3. QED
        BY <1>3, <4>1, <4>2
    <3>2. QED
      BY <1>1, <3>1, NextOfPrefix
  <2>5. StageMap[u] = "building"
    BY <1>1, <1>5, <1>9 DEF StageAt
  <2>6. StageMap' = [StageMap EXCEPT ![u] = IF last THEN "built" ELSE "building"]
    <3>1. StageAt(pc'[t], fd'[t]) = IF last THEN "built" ELSE "building"
      BY <1>1, <1>9 DEF StageAt
    <3>2. QED
      BY <1>5, <3>1
  <2>7. Promise!NextBlock(u) = n + 1
    BY <2>3, <2>4 DEF Promise!NextBlock
  <2>8. DOMAIN Receipts[u] = 1 .. b.total
    BY <1>3, <1>5
  <2>9. (n + 1) + 1 \in DOMAIN Receipts[u] <=> ~last
    <3>1. (n + 1) + 1 = n + 2
      BY <1>1
    <3>2. QED
      BY <1>1, <1>3, <2>8, <3>1, OneMore
  <2>10. Results' = [Results EXCEPT ![u] = Append(Results[u], Receipts[u][n + 1])]
    BY <1>5, <2>3, <2>4
  <2> HIDE DEF now, then, last
  <2>11. Promise!Grow(u)
    BY <1>1, <1>2, <1>6, <2>5, <2>6, <2>7, <2>8, <2>9, <2>10 DEF Promise!Grow
  <2>12. QED
    BY <2>11
<1>10. QED
  BY <1>7, <1>8, <1>9

\* The builder is given up, with its blocks.
LEMMA ReleaseStep ==
  ASSUME ProperClient, FilesInv, NEW t \in Tasks, pc[t] \in Running, Frame(t),
         NEW u \in Uids, u = Uid(t), DeleteFileBuilder(t)
  PROVE  Promise!Release(u)
<1>1. pc[t] = "erase"
  BY DEF DeleteFileBuilder, Goto
<1>2. builders[u] # None
  BY <1>1, BuilderView
<1>3. pc'[t] = "clear" /\ builders'[u] = None /\ UNCHANGED <<disk, published>>
  BY <1>1, <1>2 DEF DeleteFileBuilder, Goto, FilesInv, SerialInv, IInv, TypeOK
<1>4. Received(u)' = None
  BY <1>3 DEF Received
<1>5. StageAt(pc[t], fd[t]) = "built" /\ StageAt(pc'[t], fd'[t]) = "due"
  BY <1>1, <1>3 DEF StageAt
<1>6. /\ Receipts' = [Receipts EXCEPT ![u] = None]
      /\ Results' = [Results EXCEPT ![u] = Results[u]]
      /\ StageMap[u] = "built" /\ StageMap' = [StageMap EXCEPT ![u] = "due"]
  BY <1>3, <1>4, <1>5, OwnView
<1>7. Results' = Results
  BY <1>6 DEF Results
<1>8. QED
  BY <1>3, <1>6, <1>7 DEF Promise!Release, Promise!Goes

\* The callback hands the video over.
LEMMA DeliverStep ==
  ASSUME ProperClient, FilesInv, NEW t \in Tasks, pc[t] \in Running, Frame(t),
         NEW u \in Uids, u = Uid(t), Notify(t)
  PROVE  Promise!Deliver(u)
<1>1. /\ pc[t] = "notify" /\ pc'[t] = "ok" /\ published' = Append(published, u)
      /\ UNCHANGED <<builders, object, disk>>
  BY DEF Notify, Goto, heap, FilesInv, SerialInv, IInv, TypeOK
<1>2. Received(u)' = Received(u)
  BY <1>1 DEF Received
<1>3. StageAt(pc[t], fd[t]) = "due" /\ StageAt(pc'[t], fd'[t]) = "receiving"
  BY <1>1 DEF StageAt
<1>4. /\ Receipts' = [Receipts EXCEPT ![u] = Receipts[u]]
      /\ Results' = [Results EXCEPT ![u] = Results[u]]
      /\ StageMap[u] = "due"
      /\ StageMap' = [StageMap EXCEPT ![u] = "receiving"]
  BY <1>1, <1>2, <1>3, OwnView
<1>5. Receipts' = Receipts /\ Results' = Results
  BY <1>4 DEF Receipts, Results
<1>6. QED
  BY <1>1, <1>4, <1>5 DEF Promise!Deliver, Promise!Goes

-----------------------------------------------------------------------------
(* The refinement.                                                         *)

\* Every step of a task is a step of the promise, or changes nothing in it.
LEMMA TaskRefines ==
  ASSUME ProperClient, "write" \notin Faults, FilesInv, NEW t \in Tasks,
         Step(t), ~Abort(t)
  PROVE  [Promise!Next]_(Promise!promise)
<1> DEFINE u == Uid(t)
<1>1. Frame(t) /\ pc[t] \in Running
  BY TaskFiles
<1>2. u \in Uids
  BY <1>1 DEF Uid, Uids, FilesInv, SerialInv, IInv, RequestInv
<1> HIDE DEF u
<1>3. u = Uid(t)
  BY DEF u
<1>4. CASE \/ GetFileBuilder(t) /\ builders[u] # None
           \/ GetFileBuilderFails(t) \/ Compare(t) \/ OpenPart(t)
           \/ OpenPartFails(t) \/ WritePart(t) \/ Touch(t) \/ CheckReady(t)
  BY <1>1, <1>2, <1>3, <1>4, ReceivingStep
<1>5. CASE GetFileBuilder(t) /\ builders[u] = None
  BY <1>1, <1>2, <1>3, <1>5, BeginStep DEF Promise!Next
<1>6. CASE UpdateBlockHash(t)
  BY <1>1, <1>2, <1>3, <1>6, StoreStep DEF Promise!Next
<1>7. CASE OpenResult(t) \/ OpenResultFails(t)
  BY <1>1, <1>2, <1>3, <1>7, StartStep DEF Promise!Next, Promise!Build
<1>8. CASE CopyBlock(t)
  BY <1>1, <1>2, <1>3, <1>8, CopyStep DEF Promise!Next, Promise!Build
<1>9. CASE DeleteFileBuilder(t)
  BY <1>1, <1>2, <1>3, <1>9, ReleaseStep DEF Promise!Next, Promise!Build
<1>10. CASE ClearBlock(t)
  BY <1>1, <1>2, <1>3, <1>10, ClearStep
<1>11. CASE Notify(t)
  BY <1>1, <1>2, <1>3, <1>11, DeliverStep DEF Promise!Next
<1>12. CASE CopyBlockFails(t) \/ WritePartFails(t)
  BY <1>12, NoMissingPart DEF WritePartFails
<1>13. QED
  BY <1>4, <1>5, <1>6, <1>7, <1>8, <1>9, <1>10, <1>11, <1>12 DEF Step

\* The end of the process is the promise's crash.
LEMMA ProcessDiesRefines ==
  ASSUME ProcessDies
  PROVE  Promise!Crash
<1>1. /\ \A v \in Uids : builders'[v] = None
      /\ \A s \in Tasks : pc'[s] \notin Running
      /\ UNCHANGED <<disk, published>>
  BY DEF ProcessDies, Running
<1>2. Receipts' = [v \in Uids |-> None]
  BY <1>1 DEF Receipts, Received
<1>3. \A v \in Uids : StageOf(v)' = "receiving"
  BY <1>1 DEF StageOf, Busy, Running
<1>4. StageMap' = [v \in Uids |-> "receiving"]
  BY <1>3 DEF StageMap
<1>5. Results' = Results
  BY <1>1 DEF Results
<1>6. QED
  BY <1>1, <1>2, <1>4, <1>5 DEF Promise!Crash

\* A request that arrives is not yet part of an upload.
LEMMA RequestRefines ==
  ASSUME FilesInv, NEW t \in Tasks, NEW r \in Requests, HandleRequest(t, r)
  PROVE  UNCHANGED Promise!promise
<1>1. /\ pc[t] = "idle" /\ pc'[t] \in {"rejected", "get"}
      /\ \A s \in Tasks : s # t => pc'[s] = pc[s] /\ req'[s] = req[s]
      /\ UNCHANGED <<builders, object, fd, disk, published>>
  BY DEF HandleRequest, Goto, heap, FilesInv, SerialInv, IInv, TypeOK
<1>2. ASSUME NEW v, NEW S, S \subseteq {"copy", "erase", "clear", "notify"}
      PROVE  Busy(v, S)' <=> Busy(v, S)
  <2>1. pc[t] \notin S /\ pc'[t] \notin S
    BY <1>1, <1>2
  <2>2. \A s \in Tasks : pc'[s] \in S /\ Uid(s)' = v <=> pc[s] \in S /\ Uid(s) = v
    BY <1>1, <2>1 DEF Uid
  <2>3. QED
    BY <2>2 DEF Busy
<1>3. \A v : (\E s \in Tasks : pc'[s] = "copy" /\ Uid(s)' = v /\ fd'[s] = None)
        <=> (\E s \in Tasks : pc[s] = "copy" /\ Uid(s) = v /\ fd[s] = None)
  BY <1>1 DEF Uid
<1>4. \A v \in Uids : StageOf(v)' = StageOf(v)
  <2> SUFFICES ASSUME NEW v \in Uids PROVE StageOf(v)' = StageOf(v)
    OBVIOUS
  <2>1. /\ Busy(v, {"copy"})' <=> Busy(v, {"copy"})
        /\ Busy(v, {"erase"})' <=> Busy(v, {"erase"})
        /\ Busy(v, {"clear", "notify"})' <=> Busy(v, {"clear", "notify"})
    BY <1>2
  <2>2. QED
    BY <1>3, <2>1 DEF StageOf
<1>5. \A v \in Uids : Received(v)' = Received(v)
  BY <1>1 DEF Received
<1>6. QED
  BY <1>1, <1>4, <1>5 DEF Promise!promise, Receipts, Results, StageMap

\* At first nothing has been received.
LEMMA InitRefines ==
  ASSUME Init
  PROVE  Promise!Init
<1>1. \A v \in Uids : StageOf(v) = "receiving" /\ Received(v) = None
  BY DEF Init, StageOf, Busy, Received
<1>2. \A v \in Uids : disk[ResultName(v)] = None
  BY DEF Init, Files
<1>3. QED
  BY <1>1, <1>2 DEF Init, Promise!Init, Receipts, Results, StageMap

\* The upload side implements the promise: whatever is retried, fails to open
\* or crashes, a video is delivered only after a file has been built from all
\* of its blocks, in order and as received last.
THEOREM UploadRefinement ==
  ASSUME ProperClient, "write" \notin Faults
  PROVE  Spec => ImplementsPromise
<1>1. Init => Promise!Init
  BY InitRefines
<1>2. FilesInv /\ [Next]_vars => [Promise!Next]_(Promise!promise)
  <2> SUFFICES ASSUME FilesInv, [Next]_vars
               PROVE  [Promise!Next]_(Promise!promise)
    OBVIOUS
  <2>1. ASSUME NEW t \in Tasks, NEW r \in Requests, HandleRequest(t, r)
        PROVE  UNCHANGED Promise!promise
    BY <2>1, RequestRefines
  <2>2. ASSUME NEW t \in Tasks, Step(t)
        PROVE  [Promise!Next]_(Promise!promise)
    BY <2>2, NoAbort, TaskRefines
  <2>3. CASE Crash
    BY <2>3, ProcessDiesRefines DEF Crash, Promise!Next
  <2>4. CASE UNCHANGED vars
    <3>1. \A v \in Uids : Received(v)' = Received(v) /\ StageOf(v)' = StageOf(v)
      BY <2>4 DEF vars, task, heap, Received, StageOf, Busy, Uid
    <3>2. UNCHANGED <<disk, published>>
      BY <2>4 DEF vars
    <3>3. QED
      BY <3>1, <3>2 DEF Promise!promise, Receipts, Results, StageMap
  <2>5. QED
    BY <2>1, <2>2, <2>3, <2>4 DEF Next
<1>3. QED
  BY <1>1, <1>2, FilesInvariance, PTL DEF Spec, ImplementsPromise, Promise!Spec

=============================================================================

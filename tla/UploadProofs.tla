---------------------------- MODULE UploadProofs ----------------------------
(***************************************************************************)
(* Theorems about the upload side, for every set of tasks, every set of    *)
(* requests and every behaviour of the client and of the file system that  *)
(* UploadController describes.                                             *)
(***************************************************************************)
EXTENDS UploadProperties, PartNamesProofs, SequenceTheorems, TLAPS

-----------------------------------------------------------------------------
(* Lemmas about the operators the model is built from.                     *)

\* Writing blocks at an offset of a file leaves a file.
LEMMA WriteAtType ==
  ASSUME NEW f \in Content, NEW n \in Nat, NEW s \in Content
  PROVE  WriteAt(f, n, s) \in Content
<1> DEFINE end == n + Len(s)
           len == IF Len(f) > end THEN Len(f) ELSE end
<1>1. Len(f) \in Nat /\ Len(s) \in Nat /\ end \in Nat /\ len \in Nat
  BY DEF Content
<1>2. ASSUME NEW k \in 1 .. len
      PROVE  (IF k > n /\ k <= end THEN s[k - n]
              ELSE IF k <= Len(f) THEN f[k] ELSE Hole) \in Blocks \cup {Hole}
  <2>1. CASE k > n /\ k <= end
    <3>1. k - n \in 1 .. Len(s)
      BY <1>1, <2>1
    <3>2. QED
      BY <2>1, <3>1, ElementOfSeq DEF Content
  <2>2. CASE ~(k > n /\ k <= end) /\ k <= Len(f)
    <3>1. k \in 1 .. Len(f)
      BY <1>1, <2>2
    <3>2. QED
      BY <2>2, <3>1, ElementOfSeq DEF Content
  <2>3. CASE ~(k > n /\ k <= end) /\ ~(k <= Len(f))
    BY <2>3
  <2>4. QED
    BY <2>1, <2>2, <2>3
<1>3. WriteAt(f, n, s) \in [1 .. len -> Blocks \cup {Hole}]
  BY <1>2 DEF WriteAt
<1> HIDE DEF end, len
<1>4. QED
  BY <1>1, <1>3, SeqDef DEF Content

\* The parts of a builder object.
LEMMA BuilderFields ==
  ASSUME NEW x \in BuilderObjects
  PROVE  /\ x.uid \in Uids
         /\ x.total \in BlockNumbers
         /\ x.hash \in [1 .. x.total -> Blocks \cup {None}]
         /\ x = [uid |-> x.uid, total |-> x.total, hash |-> x.hash]
         /\ \E r \in Requests : r.total # 0 /\ r.uid = x.uid /\ r.total = x.total
<1>1. PICK r \in Requests :
        /\ r.total # 0
        /\ \E h \in [1 .. r.total -> Blocks \cup {None}] :
             x = [uid |-> r.uid, total |-> r.total, hash |-> h]
  BY DEF BuilderObjects
<1>2. r.total \in BlockNumbers /\ r.uid \in Uids
  BY <1>1, UploadAssumption DEF Uids
<1>3. QED
  BY <1>1, <1>2

\* A request let through by UploadHandler yields a builder object.
LEMMA NewBuilderObject ==
  ASSUME NEW r \in Requests, r.total # 0
  PROVE  /\ NewBuilder(r.uid, r.total) \in BuilderObjects
         /\ NewBuilder(r.uid, r.total).uid = r.uid
<1>1. [i \in 1 .. r.total |-> None] \in [1 .. r.total -> Blocks \cup {None}]
  OBVIOUS
<1>2. QED
  BY <1>1 DEF NewBuilder, BuilderObjects

\* Recording a digest keeps a builder object one, of the same upload and the
\* same number of blocks.
LEMMA RecordDigest ==
  ASSUME NEW x \in BuilderObjects, NEW i, NEW d \in Blocks
  PROVE  /\ [x EXCEPT !.hash[i] = d] \in BuilderObjects
         /\ [x EXCEPT !.hash[i] = d].uid = x.uid
         /\ [x EXCEPT !.hash[i] = d].total = x.total
<1>1. PICK r \in Requests : r.total # 0 /\ r.uid = x.uid /\ r.total = x.total
  BY BuilderFields
<1>2. /\ x = [uid |-> x.uid, total |-> x.total, hash |-> x.hash]
      /\ x.hash \in [1 .. r.total -> Blocks \cup {None}]
  BY <1>1, BuilderFields
<1> DEFINE h == [x.hash EXCEPT ![i] = d]
<1>3. h \in [1 .. r.total -> Blocks \cup {None}]
  BY <1>2
<1>4. [x EXCEPT !.hash[i] = d] = [uid |-> r.uid, total |-> r.total, hash |-> h]
  BY <1>1, <1>2
<1>5. [x EXCEPT !.hash[i] = d] \in BuilderObjects
  <2> DEFINE S == {[uid |-> r.uid, total |-> r.total, hash |-> g] :
                     g \in [1 .. r.total -> Blocks \cup {None}]}
  <2>1. [uid |-> r.uid, total |-> r.total, hash |-> h] \in S
    BY <1>3
  <2>2. S \in {{[uid |-> q.uid, total |-> q.total, hash |-> g] :
                  g \in [1 .. q.total -> Blocks \cup {None}]} :
               q \in {q \in Requests : q.total # 0}}
    BY <1>1
  <2> HIDE DEF S, h
  <2>3. QED
    BY <1>4, <2>1, <2>2 DEF BuilderObjects
<1>6. QED
  BY <1>1, <1>4, <1>5

\* The files of a builder are files of the upload directory.
LEMMA BuilderFiles ==
  ASSUME NEW x \in BuilderObjects
  PROVE  /\ ResultName(x.uid) \in Files
         /\ \A i \in 1 .. x.total : PartName(x.uid, i) \in Files
<1>1. PICK r \in Requests : r.uid = x.uid /\ r.total = x.total
  BY BuilderFields
<1>2. QED
  BY <1>1 DEF Files, Uids

\* A builder has at least one block.
LEMMA SomeBlock ==
  ASSUME NEW n \in BlockNumbers
  PROVE  n \in Nat /\ 1 \in 1 .. n
<1>1. n \in 1 .. 9999
  BY DEF BlockNumbers
<1>2. n \in Int /\ 1 <= n
  BY <1>1, SMT
<1>3. QED
  BY <1>2, SMT


-----------------------------------------------------------------------------
(* Every step preserves the invariant: a lemma per action.                 *)

\* A step that leaves the builders and the pointers alone misses no
\* completion, unless it takes a completing task elsewhere.
LEMMA KeepsCompletion ==
  ASSUME TypeOK, NoLostCompletion, NEW t \in Tasks, NEW q,
         pc' = [pc EXCEPT ![t] = q], pc[t] \in Completing => q \in Completing,
         UNCHANGED <<builders, object, ptr>>
  PROVE  NoLostCompletion'
<1> SUFFICES ASSUME NEW u \in Uids, builders[u] # None,
                    IsReady(object[builders[u]])
             PROVE  \E s \in Tasks : ptr[s] = builders[u] /\ pc'[s] \in Completing
  BY DEF NoLostCompletion
<1>1. PICK s \in Tasks : ptr[s] = builders[u] /\ pc[s] \in Completing
  BY DEF NoLostCompletion
<1>2. pc'[s] \in Completing
  BY <1>1 DEF TypeOK
<1>3. QED
  BY <1>1, <1>2

\* A request that arrives touches no builder.
LEMMA HandleRequestStep ==
  ASSUME IInv, NEW t \in Tasks, NEW r \in Requests, HandleRequest(t, r)
  PROVE  IInv'
<1> USE DEF IInv, HandleRequest, Goto, heap
<1>1. TypeOK'
  BY DEF TypeOK, Running, Finished
<1>2. RequestInv' /\ CreatorInv' /\ PointerInv' /\ NumberInv' /\ TargetInv' /\ StreamInv'
  BY DEF TypeOK, RequestInv, CreatorInv, PointerInv, NumberInv, TargetInv,
         StreamInv, Holding, UsesBuilder, Running, Builder, Uid
<1>3. MapNeverDangles' /\ DestroyedOnce'
  BY DEF TypeOK, MapNeverDangles, DestroyedOnce
<1>4. NoLostCompletion'
  BY KeepsCompletion DEF Completing
<1>5. QED
  BY <1>1, <1>2, <1>3, <1>4

\* get_file_builder creates a builder where it finds none: the object is new,
\* so no pointer, map entry or destructor refers to it yet.
LEMMA GetFileBuilderStep ==
  ASSUME IInv, NEW t \in Tasks, GetFileBuilder(t)
  PROVE  IInv'
<1> USE DEF IInv, Goto
<1>1. /\ pc[t] = "get" /\ pc' = [pc EXCEPT ![t] = "compare"]
      /\ UNCHANGED <<req, target, pos, offset, freed, fd, disk, published, restarts>>
  BY DEF GetFileBuilder
<1>2. req[t] \in Requests /\ Uid(t) \in Uids /\ object[t] = None /\ t \notin freed
  BY <1>1 DEF RequestInv, Running, Uids, Uid, CreatorInv
<1>3. RequestInv'
  BY <1>1 DEF TypeOK, RequestInv, Running
<1>4. CASE builders[Uid(t)] = None
  <2>1. /\ builders' = [builders EXCEPT ![Uid(t)] = t]
        /\ object' = [object EXCEPT ![t] = NewBuilder(Uid(t), req[t].total)]
        /\ ptr' = [ptr EXCEPT ![t] = t]
    BY <1>4 DEF GetFileBuilder
  <2>2. /\ NewBuilder(Uid(t), req[t].total) \in BuilderObjects
        /\ NewBuilder(Uid(t), req[t].total).uid = Uid(t)
        /\ NewBuilder(Uid(t), req[t].total) # None
    BY <1>1, <1>2, NewBuilderObject, NoneIsNoBuilder DEF RequestInv, Running, Uid
  <2>3. TypeOK'
    BY <1>1, <1>2, <2>1, <2>2 DEF TypeOK, Running
  <2>4. \A s \in Tasks : s # t => object'[s] = object[s]
    BY <2>1 DEF TypeOK
  <2>5. object'[t] = NewBuilder(Uid(t), req[t].total)
    BY <2>1 DEF TypeOK
  <2>6. CreatorInv'
    BY <1>1, <2>2, <2>4, <2>5 DEF TypeOK, CreatorInv
  <2>7. PointerInv'
    <3> SUFFICES ASSUME NEW s \in Tasks, pc'[s] \in Holding
                 PROVE  /\ ptr'[s] \in Tasks /\ object'[ptr'[s]] # None
                        /\ object'[ptr'[s]].uid = req'[s].uid
      BY DEF PointerInv, Uid
    <3>1. CASE s = t
      BY <1>1, <2>1, <2>2, <2>5, <3>1 DEF TypeOK, Uid
    <3>2. CASE s # t
      <4>1. pc[s] \in Holding /\ ptr'[s] = ptr[s]
        BY <1>1, <2>1, <3>2 DEF TypeOK
      <4>2. ptr[s] # t
        BY <1>2, <4>1 DEF PointerInv
      <4>3. QED
        BY <1>1, <2>4, <4>1, <4>2 DEF PointerInv, Uid
    <3>3. QED
      BY <3>1, <3>2
  <2>8. NumberInv'
    <3> SUFFICES ASSUME NEW s \in Tasks, pc'[s] \in {"open", "write", "record", "copy"}
                 PROVE  s # t /\ ptr[s] # t /\ pc'[s] = pc[s] /\ ptr'[s] = ptr[s]
                        /\ object'[ptr[s]] = object[ptr[s]]
      BY <1>1 DEF NumberInv, Builder
    <3>1. s # t /\ pc'[s] = pc[s] /\ ptr'[s] = ptr[s]
      BY <1>1, <2>1 DEF TypeOK
    <3>2. ptr[s] \in Tasks /\ ptr[s] # t
      BY <1>2, <3>1 DEF PointerInv, Holding, UsesBuilder
    <3>3. QED
      BY <2>4, <3>1, <3>2
  <2>9. TargetInv'
    BY <1>1, <1>2, <2>4 DEF TypeOK, TargetInv, Uid
  <2>10. StreamInv'
    BY <1>1 DEF StreamInv
  <2>11. MapNeverDangles'
    <3> SUFFICES ASSUME NEW u \in Uids, builders'[u] # None
                 PROVE  /\ builders'[u] \notin freed
                        /\ object'[builders'[u]] # None
                        /\ object'[builders'[u]].uid = u
                        /\ \A s \in Tasks : pc'[s] = "clear" => target[s] # builders'[u]
      BY <1>1 DEF MapNeverDangles
    <3>1. \A s \in Tasks : pc'[s] = "clear" =>
            pc[s] = "clear" /\ target[s] # t
      BY <1>1, <1>2 DEF TypeOK, TargetInv
    <3>2. CASE u = Uid(t)
      BY <1>2, <2>1, <2>2, <2>5, <3>1, <3>2 DEF TypeOK
    <3>3. CASE u # Uid(t)
      <4>1. builders'[u] = builders[u] /\ builders[u] \in Tasks /\ builders[u] # t
        BY <1>2, <2>1, <3>3 DEF TypeOK, MapNeverDangles
      <4>2. QED
        BY <2>4, <3>1, <4>1 DEF MapNeverDangles
    <3>4. QED
      BY <3>2, <3>3
  <2>12. DestroyedOnce'
    BY <1>1 DEF TypeOK, DestroyedOnce
  <2>13. NoLostCompletion'
    <3> SUFFICES ASSUME NEW u \in Uids, builders'[u] # None,
                        IsReady(object'[builders'[u]])
                 PROVE  \E s \in Tasks : /\ ptr'[s] = builders'[u]
                                         /\ pc'[s] \in Completing
      BY DEF NoLostCompletion
    <3>1. u # Uid(t)
      <4>1. req[t].total \in BlockNumbers
        BY <1>1, <1>2, UploadAssumption DEF RequestInv, Running
      <4> DEFINE n == req[t].total
      <4>2. n \in Nat /\ 1 \in 1 .. n
        BY <4>1, SomeBlock
      <4> HIDE DEF n
      <4>3. ~IsReady(NewBuilder(Uid(t), n))
        BY <4>2 DEF IsReady, NewBuilder
      <4>4. QED
        BY <1>2, <2>1, <2>5, <4>3 DEF TypeOK, n
    <3>2. builders'[u] = builders[u] /\ object'[builders[u]] = object[builders[u]]
      BY <1>2, <2>1, <2>4, <3>1 DEF TypeOK, MapNeverDangles
    <3>3. PICK s \in Tasks : ptr[s] = builders[u] /\ pc[s] \in Completing
      BY <3>2 DEF NoLostCompletion
    <3>4. s # t
      BY <1>1, <3>3 DEF Completing
    <3>5. QED
      BY <1>1, <2>1, <3>2, <3>3, <3>4 DEF TypeOK
  <2>14. QED
    BY <1>3, <2>3, <2>6, <2>7, <2>8, <2>9, <2>10, <2>11, <2>12, <2>13
<1>5. CASE builders[Uid(t)] # None
  <2>1. ptr' = [ptr EXCEPT ![t] = builders[Uid(t)]] /\ UNCHANGED <<builders, object>>
    BY <1>5 DEF GetFileBuilder
  <2>2. builders[Uid(t)] \in Tasks
    BY <1>2, <1>5 DEF TypeOK
  <2>3. TypeOK'
    BY <1>1, <1>2, <2>1, <2>2 DEF TypeOK, Running
  <2>4. CreatorInv' /\ TargetInv' /\ StreamInv'
    BY <1>1, <2>1 DEF TypeOK, CreatorInv, TargetInv, StreamInv, Uid
  <2>5. PointerInv'
    BY <1>1, <1>2, <1>5, <2>1, <2>2 DEF TypeOK, PointerInv, MapNeverDangles, Uid
  <2>6. NumberInv'
    BY <1>1, <2>1 DEF TypeOK, NumberInv, Builder
  <2>7. MapNeverDangles' /\ DestroyedOnce'
    BY <1>1, <2>1 DEF TypeOK, MapNeverDangles, DestroyedOnce
  <2>8. NoLostCompletion'
    <3> SUFFICES ASSUME NEW u \in Uids, builders[u] # None,
                        IsReady(object[builders[u]])
                 PROVE  \E s \in Tasks : /\ ptr'[s] = builders[u]
                                         /\ pc'[s] \in Completing
      BY <2>1 DEF NoLostCompletion
    <3>1. PICK s \in Tasks : ptr[s] = builders[u] /\ pc[s] \in Completing
      BY DEF NoLostCompletion
    <3>2. s # t
      BY <1>1, <3>1 DEF Completing
    <3>3. QED
      BY <1>1, <2>1, <3>1, <3>2 DEF TypeOK
  <2>9. QED
    BY <1>3, <2>3, <2>4, <2>5, <2>6, <2>7, <2>8
<1>6. QED
  BY <1>4, <1>5

\* Steps that only move a task on: nothing but its pc changes.
LEMMA PcOnlyStep ==
  ASSUME IInv, NEW t \in Tasks,
         \/ GetFileBuilderFails(t) \/ Compare(t) \/ OpenPartFails(t)
         \/ Touch(t) \/ CheckReady(t)
  PROVE  IInv'
<1> DEFINE q == pc'[t]
<1> USE DEF IInv
<1>1. /\ pc' = [pc EXCEPT ![t] = q]
      /\ pc[t] \in Running \ {"idle", "clear"}
      /\ q \in (UsesBuilder \cup {"ok", "failed"}) \ {"copy"}
      /\ q \in UsesBuilder => pc[t] \in UsesBuilder
      /\ q \in {"open", "write", "record"} => req[t].idx \in 1 .. Builder(t).total
      /\ UNCHANGED <<task, heap, fd, disk, published, restarts>>
  BY DEF GetFileBuilderFails, Compare, OpenPartFails, Touch, CheckReady, Goto,
         TypeOK, Running, UsesBuilder
<1>2. pc[t] \in Completing => q \in Completing \/ ~IsReady(Builder(t))
  BY DEF GetFileBuilderFails, Compare, OpenPartFails, Touch, CheckReady, Goto,
         TypeOK, Completing
<1> HIDE DEF q
<1> USE DEF task, heap
<1>3. TypeOK'
  BY <1>1 DEF TypeOK, Running, Finished, Failure, UsesBuilder
<1>4. RequestInv' /\ CreatorInv' /\ TargetInv' /\ StreamInv'
  BY <1>1 DEF TypeOK, RequestInv, CreatorInv, TargetInv, StreamInv, Running,
              UsesBuilder, Uid
<1>5. PointerInv' /\ NumberInv'
  BY <1>1 DEF TypeOK, PointerInv, NumberInv, Holding, UsesBuilder, Builder, Uid
<1>6. MapNeverDangles' /\ DestroyedOnce'
  BY <1>1 DEF TypeOK, MapNeverDangles, DestroyedOnce, UsesBuilder
<1>7. NoLostCompletion'
  <2> SUFFICES ASSUME NEW u \in Uids, builders[u] # None,
                      IsReady(object[builders[u]])
               PROVE  \E s \in Tasks : ptr[s] = builders[u] /\ pc'[s] \in Completing
    BY <1>1 DEF NoLostCompletion
  <2>1. PICK s \in Tasks : ptr[s] = builders[u] /\ pc[s] \in Completing
    BY DEF NoLostCompletion
  <2>2. pc'[s] \in Completing
    BY <1>1, <1>2, <2>1 DEF TypeOK, Builder
  <2>3. QED
    BY <2>1, <2>2
<1>8. QED
  BY <1>3, <1>4, <1>5, <1>6, <1>7

\* Opening a part file: the file exists from then on.
LEMMA OpenPartStep ==
  ASSUME IInv, NEW t \in Tasks, OpenPart(t)
  PROVE  IInv'
<1> USE DEF IInv
<1>1. /\ pc[t] = "open" /\ pc' = [pc EXCEPT ![t] = "write"]
      /\ disk' = [disk EXCEPT ![Part(t)] = <<>>]
      /\ fd' = [fd EXCEPT ![t] = Part(t)]
      /\ UNCHANGED <<task, heap, published, restarts>>
  BY DEF OpenPart, Goto, Open
<1>2. Part(t) \in Files
  BY <1>1, BuilderFiles DEF TypeOK, PointerInv, NumberInv, Holding, UsesBuilder,
                            Part, Builder
<1>3. <<>> \in Content /\ <<>> # None
  <2>1. <<>> \in Content
    BY DEF Content
  <2>2. QED
    BY <2>1, BlocksAssumption DEF Content
<1> USE DEF task, heap
<1>4. TypeOK'
  BY <1>1, <1>2, <1>3 DEF TypeOK, Running
<1>5. RequestInv' /\ CreatorInv' /\ PointerInv' /\ NumberInv' /\ TargetInv'
  BY <1>1 DEF TypeOK, RequestInv, CreatorInv, PointerInv, NumberInv, TargetInv,
              Running, Holding, UsesBuilder, Builder, Uid
<1>6. StreamInv'
  BY <1>1, <1>2, <1>3 DEF TypeOK, StreamInv
<1>7. MapNeverDangles' /\ DestroyedOnce'
  BY <1>1 DEF TypeOK, MapNeverDangles, DestroyedOnce
<1>8. NoLostCompletion'
  BY <1>1, KeepsCompletion DEF Completing
<1>9. QED
  BY <1>4, <1>5, <1>6, <1>7, <1>8

\* What a stream writes keeps the directory well formed.
LEMMA WriteKeepsFiles ==
  ASSUME TypeOK, StreamInv, NEW t \in Tasks, NEW n \in Nat, NEW s \in Content,
         Write(t, n, s)
  PROVE  /\ disk' \in [Files -> Content \cup {None}]
         /\ \A f \in Files : disk[f] # None => disk'[f] # None
<1>1. CASE fd[t] = None
  BY <1>1 DEF Write, TypeOK
<1>2. CASE fd[t] # None
  <2>1. disk' = [disk EXCEPT ![fd[t]] = WriteAt(disk[fd[t]], n, s)]
    BY <1>2 DEF Write
  <2>2. fd[t] \in Files /\ disk[fd[t]] \in Content
    BY <1>2 DEF TypeOK, StreamInv
  <2>3. WriteAt(disk[fd[t]], n, s) \in Content
    BY <2>2, WriteAtType
  <2>4. None \notin Content
    BY BlocksAssumption DEF Content
  <2>5. QED
    BY <2>1, <2>2, <2>3, <2>4 DEF TypeOK
<1>3. QED
  BY <1>1, <1>2

\* Writing a part, or failing to: the stream is closed.
LEMMA WritePartStep ==
  ASSUME IInv, NEW t \in Tasks, WritePart(t) \/ WritePartFails(t)
  PROVE  IInv'
<1> USE DEF IInv
<1>1. /\ pc[t] = "write" /\ pc' = [pc EXCEPT ![t] = "record"]
      /\ Write(t, 0, <<req[t].data>>) \/ disk' = disk
      /\ fd' = [fd EXCEPT ![t] = None]
      /\ UNCHANGED <<task, heap, published, restarts>>
  BY DEF WritePart, WritePartFails, Goto, Close
<1>2. <<req[t].data>> \in Content
  <2>1. req[t].data \in Blocks
    BY <1>1, UploadAssumption DEF RequestInv, Running
  <2>2. QED
    BY <2>1 DEF Content
<1>3. /\ disk' \in [Files -> Content \cup {None}]
      /\ \A f \in Files : disk[f] # None => disk'[f] # None
  BY <1>1, <1>2, WriteKeepsFiles DEF TypeOK
<1> USE DEF task, heap
<1>4. TypeOK'
  BY <1>1, <1>3 DEF TypeOK, Running
<1>5. RequestInv' /\ CreatorInv' /\ PointerInv' /\ NumberInv' /\ TargetInv'
  BY <1>1, SMTT(30) DEF TypeOK, RequestInv, CreatorInv, PointerInv, NumberInv, TargetInv,
              Running, Holding, UsesBuilder, Builder, Uid
<1>6. StreamInv'
  BY <1>1, <1>3 DEF TypeOK, StreamInv
<1>7. MapNeverDangles' /\ DestroyedOnce'
  BY <1>1 DEF TypeOK, MapNeverDangles, DestroyedOnce
<1>8. NoLostCompletion'
  BY <1>1, KeepsCompletion DEF Completing
<1>9. QED
  BY <1>4, <1>5, <1>6, <1>7, <1>8

\* Recording a digest changes one object, not its upload nor its length; the
\* task that records the last digest is the one that will see it is ready.
LEMMA UpdateBlockHashStep ==
  ASSUME IInv, NEW t \in Tasks, UpdateBlockHash(t)
  PROVE  IInv'
<1> USE DEF IInv
<1> DEFINE x == object[ptr[t]]
           y == [x EXCEPT !.hash[req[t].idx] = req[t].data]
<1>1. /\ pc[t] = "record" /\ pc' = [pc EXCEPT ![t] = "touch"]
      /\ object' = [object EXCEPT ![ptr[t]] = y]
      /\ UNCHANGED <<task, builders, freed, fd, disk, published, restarts>>
  BY DEF UpdateBlockHash, Goto
<1>2. ptr[t] \in Tasks /\ x \in BuilderObjects
  BY <1>1 DEF TypeOK, PointerInv, Holding, UsesBuilder
<1>3. req[t].data \in Blocks
  BY <1>1, UploadAssumption DEF RequestInv, Running
<1> HIDE DEF x
<1>4. y \in BuilderObjects /\ y.uid = x.uid /\ y.total = x.total /\ y # None
  <2>1. y \in BuilderObjects /\ y.uid = x.uid /\ y.total = x.total
    BY <1>2, <1>3, RecordDigest, ZenonT(40)
  <2> HIDE DEF y
  <2>2. QED
    BY <2>1, NoneIsNoBuilder
<1> HIDE DEF y
<1> USE DEF x
<1> USE DEF task
<1>5. \A s \in Tasks :
        /\ object[s] # None <=> object'[s] # None
        /\ object[s] # None => /\ object'[s].uid = object[s].uid
                               /\ object'[s].total = object[s].total
  BY <1>1, <1>2, <1>4, NoneIsNoBuilder DEF TypeOK
<1> HIDE DEF x
<1>6. TypeOK'
  BY <1>1, <1>2, <1>4 DEF TypeOK, Running
<1>7. RequestInv' /\ CreatorInv' /\ StreamInv'
  BY <1>1, <1>5 DEF TypeOK, RequestInv, CreatorInv, StreamInv, Running
<1>8. PointerInv' /\ NumberInv'
  BY <1>1, <1>5 DEF TypeOK, PointerInv, NumberInv, Holding, UsesBuilder,
                    Builder, Uid
<1>9. TargetInv'
  BY <1>1, <1>5 DEF TypeOK, TargetInv, Uid
<1>10. MapNeverDangles' /\ DestroyedOnce'
  BY <1>1, <1>5 DEF TypeOK, MapNeverDangles, DestroyedOnce
<1>11. NoLostCompletion'
  <2> SUFFICES ASSUME NEW u \in Uids, builders[u] # None,
                      IsReady(object'[builders[u]])
               PROVE  \E s \in Tasks : ptr[s] = builders[u] /\ pc'[s] \in Completing
    BY <1>1 DEF NoLostCompletion
  <2>1. CASE ptr[t] = builders[u]
    BY <1>1, <2>1 DEF TypeOK, Completing
  <2>2. CASE ptr[t] # builders[u]
    <3>1. object'[builders[u]] = object[builders[u]]
      BY <1>1, <2>2 DEF TypeOK
    <3>2. PICK s \in Tasks : ptr[s] = builders[u] /\ pc[s] \in Completing
      BY <3>1 DEF NoLostCompletion
    <3>3. QED
      BY <1>1, <3>2 DEF TypeOK, Completing
  <2>3. QED
    BY <2>1, <2>2
<1>12. QED
  BY <1>6, <1>7, <1>8, <1>9, <1>10, <1>11

\* Opening the result file, or failing to: the loop over the blocks starts.
LEMMA OpenResultStep ==
  ASSUME IInv, NEW t \in Tasks, OpenResult(t) \/ OpenResultFails(t)
  PROVE  IInv'
<1> USE DEF IInv
<1> DEFINE file == ResultName(Builder(t).uid)
<1>1. /\ pc[t] = "build" /\ pc' = [pc EXCEPT ![t] = "copy"]
      /\ \/ disk' = [disk EXCEPT ![file] = <<>>] /\ fd' = [fd EXCEPT ![t] = file]
         \/ UNCHANGED <<disk, fd>>
      /\ pos' = [pos EXCEPT ![t] = 1] /\ offset' = [offset EXCEPT ![t] = 0]
      /\ UNCHANGED <<req, ptr, target, heap, published, restarts>>
  BY DEF OpenResult, OpenResultFails, Goto, Open
<1>2. ptr[t] \in Tasks /\ Builder(t) \in BuilderObjects
  BY <1>1 DEF TypeOK, PointerInv, Holding, UsesBuilder, Builder
<1>3. file \in Files /\ 1 \in 1 .. Builder(t).total
  <2>1. file \in Files /\ Builder(t).total \in BlockNumbers
    BY <1>2, BuilderFiles, BuilderFields
  <2>2. QED
    BY <2>1, SomeBlock
<1>4. <<>> \in Content /\ <<>> # None
  <2>1. <<>> \in Content
    BY DEF Content
  <2>2. QED
    BY <2>1, BlocksAssumption DEF Content
<1> HIDE DEF file
<1> USE DEF heap
<1>5. /\ disk' \in [Files -> Content \cup {None}] /\ fd' \in [Tasks -> Files \cup {None}]
      /\ StreamInv'
  <2>1. CASE disk' = [disk EXCEPT ![file] = <<>>] /\ fd' = [fd EXCEPT ![t] = file]
    BY <1>3, <1>4, <2>1 DEF TypeOK, StreamInv
  <2>2. CASE UNCHANGED <<disk, fd>>
    BY <2>2 DEF TypeOK, StreamInv
  <2>3. QED
    BY <1>1, <2>1, <2>2
<1>6. TypeOK' /\ RequestInv' /\ CreatorInv' /\ PointerInv'
  BY <1>1, <1>5, ZenonT(40) DEF TypeOK, RequestInv, CreatorInv, PointerInv, Running, Holding,
                    UsesBuilder, Uid
<1>7. NumberInv'
  BY <1>1, <1>3 DEF TypeOK, NumberInv, Builder
<1>8. TargetInv'
  BY <1>1 DEF TypeOK, TargetInv, Uid
<1>9. MapNeverDangles' /\ DestroyedOnce'
  BY <1>1 DEF TypeOK, MapNeverDangles, DestroyedOnce
<1>10. NoLostCompletion'
  BY <1>1, KeepsCompletion DEF Completing
<1>11. QED
  BY <1>5, <1>6, <1>7, <1>8, <1>9, <1>10

\* A turn of build's loop stays within the blocks of the builder.
LEMMA CopyBlockStep ==
  ASSUME IInv, NEW t \in Tasks, CopyBlock(t)
  PROVE  IInv'
<1> USE DEF IInv
<1> DEFINE part == disk[PartName(Builder(t).uid, pos[t])]
           last == pos[t] = Builder(t).total
<1>1. /\ pc[t] = "copy" /\ pc' = [pc EXCEPT ![t] = IF last THEN "erase" ELSE "copy"]
      /\ part # None /\ Write(t, offset[t], part)
      /\ offset' = [offset EXCEPT ![t] = offset[t] + Len(part)]
      /\ pos' = [pos EXCEPT ![t] = pos[t] + 1]
      /\ fd' = IF last THEN [fd EXCEPT ![t] = None] ELSE fd
      /\ UNCHANGED <<req, ptr, target, heap, published, restarts>>
  BY DEF CopyBlock, Goto
<1>2. /\ ptr[t] \in Tasks /\ Builder(t) \in BuilderObjects
      /\ pos[t] \in 1 .. Builder(t).total
  BY <1>1 DEF TypeOK, PointerInv, NumberInv, Holding, UsesBuilder, Builder
<1>3. Builder(t).total \in Nat
  <2>1. Builder(t).total \in BlockNumbers
    BY <1>2, BuilderFields
  <2>2. QED
    BY <2>1, SomeBlock
<1>4. part \in Content /\ Len(part) \in Nat
  BY <1>1, <1>2, BuilderFiles DEF TypeOK, Content
<1> HIDE DEF part
<1>5. /\ disk' \in [Files -> Content \cup {None}]
      /\ \A f \in Files : disk[f] # None => disk'[f] # None
  BY <1>1, <1>4, WriteKeepsFiles DEF TypeOK
<1> USE DEF heap
<1>6. TypeOK'
  BY <1>1, <1>4, <1>5 DEF TypeOK, Running
<1>7. RequestInv' /\ CreatorInv' /\ PointerInv'
  BY <1>1 DEF TypeOK, RequestInv, CreatorInv, PointerInv, Running, Holding,
              UsesBuilder, Uid
<1>8. NumberInv'
  BY <1>1, <1>2, <1>3, SMTT(30) DEF TypeOK, NumberInv, Builder
<1>9. TargetInv'
  BY <1>1 DEF TypeOK, TargetInv, Uid
<1>10. StreamInv'
  BY <1>1, <1>5 DEF TypeOK, StreamInv
<1>11. MapNeverDangles' /\ DestroyedOnce'
  BY <1>1 DEF TypeOK, MapNeverDangles, DestroyedOnce
<1>12. NoLostCompletion'
  BY <1>1, KeepsCompletion DEF Completing
<1>13. QED
  BY <1>6, <1>7, <1>8, <1>9, <1>10, <1>11, <1>12

\* A build that finds a part missing keeps its claim on the builder.
LEMMA CopyBlockFailsStep ==
  ASSUME IInv, NEW t \in Tasks, CopyBlockFails(t)
  PROVE  IInv'
<1> USE DEF IInv
<1>1. /\ pc[t] = "copy" /\ pc' = [pc EXCEPT ![t] = "broken"]
      /\ fd' = [fd EXCEPT ![t] = None]
      /\ UNCHANGED <<task, heap, disk, published, restarts>>
  BY DEF CopyBlockFails, Goto, Close
<1> USE DEF task, heap
<1>2. TypeOK'
  BY <1>1 DEF TypeOK, Finished, Failure
<1>3. RequestInv' /\ CreatorInv' /\ PointerInv' /\ NumberInv' /\ TargetInv' /\ StreamInv'
  BY <1>1 DEF TypeOK, RequestInv, CreatorInv, PointerInv, NumberInv, TargetInv,
              StreamInv, Running, Holding, UsesBuilder, Builder, Uid
<1>4. MapNeverDangles' /\ DestroyedOnce'
  BY <1>1 DEF TypeOK, MapNeverDangles, DestroyedOnce
<1>5. NoLostCompletion'
  BY <1>1, KeepsCompletion DEF Completing
<1>6. QED
  BY <1>2, <1>3, <1>4, <1>5

\* Moving a builder out of the map makes one task, and no other, the owner of
\* its destruction.
LEMMA DeleteFileBuilderStep ==
  ASSUME IInv, NEW t \in Tasks, DeleteFileBuilder(t)
  PROVE  IInv'
<1> USE DEF IInv
<1> DEFINE u0 == Uid(t)
           b == builders[u0]
<1>1. /\ pc[t] = "erase"
      /\ pc' = [pc EXCEPT ![t] = IF b = None THEN "notify" ELSE "clear"]
      /\ target' = [target EXCEPT ![t] = b]
      /\ builders' = [builders EXCEPT ![u0] = None]
      /\ pos' = [pos EXCEPT ![t] = 1]
      /\ UNCHANGED <<req, ptr, offset, object, freed, fd, disk, published, restarts>>
  BY DEF DeleteFileBuilder, Goto
<1>2. u0 \in Uids /\ b \in Tasks \cup {None}
  BY <1>1 DEF TypeOK, RequestInv, Running, Uids, Uid
<1>3. b # None =>
        /\ b \in Tasks /\ b \notin freed
        /\ object[b] \in BuilderObjects /\ object[b] # None /\ object[b].uid = u0
        /\ \A s \in Tasks : pc[s] = "clear" => target[s] # b
  BY <1>2 DEF TypeOK, MapNeverDangles
<1>4. b # None => 1 \in 1 .. object[b].total
  <2>1. b # None => object[b].total \in BlockNumbers
    BY <1>3, BuilderFields
  <2>2. QED
    BY <2>1, SomeBlock
<1>5. \A u \in Uids : builders'[u] # None => u # u0 /\ builders'[u] = builders[u]
  BY <1>1, <1>2 DEF TypeOK
<1>6. UNCHANGED Uid(t)
  BY <1>1 DEF Uid
<1> HIDE DEF b, u0
<1>7. TypeOK'
  BY <1>1, <1>2 DEF TypeOK, Running
<1>8. RequestInv' /\ CreatorInv' /\ PointerInv' /\ NumberInv' /\ StreamInv'
  BY <1>1 DEF TypeOK, RequestInv, CreatorInv, PointerInv, NumberInv, StreamInv,
              Running, Holding, UsesBuilder, Builder, Uid
<1>9. TargetInv'
  BY <1>1, <1>3, <1>4 DEF TypeOK, TargetInv, Uid, u0
<1>10. MapNeverDangles'
  <2> SUFFICES ASSUME NEW u \in Uids, builders'[u] # None
               PROVE  /\ builders'[u] \notin freed
                      /\ object[builders'[u]] # None
                      /\ object[builders'[u]].uid = u
                      /\ \A s \in Tasks : pc'[s] = "clear" => target'[s] # builders'[u]
    BY <1>1 DEF MapNeverDangles
  <2>1. /\ u # u0 /\ builders'[u] = builders[u]
        /\ object[builders[u]].uid = u
    BY <1>5 DEF MapNeverDangles
  <2>2. \A s \in Tasks : pc'[s] = "clear" => target'[s] # builders[u]
    BY <1>1, <1>3, <2>1 DEF TypeOK, MapNeverDangles
  <2>3. QED
    BY <2>1, <2>2 DEF MapNeverDangles
<1>11. DestroyedOnce'
  <2>1. \A s \in Tasks : pc'[s] = "clear" =>
          \/ s = t /\ target'[s] = b /\ b # None
          \/ s # t /\ pc[s] = "clear" /\ target'[s] = target[s]
    BY <1>1 DEF TypeOK
  <2>2. QED
    BY <1>1, <1>3, <2>1 DEF DestroyedOnce
<1>12. NoLostCompletion'
  <2> SUFFICES ASSUME NEW u \in Uids, builders'[u] # None,
                      IsReady(object[builders'[u]])
               PROVE  \E s \in Tasks : ptr[s] = builders'[u] /\ pc'[s] \in Completing
    BY <1>1 DEF NoLostCompletion
  <2>1. u # u0 /\ builders'[u] = builders[u] /\ object[builders[u]].uid = u
    BY <1>5 DEF MapNeverDangles
  <2>2. PICK s \in Tasks : ptr[s] = builders[u] /\ pc[s] \in Completing
    BY <2>1 DEF NoLostCompletion
  <2>3. s # t
    BY <1>1, <2>1, <2>2 DEF PointerInv, Holding, u0
  <2>4. QED
    BY <1>1, <2>1, <2>2, <2>3 DEF TypeOK
<1>13. QED
  BY <1>7, <1>8, <1>9, <1>10, <1>11, <1>12

\* The destructor removes one part file and, after the last, frees memory
\* that neither the map nor another destructor refers to.
LEMMA ClearBlockStep ==
  ASSUME IInv, NEW t \in Tasks, ClearBlock(t)
  PROVE  IInv'
<1> USE DEF IInv
<1> DEFINE b == object[target[t]]
           part == PartName(b.uid, pos[t])
           last == pos[t] = b.total
<1>1. /\ pc[t] = "clear"
      /\ pc' = [pc EXCEPT ![t] = IF last THEN "notify" ELSE "clear"]
      /\ pos' = [pos EXCEPT ![t] = pos[t] + 1]
      /\ freed' = IF last THEN freed \cup {target[t]} ELSE freed
      /\ \/ /\ disk' = [disk EXCEPT ![part] = None]
            /\ fd' = [s \in Tasks |-> IF fd[s] = part THEN None ELSE fd[s]]
         \/ UNCHANGED <<disk, fd>>
      /\ UNCHANGED <<req, ptr, target, offset, builders, object, published, restarts>>
  BY DEF ClearBlock, Goto
<1>2. target[t] \in Tasks /\ b \in BuilderObjects /\ pos[t] \in 1 .. b.total
  BY <1>1 DEF TypeOK, TargetInv
<1>3. b.total \in Nat
  <2>1. b.total \in BlockNumbers
    BY <1>2, BuilderFields
  <2>2. QED
    BY <2>1, SomeBlock
<1>4. b # None
  BY <1>2, NoneIsNoBuilder
<1> HIDE DEF part
<1>5. TypeOK'
  <2>1. disk' \in [Files -> Content \cup {None}] /\ fd' \in [Tasks -> Files \cup {None}]
    BY <1>1 DEF TypeOK
  <2>2. freed' \in SUBSET Tasks /\ pos' \in [Tasks -> Nat]
    BY <1>1, <1>2 DEF TypeOK
  <2>3. QED
    BY <1>1, <2>1, <2>2 DEF TypeOK, Running
<1>6. RequestInv' /\ PointerInv' /\ NumberInv'
  BY <1>1 DEF TypeOK, RequestInv, PointerInv, NumberInv, Running, Holding,
              UsesBuilder, Builder, Uid
<1>7. CreatorInv'
  BY <1>1, <1>4 DEF TypeOK, CreatorInv
<1>8. TargetInv'
  BY <1>1, <1>2, <1>3 DEF TypeOK, TargetInv, Uid
<1>9. StreamInv'
  BY <1>1 DEF TypeOK, StreamInv
<1>10. MapNeverDangles' /\ DestroyedOnce'
  BY <1>1, <1>2 DEF TypeOK, MapNeverDangles, DestroyedOnce
<1>11. NoLostCompletion'
  BY <1>1, KeepsCompletion DEF Completing
<1>12. QED
  BY <1>5, <1>6, <1>7, <1>8, <1>9, <1>10, <1>11

\* Handing the video to the converter.
LEMMA NotifyStep ==
  ASSUME IInv, NEW t \in Tasks, Notify(t)
  PROVE  IInv'
<1> USE DEF IInv
<1>1. /\ pc[t] = "notify" /\ pc' = [pc EXCEPT ![t] = "ok"]
      /\ published' = Append(published, Uid(t))
      /\ UNCHANGED <<task, heap, fd, disk, restarts>>
  BY DEF Notify, Goto
<1>2. Uid(t) \in Uids
  BY <1>1 DEF RequestInv, Running, Uids, Uid
<1>3. published' \in Seq(Uids)
  BY <1>1, <1>2, AppendProperties DEF TypeOK
<1> USE DEF task, heap
<1>4. TypeOK'
  BY <1>1, <1>3 DEF TypeOK, Finished
<1>5. RequestInv' /\ CreatorInv' /\ PointerInv' /\ NumberInv' /\ TargetInv' /\ StreamInv'
  BY <1>1 DEF TypeOK, RequestInv, CreatorInv, PointerInv, NumberInv, TargetInv,
              StreamInv, Running, Holding, UsesBuilder, Builder, Uid
<1>6. MapNeverDangles' /\ DestroyedOnce'
  BY <1>1 DEF TypeOK, MapNeverDangles, DestroyedOnce
<1>7. NoLostCompletion'
  BY <1>1, KeepsCompletion DEF Completing
<1>8. QED
  BY <1>4, <1>5, <1>6, <1>7

\* A process that dies leaves no task running, no builder and no stream.
LEMMA ProcessDiesStep ==
  ASSUME IInv, ProcessDies, restarts' \in Nat
  PROVE  IInv'
<1> USE DEF IInv, ProcessDies
<1>1. \A t \in Tasks : pc'[t] = "idle" \/ pc'[t] \in Finished
  BY DEF TypeOK, Finished, Failure
<1>2. TypeOK'
  BY DEF TypeOK, Finished, Failure
<1>3. \A t \in Tasks : pc'[t] \notin Running \cup Holding \cup {"copy", "clear", "open", "write", "record"}
  BY <1>1 DEF Running, Holding, UsesBuilder, Finished, Failure
<1>4. RequestInv' /\ CreatorInv' /\ PointerInv' /\ NumberInv' /\ TargetInv' /\ StreamInv'
  BY <1>3 DEF RequestInv, CreatorInv, PointerInv, NumberInv, TargetInv, StreamInv
<1>5. MapNeverDangles' /\ DestroyedOnce' /\ NoLostCompletion'
  BY <1>3 DEF MapNeverDangles, DestroyedOnce, NoLostCompletion
<1>6. QED
  BY <1>2, <1>4, <1>5

-----------------------------------------------------------------------------
(* The theorems.                                                           *)

\* The invariant holds when the service starts.
LEMMA InitInv == Init => IInv
<1> SUFFICES ASSUME Init PROVE IInv
  OBVIOUS
<1>1. TypeOK
  BY DEF Init, TypeOK
<1>2. \A t \in Tasks : pc[t] = "idle"
  BY DEF Init
<1>3. RequestInv /\ CreatorInv /\ PointerInv /\ NumberInv /\ TargetInv /\ StreamInv
  BY <1>2 DEF Init, RequestInv, CreatorInv, PointerInv, NumberInv, TargetInv,
              StreamInv, Running, Holding, UsesBuilder
<1>4. MapNeverDangles /\ DestroyedOnce /\ NoLostCompletion
  BY <1>2 DEF Init, MapNeverDangles, DestroyedOnce, NoLostCompletion
<1>5. QED
  BY <1>1, <1>3, <1>4 DEF IInv

\* A stuttering step changes nothing the invariant speaks of.
LEMMA StutterStep ==
  ASSUME IInv, UNCHANGED vars
  PROVE  IInv'
<1> USE DEF IInv, vars, task, heap
<1>1. TypeOK'
  BY DEF TypeOK
<1>2. RequestInv' /\ CreatorInv' /\ PointerInv' /\ NumberInv' /\ TargetInv' /\ StreamInv'
  BY DEF RequestInv, CreatorInv, PointerInv, NumberInv, TargetInv, StreamInv,
         Builder, Uid
<1>3. MapNeverDangles' /\ DestroyedOnce' /\ NoLostCompletion'
  BY DEF MapNeverDangles, DestroyedOnce, NoLostCompletion
<1>4. QED
  BY <1>1, <1>2, <1>3

\* Every step preserves the invariant.
LEMMA NextInv == IInv /\ [Next]_vars => IInv'
<1> SUFFICES ASSUME IInv, [Next]_vars PROVE IInv'
  OBVIOUS
<1>1. ASSUME NEW t \in Tasks, NEW r \in Requests, HandleRequest(t, r) PROVE IInv'
  BY <1>1, HandleRequestStep
<1>2. ASSUME NEW t \in Tasks, Step(t) PROVE IInv'
  <2>1. CASE GetFileBuilder(t)
    BY <2>1, GetFileBuilderStep
  <2>2. CASE \/ GetFileBuilderFails(t) \/ Compare(t) \/ OpenPartFails(t)
             \/ Touch(t) \/ CheckReady(t)
    BY <2>2, PcOnlyStep
  <2>3. CASE OpenPart(t)
    BY <2>3, OpenPartStep
  <2>4. CASE WritePart(t) \/ WritePartFails(t)
    BY <2>4, WritePartStep
  <2>5. CASE UpdateBlockHash(t)
    BY <2>5, UpdateBlockHashStep
  <2>6. CASE OpenResult(t) \/ OpenResultFails(t)
    BY <2>6, OpenResultStep
  <2>7. CASE CopyBlock(t)
    BY <2>7, CopyBlockStep
  <2>8. CASE CopyBlockFails(t)
    BY <2>8, CopyBlockFailsStep
  <2>9. CASE DeleteFileBuilder(t)
    BY <2>9, DeleteFileBuilderStep
  <2>10. CASE ClearBlock(t)
    BY <2>10, ClearBlockStep
  <2>11. CASE Notify(t)
    BY <2>11, NotifyStep
  <2>12. CASE Abort(t)
    BY <2>12, ProcessDiesStep DEF Abort, IInv, TypeOK
  <2>13. QED
    BY <1>2, <2>1, <2>2, <2>3, <2>4, <2>5, <2>6, <2>7, <2>8, <2>9, <2>10,
       <2>11, <2>12 DEF Step
<1>3. CASE Crash
  <2>1. restarts' \in Nat
    BY <1>3 DEF Crash, IInv, TypeOK
  <2>2. QED
    BY <1>3, <2>1, ProcessDiesStep DEF Crash
<1>4. CASE UNCHANGED vars
  BY <1>4, StutterStep
<1>5. QED
  BY <1>1, <1>2, <1>3, <1>4 DEF Next

\* The invariant always holds, whatever the client does and whatever fails.
THEOREM Invariance == Spec => []IInv
  BY InitInv, NextInv, PTL DEF Spec

\* Every variable always has its type.
THEOREM TypeCorrect == Spec => []TypeOK
<1>1. IInv => TypeOK
  BY DEF IInv
<1>2. QED
  BY <1>1, Invariance, PTL

\* builders_ never refers to a builder that has been, or is being, destroyed.
THEOREM MapSafe == Spec => []MapNeverDangles
<1>1. IInv => MapNeverDangles
  BY DEF IInv
<1>2. QED
  BY <1>1, Invariance, PTL

\* No builder is destroyed twice, however many tasks finish one upload.
THEOREM NoDoubleFree == Spec => []DestroyedOnce
<1>1. IInv => DestroyedOnce
  BY DEF IInv
<1>2. QED
  BY <1>1, Invariance, PTL

\* The completion of an upload is never missed by all its tasks.
THEOREM CompletionSeen == Spec => []NoLostCompletion
<1>1. IInv => NoLostCompletion
  BY DEF IInv
<1>2. QED
  BY <1>1, Invariance, PTL


-----------------------------------------------------------------------------
(* A client that sends the blocks of an upload one after the other.        *)

\* A step of a task starts no other task, and lets no other task hold a
\* builder; only get_file_builder and delete_file_builder change builders_.
LEMMA StepFacts ==
  ASSUME TypeOK, NEW t \in Tasks, Step(t)
  PROVE  /\ req' = req
         /\ \A s \in Tasks : pc'[s] \in Running => pc[s] \in Running
         /\ \/ GetFileBuilder(t)
            \/ DeleteFileBuilder(t)
            \/ /\ \A s \in Tasks : pc'[s] \in Holding => pc[s] \in Holding
               /\ UNCHANGED <<builders, ptr>>
            \/ \A s \in Tasks : pc'[s] \notin Holding
<1> USE DEF Goto, task, heap, TypeOK, Running, Holding, UsesBuilder
<1>1. CASE GetFileBuilder(t)
  BY <1>1 DEF GetFileBuilder
<1>2. CASE GetFileBuilderFails(t) \/ Compare(t) \/ OpenPart(t) \/ OpenPartFails(t)
  BY <1>2 DEF GetFileBuilderFails, Compare, OpenPart, OpenPartFails
<1>3. CASE WritePart(t) \/ WritePartFails(t) \/ UpdateBlockHash(t) \/ Touch(t)
  BY <1>3 DEF WritePart, WritePartFails, UpdateBlockHash, Touch
<1>4. CASE CheckReady(t) \/ OpenResult(t) \/ OpenResultFails(t)
  BY <1>4 DEF CheckReady, OpenResult, OpenResultFails
<1>5. CASE CopyBlock(t)
  BY <1>5 DEF CopyBlock
<1>6. CASE CopyBlockFails(t) \/ Notify(t)
  BY <1>6 DEF CopyBlockFails, Notify
<1>7. CASE DeleteFileBuilder(t)
  BY <1>7 DEF DeleteFileBuilder
<1>8. CASE ClearBlock(t)
  BY <1>8 DEF ClearBlock
<1>9. CASE Abort(t)
  <2>1. ProcessDies
    BY <1>9 DEF Abort
  <2>2. \A s \in Tasks : pc'[s] \notin Running
    BY <2>1 DEF ProcessDies
  <2>3. QED
    BY <2>1, <2>2 DEF ProcessDies
<1>10. QED
  BY <1>1, <1>2, <1>3, <1>4, <1>5, <1>6, <1>7, <1>8, <1>9 DEF Step

\* A client that waits for its answer keeps one request of an upload in flight.
LEMMA OneAtATimeKept ==
  ASSUME ~Overlap, TypeOK, OneAtATime, [Next]_vars
  PROVE  OneAtATime'
<1>1. ASSUME NEW t \in Tasks, NEW r \in Requests, HandleRequest(t, r)
      PROVE  OneAtATime'
  <2>1. /\ \A s \in Tasks : pc[s] \in Running => Uid(s) # r.uid
        /\ req' = [req EXCEPT ![t] = r]
        /\ \A s \in Tasks : s # t => pc'[s] = pc[s]
    BY <1>1 DEF HandleRequest, MayPost, Goto, TypeOK
  <2>2. QED
    BY <2>1 DEF OneAtATime, Uid, TypeOK
<1>2. ASSUME NEW t \in Tasks, Step(t)
      PROVE  OneAtATime'
  BY <1>2, StepFacts DEF OneAtATime, Uid
<1>3. CASE Crash
  BY <1>3 DEF Crash, ProcessDies, OneAtATime, Running
<1>4. CASE UNCHANGED vars
  BY <1>4 DEF vars, task, OneAtATime, Uid
<1>5. QED
  BY <1>1, <1>2, <1>3, <1>4 DEF Next

\* No other task can take the builder a task holds out of the map.
LEMMA HoldsTheMapsBuilderKept ==
  ASSUME TypeOK, RequestInv, OneAtATime, HoldsTheMapsBuilder, [Next]_vars
  PROVE  HoldsTheMapsBuilder'
<1> USE DEF HoldsTheMapsBuilder
<1>1. ASSUME NEW t \in Tasks, NEW r \in Requests, HandleRequest(t, r)
      PROVE  HoldsTheMapsBuilder'
  BY <1>1 DEF HandleRequest, Goto, heap, TypeOK, Holding, UsesBuilder, Uid
<1>2. ASSUME NEW t \in Tasks, GetFileBuilder(t) \/ DeleteFileBuilder(t)
      PROVE  HoldsTheMapsBuilder'
  <2>1. pc[t] \in {"get", "erase"} /\ Uid(t) \in Uids /\ req' = req
    BY <1>2 DEF GetFileBuilder, DeleteFileBuilder, Goto, RequestInv, Running,
                Uids, Uid
  <2>2. \A s \in Tasks : s # t =>
          /\ pc'[s] = pc[s] /\ ptr'[s] = ptr[s]
          /\ pc[s] \in Holding => Uid(s) # Uid(t)
    BY <1>2, <2>1 DEF GetFileBuilder, DeleteFileBuilder, Goto, TypeOK, OneAtATime,
                      Holding, UsesBuilder, Running
  <2>3. \A u \in Uids : u # Uid(t) => builders'[u] = builders[u]
    BY <1>2, <2>1 DEF GetFileBuilder, DeleteFileBuilder, TypeOK
  <2>4. pc'[t] \in Holding => ptr'[t] = builders'[Uid(t)]
    BY <1>2, <2>1 DEF GetFileBuilder, DeleteFileBuilder, Goto, TypeOK, Holding,
                      UsesBuilder
  <2>5. \A s \in Tasks : pc[s] \in Holding => Uid(s) \in Uids
    BY DEF RequestInv, Holding, UsesBuilder, Running, Uids, Uid
  <2>6. QED
    BY <2>1, <2>2, <2>3, <2>4, <2>5 DEF Uid
<1>3. ASSUME NEW t \in Tasks, Step(t)
      PROVE  HoldsTheMapsBuilder'
  BY <1>2, <1>3, StepFacts DEF Uid
<1>4. CASE Crash
  BY <1>4 DEF Crash, ProcessDies, Holding, UsesBuilder, Running
<1>5. CASE UNCHANGED vars
  BY <1>5 DEF vars, task, heap, Uid
<1>6. QED
  BY <1>1, <1>3, <1>4, <1>5 DEF Next

\* The invariant of serial uploads: a task that has a builder has the one the
\* map refers to.
THEOREM SerialInvariance ==
  ASSUME ~Overlap
  PROVE  Spec => []SerialInv
<1>1. Init => SerialInv
  BY InitInv DEF Init, SerialInv, OneAtATime, HoldsTheMapsBuilder, Running,
                 Holding, UsesBuilder
<1>2. SerialInv /\ [Next]_vars => SerialInv'
  BY NextInv, OneAtATimeKept, HoldsTheMapsBuilderKept DEF SerialInv, IInv
<1>3. QED
  BY <1>1, <1>2, PTL DEF Spec

\* When the blocks of an upload are posted one after the other, no task uses
\* a builder that another has destroyed.  (With parallel posts one may, in the
\* race that the run "parallel_result" shows.)
THEOREM SerialUploadsAreSafe ==
  ASSUME ~Overlap
  PROVE  Spec => []NoUseAfterFree
<1>1. SerialInv => NoUseAfterFree
  <2> SUFFICES ASSUME SerialInv, NEW t \in Tasks, pc[t] \in UsesBuilder
               PROVE  ptr[t] \notin freed
    BY DEF NoUseAfterFree
  <2>1. pc[t] \in Holding /\ pc[t] \in Running
    BY DEF Holding, UsesBuilder, Running
  <2>2. Uid(t) \in Uids /\ ptr[t] \in Tasks /\ ptr[t] = builders[Uid(t)]
    BY <2>1 DEF SerialInv, IInv, RequestInv, PointerInv, HoldsTheMapsBuilder,
                Uids, Uid
  <2>3. QED
    BY <2>2, UploadAssumption DEF SerialInv, IInv, MapNeverDangles
<1>2. QED
  BY <1>1, SerialInvariance, PTL

-----------------------------------------------------------------------------
(* Names and files.                                                        *)

\* The block numbers are an interval.
LEMMA BlockRange ==
  ASSUME NEW n
  PROVE  n \in BlockNumbers <=> n \in Int /\ 1 <= n /\ n <= 9999
<1>1. ASSUME n \in 1 .. 9999
      PROVE  n \in Int /\ 1 <= n /\ n <= 9999
  BY <1>1, SMTT(30)
<1>2. ASSUME n \in Int, 1 <= n, n <= 9999
      PROVE  n \in 1 .. 9999
  BY <1>2, SMTT(30)
<1>3. QED
  BY <1>1, <1>2 DEF BlockNumbers

\* The numbers up to a block number are block numbers.
LEMMA BlockUpTo ==
  ASSUME NEW n \in {0} \cup BlockNumbers, NEW i \in {0} \cup BlockNumbers
  PROVE  /\ 1 .. n \subseteq BlockNumbers
         /\ i # 0 /\ i <= n => i \in 1 .. n
<1>1. \A k \in {0} \cup BlockNumbers : k = 0 \/ (k \in Int /\ 1 <= k /\ k <= 9999)
  BY BlockRange
<1>2. ASSUME NEW j \in 1 .. n
      PROVE  j \in Int /\ 1 <= j /\ j <= 9999
  BY <1>1, SMT
<1>3. QED
  BY <1>1, <1>2, BlockRange

IsPart(u, i) == \E r \in Requests : r.uid = u /\ i \in 1 .. r.total

\* The part files of all uploads are different files, none of them a result.
LEMMA FilesApart ==
  ASSUME ProperRequests, NEW u, NEW i, IsPart(u, i)
  PROVE  /\ PartName(u, i) \in Files
         /\ \A v \in Uids : PartName(u, i) # ResultName(v)
         /\ \A v, j : IsPart(v, j) /\ PartName(u, i) = PartName(v, j) =>
              u = v /\ i = j
<1>1. PICK q \in Requests : q.uid = u /\ i \in 1 .. q.total
  BY DEF IsPart
<1>2. \A r \in Requests : /\ r.uid \in VideoIds
                          /\ \A j \in 1 .. r.total : j \in BlockNumbers
  <2> SUFFICES ASSUME NEW r \in Requests, NEW j \in 1 .. r.total
               PROVE  r.uid \in VideoIds /\ j \in BlockNumbers
    BY UploadAssumption
  <2>1. r.uid \in VideoIds /\ r.total \in {0} \cup BlockNumbers
    BY UploadAssumption
  <2>2. QED
    BY <2>1, BlockUpTo
<1>3. PartName(u, i) \in Files
  BY <1>1 DEF Files
<1>4. ASSUME NEW v \in Uids
      PROVE  PartName(u, i) # ResultName(v)
  <2>1. PICK r \in Requests : r.uid = v
    BY DEF Uids
  <2>2. CASE u = v
    BY <1>1, <1>2, <2>2, ResultIsNotAPart
  <2>3. CASE u # v
    BY <1>1, <2>1, <2>3 DEF ProperRequests
  <2>4. QED
    BY <2>2, <2>3
<1>5. ASSUME NEW v, NEW j, IsPart(v, j), PartName(u, i) = PartName(v, j)
      PROVE  u = v /\ i = j
  <2>1. PICK r \in Requests : r.uid = v /\ j \in 1 .. r.total
    BY <1>5 DEF IsPart
  <2>2. u = v
    BY <1>1, <1>5, <2>1 DEF ProperRequests
  <2>3. QED
    BY <1>1, <1>2, <1>5, <2>1, <2>2, PartNamesInjective
<1>6. QED
  BY <1>3, <1>4, <1>5

\* None is not the name of a file.
LEMMA NoneIsNoFile == None \notin Files
<1> SUFFICES ASSUME NEW f \in Files PROVE f \in FileNames
  BY BlocksAssumption
<1>1. CASE \E u \in Uids : f = ResultName(u)
  BY <1>1, UploadAssumption DEF Uids, ResultName, VideoIds, FileNames
<1>2. CASE \E r \in Requests : \E i \in 1 .. r.total : f = PartName(r.uid, i)
  <2>1. PICK r \in Requests : \E i \in 1 .. r.total : f = PartName(r.uid, i)
    BY <1>2
  <2>2. PICK i \in 1 .. r.total : f = PartName(r.uid, i)
    BY <2>1
  <2>3. r.uid \in VideoIds /\ r.total \in {0} \cup BlockNumbers
    BY UploadAssumption
  <2>4. i \in BlockNumbers
    BY <2>3, BlockUpTo
  <2>5. QED
    BY <2>2, <2>3, <2>4, NameTypes
<1>3. QED
  BY <1>1, <1>2 DEF Files

\* A task between get_file_builder and delete_file_builder has a builder of its
\* upload, with all its blocks.
LEMMA PointedBuilder ==
  ASSUME ProperRequests, IInv, TotalsInv, NEW t \in Tasks, pc[t] \in Holding
  PROVE  /\ pc[t] \in Running /\ req[t] \in Requests /\ Uid(t) \in Uids
         /\ req[t].total # 0 /\ req[t].idx # 0
         /\ ptr[t] \in Tasks
         /\ Builder(t) \in BuilderObjects /\ Builder(t) # None
         /\ Builder(t).uid = Uid(t) /\ Builder(t).total = req[t].total
         /\ req[t].idx \in 1 .. Builder(t).total /\ req[t].data \in Blocks
         /\ \A i \in 1 .. Builder(t).total : IsPart(Uid(t), i)
<1>1. /\ pc[t] \in Running /\ req[t] \in Requests
      /\ req[t].total # 0 /\ req[t].idx # 0
  BY DEF Holding, UsesBuilder, Running, IInv, RequestInv
<1>2. Uid(t) \in Uids
  BY <1>1 DEF Uid, Uids
<1>3. ptr[t] \in Tasks /\ Builder(t) # None /\ Builder(t).uid = Uid(t)
  BY DEF IInv, PointerInv, Builder
<1>4. Builder(t) \in BuilderObjects
  BY <1>3 DEF IInv, TypeOK, Builder
<1>5. Builder(t).total = req[t].total
  BY <1>1, <1>3 DEF TotalsInv, Builder, Uid
<1>6. req[t].idx \in 1 .. Builder(t).total /\ req[t].data \in Blocks
  <2>1. /\ req[t].idx \in {0} \cup BlockNumbers /\ req[t].idx <= req[t].total
        /\ req[t].total \in {0} \cup BlockNumbers /\ req[t].data \in Blocks
    BY <1>1, UploadAssumption DEF ProperRequests
  <2>2. req[t].idx \in 1 .. req[t].total
    BY <1>1, <2>1, BlockUpTo
  <2>3. QED
    BY <1>5, <2>1, <2>2
<1>7. \A i \in 1 .. Builder(t).total : IsPart(Uid(t), i)
  BY <1>1, <1>5 DEF IsPart, Uid
<1>8. QED
  BY <1>1, <1>2, <1>3, <1>4, <1>5, <1>6, <1>7

\* The first write to an empty file.
LEMMA WriteFirst ==
  ASSUME NEW d
  PROVE  WriteAt(<<>>, 0, <<d>>) = <<d>>
<1>1. Len(<<>>) = 0 /\ Len(<<d>>) = 1 /\ <<d>>[1] = d
  OBVIOUS
<1>2. WriteAt(<<>>, 0, <<d>>) = [k \in 1 .. 1 |-> d]
  BY <1>1 DEF WriteAt
<1>3. QED
  BY <1>2

\* What a step of a task that is not aborted does to the tasks.
LEMMA TaskMoves ==
  ASSUME TypeOK, NEW t \in Tasks, Step(t), ~Abort(t)
  PROVE  /\ req' = req /\ pc[t] \in Running
         /\ \A s \in Tasks : s # t =>
              pc'[s] = pc[s] /\ ptr'[s] = ptr[s] /\ target'[s] = target[s]
         /\ ptr'[t] = ptr[t] \/ pc[t] = "get"
         /\ target'[t] = target[t] \/ pc[t] = "erase"
         /\ pc[t] \in {"touch", "check", "build", "copy", "erase", "clear", "notify"}
              => pc'[t] \in Recorded \cup {"broken"}
         /\ pc'[t] \in {"build", "copy", "erase", "clear"} =>
              \/ pc[t] = pc'[t]
              \/ CheckReady(t) /\ pc'[t] = "build" /\ IsReady(Builder(t))
              \/ pc[t] = "build" /\ pc'[t] = "copy"
              \/ pc[t] = "copy" /\ pc'[t] = "erase"
              \/ DeleteFileBuilder(t) /\ pc'[t] = "clear"
         /\ pc[t] = "open" => pc'[t] \in {"write", "failed"}
         /\ pc[t] = "write" => pc'[t] = "record"
<1> USE DEF Goto, task, heap, TypeOK, Running, Recorded
<1>1. CASE GetFileBuilder(t) \/ GetFileBuilderFails(t) \/ Compare(t)
  BY <1>1 DEF GetFileBuilder, GetFileBuilderFails, Compare
<1>2. CASE \/ OpenPart(t) \/ OpenPartFails(t) \/ WritePart(t) \/ WritePartFails(t)
           \/ UpdateBlockHash(t)
  BY <1>2 DEF OpenPart, OpenPartFails, WritePart, WritePartFails, UpdateBlockHash
<1>3. CASE Touch(t)
  BY <1>3 DEF Touch
<1>4. CASE CheckReady(t)
  BY <1>4 DEF CheckReady
<1>5. CASE OpenResult(t) \/ OpenResultFails(t)
  BY <1>5 DEF OpenResult, OpenResultFails
<1>6. CASE CopyBlock(t)
  BY <1>6 DEF CopyBlock
<1>7. CASE CopyBlockFails(t)
  BY <1>7 DEF CopyBlockFails
<1>8. CASE DeleteFileBuilder(t)
  BY <1>8 DEF DeleteFileBuilder
<1>9. CASE ClearBlock(t)
  BY <1>9 DEF ClearBlock
<1>10. CASE Notify(t)
  BY <1>10 DEF Notify
<1>11. QED
  BY <1>1, <1>2, <1>3, <1>4, <1>5, <1>6, <1>7, <1>8, <1>9, <1>10 DEF Step

\* What it does to the builders: a new one has no digest, and the others keep
\* theirs, up to a digest that the task records.
LEMMA BuilderMoves ==
  ASSUME IInv, NEW t \in Tasks, Step(t), ~Abort(t), NEW x \in Tasks,
         object'[x] # None
  PROVE  \/ /\ pc[t] = "get" /\ x = t /\ object[x] = None /\ ptr'[t] = t
            /\ object'[x].uid = Uid(t) /\ object'[x].total = req[t].total
            /\ \A i \in 1 .. req[t].total : object'[x].hash[i] = None
         \/ /\ object[x] # None
            /\ object'[x].uid = object[x].uid /\ object'[x].total = object[x].total
            /\ \A i \in 1 .. object[x].total :
                 \/ object'[x].hash[i] = object[x].hash[i]
                 \/ /\ UpdateBlockHash(t) /\ ptr[t] = x /\ req[t].idx = i
                    /\ object'[x].hash[i] = req[t].data
<1> USE DEF IInv, TypeOK
<1>1. CASE GetFileBuilder(t)
  <2>1. pc[t] = "get" /\ object[t] = None
    BY <1>1 DEF GetFileBuilder, Goto, CreatorInv
  <2>2. CASE x = t
    <3>1. /\ object'[t] = NewBuilder(Uid(t), req[t].total) /\ ptr'[t] = t
      BY <1>1, <2>1, <2>2 DEF GetFileBuilder
    <3>2. QED
      BY <2>1, <2>2, <3>1 DEF NewBuilder
  <2>3. CASE x # t
    <3>1. object'[x] = object[x]
      BY <1>1, <2>3 DEF GetFileBuilder
    <3>2. QED
      BY <3>1
  <2>4. QED
    BY <2>2, <2>3
<1>2. CASE UpdateBlockHash(t)
  <2> DEFINE o == ptr[t]
             k == req[t].idx
             d == req[t].data
  <2>1. pc[t] = "record" /\ o \in Tasks /\ object[o] # None
    BY <1>2 DEF UpdateBlockHash, Goto, PointerInv, Holding, UsesBuilder
  <2>2. object[o] \in BuilderObjects
    BY <2>1
  <2>3. object' = [object EXCEPT ![o] = [object[o] EXCEPT !.hash[k] = d]]
    BY <1>2 DEF UpdateBlockHash
  <2>4. CASE x # o
    <3>1. object'[x] = object[x]
      BY <2>3, <2>4
    <3>2. QED
      BY <3>1
  <2>5. CASE x = o
    <3>1. /\ object[o] = [uid |-> object[o].uid, total |-> object[o].total,
                           hash |-> object[o].hash]
          /\ object[o].hash \in [1 .. object[o].total -> Blocks \cup {None}]
      BY <2>2, BuilderFields
    <3>2. object'[o] = [object[o] EXCEPT !.hash[k] = d]
      BY <2>1, <2>3
    <3>3. /\ object'[o].uid = object[o].uid /\ object'[o].total = object[o].total
          /\ object'[o].hash = [object[o].hash EXCEPT ![k] = d]
      BY <3>1, <3>2
    <3>4. \A i \in 1 .. object[o].total :
            \/ object'[o].hash[i] = object[o].hash[i]
            \/ k = i /\ object'[o].hash[i] = d
      BY <3>1, <3>3
    <3>5. QED
      BY <1>2, <2>1, <2>5, <3>3, <3>4
  <2>6. QED
    BY <2>4, <2>5
<1>3. CASE ~(GetFileBuilder(t) \/ UpdateBlockHash(t))
  <2>1. object' = object
    BY <1>3 DEF Step, GetFileBuilderFails, Compare, OpenPart, OpenPartFails,
         WritePart, WritePartFails, Touch, CheckReady, OpenResult,
         OpenResultFails, CopyBlock, CopyBlockFails, DeleteFileBuilder,
         ClearBlock, Notify, heap
  <2>2. QED
    BY <2>1
<1>4. QED
  BY <1>1, <1>2, <1>3

\* The map refers to a builder from its creation until it is given up.
LEMMA EntryKept ==
  ASSUME IInv, NEW t \in Tasks, Step(t), ~Abort(t), NEW v \in Uids,
         NEW x \in Tasks, builders'[v] = x, object[x] # None
  PROVE  builders[v] = x
<1> USE DEF IInv, TypeOK
<1>1. CASE GetFileBuilder(t)
  <2>1. object[t] = None
    BY <1>1 DEF GetFileBuilder, Goto, CreatorInv
  <2>2. QED
    BY <1>1, <2>1 DEF GetFileBuilder
<1>2. CASE DeleteFileBuilder(t)
  BY <1>2, UploadAssumption DEF DeleteFileBuilder
<1>3. CASE ~GetFileBuilder(t) /\ ~DeleteFileBuilder(t)
  BY <1>3 DEF Step, GetFileBuilderFails, Compare, OpenPart, OpenPartFails,
     WritePart, WritePartFails, UpdateBlockHash, Touch, CheckReady, OpenResult,
     OpenResultFails, CopyBlock, CopyBlockFails, ClearBlock, Notify, heap
<1>4. QED
  BY <1>1, <1>2, <1>3

\* The naming half of what is asked of a client is no demand on the client but
\* on the ids: uploads whose ids have the same number of digits meet it.
THEOREM SameWidthClient ==
  ASSUME NEW lo \in VideoIds, Uids \subseteq lo .. 10 * lo - 1,
         \A q, r \in Requests :
           /\ r.total # 0 => r.idx <= r.total
           /\ q.uid = r.uid /\ q.total # 0 /\ r.total # 0 => q.total = r.total
  PROVE  ProperRequests
<1>1. ASSUME NEW q \in Requests, NEW r \in Requests, q.uid # r.uid,
             NEW i \in 1 .. q.total
      PROVE  /\ PartName(q.uid, i) # ResultName(r.uid)
             /\ \A j \in 1 .. r.total : PartName(q.uid, i) # PartName(r.uid, j)
  <2>1. q.uid \in lo .. 10 * lo - 1 /\ r.uid \in lo .. 10 * lo - 1
    BY DEF Uids
  <2>2. ASSUME NEW p \in Requests, NEW j \in 1 .. p.total
        PROVE  j \in BlockNumbers
    <3>1. p.total \in {0} \cup BlockNumbers /\ 0 \in {0} \cup BlockNumbers
      BY UploadAssumption
    <3>2. QED
      BY <3>1, BlockUpTo
  <2>3. QED
    BY <1>1, <2>1, <2>2, SameWidthNamesApart
<1>2. QED
  BY <1>1 DEF ProperRequests

-----------------------------------------------------------------------------
(* The numbers of blocks.                                                  *)

\* All builders of an upload have as many blocks as its requests say.
LEMMA TotalsNext ==
  ASSUME ProperRequests, IInv, TotalsInv, [Next]_vars
  PROVE  TotalsInv'
<1>1. ASSUME NEW t \in Tasks, Step(t), ~Abort(t)
      PROVE  TotalsInv'
  <2> SUFFICES ASSUME NEW x \in Tasks, object'[x] # None, NEW r \in Requests,
                      r.uid = object'[x].uid, r.total # 0
               PROVE  object'[x].total = r.total
    BY DEF TotalsInv
  <2>1. CASE /\ pc[t] = "get" /\ x = t
             /\ object'[x].uid = Uid(t) /\ object'[x].total = req[t].total
    <3>1. req[t] \in Requests /\ req[t].total # 0
      BY <2>1 DEF IInv, RequestInv, Running
    <3>2. QED
      BY <2>1, <3>1 DEF ProperRequests, Uid
  <2>2. CASE /\ object[x] # None
             /\ object'[x].uid = object[x].uid /\ object'[x].total = object[x].total
    BY <2>2 DEF TotalsInv
  <2>3. QED
    BY <1>1, <2>1, <2>2, BuilderMoves
<1>2. ASSUME NEW t \in Tasks, Abort(t)
      PROVE  TotalsInv'
  BY <1>2 DEF Abort, ProcessDies, TotalsInv
<1>3. CASE Crash
  BY <1>3 DEF Crash, ProcessDies, TotalsInv
<1>4. CASE UNCHANGED vars \/ \E t \in Tasks, r \in Requests : HandleRequest(t, r)
  <2>1. object' = object
    BY <1>4 DEF vars, heap, HandleRequest
  <2>2. QED
    BY <2>1 DEF TotalsInv
<1>5. QED
  BY <1>1, <1>2, <1>3, <1>4 DEF Next

\* No block number reaches the assertions of FileBuilder, however the requests
\* interleave and fail, when the client numbers its blocks properly.
THEOREM NumbersInRange ==
  ASSUME ProperRequests
  PROVE  Spec => []IndexInRange
<1> DEFINE Inv == IInv /\ TotalsInv
<1>1. Init => Inv
  BY InitInv DEF Init, TotalsInv
<1>2. Inv /\ [Next]_vars => Inv'
  BY NextInv, TotalsNext
<1>3. Inv => IndexInRange
  <2> SUFFICES ASSUME Inv, NEW t \in Tasks, pc[t] \in {"compare", "record"}
               PROVE  req[t].idx \in 1 .. Builder(t).total
    BY DEF IndexInRange
  <2>1. pc[t] \in Holding
    BY DEF Holding, UsesBuilder
  <2>2. QED
    BY <2>1, PointedBuilder
<1>4. QED
  BY <1>1, <1>2, <1>3, PTL DEF Spec

-----------------------------------------------------------------------------
(* A client that posts every block once, as many at a time as it likes.    *)

\* A request is served by one task...
LEMMA OneTaskPerBlock ==
  ASSUME PostsOnce, NoRepeatInv, NEW s \in Tasks, NEW t \in Tasks,
         req[s] \in Requests, req[t] \in Requests,
         Accepted(req[s]), Accepted(req[t]),
         Uid(s) = Uid(t), req[s].idx = req[t].idx
  PROVE  s = t
<1>1. req[s] = req[t]
  BY DEF PostsOnce, Uid
<1>2. req[s] # None /\ Resend # "failed"
  BY UploadAssumption DEF PostsOnce
<1>3. QED
  BY <1>1, <1>2 DEF NoRepeatInv

\* ...so that a complete builder has taken in every task of its upload...
LEMMA AllRecorded ==
  ASSUME PostsOnce, ProperRequests, OnceInv,
         NEW x \in Tasks, object[x] # None, IsReady(object[x]),
         NEW s \in Tasks, req[s] \in Requests, Accepted(req[s]),
         Uid(s) = object[x].uid
  PROVE  ptr[s] = x /\ pc[s] \in Recorded \cup {"broken"}
<1> DEFINE i == req[s].idx
<1>1. object[x].total = req[s].total
  BY DEF OnceInv, TotalsInv, Accepted, Uid
<1>2. i \in 1 .. object[x].total
  <2>1. /\ i \in {0} \cup BlockNumbers /\ req[s].total \in {0} \cup BlockNumbers
        /\ i # 0 /\ i <= req[s].total
    BY UploadAssumption DEF ProperRequests, Accepted
  <2>2. QED
    BY <1>1, <2>1, BlockUpTo
<1>3. object[x].hash[i] # None
  BY <1>2 DEF IsReady
<1>4. PICK q \in Tasks : /\ ptr[q] = x /\ pc[q] \in Recorded \cup {"broken"}
                         /\ req[q] \in Requests /\ Accepted(req[q])
                         /\ Uid(q) = object[x].uid /\ req[q].idx = i
  BY <1>2, <1>3 DEF OnceInv, RecorderInv
<1>5. q = s
  BY <1>4, OneTaskPerBlock DEF OnceInv
<1>6. QED
  BY <1>4, <1>5

\* ...and its upload has no other builder, then or later.
LEMMA OneCompleteBuilder ==
  ASSUME PostsOnce, ProperRequests, OnceInv,
         NEW x \in Tasks, object[x] # None, IsReady(object[x]),
         NEW y \in Tasks, object[y] # None, object[y].uid = object[x].uid
  PROVE  x = y
<1>1. ptr[y] = y /\ req[y] \in Requests /\ Accepted(req[y]) /\ object[y].uid = Uid(y)
  BY DEF OnceInv, OwnerInv
<1>2. ptr[y] = x
  BY <1>1, AllRecorded
<1>3. QED
  BY <1>1, <1>2

\* A builder that is complete stays so.
LEMMA ReadyKept ==
  ASSUME IInv, NEW t \in Tasks, Step(t), ~Abort(t),
         NEW x \in Tasks, object[x] # None, IsReady(object[x]), object'[x] # None
  PROVE  IsReady(object'[x])
<1>1. /\ object'[x].total = object[x].total
      /\ \A i \in 1 .. object[x].total :
           \/ object'[x].hash[i] = object[x].hash[i]
           \/ UpdateBlockHash(t) /\ object'[x].hash[i] = req[t].data
  BY BuilderMoves
<1>2. UpdateBlockHash(t) => req[t].data # None
  <2>1. UpdateBlockHash(t) => req[t] \in Requests
    BY DEF UpdateBlockHash, Goto, IInv, RequestInv, Running
  <2>2. QED
    BY <2>1, UploadAssumption, BlocksAssumption
<1>3. QED
  BY <1>1, <1>2 DEF IsReady

\* No builder vanishes but with the process.
LEMMA ObjectsStay ==
  ASSUME IInv, NEW t \in Tasks, Step(t), ~Abort(t),
         NEW x \in Tasks, object[x] # None
  PROVE  object'[x] # None
<1> USE DEF IInv, TypeOK
<1>1. CASE GetFileBuilder(t)
  <2>1. object[t] = None
    BY <1>1 DEF GetFileBuilder, Goto, CreatorInv
  <2>2. QED
    BY <1>1, <2>1 DEF GetFileBuilder
<1>2. CASE UpdateBlockHash(t)
  <2>1. ptr[t] \in Tasks /\ object[ptr[t]] \in BuilderObjects /\ req[t] \in Requests
    BY <1>2 DEF UpdateBlockHash, Goto, PointerInv, RequestInv, Holding,
                UsesBuilder, Running
  <2>2. [object[ptr[t]] EXCEPT !.hash[req[t].idx] = req[t].data] \in BuilderObjects
    BY <2>1, UploadAssumption, RecordDigest
  <2>3. object' = [object EXCEPT ![ptr[t]] =
                     [object[ptr[t]] EXCEPT !.hash[req[t].idx] = req[t].data]]
    BY <1>2 DEF UpdateBlockHash
  <2>4. QED
    BY <2>1, <2>2, <2>3, NoneIsNoBuilder
<1>3. CASE ~(GetFileBuilder(t) \/ UpdateBlockHash(t))
  BY <1>3 DEF Step, GetFileBuilderFails, Compare, OpenPart, OpenPartFails,
       WritePart, WritePartFails, Touch, CheckReady, OpenResult,
       OpenResultFails, CopyBlock, CopyBlockFails, DeleteFileBuilder,
       ClearBlock, Notify, heap
<1>4. QED
  BY <1>1, <1>2, <1>3

\* A step of a task writes to the part it posts, writes to the result of its
\* upload or removes a part of it, and leaves every other file alone.
Touches(t, f) ==
  \/ pc[t] \in {"open", "write"} /\ f = PartName(Uid(t), req[t].idx)
  \/ pc[t] \in {"build", "copy"} /\ f = ResultName(Uid(t))
  \/ pc[t] = "clear" /\ f = PartName(Uid(t), pos[t])

LEMMA FilesTouched ==
  ASSUME IInv, NEW t \in Tasks, PartInv(t), Step(t), ~Abort(t),
         pc[t] = "copy" => fd[t] \in {None, ResultName(Uid(t))}
  PROVE  /\ \A f \in Files : ~Touches(t, f) => disk'[f] = disk[f]
         /\ \A s \in Tasks : s # t /\ fd[s] # None /\ ~Touches(t, fd[s]) =>
              fd'[s] = fd[s]
<1> USE DEF IInv, TypeOK, Goto
<1>1. CASE OpenPart(t)
  <2>1. pc[t] = "open" /\ Part(t) = PartName(Uid(t), req[t].idx)
    BY <1>1 DEF OpenPart, PointerInv, Holding, UsesBuilder, Part, Builder
  <2>2. QED
    BY <1>1, <2>1 DEF OpenPart, Open, Touches
<1>2. CASE WritePart(t)
  <2>1. pc[t] = "write" /\ fd[t] = PartName(Uid(t), req[t].idx)
    BY <1>2 DEF WritePart, PointerInv, Holding, Part, Builder, PartInv
  <2>2. QED
    BY <1>2, <2>1 DEF WritePart, Write, Close, Touches
<1>3. CASE OpenResult(t)
  <2>1. pc[t] = "build" /\ Builder(t).uid = Uid(t)
    BY <1>3 DEF OpenResult, PointerInv, Holding, UsesBuilder, Builder
  <2>2. QED
    BY <1>3, <2>1 DEF OpenResult, Open, Touches
<1>4. CASE CopyBlock(t)
  <2>1. pc[t] = "copy" /\ fd[t] \in {None, ResultName(Uid(t))}
    BY <1>4 DEF CopyBlock
  <2>2. \A f \in Files : ~Touches(t, f) => disk'[f] = disk[f]
    BY <1>4, <2>1 DEF CopyBlock, Write, Touches
  <2>3. QED
    BY <1>4, <2>2 DEF CopyBlock
<1>5. CASE ClearBlock(t)
  <2>1. pc[t] = "clear" /\ object[target[t]].uid = Uid(t)
    BY <1>5 DEF ClearBlock, TargetInv
  <2> DEFINE part == PartName(Uid(t), pos[t])
  <2>2. \/ /\ disk' = [disk EXCEPT ![part] = None]
           /\ fd' = [s \in Tasks |-> IF fd[s] = part THEN None ELSE fd[s]]
        \/ UNCHANGED <<disk, fd>>
    BY <1>5, <2>1 DEF ClearBlock
  <2>3. \A f : ~Touches(t, f) => f # part
    BY <2>1 DEF Touches
  <2> HIDE DEF part
  <2>4. QED
    BY <2>2, <2>3
<1>6. CASE \/ GetFileBuilder(t) \/ GetFileBuilderFails(t) \/ Compare(t)
           \/ OpenPartFails(t) \/ UpdateBlockHash(t) \/ Touch(t)
           \/ CheckReady(t) \/ OpenResultFails(t) \/ DeleteFileBuilder(t)
           \/ Notify(t)
  BY <1>6 DEF GetFileBuilder, GetFileBuilderFails, Compare, OpenPartFails,
     UpdateBlockHash, Touch, CheckReady, OpenResultFails, DeleteFileBuilder, Notify
<1>7. CASE WritePartFails(t) \/ CopyBlockFails(t)
  BY <1>7 DEF WritePartFails, CopyBlockFails, Close
<1>8. QED
  BY <1>1, <1>2, <1>3, <1>4, <1>5, <1>6, <1>7 DEF Step

\* The tasks, builders and pointers of such a client.
LEMMA OnceBuilders ==
  ASSUME PostsOnce, ProperRequests, OnceInv, NEW t \in Tasks, Step(t), ~Abort(t)
  PROVE  OwnerInv' /\ RecorderInv'
<1>1. /\ IInv /\ TypeOK /\ req' = req
      /\ \A s \in Tasks : s # t => pc'[s] = pc[s] /\ ptr'[s] = ptr[s]
      /\ ptr'[t] = ptr[t] \/ pc[t] = "get"
  BY TaskMoves DEF OnceInv, IInv
<1>2. \A s \in Tasks : Uid(s)' = Uid(s)
  BY <1>1 DEF Uid
<1>3. /\ req[t] \in Requests
      /\ pc[t] = "get" => Accepted(req[t]) /\ object[t] = None
  BY <1>1, TaskMoves DEF IInv, RequestInv, CreatorInv, Running, Accepted
<1>4. OwnerInv'
  <2> SUFFICES ASSUME NEW x \in Tasks, object'[x] # None
               PROVE  /\ ptr'[x] = x /\ req'[x] \in Requests /\ Accepted(req'[x])
                      /\ object'[x].uid = Uid(x)'
    BY DEF OwnerInv
  <2>1. CASE pc[t] = "get" /\ x = t /\ ptr'[t] = t /\ object'[x].uid = Uid(t)
    BY <1>1, <1>2, <1>3, <2>1
  <2>2. CASE object[x] # None /\ object'[x].uid = object[x].uid
    <3>1. /\ ptr[x] = x /\ req[x] \in Requests /\ Accepted(req[x])
          /\ object[x].uid = Uid(x)
      BY <2>2 DEF OnceInv, OwnerInv
    <3>2. ptr'[x] = ptr[x]
      BY <1>1, <1>3, <2>2
    <3>3. QED
      BY <1>1, <1>2, <2>2, <3>1, <3>2
  <2>3. QED
    BY <1>1, <2>1, <2>2, BuilderMoves
<1>5. RecorderInv'
  <2> SUFFICES ASSUME NEW x \in Tasks, object'[x] # None,
                      NEW i \in 1 .. object'[x].total, object'[x].hash[i] # None
               PROVE  \E s \in Tasks :
                        /\ ptr'[s] = x /\ pc'[s] \in Recorded \cup {"broken"}
                        /\ req[s] \in Requests /\ Accepted(req[s])
                        /\ Uid(s) = object'[x].uid /\ req[s].idx = i
    BY <1>1, <1>2 DEF RecorderInv
  <2>1. /\ object[x] # None
        /\ object'[x].uid = object[x].uid /\ object'[x].total = object[x].total
        /\ \/ object'[x].hash[i] = object[x].hash[i]
           \/ UpdateBlockHash(t) /\ ptr[t] = x /\ req[t].idx = i
    BY <1>1, BuilderMoves
  <2>2. CASE object'[x].hash[i] = object[x].hash[i]
    <3>1. PICK s \in Tasks : /\ ptr[s] = x /\ pc[s] \in Recorded \cup {"broken"}
                             /\ req[s] \in Requests /\ Accepted(req[s])
                             /\ Uid(s) = object[x].uid /\ req[s].idx = i
      BY <2>1, <2>2 DEF OnceInv, RecorderInv
    <3>2. ptr'[s] = x /\ pc'[s] \in Recorded \cup {"broken"}
      <4>1. CASE s = t
        <5>1. pc[t] \in {"touch", "check", "build", "copy", "erase", "clear",
                         "notify"}
          BY <1>1, <3>1, <4>1, TaskMoves DEF Recorded, Running
        <5>2. QED
          BY <1>1, <3>1, <4>1, <5>1, TaskMoves
      <4>2. CASE s # t
        BY <1>1, <3>1, <4>2
      <4>3. QED
        BY <4>1, <4>2
    <3>3. QED
      BY <2>1, <3>1, <3>2
  <2>3. CASE UpdateBlockHash(t) /\ ptr[t] = x /\ req[t].idx = i
    <3>1. pc[t] = "record" /\ pc'[t] = "touch" /\ ptr'[t] = x
      BY <1>1, <2>3 DEF UpdateBlockHash, Goto, TypeOK
    <3>2. Accepted(req[t]) /\ Uid(t) = object[x].uid
      BY <1>1, <2>3, <3>1 DEF IInv, RequestInv, PointerInv, Holding, UsesBuilder,
                              Running, Accepted
    <3>3. QED
      BY <1>3, <2>1, <2>3, <3>1, <3>2 DEF Recorded
  <2>4. QED
    BY <2>1, <2>2, <2>3
<1>6. QED
  BY <1>4, <1>5

\* Only complete builders are built and destroyed.
LEMMA OnceBuilt ==
  ASSUME PostsOnce, ProperRequests, OnceInv, NEW t \in Tasks, Step(t), ~Abort(t)
  PROVE  BuiltInv'
<1>1. /\ IInv /\ TypeOK /\ req' = req
      /\ \A s \in Tasks : s # t =>
           pc'[s] = pc[s] /\ ptr'[s] = ptr[s] /\ target'[s] = target[s]
      /\ ptr'[t] = ptr[t] \/ pc[t] = "get"
      /\ target'[t] = target[t] \/ pc[t] = "erase"
  BY TaskMoves DEF OnceInv, IInv
<1>2. ASSUME NEW s \in Tasks, pc[s] \in {"build", "copy", "erase"}
      PROVE  IsReady(Builder(s)) /\ IsReady(Builder(s)') /\ Builder(s) # None
  <2>1. IsReady(Builder(s)) /\ ptr[s] \in Tasks /\ Builder(s) # None
    BY <1>1, <1>2 DEF OnceInv, BuiltInv, IInv, PointerInv, Holding, UsesBuilder,
                      Builder
  <2>2. ptr'[s] = ptr[s]
    BY <1>1, <1>2
  <2>3. object'[ptr[s]] # None /\ IsReady(object'[ptr[s]])
    BY <1>1, <2>1, ObjectsStay, ReadyKept DEF Builder
  <2>4. QED
    BY <2>1, <2>2, <2>3 DEF Builder
<1>3. ASSUME NEW s \in Tasks, pc'[s] \in {"build", "copy", "erase"}
      PROVE  IsReady(Builder(s)')
  <2>1. CASE pc[s] \in {"build", "copy", "erase"}
    BY <1>2, <2>1
  <2>2. CASE pc[s] \notin {"build", "copy", "erase"}
    <3>1. s = t /\ CheckReady(t) /\ IsReady(Builder(t))
      BY <1>1, <1>3, <2>2, TaskMoves
    <3>2. Builder(t)' = Builder(t)
      BY <3>1 DEF CheckReady, Builder, task, heap
    <3>3. QED
      BY <3>1, <3>2
  <2>3. QED
    BY <2>1, <2>2
<1>4. ASSUME NEW s \in Tasks, pc'[s] = "clear"
      PROVE  IsReady(object'[target'[s]])
  <2>1. CASE pc[s] = "clear"
    <3>1. /\ target[s] \in Tasks /\ object[target[s]] # None
          /\ IsReady(object[target[s]]) /\ target'[s] = target[s]
      BY <1>1, <2>1 DEF OnceInv, BuiltInv, IInv, TargetInv
    <3>2. QED
      BY <1>1, <3>1, ObjectsStay, ReadyKept
  <2>2. CASE pc[s] # "clear"
    <3>1. s = t /\ DeleteFileBuilder(t)
      BY <1>1, <1>4, <2>2, TaskMoves
    <3> DEFINE y == builders[Uid(t)]
    <3>2. /\ pc[t] = "erase" /\ Uid(t) \in Uids /\ y # None /\ target'[t] = y
          /\ object' = object
      BY <1>1, <1>4, <3>1 DEF DeleteFileBuilder, Goto, TypeOK, IInv, RequestInv,
                              Running, Uid, Uids
    <3>3. /\ y \in Tasks /\ object[y] # None /\ object[y].uid = Uid(t)
      BY <1>1, <3>2 DEF TypeOK, IInv, MapNeverDangles
    <3>4. /\ ptr[t] \in Tasks /\ object[ptr[t]] # None
          /\ object[ptr[t]].uid = Uid(t) /\ IsReady(object[ptr[t]])
      BY <1>1, <1>2, <3>2 DEF IInv, PointerInv, Holding, Builder
    <3>5. y = ptr[t]
      BY <3>3, <3>4, OneCompleteBuilder
    <3>6. QED
      BY <3>1, <3>2, <3>4, <3>5
  <2>3. QED
    BY <2>1, <2>2
<1>5. QED
  BY <1>3, <1>4 DEF BuiltInv

\* A build, however many there are, writes nothing but its result.
LEMMA OnceCopies ==
  ASSUME OnceInv, \A s \in Tasks : PartInv(s) /\ CopyInv(s),
         NEW t \in Tasks, Step(t), ~Abort(t)
  PROVE  \A s \in Tasks : CopyInv(s)'
<1>1. /\ IInv /\ TypeOK /\ req' = req
      /\ \A s \in Tasks : s # t => pc'[s] = pc[s]
  BY TaskMoves DEF OnceInv, IInv
<1>2. ASSUME NEW s \in Tasks, pc'[s] = "copy"
      PROVE  fd'[s] \in {None, ResultName(Uid(s)')}
  <2>1. Uid(s)' = Uid(s)
    BY <1>1 DEF Uid
  <2>2. CASE s # t
    <3>1. pc[s] = "copy" /\ fd[s] \in {None, ResultName(Uid(s))}
      BY <1>1, <1>2, <2>2 DEF CopyInv
    <3>2. fd'[s] \in {None, fd[s]}
      BY <1>1, <2>2 DEF Step, GetFileBuilder, GetFileBuilderFails, Compare,
         OpenPart, OpenPartFails, WritePart, WritePartFails, UpdateBlockHash,
         Touch, CheckReady, OpenResult, OpenResultFails, CopyBlock,
         CopyBlockFails, DeleteFileBuilder, ClearBlock, Notify, Open, Close, TypeOK
    <3>3. QED
      BY <2>1, <3>1, <3>2
  <2>3. CASE s = t
    <3>1. CASE pc[t] = "copy"
      <4>1. fd[t] \in {None, ResultName(Uid(t))}
        BY <3>1 DEF CopyInv
      <4>2. CopyBlock(t)
        BY <1>1, <1>2, <2>3, <3>1 DEF Step, GetFileBuilder, GetFileBuilderFails,
           Compare, OpenPart, OpenPartFails, WritePart, WritePartFails,
           UpdateBlockHash, Touch, CheckReady, OpenResult, OpenResultFails,
           CopyBlockFails, DeleteFileBuilder, ClearBlock, Notify, Goto, TypeOK
      <4>3. fd'[t] \in {None, fd[t]}
        BY <1>1, <4>2 DEF CopyBlock, TypeOK
      <4>4. QED
        BY <2>1, <2>3, <4>1, <4>3
    <3>2. CASE pc[t] # "copy"
      <4>1. pc[t] = "build" /\ (OpenResult(t) \/ OpenResultFails(t))
        BY <1>1, <1>2, <2>3, <3>2 DEF Step, GetFileBuilder, GetFileBuilderFails,
           Compare, OpenPart, OpenPartFails, WritePart, WritePartFails,
           UpdateBlockHash, Touch, CheckReady, OpenResult, OpenResultFails,
           CopyBlock, CopyBlockFails, DeleteFileBuilder, ClearBlock, Notify,
           Goto, TypeOK
      <4>2. CASE OpenResult(t)
        <5>1. Builder(t).uid = Uid(t)
          BY <1>1, <4>1 DEF IInv, PointerInv, Holding, UsesBuilder, Builder
        <5>2. fd'[t] = ResultName(Uid(t))
          BY <1>1, <4>2, <5>1 DEF OpenResult, Open, TypeOK
        <5>3. QED
          BY <2>1, <2>3, <5>2
      <4>3. CASE OpenResultFails(t)
        <5>1. fd'[t] = fd[t] /\ fd[t] = None
          BY <4>1, <4>3 DEF OpenResultFails, PartInv
        <5>2. QED
          BY <2>3, <5>1
      <4>4. QED
        BY <4>1, <4>2, <4>3
    <3>3. QED
      BY <3>1, <3>2
  <2>4. QED
    BY <2>2, <2>3
<1>3. QED
  BY <1>2 DEF CopyInv

\* The part a task is writing is touched by no other task.
LEMMA OwnPartLeft ==
  ASSUME PostsOnce, ProperRequests, OnceInv, NEW t \in Tasks, Step(t), ~Abort(t),
         NEW s \in Tasks, s # t, pc[s] \in {"write", "record"}
  PROVE  /\ PartName(Uid(s), req[s].idx) \in Files
         /\ ~Touches(t, PartName(Uid(s), req[s].idx))
<1> DEFINE i == req[s].idx
<1>1. /\ req[s] \in Requests /\ Accepted(req[s]) /\ IsPart(Uid(s), i)
  BY PointedBuilder DEF OnceInv, Holding, UsesBuilder, Accepted
<1>2. req[t] \in Requests /\ Accepted(req[t]) /\ Uid(t) \in Uids
  BY TaskMoves DEF OnceInv, IInv, RequestInv, Accepted, Uid, Uids
<1>3. PartName(Uid(s), i) \in Files
  BY <1>1, FilesApart
<1>4. ASSUME pc[t] \in {"open", "write"}, PartName(Uid(s), i) = PartName(Uid(t), req[t].idx)
      PROVE  FALSE
  <2>1. IsPart(Uid(t), req[t].idx)
    BY <1>4, PointedBuilder DEF OnceInv, Holding, UsesBuilder
  <2>2. Uid(s) = Uid(t) /\ i = req[t].idx
    BY <1>1, <1>4, <2>1, FilesApart
  <2>3. QED
    BY <1>1, <1>2, <2>2, OneTaskPerBlock DEF OnceInv
<1>5. PartName(Uid(s), i) # ResultName(Uid(t))
  BY <1>1, <1>2, FilesApart
<1>6. ASSUME pc[t] = "clear", PartName(Uid(s), i) = PartName(Uid(t), pos[t])
      PROVE  FALSE
  <2> DEFINE y == target[t]
  <2>1. /\ y \in Tasks /\ object[y] # None /\ object[y].uid = Uid(t)
        /\ pos[t] \in 1 .. object[y].total /\ IsReady(object[y])
    BY <1>6 DEF OnceInv, IInv, TargetInv, BuiltInv
  <2>2. IsPart(Uid(t), pos[t])
    <3>1. object[y] \in BuilderObjects
      BY <2>1 DEF OnceInv, IInv, TypeOK
    <3>2. QED
      BY <2>1, <3>1, BuilderFields DEF IsPart
  <2>3. Uid(s) = Uid(t)
    BY <1>1, <1>6, <2>2, FilesApart
  <2>4. pc[s] \in Recorded \cup {"broken"}
    BY <1>1, <2>1, <2>3, AllRecorded
  <2>5. QED
    BY <2>4 DEF Recorded
<1>7. QED
  BY <1>3, <1>4, <1>5, <1>6 DEF Touches

\* From its opening to the record of its digest a part is the task's own, with
\* other tasks posting other blocks and completing the upload.
LEMMA OnceParts ==
  ASSUME PostsOnce, ProperRequests, "write" \notin Faults, OnceFilesInv,
         NEW t \in Tasks, Step(t), ~Abort(t)
  PROVE  \A s \in Tasks : PartInv(s)'
<1>1. /\ IInv /\ TypeOK /\ OnceInv /\ BuiltInv /\ req' = req
      /\ \A s \in Tasks : s # t => pc'[s] = pc[s] /\ ptr'[s] = ptr[s]
      /\ ptr'[t] = ptr[t] \/ pc[t] = "get"
      /\ \A s \in Tasks : PartInv(s) /\ CopyInv(s)
  BY TaskMoves DEF OnceFilesInv, OnceInv, IInv
<1>2. /\ \A s \in Tasks : pc[s] \in Holding =>
           Part(s) = PartName(Uid(s), req[s].idx)
      /\ pc[t] = "copy" => fd[t] \in {None, ResultName(Uid(t))}
  BY <1>1 DEF IInv, PointerInv, Part, Builder, CopyInv
<1>3. ASSUME NEW s \in Tasks, pc[s] \in Holding
      PROVE  Part(s)' = Part(s)
  <2>1. /\ ptr[s] \in Tasks /\ object[ptr[s]] # None /\ ptr'[s] = ptr[s]
    BY <1>1, <1>3 DEF IInv, PointerInv, Holding, UsesBuilder
  <2>2. object'[ptr[s]].uid = object[ptr[s]].uid
    <3>1. object'[ptr[s]] # None
      BY <1>1, <2>1, ObjectsStay
    <3>2. QED
      BY <1>1, <2>1, <3>1, BuilderMoves
  <2>3. QED
    BY <1>1, <2>1, <2>2 DEF Part, Builder
<1>4. ASSUME NEW s \in Tasks, s # t, fd[s] = None
      PROVE  fd'[s] = None
  BY <1>1, <1>4 DEF Step, GetFileBuilder, GetFileBuilderFails, Compare,
     OpenPart, OpenPartFails, WritePart, WritePartFails, UpdateBlockHash,
     Touch, CheckReady, OpenResult, OpenResultFails, CopyBlock, CopyBlockFails,
     DeleteFileBuilder, ClearBlock, Notify, Open, Close, TypeOK
<1>5. ASSUME NEW s \in Tasks, s # t
      PROVE  PartInv(s)'
  <2>1. CASE pc[s] \in {"write", "record"}
    <3>1. Part(s) \in Files /\ ~Touches(t, Part(s))
      BY <1>1, <1>2, <1>5, <2>1, OwnPartLeft DEF Holding, UsesBuilder
    <3>2. disk'[Part(s)] = disk[Part(s)]
      BY <1>1, <1>2, <3>1, FilesTouched
    <3>3. pc[s] = "write" => fd'[s] = fd[s]
      <4>1. pc[s] = "write" => fd[s] = Part(s)
        BY <1>1 DEF PartInv
      <4>2. Part(s) # None
        BY <3>1, NoneIsNoFile
      <4>3. QED
        BY <1>1, <1>2, <1>5, <3>1, <4>1, <4>2, FilesTouched
    <3>4. Part(s)' = Part(s) /\ pc'[s] = pc[s]
      BY <1>1, <1>3, <1>5, <2>1 DEF Holding, UsesBuilder
    <3>5. pc[s] = "record" => fd'[s] = None
      <4>1. pc[s] = "record" => fd[s] = None
        BY <1>1 DEF PartInv
      <4>2. QED
        BY <1>4, <1>5, <4>1
    <3>6. CASE pc[s] = "write"
      <4>1. fd[s] = Part(s) /\ disk[Part(s)] = <<>>
        BY <1>1, <3>6 DEF PartInv
      <4>2. QED
        BY <3>2, <3>3, <3>4, <3>6, <4>1 DEF PartInv
    <3>7. CASE pc[s] = "record"
      <4>1. disk[Part(s)] = <<req[s].data>>
        BY <1>1, <3>7 DEF PartInv
      <4>2. QED
        BY <1>1, <3>2, <3>4, <3>5, <3>7, <4>1 DEF PartInv
    <3>8. QED
      BY <2>1, <3>6, <3>7
  <2>2. CASE pc[s] \notin {"write", "record"}
    <3>1. pc'[s] = pc[s] /\ (pc[s] # "copy" => fd[s] = None)
      BY <1>1, <1>5, <2>2 DEF PartInv
    <3>2. QED
      BY <1>4, <1>5, <2>2, <3>1 DEF PartInv
  <2>3. QED
    BY <2>1, <2>2
<1>6. PartInv(t)'
  <2>1. CASE OpenPart(t)
    <3>1. pc[t] = "open" /\ pc'[t] = "write" /\ pc[t] \in Holding
      BY <1>1, <2>1 DEF OpenPart, Goto, TypeOK, Holding, UsesBuilder
    <3>2. Part(t) \in Files /\ Part(t)' = Part(t)
      <4>1. IsPart(Uid(t), req[t].idx)
        BY <1>1, <3>1, PointedBuilder DEF OnceInv
      <4>2. QED
        BY <1>2, <1>3, <3>1, <4>1, FilesApart
    <3>3. fd'[t] = Part(t) /\ disk'[Part(t)] = <<>>
      BY <1>1, <2>1, <3>2 DEF OpenPart, Open, TypeOK
    <3>4. QED
      BY <3>1, <3>2, <3>3 DEF PartInv
  <2>2. CASE WritePart(t)
    <3>1. /\ pc[t] = "write" /\ pc'[t] = "record" /\ pc[t] \in Holding
          /\ fd[t] = Part(t) /\ disk[Part(t)] = <<>>
      BY <1>1, <2>2 DEF WritePart, Goto, TypeOK, Holding, PartInv
    <3>2. Part(t) \in Files /\ Part(t)' = Part(t) /\ Part(t) # None
      <4>1. IsPart(Uid(t), req[t].idx)
        BY <1>1, <3>1, PointedBuilder DEF OnceInv
      <4>2. QED
        BY <1>2, <1>3, <3>1, <4>1, FilesApart, NoneIsNoFile
    <3>3. disk' = [disk EXCEPT ![Part(t)] = WriteAt(<<>>, 0, <<req[t].data>>)]
      BY <2>2, <3>1, <3>2 DEF WritePart, Write
    <3>4. disk'[Part(t)] = <<req[t].data>> /\ fd'[t] = None
      BY <1>1, <2>2, <3>2, <3>3, WriteFirst DEF WritePart, Close, TypeOK
    <3>5. QED
      BY <1>1, <3>1, <3>2, <3>4 DEF PartInv
  <2>3. CASE ~OpenPart(t) /\ ~WritePart(t)
    <3>1. pc'[t] \notin {"write", "record"}
      BY <1>1, <2>3 DEF Step, GetFileBuilder, GetFileBuilderFails, Compare,
         OpenPartFails, WritePartFails, UpdateBlockHash, Touch, CheckReady,
         OpenResult, OpenResultFails, CopyBlock, CopyBlockFails,
         DeleteFileBuilder, ClearBlock, Notify, Goto, TypeOK
    <3>2. pc'[t] # "copy" => fd'[t] = None
      <4>1. pc[t] \notin {"write", "copy"} => fd[t] = None
        BY <1>1 DEF PartInv
      <4>2. QED
        BY <1>1, <2>3, <4>1 DEF Step, GetFileBuilder, GetFileBuilderFails,
           Compare, OpenPartFails, WritePartFails, UpdateBlockHash, Touch,
           CheckReady, OpenResult, OpenResultFails, CopyBlock, CopyBlockFails,
           DeleteFileBuilder, ClearBlock, Notify, Goto, Close, TypeOK
    <3>3. QED
      BY <3>1, <3>2 DEF PartInv
  <2>4. QED
    BY <2>1, <2>2, <2>3
<1>7. QED
  BY <1>5, <1>6

\* A digest in a builder of the map stands for a part with that content.
LEMMA OnceStored ==
  ASSUME PostsOnce, ProperRequests, OnceFilesInv, NEW t \in Tasks, Step(t), ~Abort(t)
  PROVE  RecordedBlocksStored'
<1>1. /\ IInv /\ TypeOK /\ OnceInv /\ BuiltInv /\ req' = req
      /\ PartInv(t) /\ CopyInv(t)
      /\ \A s \in Tasks : s # t => pc'[s] = pc[s]
      /\ \A s \in Tasks : Uid(s)' = Uid(s)
  BY TaskMoves DEF OnceFilesInv, OnceInv, IInv, Uid
<1> SUFFICES ASSUME NEW v \in Uids, NEW x \in Tasks, builders'[v] = x,
                    NEW i \in 1 .. object'[x].total,
                    object'[x].hash[i] # None, ~Rewriting(v, i)'
             PROVE  disk'[PartName(v, i)] = <<object'[x].hash[i]>>
  <2>1. TypeOK' /\ Next
    <3>1. Next
      BY DEF Next
    <3>2. QED
      BY <1>1, <3>1, NextInv DEF IInv
  <2>2. ASSUME NEW v \in Uids, builders'[v] # None
        PROVE  builders'[v] \in Tasks
    BY <2>1, <2>2 DEF TypeOK
  <2>3. QED
    BY <2>2 DEF RecordedBlocksStored, Stored
<1>2. object'[x] # None /\ object[x] # None /\ builders[v] = x
  <2>1. IInv'
    <3>1. Next
      BY DEF Next
    <3>2. QED
      BY <1>1, <3>1, NextInv
  <2>2. object'[x] # None
    BY <2>1, UploadAssumption DEF IInv, MapNeverDangles
  <2>3. object[x] # None
    BY <1>1, <2>2, BuilderMoves
  <2>4. QED
    BY <1>1, <2>2, <2>3, EntryKept
<1>3. /\ object[x].uid = v /\ object[x] \in BuilderObjects
      /\ object'[x].total = object[x].total /\ i \in 1 .. object[x].total
      /\ \/ object'[x].hash[i] = object[x].hash[i]
         \/ /\ UpdateBlockHash(t) /\ ptr[t] = x /\ req[t].idx = i
            /\ object'[x].hash[i] = req[t].data
  <2>1. object[x].uid = v /\ object[x] \in BuilderObjects
    BY <1>1, <1>2, UploadAssumption DEF IInv, TypeOK, MapNeverDangles
  <2>2. QED
    BY <1>1, <1>2, <2>1, BuilderMoves
<1>4. IsPart(v, i) /\ PartName(v, i) \in Files
  <2>1. IsPart(v, i)
    BY <1>3, BuilderFields DEF IsPart
  <2>2. QED
    BY <2>1, FilesApart
<1>5. CASE /\ UpdateBlockHash(t) /\ ptr[t] = x /\ req[t].idx = i
           /\ object'[x].hash[i] = req[t].data
  <2>1. pc[t] = "record" /\ disk' = disk /\ Part(t) = PartName(v, i)
    BY <1>3, <1>5 DEF UpdateBlockHash, Goto, Part, Builder
  <2>2. disk[Part(t)] = <<req[t].data>>
    BY <1>1, <2>1 DEF PartInv
  <2>3. QED
    BY <1>5, <2>1, <2>2
<1>6. CASE object'[x].hash[i] = object[x].hash[i]
  <2>1. object[x].hash[i] = object'[x].hash[i] /\ object[x].hash[i] # None
    BY <1>3, <1>6
  <2>2. req[t] \in Requests /\ Accepted(req[t]) /\ Uid(t) \in Uids /\ pc[t] \in Running
    BY <1>1, TaskMoves DEF IInv, RequestInv, Accepted, Uid, Uids
  <2>3. ~Rewriting(v, i)
    <3> SUFFICES ASSUME NEW s \in Tasks, pc[s] \in {"write", "record"},
                        Uid(s) = v, req[s].idx = i
                 PROVE  FALSE
      BY DEF Rewriting
    <3>1. req[s] \in Requests /\ Accepted(req[s])
      BY <1>1 DEF IInv, RequestInv, Running, Accepted
    <3>2. PICK q \in Tasks : /\ pc[q] \in Recorded \cup {"broken"}
                             /\ req[q] \in Requests /\ Accepted(req[q])
                             /\ Uid(q) = v /\ req[q].idx = i
      BY <1>1, <1>2, <1>3, <2>1 DEF OnceInv, RecorderInv
    <3>3. q = s
      BY <1>1, <3>1, <3>2, OneTaskPerBlock DEF OnceInv
    <3>4. QED
      BY <3>2, <3>3 DEF Recorded
  <2>4. disk[PartName(v, i)] = <<object[x].hash[i]>>
    BY <1>2, <1>3, <2>1, <2>3, UploadAssumption
       DEF OnceFilesInv, RecordedBlocksStored, Stored
  <2>5. ASSUME pc[t] \in {"open", "write"}, PartName(v, i) = PartName(Uid(t), req[t].idx)
        PROVE  disk'[PartName(v, i)] = disk[PartName(v, i)]
    <3>1. IsPart(Uid(t), req[t].idx)
      BY <1>1, <2>5, PointedBuilder DEF OnceInv, Holding, UsesBuilder
    <3>2. Uid(t) = v /\ req[t].idx = i
      BY <1>4, <2>5, <3>1, FilesApart
    <3>3. pc'[t] \notin {"write", "record"}
      BY <1>1, <3>2 DEF Rewriting
    <3>4. pc[t] = "open" /\ pc'[t] = "failed"
      BY <1>1, <2>5, <3>3, TaskMoves
    <3>5. OpenPartFails(t)
      BY <1>1, <3>4 DEF Step, GetFileBuilder, GetFileBuilderFails, Compare,
         OpenPart, WritePart, WritePartFails, UpdateBlockHash, Touch,
         CheckReady, OpenResult, OpenResultFails, CopyBlock, CopyBlockFails,
         DeleteFileBuilder, ClearBlock, Notify, Goto, TypeOK
    <3>6. QED
      BY <3>5 DEF OpenPartFails
  <2>6. PartName(v, i) # ResultName(Uid(t))
    BY <1>4, <2>2, FilesApart
  <2>7. ASSUME pc[t] = "clear", PartName(v, i) = PartName(Uid(t), pos[t])
        PROVE  FALSE
    <3> DEFINE y == target[t]
    <3>1. /\ y \in Tasks /\ object[y] # None /\ object[y].uid = Uid(t)
          /\ pos[t] \in 1 .. object[y].total /\ IsReady(object[y])
      BY <1>1, <2>7 DEF IInv, TargetInv, BuiltInv
    <3>2. IsPart(Uid(t), pos[t])
      <4>1. object[y] \in BuilderObjects
        BY <1>1, <3>1 DEF TypeOK
      <4>2. QED
        BY <3>1, <4>1, BuilderFields DEF IsPart
    <3>3. Uid(t) = v
      BY <1>4, <2>7, <3>2, FilesApart
    <3>4. y = x
      BY <1>1, <1>2, <1>3, <3>1, <3>3, OneCompleteBuilder
    <3>5. target[t] # builders[v]
      BY <1>1, <1>2, <2>7, UploadAssumption DEF IInv, MapNeverDangles
    <3>6. QED
      BY <1>2, <3>4, <3>5
  <2>8. disk'[PartName(v, i)] = disk[PartName(v, i)]
    <3>1. CASE Touches(t, PartName(v, i))
      BY <2>5, <2>6, <2>7, <3>1 DEF Touches
    <3>2. CASE ~Touches(t, PartName(v, i))
      <4>1. pc[t] = "copy" => fd[t] \in {None, ResultName(Uid(t))}
        BY <1>1 DEF CopyInv
      <4>2. QED
        BY <1>1, <1>4, <3>2, <4>1, FilesTouched
    <3>3. QED
      BY <3>1, <3>2
  <2>9. QED
    BY <2>1, <2>4, <2>8
<1>7. QED
  BY <1>3, <1>5, <1>6

\* A task that has ended ends once.
LEMMA FinishedStays ==
  ASSUME TypeOK, [Next]_vars, NEW s \in Tasks, pc[s] \in Finished
  PROVE  pc'[s] = pc[s]
<1>1. pc[s] \notin Running /\ pc[s] # "idle"
  BY DEF Finished, Failure, Running
<1>2. ASSUME NEW t \in Tasks, NEW r \in Requests, HandleRequest(t, r)
      PROVE  pc'[s] = pc[s]
  BY <1>1, <1>2 DEF HandleRequest, Goto, TypeOK
<1>3. ASSUME NEW t \in Tasks, Step(t), ~Abort(t)
      PROVE  pc'[s] = pc[s]
  BY <1>1, <1>3, TaskMoves
<1>4. ASSUME NEW t \in Tasks, Abort(t)
      PROVE  pc'[s] = pc[s]
  BY <1>1, <1>4 DEF Abort, ProcessDies
<1>5. CASE Crash
  BY <1>1, <1>5 DEF Crash, ProcessDies
<1>6. CASE UNCHANGED vars
  BY <1>6 DEF vars
<1>7. QED
  BY <1>2, <1>3, <1>4, <1>5, <1>6 DEF Next

\* A client that does not post again what has been answered with 200 has no
\* request served twice.
LEMMA NoRepeatKept ==
  ASSUME Resend # "always", TypeOK, NoRepeatInv, [Next]_vars
  PROVE  NoRepeatInv'
<1>1. ASSUME NEW s \in Tasks, pc[s] \in Failure
      PROVE  pc'[s] \in Failure
  BY <1>1, FinishedStays DEF Finished
<1>2. ASSUME NEW t \in Tasks, NEW r \in Requests, HandleRequest(t, r)
      PROVE  NoRepeatInv'
  <2>1. /\ req' = [req EXCEPT ![t] = r]
        /\ \A s \in Tasks : req[s] = r => Resend = "failed" /\ pc[s] \in Failure
    BY <1>2 DEF HandleRequest, MayPost
  <2>2. QED
    BY <1>1, <2>1 DEF NoRepeatInv, TypeOK
<1>3. ASSUME req' = req
      PROVE  NoRepeatInv'
  BY <1>1, <1>3 DEF NoRepeatInv
<1>4. ASSUME NEW t \in Tasks, Step(t)
      PROVE  NoRepeatInv'
  BY <1>3, <1>4, StepFacts
<1>5. CASE Crash \/ UNCHANGED vars
  BY <1>3, <1>5 DEF Crash, ProcessDies, vars, task
<1>6. QED
  BY <1>2, <1>4, <1>5 DEF Next

\* When the process dies the builders, pointers and streams are gone.
LEMMA OnceDies ==
  ASSUME ProcessDies, TypeOK
  PROVE  /\ OwnerInv' /\ RecorderInv' /\ BuiltInv' /\ RecordedBlocksStored'
         /\ \A s \in Tasks : PartInv(s)' /\ CopyInv(s)'
<1>1. /\ \A s \in Tasks : pc'[s] \notin Running /\ object'[s] = None /\ fd'[s] = None
      /\ \A v \in Uids : builders'[v] = None
  BY DEF ProcessDies, Running
<1>2. OwnerInv' /\ RecorderInv'
  BY <1>1 DEF OwnerInv, RecorderInv
<1>3. BuiltInv' /\ \A s \in Tasks : PartInv(s)' /\ CopyInv(s)'
  BY <1>1 DEF BuiltInv, PartInv, CopyInv, Running
<1>4. RecordedBlocksStored'
  BY <1>1 DEF RecordedBlocksStored, Stored
<1>5. QED
  BY <1>2, <1>3, <1>4

\* A request that arrives is new to all of it.
LEMMA Arrives ==
  ASSUME OnceInv, NEW t \in Tasks, NEW r \in Requests, HandleRequest(t, r)
  PROVE  /\ pc[t] = "idle" /\ pc'[t] \in {"rejected", "get"} /\ object[t] = None
         /\ \A s \in Tasks : s # t =>
              pc'[s] = pc[s] /\ req'[s] = req[s] /\ Uid(s)' = Uid(s)
         /\ UNCHANGED <<ptr, target, object, builders, fd, disk, published, restarts>>
         /\ \A s \in Tasks : Builder(s)' = Builder(s)
  BY DEF HandleRequest, Goto, heap, TypeOK, OnceInv, IInv, CreatorInv, Uid, Builder

\* Every step keeps the invariant of the builders of such a client...
LEMMA OnceNext ==
  ASSUME PostsOnce, ProperRequests, OnceInv, [Next]_vars
  PROVE  OnceInv'
<1>1. IInv' /\ TotalsInv' /\ NoRepeatInv' /\ TypeOK /\ TypeOK'
  <2>1. Resend # "always"
    BY DEF PostsOnce
  <2>2. QED
    BY <2>1, NextInv, TotalsNext, NoRepeatKept DEF OnceInv, IInv
<1> DEFINE Rest == OwnerInv /\ RecorderInv /\ BuiltInv
<1>2. ASSUME NEW t \in Tasks, Step(t), ~Abort(t)
      PROVE  Rest'
  BY <1>2, OnceBuilders, OnceBuilt
<1>3. ASSUME Crash \/ \E t \in Tasks : Abort(t)
      PROVE  Rest'
  BY <1>1, <1>3, OnceDies DEF Crash, Abort
<1>4. ASSUME UNCHANGED vars
      PROVE  Rest'
  <2>1. UNCHANGED <<pc, req, ptr, target, object>>
    BY <1>4 DEF vars, task, heap
  <2>2. \A s \in Tasks : Uid(s)' = Uid(s) /\ Builder(s)' = Builder(s)
    BY <2>1 DEF Uid, Builder
  <2>3. QED
    BY <2>1, <2>2 DEF OnceInv, OwnerInv, RecorderInv, BuiltInv
<1>5. ASSUME NEW t \in Tasks, NEW r \in Requests, HandleRequest(t, r)
      PROVE  Rest'
  <2>1. /\ pc[t] = "idle" /\ pc'[t] \in {"rejected", "get"} /\ object[t] = None
        /\ \A s \in Tasks : s # t =>
             pc'[s] = pc[s] /\ req'[s] = req[s] /\ Uid(s)' = Uid(s)
        /\ UNCHANGED <<ptr, target, object>>
        /\ \A s \in Tasks : Builder(s)' = Builder(s)
    BY <1>5, Arrives
  <2>2. OwnerInv'
    BY <2>1 DEF OnceInv, OwnerInv
  <2>3. RecorderInv'
    <3> SUFFICES ASSUME NEW x \in Tasks, object[x] # None,
                        NEW i \in 1 .. object[x].total, object[x].hash[i] # None
                 PROVE  \E s \in Tasks :
                          /\ ptr[s] = x /\ pc'[s] \in Recorded \cup {"broken"}
                          /\ req'[s] \in Requests /\ Accepted(req'[s])
                          /\ Uid(s)' = object[x].uid /\ req'[s].idx = i
      BY <2>1 DEF RecorderInv
    <3>1. PICK s \in Tasks : /\ ptr[s] = x /\ pc[s] \in Recorded \cup {"broken"}
                             /\ req[s] \in Requests /\ Accepted(req[s])
                             /\ Uid(s) = object[x].uid /\ req[s].idx = i
      BY DEF OnceInv, RecorderInv
    <3>2. s # t
      BY <2>1, <3>1 DEF Recorded
    <3>3. QED
      BY <2>1, <3>1, <3>2
  <2>4. BuiltInv'
    BY <2>1 DEF OnceInv, BuiltInv
  <2>5. QED
    BY <2>2, <2>3, <2>4
<1>6. Rest'
  BY <1>2, <1>3, <1>4, <1>5 DEF Next
<1>7. QED
  BY <1>1, <1>6 DEF OnceInv

\* ...and that of their files.
LEMMA OnceFilesNext ==
  ASSUME PostsOnce, ProperRequests, "write" \notin Faults, OnceFilesInv, [Next]_vars
  PROVE  OnceFilesInv'
<1>1. OnceInv /\ OnceInv' /\ TypeOK
  BY OnceNext DEF OnceFilesInv, OnceInv, IInv
<1> DEFINE Rest == (\A s \in Tasks : PartInv(s) /\ CopyInv(s)) /\ RecordedBlocksStored
<1>2. ASSUME NEW t \in Tasks, Step(t), ~Abort(t)
      PROVE  Rest'
  BY <1>1, <1>2, OnceParts, OnceCopies, OnceStored DEF OnceFilesInv
<1>3. ASSUME Crash \/ \E t \in Tasks : Abort(t)
      PROVE  Rest'
  BY <1>1, <1>3, OnceDies DEF Crash, Abort
<1>4. ASSUME UNCHANGED vars
      PROVE  Rest'
  <2>1. UNCHANGED <<pc, req, ptr, object, builders, fd, disk>>
    BY <1>4 DEF vars, task, heap
  <2>2. \A s \in Tasks : Uid(s)' = Uid(s) /\ Part(s)' = Part(s)
    BY <2>1 DEF Uid, Builder, Part
  <2>3. \A s \in Tasks : PartInv(s)' /\ CopyInv(s)'
    BY <2>1, <2>2 DEF OnceFilesInv, PartInv, CopyInv
  <2>4. RecordedBlocksStored'
    BY <2>1, <2>2 DEF OnceFilesInv, RecordedBlocksStored, Stored, Rewriting
  <2>5. QED
    BY <2>3, <2>4
<1>5. ASSUME NEW t \in Tasks, NEW r \in Requests, HandleRequest(t, r)
      PROVE  Rest'
  <2>1. /\ pc[t] = "idle" /\ pc'[t] \in {"rejected", "get"}
        /\ \A s \in Tasks : s # t =>
             pc'[s] = pc[s] /\ req'[s] = req[s] /\ Uid(s)' = Uid(s)
        /\ UNCHANGED <<object, builders, fd, disk>>
        /\ \A s \in Tasks : Builder(s)' = Builder(s)
    BY <1>1, <1>5, Arrives
  <2>2. ASSUME NEW s \in Tasks
        PROVE  PartInv(s)' /\ CopyInv(s)'
    <3>1. PartInv(s) /\ CopyInv(s)
      BY DEF OnceFilesInv
    <3>2. CASE s # t
      <4>1. Part(s)' = Part(s)
        BY <2>1, <3>2 DEF Part
      <4>2. QED
        BY <2>1, <3>1, <3>2, <4>1 DEF PartInv, CopyInv
    <3>3. CASE s = t
      BY <2>1, <3>1, <3>3 DEF PartInv, CopyInv
    <3>4. QED
      BY <3>2, <3>3
  <2>3. \A v, i : Rewriting(v, i) => Rewriting(v, i)'
    BY <2>1 DEF Rewriting
  <2>4. RecordedBlocksStored'
    BY <2>1, <2>3 DEF OnceFilesInv, RecordedBlocksStored, Stored
  <2>5. QED
    BY <2>2, <2>4
<1>6. Rest'
  BY <1>2, <1>3, <1>4, <1>5 DEF Next
<1>7. QED
  BY <1>1, <1>6 DEF OnceFilesInv

\* They hold before the first request.
LEMMA OnceInit == Init => OnceFilesInv
<1> SUFFICES ASSUME Init PROVE OnceFilesInv
  OBVIOUS
<1>1. /\ \A s \in Tasks : /\ pc[s] = "idle" /\ req[s] = None
                          /\ object[s] = None /\ fd[s] = None
      /\ \A v \in Uids : builders[v] = None
  BY DEF Init
<1>2. IInv
  BY InitInv
<1>3. TotalsInv /\ NoRepeatInv /\ OwnerInv /\ RecorderInv /\ BuiltInv
  BY <1>1 DEF TotalsInv, NoRepeatInv, OwnerInv, RecorderInv, BuiltInv
<1>4. \A s \in Tasks : PartInv(s) /\ CopyInv(s)
  BY <1>1 DEF PartInv, CopyInv
<1>5. RecordedBlocksStored
  BY <1>1 DEF RecordedBlocksStored, Stored
<1>6. QED
  BY <1>2, <1>3, <1>4, <1>5 DEF OnceInv, OnceFilesInv

\* With any number of requests of an upload in flight, failures to open files
\* and crashes, the digests of a builder are those of the parts on disk, as
\* long as each block is posted once: no task writes another's part, and what
\* the destructor removes belongs to no upload in progress.
THEOREM ParallelBlocksStored ==
  ASSUME PostsOnce, ProperRequests, "write" \notin Faults
  PROVE  Spec => []RecordedBlocksStored
<1>1. OnceFilesInv /\ [Next]_vars => OnceFilesInv'
  BY OnceFilesNext
<1>2. OnceFilesInv => RecordedBlocksStored
  BY DEF OnceFilesInv
<1>3. QED
  BY <1>1, <1>2, OnceInit, PTL DEF Spec

-----------------------------------------------------------------------------
(* Every request comes to an end.                                          *)

\* The block a loop has come to is one of its builder's.
LEMMA LoopBlock ==
  ASSUME IInv, NEW t \in Tasks, pc[t] \in {"copy", "clear"}
  PROVE  pos[t] \in BlockNumbers
<1>1. PICK x \in BuilderObjects : pos[t] \in 1 .. x.total
  <2>1. CASE pc[t] = "copy"
    <3>1. Builder(t) \in BuilderObjects /\ pos[t] \in 1 .. Builder(t).total
      BY <2>1 DEF IInv, PointerInv, NumberInv, TypeOK, Builder, Holding, UsesBuilder
    <3>2. QED
      BY <3>1
  <2>2. CASE pc[t] = "clear"
    <3>1. /\ object[target[t]] \in BuilderObjects
          /\ pos[t] \in 1 .. object[target[t]].total
      BY <2>2 DEF IInv, TargetInv, TypeOK
    <3>2. QED
      BY <3>1
  <2>3. QED
    BY <2>1, <2>2
<1>2. x.total \in {0} \cup BlockNumbers
  BY BuilderFields
<1>3. 0 \in {0} \cup BlockNumbers
  OBVIOUS
<1>4. 1 .. x.total \subseteq BlockNumbers
  BY <1>2, <1>3, BlockUpTo
<1>5. QED
  BY <1>1, <1>4

\* The rank of a running task is a positive number.
LEMMA RankPositive ==
  ASSUME IInv, NEW t \in Tasks, pc[t] \in Running
  PROVE  Rank(t) \in Nat /\ Rank(t) > 0
<1>1. CASE pc[t] \in {"copy", "clear"}
  <2>1. pos[t] \in BlockNumbers
    BY <1>1, LoopBlock
  <2>2. StepsLeft[pc[t]] \in {2, 4}
    BY <1>1 DEF StepsLeft
  <2>3. Rank(t) = 10000 * StepsLeft[pc[t]] - pos[t]
    BY <1>1 DEF Rank, Running
  <2>4. pos[t] \in Int /\ 1 <= pos[t] /\ pos[t] <= 9999
    BY <2>1, BlockRange
  <2> DEFINE n == StepsLeft[pc[t]]
             r == Rank(t)
             i == pos[t]
  <2>5. n \in {2, 4} /\ r = 10000 * n - i /\ i \in Int /\ 1 <= i /\ i <= 9999
    BY <2>2, <2>3, <2>4
  <2> HIDE DEF n, r, i
  <2>6. r \in Nat /\ r > 0
    BY <2>5, SMT
  <2>7. QED
    BY <2>6 DEF r
<1>2. CASE pc[t] \notin {"copy", "clear"}
  <2>1. StepsLeft[pc[t]] \in 1 .. 12
    BY <1>2 DEF StepsLeft, Running
  <2>2. Rank(t) = 10000 * StepsLeft[pc[t]] - 0
    BY <1>2 DEF Rank
  <2> DEFINE n == StepsLeft[pc[t]]
             r == Rank(t)
  <2>3. n \in 1 .. 12 /\ r = 10000 * n - 0
    BY <2>1, <2>2
  <2> HIDE DEF n, r
  <2>4. r \in Nat /\ r > 0
    BY <2>3, SMT
  <2>5. QED
    BY <2>4 DEF r
<1>3. QED
  BY <1>1, <1>2

\* A task that goes on goes on to a later step, or to the next block.
LEMMA GoesOn ==
  ASSUME IInv, NEW t \in Tasks, Step(t), pc'[t] \in Running
  PROVE  \/ StepsLeft[pc'[t]] < StepsLeft[pc[t]]
         \/ /\ pc[t] \in {"copy", "clear"} /\ pc'[t] = pc[t]
            /\ pos'[t] = pos[t] + 1
<1> USE DEF Goto, Running, StepsLeft, IInv, TypeOK
<1>1. CASE GetFileBuilder(t) \/ GetFileBuilderFails(t) \/ Compare(t)
  BY <1>1 DEF GetFileBuilder, GetFileBuilderFails, Compare
<1>2. CASE OpenPart(t) \/ OpenPartFails(t) \/ WritePart(t) \/ WritePartFails(t)
  BY <1>2, SMTT(30) DEF OpenPart, OpenPartFails, WritePart, WritePartFails
<1>3. CASE UpdateBlockHash(t) \/ Touch(t) \/ CheckReady(t)
  BY <1>3 DEF UpdateBlockHash, Touch, CheckReady
<1>4. CASE OpenResult(t) \/ OpenResultFails(t)
  BY <1>4 DEF OpenResult, OpenResultFails
<1>5. CASE CopyBlock(t)
  BY <1>5 DEF CopyBlock
<1>6. CASE CopyBlockFails(t) \/ Notify(t)
  BY <1>6 DEF CopyBlockFails, Notify
<1>7. CASE DeleteFileBuilder(t)
  BY <1>7 DEF DeleteFileBuilder
<1>8. CASE ClearBlock(t)
  BY <1>8 DEF ClearBlock
<1>9. CASE Abort(t)
  BY <1>9 DEF Abort, ProcessDies
<1>10. QED
  BY <1>1, <1>2, <1>3, <1>4, <1>5, <1>6, <1>7, <1>8, <1>9 DEF Step

\* A step lowers the rank of its task.
LEMMA StepLowers ==
  ASSUME IInv, IInv', NEW t \in Tasks, Step(t)
  PROVE  Rank(t)' < Rank(t)
<1>1. pc[t] \in Running
  BY DEF Step, Goto, Running, GetFileBuilder, GetFileBuilderFails, Compare,
         OpenPart, OpenPartFails, WritePart, WritePartFails, UpdateBlockHash, Touch,
         CheckReady, OpenResult, OpenResultFails, CopyBlock, CopyBlockFails,
         DeleteFileBuilder, ClearBlock, Notify, Abort, UsesBuilder
<1>2. Rank(t) \in Nat /\ Rank(t) > 0
  BY <1>1, RankPositive
<1>3. CASE pc'[t] \notin Running
  BY <1>2, <1>3 DEF Rank
<1>4. CASE pc'[t] \in Running
  <2> DEFINE block(step, n) == IF step \in {"copy", "clear"} THEN n ELSE 0
             m  == StepsLeft[pc[t]]
             i  == block(pc[t], pos[t])
             r  == Rank(t)
             m1 == StepsLeft[pc'[t]]
             i1 == block(pc'[t], pos'[t])
             r1 == Rank(t)'
  <2>1. r = 10000 * m - i /\ r1 = 10000 * m1 - i1
    BY <1>1, <1>4 DEF Rank
  <2>2. m \in 1 .. 12 /\ m1 \in 1 .. 12
    BY <1>1, <1>4 DEF StepsLeft, Running
  <2>3. i \in {0} \cup BlockNumbers
    BY LoopBlock
  <2>4. i1 \in Nat
    BY DEF IInv, TypeOK
  <2>5. m1 < m \/ (m1 = m /\ i1 = i + 1)
    BY <1>4, GoesOn
  <2> HIDE DEF m, i, r, m1, i1, r1
  <2>6. i \in 0 .. 9999
    BY <2>3, SMT DEF BlockNumbers
  <2>7. r1 < r
    BY <2>1, <2>2, <2>4, <2>5, <2>6, SMT
  <2>8. QED
    BY <2>7 DEF r, r1
<1>5. QED
  BY <1>3, <1>4

\* A step of one task leaves another where it is, or ends it.
LEMMA OthersStay ==
  ASSUME TypeOK, NEW s \in Tasks, Step(s), NEW t \in Tasks, s # t
  PROVE  \/ pc'[t] = pc[t] /\ pos'[t] = pos[t]
         \/ pc'[t] \notin Running
<1> USE DEF Goto, task, TypeOK
<1>1. CASE GetFileBuilder(s) \/ GetFileBuilderFails(s) \/ Compare(s)
  BY <1>1 DEF GetFileBuilder, GetFileBuilderFails, Compare
<1>2. CASE OpenPart(s) \/ OpenPartFails(s) \/ WritePart(s) \/ WritePartFails(s)
  BY <1>2 DEF OpenPart, OpenPartFails, WritePart, WritePartFails
<1>3. CASE UpdateBlockHash(s) \/ Touch(s) \/ CheckReady(s)
  BY <1>3 DEF UpdateBlockHash, Touch, CheckReady
<1>4. CASE OpenResult(s) \/ OpenResultFails(s)
  BY <1>4 DEF OpenResult, OpenResultFails
<1>5. CASE CopyBlock(s)
  BY <1>5 DEF CopyBlock
<1>6. CASE CopyBlockFails(s) \/ Notify(s)
  BY <1>6 DEF CopyBlockFails, Notify
<1>7. CASE DeleteFileBuilder(s)
  BY <1>7 DEF DeleteFileBuilder
<1>8. CASE ClearBlock(s)
  BY <1>8 DEF ClearBlock
<1>9. CASE Abort(s)
  BY <1>9 DEF Abort, ProcessDies, Running
<1>10. QED
  BY <1>1, <1>2, <1>3, <1>4, <1>5, <1>6, <1>7, <1>8, <1>9 DEF Step

\* Every step of a task lowers its rank, and no step of the rest of the system
\* raises it: a request is answered after at most 120000 steps of its task,
\* whatever the client posts, however the tasks interleave and whatever fails.
\* (That a running task always has a step to take, and that it is let take it,
\* is ENABLED and fairness.)
THEOREM RequestsRunDown == Spec => RunsDown
<1>1. ASSUME IInv, IInv', [Next]_vars
      PROVE  [\A t \in Tasks : /\ Rank(t) \in Nat
                               /\ pc[t] \in Running => Rank(t)' <= Rank(t)
                               /\ Step(t) => Rank(t)' < Rank(t)]_vars
  <2> SUFFICES ASSUME NEW t \in Tasks, ~UNCHANGED vars
               PROVE  /\ Rank(t) \in Nat
                      /\ pc[t] \in Running => Rank(t)' <= Rank(t)
                      /\ Step(t) => Rank(t)' < Rank(t)
    OBVIOUS
  <2>1. Rank(t) \in Nat
    <3>1. CASE pc[t] \in Running
      <4>1. IInv
        BY <1>1
      <4>2. QED
        BY <3>1, <4>1, RankPositive
    <3>2. CASE pc[t] \notin Running
      BY <3>2 DEF Rank
    <3>3. QED
      BY <3>1, <3>2
  <2>2. Step(t) => Rank(t)' < Rank(t)
    BY <1>1, StepLowers
  <2>3. ASSUME pc[t] \in Running PROVE Rank(t)' <= Rank(t)
    <3>1. CASE pc'[t] = pc[t] /\ pos'[t] = pos[t]
      BY <2>1, <3>1 DEF Rank
    <3>2. CASE pc'[t] \notin Running
      BY <2>1, <3>2 DEF Rank
    <3>3. CASE Step(t)
      <4>1. Rank(t)' \in Int
        <5>1. CASE pc'[t] \in Running
          <6>1. StepsLeft[pc'[t]] \in 1 .. 12 /\ pos'[t] \in Nat
            BY <1>1, <5>1, SMTT(30) DEF StepsLeft, Running, IInv, TypeOK
          <6>2. Rank(t)' = 10000 * StepsLeft[pc'[t]]
                           - (IF pc'[t] \in {"copy", "clear"} THEN pos'[t] ELSE 0)
            BY <5>1 DEF Rank
          <6> DEFINE n == StepsLeft[pc'[t]]
                     i == IF pc'[t] \in {"copy", "clear"} THEN pos'[t] ELSE 0
          <6>3. n \in Int /\ i \in Int
            BY <6>1
          <6> HIDE DEF n, i
          <6>4. 10000 * n - i \in Int
            BY <6>3
          <6>5. QED
            BY <6>2, <6>4 DEF n, i
        <5>2. CASE pc'[t] \notin Running
          BY <5>2 DEF Rank
        <5>3. QED
          BY <5>1, <5>2
      <4>2. QED
        BY <2>1, <2>2, <3>3, <4>1
    <3>4. ASSUME NEW s \in Tasks, NEW r \in Requests, HandleRequest(s, r)
          PROVE  pc'[t] = pc[t] /\ pos'[t] = pos[t]
      BY <1>1, <2>3, <3>4 DEF HandleRequest, Goto, Running, IInv, TypeOK
    <3>5. ASSUME NEW s \in Tasks, Step(s), s # t
          PROVE  \/ pc'[t] = pc[t] /\ pos'[t] = pos[t]
                 \/ pc'[t] \notin Running
      BY <1>1, <3>5, OthersStay DEF IInv
    <3>6. CASE Crash
      <4>1. pc'[t] = IF pc[t] \in Running THEN "lost" ELSE pc[t]
        BY <3>6 DEF Crash, ProcessDies
      <4>2. pc'[t] \notin Running
        BY <4>1 DEF Running
      <4>3. QED
        BY <3>2, <4>2
    <3>7. QED
      BY <1>1, <3>1, <3>2, <3>3, <3>4, <3>5, <3>6 DEF Next
  <2>4. QED
    BY <2>1, <2>2, <2>3
<1>2. QED
  BY <1>1, Invariance, PTL DEF Spec, RunsDown

-----------------------------------------------------------------------------
(* The delivery of the videos of such a client.                            *)

\* A builder leaves the map complete and is the only one of its upload.
LEMMA DeliveryBuilders ==
  ASSUME PostsOnce, ProperRequests, OnceInv, RemovedInv, SoleBuilderInv,
         NEW t \in Tasks, Step(t), ~Abort(t)
  PROVE  RemovedInv' /\ SoleBuilderInv'
<1>1. IInv /\ TypeOK /\ BuiltInv
  BY DEF OnceInv, IInv
<1>2. /\ pc[t] \in Running /\ req[t] \in Requests /\ Accepted(req[t])
      /\ Uid(t) \in Uids
  BY <1>1, TaskMoves DEF IInv, RequestInv, Accepted, Uid, Uids
<1>3. ASSUME NEW x \in Tasks, object[x] # None
      PROVE  object[x].uid \in Uids
  BY <1>3 DEF OnceInv, OwnerInv, Uid, Uids
<1>4. ASSUME NEW x \in Tasks, object'[x] # None, object[x] = None
      PROVE  /\ x = t /\ pc[t] = "get" /\ object'[x].uid = Uid(t)
             /\ builders[Uid(t)] = None /\ builders'[Uid(t)] = t
  <2>1. x = t /\ pc[t] = "get" /\ object'[x].uid = Uid(t)
    BY <1>1, <1>4, BuilderMoves
  <2>2. GetFileBuilder(t)
    BY <1>4, <2>1 DEF Step, GetFileBuilderFails, Compare, OpenPart, OpenPartFails,
       WritePart, WritePartFails, UpdateBlockHash, Touch, CheckReady, OpenResult,
       OpenResultFails, CopyBlock, CopyBlockFails, DeleteFileBuilder, ClearBlock,
       Notify, Goto, heap
  <2>3. QED
    BY <1>1, <1>2, <1>4, <2>1, <2>2 DEF GetFileBuilder, TypeOK
<1>5. ASSUME NEW x \in Tasks, object'[x] # None, object[x] # None
      PROVE  object'[x].uid = object[x].uid
  BY <1>1, <1>5, BuilderMoves
<1>6. ASSUME NEW x \in Tasks, object'[x] # None
      PROVE  builders'[object'[x].uid] = x \/ IsReady(object'[x])
  <2> DEFINE v == object[x].uid
  <2>1. CASE object[x] = None
    BY <1>4, <1>6, <2>1
  <2>2. CASE object[x] # None /\ IsReady(object[x])
    BY <1>1, <1>6, <2>2, ReadyKept
  <2>3. CASE object[x] # None /\ ~IsReady(object[x])
    <3>1. builders[v] = x /\ v \in Uids /\ object'[x].uid = v
      BY <1>3, <1>5, <1>6, <2>3 DEF RemovedInv
    <3>2. ~(DeleteFileBuilder(t) /\ Uid(t) = v)
      <4> SUFFICES ASSUME DeleteFileBuilder(t), Uid(t) = v PROVE FALSE
        OBVIOUS
      <4>1. pc[t] = "erase"
        BY DEF DeleteFileBuilder, Goto
      <4>2. /\ ptr[t] \in Tasks /\ object[ptr[t]] # None
            /\ object[ptr[t]].uid = v /\ IsReady(object[ptr[t]])
        BY <1>1, <4>1 DEF IInv, PointerInv, BuiltInv, Holding, Builder
      <4>3. QED
        BY <2>3, <4>2 DEF SoleBuilderInv
    <3>3. builders'[v] = x
      <4> HIDE DEF v
      <4>1. CASE GetFileBuilder(t)
        BY <1>1, <1>2, <3>1, <4>1, UploadAssumption DEF GetFileBuilder, TypeOK
      <4>2. CASE DeleteFileBuilder(t)
        BY <1>1, <3>1, <3>2, <4>2 DEF DeleteFileBuilder, TypeOK
      <4>3. CASE ~GetFileBuilder(t) /\ ~DeleteFileBuilder(t)
        BY <3>1, <4>3 DEF Step, GetFileBuilderFails, Compare, OpenPart,
           OpenPartFails, WritePart, WritePartFails, UpdateBlockHash, Touch,
           CheckReady, OpenResult, OpenResultFails, CopyBlock, CopyBlockFails,
           ClearBlock, Notify, heap
      <4>4. QED
        BY <4>1, <4>2, <4>3
    <3>4. QED
      BY <3>1, <3>3
  <2>4. QED
    BY <2>1, <2>2, <2>3
<1>7. ASSUME NEW y \in Tasks, object[y] # None, object[y].uid = Uid(t),
             pc[t] = "get", builders[Uid(t)] = None
      PROVE  FALSE
  <2>1. IsReady(object[y])
    BY <1>7, UploadAssumption DEF RemovedInv
  <2>2. pc[t] \in Recorded \cup {"broken"}
    BY <1>2, <1>7, <2>1, AllRecorded
  <2>3. QED
    BY <1>7, <2>2 DEF Recorded
<1>8. ASSUME NEW x \in Tasks, NEW y \in Tasks, object'[x] # None,
             object'[y] # None, object'[x].uid = object'[y].uid
      PROVE  x = y
  <2>1. CASE object[x] # None /\ object[y] # None
    BY <1>5, <1>8, <2>1 DEF SoleBuilderInv
  <2>2. CASE object[x] = None /\ object[y] # None
    BY <1>4, <1>5, <1>7, <1>8, <2>2
  <2>3. CASE object[x] # None /\ object[y] = None
    BY <1>4, <1>5, <1>7, <1>8, <2>3
  <2>4. CASE object[x] = None /\ object[y] = None
    BY <1>4, <1>8, <2>4
  <2>5. QED
    BY <2>1, <2>2, <2>3, <2>4
<1>9. QED
  BY <1>6, <1>8 DEF RemovedInv, SoleBuilderInv

\* The block of a task that has recorded its digest is one of its builder's.
LEMMA RecordedBlock ==
  ASSUME ProperRequests, OnceInv, RecordedInv,
         NEW s \in Tasks, pc[s] \in Recorded \cup {"broken"}
  PROVE  req[s].idx \in 1 .. object[ptr[s]].total
<1>1. /\ req[s] \in Requests /\ Accepted(req[s]) /\ ptr[s] \in Tasks
      /\ object[ptr[s]] # None /\ object[ptr[s]].uid = Uid(s)
  BY DEF RecordedInv
<1>2. object[ptr[s]].total = req[s].total
  BY <1>1 DEF OnceInv, TotalsInv, Accepted, Uid
<1>3. /\ req[s].idx \in {0} \cup BlockNumbers
      /\ req[s].total \in {0} \cup BlockNumbers
      /\ req[s].idx # 0 /\ req[s].idx <= req[s].total
  BY <1>1, UploadAssumption DEF ProperRequests, Accepted
<1>4. QED
  BY <1>2, <1>3, BlockUpTo

\* What a task has recorded stays recorded.
LEMMA DeliveryRecorded ==
  ASSUME ProperRequests, OnceInv, RecordedInv,
         NEW t \in Tasks, Step(t), ~Abort(t)
  PROVE  RecordedInv'
<1>1. /\ IInv /\ TypeOK /\ req' = req /\ pc[t] \in Running
      /\ \A s \in Tasks : s # t => pc'[s] = pc[s] /\ ptr'[s] = ptr[s]
      /\ ptr'[t] = ptr[t] \/ pc[t] = "get"
      /\ \A s \in Tasks : Uid(s)' = Uid(s)
  BY TaskMoves DEF OnceInv, IInv, Uid
<1>2. req[t] \in Requests /\ Accepted(req[t]) /\ req[t].data # None
  BY <1>1, UploadAssumption, BlocksAssumption DEF IInv, RequestInv, Accepted
<1> DEFINE Has(s) == /\ req'[s] \in Requests /\ Accepted(req'[s])
                     /\ ptr'[s] \in Tasks /\ object'[ptr'[s]] # None
                     /\ object'[ptr'[s]].uid = Uid(s)'
                     /\ object'[ptr'[s]].hash[req'[s].idx] # None
<1>3. ASSUME NEW s \in Tasks, pc[s] \in Recorded \cup {"broken"}, ptr'[s] = ptr[s]
      PROVE  Has(s)
  <2> DEFINE x == ptr[s]
             i == req[s].idx
  <2>1. /\ req[s] \in Requests /\ Accepted(req[s]) /\ x \in Tasks
        /\ object[x] # None /\ object[x].uid = Uid(s) /\ object[x].hash[i] # None
        /\ i \in 1 .. object[x].total
    BY <1>3, RecordedBlock DEF RecordedInv
  <2>2. object'[x] # None
    BY <1>1, <2>1, ObjectsStay
  <2>3. /\ object'[x].uid = object[x].uid
        /\ object'[x].hash[i] = object[x].hash[i] \/ object'[x].hash[i] = req[t].data
    BY <1>1, <2>1, <2>2, BuilderMoves
  <2> HIDE DEF x, i
  <2>4. object'[x].hash[i] # None
    BY <1>2, <2>1, <2>3
  <2>5. QED
    BY <1>1, <1>3, <2>1, <2>2, <2>3, <2>4 DEF x, i
<1>4. ASSUME pc[t] \notin Recorded, pc'[t] \in Recorded \cup {"broken"}
      PROVE  Has(t)
  <2>1. Compare(t) \/ UpdateBlockHash(t)
    BY <1>1, <1>4 DEF Recorded, Step, GetFileBuilder, GetFileBuilderFails, OpenPart,
       OpenPartFails, WritePart, WritePartFails, Touch, CheckReady, OpenResult,
       OpenResultFails, CopyBlock, CopyBlockFails, DeleteFileBuilder, ClearBlock,
       Notify, Goto, TypeOK
  <2> DEFINE o == ptr[t]
             k == req[t].idx
             d == req[t].data
  <2>2. /\ pc[t] \in {"compare", "record"} /\ ptr'[t] = o
        /\ o \in Tasks /\ object[o] # None /\ object[o].uid = Uid(t)
    BY <1>1, <2>1 DEF Compare, UpdateBlockHash, Goto, IInv, PointerInv, Holding,
                      UsesBuilder
  <2>3. CASE Compare(t)
    <3>1. object' = object /\ ~NeedsWrite(object[o], k, d)
      BY <1>1, <1>4, <2>3 DEF Compare, Goto, Recorded, TypeOK, heap, Builder
    <3>2. object[o].hash[k] = d
      BY <3>1 DEF NeedsWrite
    <3> HIDE DEF d
    <3>3. d # None
      BY <1>2 DEF d
    <3>4. QED
      BY <1>1, <1>2, <2>2, <3>1, <3>2, <3>3
  <2>4. CASE UpdateBlockHash(t)
    <3>1. /\ k \in 1 .. object[o].total /\ object[o] \in BuilderObjects
      BY <1>1, <2>2, <2>4 DEF UpdateBlockHash, Goto, IInv, NumberInv, TypeOK, Builder
    <3>2. object'[o] = [object[o] EXCEPT !.hash[k] = d]
      BY <1>1, <2>2, <2>4 DEF UpdateBlockHash, TypeOK
    <3>3. /\ object[o] = [uid |-> object[o].uid, total |-> object[o].total,
                          hash |-> object[o].hash]
          /\ object[o].hash \in [1 .. object[o].total -> Blocks \cup {None}]
      BY <3>1, BuilderFields
    <3>4. object'[o].uid = object[o].uid /\ object'[o].hash[k] = d
      BY <3>1, <3>2, <3>3
    <3>5. object'[o] # None
      BY <1>1, <2>2, ObjectsStay
    <3>6. object'[o].hash[k] # None
      BY <1>2, <3>4
    <3> HIDE DEF o, k, d
    <3>7. QED
      BY <1>1, <1>2, <2>2, <3>4, <3>5, <3>6 DEF o, k
  <2>5. QED
    BY <2>1, <2>3, <2>4
<1>5. ASSUME NEW s \in Tasks, pc'[s] \in Recorded \cup {"broken"}
      PROVE  Has(s)
  <2>1. CASE s # t
    BY <1>1, <1>3, <1>5, <2>1
  <2>2. CASE s = t /\ pc[t] \in Recorded
    <3>1. ptr'[t] = ptr[t]
      BY <1>1, <2>2 DEF Recorded
    <3>2. QED
      BY <1>3, <2>2, <3>1
  <2>3. CASE s = t /\ pc[t] \notin Recorded
    BY <1>4, <1>5, <2>3
  <2>4. QED
    BY <2>1, <2>2, <2>3
<1>6. QED
  BY <1>5 DEF RecordedInv


\* A builder that has become complete has a task to deliver it, and it stays
\* so until the upload is published.
LEMMA DeliveryCompletes ==
  ASSUME ProperRequests, OnceInv, RecordedInv, CompletionInv,
         NEW t \in Tasks, Step(t), ~Abort(t)
  PROVE  CompletionInv'
<1>1. /\ IInv /\ TypeOK /\ req' = req /\ pc[t] \in Running
      /\ \A s \in Tasks : s # t => pc'[s] = pc[s] /\ ptr'[s] = ptr[s]
      /\ ptr'[t] = ptr[t] \/ pc[t] = "get"
  BY TaskMoves DEF OnceInv, IInv
<1>2. req[t] \in Requests /\ req[t].total \in BlockNumbers
  BY <1>1, UploadAssumption DEF IInv, RequestInv
<1>3. /\ published \in Seq(Uids)
      /\ \/ published' = published
         \/ Notify(t) /\ published' = Append(published, Uid(t))
  <2>1. published' = published \/ Notify(t)
    BY DEF Step, GetFileBuilder, GetFileBuilderFails, Compare, OpenPart,
       OpenPartFails, WritePart, WritePartFails, UpdateBlockHash, Touch,
       CheckReady, OpenResult, OpenResultFails, CopyBlock, CopyBlockFails,
       DeleteFileBuilder, ClearBlock
  <2>2. QED
    BY <1>1, <2>1 DEF Notify, TypeOK
<1>4. Range(published) \subseteq Range(published)'
  BY <1>3 DEF Range
<1>5. Notify(t) => Uid(t) \in Range(published)'
  <2>1. Notify(t) => published' = Append(published, Uid(t)) /\ Len(published) + 1 \in DOMAIN published'
    BY <1>3 DEF Notify
  <2>2. QED
    BY <1>3, <2>1 DEF Range
<1> DEFINE C == Completing \cup {"clear", "notify"}
<1> SUFFICES ASSUME NEW x \in Tasks, object'[x] # None, IsReady(object'[x])
             PROVE  \/ \E s \in Tasks : ptr'[s] = x /\ pc'[s] \in C
                    \/ object'[x].uid \in Range(published)'
  BY DEF CompletionInv
<1>6. CASE object[x] # None /\ IsReady(object[x])
  <2>1. object'[x].uid = object[x].uid
    BY <1>1, <1>6, BuilderMoves
  <2>2. CASE object[x].uid \in Range(published)
    BY <1>4, <2>1, <2>2
  <2>3. ASSUME NEW s \in Tasks, ptr[s] = x, pc[s] \in C, s # t
        PROVE  ptr'[s] = x /\ pc'[s] \in C
    BY <1>1, <2>3
  <2>4. ASSUME ptr[t] = x, pc[t] \in C
        PROVE  \/ ptr'[t] = x /\ pc'[t] \in C
               \/ object[x].uid \in Range(published)'
    <3>1. /\ pc[t] \in {"touch", "check", "build", "copy", "erase", "clear", "notify"}
          /\ ptr'[t] = x
      BY <1>1, <2>4 DEF Completing, Running
    <3>2. pc'[t] \in Recorded \cup {"broken"}
      BY <1>1, <3>1, TaskMoves
    <3>3. CASE pc'[t] # "ok"
      BY <3>1, <3>2, <3>3 DEF Recorded, Completing
    <3>4. CASE pc'[t] = "ok"
      <4>1. CheckReady(t) \/ Notify(t)
        BY <1>1, <3>1, <3>4 DEF Step, GetFileBuilder, GetFileBuilderFails, Compare,
           OpenPart, OpenPartFails, WritePart, WritePartFails, UpdateBlockHash,
           Touch, OpenResult, OpenResultFails, CopyBlock, CopyBlockFails,
           DeleteFileBuilder, ClearBlock, Goto, TypeOK
      <4>2. ~CheckReady(t)
        <5>1. IsReady(Builder(t))
          BY <1>6, <2>4 DEF Builder
        <5>2. QED
          BY <1>1, <3>4, <5>1 DEF CheckReady, Goto, TypeOK
      <4>3. Uid(t) = object[x].uid
        BY <2>4, <3>1 DEF RecordedInv, Recorded
      <4>4. QED
        BY <1>5, <4>1, <4>2, <4>3
    <3>5. QED
      BY <3>3, <3>4
  <2>5. CASE \E s \in Tasks : ptr[s] = x /\ pc[s] \in C
    BY <2>1, <2>3, <2>4, <2>5
  <2>6. QED
    BY <1>6, <2>2, <2>5 DEF CompletionInv
<1>7. CASE object[x] # None /\ ~IsReady(object[x])
  <2>1. UpdateBlockHash(t) /\ ptr[t] = x
    BY <1>1, <1>7, BuilderMoves DEF IsReady
  <2>2. ptr'[t] = x /\ pc'[t] = "touch"
    BY <1>1, <2>1 DEF UpdateBlockHash, Goto, TypeOK
  <2>3. QED
    BY <2>2 DEF Completing
<1>8. CASE object[x] = None
  <2>1. /\ object'[x].total = req[t].total
        /\ \A i \in 1 .. req[t].total : object'[x].hash[i] = None
    BY <1>1, <1>8, BuilderMoves
  <2>2. 1 \in 1 .. req[t].total
    BY <1>2, SomeBlock
  <2>3. QED
    BY <2>1, <2>2 DEF IsReady
<1>9. QED
  BY <1>6, <1>7, <1>8

\* A process that has died has died for good.
LEMMA DiedStays ==
  ASSUME TypeOK, [Next]_vars
  PROVE  /\ Died => Died'
         /\ ~Died' => \/ \E t \in Tasks : Step(t) /\ ~Abort(t)
                      \/ \E t \in Tasks, r \in Requests : HandleRequest(t, r)
                      \/ UNCHANGED vars
<1>1. \A s \in Tasks : pc[s] = "lost" => pc'[s] = "lost"
  BY FinishedStays DEF Finished, Failure
<1>2. restarts' = restarts \/ Crash
  BY DEF Next, Step, HandleRequest, GetFileBuilder, GetFileBuilderFails, Compare,
     OpenPart, OpenPartFails, WritePart, WritePartFails, UpdateBlockHash, Touch,
     CheckReady, OpenResult, OpenResultFails, CopyBlock, CopyBlockFails,
     DeleteFileBuilder, ClearBlock, Notify, Abort, vars
<1>3. Crash => restarts' > 0
  BY DEF Crash, TypeOK
<1>4. restarts > 0 => restarts' > 0
  BY <1>2, <1>3
<1>5. ASSUME NEW t \in Tasks, Abort(t)
      PROVE  Died'
  <2>1. pc[t] \in Running /\ ProcessDies
    BY <1>5 DEF Abort, UsesBuilder, Running
  <2>2. pc'[t] = "lost"
    BY <2>1 DEF ProcessDies
  <2>3. QED
    BY <2>2 DEF Died
<1>6. Crash => Died'
  BY <1>3 DEF Died
<1>7. Died => Died'
  BY <1>1, <1>4 DEF Died
<1>8. QED
  BY <1>5, <1>6, <1>7 DEF Next

\* Every step keeps what the delivery rests on.
LEMMA DeliveryNext ==
  ASSUME PostsOnce, ProperRequests, DeliveryInv, [Next]_vars
  PROVE  DeliveryInv'
<1>1. OnceInv /\ OnceInv' /\ RemovedInv /\ SoleBuilderInv /\ TypeOK
  BY OnceNext DEF DeliveryInv, OnceInv, IInv
<1> DEFINE Rest == RecordedInv /\ CompletionInv
<1>2. ASSUME NEW t \in Tasks, Step(t), ~Abort(t)
      PROVE  RemovedInv' /\ SoleBuilderInv' /\ (Rest => Rest')
  BY <1>1, <1>2, DeliveryBuilders, DeliveryRecorded, DeliveryCompletes
<1>3. ASSUME Crash \/ \E t \in Tasks : Abort(t)
      PROVE  RemovedInv' /\ SoleBuilderInv'
  <2>1. \A x \in Tasks : object'[x] = None
    BY <1>3 DEF Crash, Abort, ProcessDies
  <2>2. QED
    BY <2>1 DEF RemovedInv, SoleBuilderInv
<1>4. ASSUME UNCHANGED vars
      PROVE  RemovedInv' /\ SoleBuilderInv' /\ (Rest => Rest')
  <2>1. UNCHANGED <<pc, req, ptr, object, builders, published>>
    BY <1>4 DEF vars, task, heap
  <2>2. \A s \in Tasks : Uid(s)' = Uid(s)
    BY <2>1 DEF Uid
  <2>3. RemovedInv' /\ SoleBuilderInv'
    BY <1>1, <2>1 DEF RemovedInv, SoleBuilderInv
  <2>4. RecordedInv => RecordedInv'
    BY <2>1, <2>2 DEF RecordedInv
  <2>5. CompletionInv => CompletionInv'
    BY <2>1 DEF CompletionInv
  <2>6. QED
    BY <2>3, <2>4, <2>5
<1>5. ASSUME NEW t \in Tasks, NEW r \in Requests, HandleRequest(t, r)
      PROVE  RemovedInv' /\ SoleBuilderInv' /\ (Rest => Rest')
  <2>1. /\ pc[t] = "idle" /\ pc'[t] \in {"rejected", "get"}
        /\ \A s \in Tasks : s # t =>
             pc'[s] = pc[s] /\ req'[s] = req[s] /\ Uid(s)' = Uid(s)
        /\ UNCHANGED <<ptr, object, builders, published>>
    BY <1>1, <1>5, Arrives
  <2>2. RemovedInv' /\ SoleBuilderInv'
    BY <1>1, <2>1 DEF RemovedInv, SoleBuilderInv
  <2>3. RecordedInv => RecordedInv'
    BY <2>1 DEF RecordedInv, Recorded
  <2>4. CompletionInv => CompletionInv'
    <3> SUFFICES ASSUME CompletionInv, NEW x \in Tasks, object[x] # None,
                        IsReady(object[x]), object[x].uid \notin Range(published)
                 PROVE  \E s \in Tasks : /\ ptr'[s] = x
                                         /\ pc'[s] \in Completing \cup {"clear", "notify"}
      BY <2>1 DEF CompletionInv
    <3>1. PICK s \in Tasks : ptr[s] = x /\ pc[s] \in Completing \cup {"clear", "notify"}
      BY DEF CompletionInv
    <3>2. s # t
      BY <2>1, <3>1 DEF Completing
    <3>3. QED
      BY <2>1, <3>1, <3>2
  <2>5. QED
    BY <2>2, <2>3, <2>4
<1>6. RemovedInv' /\ SoleBuilderInv'
  BY <1>2, <1>3, <1>4, <1>5 DEF Next
<1>7. Died' \/ Rest'
  <2>1. CASE Died
    BY <1>1, <2>1, DiedStays
  <2>2. CASE ~Died /\ ~Died'
    <3>1. Rest
      BY <2>2 DEF DeliveryInv
    <3>2. QED
      BY <1>1, <1>2, <1>4, <1>5, <2>2, <3>1, DiedStays
  <2>3. QED
    BY <2>1, <2>2
<1>8. QED
  BY <1>1, <1>6, <1>7 DEF DeliveryInv

\* The tasks of a video that has been answered in full are those that
\* completed its one builder, and one of them has delivered it.
LEMMA PushedDelivered ==
  ASSUME PostsOnce, ProperRequests, DeliveryInv
  PROVE  PushedIsPublished
<1> SUFFICES ASSUME ~Died, NEW u \in Uids, AllPushed(u)
             PROVE  u \in Range(published)
  BY DEF PushedIsPublished
<1>1. OnceInv /\ SoleBuilderInv /\ RecordedInv /\ CompletionInv /\ NoRepeatInv
  BY DEF DeliveryInv, OnceInv
<1>2. PICK r \in Requests :
        /\ r.uid = u /\ r.total # 0
        /\ \A i \in 1 .. r.total :
             \E t \in Tasks : pc[t] = "ok" /\ Uid(t) = u /\ req[t].idx = i
  BY DEF AllPushed
<1>3. 1 \in 1 .. r.total
  BY <1>2, SomeBlock, UploadAssumption
<1>4. ASSUME NEW t \in Tasks, pc[t] = "ok", Uid(t) = u
      PROVE  /\ ptr[t] \in Tasks /\ object[ptr[t]] # None
             /\ object[ptr[t]].uid = u /\ object[ptr[t]].hash[req[t].idx] # None
  BY <1>1, <1>4 DEF RecordedInv, Recorded
<1>5. PICK x \in Tasks : object[x] # None /\ object[x].uid = u
  BY <1>2, <1>3, <1>4
<1>6. object[x].total = r.total
  BY <1>1, <1>2, <1>5 DEF OnceInv, TotalsInv
<1>7. IsReady(object[x])
  <2>1. ASSUME NEW i \in 1 .. r.total
        PROVE  object[x].hash[i] # None
    <3>1. PICK t \in Tasks : pc[t] = "ok" /\ Uid(t) = u /\ req[t].idx = i
      BY <1>2
    <3>2. ptr[t] = x
      BY <1>1, <1>4, <1>5, <3>1 DEF SoleBuilderInv
    <3>3. QED
      BY <1>4, <3>1, <3>2
  <2>2. QED
    BY <1>6, <2>1 DEF IsReady
<1>8. ASSUME NEW s \in Tasks, ptr[s] = x, pc[s] \in Completing \cup {"clear", "notify"}
      PROVE  FALSE
  <2>1. pc[s] \in (Recorded \cup {"broken"}) \ {"ok"}
    BY <1>8 DEF Completing, Recorded
  <2>2. req[s] \in Requests /\ Accepted(req[s]) /\ Uid(s) = u
    BY <1>1, <1>5, <1>8, <2>1 DEF RecordedInv
  <2>3. req[s].idx \in 1 .. r.total
    BY <1>1, <1>6, <1>8, <2>1, RecordedBlock
  <2>4. PICK t \in Tasks : pc[t] = "ok" /\ Uid(t) = u /\ req[t].idx = req[s].idx
    BY <1>2, <2>3
  <2>5. req[t] \in Requests /\ Accepted(req[t])
    BY <1>1, <2>4 DEF RecordedInv, Recorded
  <2>6. s = t
    BY <1>1, <2>2, <2>4, <2>5, OneTaskPerBlock
  <2>7. QED
    BY <2>1, <2>4, <2>6
<1>9. QED
  BY <1>1, <1>5, <1>7, <1>8 DEF CompletionInv

\* They hold before the first request.
LEMMA DeliveryInit == Init => DeliveryInv
<1> SUFFICES ASSUME Init PROVE DeliveryInv
  OBVIOUS
<1>1. /\ \A s \in Tasks : pc[s] = "idle" /\ object[s] = None
      /\ OnceInv
  BY OnceInit DEF Init, OnceFilesInv
<1>2. RemovedInv /\ SoleBuilderInv /\ CompletionInv
  BY <1>1 DEF RemovedInv, SoleBuilderInv, CompletionInv
<1>3. RecordedInv
  BY <1>1 DEF RecordedInv, Recorded
<1>4. QED
  BY <1>1, <1>2, <1>3 DEF DeliveryInv

\* With any number of requests in flight and any file operation failing, an
\* upload all of whose blocks have been answered with 200 has been handed to
\* the converter, as long as each block is posted once and the process lives.
THEOREM DeliveredBeforeAnswer ==
  ASSUME PostsOnce, ProperRequests
  PROVE  Spec => []PushedIsPublished
<1>1. DeliveryInv /\ [Next]_vars => DeliveryInv'
  BY DeliveryNext
<1>2. DeliveryInv => PushedIsPublished
  BY PushedDelivered
<1>3. QED
  BY <1>1, <1>2, DeliveryInit, PTL DEF Spec


\* A task that has passed the handler's checks serves an accepted request.
LEMMA AcceptedKept ==
  ASSUME IInv, AcceptedInv, [Next]_vars
  PROVE  AcceptedInv'
<1>1. TypeOK
  BY DEF IInv
<1>2. ASSUME req' = req, \A s \in Tasks : pc[s] \in {"idle", "rejected"} => pc'[s] = pc[s]
      PROVE  AcceptedInv'
  BY <1>2 DEF AcceptedInv
<1>3. ASSUME NEW t \in Tasks, NEW r \in Requests, HandleRequest(t, r)
      PROVE  AcceptedInv'
  <2>1. /\ req'[t] = r
        /\ pc'[t] # "rejected" => Accepted(r)
        /\ \A s \in Tasks : s # t => pc'[s] = pc[s] /\ req'[s] = req[s]
    BY <1>1, <1>3 DEF HandleRequest, Goto, TypeOK, Accepted
  <2>2. QED
    BY <2>1 DEF AcceptedInv
<1>4. ASSUME NEW t \in Tasks, Step(t), ~Abort(t)
      PROVE  AcceptedInv'
  <2>1. /\ req' = req /\ pc[t] \in Running
        /\ \A s \in Tasks : s # t => pc'[s] = pc[s]
    BY <1>1, <1>4, TaskMoves
  <2>2. QED
    BY <1>2, <2>1 DEF Running
<1>5. ASSUME ProcessDies
      PROVE  AcceptedInv'
  BY <1>2, <1>5 DEF ProcessDies, Running
<1>6. ASSUME UNCHANGED vars
      PROVE  AcceptedInv'
  BY <1>2, <1>6 DEF vars, task
<1>7. QED
  BY <1>3, <1>4, <1>5, <1>6 DEF Next, Crash, Abort

\* When all requests are for one upload, a request cut off by an abort leaves
\* its block unanswered for good.
LEMMA CutOffUnanswered ==
  ASSUME PostsOnce, ProperRequests, OneUpload, DeliveryInv, AcceptedInv,
         restarts = 0, NEW u \in Uids, AllPushed(u)
  PROVE  u \in Range(published)
<1>1. NoRepeatInv
  BY DEF DeliveryInv, OnceInv
<1>2. PICK r \in Requests :
        /\ r.uid = u /\ r.total # 0
        /\ \A i \in 1 .. r.total :
             \E t \in Tasks : pc[t] = "ok" /\ Uid(t) = u /\ req[t].idx = i
  BY DEF AllPushed
<1>3. ASSUME NEW s \in Tasks, pc[s] = "lost"
      PROVE  FALSE
  <2>1. req[s] \in Requests /\ Accepted(req[s])
    BY <1>3 DEF AcceptedInv
  <2>2. Uid(s) = u
    BY <1>2, <2>1 DEF OneUpload, Uid
  <2>3. req[s].idx \in 1 .. r.total
    <3>1. /\ req[s].idx \in {0} \cup BlockNumbers /\ r.total \in {0} \cup BlockNumbers
          /\ req[s].idx # 0 /\ req[s].idx <= req[s].total
      BY <2>1, UploadAssumption DEF ProperRequests, Accepted
    <3>2. req[s].total = r.total
      BY <1>2, <2>1, <2>2 DEF ProperRequests, Accepted, Uid
    <3>3. QED
      BY <3>1, <3>2, BlockUpTo
  <2>4. PICK t \in Tasks : pc[t] = "ok" /\ Uid(t) = u /\ req[t].idx = req[s].idx
    BY <1>2, <2>3
  <2>5. req[t] \in Requests /\ Accepted(req[t])
    BY <2>4 DEF AcceptedInv
  <2>6. s = t
    BY <1>1, <2>1, <2>2, <2>4, <2>5, OneTaskPerBlock
  <2>7. QED
    BY <1>3, <2>4, <2>6
<1>4. ~Died
  BY <1>3 DEF Died
<1>5. QED
  BY <1>4, PushedDelivered DEF PushedIsPublished

\* A client that posts the blocks of one video, each once and as many at a
\* time as it likes, has the video delivered if all are answered with 200,
\* whatever file operations fail, if the service is not stopped: also when a
\* second build uses the builder the first has destroyed and the process
\* aborts.  No fairness is needed: it is delivered before the last answer.
THEOREM UploadReachesConverter ==
  ASSUME PostsOnce, ProperRequests, OneUpload, MaxRestarts = 0
  PROVE  Spec => CompleteUploadPublished
<1> DEFINE I == DeliveryInv /\ AcceptedInv /\ restarts = 0
<1>1. Init => I
  BY DeliveryInit DEF Init, AcceptedInv
<1>2. I /\ [Next]_vars => I'
  <2> SUFFICES ASSUME I, [Next]_vars PROVE I'
    OBVIOUS
  <2>1. IInv
    BY DEF DeliveryInv, OnceInv
  <2>2. DeliveryInv' /\ AcceptedInv'
    BY <2>1, DeliveryNext, AcceptedKept
  <2>3. ~Crash
    BY DEF Crash
  <2>4. restarts' = restarts
    BY <2>3 DEF Next, Step, HandleRequest, GetFileBuilder, GetFileBuilderFails,
       Compare, OpenPart, OpenPartFails, WritePart, WritePartFails,
       UpdateBlockHash, Touch, CheckReady, OpenResult, OpenResultFails,
       CopyBlock, CopyBlockFails, DeleteFileBuilder, ClearBlock, Notify, Abort,
       vars
  <2>5. QED
    BY <2>2, <2>4
<1>3. ASSUME NEW u \in Uids
      PROVE  I => (AllPushed(u) => u \in Range(published))
  BY CutOffUnanswered
<1>4. ASSUME NEW u \in Uids
      PROVE  Spec => (AllPushed(u) ~> (u \in Range(published)))
  <2>1. I => (AllPushed(u) => u \in Range(published))
    BY <1>3
  <2>2. QED
    BY <1>1, <1>2, <2>1, PTL DEF Spec
<1>5. QED
  BY <1>4 DEF CompleteUploadPublished

=============================================================================

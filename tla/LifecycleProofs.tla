--------------------------- MODULE LifecycleProofs ---------------------------
(***************************************************************************)
(* What the service leaves behind when it ends, and what the callback and  *)
(* the worker find while it runs, for any constructors that may throw and  *)
(* any number of requests and videos.  What ConvertProofs proves of the    *)
(* ConvertController holds of the one in the service.                      *)
(***************************************************************************)
EXTENDS ServiceLifecycle, SequenceTheorems, TLAPS

Conversion == INSTANCE ConvertProofs WITH Producers <- Requests

-----------------------------------------------------------------------------
(* The converter in the service.                                           *)

\* The components the callback connects are registered; dash-converter finds
\* the process starter first, and no component looks for dash-converter.
LEMMA Names ==
  /\ {Dash, "upload-processor", "process-starter"} \subseteq Registered
  /\ Needs(Dash) = {"process-starter", "upload-processor"}
  /\ NeedsFirst(Dash) = {"process-starter"}
  /\ \A c : Dash \notin Needs(c)
<1> USE DEF Dash, Needs, UploadHandlerNeeds, UploadAccessorNeeds,
            VideosTakeHandlerNeeds, OptionsHandlerNeeds, StreamHandlerNeeds,
            DashConverterNeeds, FsCache
<1>1. {Dash, "upload-processor", "process-starter"} \subseteq Registered
  BY DEF Registered
<1>2. Needs(Dash) = {"process-starter", "upload-processor"}
  OBVIOUS
<1>3. NeedsFirst(Dash) = {"process-starter"}
  BY DEF NeedsFirst
<1>4. ASSUME NEW c PROVE Dash \notin Needs(c)
  OBVIOUS
<1>5. QED
  BY <1>1, <1>2, <1>3, <1>4

\* The two instances of the conversion side speak of the same invariant.
LEMMA SameInvariant ==
  /\ Converter!IInv <=> Conversion!IInv
  /\ Converter!IInv' <=> Conversion!IInv'
BY DEF Converter!IInv, Converter!TypeOK, Converter!NothingLost,
       Converter!InHand, Converter!NoMissedWakeup, Converter!DrainedAtExit,
       Converter!OnlyAMissedWakeupHangs, Converter!WaitInv, Converter!StopInv,
       Converter!PromiseInv, Converter!Arguments, Converter!Locked,
       Conversion!IInv, Conversion!TypeOK, Conversion!NothingLost,
       Conversion!InHand, Conversion!NoMissedWakeup, Conversion!DrainedAtExit,
       Conversion!OnlyAMissedWakeupHangs, Conversion!WaitInv,
       Conversion!StopInv, Conversion!PromiseInv, Conversion!Arguments,
       Conversion!Locked

\* Every step of the converter, or of nothing, keeps the converter's invariant.
LEMMA ConverterKept ==
  ASSUME Converter!IInv,
         \/ \E r \in Requests : \/ \E v \in Videos : Converter!Enqueue(r, v)
                                \/ Converter!NotifyEnqueued(r)
         \/ Converter!WorkerStep \/ Converter!SetStop \/ Converter!OwnerStep
         \/ UNCHANGED converter
  PROVE  Converter!IInv'
<1>1. ASSUME NEW r \in Requests, NEW v \in Videos, Converter!Enqueue(r, v)
      PROVE  Conversion!Enqueue(r, v)
  BY <1>1 DEF Converter!Enqueue, Converter!LockFree, Converter!Locked,
       Conversion!Enqueue, Conversion!LockFree, Conversion!Locked
<1>2. ASSUME NEW r \in Requests, Converter!NotifyEnqueued(r)
      PROVE  Conversion!NotifyEnqueued(r)
  BY <1>2 DEF Converter!NotifyEnqueued, Converter!NotifyAll, Converter!history,
       Conversion!NotifyEnqueued, Conversion!NotifyAll, Conversion!history
<1>3. ASSUME Converter!WorkerStep PROVE Conversion!WorkerStep
  BY <1>3 DEF Converter!WorkerStep, Converter!Lock, Converter!Test,
       Converter!Wait, Converter!Return, Converter!Take, Converter!Convertion,
       Converter!ConvertionFails, Converter!WorkerGoes, Converter!Apply,
       Converter!VideoOf, Converter!history,
       Conversion!WorkerStep, Conversion!Lock, Conversion!Test,
       Conversion!Wait, Conversion!Return, Conversion!Take,
       Conversion!Convertion, Conversion!ConvertionFails,
       Conversion!WorkerGoes, Conversion!Apply, Conversion!VideoOf,
       Conversion!history
<1>4. ASSUME Converter!SetStop \/ Converter!OwnerStep
      PROVE  Conversion!SetStop \/ Conversion!OwnerStep
  BY <1>4 DEF Converter!SetStop, Converter!OwnerStep, Converter!NotifyStopped,
       Converter!NotifyAll, Converter!Join, Converter!history,
       Conversion!SetStop, Conversion!OwnerStep, Conversion!NotifyStopped,
       Conversion!NotifyAll, Conversion!Join, Conversion!history
<1>5. [Conversion!Next]_(Conversion!vars)
  BY <1>1, <1>2, <1>3, <1>4 DEF Conversion!Next, Conversion!vars,
       Conversion!history, converter
<1>6. None \notin Videos
  BY LifecycleAssumption
<1>7. QED
  BY <1>5, <1>6, SameInvariant, Conversion!NextInv

-----------------------------------------------------------------------------
(* Components that come and go.                                            *)

\* What a component's change of state does to the components in some states.
LEMMA InChanges ==
  ASSUME TypeOK, NEW c \in Registered, NEW from, NEW to, Becomes(c, from, to),
         NEW S
  PROVE  In(S)' = (In(S) \ {c}) \cup (IF to \in S THEN {c} ELSE {})
BY DEF TypeOK, Becomes, In

\* What the invariant says of the life of the service.
ControlInv ==
  TypeOK /\ ServingInv /\ NeedsInv /\ CallbackInv /\ OwnerInv /\ DrainInv

\* At first no component is there and nothing is served.
LEMMA InitInv == Init => IInv
<1> SUFFICES ASSUME Init PROVE IInv
  OBVIOUS
<1>1. Converter!Init
  BY DEF Init
<1>2. Conversion!Init
  BY <1>1 DEF Converter!Init, Converter!InitialCommand, Converter!Arguments,
              Conversion!Init, Conversion!InitialCommand, Conversion!Arguments
<1>3. Converter!IInv
  BY <1>2, SameInvariant, LifecycleAssumption, Conversion!InitInv
<1>4. /\ component = [c \in Registered |-> "waiting"]
      /\ phase = "loading" /\ callback = FALSE /\ served = {}
      /\ completed = <<>> /\ owner = "alive" /\ worker = "lock"
      /\ enqueued = <<>> /\ started = <<>>
  BY <1>1 DEF Init, Converter!Init
<1>5. /\ In({"made", "leaving", "abandoned"}) = {}
      /\ In({"created", "leaving"}) = {}
  BY <1>4 DEF In
<1>6. component[Dash] = "waiting"
  BY <1>4, Names
<1>7. TypeOK
  <2>1. <<>> \in Seq(Videos)
    OBVIOUS
  <2>2. QED
    BY <1>4, <1>5, <2>1 DEF TypeOK
<1>8. ServingInv /\ NeedsInv /\ CallbackInv /\ OwnerInv /\ DrainInv
  BY <1>4, <1>5, <1>6
     DEF ServingInv, NeedsInv, CallbackInv, OwnerInv, DrainInv
<1>9. QED
  BY <1>3, <1>7, <1>8 DEF IInv

\* An ordinary component is created after those it needs.
LEMMA CreateStep ==
  ASSUME IInv, NEW c \in Registered, Create(c)
  PROVE  ControlInv'
<1>1. /\ phase = "loading" /\ c # Dash /\ Needs(c) \subseteq Created
      /\ Becomes(c, "waiting", "created")
      /\ UNCHANGED <<phase, callback, served, completed, converter>>
  BY DEF Create
<1>2. /\ In({"created"})' = In({"created"}) \cup {c}
      /\ In({"created", "leaving"})' = In({"created", "leaving"}) \cup {c}
      /\ In({"made", "leaving", "abandoned"})' \subseteq {Dash}
  BY <1>1, InChanges DEF IInv, TypeOK
<1>3. component'[Dash] = component[Dash] /\ component' \in
        [Registered -> {"waiting", "made", "created", "failed",
                        "leaving", "abandoned", "destroyed"}]
  BY <1>1, Names DEF Becomes, IInv, TypeOK
<1>4. TypeOK' /\ ServingInv'
  BY <1>1, <1>2, <1>3 DEF IInv, TypeOK, ServingInv
<1>5. NeedsInv'
  BY <1>1, <1>2, <1>3 DEF IInv, NeedsInv, Created
<1>6. CallbackInv' /\ OwnerInv' /\ DrainInv'
  BY <1>1, <1>3 DEF IInv, CallbackInv, OwnerInv, DrainInv, converter
<1>7. QED
  BY <1>4, <1>5, <1>6 DEF ControlInv

\* The controller is made; it has been in its initial state until then.
LEMMA MakeStep ==
  ASSUME IInv, MakeController
  PROVE  ControlInv'
<1>1. /\ phase = "loading" /\ NeedsFirst(Dash) \subseteq Created
      /\ Becomes(Dash, "waiting", "made")
      /\ UNCHANGED <<phase, callback, served, completed, converter>>
  BY DEF MakeController
<1>2. /\ In({"created"})' = In({"created"})
      /\ In({"created", "leaving"})' = In({"created", "leaving"})
      /\ In({"made", "leaving", "abandoned"})' \subseteq {Dash}
  BY <1>1, InChanges, Names DEF IInv, TypeOK, Becomes, In
<1>3. component[Dash] = "waiting" /\ component'[Dash] = "made"
      /\ component' \in
        [Registered -> {"waiting", "made", "created", "failed",
                        "leaving", "abandoned", "destroyed"}]
  BY <1>1, Names DEF Becomes, IInv, TypeOK
<1>4. TypeOK' /\ ServingInv'
  BY <1>1, <1>2, <1>3 DEF IInv, TypeOK, ServingInv
<1>5. NeedsInv'
  BY <1>1, <1>2, <1>3 DEF IInv, NeedsInv, Created
<1>6. CallbackInv' /\ OwnerInv' /\ DrainInv'
  BY <1>1, <1>3 DEF IInv, CallbackInv, OwnerInv, DrainInv, converter
<1>7. QED
  BY <1>4, <1>5, <1>6 DEF ControlInv

\* The callback is registered before dash-converter counts as created, with a
\* controller that is there.
LEMMA RegisterStep ==
  ASSUME IInv, RegisterCallback
  PROVE  ControlInv'
<1>1. /\ "upload-processor" \in Created /\ Becomes(Dash, "made", "created")
      /\ callback' = TRUE
      /\ UNCHANGED <<phase, served, completed, converter>>
  BY DEF RegisterCallback, GetUploadControllerPtr, SetCallback
<1>2. /\ In({"created"})' = In({"created"}) \cup {Dash}
      /\ In({"created", "leaving"})' = In({"created", "leaving"}) \cup {Dash}
      /\ In({"made", "leaving", "abandoned"})' \subseteq {Dash}
  BY <1>1, InChanges, Names DEF IInv, TypeOK
<1>3. component[Dash] = "made" /\ component'[Dash] = "created"
      /\ component' \in
        [Registered -> {"waiting", "made", "created", "failed",
                        "leaving", "abandoned", "destroyed"}]
  BY <1>1, Names DEF Becomes, IInv, TypeOK
<1>4. TypeOK' /\ ServingInv'
  <2>1. Created # Registered
    BY <1>3, Names DEF Created, In
  <2>2. QED
    BY <1>1, <1>2, <1>3, <2>1 DEF IInv, TypeOK, ServingInv
<1>5. NeedsInv'
  <2>1. Needs(Dash) \subseteq Created
    BY <1>1, <1>3, Names DEF IInv, NeedsInv
  <2>2. QED
    BY <1>2, <1>3, <2>1 DEF IInv, NeedsInv, Created
<1>6. CallbackInv' /\ OwnerInv' /\ DrainInv'
  BY <1>1, <1>3 DEF IInv, CallbackInv, OwnerInv, DrainInv, converter
<1>7. QED
  BY <1>4, <1>5, <1>6 DEF ControlInv

\* A component that fails is needed by none that is there.
LEMMA CreateFailsStep ==
  ASSUME IInv, NEW c \in Registered, CreateFails(c)
  PROVE  ControlInv'
<1>1. /\ phase = "loading" /\ phase' = "unwinding"
      /\ Becomes(c, "waiting", "failed")
      /\ UNCHANGED <<callback, served, completed, converter>>
  BY DEF CreateFails
<1>2. /\ In({"created"})' = In({"created"})
      /\ In({"created", "leaving"})' = In({"created", "leaving"})
      /\ In({"made", "leaving", "abandoned"})' \subseteq {Dash}
  BY <1>1, InChanges DEF IInv, TypeOK, Becomes, In
<1>3. component' \in [Registered -> {"waiting", "made", "created", "failed",
                                     "leaving", "abandoned", "destroyed"}]
  BY <1>1 DEF Becomes, IInv, TypeOK
<1>8. \/ component'[Dash] = component[Dash]
      \/ component[Dash] = "waiting" /\ component'[Dash] = "failed"
  BY <1>1, Names DEF Becomes, IInv, TypeOK
<1>4. TypeOK' /\ ServingInv'
  BY <1>1, <1>2, <1>3 DEF IInv, TypeOK, ServingInv
<1>5. NeedsInv'
  BY <1>1, <1>2, <1>8 DEF IInv, NeedsInv, Created
<1>6. CallbackInv' /\ OwnerInv' /\ DrainInv'
  BY <1>1, <1>8 DEF IInv, CallbackInv, OwnerInv, DrainInv, converter
<1>7. QED
  BY <1>4, <1>5, <1>6 DEF ControlInv

\* Steps of the service and of its requests that change no component and
\* nothing of the converter.
LEMMA PhaseStep ==
  ASSUME IInv,
         \/ Loaded \/ Stop \/ Drained \/ Exit \/ UNCHANGED vars
         \/ \E r \in Requests : Receive(r) \/ Answer(r)
  PROVE  ControlInv'
<1>1. UNCHANGED <<component, callback, completed, converter>>
  BY DEF Loaded, Stop, Drained, Exit, Receive, Answer, vars
<1>2. \A S : In(S)' = In(S)
  BY <1>1 DEF In
<1>3. NeedsInv' /\ CallbackInv' /\ DrainInv'
  BY <1>1, <1>2 DEF IInv, NeedsInv, CallbackInv, DrainInv, Created, converter
<1>4. TypeOK' /\ ServingInv'
  BY <1>1, <1>2 DEF IInv, TypeOK, ServingInv, Created, Loaded, Stop, Drained,
                    Exit, Receive, Answer, vars
<1>5. OwnerInv'
  <2>1. CASE Exit
    <3>1. phase' = "exited"
          /\ component[Dash] \notin {"made", "created", "leaving", "abandoned"}
      BY <2>1, Names DEF Exit, In
    <3>2. component[Dash] \in {"waiting", "failed", "destroyed"}
      BY <3>1, Names DEF IInv, TypeOK
    <3>3. QED
      BY <1>1, <3>2 DEF IInv, OwnerInv, converter
  <2>2. CASE ~Exit
    <3>1. phase' = "exited" => phase = "exited"
      BY <2>2 DEF Loaded, Stop, Drained, Receive, Answer, vars
    <3>2. QED
      BY <1>1, <3>1 DEF IInv, OwnerInv, converter
  <2>3. QED
    BY <2>1, <2>2
<1>6. QED
  BY <1>3, <1>4, <1>5 DEF ControlInv

\* A completed upload finds the callback, and the worker has not left.
LEMMA CompleteStep ==
  ASSUME IInv, NEW r \in Requests, NEW v \in Videos, Complete(r, v)
  PROVE  ControlInv' /\ Converter!Enqueue(r, v)
<1>1. served # {} /\ UNCHANGED <<component, phase, callback, served>>
  BY DEF Complete
<1>2. phase \in {"running", "stopping"} /\ component[Dash] = "created"
  BY <1>1, Names DEF IInv, ServingInv, Created, In
<1>3. callback = TRUE /\ owner = "alive"
  BY <1>2 DEF IInv, TypeOK, CallbackInv, OwnerInv
<1>4. Converter!Enqueue(r, v) /\ completed' = Append(completed, v)
  BY <1>3 DEF Complete
<1>5. /\ enqueued' = Append(enqueued, v)
      /\ UNCHANGED <<worker, owner, started>>
  BY <1>4 DEF Converter!Enqueue
<1>6. worker # "done"
  BY <1>3 DEF IInv, Converter!IInv, Converter!DrainedAtExit, Converter!StopInv
<1>7. \A S : In(S)' = In(S)
  BY <1>1 DEF In
<1>8. TypeOK' /\ ServingInv' /\ NeedsInv' /\ CallbackInv'
  BY <1>1, <1>4, <1>7, AppendProperties
     DEF IInv, TypeOK, ServingInv, NeedsInv, CallbackInv, Created
<1>9. OwnerInv' /\ DrainInv'
  BY <1>1, <1>2, <1>3, <1>4, <1>5, <1>6 DEF IInv, OwnerInv, DrainInv
<1>10. QED
  BY <1>4, <1>8, <1>9 DEF ControlInv

\* The worker, and the calls that wake it, change only the converter; a worker
\* that leaves leaves an empty queue.
LEMMA WorkStep ==
  ASSUME IInv, Work \/ \E r \in Requests : NotifyEnqueued(r)
  PROVE  ControlInv'
<1>1. UNCHANGED <<component, phase, callback, served, completed>>
  BY DEF Work, NotifyEnqueued
<1>2. UNCHANGED <<owner, enqueued>>
  BY DEF Work, NotifyEnqueued, Converter!NotifyEnqueued, Converter!WorkerStep,
         Converter!Lock, Converter!Test, Converter!Wait, Converter!Return,
         Converter!Take, Converter!Convertion, Converter!ConvertionFails,
         Converter!history
<1>3. worker' = "done" => queue' = <<>>
  BY DEF IInv, DrainInv, Work, NotifyEnqueued, Converter!NotifyEnqueued,
         Converter!NotifyAll, Converter!WorkerStep, Converter!Lock,
         Converter!Test, Converter!Wait, Converter!Return, Converter!Take,
         Converter!Convertion, Converter!ConvertionFails, Converter!WorkerGoes
<1>4. worker = "done" => worker' = "done"
  BY DEF Work, NotifyEnqueued, Converter!NotifyEnqueued, Converter!NotifyAll,
         Converter!WorkerStep, Converter!Lock, Converter!Test, Converter!Wait,
         Converter!Return, Converter!Take, Converter!Convertion,
         Converter!ConvertionFails, Converter!WorkerGoes
<1>5. component[Dash] \in {"waiting", "failed"} =>
        worker' = worker /\ started' = started
  <2>1. CASE Work
    BY <2>1 DEF Work
  <2>2. CASE \E r \in Requests : NotifyEnqueued(r)
    BY <2>2 DEF NotifyEnqueued, Converter!NotifyEnqueued, Converter!NotifyAll,
                Converter!history, IInv, OwnerInv
  <2>3. QED
    BY <2>1, <2>2
<1>6. \A S : In(S)' = In(S)
  BY <1>1 DEF In
<1>7. TypeOK' /\ ServingInv' /\ NeedsInv' /\ CallbackInv'
  BY <1>1, <1>6 DEF IInv, TypeOK, ServingInv, NeedsInv, CallbackInv, Created
<1>8. OwnerInv' /\ DrainInv'
  BY <1>1, <1>2, <1>3, <1>4, <1>5 DEF IInv, OwnerInv, DrainInv
<1>9. QED
  BY <1>7, <1>8 DEF ControlInv

\* A component is destroyed when none that is there needs it.
LEMMA DestroyStep ==
  ASSUME IInv, NEW c \in Registered, Destroy(c)
  PROVE  ControlInv'
<1>1. /\ phase = "unwinding" /\ c # Dash
      /\ In({"made", "abandoned"}) = {}
      /\ \A d \in In({"created", "leaving"}) : c \notin Needs(d)
      /\ Becomes(c, "created", "destroyed")
      /\ UNCHANGED <<phase, callback, served, completed, converter>>
  BY DEF Destroy, MayGo
<1>2. /\ In({"created"})' = In({"created"}) \ {c}
      /\ In({"created", "leaving"})' = In({"created", "leaving"}) \ {c}
      /\ In({"made", "leaving", "abandoned"})' \subseteq {Dash}
  BY <1>1, InChanges DEF IInv, TypeOK
<1>3. component'[Dash] = component[Dash] /\ component' \in
        [Registered -> {"waiting", "made", "created", "failed",
                        "leaving", "abandoned", "destroyed"}]
  BY <1>1, Names DEF Becomes, IInv, TypeOK
<1>4. component[Dash] \notin {"made", "abandoned"}
  BY <1>1, Names DEF In
<1>5. TypeOK' /\ ServingInv'
  BY <1>1, <1>2, <1>3 DEF IInv, TypeOK, ServingInv
<1>6. NeedsInv'
  BY <1>1, <1>2, <1>3, <1>4 DEF IInv, NeedsInv, Created
<1>7. CallbackInv' /\ OwnerInv' /\ DrainInv'
  BY <1>1, <1>3 DEF IInv, CallbackInv, OwnerInv, DrainInv, converter
<1>8. QED
  BY <1>5, <1>6, <1>7 DEF ControlInv

\* The destructor begins: the callback finds no request to call it any more.
LEMMA BeginDestroyStep ==
  ASSUME IInv, BeginDestroy
  PROVE  ControlInv'
<1>1. /\ phase = "unwinding"
      /\ \/ Becomes(Dash, "created", "leaving")
         \/ Becomes(Dash, "made", "abandoned")
      /\ owner = "alive" /\ owner' = "notify"
      /\ UNCHANGED <<phase, callback, served, completed, worker, queue,
                     enqueued, started>>
  BY DEF BeginDestroy, MayGo, Converter!SetStop
<1>2. /\ In({"created"})' = In({"created"}) \ {Dash}
      /\ In({"created", "leaving"})' \subseteq In({"created", "leaving"})
      /\ In({"made", "leaving", "abandoned"})' \subseteq {Dash}
  BY <1>1, InChanges, Names DEF IInv, TypeOK, Becomes, In
<1>3. component' \in [Registered -> {"waiting", "made", "created", "failed",
                                     "leaving", "abandoned", "destroyed"}]
  BY <1>1 DEF Becomes, IInv, TypeOK
<1>4. \/ component[Dash] = "created" /\ component'[Dash] = "leaving"
      \/ component[Dash] = "made" /\ component'[Dash] = "abandoned"
  BY <1>1, Names DEF Becomes, IInv, TypeOK
<1>5. TypeOK' /\ ServingInv'
  BY <1>1, <1>2, <1>3 DEF IInv, TypeOK, ServingInv
<1>6. NeedsInv'
  <2>1. \A d : Dash \notin Needs(d)
    BY Names
  <2>2. Dash \notin NeedsFirst(Dash)
    BY Names DEF NeedsFirst
  <2>3. QED
    BY <1>2, <1>4, <2>1, <2>2 DEF IInv, NeedsInv, Created
<1>7. CallbackInv' /\ OwnerInv' /\ DrainInv'
  BY <1>1, <1>4 DEF IInv, CallbackInv, OwnerInv, DrainInv
<1>8. QED
  BY <1>5, <1>6, <1>7 DEF ControlInv

\* The destructor goes on, and returns when the worker has returned.
LEMMA DestructorGoesOn ==
  ASSUME IInv, DestructorStep
  PROVE  ControlInv'
<1>1. /\ component[Dash] \in {"leaving", "abandoned"}
      /\ Converter!OwnerStep
      /\ component' = IF owner' = "destroyed"
                      THEN [component EXCEPT ![Dash] = "destroyed"]
                      ELSE component
      /\ phase' = IF owner' = "terminated" THEN "terminated" ELSE phase
      /\ UNCHANGED <<callback, served, completed>>
  BY DEF DestructorStep
<1>2. /\ owner' \in {"join", "destroyed", "terminated"}
      /\ owner' = "destroyed" => worker' = "done"
      /\ worker' = "done" => worker = "done"
      /\ UNCHANGED <<queue, enqueued, started>>
  BY <1>1 DEF Converter!OwnerStep, Converter!NotifyStopped,
              Converter!NotifyAll, Converter!Join, Converter!history
<1>3. phase \notin {"running", "stopping"} /\ phase # "exited"
  BY <1>1, Names DEF IInv, ServingInv, OwnerInv, Created, In
<1>4. served = {} /\ phase' \in {phase, "terminated"}
  BY <1>1, <1>3 DEF IInv, ServingInv
<1>5. /\ component' \in [Registered -> {"waiting", "made", "created", "failed",
                                        "leaving", "abandoned", "destroyed"}]
      /\ component'[Dash] = IF owner' = "destroyed" THEN "destroyed"
                            ELSE component[Dash]
      /\ \A c \in Registered : c # Dash => component'[c] = component[c]
  BY <1>1, Names DEF IInv, TypeOK
<1>6. /\ In({"created"})' = In({"created"})
      /\ In({"created", "leaving"})' \subseteq In({"created", "leaving"})
      /\ In({"made", "leaving", "abandoned"})' \subseteq {Dash}
  <2>1. In({"made", "leaving", "abandoned"}) \subseteq {Dash}
    BY DEF IInv, TypeOK
  <2>2. QED
    BY <1>1, <1>5, <2>1 DEF In
<1>7. TypeOK' /\ ServingInv'
  BY <1>1, <1>3, <1>4, <1>5, <1>6 DEF IInv, TypeOK, ServingInv
<1>8. NeedsInv'
  BY <1>5, <1>6 DEF IInv, NeedsInv, Created
<1>9. CallbackInv'
  BY <1>1, <1>5 DEF IInv, CallbackInv
<1>10. OwnerInv' /\ DrainInv'
  BY <1>1, <1>2, <1>3, <1>4, <1>5 DEF IInv, OwnerInv, DrainInv
<1>11. QED
  BY <1>7, <1>8, <1>9, <1>10 DEF ControlInv

\* Every step keeps the inductive invariant.
LEMMA NextInv == IInv /\ [Next]_vars => IInv'
<1> SUFFICES ASSUME IInv, [Next]_vars PROVE IInv'
  OBVIOUS
<1>1. Converter!IInv'
  <2>1. CASE \E r \in Requests, v \in Videos : Complete(r, v)
    BY <2>1, CompleteStep, ConverterKept DEF IInv
  <2>2. CASE \E r \in Requests : NotifyEnqueued(r)
    BY <2>2, ConverterKept DEF IInv, NotifyEnqueued
  <2>3. CASE Work \/ BeginDestroy \/ DestructorStep
    BY <2>3, ConverterKept DEF IInv, Work, BeginDestroy, DestructorStep
  <2>4. CASE \/ \E c \in Registered : Create(c) \/ CreateFails(c) \/ Destroy(c)
             \/ MakeController \/ RegisterCallback \/ Loaded \/ Drained \/ Exit
             \/ Stop \/ UNCHANGED vars
             \/ \E r \in Requests : Receive(r) \/ Answer(r)
    <3>1. UNCHANGED converter
      BY <2>4 DEF Create, CreateFails, Destroy, MakeController,
           RegisterCallback, Loaded, Drained, Exit, Stop, Receive, Answer, vars
    <3>2. QED
      BY <3>1, ConverterKept DEF IInv
  <2>5. QED
    BY <2>1, <2>2, <2>3, <2>4 DEF Next, Manage
<1>2. ControlInv'
  BY CreateStep, MakeStep, RegisterStep, CreateFailsStep, PhaseStep,
     CompleteStep, WorkStep, DestroyStep, BeginDestroyStep, DestructorGoesOn
     DEF Next, Manage
<1>3. QED
  BY <1>1, <1>2 DEF IInv, ControlInv

\* The inductive invariant of the service's life.
THEOREM Invariance == Spec => []IInv
<1>1. QED
  BY InitInv, NextInv, PTL DEF Spec

-----------------------------------------------------------------------------
(* What follows from it.                                                   *)

\* The component whose address the callback captures is there, has set the
\* callback, and is not being destroyed, whenever a request is served.
THEOREM CallbackSafe == Spec => []CallbackReachesConverter
<1>1. ASSUME IInv, served # {}
      PROVE  callback /\ component[Dash] = "created" /\ owner = "alive"
  <2>1. component[Dash] = "created"
    BY <1>1, Names DEF IInv, ServingInv, Created, In
  <2>2. QED
    BY <1>1, <2>1 DEF IInv, CallbackInv, OwnerInv
<1>2. IInv => CallbackReachesConverter
  BY <1>1 DEF CallbackReachesConverter
<1>3. QED
  BY <1>2, Invariance, PTL

\* A service that has exited has started ffmpeg for every upload that was
\* completed, in their order: the destructor has returned, so the worker has,
\* with nothing in its hand or in the queue.
THEOREM OrderlyExitLosesNothing == Spec => []NothingLeftBehind
<1>1. ASSUME IInv, phase = "exited"
      PROVE  started = completed
  <2>1. enqueued = completed
    BY <1>1 DEF IInv, DrainInv
  <2>2. component[Dash] \in {"waiting", "failed", "destroyed"}
    BY <1>1 DEF IInv, OwnerInv
  <2>3. CASE component[Dash] \in {"waiting", "failed"}
    BY <1>1, <2>1, <2>3 DEF IInv, OwnerInv
  <2>4. CASE component[Dash] = "destroyed"
    <3>1. worker = "done" /\ queue = <<>>
      BY <1>1, <2>4 DEF IInv, OwnerInv, DrainInv
    <3>2. Converter!TypeOK /\ Converter!NothingLost
      BY <1>1 DEF IInv, Converter!IInv
    <3>3. hand = None /\ started \in Seq(Videos)
      BY <3>1, <3>2 DEF Converter!TypeOK
    <3>4. Converter!InHand \o queue = <<>>
      BY <3>1, <3>3, ConcatEmptySeq DEF Converter!InHand
    <3>5. enqueued = started
      BY <3>2, <3>3, <3>4, ConcatEmptySeq DEF Converter!NothingLost
    <3>6. QED
      BY <2>1, <3>5
  <2>5. QED
    BY <2>2, <2>3, <2>4
<1>2. IInv => NothingLeftBehind
  BY <1>1 DEF NothingLeftBehind
<1>3. QED
  BY <1>2, Invariance, PTL

\* The process starter that the worker refers to outlives the worker.
THEOREM StarterOutlivesWorker == Spec => []WorkerKeepsItsStarter
<1>1. ASSUME IInv, WorkerThere
      PROVE  "process-starter" \in Created
  <2>1. component[Dash] \in {"made", "created", "leaving", "abandoned"}
    BY <1>1, Names DEF IInv, TypeOK, OwnerInv, WorkerThere
  <2>2. CASE component[Dash] \in {"made", "abandoned"}
    BY <1>1, <2>2, Names DEF IInv, NeedsInv
  <2>3. CASE component[Dash] \in {"created", "leaving"}
    <3>1. Dash \in In({"created", "leaving"})
      BY <2>3, Names DEF In
    <3>2. QED
      BY <1>1, <3>1, Names DEF IInv, NeedsInv
  <2>4. QED
    BY <2>1, <2>2, <2>3
<1>2. IInv => WorkerKeepsItsStarter
  BY <1>1 DEF WorkerKeepsItsStarter
<1>3. QED
  BY <1>2, Invariance, PTL

-----------------------------------------------------------------------------
(* The build as it is shipped.                                             *)

\* With the lines of the file cache in comments, as main.cpp and
\* static_config.yaml have them, the service never runs and no request is ever
\* served: stream-handler cannot find the cache, so not every component comes
\* up.  It does not even run for a while and fail later.
THEOREM ShippedNeverServes ==
  ASSUME FsCache \notin Uncommented
  PROVE  Spec => [](phase # "running" /\ served = {})
<1>1. ASSUME IInv
      PROVE  phase # "running" /\ served = {}
  <2>1. FsCache \notin Registered /\ "stream-handler" \in Registered
    BY DEF Registered, FsCache
  <2>2. FsCache \in Needs("stream-handler")
    BY DEF Needs, StreamHandlerNeeds, Dash
  <2>3. "stream-handler" \notin In({"created", "leaving"})
    BY <1>1, <2>1, <2>2 DEF IInv, NeedsInv, Created, In
  <2>4. Created # Registered
    BY <2>1, <2>3 DEF Created, In
  <2>5. QED
    BY <1>1, <2>4 DEF IInv, ServingInv
<1>2. QED
  BY <1>1, Invariance, PTL

=============================================================================

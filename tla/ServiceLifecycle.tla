-------------------------- MODULE ServiceLifecycle --------------------------
(***************************************************************************)
(* The components of main.cpp, from the start of the service to its end.   *)
(* The component manager of userver (external) runs the constructors, each *)
(* of which finds the components it needs and fails when one of them is    *)
(* not registered; requests are served once every component is there;      *)
(* components are destroyed after those that have found them.              *)
(*                                                                         *)
(* dash-converter is the one whose start and end are more than a step: its *)
(* constructor makes the ConvertController, whose worker runs from then    *)
(* on, and gives the upload controller a callback that captures the        *)
(* component by its address; its destructor is that of ConvertController,  *)
(* which waits for the worker.                                             *)
(***************************************************************************)
EXTENDS Naturals, Sequences

CONSTANTS Uncommented,  \* lines of main.cpp and static_config.yaml in comments
                        \* that this build has all the same
          Config,       \* the options static_config.yaml gives to our components
          MayThrow,     \* components whose constructor may throw
          Requests,     \* posts of blocks
          Videos, None  \* see ConvertController

FsCache == "stream-fs-cache"
Dash    == "dash-converter"

\* A bug to catch: the file cache is never registered.
RegisteredWithoutCache ==
  {"process-starter", "svh_video_service_db", "options-handler",
   "video-uploader", "upload-accessor", "upload-processor", "dash-converter",
   "stream-handler", "videos-take-handler"}

\* What main appends to the component list (of userver's own components, those
\* that ours look for).
Registered ==
  {"process-starter", "svh_video_service_db", "options-handler",
   "video-uploader", "upload-accessor", "upload-processor", "dash-converter",
   "stream-handler", "videos-take-handler"} \cup Uncommented

\* The calls of FindComponent in the constructors.
UploadHandlerNeeds     == {"upload-processor"}
UploadAccessorNeeds    == {"svh_video_service_db"}
VideosTakeHandlerNeeds == {"svh_video_service_db"}
OptionsHandlerNeeds    == {}
StreamHandlerNeeds     == {FsCache}
DashConverterNeeds     == {"process-starter", "upload-processor"}

\* The options in the schemas of our components, those of their bases left out.
\* Each is read by the constructor: an option of another name is refused, and
\* reading one that is not given throws.
UploadOptions == {"fs-task-processor"}
DashOptions   == {"convert-task-processor"}

Configured(c) ==
  /\ c = "upload-processor" => Config[c] = UploadOptions
  /\ c = Dash => Config[c] = DashOptions

Needs(c) ==
  CASE c = "video-uploader"      -> UploadHandlerNeeds
    [] c = "upload-accessor"     -> UploadAccessorNeeds
    [] c = "videos-take-handler" -> VideosTakeHandlerNeeds
    [] c = Dash                  -> DashConverterNeeds
    [] c = "options-handler"     -> OptionsHandlerNeeds
    [] c = "stream-handler"      -> StreamHandlerNeeds
    [] OTHER                     -> {}

\* What a constructor finds before it makes anything.
NeedsFirst(c) == IF c = Dash THEN Needs(c) \ {"upload-processor"} ELSE Needs(c)

ASSUME LifecycleAssumption ==
  /\ Uncommented \subseteq {FsCache}
  /\ MayThrow \subseteq Registered
  /\ None \notin Videos

VARIABLES
  component,  \* the state of each registered component
  phase,      \* of the service as a whole
  callback,   \* whether on_constructed_callback_ is set
  served,     \* the requests being served
  completed,  \* history: the videos whose last block has been stored
  prod, worker, hand, command, queue, stop, owner,  \* see ConvertController
  promised, missed, enqueued, started

Converter == INSTANCE ConvertProperties WITH Producers <- Requests

converter == <<prod, worker, hand, command, queue, stop, owner, promised,
               missed, enqueued, started>>
vars == <<component, phase, callback, served, completed, converter>>

In(states) == {c \in Registered : component[c] \in states}
Created    == In({"created"})

Becomes(c, from, to) ==
  component[c] = from /\ component' = [component EXCEPT ![c] = to]

-----------------------------------------------------------------------------
(* The start.                                                              *)

\* A constructor that finds what it needs.  That of upload-processor makes the
\* UploadController.
Create(c) ==
  /\ phase = "loading" /\ c # Dash
  /\ Configured(c) /\ Needs(c) \subseteq Created
  /\ Becomes(c, "waiting", "created")
  /\ UNCHANGED <<phase, callback, served, completed, converter>>

\* The constructor of dash-converter finds the process starter and makes the
\* ConvertController, which starts its worker...
MakeController ==
  /\ phase = "loading"
  /\ Configured(Dash) /\ NeedsFirst(Dash) \subseteq Created
  /\ Becomes(Dash, "waiting", "made")
  /\ UNCHANGED <<phase, callback, served, completed, converter>>

\* The component that has the UploadController is found and asked for it.
GetUploadControllerPtr == "upload-processor" \in Created

\* A bug to catch: the callback is not registered.
RegisterNothing ==
  /\ GetUploadControllerPtr
  /\ Becomes(Dash, "made", "created")
  /\ UNCHANGED <<phase, callback, served, completed, converter>>

\* upload_callback.
SetCallback == callback' = TRUE

\* ...and then finds the upload processor, whose controller it gives the
\* callback.
RegisterCallback ==
  /\ GetUploadControllerPtr
  /\ Becomes(Dash, "made", "created")
  /\ SetCallback
  /\ UNCHANGED <<phase, served, completed, converter>>

\* FindComponent throws for a component that is not registered, the
\* configuration may be wrong, and what else a constructor may throw; the
\* service gives up.
CreateFails(c) ==
  /\ phase = "loading"
  /\ NeedsFirst(c) \cap Registered \subseteq Created
  /\ \/ c \in MayThrow
     \/ ~Configured(c)
     \/ ~(NeedsFirst(c) \subseteq Registered)
  /\ Becomes(c, "waiting", "failed")
  /\ phase' = "unwinding"
  /\ UNCHANGED <<callback, served, completed, converter>>

\* The server starts to listen when every component has been created.
Loaded ==
  /\ phase = "loading" /\ Created = Registered
  /\ phase' = "running"
  /\ UNCHANGED <<component, callback, served, completed, converter>>

-----------------------------------------------------------------------------
(* Requests.                                                               *)

Receive(r) ==
  /\ phase = "running" /\ r \notin served /\ prod[r] = "idle"
  /\ served' = served \cup {r}
  /\ UNCHANGED <<component, phase, callback, completed, converter>>

\* Nobody hears of the video.
Drop(r) ==
  /\ prod[r] = "idle"
  /\ prod' = [prod EXCEPT ![r] = "done"]
  /\ UNCHANGED <<worker, hand, command, queue, stop, owner, promised, missed,
                 enqueued, started>>

\* The task of the last block of an upload calls the callback, if it is set;
\* the callback enqueues the video.
Complete(r, v) ==
  /\ r \in served
  /\ completed' = Append(completed, v)
  /\ IF callback THEN Converter!Enqueue(r, v) ELSE Drop(r)
  /\ UNCHANGED <<component, phase, callback, served>>

NotifyEnqueued(r) ==
  /\ Converter!NotifyEnqueued(r)
  /\ UNCHANGED <<component, phase, callback, served, completed>>

\* A request is answered when its task, and with it the callback, has returned.
Answer(r) ==
  /\ r \in served /\ prod[r] # "notify"
  /\ served' = served \ {r}
  /\ UNCHANGED <<component, phase, callback, completed, converter>>

\* The worker of the ConvertController.
Work ==
  /\ component[Dash] \in {"made", "created", "leaving", "abandoned"}
  /\ Converter!WorkerStep
  /\ UNCHANGED <<component, phase, callback, served, completed>>

-----------------------------------------------------------------------------
(* The end.                                                                *)

Stop ==
  /\ phase = "running" /\ phase' = "stopping"
  /\ UNCHANGED <<component, callback, served, completed, converter>>

\* The server stops before components are destroyed: no request is left.
Drained ==
  /\ phase = "stopping" /\ served = {}
  /\ phase' = "unwinding"
  /\ UNCHANGED <<component, callback, served, completed, converter>>

\* Components are destroyed when every constructor has come to an end, each
\* after those that have found it.
MayGo(c) ==
  /\ phase = "unwinding" /\ In({"made", "abandoned"}) = {}
  /\ \A d \in In({"created", "leaving"}) : c \notin Needs(d)

Destroy(c) ==
  /\ c # Dash /\ MayGo(c)
  /\ Becomes(c, "created", "destroyed")
  /\ UNCHANGED <<phase, callback, served, completed, converter>>

\* The last reference to the ConvertController is that of dash-converter: it is
\* destroyed with the component, or when the constructor of the component gives
\* up because loading is cancelled while it looks for the upload processor.
\* The callback, with the address of the component, stays in the upload
\* controller.
BeginDestroy ==
  /\ \/ MayGo(Dash) /\ Becomes(Dash, "created", "leaving")
     \/ phase = "unwinding" /\ Becomes(Dash, "made", "abandoned")
  /\ Converter!SetStop
  /\ UNCHANGED <<phase, callback, served, completed>>

\* What the destructor does then; an exception that leaves it ends the process.
DestructorStep ==
  /\ component[Dash] \in {"leaving", "abandoned"}
  /\ Converter!OwnerStep
  /\ component' = IF owner' = "destroyed"
                  THEN [component EXCEPT ![Dash] = "destroyed"] ELSE component
  /\ phase' = IF owner' = "terminated" THEN "terminated" ELSE phase
  /\ UNCHANGED <<callback, served, completed>>

Exit ==
  /\ phase = "unwinding"
  /\ In({"made", "created", "leaving", "abandoned"}) = {}
  /\ phase' = "exited"
  /\ UNCHANGED <<component, callback, served, completed, converter>>

-----------------------------------------------------------------------------
Init ==
  /\ component = [c \in Registered |-> "waiting"]
  /\ phase = "loading" /\ callback = FALSE /\ served = {} /\ completed = <<>>
  /\ Converter!Init

Manage ==
  \/ \E c \in Registered : Create(c) \/ CreateFails(c) \/ Destroy(c)
  \/ MakeController \/ RegisterCallback \/ Loaded
  \/ Drained \/ BeginDestroy \/ DestructorStep \/ Exit

Next ==
  \/ Manage \/ Work \/ Stop
  \/ \E r \in Requests :
       \/ Receive(r) \/ NotifyEnqueued(r) \/ Answer(r)
       \/ \E v \in Videos : Complete(r, v)

Spec == Init /\ [][Next]_vars

\* The component manager does what it can, the worker runs on its task
\* processor, and the task of a request comes to its end.
FairSpec ==
  /\ Spec
  /\ WF_vars(Manage) /\ WF_vars(Work)
  /\ \A r \in Requests : WF_vars(NotifyEnqueued(r)) /\ WF_vars(Answer(r))

-----------------------------------------------------------------------------
\* Type correctness; only dash-converter has a start and an end of several
\* steps, and the destructor of its controller runs in these.
TypeOK ==
  /\ component \in [Registered -> {"waiting", "made", "created", "failed",
                                   "leaving", "abandoned", "destroyed"}]
  /\ In({"made", "leaving", "abandoned"}) \subseteq {Dash}
  /\ phase \in {"loading", "running", "stopping", "unwinding", "exited",
                "terminated"}
  /\ callback \in BOOLEAN
  /\ served \in SUBSET Requests
  /\ completed \in Seq(Videos)

\* An upload that completes finds the callback set, the component whose address
\* it captured there, and the destructor of its controller not begun: no video
\* is dropped in silence, and nothing is called after its destruction.
CallbackReachesConverter ==
  served # {} => callback /\ component[Dash] = "created" /\ owner = "alive"

\* When the service has ended in an orderly way ffmpeg has been started for
\* every upload that was ever completed, in their order, those that were
\* completed while the service was told to stop included: requests are drained
\* before dash-converter goes, and its destructor drains the queue.
NothingLeftBehind == phase = "exited" => started = completed

WorkerThere ==
  /\ component[Dash] \notin {"waiting", "failed"}
  /\ worker \notin {"done", "dead"}

\* The worker uses the process starter by reference: as long as it runs the
\* starter is there, also while it drains the queue in the destructor and when
\* the constructor of dash-converter has given up.
WorkerKeepsItsStarter == WorkerThere => "process-starter" \in Created

\* "builds the service in debug mode and starts it": the service comes up,
\* unless a component cannot get what it needs from outside.
StartsUp ==
  <>(phase = "running" \/ \E c \in MayThrow : component[c] = "failed")

\* A service that is told to stop, or fails to start, ends: it exits, or is
\* ended by the exception of a failed conversion that leaves a destructor, or
\* hangs because the destructor's NotifyAll was missed; nothing else keeps it.
Ends ==
  phase \in {"stopping", "unwinding"}
    ~> phase \in {"exited", "terminated"} \/ missed

-----------------------------------------------------------------------------
(* The inductive invariant.                                                *)

\* Requests are served only between Loaded and Drained, with every component
\* there.
ServingInv ==
  /\ served # {} => phase \in {"running", "stopping"}
  /\ phase \in {"running", "stopping"} => Created = Registered

\* What a component has found in its constructor is there as long as it is.
NeedsInv ==
  /\ \A c \in In({"created", "leaving"}) : Needs(c) \subseteq Created
  /\ component[Dash] \in {"made", "abandoned"} =>
       NeedsFirst(Dash) \subseteq Created

\* The component whose address the callback captures has set it.
CallbackInv == component[Dash] \in {"created", "leaving"} => callback

\* The controller is as far as the component that owns it: it is not there yet,
\* it is alive, or it is in its destructor, which nothing outlives.
OwnerInv ==
  /\ component[Dash] \in {"waiting", "failed"} =>
       worker = "lock" /\ enqueued = <<>> /\ started = <<>>
  /\ owner = "alive" <=>
       component[Dash] \in {"waiting", "failed", "made", "created"}
  /\ owner = "destroyed" <=> component[Dash] = "destroyed"
  /\ owner = "destroyed" => worker = "done"
  /\ phase = "exited" => component[Dash] \in {"waiting", "failed", "destroyed"}

\* Nothing is enqueued behind a worker that has left.
DrainInv ==
  /\ enqueued = completed
  /\ worker = "done" => queue = <<>>

IInv ==
  /\ TypeOK /\ Converter!IInv
  /\ ServingInv /\ NeedsInv /\ CallbackInv /\ OwnerInv /\ DrainInv

=============================================================================

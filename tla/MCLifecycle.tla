---------------------------- MODULE MCLifecycle ----------------------------
(***************************************************************************)
(* Instances of the service's life for TLC: the build as it is, and the    *)
(* one with the lines of the file cache taken out of their comments.       *)
(***************************************************************************)
EXTENDS ServiceLifecycle

CONSTANTS r1, r2, v1, v2

AsShipped == {}
WithCache == {FsCache}

\* static_config.yaml.
StaticConfig == [c \in {"upload-processor", Dash} |->
                  IF c = Dash THEN {"convert-task-processor"}
                  ELSE {"fs-task-processor"}]

NoneThrow == {}
\* A database that does not answer, a task processor that is not configured,
\* an output directory that cannot be made.
SomeThrow == {"svh_video_service_db", "upload-processor", "dash-converter"}

=============================================================================

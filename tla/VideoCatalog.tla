---------------------------- MODULE VideoCatalog ----------------------------
(***************************************************************************)
(* The table of videos: UploadAccessor inserts a row for a new video and   *)
(* answers its id as the upload token, VideosTakeHandler lists the rows.   *)
(* Postgres (external) is a master and a replica that follows it; a        *)
(* statement may be refused, or its answer lost to a timeout after it has  *)
(* been committed; ids come from a sequence that never goes back.          *)
(***************************************************************************)
EXTENDS Integers

CONSTANTS Clients,  \* each registers videos and lists them
          Titles,
          None,
          MaxId     \* bound on the ids drawn from the sequence

ASSUME CatalogAssumption == None \notin Titles /\ MaxId \in Nat

Ids == 1 .. MaxId

VARIABLES
  pc,       \* what each client is waiting for
  title,    \* the title of its last request
  tokens,   \* the ids it was given, with their titles
  master,   \* the rows of svh_video_schema.videos
  replica,  \* the rows a replica has
  lastId,   \* the sequence behind videos.id
  result,   \* the result set of the statement a handler has executed
  listing,  \* the last list of videos each client received
  lost      \* history: the rows whose id never reached a client

vars == <<pc, title, tokens, master, replica, lastId, result, listing, lost>>

Row(i, t) == [id |-> i, title |-> t]
Rows      == [id : Ids, title : Titles]

Goto(c, from, to) == pc[c] = from /\ pc' = [pc EXCEPT ![c] = to]

-----------------------------------------------------------------------------
(* POST /api/access.                                                       *)

\* A client may leave the title or the age rating out.
Register(c, t) ==
  /\ Goto(c, "idle", "insert")
  /\ title' = [title EXCEPT ![c] = t]
  /\ UNCHANGED <<tokens, master, replica, lastId, result, listing, lost>>

\* As<std::string>() throws for a field that is missing: no statement is run.
RegisterRefused(c) ==
  /\ Goto(c, "insert", "idle")
  /\ title[c] = None
  /\ UNCHANGED <<title, tokens, master, replica, lastId, result, listing, lost>>

\* A bug to catch: the id is taken from the rows there are (max + 1) before
\* the row is there.
InsertUnderStaleId(c) ==
  /\ lastId < MaxId /\ title[c] # None
  /\ Goto(c, "insert", "inserted")
  /\ lastId' = lastId + 1
  /\ \E i \in Ids :
       /\ \A r \in replica : r.id < i
       /\ i = 1 \/ \E r \in replica : r.id = i - 1
       /\ result' = [result EXCEPT ![c] = {Row(i, title[c])}]
       /\ master' = master \cup {Row(i, title[c])}
  /\ UNCHANGED <<title, tokens, replica, listing, lost>>

\* Bugs to catch: the statement without its RETURNING; the statement sent
\* again when it has timed out, though it may have been committed.
InsertReturnsNothing(c) ==
  /\ lastId < MaxId /\ title[c] # None
  /\ Goto(c, "insert", "inserted")
  /\ lastId' = lastId + 1
  /\ master' = master \cup {Row(lastId', title[c])}
  /\ UNCHANGED <<title, tokens, replica, result, listing, lost>>
InsertRetried(c) ==
  /\ lastId + 1 < MaxId /\ title[c] # None
  /\ Goto(c, "insert", "inserted")
  /\ lastId' = lastId + 2
  /\ master' = master \cup {Row(lastId + 1, title[c]), Row(lastId', title[c])}
  /\ result' = [result EXCEPT ![c] = {Row(lastId', title[c])}]
  /\ UNCHANGED <<title, tokens, replica, listing, lost>>

\* INSERT ... RETURNING id, on the master, once.
Insert(c) ==
  /\ lastId < MaxId /\ title[c] # None
  /\ Goto(c, "insert", "inserted")
  /\ lastId' = lastId + 1
  /\ master' = master \cup {Row(lastId', title[c])}
  /\ result' = [result EXCEPT ![c] = {Row(lastId', title[c])}]
  /\ UNCHANGED <<title, tokens, replica, listing, lost>>

\* The statement fails, with or without an id drawn: Execute throws.
InsertFails(c) ==
  /\ Goto(c, "insert", "idle")
  /\ title[c] # None
  /\ lastId' \in {lastId, lastId + 1} /\ lastId' <= MaxId
  /\ UNCHANGED <<title, tokens, master, replica, result, listing, lost>>

\* The answer of the database is lost, or that of the service: the row stays.
AnswerLost(c) ==
  /\ Goto(c, "inserted", "idle")
  /\ lost'   = lost \cup result[c]
  /\ result' = [result EXCEPT ![c] = {}]
  /\ UNCHANGED <<title, tokens, master, replica, lastId, listing>>

\* {"token": {"vid": id}}; for an empty result set the answer is 500 and has no
\* token.  TypeOK has it that no insert which was executed comes to that.
AnswerToken(c) ==
  /\ Goto(c, "inserted", "idle")
  /\ tokens' = [tokens EXCEPT ![c] = @ \cup result[c]]
  /\ result' = [result EXCEPT ![c] = {}]
  /\ UNCHANGED <<title, master, replica, lastId, listing, lost>>

-----------------------------------------------------------------------------
(* GET /api/videos.                                                        *)

RequestList(c) ==
  /\ Goto(c, "idle", "select")
  /\ UNCHANGED <<title, tokens, master, replica, lastId, result, listing, lost>>

\* SELECT * FROM svh_video_schema.videos: every row its host has.
kSelectVideos(host) == host

\* A bug to catch: the list is read from a replica.
SelectFromReplica(c) ==
  /\ Goto(c, "select", "selected")
  /\ result' = [result EXCEPT ![c] = kSelectVideos(replica)]
  /\ UNCHANGED <<title, tokens, master, replica, lastId, listing, lost>>

\* The statement of the list also goes to the master.
Select(c) ==
  /\ Goto(c, "select", "selected")
  /\ result' = [result EXCEPT ![c] = kSelectVideos(master)]
  /\ UNCHANGED <<title, tokens, master, replica, lastId, listing, lost>>

SelectFails(c) ==
  /\ Goto(c, "select", "idle")
  /\ UNCHANGED <<title, tokens, master, replica, lastId, result, listing, lost>>

\* The rows as an array, empty when there is none.
AnswerList(c) ==
  /\ Goto(c, "selected", "idle")
  /\ listing' = [listing EXCEPT ![c] = result[c]]
  /\ result'  = [result EXCEPT ![c] = {}]
  /\ UNCHANGED <<title, tokens, master, replica, lastId, lost>>

\* The replica follows the master, as late as it likes.
Replicate ==
  /\ replica' = master
  /\ UNCHANGED <<pc, title, tokens, master, lastId, result, listing, lost>>

-----------------------------------------------------------------------------
Init ==
  /\ pc      = [c \in Clients |-> "idle"]
  /\ title   = [c \in Clients |-> None]
  /\ tokens  = [c \in Clients |-> {}]
  /\ master  = {} /\ replica = {} /\ lastId = 0
  /\ result  = [c \in Clients |-> {}]
  /\ listing = [c \in Clients |-> {}]
  /\ lost    = {}

Next ==
  \/ \E c \in Clients :
       \/ \E t \in Titles \cup {None} : Register(c, t)
       \/ RegisterRefused(c)
       \/ Insert(c) \/ InsertFails(c) \/ AnswerLost(c) \/ AnswerToken(c)
       \/ RequestList(c) \/ Select(c) \/ SelectFails(c) \/ AnswerList(c)
  \/ Replicate

Spec == Init /\ [][Next]_vars

-----------------------------------------------------------------------------
\* Type correctness; the handler of an insert has the one row AsSingleRow
\* asks for, and a handler that has executed nothing has no row.
TypeOK ==
  /\ pc \in [Clients -> {"idle", "insert", "inserted", "select", "selected"}]
  /\ title \in [Clients -> Titles \cup {None}]
  /\ tokens \in [Clients -> SUBSET Rows]
  /\ master \in SUBSET Rows /\ replica \in SUBSET master
  /\ lastId \in 0 .. MaxId
  /\ result \in [Clients -> SUBSET Rows]
  /\ \A c \in Clients :
       /\ pc[c] = "inserted" => \E r \in master : result[c] = {r}
       /\ pc[c] \in {"idle", "insert", "select"} => result[c] = {}
  /\ listing \in [Clients -> SUBSET Rows]
  /\ lost \in SUBSET master

\* A token names the row of the video its client registered, and no other
\* video has that id: two clients never upload under one token by accident,
\* however many of their requests time out and are sent again.
TokensName ==
  /\ \A c \in Clients : tokens[c] \subseteq master
  /\ \A r, s \in master : r.id = s.id => r = s
  /\ \A c, d \in Clients : tokens[c] \cap tokens[d] # {} => c = d

\* The rows a client is about to be told the id of.
Awaited(c) == IF pc[c] = "inserted" THEN result[c] ELSE {}

\* A row that nobody can upload a video for is there because the answer to
\* its insert was lost on its way, and for no other reason: whoever was given
\* an id, or will be, has a row, and every other row is the price of a retry.
OrphansAreLostAnswers ==
  \A r \in master :
    r \in lost <=> \A c \in Clients : r \notin tokens[c] \cup Awaited(c)

\* Every list a client is answered has every video it has a token for, and all
\* that it has seen before: inserts and lists go to the same host.
ReadsOwnWrites ==
  [][\A c \in Clients : AnswerList(c) =>
       tokens[c] \cup listing[c] \subseteq listing'[c]]_vars

-----------------------------------------------------------------------------
(* The inductive invariant.                                                *)

\* Ids are drawn in order, so that the next one is new.
IdInv == \A r \in master : r.id <= lastId

\* The row a client waits for is its own, and no token yet.
OwnInv ==
  \A c, d \in Clients : pc[c] = "inserted" =>
    /\ result[c] \cap tokens[d] = {}
    /\ c # d /\ pc[d] = "inserted" => result[c] \cap result[d] = {}

\* What a client has seen is in the table, and in a list it waits for; what a
\* statement has returned stays in the table.
SeenInv ==
  \A c \in Clients :
    /\ listing[c] \subseteq master /\ result[c] \subseteq master
    /\ pc[c] = "selected" => tokens[c] \cup listing[c] \subseteq result[c]

IInv ==
  TypeOK /\ TokensName /\ OrphansAreLostAnswers /\ IdInv /\ OwnInv /\ SeenInv

=============================================================================

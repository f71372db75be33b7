------------------------------ MODULE Delivery ------------------------------
(***************************************************************************)
(* Delivery of messages to one ASMail inbox, and their retrieval:          *)
(* folders of an inbox (asmail/resources/inbox.ts) at the granularity of   *)
(* file system calls, handlers of delivery requests in asmail/             *)
(* asmail-service/routes/delivery/, the sending application (client-apps/  *)
(* public-content/asmail/mail-sending.ts), and the receiving one           *)
(* (mail-getting.ts).  All paths are relative to src/src/.                 *)
(*                                                                         *)
(* Every message is sent in its own session, and gets a folder with a      *)
(* random id, so that a message names its session and its folder.  A       *)
(* message has one object: a header, that is sent in one request, and      *)
(* segments, that are sent in one, or, when they are long, in two          *)
(* requests.  Server writes a body of a request that is smaller than its   *)
(* buffer (writeBufferSize, 4K by default) at once, and a bigger one in    *)
(* pieces; here, in two at most, as more of them do what the second does.  *)
(*                                                                         *)
(* Definitions Wrong... are deliberately broken variants of the next ones, *)
(* and are not used in the model.                                          *)
(***************************************************************************)
EXTENDS Naturals

CONSTANTS
    Msg,     \* messages
    Big,     \* those with bodies of requests, that do not fit into server's buffer
    Long,    \* those with segments, that need two chunks
    Fin      \* completion requests; a browser may repeat a request, when its
             \* connection drops, while server continues to process it

ASSUME SizeAssumption == Long \subseteq Big /\ Big \subseteq Msg

VARIABLES
    \* --- on the disk ---
    place,   \* folder of a message: in delivery/, in messages/, renamed, gone
    meta,    \* its meta.json
    sizes,   \* files with sizes in meta.json
    files,   \* its object files
    at,      \* which bytes are in the place of every chunk
    cut,     \* chunks, whose bytes are written in pieces, or not to the end
    \* --- in the server's memory ---
    sess,    \* session: "lost" is one closed by a timer, or by server's death
    md,      \* request with metadata
    put,     \* requests with bytes
    fin,     \* completion requests
    found,   \* files, found by a completion request
    rm,      \* removal request
    \* --- in senders' applications ---
    quit,    \* messages, whose sending has ended in an error
    \* --- in recipient's application ---
    known,   \* entries of inbox.msgs
    todo     \* entries of a list, whose metadata is to be requested

diskVars == <<place, meta, sizes, files, at, cut>>
finVars  == <<fin, found>>
getVars  == <<rm, known, todo>>
vars     == <<diskVars, sess, md, put, finVars, quit, getVars>>

File  == {"hdr", "segs"}
Chunk == {"hdr", "segs", "more"}
FileOf(c) == IF c = "hdr" THEN "hdr" ELSE "segs"

\* Only the first request, with total in its query, allocates a file.
WrongIsFirst(c) == c = "hdr"                  \* total is sent only with a header
IsFirst(c) == c # "more"
ChunksOf(m) == IF m \in Long THEN Chunk ELSE Chunk \ {"more"}

\* An id that is listed: ghost is the one with ~remove at the end.
Entry == [id : Msg, ghost : BOOLEAN]

Init ==
    /\ place = [m \in Msg |-> "none"]
    /\ meta = [m \in Msg |-> "absent"]
    /\ sizes = [m \in Msg |-> {}]
    /\ files = [m \in Msg |-> {}]
    /\ at = [m \in Msg |-> [c \in Chunk |-> "zeros"]]
    /\ cut = [m \in Msg |-> {}]
    /\ sess = [m \in Msg |-> "none"]
    /\ md = [m \in Msg |-> "none"]
    /\ put = [m \in Msg |-> [c \in Chunk |-> "none"]]
    /\ fin = [m \in Msg |-> [f \in Fin |-> "none"]]
    /\ found = [m \in Msg |-> [f \in Fin |-> {}]]
    /\ rm = [m \in Msg |-> "none"]
    /\ quit = {}
    /\ known = {} /\ todo = {}

InDelivery(m) == place[m] = "delivery"

-----------------------------------------------------------------------------
(* Start of a session, and metadata                                         *)

\* Sender is allowed to leave a message, and is authorized.
StartSession(m) ==
    /\ sess[m] = "none"
    /\ sess' = [sess EXCEPT ![m] = "open"]
    /\ UNCHANGED <<diskVars, md, put, finVars, quit, getVars>>

\* A request of the sender, or a reply to it, is lost.  Every failure goes to
\* the end of sendMsg's chain, where it is logged, and nothing is repeated.
SenderFails(m) ==
    /\ sess[m] = "open" /\ m \notin quit
    /\ \A f \in Fin : fin[m][f] = "none"
    /\ quit' = quit \cup {m}
    /\ UNCHANGED <<diskVars, sess, md, put, finVars, getVars>>

\* The timer closes a session, whatever requests are in process.
Expire(m) ==
    /\ sess[m] = "open"
    /\ sess' = [sess EXCEPT ![m] = "lost"]
    /\ UNCHANGED <<diskVars, md, put, finVars, quit, getVars>>

MetadataStep(m, from, to) ==
    /\ md[m] = from
    /\ md' = [md EXCEPT ![m] = to]
    /\ UNCHANGED <<sizes, files, at, cut, sess, put, finVars, quit, getVars>>

SendMetadata(m) ==
    /\ sess[m] # "none" /\ m \notin quit
    /\ MetadataStep(m, "none", IF sess[m] = "open" THEN "mkdir" ELSE "failed")
    /\ UNCHANGED <<place, meta>>

\* genMsgIdAndMakeFolder
MakeMsgFolder(m) ==
    /\ MetadataStep(m, "mkdir", "open")
    /\ place' = [place EXCEPT ![m] = "delivery"]
    /\ UNCHANGED meta

\* recordMsgMeta writes a new file,
OpenMeta(m) ==
    /\ MetadataStep(m, "open", "write")
    /\ meta' = [meta EXCEPT ![m] = "empty"]
    /\ UNCHANGED place

\* and session.params.msgId is set, when it is done.
WriteMeta(m) ==
    /\ MetadataStep(m, "write", "ok")
    /\ meta' = [meta EXCEPT ![m] = "started"]
    /\ UNCHANGED place

-----------------------------------------------------------------------------
(* Bytes of objects                                                         *)

\* sendObj waits for replies, but for the one to a second chunk of segments:
\* a recursive call in sendSegs is not returned.
WrongMaySend(m, c) == md[m] = "ok"              \* replies are not awaited
MaySend(m, c) ==
    CASE c = "hdr"  -> md[m] = "ok"
      [] c = "segs" -> put[m]["hdr"] = "ok"
      [] c = "more" -> put[m]["segs"] = "ok"

PutStep(m, c, from, to) ==
    /\ put[m][c] = from
    /\ put' = [put EXCEPT ![m][c] = to]
    /\ UNCHANGED <<place, meta, sizes, md, finVars, getVars>>

PutBytes(m, c) ==
    /\ c \in ChunksOf(m) /\ MaySend(m, c) /\ m \notin quit
    /\ PutStep(m, c, "none", IF sess[m] = "open" THEN "check" ELSE "failed")
    /\ UNCHANGED <<files, at, cut, sess, quit>>

\* When the last chunk is not full, sendSegs, called with the reply to the chunk
\* before it, reads past the end of its array, and throws.
SendSegsThrows(m) ==
    /\ m \in Long /\ put[m]["segs"] = "ok" /\ put[m]["more"] = "none"
    /\ m \notin quit /\ \A f \in Fin : fin[m][f] = "none"
    /\ quit' = quit \cup {m}
    /\ UNCHANGED <<diskVars, sess, md, put, finVars, getVars>>

\* checkIds reads meta.json in delivery folder.  MSG_UNKNOWN closes a session.
CheckIds(m, c) ==
    /\ \/ /\ InDelivery(m)
          /\ PutStep(m, c, "check", "file")
          /\ UNCHANGED sess
       \/ /\ ~InDelivery(m)
          /\ PutStep(m, c, "check", "failed")
          /\ sess' = [sess EXCEPT ![m] = "closed"]
    /\ UNCHANGED <<files, at, cut, quit>>

\* A file for the whole of bytes is created by the first request, and is looked
\* at by the next ones.
CanPrepare(m, c) == InDelivery(m) /\ (IsFirst(c) <=> FileOf(c) \notin files[m])

PrepareFile(m, c) ==
    /\ \/ /\ CanPrepare(m, c)
          /\ PutStep(m, c, "file", "open")
          /\ files' = [files EXCEPT ![m] = @ \cup {FileOf(c)}]
       \/ /\ ~CanPrepare(m, c)
          /\ PutStep(m, c, "file", "failed")
          /\ UNCHANGED files
    /\ UNCHANGED <<at, cut, sess, quit>>

\* Every writeToExistingFile opens a file by its path,
OpenFile(m, c) ==
    /\ PutStep(m, c, "open", IF InDelivery(m) THEN "write" ELSE "failed")
    /\ UNCHANGED <<files, at, cut, sess, quit>>

\* and writes into it, wherever the file is by then.  Handlers do not pass offset
\* to storage, and, with an undefined position, bytes of every piece go to the
\* file's start.
WrongPosition(c) == "hdr"                     \* always in the first file
Position(c) == FileOf(c)

\* After a piece of a big body either all its bytes are written, or another piece
\* is to come, or a tail of it stays in the buffer, and the promise of
\* streamToExistingFile is never resolved.
AfterPiece(m, c) ==
    {"ok"} \cup (IF m \in Big THEN {"hung"} ELSE {})
           \cup (IF m \in Big /\ c \notin cut[m] THEN {"open"} ELSE {})

WriteBytes(m, c) ==
    /\ \E to \in AfterPiece(m, c) :
          /\ PutStep(m, c, "write", to)
          /\ cut' = IF to = "ok" THEN cut ELSE [cut EXCEPT ![m] = @ \cup {c}]
    /\ at' = IF FileOf(c) \in files[m]
             THEN [at EXCEPT ![m][Position(c)] = c] ELSE at
    /\ UNCHANGED <<files, sess, quit>>

\* Connection drops before the end of a body.  Either the stream tells about it,
\* and then the request, that has created the file, removes it, or it does not,
\* and the request's promise is never resolved.
DropBody(m, c) ==
    /\ \/ PutStep(m, c, "open", "hung")
       \/ PutStep(m, c, "open", IF IsFirst(c) THEN "unlink" ELSE "failed")
    /\ quit' = quit \cup {m}
    /\ UNCHANGED <<files, at, cut, sess>>

UnlinkFile(m, c) ==
    /\ PutStep(m, c, "unlink", "failed")
    /\ files' = [files EXCEPT ![m] = IF InDelivery(m) THEN @ \ {FileOf(c)} ELSE @]
    /\ UNCHANGED <<at, cut, sess, quit>>

-----------------------------------------------------------------------------
(* Completion                                                               *)

FinStep(m, f, from, to) ==
    /\ fin[m][f] = from
    /\ fin' = [fin EXCEPT ![m][f] = to]
    /\ UNCHANGED <<files, at, cut, md, put, quit, getVars>>

CompleteDelivery(m, f) ==
    /\ put[m]["segs"] = "ok" /\ m \notin quit
    /\ FinStep(m, f, "none", IF sess[m] = "open" THEN "read" ELSE "failed")
    /\ UNCHANGED <<place, meta, sizes, sess, found>>

\* getMsgMeta, whose MSG_UNKNOWN closes a session.
ReadMeta(m, f) ==
    /\ \/ /\ InDelivery(m)
          /\ FinStep(m, f, "read", "hdr")
          /\ UNCHANGED sess
       \/ /\ ~InDelivery(m)
          /\ FinStep(m, f, "read", "failed")
          /\ sess' = [sess EXCEPT ![m] = "closed"]
    /\ UNCHANGED <<place, meta, sizes, found>>

\* getMsgObjSizes looks at a header, and, if it is present, at segments.
FileFound(m, file) == InDelivery(m) /\ file \in files[m]

GetSize(m, f, file) ==
    /\ \/ /\ FileFound(m, file)
          /\ FinStep(m, f, file, IF file = "hdr" THEN "segs" ELSE "save")
          /\ found' = [found EXCEPT ![m][f] = @ \cup {file}]
       \/ /\ ~FileFound(m, file)
          /\ FinStep(m, f, file, "save")
          /\ UNCHANGED found
    /\ UNCHANGED <<place, meta, sizes, sess>>

\* A message is moved before reply is sent.
WrongSaved == "close"                         \* move is not awaited
Saved == "move"

\* meta.json is opened with 'r+', i.e. it must exist, and is not truncated.
SaveMeta(m, f) ==
    /\ \/ /\ InDelivery(m)
          /\ FinStep(m, f, "save", Saved)
          /\ meta' = [meta EXCEPT ![m] = "done"]
          /\ sizes' = [sizes EXCEPT ![m] = found[m][f]]
       \/ /\ ~InDelivery(m)
          /\ FinStep(m, f, "save", "failed")
          /\ UNCHANGED <<meta, sizes>>
    /\ UNCHANGED <<place, sess, found>>

\* moveMsgFromDeliveryToMessagesFolder
MoveMsg(m, f) ==
    /\ \/ /\ InDelivery(m)
          /\ FinStep(m, f, "move", "close")
          /\ place' = [place EXCEPT ![m] = "inbox"]
       \/ /\ ~InDelivery(m)
          /\ FinStep(m, f, "move", "failed")
          /\ UNCHANGED place
    /\ UNCHANGED <<meta, sizes, sess, found>>

CloseSession(m, f) ==
    /\ FinStep(m, f, "close", "ok")
    /\ sess' = [sess EXCEPT ![m] = "closed"]
    /\ UNCHANGED <<place, meta, sizes, found>>

-----------------------------------------------------------------------------
(* Recipient                                                                *)

\* getMsgIds is a plain listing of folders in messages/.
Entries == {e \in Entry : place[e.id] = IF e.ghost THEN "removing" ELSE "inbox"}

\* Metadata of those, that are not known, is requested, one by one,
ListMsgs ==
    /\ todo = {} /\ Entries \ known # {}
    /\ todo' = Entries \ known
    /\ UNCHANGED <<diskVars, sess, md, put, finVars, quit, rm, known>>

\* till the first failure.
WrongAfterFailure(e) == todo                  \* failed request is repeated
AfterFailure(e) == {}

HasMeta(e) == e \in Entries /\ meta[e.id] \in {"started", "done"}

GetMsgMeta(e) ==
    /\ e \in todo
    /\ \/ /\ HasMeta(e)
          /\ known' = known \cup {e}
          /\ todo' = todo \ {e}
       \/ /\ ~HasMeta(e)
          /\ todo' = AfterFailure(e)
          /\ UNCHANGED known
    /\ UNCHANGED <<diskVars, sess, md, put, finVars, quit, rm>>

\* rmMsg renames a folder, and, on a second attempt, does not find it.
RmMsg(m) ==
    /\ [id |-> m, ghost |-> FALSE] \in known /\ rm[m] \in {"none", "dead"}
    /\ \/ /\ place[m] = "inbox"
          /\ place' = [place EXCEPT ![m] = "removing"]
          /\ rm' = [rm EXCEPT ![m] = "unlink"]
          /\ UNCHANGED known
       \/ /\ place[m] # "inbox"
          /\ rm' = [rm EXCEPT ![m] = "unknown"]
          /\ known' = known \ {[id |-> m, ghost |-> FALSE]}
          /\ UNCHANGED place
    /\ UNCHANGED <<meta, sizes, files, at, cut, sess, md, put, finVars, quit, todo>>

\* Then, rmdir unlinks its files in any order,
UnlinkMsgFile(m) ==
    /\ rm[m] = "unlink"
    /\ \/ /\ meta[m] # "absent"
          /\ meta' = [meta EXCEPT ![m] = "absent"]
          /\ UNCHANGED files
       \/ \E file \in files[m] : files' = [files EXCEPT ![m] = @ \ {file}]
          /\ UNCHANGED meta
    /\ UNCHANGED <<place, sizes, at, cut, sess, md, put, finVars, quit, getVars>>

\* and removes a folder.
RemoveMsgFolder(m) ==
    /\ rm[m] = "unlink" /\ meta[m] = "absent" /\ files[m] = {}
    /\ place' = [place EXCEPT ![m] = "gone"]
    /\ rm' = [rm EXCEPT ![m] = "ok"]
    /\ known' = known \ {[id |-> m, ghost |-> FALSE]}
    /\ UNCHANGED <<meta, sizes, files, at, cut, sess, md, put, finVars, quit, todo>>

-----------------------------------------------------------------------------
(* Death of the server                                                      *)

Over == {"none", "ok", "failed", "dead", "unknown"}
Killed(stage) == IF stage \in Over THEN stage ELSE "dead"

Crash ==
    /\ sess' = [m \in Msg |-> IF sess[m] = "open" THEN "lost" ELSE sess[m]]
    /\ md' = [m \in Msg |-> Killed(md[m])]
    /\ put' = [m \in Msg |-> [c \in Chunk |-> Killed(put[m][c])]]
    /\ fin' = [m \in Msg |-> [f \in Fin |-> Killed(fin[m][f])]]
    /\ rm' = [m \in Msg |-> Killed(rm[m])]
    /\ todo' = {}
    /\ UNCHANGED <<diskVars, found, quit, known>>

-----------------------------------------------------------------------------

SenderSteps(m) ==
    \/ SendMetadata(m)
    \/ \E c \in Chunk : PutBytes(m, c)
    \/ SendSegsThrows(m)
    \/ \E f \in Fin : CompleteDelivery(m, f)

DeliverySteps(m) ==
    \/ MakeMsgFolder(m) \/ OpenMeta(m) \/ WriteMeta(m)
    \/ \E c \in Chunk :
          \/ CheckIds(m, c) \/ PrepareFile(m, c) \/ OpenFile(m, c) \/ WriteBytes(m, c)
          \/ UnlinkFile(m, c)
    \/ \E f \in Fin :
          \/ ReadMeta(m, f)
          \/ \E file \in File : GetSize(m, f, file)
          \/ SaveMeta(m, f) \/ MoveMsg(m, f) \/ CloseSession(m, f)

RemovalSteps(m) == UnlinkMsgFile(m) \/ RemoveMsgFolder(m)

Getting == \E e \in Entry : GetMsgMeta(e)

Next ==
    \/ \E m \in Msg :
          \/ StartSession(m) \/ Expire(m) \/ SenderSteps(m) \/ SenderFails(m)
          \/ DeliverySteps(m) \/ \E c \in Chunk : DropBody(m, c)
          \/ RmMsg(m) \/ RemovalSteps(m)
    \/ ListMsgs \/ Getting
    \/ Crash

Spec == Init /\ [][Next]_vars

\* Sender, that has started, goes on, till it fails; callbacks of fs always come,
\* and so do bytes of a body, unless connection drops; recipient lists messages
\* from time to time, and server does not die in the middle of every listing.
\* Nobody has to start a delivery, or to remove a message.
FairSpec ==
    /\ Spec
    /\ \A m \in Msg : /\ WF_vars(SenderSteps(m))
                      /\ WF_vars(DeliverySteps(m))
                      /\ WF_vars(RemovalSteps(m))
    /\ WF_vars(ListMsgs) /\ SF_vars(Getting)

-----------------------------------------------------------------------------
(* Properties                                                               *)

PutStage == {"none", "check", "file", "open", "write", "hung", "unlink", "ok", "failed", "dead"}
FinStage == {"none", "read", "save", "move", "close", "ok", "failed", "dead"} \cup File

TypeOK ==
    /\ place \in [Msg -> {"none", "delivery", "inbox", "removing", "gone"}]
    /\ meta \in [Msg -> {"absent", "empty", "started", "done"}]
    /\ sizes \in [Msg -> SUBSET File]
    /\ files \in [Msg -> SUBSET File]
    /\ at \in [Msg -> [Chunk -> Chunk \cup {"zeros"}]]
    /\ cut \in [Msg -> SUBSET Chunk]
    /\ sess \in [Msg -> {"none", "open", "closed", "lost"}]
    /\ md \in [Msg -> {"none", "mkdir", "open", "write", "ok", "failed", "dead"}]
    /\ put \in [Msg -> [Chunk -> PutStage]]
    /\ fin \in [Msg -> [Fin -> FinStage]]
    /\ found \in [Msg -> [Fin -> SUBSET File]]
    /\ rm \in [Msg -> {"none", "unlink", "ok", "unknown", "dead"}]
    /\ quit \subseteq Msg
    /\ known \subseteq Entry
    /\ todo \subseteq Entry

\* A message that is listed under its id has complete metadata, with sizes of
\* both files, and both files are there, whichever completion requests, their
\* repetitions, and late chunks of long segments interleave.
OnlyCompletedListed ==
    \A m \in Msg : place[m] = "inbox" =>
        meta[m] = "done" /\ sizes[m] = File /\ files[m] = File

\* A message that sender was told to be delivered stays in the inbox, over
\* deaths of the server, till recipient, who knows about it, removes it.
DeliveredIsKept ==
    \A m \in Msg, f \in Fin : fin[m][f] \in {"close", "ok"} =>
        \/ place[m] = "inbox"
        \/ place[m] \in {"removing", "gone"} /\ rm[m] # "none"

Whole(m) ==
    \A c \in ChunksOf(m) : FileOf(c) \in files[m] /\ at[m][c] = c /\ c \notin cut[m]

InMailbox(m) ==
    CASE place[m] \in {"none", "delivery"} -> "none"
      [] place[m] = "inbox"                -> IF Whole(m) THEN "whole" ELSE "broken"
      [] place[m] \in {"removing", "gone"} -> "removed"

\* Messages, whose bodies server writes at once, as each of them is smaller than
\* its buffer, appear in the inbox at once, whole, and do not change there,
\* whatever drops on the way.  Nothing of this is said about bigger messages,
\* pieces of which are written one over another.
Small == Msg \ Big
Box == INSTANCE Mailbox WITH Msg <- Small, mail <- [m \in Small |-> InMailbox(m)]
ImplementsMailbox == Box!Spec

\* A delivery that is started ends in recipient's inbox, except when its session
\* is lost, when its sender stops after a lost request or reply, or in sendSegs
\* with a last chunk that is not full, or when a pump of bytes never answers.
EventuallyDelivered ==
    \A m \in Msg :
        (sess[m] = "open") ~> \/ place[m] \in {"inbox", "removing", "gone"}
                              \/ sess[m] = "lost"
                              \/ m \in quit
                              \/ \E c \in Chunk : put[m][c] = "hung"

\* Removal was interrupted by server's death.
HalfRemoved(m) == place[m] = "removing" /\ rm[m] # "unlink"

\* Recipient gets to know about every delivered message, even though a message
\* that is being removed makes listing fail; except when such removal was
\* interrupted, and its remains stay in the list.
EventuallyKnown ==
    \A m \in Msg :
        (place[m] = "inbox") ~> \/ [id |-> m, ghost |-> FALSE] \in known
                               \/ place[m] # "inbox"
                               \/ \E m2 \in Msg : HalfRemoved(m2)

\* "complete messages are moved to 'messages' folder" (asmail/resources/
\* inbox.ts:23-24), and "Offset in a blob. It must be present with in an not
\* appending mode" (lib-common/service-api/asmail/delivery.ts:159): bytes of
\* every chunk are in their place, when a message is in this folder.
ListedAreWhole == \A m \in Msg : place[m] = "inbox" => Whole(m)

=============================================================================

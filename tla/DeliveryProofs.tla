--------------------------- MODULE DeliveryProofs ---------------------------
(***************************************************************************)
(* Proofs about Delivery, for any number of messages, of any sizes, and    *)
(* for any number of completion requests.                                  *)
(***************************************************************************)
EXTENDS Delivery, TLAPS

\* The folder of a message was renamed, or removed.
Gone(m) == place[m] \in {"removing", "gone"}

\* A folder is made once, and it goes away only with a removal request.
Folders ==
    \A m \in Msg :
        /\ md[m] \in {"none", "mkdir"} => place[m] = "none"
        /\ rm[m] = "unlink" => place[m] = "removing"
        /\ Gone(m) => rm[m] # "none"

\* Requests of one sender follow each other.
Order ==
    \A m \in Msg :
        /\ put[m]["hdr"] # "none" => md[m] = "ok"
        /\ put[m]["segs"] # "none" => put[m]["hdr"] = "ok"
        /\ put[m]["more"] # "none" => m \in Long /\ put[m]["segs"] = "ok"
        /\ put[m]["more"] # "unlink"
        /\ \A f \in Fin : fin[m][f] # "none" => put[m]["segs"] = "ok"

\* Files are there, till a message is removed,
Stored ==
    \A m \in Msg, c \in Chunk :
        ~Gone(m) /\ put[m][c] \in {"open", "write", "ok"} => FileOf(c) \in files[m]

\* and bytes of small messages, each written at once, are in them.
Written ==
    \A m \in Small :
        /\ cut[m] = {}
        /\ \A c \in File : ~Gone(m) /\ put[m][c] = "ok" => at[m][c] = c

\* Before the move, a completion request finds both files,
Found ==
    \A m \in Msg, f \in Fin : InDelivery(m) =>
        /\ fin[m][f] = "segs" => "hdr" \in found[m][f]
        /\ fin[m][f] = "save" => found[m][f] = File

\* and saves their sizes.
Sized ==
    \A m \in Msg, f \in Fin : InDelivery(m) /\ fin[m][f] = "move" =>
        meta[m] = "done" /\ sizes[m] = File

\* Reply comes after the move.
Moved ==
    \A m \in Msg, f \in Fin :
        fin[m][f] \in {"close", "ok"} => place[m] \notin {"none", "delivery"}

\* Messages are moved when they are complete.
Listed ==
    \A m \in Msg : place[m] = "inbox" =>
        put[m]["segs"] = "ok" /\ meta[m] = "done" /\ sizes[m] = File

\* The inductive invariant.
IInv ==
    /\ TypeOK
    /\ Folders
    /\ Order
    /\ Stored
    /\ Written
    /\ Found
    /\ Sized
    /\ Moved
    /\ Listed

-----------------------------------------------------------------------------
(* Types                                                                    *)

Place == {"none", "delivery", "inbox", "removing", "gone"}
Meta  == {"absent", "empty", "started", "done"}
Sess  == {"none", "open", "closed", "lost"}

\* What steps of requests with bytes leave to be checked,
LEMMA PutStepTypeOK ==
    ASSUME TypeOK, NEW m \in Msg, NEW c \in Chunk, NEW from, NEW to \in PutStage,
           PutStep(m, c, from, to),
           files' \in [Msg -> SUBSET File], sess' \in [Msg -> Sess],
           at' \in [Msg -> [Chunk -> Chunk \cup {"zeros"}]],
           cut' \in [Msg -> SUBSET Chunk], quit' \subseteq Msg
    PROVE  TypeOK'
  BY DEF TypeOK, PutStep, Sess, finVars, getVars

\* and what steps of completion requests do.
LEMMA FinStepTypeOK ==
    ASSUME TypeOK, NEW m \in Msg, NEW f \in Fin, NEW from, NEW to \in FinStage,
           FinStep(m, f, from, to),
           place' \in [Msg -> Place], meta' \in [Msg -> Meta],
           sizes' \in [Msg -> SUBSET File], sess' \in [Msg -> Sess],
           found' \in [Msg -> [Fin -> SUBSET File]]
    PROVE  TypeOK'
  BY DEF TypeOK, FinStep, Place, Meta, Sess, getVars

\* What steps of a sender, that stops, keep.
LEMMA StopIs ==
    ASSUME NEW m \in Msg, SenderFails(m) \/ SendSegsThrows(m)
    PROVE  /\ UNCHANGED <<diskVars, sess, md, put, finVars, getVars>>
           /\ quit' = quit \cup {m}
  BY DEF SenderFails, SendSegsThrows

\* Every step keeps values in their sets.
LEMMA NextTypeOK == TypeOK /\ [Next]_vars => TypeOK'
<1> SUFFICES ASSUME TypeOK, [Next]_vars PROVE TypeOK'
  OBVIOUS
<1>1. ASSUME NEW m \in Msg, StartSession(m) PROVE TypeOK'
  BY <1>1 DEF StartSession, TypeOK, PutStage, FinStage, File, Chunk, diskVars, finVars,
     getVars
<1>2. ASSUME NEW m \in Msg, Expire(m) PROVE TypeOK'
  BY <1>2 DEF Expire, TypeOK, PutStage, FinStage, File, Chunk, diskVars, finVars,
     getVars
<1>3. ASSUME NEW m \in Msg, SendMetadata(m) PROVE TypeOK'
  BY <1>3 DEF SendMetadata, MetadataStep, TypeOK, PutStage, FinStage, File, Chunk,
     diskVars, finVars, getVars
<1>4. ASSUME NEW m \in Msg, MakeMsgFolder(m) PROVE TypeOK'
  BY <1>4 DEF MakeMsgFolder, MetadataStep, TypeOK, PutStage, FinStage, File, Chunk,
     diskVars, finVars, getVars
<1>5. ASSUME NEW m \in Msg, OpenMeta(m) PROVE TypeOK'
  BY <1>5 DEF OpenMeta, MetadataStep, TypeOK, PutStage, FinStage, File, Chunk,
     diskVars, finVars, getVars
<1>6. ASSUME NEW m \in Msg, WriteMeta(m) PROVE TypeOK'
  BY <1>6 DEF WriteMeta, MetadataStep, TypeOK, PutStage, FinStage, File, Chunk,
     diskVars, finVars, getVars
<1>7. ASSUME NEW m \in Msg, NEW c \in Chunk, PutBytes(m, c) PROVE TypeOK'
  BY <1>7 DEF PutBytes, PutStep, MaySend, ChunksOf, TypeOK, PutStage, FinStage, File,
     Chunk, diskVars, finVars, getVars
<1>8. ASSUME NEW m \in Msg, NEW c \in Chunk, CheckIds(m, c) PROVE TypeOK'
  <2>1. /\ files' \in [Msg -> SUBSET File] /\ sess' \in [Msg -> Sess]
        /\ at' \in [Msg -> [Chunk -> Chunk \cup {"zeros"}]]
        /\ cut' \in [Msg -> SUBSET Chunk] /\ quit' \subseteq Msg
    BY <1>8 DEF CheckIds, TypeOK, Sess
  <2>2. PutStep(m, c, "check", "file") \/ PutStep(m, c, "check", "failed")
    BY <1>8 DEF CheckIds
  <2> QED
    BY <2>1, <2>2, PutStepTypeOK DEF PutStage
<1>9. ASSUME NEW m \in Msg, NEW c \in Chunk, PrepareFile(m, c) PROVE TypeOK'
  <2>1. /\ files' \in [Msg -> SUBSET File] /\ sess' \in [Msg -> Sess]
        /\ at' \in [Msg -> [Chunk -> Chunk \cup {"zeros"}]]
        /\ cut' \in [Msg -> SUBSET Chunk] /\ quit' \subseteq Msg
    <3>1. \/ files' = [files EXCEPT ![m] = @ \cup {FileOf(c)}]
          \/ files' = files
      BY <1>9 DEF PrepareFile
    <3>2. UNCHANGED <<at, cut, sess, quit>> /\ FileOf(c) \in File
      BY <1>9 DEF PrepareFile, FileOf, File
    <3>3. files[m] \cup {FileOf(c)} \in SUBSET File /\ files \in [Msg -> SUBSET File]
      BY <3>2 DEF TypeOK
    <3>4. files' \in [Msg -> SUBSET File]
      BY <3>1, <3>3
    <3> QED
      BY <3>2, <3>4 DEF TypeOK, Sess
  <2>2. PutStep(m, c, "file", "open") \/ PutStep(m, c, "file", "failed")
    BY <1>9 DEF PrepareFile
  <2> QED
    BY <2>1, <2>2, PutStepTypeOK DEF PutStage
<1>10. ASSUME NEW m \in Msg, NEW c \in Chunk, OpenFile(m, c) PROVE TypeOK'
  BY <1>10 DEF OpenFile, PutStep, InDelivery, TypeOK, PutStage, FinStage, File, Chunk,
     diskVars, finVars, getVars
<1>11. ASSUME NEW m \in Msg, NEW c \in Chunk, WriteBytes(m, c) PROVE TypeOK'
  <2>1. PICK to \in AfterPiece(m, c) :
           /\ PutStep(m, c, "write", to)
           /\ cut' = IF to = "ok" THEN cut ELSE [cut EXCEPT ![m] = @ \cup {c}]
    BY <1>11 DEF WriteBytes
  <2>2. to \in PutStage
    BY DEF AfterPiece, PutStage
  <2>3. cut' \in [Msg -> SUBSET Chunk]
    BY <2>1 DEF TypeOK
  <2>4. at' \in [Msg -> [Chunk -> Chunk \cup {"zeros"}]]
    <3>1. at' = at \/ at' = [at EXCEPT ![m][Position(c)] = c]
      BY <1>11 DEF WriteBytes
    <3>2. Position(c) \in Chunk
      BY DEF Position, FileOf, Chunk
    <3>3. at \in [Msg -> [Chunk -> Chunk \cup {"zeros"}]]
      BY DEF TypeOK
    <3> HIDE DEF Position
    <3> QED
      BY <3>1, <3>2, <3>3
  <2>5. files' \in [Msg -> SUBSET File] /\ sess' \in [Msg -> Sess] /\ quit' \subseteq Msg
    BY <1>11 DEF WriteBytes, TypeOK, Sess
  <2> QED
    BY <2>1, <2>2, <2>3, <2>4, <2>5, PutStepTypeOK
<1>25. ASSUME NEW m \in Msg, NEW c \in Chunk, DropBody(m, c) PROVE TypeOK'
  <2>1. PICK to \in {"hung", "unlink", "failed"} : PutStep(m, c, "open", to)
    BY <1>25 DEF DropBody
  <2>2. /\ files' \in [Msg -> SUBSET File] /\ sess' \in [Msg -> Sess]
        /\ at' \in [Msg -> [Chunk -> Chunk \cup {"zeros"}]]
        /\ cut' \in [Msg -> SUBSET Chunk] /\ quit' \subseteq Msg
    BY <1>25 DEF DropBody, TypeOK, Sess
  <2> QED
    BY <2>1, <2>2, PutStepTypeOK DEF PutStage
<1>26. ASSUME NEW m \in Msg, NEW c \in Chunk, UnlinkFile(m, c) PROVE TypeOK'
  <2>1. PutStep(m, c, "unlink", "failed")
    BY <1>26 DEF UnlinkFile
  <2>2. files' \in [Msg -> SUBSET File]
    BY <1>26 DEF UnlinkFile, TypeOK
  <2>3. /\ sess' \in [Msg -> Sess]
        /\ at' \in [Msg -> [Chunk -> Chunk \cup {"zeros"}]]
        /\ cut' \in [Msg -> SUBSET Chunk] /\ quit' \subseteq Msg
    BY <1>26 DEF UnlinkFile, TypeOK, Sess
  <2> QED
    BY <2>1, <2>2, <2>3, PutStepTypeOK DEF PutStage
<1>27. ASSUME NEW m \in Msg, SenderFails(m) \/ SendSegsThrows(m) PROVE TypeOK'
  BY <1>27, StopIs DEF TypeOK, diskVars, finVars, getVars
<1>12. ASSUME NEW m \in Msg, NEW f \in Fin, CompleteDelivery(m, f) PROVE TypeOK'
  BY <1>12 DEF CompleteDelivery, FinStep, TypeOK, PutStage, FinStage, File, Chunk,
     diskVars, finVars, getVars
<1>13. ASSUME NEW m \in Msg, NEW f \in Fin, ReadMeta(m, f) PROVE TypeOK'
  <2>1. /\ place' \in [Msg -> Place] /\ meta' \in [Msg -> Meta]
        /\ sizes' \in [Msg -> SUBSET File] /\ sess' \in [Msg -> Sess]
        /\ found' \in [Msg -> [Fin -> SUBSET File]]
    BY <1>13 DEF ReadMeta, TypeOK, Place, Meta, Sess
  <2>2. FinStep(m, f, "read", "hdr") \/ FinStep(m, f, "read", "failed")
    BY <1>13 DEF ReadMeta
  <2> QED
    BY <2>1, <2>2, FinStepTypeOK DEF FinStage, File
<1>14. ASSUME NEW m \in Msg, NEW f \in Fin, NEW file \in File, GetSize(m, f, file) PROVE TypeOK'
  <2>1. /\ place' \in [Msg -> Place] /\ meta' \in [Msg -> Meta]
        /\ sizes' \in [Msg -> SUBSET File] /\ sess' \in [Msg -> Sess]
        /\ found' \in [Msg -> [Fin -> SUBSET File]]
    <3>1. \/ found' = [found EXCEPT ![m][f] = @ \cup {file}]
          \/ found' = found
      BY <1>14 DEF GetSize
    <3>2. UNCHANGED <<place, meta, sizes, sess>>
      BY <1>14 DEF GetSize
    <3>3. /\ found[m][f] \cup {file} \in SUBSET File
          /\ found \in [Msg -> [Fin -> SUBSET File]]
      BY DEF TypeOK
    <3>4. found' \in [Msg -> [Fin -> SUBSET File]]
      BY <3>1, <3>3
    <3> QED
      BY <3>2, <3>4 DEF TypeOK, Place, Meta, Sess
  <2>2. FinStep(m, f, file, "segs") \/ FinStep(m, f, file, "save")
    BY <1>14 DEF GetSize
  <2> QED
    BY <2>1, <2>2, FinStepTypeOK DEF FinStage, File
<1>15. ASSUME NEW m \in Msg, NEW f \in Fin, SaveMeta(m, f) PROVE TypeOK'
  <2>1. /\ place' \in [Msg -> Place] /\ meta' \in [Msg -> Meta]
        /\ sizes' \in [Msg -> SUBSET File] /\ sess' \in [Msg -> Sess]
        /\ found' \in [Msg -> [Fin -> SUBSET File]]
    <3>1. \/ /\ meta' = [meta EXCEPT ![m] = "done"]
             /\ sizes' = [sizes EXCEPT ![m] = found[m][f]]
          \/ UNCHANGED <<meta, sizes>>
      BY <1>15 DEF SaveMeta
    <3>2. UNCHANGED <<place, sess, found>>
      BY <1>15 DEF SaveMeta
    <3>3. /\ found[m][f] \in SUBSET File /\ "done" \in Meta
          /\ meta \in [Msg -> Meta] /\ sizes \in [Msg -> SUBSET File]
      BY DEF TypeOK, Meta
    <3>4. meta' \in [Msg -> Meta] /\ sizes' \in [Msg -> SUBSET File]
      BY <3>1, <3>3
    <3> QED
      BY <3>2, <3>4 DEF TypeOK, Place, Sess
  <2>2. FinStep(m, f, "save", "move") \/ FinStep(m, f, "save", "failed")
    BY <1>15 DEF SaveMeta, Saved
  <2> QED
    BY <2>1, <2>2, FinStepTypeOK DEF FinStage, File
<1>16. ASSUME NEW m \in Msg, NEW f \in Fin, MoveMsg(m, f) PROVE TypeOK'
  <2>1. /\ place' \in [Msg -> Place] /\ meta' \in [Msg -> Meta]
        /\ sizes' \in [Msg -> SUBSET File] /\ sess' \in [Msg -> Sess]
        /\ found' \in [Msg -> [Fin -> SUBSET File]]
    BY <1>16 DEF MoveMsg, TypeOK, Place, Meta, Sess
  <2>2. FinStep(m, f, "move", "close") \/ FinStep(m, f, "move", "failed")
    BY <1>16 DEF MoveMsg
  <2> QED
    BY <2>1, <2>2, FinStepTypeOK DEF FinStage, File
<1>17. ASSUME NEW m \in Msg, NEW f \in Fin, CloseSession(m, f) PROVE TypeOK'
  BY <1>17 DEF CloseSession, FinStep, TypeOK, PutStage, FinStage, File, Chunk,
     diskVars, finVars, getVars
<1>18. CASE ListMsgs
  BY <1>18 DEF ListMsgs, Entries, TypeOK, PutStage, FinStage, File, Chunk, diskVars,
     finVars, getVars
<1>19. ASSUME NEW e \in Entry, GetMsgMeta(e) PROVE TypeOK'
  BY <1>19 DEF GetMsgMeta, Entries, AfterFailure, HasMeta, TypeOK, PutStage, FinStage,
     File, Chunk, diskVars, finVars, getVars
<1>20. ASSUME NEW m \in Msg, RmMsg(m) PROVE TypeOK'
  <2>1. /\ place' \in [Msg -> Place] /\ known' \subseteq Entry
        /\ rm' \in [Msg -> {"none", "unlink", "ok", "unknown", "dead"}]
    BY <1>20 DEF RmMsg, TypeOK, Place
  <2>2. UNCHANGED <<meta, sizes, files, at, cut, sess, md, put, finVars, quit, todo>>
    BY <1>20 DEF RmMsg
  <2> QED
    BY <2>1, <2>2 DEF TypeOK, Place, finVars
<1>21. ASSUME NEW m \in Msg, UnlinkMsgFile(m) PROVE TypeOK'
  <2>1. /\ meta' \in [Msg -> Meta] /\ files' \in [Msg -> SUBSET File]
    BY <1>21 DEF UnlinkMsgFile, TypeOK, Meta
  <2>2. UNCHANGED <<place, sizes, at, cut, sess, md, put, finVars, quit, getVars>>
    BY <1>21 DEF UnlinkMsgFile
  <2> QED
    BY <2>1, <2>2 DEF TypeOK, Meta, finVars, getVars
<1>22. ASSUME NEW m \in Msg, RemoveMsgFolder(m) PROVE TypeOK'
  BY <1>22 DEF RemoveMsgFolder, TypeOK, PutStage, FinStage, File, Chunk, diskVars,
     finVars, getVars
<1>23. CASE Crash
  BY <1>23 DEF Crash, Killed, Over, TypeOK, PutStage, FinStage, File, Chunk, diskVars,
     finVars, getVars
<1>24. CASE UNCHANGED vars
  BY <1>24 DEF vars, TypeOK, PutStage, FinStage, File, Chunk, diskVars, finVars, getVars
<1> QED
  BY <1>1, <1>2, <1>3, <1>4, <1>5, <1>6, <1>7, <1>8, <1>9, <1>10, <1>11, <1>12, <1>13,
     <1>14, <1>15, <1>16, <1>17, <1>18, <1>19, <1>20, <1>21, <1>22, <1>23, <1>24,
     <1>25, <1>26, <1>27
     DEF Next, SenderSteps, DeliverySteps, RemovalSteps, Getting, File, Chunk

\* Values are in their sets in every execution.
THEOREM TypeCorrect == Spec => []TypeOK
<1>1. Init => TypeOK
  BY DEF Init, TypeOK, PutStage, FinStage, File, Chunk
<1>2. QED
  BY <1>1, NextTypeOK, PTL DEF Spec

-----------------------------------------------------------------------------
(* The invariant                                                            *)


\* Progress of one request is changed.
LEMMA PutStepChanges ==
    ASSUME IInv, NEW m \in Msg, NEW c \in Chunk, NEW from, NEW to, PutStep(m, c, from, to)
    PROVE  /\ put[m][c] = from /\ put'[m][c] = to
           /\ \A n \in Msg, d \in Chunk : (n = m /\ d = c) \/ put'[n][d] = put[n][d]
  BY DEF IInv, TypeOK, PutStep

\* What steps of requests with bytes keep.
LEMMA PutStepKeeps ==
    ASSUME IInv, NEW m \in Msg, NEW c \in Chunk, NEW from, NEW to,
           from \notin {"none", "ok"}, to # "none", to = "unlink" => c # "more",
           PutStep(m, c, from, to)
    PROVE  /\ Order'
           /\ Listed'
           /\ to # "ok" /\ UNCHANGED <<at, cut>> => Written'
<1>1. /\ put \in [Msg -> [Chunk -> PutStage]] /\ put[m][c] = from
      /\ put' = [put EXCEPT ![m][c] = to]
      /\ UNCHANGED <<place, meta, sizes, md, fin>>
  BY DEF IInv, TypeOK, PutStep, finVars
<1>2. Order'
  <2>1. \A n \in Msg, d \in Chunk : put[n][d] \in {"none", "ok"} => put'[n][d] = put[n][d]
    BY <1>1
  <2>2. \A n \in Msg, d \in Chunk : put'[n][d] # "none" => put[n][d] # "none"
    BY <1>1
  <2>3. \A n \in Msg : put'[n]["more"] # "unlink"
    BY <1>1 DEF IInv, Order, Chunk
  <2> QED
    BY <1>1, <2>1, <2>2, <2>3 DEF IInv, Order, Chunk
<1>3. Listed'
  BY <1>1 DEF IInv, Listed, Chunk
<1>4. ASSUME to # "ok", UNCHANGED <<at, cut>> PROVE Written'
  <2>1. \A n \in Msg, d \in Chunk : put'[n][d] = "ok" => put[n][d] = "ok"
    BY <1>1, <1>4
  <2> QED
    BY <1>1, <1>4, <2>1 DEF IInv, Written, Gone, Small, File, Chunk
<1> QED
  BY <1>2, <1>3, <1>4

\* What steps of completion requests keep.
LEMMA FinStepKeeps ==
    ASSUME IInv, NEW m \in Msg, NEW f \in Fin, NEW from, NEW to,
           from # "none", FinStep(m, f, from, to)
    PROVE  /\ Order'
           /\ to \notin {"segs", "save"} /\ UNCHANGED <<place, found>> => Found'
           /\ to # "move" /\ UNCHANGED <<place, meta, sizes>> => Sized'
           /\ to \notin {"close", "ok"} /\ UNCHANGED place => Moved'
<1>1. /\ fin \in [Msg -> [Fin -> FinStage]] /\ fin[m][f] = from
      /\ fin' = [fin EXCEPT ![m][f] = to]
      /\ UNCHANGED <<files, md, put>>
  BY DEF IInv, TypeOK, FinStep
<1>2. \A n \in Msg, g \in Fin : fin'[n][g] = IF n = m /\ g = f THEN to ELSE fin[n][g]
  BY <1>1
<1>3. Order'
  BY <1>1, <1>2 DEF IInv, Order
<1>4. ASSUME to \notin {"segs", "save"}, UNCHANGED <<place, found>> PROVE Found'
  BY <1>1, <1>2, <1>4 DEF IInv, Found, InDelivery
<1>5. ASSUME to # "move", UNCHANGED <<place, meta, sizes>> PROVE Sized'
  BY <1>1, <1>2, <1>5 DEF IInv, Sized, InDelivery
<1>6. ASSUME to \notin {"close", "ok"}, UNCHANGED place PROVE Moved'
  BY <1>1, <1>2, <1>6 DEF IInv, Moved
<1> QED
  BY <1>3, <1>4, <1>5, <1>6

\* A message, whose folder is in delivery while a request completes it, has
\* both files.
LEMMA CompletedHasFiles ==
    ASSUME IInv, NEW m \in Msg, ~Gone(m), put[m]["segs"] = "ok" PROVE files[m] = File
<1>1. put[m]["hdr"] = "ok"
  BY DEF IInv, Order
<1>2. "hdr" \in files[m] /\ "segs" \in files[m]
  BY <1>1 DEF IInv, Stored, Chunk, FileOf
<1> QED
  BY <1>2 DEF IInv, TypeOK, File

\* Every step keeps the invariant.
LEMMA NextIInv == IInv /\ [Next]_vars => IInv'
<1> SUFFICES ASSUME IInv, [Next]_vars PROVE IInv'
  OBVIOUS
<1> DEFINE Parts == Folders /\ Order /\ Stored /\ Written /\ Found /\ Sized /\ Moved /\ Listed
<1>0. TypeOK'
  BY NextTypeOK DEF IInv
<1>1. ASSUME NEW m \in Msg, StartSession(m) PROVE Parts'
  <2>1. UNCHANGED <<place, meta, sizes, files, at, cut, md, put, fin, found, rm, known, todo>>
    BY <1>1 DEF StartSession, diskVars, finVars, getVars
  <2>2. Folders' /\ Order' /\ Stored' /\ Written' /\ Found' /\ Sized' /\ Moved' /\ Listed'
    BY <2>1 DEF IInv, Folders, Found, Gone, InDelivery, Listed, Moved, Order, Sized,
       Stored, Written
  <2> QED
    BY <2>2
<1>2. ASSUME NEW m \in Msg, Expire(m) PROVE Parts'
  <2>1. UNCHANGED <<place, meta, sizes, files, at, cut, md, put, fin, found, rm, known, todo>>
    BY <1>2 DEF Expire, diskVars, finVars, getVars
  <2>2. Folders' /\ Order' /\ Stored' /\ Written' /\ Found' /\ Sized' /\ Moved' /\ Listed'
    BY <2>1 DEF IInv, Folders, Found, Gone, InDelivery, Listed, Moved, Order, Sized,
       Stored, Written
  <2> QED
    BY <2>2
<1>3. ASSUME NEW m \in Msg, SendMetadata(m) PROVE Parts'
  <2>1. UNCHANGED <<place, meta, sizes, files, at, cut, sess, put, fin, found, rm, known, todo>>
    BY <1>3 DEF SendMetadata, MetadataStep, diskVars, finVars, getVars
  <2>2. Stored' /\ Written' /\ Found' /\ Sized' /\ Moved' /\ Listed'
    BY <2>1 DEF IInv, Found, Gone, InDelivery, Listed, Moved, Sized, Stored, Written
  <2>3. Folders'
    BY <1>3, <2>1 DEF SendMetadata, MetadataStep, IInv, TypeOK, Folders, Gone
  <2>4. Order'
    BY <1>3, <2>1 DEF SendMetadata, MetadataStep, IInv, TypeOK, Order
  <2> QED
    BY <2>2, <2>3, <2>4
<1>4. ASSUME NEW m \in Msg, MakeMsgFolder(m) PROVE Parts'
  <2>1. UNCHANGED <<meta, sizes, files, at, cut, sess, put, fin, found, rm, known, todo>>
    BY <1>4 DEF MakeMsgFolder, MetadataStep, diskVars, finVars, getVars
  <2>2. /\ \A c \in Chunk : put[m][c] = "none"
        /\ \A f \in Fin : fin[m][f] = "none"
        /\ place[m] = "none"
    BY <1>4 DEF MakeMsgFolder, MetadataStep, IInv, Folders, Order, Chunk
  <2>3. \A n \in Msg : n # m => place'[n] = place[n]
    BY <1>4 DEF MakeMsgFolder, IInv, TypeOK
  <2>4. Folders'
    BY <1>4, <2>1 DEF MakeMsgFolder, MetadataStep, IInv, TypeOK, Folders, Gone
  <2>5. Order'
    BY <1>4, <2>1 DEF MakeMsgFolder, MetadataStep, IInv, TypeOK, Order
  <2>6. Stored'
    BY <2>1, <2>2, <2>3 DEF IInv, Stored, Gone
  <2>7. Written'
    BY <2>1, <2>2, <2>3 DEF IInv, Written, Gone, Small, File, Chunk
  <2>8. Found'
    BY <2>1, <2>2, <2>3 DEF IInv, Found, InDelivery
  <2>9. Sized'
    BY <2>1, <2>2, <2>3 DEF IInv, Sized, InDelivery
  <2>10. Moved'
    BY <2>1, <2>2, <2>3 DEF IInv, Moved
  <2>11. Listed'
    BY <1>4, <2>1 DEF MakeMsgFolder, MetadataStep, IInv, TypeOK, Listed
  <2> QED
    BY <2>4, <2>5, <2>6, <2>7, <2>8, <2>9, <2>10, <2>11
<1>5. ASSUME NEW m \in Msg, OpenMeta(m) PROVE Parts'
  <2>1. UNCHANGED <<place, sizes, files, at, cut, sess, put, fin, found, rm, known, todo>>
    BY <1>5 DEF OpenMeta, MetadataStep, diskVars, finVars, getVars
  <2>2. put[m]["segs"] # "ok" /\ \A f \in Fin : fin[m][f] = "none"
    BY <1>5 DEF OpenMeta, MetadataStep, IInv, Order
  <2>3. \A n \in Msg : n # m => meta'[n] = meta[n]
    BY <1>5 DEF OpenMeta, IInv, TypeOK
  <2>4. Stored' /\ Written' /\ Found' /\ Moved'
    BY <2>1 DEF IInv, Found, Gone, InDelivery, Moved, Stored, Written
  <2>5. Folders'
    BY <1>5, <2>1 DEF OpenMeta, MetadataStep, IInv, TypeOK, Folders, Gone
  <2>6. Order'
    BY <1>5, <2>1 DEF OpenMeta, MetadataStep, IInv, TypeOK, Order
  <2>7. Sized'
    BY <2>1, <2>2, <2>3 DEF IInv, Sized, InDelivery
  <2>8. Listed'
    BY <2>1, <2>2, <2>3 DEF IInv, Listed
  <2> QED
    BY <2>4, <2>5, <2>6, <2>7, <2>8
<1>6. ASSUME NEW m \in Msg, WriteMeta(m) PROVE Parts'
  <2>1. UNCHANGED <<place, sizes, files, at, cut, sess, put, fin, found, rm, known, todo>>
    BY <1>6 DEF WriteMeta, MetadataStep, diskVars, finVars, getVars
  <2>2. put[m]["segs"] # "ok" /\ \A f \in Fin : fin[m][f] = "none"
    BY <1>6 DEF WriteMeta, MetadataStep, IInv, Order
  <2>3. \A n \in Msg : n # m => meta'[n] = meta[n]
    BY <1>6 DEF WriteMeta, IInv, TypeOK
  <2>4. Stored' /\ Written' /\ Found' /\ Moved'
    BY <2>1 DEF IInv, Found, Gone, InDelivery, Moved, Stored, Written
  <2>5. Folders'
    BY <1>6, <2>1 DEF WriteMeta, MetadataStep, IInv, TypeOK, Folders, Gone
  <2>6. Order'
    BY <1>6, <2>1 DEF WriteMeta, MetadataStep, IInv, TypeOK, Order
  <2>7. Sized'
    BY <2>1, <2>2, <2>3 DEF IInv, Sized, InDelivery
  <2>8. Listed'
    BY <2>1, <2>2, <2>3 DEF IInv, Listed
  <2> QED
    BY <2>4, <2>5, <2>6, <2>7, <2>8
<1>7. ASSUME NEW m \in Msg, NEW c \in Chunk, PutBytes(m, c) PROVE Parts'
  <2>1. UNCHANGED <<place, meta, sizes, files, at, cut, sess, md, fin, found, rm, known, todo>>
    BY <1>7 DEF PutBytes, PutStep, diskVars, finVars, getVars
  <2>2. Folders' /\ Found' /\ Sized' /\ Moved'
    BY <2>1 DEF IInv, Folders, Found, Gone, InDelivery, Moved, Sized
  <2>3. Order'
    <3>1. \A n \in Msg, d \in Chunk : \/ put'[n][d] = put[n][d]
                                      \/ n = m /\ d = c /\ put[m][c] = "none"
      BY <1>7 DEF PutBytes, PutStep, IInv, TypeOK
    <3>2. /\ c = "hdr" => md[m] = "ok"
          /\ c = "segs" => put[m]["hdr"] = "ok"
          /\ c = "more" => put[m]["segs"] = "ok" /\ m \in Long
      BY <1>7 DEF PutBytes, MaySend, ChunksOf, Chunk
    <3>3. put'[m][c] # "unlink"
      BY <1>7 DEF PutBytes, PutStep, IInv, TypeOK
    <3> QED
      BY <2>1, <3>1, <3>2, <3>3 DEF IInv, Order, Chunk
  <2>4. Stored'
    BY <1>7, <2>1 DEF PutBytes, PutStep, MaySend, ChunksOf, IInv, TypeOK, Stored, Gone
  <2>5. Written'
    BY <1>7, <2>1 DEF PutBytes, PutStep, MaySend, ChunksOf, IInv, TypeOK, Written, Gone
  <2>6. Listed'
    BY <1>7, <2>1 DEF PutBytes, PutStep, MaySend, ChunksOf, IInv, TypeOK, Listed
  <2> QED
    BY <2>2, <2>3, <2>4, <2>5, <2>6
<1>8. ASSUME NEW m \in Msg, NEW c \in Chunk, CheckIds(m, c) PROVE Parts'
  <2>1. UNCHANGED <<place, meta, sizes, files, at, cut, md, fin, found, rm, known, todo>>
    BY <1>8 DEF CheckIds, PutStep, diskVars, finVars, getVars
  <2>2. PutStep(m, c, "check", "file") \/ PutStep(m, c, "check", "failed")
    BY <1>8 DEF CheckIds
  <2>3. Folders' /\ Found' /\ Sized' /\ Moved'
    BY <2>1 DEF IInv, Folders, Found, Gone, InDelivery, Moved, Sized
  <2>4. Order'
    BY <2>2, PutStepKeeps
  <2>5. Stored'
    <3>1. put'[m][c] \in {"file", "failed"}
      BY <2>2, PutStepChanges
    <3>2. \A n \in Msg, d \in Chunk : (n = m /\ d = c) \/ put'[n][d] = put[n][d]
      BY <2>2, PutStepChanges
    <3> QED
      BY <2>1, <3>1, <3>2 DEF IInv, Stored, Gone
  <2>6. Written'
    BY <2>1, <2>2, PutStepKeeps
  <2>7. Listed'
    BY <2>2, PutStepKeeps
  <2> QED
    BY <2>3, <2>4, <2>5, <2>6, <2>7
<1>9. ASSUME NEW m \in Msg, NEW c \in Chunk, PrepareFile(m, c) PROVE Parts'
  <2>1. UNCHANGED <<place, meta, sizes, at, cut, sess, md, fin, found, rm, known, todo>>
    BY <1>9 DEF PrepareFile, PutStep, diskVars, finVars, getVars
  <2>2. PutStep(m, c, "file", "open") \/ PutStep(m, c, "file", "failed")
    BY <1>9 DEF PrepareFile
  <2>3. Folders' /\ Found' /\ Sized' /\ Moved'
    BY <2>1 DEF IInv, Folders, Found, Gone, InDelivery, Moved, Sized
  <2>4. Order'
    BY <2>2, PutStepKeeps
  <2>5. Stored'
    <3>1. \A n \in Msg : files[n] \subseteq files'[n]
      BY <1>9 DEF PrepareFile, IInv, TypeOK
    <3>2. put'[m][c] = "open" => FileOf(c) \in files'[m]
      BY <1>9 DEF PrepareFile, PutStep, IInv, TypeOK
    <3>3. put'[m][c] \in {"open", "failed"}
      BY <2>2, PutStepChanges
    <3>4. \A n \in Msg, d \in Chunk : (n = m /\ d = c) \/ put'[n][d] = put[n][d]
      BY <2>2, PutStepChanges
    <3> QED
      BY <2>1, <3>1, <3>2, <3>3, <3>4 DEF IInv, Stored, Gone
  <2>6. Written'
    BY <2>1, <2>2, PutStepKeeps
  <2>7. Listed'
    BY <2>2, PutStepKeeps
  <2> QED
    BY <2>3, <2>4, <2>5, <2>6, <2>7
<1>10. ASSUME NEW m \in Msg, NEW c \in Chunk, OpenFile(m, c) PROVE Parts'
  <2>1. UNCHANGED <<place, meta, sizes, files, at, cut, sess, md, fin, found, rm, known, todo>>
    BY <1>10 DEF OpenFile, PutStep, diskVars, finVars, getVars
  <2>2. Folders' /\ Found' /\ Sized' /\ Moved'
    BY <2>1 DEF IInv, Folders, Found, Gone, InDelivery, Moved, Sized
  <2>3. Order'
    BY <1>10, <2>1 DEF OpenFile, PutStep, InDelivery, IInv, TypeOK, Order
  <2>4. Stored'
    BY <1>10, <2>1 DEF OpenFile, PutStep, InDelivery, IInv, TypeOK, Stored, Gone
  <2>5. Written'
    BY <1>10, <2>1 DEF OpenFile, PutStep, InDelivery, IInv, TypeOK, Written, Gone
  <2>6. Listed'
    BY <1>10, <2>1 DEF OpenFile, PutStep, InDelivery, IInv, TypeOK, Listed
  <2> QED
    BY <2>2, <2>3, <2>4, <2>5, <2>6
<1>11. ASSUME NEW m \in Msg, NEW c \in Chunk, WriteBytes(m, c) PROVE Parts'
  <2>1. UNCHANGED <<place, meta, sizes, files, sess, md, fin, found, rm, known, todo>>
    BY <1>11 DEF WriteBytes, PutStep, diskVars, finVars, getVars
  <2>2. PICK to \in AfterPiece(m, c) :
           /\ PutStep(m, c, "write", to)
           /\ cut' = IF to = "ok" THEN cut ELSE [cut EXCEPT ![m] = @ \cup {c}]
    BY <1>11 DEF WriteBytes
  <2>8. to \in {"ok", "hung", "open"} /\ (m \in Small => to = "ok")
    BY DEF AfterPiece, Small
  <2>3. Folders' /\ Found' /\ Sized' /\ Moved'
    BY <2>1 DEF IInv, Folders, Found, Gone, InDelivery, Moved, Sized
  <2>4. Order'
    BY <2>2, <2>8, PutStepKeeps
  <2>5. Stored'
    <3>1. \A n \in Msg, d \in Chunk :
             put'[n][d] \in {"open", "write", "ok"} => put[n][d] \in {"open", "write", "ok"}
      BY <2>2, PutStepChanges
    <3> QED
      BY <2>1, <3>1 DEF IInv, Stored, Gone
  <2>6. Written'
    <3>0. ASSUME NEW n \in Small PROVE cut'[n] = {}
      BY <2>2, <2>8 DEF IInv, TypeOK, Written, Small
    <3> SUFFICES ASSUME NEW n \in Small, NEW d \in File, ~Gone(n)', put'[n][d] = "ok"
                PROVE  at'[n][d] = d
      BY <3>0 DEF Written
    <3>1. n \in Msg /\ n \notin Long /\ d \in Chunk /\ ~Gone(n)
      BY <2>1, SizeAssumption DEF Small, File, Chunk, Gone
    <3>2. at \in [Msg -> [Chunk -> Chunk \cup {"zeros"}]] /\ put \in [Msg -> [Chunk -> PutStage]]
      BY DEF IInv, TypeOK
    <3>3. CASE n = m /\ d = c
      <4>1. FileOf(c) \in files[m] /\ Position(c) = c
        BY <2>2, <3>1, <3>3 DEF PutStep, IInv, Stored, Position, FileOf, File
      <4>2. at' = [at EXCEPT ![m][c] = c]
        BY <1>11, <4>1 DEF WriteBytes
      <4> QED
        BY <3>1, <3>2, <3>3, <4>2
    <3>4. CASE ~(n = m /\ d = c)
      <4>1. put[n][d] = "ok" /\ at[n][d] = d
        BY <2>2, <3>1, <3>2, <3>4 DEF PutStep, IInv, Written
      <4>2. n = m => c # "more"
        BY <2>2, <3>1 DEF PutStep, IInv, Order
      <4>3. n = m => Position(c) # d
        BY <3>1, <3>4, <4>2 DEF Position, FileOf, Chunk
      <4>4. at' = at \/ at' = [at EXCEPT ![m][Position(c)] = c]
        BY <1>11 DEF WriteBytes
      <4> QED
        BY <3>1, <3>2, <4>1, <4>3, <4>4
    <3> QED
      BY <3>3, <3>4
  <2>7. Listed'
    BY <2>2, <2>8, PutStepKeeps
  <2> QED
    BY <2>3, <2>4, <2>5, <2>6, <2>7
<1>26. ASSUME NEW m \in Msg, NEW c \in Chunk, DropBody(m, c) PROVE Parts'
  <2>1. UNCHANGED <<place, meta, sizes, files, at, cut, sess, md, fin, found, rm, known, todo>>
    BY <1>26 DEF DropBody, PutStep, diskVars, finVars, getVars
  <2>2. PICK to \in {"hung", "unlink", "failed"} :
           PutStep(m, c, "open", to) /\ (to = "unlink" => c # "more")
    BY <1>26 DEF DropBody, IsFirst
  <2>3. Folders' /\ Found' /\ Sized' /\ Moved'
    BY <2>1 DEF IInv, Folders, Found, Gone, InDelivery, Moved, Sized
  <2>4. Order' /\ Written' /\ Listed'
    BY <2>1, <2>2, PutStepKeeps
  <2>5. Stored'
    <3>1. \A n \in Msg, d \in Chunk :
             put'[n][d] \in {"open", "write", "ok"} => put[n][d] \in {"open", "write", "ok"}
      BY <2>2, PutStepChanges
    <3> QED
      BY <2>1, <3>1 DEF IInv, Stored, Gone
  <2> QED
    BY <2>3, <2>4, <2>5
<1>27. ASSUME NEW m \in Msg, NEW c \in Chunk, UnlinkFile(m, c) PROVE Parts'
  <2>1. UNCHANGED <<place, meta, sizes, at, cut, sess, md, fin, found, rm, known, todo>>
    BY <1>27 DEF UnlinkFile, PutStep, diskVars, finVars, getVars
  <2>2. PutStep(m, c, "unlink", "failed")
    BY <1>27 DEF UnlinkFile
  <2>3. Folders' /\ Found' /\ Sized' /\ Moved'
    BY <2>1 DEF IInv, Folders, Found, Gone, InDelivery, Moved, Sized
  <2>4. Order' /\ Written' /\ Listed'
    BY <2>1, <2>2, PutStepKeeps
  <2>5. Stored'
    <3>1. put[m][c] = "unlink" /\ c # "more"
      BY <2>2 DEF PutStep, IInv, Order
    <3>2. \A d \in Chunk : put[m][d] \in {"open", "write", "ok"} => FileOf(d) # FileOf(c)
      BY <3>1 DEF IInv, Order, Chunk, FileOf
    <3>3. /\ \A n \in Msg : n # m => files'[n] = files[n]
          /\ files[m] \ {FileOf(c)} \subseteq files'[m]
      BY <1>27 DEF UnlinkFile, IInv, TypeOK
    <3>4. \A n \in Msg, d \in Chunk :
             put'[n][d] \in {"open", "write", "ok"} => put[n][d] \in {"open", "write", "ok"}
      BY <2>2, PutStepChanges
    <3> QED
      BY <2>1, <3>2, <3>3, <3>4 DEF IInv, Stored, Gone
  <2> QED
    BY <2>3, <2>4, <2>5
<1>28. ASSUME NEW m \in Msg, SenderFails(m) \/ SendSegsThrows(m) PROVE Parts'
  <2>1. UNCHANGED <<place, meta, sizes, files, at, cut, md, put, fin, found, rm, known, todo>>
    BY <1>28, StopIs DEF diskVars, finVars, getVars
  <2>2. Folders' /\ Order' /\ Stored' /\ Written' /\ Found' /\ Sized' /\ Moved' /\ Listed'
    BY <2>1 DEF IInv, Folders, Found, Gone, InDelivery, Listed, Moved, Order, Sized,
       Stored, Written
  <2> QED
    BY <2>2
<1>12. ASSUME NEW m \in Msg, NEW f \in Fin, CompleteDelivery(m, f) PROVE Parts'
  <2>1. UNCHANGED <<place, meta, sizes, files, at, cut, sess, md, put, found, rm, known, todo>>
    BY <1>12 DEF CompleteDelivery, FinStep, diskVars, finVars, getVars
  <2>2. Folders' /\ Stored' /\ Written' /\ Listed'
    BY <2>1 DEF IInv, Folders, Gone, Listed, Stored, Written
  <2>3. Order'
    BY <1>12, <2>1 DEF CompleteDelivery, FinStep, IInv, TypeOK, Order
  <2>4. Found'
    BY <1>12, <2>1 DEF CompleteDelivery, FinStep, IInv, TypeOK, Found, InDelivery
  <2>5. Sized'
    BY <1>12, <2>1 DEF CompleteDelivery, FinStep, IInv, TypeOK, Sized, InDelivery
  <2>6. Moved'
    BY <1>12, <2>1 DEF CompleteDelivery, FinStep, IInv, TypeOK, Moved
  <2> QED
    BY <2>2, <2>3, <2>4, <2>5, <2>6
<1>13. ASSUME NEW m \in Msg, NEW f \in Fin, ReadMeta(m, f) PROVE Parts'
  <2>1. UNCHANGED <<place, meta, sizes, files, at, cut, md, put, found, rm, known, todo>>
    BY <1>13 DEF ReadMeta, FinStep, diskVars, finVars, getVars
  <2>2. FinStep(m, f, "read", "hdr") \/ FinStep(m, f, "read", "failed")
    BY <1>13 DEF ReadMeta
  <2>3. Folders' /\ Stored' /\ Written' /\ Listed'
    BY <2>1 DEF IInv, Folders, Gone, Listed, Stored, Written
  <2>4. Order'
    BY <2>2, FinStepKeeps
  <2>5. Found'
    BY <2>1, <2>2, FinStepKeeps
  <2>6. Sized'
    BY <2>1, <2>2, FinStepKeeps
  <2>7. Moved'
    BY <2>1, <2>2, FinStepKeeps
  <2> QED
    BY <2>3, <2>4, <2>5, <2>6, <2>7
<1>14. ASSUME NEW m \in Msg, NEW f \in Fin, NEW file \in File, GetSize(m, f, file) PROVE Parts'
  <2>1. UNCHANGED <<place, meta, sizes, files, at, cut, sess, md, put, rm, known, todo>>
    BY <1>14 DEF GetSize, FinStep, diskVars, finVars, getVars
  <2>2. \/ /\ FileFound(m, file)
           /\ FinStep(m, f, file, IF file = "hdr" THEN "segs" ELSE "save")
           /\ found' = [found EXCEPT ![m][f] = @ \cup {file}]
        \/ /\ ~FileFound(m, file)
           /\ FinStep(m, f, file, "save")
           /\ found' = found
    BY <1>14 DEF GetSize
  <2>3. FinStep(m, f, file, "segs") \/ FinStep(m, f, file, "save")
    BY <2>2
  <2>4. /\ fin[m][f] = file /\ fin \in [Msg -> [Fin -> FinStage]]
        /\ found \in [Msg -> [Fin -> SUBSET File]]
        /\ fin' = [fin EXCEPT ![m][f] = IF FileFound(m, file) /\ file = "hdr" THEN "segs" ELSE "save"]
        /\ found' = [found EXCEPT ![m][f] = IF FileFound(m, file) THEN @ \cup {file} ELSE @]
    BY <2>2 DEF FinStep, IInv, TypeOK
  <2>5. InDelivery(m) => FileFound(m, file)
    BY <2>4, CompletedHasFiles DEF FileFound, InDelivery, Gone, IInv, Order, File
  <2>6. Folders' /\ Stored' /\ Written' /\ Listed'
    BY <2>1 DEF IInv, Folders, Gone, Listed, Stored, Written
  <2>7. Order'
    BY <2>3, FinStepKeeps DEF File
  <2>8. Found'
    <3> SUFFICES ASSUME NEW n \in Msg, NEW g \in Fin, InDelivery(n)
                PROVE  /\ fin'[n][g] = "segs" => "hdr" \in found'[n][g]
                       /\ fin'[n][g] = "save" => found'[n][g] = File
      BY <2>1 DEF Found, InDelivery
    <3>1. CASE ~(n = m /\ g = f)
      BY <2>4, <3>1 DEF IInv, Found
    <3>2. CASE n = m /\ g = f /\ file = "hdr"
      BY <2>4, <2>5, <3>2
    <3>3. CASE n = m /\ g = f /\ file = "segs"
      <4>1. "hdr" \in found[m][f]
        BY <2>4, <3>3 DEF IInv, Found
      <4>2. found'[m][f] = found[m][f] \cup {"segs"} /\ found[m][f] \subseteq File
        BY <2>4, <2>5, <3>3
      <4>3. fin'[m][f] = "save"
        BY <2>4, <3>3
      <4> QED
        BY <3>3, <4>1, <4>2, <4>3 DEF File
    <3> QED
      BY <3>1, <3>2, <3>3 DEF File
  <2>9. Sized'
    BY <2>1, <2>3, FinStepKeeps DEF File
  <2>10. Moved'
    BY <2>1, <2>3, FinStepKeeps DEF File
  <2> QED
    BY <2>6, <2>7, <2>8, <2>9, <2>10
<1>15. ASSUME NEW m \in Msg, NEW f \in Fin, SaveMeta(m, f) PROVE Parts'
  <2>1. UNCHANGED <<place, files, at, cut, sess, md, put, found, rm, known, todo>>
    BY <1>15 DEF SaveMeta, FinStep, diskVars, finVars, getVars
  <2>2. FinStep(m, f, "save", "move") \/ FinStep(m, f, "save", "failed")
    BY <1>15 DEF SaveMeta, Saved
  <2>3. \/ /\ InDelivery(m)
           /\ meta' = [meta EXCEPT ![m] = "done"]
           /\ sizes' = [sizes EXCEPT ![m] = found[m][f]]
        \/ ~InDelivery(m) /\ UNCHANGED <<meta, sizes>>
    BY <1>15 DEF SaveMeta
  <2>4. InDelivery(m) => found[m][f] = File
    BY <2>2 DEF FinStep, IInv, Found
  <2>5. Folders' /\ Stored' /\ Written'
    BY <2>1 DEF IInv, Folders, Gone, Stored, Written
  <2>6. Order'
    BY <2>2, FinStepKeeps
  <2>7. Found'
    BY <2>1, <2>2, FinStepKeeps
  <2>8. Sized'
    <3>1. \A n \in Msg : InDelivery(n) =>
            \/ n = m /\ meta'[n] = "done" /\ sizes'[n] = File
            \/ n # m /\ meta'[n] = meta[n] /\ sizes'[n] = sizes[n]
      BY <2>3, <2>4 DEF IInv, TypeOK
    <3>2. \A n \in Msg, g \in Fin : n # m => fin'[n][g] = fin[n][g]
      BY <2>2 DEF FinStep, IInv, TypeOK
    <3> QED
      BY <2>1, <3>1, <3>2 DEF IInv, Sized, InDelivery
  <2>9. Moved'
    BY <2>1, <2>2, FinStepKeeps
  <2>10. Listed'
    <3>1. \A n \in Msg : place[n] = "inbox" => meta'[n] = meta[n] /\ sizes'[n] = sizes[n]
      BY <2>3 DEF InDelivery, IInv, TypeOK
    <3> QED
      BY <2>1, <3>1 DEF IInv, Listed
  <2> QED
    BY <2>5, <2>6, <2>7, <2>8, <2>9, <2>10
<1>16. ASSUME NEW m \in Msg, NEW f \in Fin, MoveMsg(m, f) PROVE Parts'
  <2>1. UNCHANGED <<meta, sizes, files, at, cut, sess, md, put, found, rm, known, todo>>
    BY <1>16 DEF MoveMsg, FinStep, diskVars, finVars, getVars
  <2>2. \/ /\ InDelivery(m)
           /\ FinStep(m, f, "move", "close")
           /\ place' = [place EXCEPT ![m] = "inbox"]
        \/ /\ ~InDelivery(m)
           /\ FinStep(m, f, "move", "failed")
           /\ UNCHANGED place
    BY <1>16 DEF MoveMsg
  <2>3. \A n \in Msg : place'[n] = IF n = m /\ InDelivery(m) THEN "inbox" ELSE place[n]
    BY <2>2 DEF IInv, TypeOK
  <2>4. \A n \in Msg, g \in Fin :
          fin'[n][g] = IF n = m /\ g = f
                       THEN (IF InDelivery(m) THEN "close" ELSE "failed")
                       ELSE fin[n][g]
    BY <2>2 DEF FinStep, IInv, TypeOK
  <2>5. fin[m][f] = "move" /\ put[m]["segs"] = "ok"
    BY <2>2 DEF FinStep, IInv, Order
  <2>6. Folders'
    BY <2>1, <2>3 DEF IInv, Folders, Gone, InDelivery
  <2>7. Order'
    BY <2>2, FinStepKeeps
  <2>8. Stored'
    BY <2>1, <2>3 DEF IInv, Stored, Gone, InDelivery
  <2>9. Written'
    BY <2>1, <2>3 DEF IInv, Written, Gone, Small, InDelivery
  <2>10. Found'
    BY <2>1, <2>3, <2>4 DEF IInv, Found, InDelivery
  <2>11. Sized'
    BY <2>1, <2>3, <2>4 DEF IInv, Sized, InDelivery
  <2>12. Moved'
    BY <2>1, <2>3, <2>4 DEF IInv, Moved, InDelivery
  <2>13. Listed'
    BY <2>1, <2>3, <2>5 DEF IInv, Listed, Sized, InDelivery
  <2> QED
    BY <2>6, <2>7, <2>8, <2>9, <2>10, <2>11, <2>12, <2>13
<1>17. ASSUME NEW m \in Msg, NEW f \in Fin, CloseSession(m, f) PROVE Parts'
  <2>1. UNCHANGED <<place, meta, sizes, files, at, cut, md, put, found, rm, known, todo>>
    BY <1>17 DEF CloseSession, FinStep, diskVars, finVars, getVars
  <2>2. Folders' /\ Stored' /\ Written' /\ Listed'
    BY <2>1 DEF IInv, Folders, Gone, Listed, Stored, Written
  <2>3. Order'
    BY <1>17, <2>1 DEF CloseSession, FinStep, IInv, TypeOK, Order
  <2>4. Found'
    BY <1>17, <2>1 DEF CloseSession, FinStep, IInv, TypeOK, Found, InDelivery
  <2>5. Sized'
    BY <1>17, <2>1 DEF CloseSession, FinStep, IInv, TypeOK, Sized, InDelivery
  <2>6. Moved'
    BY <1>17, <2>1 DEF CloseSession, FinStep, IInv, TypeOK, Moved
  <2> QED
    BY <2>2, <2>3, <2>4, <2>5, <2>6
<1>18. ASSUME ListMsgs PROVE Parts'
  <2>1. UNCHANGED <<place, meta, sizes, files, at, cut, sess, md, put, fin, found, rm, known>>
    BY <1>18 DEF ListMsgs, diskVars, finVars, getVars
  <2>2. Folders' /\ Order' /\ Stored' /\ Written' /\ Found' /\ Sized' /\ Moved' /\ Listed'
    BY <2>1 DEF IInv, Folders, Found, Gone, InDelivery, Listed, Moved, Order, Sized,
       Stored, Written
  <2> QED
    BY <2>2
<1>19. ASSUME NEW e \in Entry, GetMsgMeta(e) PROVE Parts'
  <2>1. UNCHANGED <<place, meta, sizes, files, at, cut, sess, md, put, fin, found, rm>>
    BY <1>19 DEF GetMsgMeta, diskVars, finVars, getVars
  <2>2. Folders' /\ Order' /\ Stored' /\ Written' /\ Found' /\ Sized' /\ Moved' /\ Listed'
    BY <2>1 DEF IInv, Folders, Found, Gone, InDelivery, Listed, Moved, Order, Sized,
       Stored, Written
  <2> QED
    BY <2>2
<1>20. ASSUME NEW m \in Msg, RmMsg(m) PROVE Parts'
  <2>1. UNCHANGED <<meta, sizes, files, at, cut, sess, md, put, fin, found, todo>>
    BY <1>20 DEF RmMsg, diskVars, finVars, getVars
  <2>2. \/ place[m] = "inbox" /\ place' = [place EXCEPT ![m] = "removing"]
        \/ place' = place
    BY <1>20, Zenon DEF RmMsg
  <2>3. \A n \in Msg : place'[n] = place[n] \/ (n = m /\ place[n] = "inbox" /\ place'[n] = "removing")
    BY <2>2 DEF IInv, TypeOK
  <2>4. Order'
    BY <2>1 DEF IInv, Order
  <2>5. Folders'
    BY <1>20, <2>1 DEF RmMsg, Entry, IInv, TypeOK, Folders, Gone
  <2>6. Stored'
    BY <1>20, <2>1 DEF RmMsg, Entry, IInv, TypeOK, Stored, Gone
  <2>7. Written'
    BY <2>1, <2>3 DEF IInv, Written, Gone, Small
  <2>8. Found'
    BY <1>20, <2>1 DEF RmMsg, Entry, IInv, TypeOK, Found, InDelivery
  <2>9. Sized'
    BY <1>20, <2>1 DEF RmMsg, Entry, IInv, TypeOK, Sized, InDelivery
  <2>10. Moved'
    BY <1>20, <2>1 DEF RmMsg, Entry, IInv, TypeOK, Moved
  <2>11. Listed'
    BY <1>20, <2>1 DEF RmMsg, Entry, IInv, TypeOK, Listed
  <2> QED
    BY <2>4, <2>5, <2>6, <2>7, <2>8, <2>9, <2>10, <2>11
<1>21. ASSUME NEW m \in Msg, UnlinkMsgFile(m) PROVE Parts'
  <2>1. UNCHANGED <<place, sizes, at, cut, sess, md, put, fin, found, rm, known, todo>>
    BY <1>21 DEF UnlinkMsgFile, diskVars, finVars, getVars
  <2>2. place[m] = "removing"
    BY <1>21 DEF UnlinkMsgFile, IInv, Folders
  <2>3. \A n \in Msg : n # m => meta'[n] = meta[n] /\ files'[n] = files[n]
    BY <1>21 DEF UnlinkMsgFile, IInv, TypeOK
  <2>4. Folders' /\ Order' /\ Written' /\ Found' /\ Moved'
    BY <2>1 DEF IInv, Folders, Found, Gone, InDelivery, Moved, Order, Written
  <2>5. Stored'
    BY <2>1, <2>2, <2>3 DEF IInv, Stored, Gone
  <2>6. Sized'
    BY <2>1, <2>2, <2>3 DEF IInv, Sized, InDelivery
  <2>7. Listed'
    BY <2>1, <2>2, <2>3 DEF IInv, Listed
  <2> QED
    BY <2>4, <2>5, <2>6, <2>7
<1>22. ASSUME NEW m \in Msg, RemoveMsgFolder(m) PROVE Parts'
  <2>1. UNCHANGED <<meta, sizes, files, at, cut, sess, md, put, fin, found, todo>>
    BY <1>22 DEF RemoveMsgFolder, diskVars, finVars, getVars
  <2>2. Order'
    BY <2>1 DEF IInv, Order
  <2>3. Folders'
    BY <1>22, <2>1 DEF RemoveMsgFolder, IInv, TypeOK, Folders, Gone
  <2>4. Stored'
    BY <1>22, <2>1 DEF RemoveMsgFolder, IInv, TypeOK, Stored, Gone
  <2>5. Written'
    BY <1>22, <2>1 DEF RemoveMsgFolder, IInv, TypeOK, Written, Gone
  <2>6. Found'
    BY <1>22, <2>1 DEF RemoveMsgFolder, IInv, TypeOK, Found, InDelivery
  <2>7. Sized'
    BY <1>22, <2>1 DEF RemoveMsgFolder, IInv, TypeOK, Sized, InDelivery
  <2>8. Moved'
    BY <1>22, <2>1 DEF RemoveMsgFolder, IInv, TypeOK, Moved
  <2>9. Listed'
    BY <1>22, <2>1 DEF RemoveMsgFolder, IInv, TypeOK, Listed
  <2> QED
    BY <2>2, <2>3, <2>4, <2>5, <2>6, <2>7, <2>8, <2>9
<1>23. ASSUME Crash PROVE Parts'
  <2>1. UNCHANGED <<place, meta, sizes, files, at, cut, found, known>>
    BY <1>23 DEF Crash, diskVars, finVars, getVars
  <2>2. \A n \in Msg, c \in Chunk : put[n][c] \in {"none", "ok"} => put'[n][c] = put[n][c]
    BY <1>23 DEF Crash, Killed, Over
  <2>3. \A n \in Msg, c \in Chunk : put'[n][c] \in {"none", "ok"} => put'[n][c] = put[n][c]
    BY <1>23 DEF Crash, Killed, Over
  <2>4. \A n \in Msg, f \in Fin : fin'[n][f] # "none" => fin[n][f] # "none"
    BY <1>23 DEF Crash, Killed, Over
  <2>5. \A n \in Msg : md[n] = "ok" => md'[n] = "ok"
    BY <1>23 DEF Crash, Killed, Over
  <2>6. Folders'
    BY <1>23, <2>1 DEF Crash, Killed, Over, IInv, TypeOK, Folders, Gone
  <2>7. Order'
    <3>1. \A n \in Msg, c \in Chunk : put'[n][c] # "none" => put[n][c] # "none"
      BY <2>2
    <3>2. \A n \in Msg, c \in Chunk : put[n][c] = "ok" => put'[n][c] = "ok"
      BY <2>2
    <3>3. "hdr" \in Chunk /\ "segs" \in Chunk /\ "more" \in Chunk
      BY DEF Chunk
    <3>4. \A n \in Msg : put'[n]["more"] # "unlink"
      BY <1>23, <3>3 DEF Crash, Killed, Over
    <3> QED
      BY <2>4, <2>5, <3>1, <3>2, <3>3, <3>4 DEF IInv, Order
  <2>8. Stored'
    BY <1>23, <2>1 DEF Crash, Killed, Over, IInv, TypeOK, Stored, Gone
  <2>9. Written'
    <3>1. \A c \in File : c \in Chunk
      BY DEF File, Chunk
    <3>2. \A n \in Small : n \in Msg
      BY DEF Small
    <3> QED
      BY <2>1, <2>3, <3>1, <3>2 DEF IInv, Written, Gone
  <2>10. Found'
    BY <1>23, <2>1 DEF Crash, Killed, Over, IInv, TypeOK, Found, InDelivery
  <2>11. Sized'
    BY <1>23, <2>1 DEF Crash, Killed, Over, IInv, TypeOK, Sized, InDelivery
  <2>12. Moved'
    BY <1>23, <2>1 DEF Crash, Killed, Over, IInv, TypeOK, Moved
  <2>13. Listed'
    <3>1. "segs" \in Chunk
      BY DEF Chunk
    <3> QED
      BY <2>1, <2>2, <3>1 DEF IInv, Listed
  <2> QED
    BY <2>6, <2>7, <2>8, <2>9, <2>10, <2>11, <2>12, <2>13
<1>24. ASSUME UNCHANGED vars PROVE Parts'
  BY <1>24 DEF vars, diskVars, finVars, getVars, IInv, Folders, Order, Stored, Written,
     Found, Sized, Moved, Listed, Gone, InDelivery
<1>25. Parts'
  BY <1>1, <1>2, <1>3, <1>4, <1>5, <1>6, <1>7, <1>8, <1>9, <1>10, <1>11, <1>12, <1>13,
     <1>14, <1>15, <1>16, <1>17, <1>18, <1>19, <1>20, <1>21, <1>22, <1>23, <1>24,
     <1>26, <1>27, <1>28
     DEF Next, SenderSteps, DeliverySteps, RemovalSteps, Getting, File, Chunk
<1> QED
  BY <1>0, <1>25 DEF IInv

\* Initial state satisfies the invariant.
LEMMA InitIInv == Init => IInv
  BY DEF Init, IInv, TypeOK, PutStage, FinStage, File, Chunk, Folders, Order, Stored,
         Written, Found, Sized, Moved, Listed, Gone, InDelivery, Small

\* Therefore, it holds in every execution.
LEMMA Invariance == Spec => []IInv
<1> QED
  BY InitIInv, NextIInv, PTL DEF Spec

-----------------------------------------------------------------------------
(* Theorems                                                                 *)

\* Listed messages are complete, for any number of senders, of chunks in flight,
\* and of repeated completion requests.
THEOREM OnlyCompletedListedHolds == Spec => []OnlyCompletedListed
<1>1. IInv => OnlyCompletedListed
  <2> SUFFICES ASSUME IInv, NEW m \in Msg, place[m] = "inbox"
               PROVE  meta[m] = "done" /\ sizes[m] = File /\ files[m] = File
    BY DEF OnlyCompletedListed
  <2>1. put[m]["segs"] = "ok" /\ meta[m] = "done" /\ sizes[m] = File
    BY DEF IInv, Listed
  <2> QED
    BY <2>1, CompletedHasFiles DEF Gone
<1> QED
  BY <1>1, Invariance, PTL

\* What is delivered is not lost over any number of server's deaths.
THEOREM DeliveredIsKeptHolds == Spec => []DeliveredIsKept
<1>1. IInv => DeliveredIsKept
  BY DEF IInv, TypeOK, Moved, Folders, Gone, DeliveredIsKept
<1> QED
  BY <1>1, Invariance, PTL

\* For small messages only the place of a folder tells what recipient finds.
MailAt(p) ==
    CASE p \in {"none", "delivery"} -> "none"
      [] p = "inbox"                -> "whole"
      [] p \in {"removing", "gone"} -> "removed"

MailIsPlace == \A m \in Small : InMailbox(m) = MailAt(place[m])

\* Small messages are whole, when they are listed.
LEMMA MailFromInv == IInv => MailIsPlace
<1> SUFFICES ASSUME IInv, NEW m \in Small PROVE InMailbox(m) = MailAt(place[m])
  BY DEF MailIsPlace
<1>1. ASSUME place[m] = "inbox" PROVE Whole(m)
  <2>1. m \in Msg /\ ~Gone(m) /\ ChunksOf(m) = File
    BY <1>1, SizeAssumption DEF Small, Gone, ChunksOf, Chunk, File
  <2>2. put[m]["segs"] = "ok" /\ put[m]["hdr"] = "ok"
    BY <1>1, <2>1 DEF IInv, Listed, Order
  <2>3. cut[m] = {} /\ \A c \in File : at[m][c] = c /\ FileOf(c) \in File
    BY <2>1, <2>2 DEF IInv, Written, File, FileOf
  <2> QED
    BY <2>1, <2>2, <2>3, CompletedHasFiles DEF Whole
<1>2. place[m] \in Place
  BY DEF IInv, TypeOK, Place, Small
<1> QED
  BY <1>1, <1>2 DEF InMailbox, MailAt, Place

\* The ways in which folders move.
Moves(m) ==
    /\ \A n \in Msg : n # m => place'[n] = place[n]
    /\ <<place[m], place'[m]>> \in
          {<<"none", "delivery">>, <<"delivery", "inbox">>,
           <<"inbox", "removing">>, <<"removing", "gone">>}

\* No step moves folders in another way.
LEMMA PlaceMoves ==
    ASSUME IInv, [Next]_vars PROVE place' = place \/ \E m \in Msg : Moves(m)
<1>0. place \in [Msg -> Place]
  BY DEF IInv, TypeOK, Place
<1>1. ASSUME NEW m \in Msg, MakeMsgFolder(m) PROVE Moves(m)
  BY <1>0, <1>1 DEF MakeMsgFolder, MetadataStep, Moves, IInv, Folders
<1>2. ASSUME NEW m \in Msg, NEW f \in Fin, MoveMsg(m, f) PROVE place' = place \/ Moves(m)
  <2>1. \/ place[m] = "delivery" /\ place' = [place EXCEPT ![m] = "inbox"]
        \/ place' = place
    BY <1>2, Zenon DEF MoveMsg, InDelivery
  <2> QED
    BY <1>0, <2>1 DEF Moves
<1>3. ASSUME NEW m \in Msg, RmMsg(m) PROVE place' = place \/ Moves(m)
  <2>1. \/ place[m] = "inbox" /\ place' = [place EXCEPT ![m] = "removing"]
        \/ place' = place
    BY <1>3, Zenon DEF RmMsg
  <2> QED
    BY <1>0, <2>1 DEF Moves
<1>4. ASSUME NEW m \in Msg, RemoveMsgFolder(m) PROVE Moves(m)
  BY <1>0, <1>4 DEF RemoveMsgFolder, Moves, IInv, Folders
<1>5. CASE UNCHANGED place
  BY <1>5
<1>6. ASSUME NEW m \in Msg,
             \/ StartSession(m) \/ Expire(m) \/ SenderSteps(m) \/ SenderFails(m)
             \/ OpenMeta(m) \/ WriteMeta(m)
             \/ UnlinkMsgFile(m)
      PROVE  UNCHANGED place
  BY <1>6, StopIs DEF StartSession, Expire, SenderSteps, SendMetadata, PutBytes,
     CompleteDelivery,
              OpenMeta, WriteMeta, UnlinkMsgFile, MetadataStep, PutStep, FinStep, diskVars
<1>7. ASSUME NEW m \in Msg, NEW c \in Chunk,
             \/ CheckIds(m, c) \/ PrepareFile(m, c) \/ OpenFile(m, c) \/ WriteBytes(m, c)
             \/ DropBody(m, c) \/ UnlinkFile(m, c)
      PROVE  UNCHANGED place
  BY <1>7 DEF CheckIds, PrepareFile, OpenFile, WriteBytes, DropBody, UnlinkFile, PutStep
<1>8. ASSUME NEW m \in Msg, NEW f \in Fin,
             \/ ReadMeta(m, f) \/ SaveMeta(m, f) \/ CloseSession(m, f)
             \/ \E file \in File : GetSize(m, f, file)
      PROVE  UNCHANGED place
  BY <1>8 DEF ReadMeta, SaveMeta, CloseSession, GetSize
<1>9. ASSUME ListMsgs \/ Getting \/ Crash \/ UNCHANGED vars PROVE UNCHANGED place
  BY <1>9 DEF ListMsgs, Getting, GetMsgMeta, Crash, vars, diskVars
<1> QED
  BY <1>1, <1>2, <1>3, <1>4, <1>6, <1>7, <1>8, <1>9
     DEF Next, DeliverySteps, RemovalSteps

\* Steps of delivery and removal are steps of an inbox, where small messages
\* appear whole, at once, and go away only when they are removed.
THEOREM Implements == Spec => ImplementsMailbox
<1> DEFINE Mail == [m \in Small |-> InMailbox(m)]
<1>1. Init => Box!Init
  <2> SUFFICES ASSUME Init PROVE Mail = [m \in Small |-> "none"]
    BY DEF Box!Init
  <2>1. \A m \in Small : m \in Msg /\ place[m] = "none"
    BY DEF Init, Small
  <2>2. \A m \in Small : InMailbox(m) = "none"
    BY <2>1 DEF InMailbox
  <2> QED
    BY <2>2
<1>2. ASSUME IInv, IInv', [Next]_vars PROVE [Box!Next]_Mail
  <2>1. MailIsPlace /\ MailIsPlace'
    BY <1>2, MailFromInv, PTL
  <2>2. /\ Mail = [n \in Small |-> MailAt(place[n])]
        /\ Mail' = [n \in Small |-> MailAt(place'[n])]
    BY <2>1 DEF MailIsPlace
  <2>3. CASE place' = place
    BY <2>2, <2>3
  <2>4. ASSUME NEW m \in Msg, Moves(m) PROVE [Box!Next]_Mail
    <3>1. CASE MailAt(place'[m]) = MailAt(place[m]) \/ m \notin Small
      <4>1. \A n \in Small : MailAt(place'[n]) = MailAt(place[n])
        BY <2>4, <3>1 DEF Moves, Small
      <4> QED
        BY <2>2, <4>1
    <3>2. CASE m \in Small /\ <<place[m], place'[m]>> = <<"delivery", "inbox">>
      <4>1. MailAt(place[m]) = "none" /\ MailAt(place'[m]) = "whole"
        BY <3>2 DEF MailAt
      <4>2. Mail[m] = "none" /\ Mail' = [Mail EXCEPT ![m] = "whole"]
        BY <2>2, <2>4, <3>2, <4>1 DEF Moves, Small
      <4>3. Box!Deliver(m)
        BY <4>2 DEF Box!Deliver
      <4> QED
        BY <3>2, <4>3 DEF Box!Next
    <3>3. CASE m \in Small /\ <<place[m], place'[m]>> = <<"inbox", "removing">>
      <4>1. MailAt(place[m]) = "whole" /\ MailAt(place'[m]) = "removed"
        BY <3>3 DEF MailAt
      <4>2. Mail[m] = "whole" /\ Mail' = [Mail EXCEPT ![m] = "removed"]
        BY <2>2, <2>4, <3>3, <4>1 DEF Moves, Small
      <4>3. Box!Remove(m)
        BY <4>2 DEF Box!Remove
      <4> QED
        BY <3>3, <4>3 DEF Box!Next
    <3>4. CASE <<place[m], place'[m]>> \in {<<"none", "delivery">>, <<"removing", "gone">>}
      <4>1. MailAt(place'[m]) = MailAt(place[m])
        BY <3>4 DEF MailAt
      <4> QED
        BY <3>1, <4>1
    <3> QED
      BY <2>4, <3>1, <3>2, <3>3, <3>4 DEF Moves
  <2> QED
    BY <1>2, <2>3, <2>4, PlaceMoves
<1> QED
  BY <1>1, <1>2, Invariance, PTL DEF Spec, ImplementsMailbox, Box!Spec

=============================================================================

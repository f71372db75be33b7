--------------------------- MODULE ObjTransaction ---------------------------
(***************************************************************************)
(* Transactions on one object of a 3NStorage store                         *)
(* (src/src/3nstorage/resources/store.ts), at the granularity of the file  *)
(* system calls that the handlers issue, with the requests that the        *)
(* storage client (src/src/lib-client/3nstorage/service.ts, saveObj)       *)
(* sends.  Every fs call is a callback of the event loop, so steps of      *)
(* different requests interleave between any two of them, and the process  *)
(* can die between any two of them.                                        *)
(*                                                                         *)
(* A transaction is named by the request that starts it: the code draws a  *)
(* random id, which no other request can have.                             *)
(*                                                                         *)
(* Paths in comments are relative to src/src/3nstorage/resources/, and     *)
(* owner.ts is src/src/lib-common/service-api/3nstorage/owner.ts.          *)
(* Definitions Wrong... and Stuck... are deliberately broken variants of   *)
(* the next ones.  They are not used in the model: with one of them in     *)
(* place of the definition that follows, some property must fail.          *)
(***************************************************************************)
EXTENDS Naturals, FiniteSets

CONSTANTS
    Trans,             \* transactions, i.e. requests to start one
    NoTrans,           \* "no file", "nobody"
    IsRoot,            \* TRUE: objId is null, the root object
    Dropping           \* transactions, whose client may see its connection drop,
                       \* while server goes on processing what it has got

ASSUME TransAssumption == NoTrans \notin Trans /\ "empty" \notin Trans
ASSUME EnvAssumption == IsRoot \in BOOLEAN /\ Dropping \subseteq Trans

VARIABLES
    \* --- what is on the disk ---
    objFolder,   \* the object's folder exists
    current,     \* current.v: absent, empty (opened with 'w'), "new", a number
    curVer,      \* the number in current.v, when current = "num"
    verFiles,    \* N.hxsp and N.sxsp in the object's folder
    lock,        \* the transaction's folder exists
    params,      \* file `transaction' in it: NoTrans, "empty" or its owner
    newFile,     \* new.hxsp and new.sxsp in it: who has allocated them
    bytes,       \* whose bytes were written into a file allocated by ...
    \* --- what the requests in process hold in memory ---
    isNew,       \* trans.isNewObj
    ver,         \* trans.version
    start,       \* progress of the request that starts a transaction
    tasks,       \* its file operations that run in parallel (Q.all)
    put,         \* progress of the requests that bring bytes
    close,       \* progress of the request that finalizes or cancels
    renames      \* renames that a finalizing request still has to do

diskVars  == <<objFolder, current, curVer, verFiles, lock, params, newFile, bytes>>
startVars == <<isNew, ver, start, tasks>>
closeVars == <<close, renames>>
vars      == <<diskVars, startVars, put, closeVars>>

Part == {"hdr", "segs"}
Task == {"mkobj", "openv", "writev", "readver", "space"} \cup Part
StartState == {"none", "tasks", "saving", "ok", "failed", "dead"}
PutState   == {"none", "open", "ok", "stalled", "failed", "dead"}
CloseState == {"none", "renaming", "setver", "rmobj", "rmobjdir", "rm_fin",
               "rm_can", "finalized", "cancelled", "err", "dead", "lost"}
VerFile == [ver : Nat, part : Part, from : Trans]

Init ==
    /\ objFolder = IsRoot
    /\ current = "absent"
    /\ curVer = 0
    /\ verFiles = {}
    /\ lock = FALSE
    /\ params = NoTrans
    /\ newFile = [p \in Part |-> NoTrans]
    /\ bytes = [t \in Trans |-> [p \in Part |-> {}]]
    /\ isNew = [t \in Trans |-> FALSE]
    /\ ver = [t \in Trans |-> 0]
    /\ start = [t \in Trans |-> "none"]
    /\ tasks = [t \in Trans |-> {}]
    /\ put = [t \in Trans |-> [p \in Part |-> "none"]]
    /\ close = [t \in Trans |-> "none"]
    /\ renames = [t \in Trans |-> {}]

-----------------------------------------------------------------------------
(* Store.startTransaction                                                   *)

\* mkdir of transaction's folder fails, when it already exists.
WrongFolderExists == FALSE              \* lock is not checked
FolderExists == lock

\* mkdir of the transaction's folder is the lock.  When it fails, or a task
\* fails, the handler calls completeTransaction(.., cancel) with its own id,
\* which throws TRANSACTION_UNKNOWN on not finding this id in params, and that
\* error is swallowed: nothing else happens on a failure of a start.
StartTransaction(t, new) ==
    /\ start[t] = "none"
    /\ isNew' = [isNew EXCEPT ![t] = new]
    /\ ver' = [ver EXCEPT ![t] = IF new THEN 1 ELSE 0]
    /\ \/ /\ FolderExists
          /\ start' = [start EXCEPT ![t] = "failed"]
          /\ UNCHANGED <<lock, tasks>>
       \/ /\ ~FolderExists
          /\ lock' = TRUE
          /\ start' = [start EXCEPT ![t] = "tasks"]
          /\ tasks' = [tasks EXCEPT ![t] = {"space"} \cup
                         (IF ~new THEN {"readver"}
                          ELSE IF IsRoot THEN {} ELSE {"mkobj"})]
    /\ UNCHANGED <<objFolder, current, curVer, verFiles, params, newFile, bytes,
                   put, closeVars>>

\* One of tasks of Q.all is done, and more tasks may follow it in its chain.
TaskDone(t, task, next) ==
    /\ task \in tasks[t]
    /\ tasks' = [tasks EXCEPT ![t] = (@ \ {task}) \cup next]
    /\ UNCHANGED start

\* Q.all rejects on the first failure; other tasks are not stopped by it.
TaskFailed(t, task) ==
    /\ task \in tasks[t]
    /\ tasks' = [tasks EXCEPT ![t] = @ \ {task}]
    /\ start' = [start EXCEPT ![t] = "failed"]

MakeObjFolder(t) ==
    /\ IF objFolder
       THEN TaskFailed(t, "mkobj") /\ UNCHANGED objFolder     \* OBJ_EXIST
       ELSE TaskDone(t, "mkobj", {"openv"}) /\ objFolder' = TRUE
    /\ UNCHANGED <<current, curVer, verFiles, lock, params, newFile, bytes,
                   isNew, ver, put, closeVars>>

\* setObjVersion(objId, 'new'): writeFile with 'w' first opens and truncates,
OpenNewVersion(t) ==
    /\ TaskDone(t, "openv", {"writev"})
    /\ current' = "empty"
    /\ UNCHANGED <<objFolder, curVer, verFiles, lock, params, newFile, bytes,
                   isNew, ver, put, closeVars>>

\* and then writes.
WriteNewVersion(t) ==
    /\ TaskDone(t, "writev", {})
    /\ current' = "new"
    /\ UNCHANGED <<objFolder, curVer, verFiles, lock, params, newFile, bytes,
                   isNew, ver, put, closeVars>>

\* parseInt of the text in current.v, plus one.
NextVersion == curVer + 1

ReadVersion(t) ==
    /\ IF current = "num"
       THEN /\ TaskDone(t, "readver", {})
            /\ ver' = [ver EXCEPT ![t] = NextVersion]
       ELSE /\ TaskFailed(t, "readver")     \* OBJ_UNKNOWN or WRONG_OBJ_STATE
            /\ UNCHANGED ver
    /\ UNCHANGED <<diskVars, isNew, put, closeVars>>

\* spaceTracker.change, on which allocation of both files waits.
CheckSpace(t) ==
    /\ TaskDone(t, "space", Part) \/ TaskFailed(t, "space")   \* NOT_ENOUGH_SPACE
    /\ UNCHANGED <<diskVars, isNew, ver, put, closeVars>>

\* createEmptyFile opens with 'wx'.
AllocateFile(t, p) ==
    /\ IF lock /\ newFile[p] = NoTrans
       THEN TaskDone(t, p, {}) /\ newFile' = [newFile EXCEPT ![p] = t]
       ELSE TaskFailed(t, p) /\ UNCHANGED newFile
    /\ UNCHANGED <<objFolder, current, curVer, verFiles, lock, params, bytes,
                   isNew, ver, put, closeVars>>

\* saveTransactionParams, again in two steps, after which client has the id.
OpenParams(t) ==
    /\ start[t] = "tasks" /\ tasks[t] = {}
    /\ params' = "empty"
    /\ start' = [start EXCEPT ![t] = "saving"]
    /\ UNCHANGED <<objFolder, current, curVer, verFiles, lock, newFile, bytes,
                   isNew, ver, tasks, put, closeVars>>

WriteParams(t) ==
    /\ start[t] = "saving"
    /\ params' = t
    /\ start' = [start EXCEPT ![t] = "ok"]
    /\ UNCHANGED <<objFolder, current, curVer, verFiles, lock, newFile, bytes,
                   isNew, ver, tasks, put, closeVars>>

-----------------------------------------------------------------------------
(* Store.saveObjChunk                                                       *)

\* Client sends header, and after the reply it sends segments.  The handler
\* finds that the file `transaction' has id from the request.
PutBytes(t, p) ==
    /\ start[t] = "ok" /\ close[t] = "none" /\ put[t][p] = "none"
    /\ p = "segs" => put[t]["hdr"] = "ok"
    /\ put' = [put EXCEPT ![t][p] = IF params = t THEN "open" ELSE "failed"]
    /\ UNCHANGED <<diskVars, startVars, closeVars>>

\* Every write opens the file by its path, when enough bytes came over the wire.
\* After it either more bytes are to come, or all are written, or the last ones
\* stay in the buffer for ever, and the request is never answered.
WriteBytes(t, p) ==
    /\ put[t][p] = "open"
    /\ IF newFile[p] = NoTrans
       THEN /\ put' = [put EXCEPT ![t][p] = "failed"]
            /\ UNCHANGED bytes
       ELSE /\ \E to \in {"open", "ok", "stalled"} : put' = [put EXCEPT ![t][p] = to]
            /\ bytes' = [bytes EXCEPT ![newFile[p]][p] = @ \cup {t}]
    /\ UNCHANGED <<objFolder, current, curVer, verFiles, lock, params, newFile,
                   startVars, closeVars>>

-----------------------------------------------------------------------------
(* Store.completeTransaction                                                *)

\* Client finalizes only when all bytes are sent, and replies to them have come.
WrongAllSent(t) == put[t]["segs"] \in {"open", "ok"}   \* reply is not awaited
AllSent(t) == put[t]["segs"] = "ok"

FinalizeTransaction(t) ==
    /\ start[t] = "ok" /\ close[t] = "none" /\ AllSent(t)
    /\ IF params = t
       THEN /\ close' = [close EXCEPT ![t] = "renaming"]
            /\ renames' = [renames EXCEPT ![t] = Part]
       ELSE /\ close' = [close EXCEPT ![t] = "err"]     \* TRANSACTION_UNKNOWN
            /\ UNCHANGED renames
    /\ UNCHANGED <<diskVars, startVars, put>>

\* One of two renames, done in parallel in applyNonDiffTransactionFiles.
RenameNewFile(t, p) ==
    /\ p \in renames[t]
    /\ renames' = [renames EXCEPT ![t] = @ \ {p}]
    /\ IF newFile[p] # NoTrans /\ objFolder
       THEN /\ verFiles' =
                 {f \in verFiles : ~(f.ver = ver[t] /\ f.part = p)} \cup
                 {[ver |-> ver[t], part |-> p, from |-> newFile[p]]}
            /\ newFile' = [newFile EXCEPT ![p] = NoTrans]
            /\ UNCHANGED close
       ELSE /\ close' = [close EXCEPT ![t] = "err"]
            /\ UNCHANGED <<verFiles, newFile>>
    /\ UNCHANGED <<objFolder, current, curVer, lock, params, bytes, startVars, put>>

\* Version is set after both renames.
WrongRenamesDone(t) == TRUE                           \* renames are not awaited
StuckRenamesDone(t) == renames[t] = {} /\ ~isNew[t]   \* promise is lost for new objects
RenamesDone(t) == renames[t] = {}

\* setObjVersion(objId, trans.version), in two steps.
OpenCurrentVersion(t) ==
    /\ close[t] = "renaming" /\ RenamesDone(t)
    /\ current' = "empty"
    /\ close' = [close EXCEPT ![t] = "setver"]
    /\ UNCHANGED <<objFolder, curVer, verFiles, lock, params, newFile, bytes,
                   startVars, put, renames>>

WriteCurrentVersion(t) ==
    /\ close[t] = "setver"
    /\ current' = "num"
    /\ curVer' = ver[t]
    /\ close' = [close EXCEPT ![t] = "rm_fin"]
    /\ UNCHANGED <<objFolder, verFiles, lock, params, newFile, bytes,
                   startVars, put, renames>>

\* Cancellation of a transaction that creates an object removes this object.
WrongRemovesObj(t) == ~IsRoot           \* any object is removed
RemovesObj(t) == isNew[t] /\ ~IsRoot

\* Client cancels when it cannot read its own source, or a put has failed.  With
\* a dropped connection client sees a failure of a put, that server processes.
CancelTransaction(t) ==
    /\ start[t] = "ok" /\ close[t] = "none"
    /\ \/ t \in Dropping
       \/ put[t]["segs"] # "ok" /\ \A p \in Part : put[t][p] \notin {"open", "stalled"}
    /\ close' = [close EXCEPT ![t] =
                   IF params # t THEN "err"                 \* TRANSACTION_UNKNOWN
                   ELSE IF RemovesObj(t) THEN "rmobj" ELSE "rm_can"]
    /\ UNCHANGED <<diskVars, startVars, put, renames>>

\* Client's next request never comes: the reply with the id of transaction, or
\* the finalization, which saveObj does not wait for, or the cancellation is
\* lost, or the client is gone.  Nothing repeats a request of a transaction.
LoseRequest(t) ==
    /\ start[t] = "ok" /\ close[t] = "none"
    /\ \A p \in Part : put[t][p] \notin {"open", "stalled"}
    /\ close' = [close EXCEPT ![t] = "lost"]
    /\ UNCHANGED <<diskVars, startVars, put, renames>>

\* rmdir(objFolder): everything in it,
UnlinkObjFiles(t) ==
    /\ close[t] = "rmobj"
    /\ verFiles' = {}
    /\ current' = "absent"
    /\ close' = [close EXCEPT ![t] = "rmobjdir"]
    /\ UNCHANGED <<objFolder, curVer, lock, params, newFile, bytes,
                   startVars, put, renames>>

\* and the folder itself.
RemoveObjFolder(t) ==
    /\ close[t] = "rmobjdir"
    /\ objFolder' = FALSE
    /\ close' = [close EXCEPT ![t] = "rm_can"]
    /\ UNCHANGED <<current, curVer, verFiles, lock, params, newFile, bytes,
                   startVars, put, renames>>

\* rmdir(transFolder): files of the folder one by one, in any order,
UnlinkTransFile(t) ==
    /\ close[t] \in {"rm_fin", "rm_can"}
    /\ \/ /\ params # NoTrans
          /\ params' = NoTrans
          /\ UNCHANGED newFile
       \/ \E p \in Part :
             /\ newFile[p] # NoTrans
             /\ newFile' = [newFile EXCEPT ![p] = NoTrans]
             /\ UNCHANGED params
    /\ UNCHANGED <<objFolder, current, curVer, verFiles, lock, bytes,
                   startVars, put, closeVars>>

\* and the folder itself, after which reply is sent.
RemoveTransFolder(t) ==
    /\ close[t] \in {"rm_fin", "rm_can"}
    /\ params = NoTrans /\ \A p \in Part : newFile[p] = NoTrans
    /\ lock' = FALSE
    /\ close' = [close EXCEPT ![t] =
                   IF close[t] = "rm_fin" THEN "finalized" ELSE "cancelled"]
    /\ UNCHANGED <<objFolder, current, curVer, verFiles, params, newFile, bytes,
                   startVars, put, renames>>

-----------------------------------------------------------------------------
(* Death and restart of the server's process.  Requests in process are      *)
(* gone.  So are all sessions, which live in memory: requests of a client   *)
(* that continues its transaction are refused before they reach the store.  *)
Crash ==
    /\ start' = [t \in Trans |->
                   IF \/ start[t] \in {"tasks", "saving"}
                      \/ start[t] = "ok" /\ close[t] \notin {"finalized", "cancelled", "err"}
                   THEN "dead" ELSE start[t]]
    /\ tasks' = [t \in Trans |-> {}]
    /\ put' = [t \in Trans |-> [p \in Part |->
                 IF put[t][p] \in {"open", "stalled"} THEN "dead" ELSE put[t][p]]]
    /\ close' = [t \in Trans |->
                   IF close[t] \in {"none", "finalized", "cancelled", "err", "lost"}
                   THEN close[t] ELSE "dead"]
    /\ renames' = [t \in Trans |-> {}]
    /\ UNCHANGED <<diskVars, isNew, ver>>

-----------------------------------------------------------------------------

StartSteps(t) ==
    \/ MakeObjFolder(t)
    \/ OpenNewVersion(t)
    \/ WriteNewVersion(t)
    \/ ReadVersion(t)
    \/ CheckSpace(t)
    \/ \E p \in Part : AllocateFile(t, p)
    \/ OpenParams(t)
    \/ WriteParams(t)

CloseSteps(t) ==
    \/ \E p \in Part : RenameNewFile(t, p)
    \/ OpenCurrentVersion(t)
    \/ WriteCurrentVersion(t)
    \/ UnlinkObjFiles(t)
    \/ RemoveObjFolder(t)
    \/ UnlinkTransFile(t)
    \/ RemoveTransFolder(t)

ServerSteps(t) ==
    StartSteps(t) \/ (\E p \in Part : WriteBytes(t, p)) \/ CloseSteps(t)

ClientSteps(t) ==
    (\E p \in Part : PutBytes(t, p)) \/ FinalizeTransaction(t) \/ CancelTransaction(t)

Next ==
    \/ \E t \in Trans : \/ \E new \in BOOLEAN : StartTransaction(t, new)
                        \/ ServerSteps(t)
                        \/ ClientSteps(t)
                        \/ LoseRequest(t)
    \/ Crash

Spec == Init /\ [][Next]_vars

\* Callbacks of fs operations always come, and bytes of a request keep coming.  A
\* client that has the id of its transaction goes on to its end, or loses it in
\* LoseRequest, which may always come first.  Nobody has to start a transaction.
FairSpec == Spec /\ \A t \in Trans : WF_vars(ServerSteps(t)) /\ WF_vars(ClientSteps(t))

-----------------------------------------------------------------------------
(* Properties                                                               *)

TypeOK ==
    /\ objFolder \in BOOLEAN /\ lock \in BOOLEAN
    /\ current \in {"absent", "empty", "new", "num"}
    /\ curVer \in Nat
    /\ verFiles \subseteq VerFile
    /\ params \in Trans \cup {NoTrans, "empty"}
    /\ newFile \in [Part -> Trans \cup {NoTrans}]
    /\ bytes \in [Trans -> [Part -> SUBSET Trans]]
    /\ isNew \in [Trans -> BOOLEAN]
    /\ ver \in [Trans -> Nat]
    /\ start \in [Trans -> StartState]
    /\ tasks \in [Trans -> SUBSET Task]
    /\ put \in [Trans -> [Part -> PutState]]
    /\ close \in [Trans -> CloseState]
    /\ renames \in [Trans -> SUBSET Part]

\* The version that is committed, i.e. that is, or was till an interrupted
\* change, in current.v.
Committed ==
    IF current = "num" THEN curVer
    ELSE IF current = "empty" /\ params \in Trans THEN ver[params] - 1
    ELSE 0

CommittedFiles == {f \in verFiles : f.ver <= Committed}

\* t has created transaction's folder, and is not done with it.
Holds(t) ==
    /\ start[t] \in {"tasks", "saving", "ok"}
    /\ close[t] \notin {"finalized", "cancelled", "err"}

\* No two transactions on an object are ever in progress, whichever way starts,
\* failing starts, late bytes, finalizations and cancellations of others
\* interleave: mkdir of transaction's folder is a lock (store.ts:381).
OneTransaction ==
    \A t1, t2 \in Trans : Holds(t1) /\ Holds(t2) => t1 = t2

\* A transaction that got its id is never broken by requests of others: its
\* files stay where they are till it is closed, so that bytes are refused only
\* after its own cancellation, and neither finalization, nor cancellation fail.
NoInterference ==
    \A t \in Trans :
        /\ close[t] # "err"
        /\ \A p \in Part : put[t][p] = "failed" => close[t] \notin {"none", "lost"}

\* What client is told to be saved is saved: the version of a finalized
\* transaction is on the disk, in both of its files, and neither crashes, nor
\* later transactions take it away, or take its number.
FinalizedStays ==
    \A t \in Trans : close[t] = "finalized" =>
        /\ ver[t] <= Committed
        /\ {f \in verFiles : f.ver = ver[t]} =
              {[ver |-> ver[t], part |-> p, from |-> t] : p \in Part}

\* Every committed file has bytes of its own transaction, and bytes of another
\* one only when connection of that other one has dropped.
OwnBytes ==
    \A f \in CommittedFiles :
        /\ f.from \in bytes[f.from][f.part]
        /\ bytes[f.from][f.part] \subseteq {f.from} \cup Dropping

\* Readers see an object as if versions were added to it atomically.
Versions == INSTANCE VersionedObject
                WITH version <- Committed, content <- CommittedFiles
ImplementsVersions == Versions!Spec

\* A transaction, that server has confirmed, comes to its end and frees the
\* object, except when server dies, when a request or a reply is lost with nobody
\* to repeat it, or when the pump of bytes keeps a tail and never answers.
EventuallyClosed ==
    \A t \in Trans :
        (start[t] = "ok") ~> \/ close[t] \in {"finalized", "cancelled", "lost"}
                            \/ \E p \in Part : put[t][p] = "stalled"
                            \/ start[t] = "dead"

\* "transaction - is a file with transaction params.  This file is present only
\* for duration of a transaction, and also acts as a transaction lock"
\* (store.ts:42-44): where this file is not, nothing is locked, but while a start
\* is still in process, or after a death in the middle of something.
LockOnlyForTransaction ==
    lock /\ params = NoTrans =>
        \E t \in Trans : Holds(t) \/ tasks[t] # {} \/ "dead" \in {start[t], close[t]}

\* "current.v - is a file with the current version of an object" (store.ts:30),
\* and the API promises of a read request, that does not name a version:
\* "If missing, current version is assumed" (owner.ts:82).
CurrentVersionReadable == Committed > 0 => current = "num"

\* "Transaction id, in which these bytes are absorbed" (owner.ts:104).
BytesInOwnTransaction == \A t \in Trans, p \in Part : bytes[t][p] \subseteq {t}

=============================================================================

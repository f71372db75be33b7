------------------------------ MODULE FsSaving ------------------------------
(***************************************************************************)
(* How the client's file system saves its folders and files: the queue of  *)
(* saving tasks (lib-client/3nstorage/xsp-fs/fs.ts), which entities of     *)
(* fs-entities.ts fill, and which is emptied by one process, calling       *)
(* saveObj of lib-client/3nstorage/service.ts for one object at a time.    *)
(*                                                                         *)
(* There is one folder with files in it.  Content of an entity is the set  *)
(* of all changes that were made to it, so that a later content includes   *)
(* earlier ones.  A transaction on the server is seen here at the level of *)
(* requests: module ObjTransaction has its file operations.                *)
(*                                                                         *)
(* Names without a path are of fs.ts; other paths are relative to src/src/.*)
(* Definitions Wrong... and Stuck... are deliberately broken variants of   *)
(* the next ones, and are not used in the model.                           *)
(***************************************************************************)
EXTENDS Naturals, Sequences

CONSTANTS
    Dir,         \* the folder
    File,        \* files, that are ever created in it
    Change,      \* calls of File.save
    NoTask,      \* "no task"
    NoCall,      \* nobody waits for a task's promise
    MaxFaults    \* a bound on failures of requests

ASSUME NamesAssumption == Dir \notin File /\ NoCall \notin Change
ASSUME FaultsAssumption == MaxFaults \in Nat

VARIABLES
    \* --- in the application ---
    mem,       \* content of entities
    told,      \* promises, that File.save has returned
    \* --- in FS ---
    ordered,   \* objsToSave.ordered: ids of objects
    byId,      \* objsToSave.byId
    stage,     \* of savingProc: "idle" is null, "next" is before the first task,
               \* others are requests of saveObj
    cur,       \* task of saveObj
    closing,   \* of a file system, or of a file storage with it
    \* --- on the server, and on the way to it ---
    sess,      \* session is open
    exists,    \* objects with a folder
    saved,     \* objects with a version
    stored,    \* content of their current versions
    locked,    \* objects with a transaction's folder
    finals,    \* requests to finalize, that client does not wait for
    \* --- history ---
    faults,    \* number of failed requests
    failed     \* objects, whose save has failed

appVars    == <<mem, told>>
queueVars  == <<ordered, byId, stage, cur>>
serverVars == <<sess, exists, saved, stored, locked, finals>>
vars == <<appVars, queueVars, closing, serverVars, faults, failed>>

Obj     == File \cup {Dir}
Content == SUBSET (File \cup Change)
Task    == [obj : Obj, content : Content, isNew : BOOLEAN, call : Change \cup {NoCall}]

ASSUME NoTaskAssumption == NoTask \notin Task

NewTask(o, content, isNew, call) ==
    [obj |-> o, content |-> content, isNew |-> isNew, call |-> call]

\* The folder is either opened, or is a new one.
Init ==
    /\ mem = [o \in Obj |-> {}]
    /\ told = [c \in Change |-> "none"]
    /\ \/ /\ ordered = <<>>
          /\ byId = [o \in Obj |-> NoTask]
          /\ stage = "idle"
          /\ exists = {Dir} /\ saved = {Dir}
       \/ /\ ordered = <<Dir>>
          /\ byId = [o \in Obj |-> IF o = Dir THEN NewTask(Dir, {}, TRUE, NoCall)
                                   ELSE NoTask]
          /\ stage = "next"
          /\ exists = {} /\ saved = {}
    /\ cur = NoTask
    /\ closing = "no"
    /\ sess = TRUE
    /\ stored = [o \in Obj |-> {}]
    /\ locked = {} /\ finals = {}
    /\ faults = 0 /\ failed = {}

Fault == faults < MaxFaults /\ faults' = faults + 1
NoFault == UNCHANGED faults

-----------------------------------------------------------------------------
(* addSavingTask and flush                                                  *)

\* A task that is still in the queue stays in its place, and stays new, while it
\* gets a new source and a new promise.
WrongMerged(old, task) == old                  \* later source is dropped
Merged(old, task) ==
    IF old = NoTask THEN task ELSE [task EXCEPT !.isNew = old.isNew]

Queued(task, queue) ==
    IF byId[task.obj] = NoTask THEN Append(queue, task.obj) ELSE queue

\* flush starts a process, if there is none.  Its first step is made later.
Flushed == IF stage = "idle" THEN "next" ELSE stage

\* New file is put in the queue, and is followed by its folder; nobody waits.
CreateFile(f) ==
    /\ closing = "no" /\ f \notin mem[Dir]
    /\ LET listing == mem[Dir] \cup {f}
           file    == NewTask(f, {}, TRUE, NoCall)
           folder  == NewTask(Dir, listing, FALSE, NoCall)
       IN  /\ mem' = [mem EXCEPT ![Dir] = listing]
           /\ ordered' = Queued(folder, Queued(file, ordered))
           /\ byId' = [byId EXCEPT ![f] = file, ![Dir] = Merged(@, folder)]
    /\ stage' = Flushed
    /\ UNCHANGED <<told, cur, closing, serverVars, faults, failed>>

\* The promise of a replaced task is resolved at once, although its bytes will
\* never be sent on their own.
SaveFile(f, c) ==
    /\ closing = "no" /\ f \in mem[Dir] /\ told[c] = "none"
    /\ LET task == NewTask(f, mem[f] \cup {c}, FALSE, c)
       IN  /\ mem' = [mem EXCEPT ![f] = task.content]
           /\ ordered' = Queued(task, ordered)
           /\ byId' = [byId EXCEPT ![f] = Merged(@, task)]
    /\ told' = [d \in Change |->
                  IF d = c THEN "waiting"
                  ELSE IF byId[f] # NoTask /\ byId[f].call = d THEN "resolved"
                  ELSE told[d]]
    /\ stage' = Flushed
    /\ UNCHANGED <<cur, closing, serverVars, faults, failed>>

-----------------------------------------------------------------------------
(* doSavingIteratively                                                      *)

Shift ==
    /\ ordered' = Tail(ordered)
    /\ byId' = [byId EXCEPT ![Head(ordered)] = NoTask]

\* The first task is taken out of the queue, and its saveObj is called, or there
\* is nothing to do.  When storage is gone, the call throws, and a promise of
\* such task is forgotten.
StuckTakeTask ==                     \* process ends after the first task
    /\ stage' = "idle" /\ cur' = NoTask
    /\ UNCHANGED <<ordered, byId, failed>>
TakeTask ==
    \/ /\ ordered = <<>>
       /\ stage' = "idle" /\ cur' = NoTask
       /\ UNCHANGED <<ordered, byId, failed>>
    \/ /\ ordered # <<>> /\ closing # "gone"
       /\ Shift
       /\ stage' = "start" /\ cur' = byId[Head(ordered)]
       /\ UNCHANGED failed
    \/ /\ ordered # <<>> /\ closing = "gone"
       /\ Shift
       /\ stage' = "idle" /\ cur' = NoTask
       /\ failed' = failed \cup {Head(ordered)}

Begin ==
    /\ stage = "next"
    /\ TakeTask
    /\ UNCHANGED <<appVars, closing, serverVars, faults>>

Told(answer) ==
    told' = [c \in Change |-> IF c = cur.call THEN answer ELSE told[c]]

\* Rejection ends the process, and leaves the rest of tasks in the queue, till
\* something is added to it.  It also rejects a promise of close.
TaskFails ==
    /\ Told("rejected")
    /\ stage' = "idle" /\ cur' = NoTask
    /\ failed' = failed \cup {cur.obj}
    /\ closing' = IF closing = "drain" THEN "failed" ELSE closing
    /\ UNCHANGED <<mem, ordered, byId>>

-----------------------------------------------------------------------------
(* saveObj: start of a transaction                                          *)

\* Client forgets its session after a logout, even if that has failed.
LoggedIn == sess /\ closing # "gone"

\* Folder of a transaction is made, when there is none.
WrongCanLock(o) == LoggedIn                    \* lock is not checked
CanLock(o) == LoggedIn /\ o \notin locked

\* New object must not exist, and the other one must have a version.
CanStart(task) ==
    IF task.isNew THEN task.obj \notin exists ELSE task.obj \in saved

StartTransaction ==
    /\ stage = "start" /\ CanLock(cur.obj) /\ CanStart(cur)
    /\ locked' = locked \cup {cur.obj}
    /\ exists' = exists \cup {cur.obj}
    /\ stage' = "put"
    /\ UNCHANGED <<appVars, ordered, byId, cur, closing, sess, saved, stored,
                   finals, faults, failed>>

\* Session is closed, or there is a transaction on the object, which may be the
\* one of a previous saveObj, as it is not waited for.
StartRefused ==
    /\ stage = "start" /\ ~CanLock(cur.obj)
    /\ TaskFails
    /\ UNCHANGED <<serverVars, faults>>

\* Folder of a transaction is left by a start that fails.
StartFails ==
    /\ stage = "start" /\ CanLock(cur.obj) /\ ~CanStart(cur)
    /\ locked' = locked \cup {cur.obj}
    /\ TaskFails
    /\ UNCHANGED <<sess, exists, saved, stored, finals, faults>>

\* Request does not get to the server, or its reply is lost, or there is not
\* enough space, in which case folder of a new object may be there.
StartLost ==
    /\ stage = "start" /\ Fault
    /\ \/ UNCHANGED <<locked, exists>>
       \/ /\ CanLock(cur.obj)
          /\ locked' = locked \cup {cur.obj}
          /\ exists' \in {exists, exists \cup (IF cur.isNew THEN {cur.obj} ELSE {})}
    /\ TaskFails
    /\ UNCHANGED <<sess, saved, stored, finals>>

-----------------------------------------------------------------------------
(* saveObj: bytes, and the end of a transaction                             *)

\* Finalization is requested, but is not waited for.
BytesSent ==
    /\ stage = "put" /\ LoggedIn
    /\ finals' = finals \cup {[obj |-> cur.obj, content |-> cur.content]}
    /\ Told("resolved")
    /\ TakeTask
    /\ UNCHANGED <<mem, closing, sess, exists, saved, stored, locked, faults>>

BytesLost ==
    /\ stage = "put"
    /\ \/ ~LoggedIn /\ NoFault
       \/ LoggedIn /\ Fault
    /\ stage' = "cancel"
    /\ UNCHANGED <<appVars, ordered, byId, cur, closing, serverVars, failed>>

\* Cancellation of a transaction that makes an object, removes this object.
CancelTransaction ==
    /\ stage = "cancel" /\ LoggedIn
    /\ locked' = locked \ {cur.obj}
    /\ exists' = IF cur.isNew THEN exists \ {cur.obj} ELSE exists
    /\ TaskFails
    /\ UNCHANGED <<sess, saved, stored, finals, faults>>

CancelLost ==
    /\ stage = "cancel"
    /\ \/ ~LoggedIn /\ NoFault
       \/ LoggedIn /\ Fault
    /\ TaskFails
    /\ UNCHANGED serverVars

FinalizeTransaction(r) ==
    /\ r \in finals /\ sess
    /\ finals' = finals \ {r}
    /\ locked' = locked \ {r.obj}
    /\ saved' = saved \cup {r.obj}
    /\ stored' = [stored EXCEPT ![r.obj] = r.content]
    /\ UNCHANGED <<appVars, queueVars, closing, sess, exists, faults, failed>>

\* Nobody gets to know that a transaction has stayed open.
FinalizeLost(r) ==
    /\ r \in finals
    /\ \/ ~sess /\ NoFault
       \/ sess /\ Fault
    /\ finals' = finals \ {r}
    /\ failed' = failed \cup {r.obj}
    /\ UNCHANGED <<appVars, queueVars, closing, sess, exists, saved, stored, locked>>

\* Server closes an idle session, or restarts.
Expire ==
    /\ sess /\ Fault
    /\ sess' = FALSE
    /\ UNCHANGED <<appVars, queueVars, closing, exists, saved, stored, locked,
                   finals, failed>>

-----------------------------------------------------------------------------
(* FS.close, and FileStorage.close of client-apps/public-content/           *)
(* file-storage.ts, which logs out without waiting for a file system        *)

Close ==
    /\ closing = "no"
    /\ closing' \in {"drain", "parallel"}
    /\ stage' = IF ordered = <<>> THEN stage ELSE Flushed
    /\ UNCHANGED <<appVars, ordered, byId, cur, serverVars, faults, failed>>

\* Failure of a logout is ignored.
Logout ==
    /\ \/ closing = "drain" /\ stage = "idle" /\ closing' = "closed"
       \/ closing = "parallel" /\ closing' = "gone"
    /\ \/ sess' = FALSE /\ NoFault
       \/ UNCHANGED sess /\ Fault
    /\ UNCHANGED <<appVars, queueVars, exists, saved, stored, locked, finals, failed>>

-----------------------------------------------------------------------------

SavingSteps ==
    \/ Begin
    \/ StartTransaction \/ StartRefused \/ StartFails \/ StartLost
    \/ BytesSent \/ BytesLost \/ CancelTransaction \/ CancelLost

ServerSteps == \E r \in finals : FinalizeTransaction(r) \/ FinalizeLost(r)

Next ==
    \/ \E f \in File : CreateFile(f) \/ \E c \in Change : SaveFile(f, c)
    \/ SavingSteps \/ ServerSteps
    \/ Expire \/ Close \/ Logout

Spec == Init /\ [][Next]_vars

\* Promises are resolved, and requests are answered.
FairSpec == Spec /\ WF_vars(SavingSteps) /\ WF_vars(ServerSteps)

-----------------------------------------------------------------------------
(* Properties                                                               *)

TypeOK ==
    /\ mem \in [Obj -> Content]
    /\ told \in [Change -> {"none", "waiting", "resolved", "rejected"}]
    /\ ordered \in Seq(Obj)
    /\ byId \in [Obj -> Task \cup {NoTask}]
    /\ stage \in {"idle", "next", "start", "put", "cancel"}
    /\ cur \in Task \cup {NoTask}
    /\ closing \in {"no", "drain", "parallel", "failed", "closed", "gone"}
    /\ sess \in BOOLEAN
    /\ exists \subseteq Obj /\ saved \subseteq Obj /\ locked \subseteq Obj
    /\ stored \in [Obj -> Content]
    /\ finals \subseteq [obj : Obj, content : Content]
    /\ faults \in 0..MaxFaults
    /\ failed \subseteq Obj

InQueue(o)  == byId[o] # NoTask
InSaving(o) == cur # NoTask /\ cur.obj = o
InFinals(o) == \E r \in finals : r.obj = o

\* The latest content of o, that is on its way to the server, or is there.
LastIs(o, content) ==
    \/ InQueue(o) /\ byId[o].content = content
    \/ ~InQueue(o) /\ InSaving(o) /\ cur.content = content
    \/ ~InQueue(o) /\ ~InSaving(o) /\ InFinals(o)
          /\ \A r \in finals : r.obj = o => r.content = content
    \/ ~InQueue(o) /\ ~InSaving(o) /\ ~InFinals(o)
          /\ o \in saved /\ stored[o] = content

Created == mem[Dir] \cup {Dir}

\* Nothing is forgotten: the content that an application has made last is either
\* in the queue, or is the one that is being saved, or finalized, or is stored,
\* whichever saves of this object were merged, unless its save has failed.
NothingForgotten == \A o \in Created \ failed : LastIs(o, mem[o])

\* Content on the server never goes back to an earlier one, although requests to
\* finalize are not waited for, and may be processed in any order.
NeverBack ==
    [][/\ saved \subseteq saved'
       /\ \A o \in Obj : stored[o] \subseteq stored'[o]]_vars

\* Every change gets to the server, if nothing fails.
EventuallySaved ==
    \A f \in File, c \in Change :
        (c \in mem[f]) ~> (c \in stored[f] \/ failed # {})

\* "All changes are written to server." (3nstorage/user-settings/public-content/
\* account.ts:237) is logged, when a file system is closed after its saves.  Here
\* it is looked at even later, when no request is left on its way.
AllChangesAreWritten ==
    closing = "closed" /\ finals = {} =>
        \A o \in Created : o \in saved /\ stored[o] = mem[o]

=============================================================================

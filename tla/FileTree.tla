------------------------------ MODULE FileTree ------------------------------
(***************************************************************************)
(* Tree of folders of one user, as pages make it and open it: a page that  *)
(* signs up makes a root with a system folder, and a page of the mail     *)
(* application goes down from the root, makes a folder for a keyring, when *)
(* there is none, and then loads and saves a file in it.  Nothing but      *)
(* objects on a storage server is common to pages.  A page may be closed   *)
(* at any moment, and a request may fail.                                  *)
(*                                                                         *)
(* The queue of FsSaving is seen here as a sequence of tasks, and a        *)
(* transaction of ObjTransaction as a lock, bytes, and a finalization.     *)
(* Of the two file systems of a mail page, one ends before the other one   *)
(* is used, and there is one queue for both of them.                       *)
(***************************************************************************)
EXTENDS Naturals, Sequences, FiniteSets

CONSTANTS
    Pages,          \* number of pages, in all tabs and devices of a user
    MaxBusy,        \* bounds of the model: pages, that are there at once,
    MaxChanges,     \* changes of a keyring,
    MaxFaults,      \* and failures of requests
    None

Page == 1..Pages        \* in an order, in which they start
Change == {"change"} \X (1..MaxChanges)

\* A new id is random, thus, it is named after a page, that makes an object.
Root == <<"root", None>>
Apps(p) == <<"apps", p>>
Ring(p) == <<"ring", p>>
File(p) == <<"file", p>>
Obj == {Root} \cup ({"apps", "ring", "file"} \X Page)

\* Bytes of an object are its children, or changes of a keyring.
Content == Obj \cup Change

ASSUME BoundsAssumption == {Pages, MaxBusy, MaxChanges, MaxFaults} \subseteq Nat
ASSUME NoneAssumption == None \notin Page /\ \A bytes \in SUBSET Content : bytes # None

VARIABLES
    page,       \* where a program of a page is, folders it has, and a keyring
    queue,      \* its saving tasks, in an order
    cur,        \* a task of saveObj, and its request
    stored,     \* current versions of objects
    locked,     \* objects with a folder of a transaction
    finals,     \* requests to finalize, for which nobody waits
    made,       \* number of changes of keyrings
    faults,
    lost,       \* objects, whose save has failed, or was not finalized
    hurt        \* pages have overlapped

clientVars == <<page, queue, cur, made>>
serverVars == <<stored, locked, finals>>
noteVars == <<faults, lost, hurt>>
vars == <<clientVars, serverVars, noteVars>>

Idle == [st |-> "idle", task |-> None]
Fresh == [st |-> "none", at |-> None, json |-> {}, up |-> None, keys |-> {}]

Init ==
    /\ page = [p \in Page |-> Fresh]
    /\ queue = [p \in Page |-> <<>>]
    /\ cur = [p \in Page |-> Idle]
    /\ stored = [o \in Obj |-> None]
    /\ locked = {} /\ finals = {} /\ lost = {}
    /\ made = 0 /\ faults = 0 /\ hurt = FALSE

Fault == faults < MaxFaults /\ faults' = faults + 1

-----------------------------------------------------------------------------
(* Entities, and their tasks                                                *)

Task(o, content, isNew) == [obj |-> o, content |-> content, new |-> isNew]

\* A task of the same object, that waits, gets a new content in its place.
AddTask(q, task) ==
    IF \E i \in DOMAIN q : q[i].obj = task.obj
    THEN [i \in DOMAIN q |-> IF q[i].obj = task.obj
                             THEN [q[i] EXCEPT !.content = task.content] ELSE q[i]]
    ELSE Append(q, task)

\* A folder is saved as a whole, with its listed children, and keys of both are in
\* its bytes.  Thus, what is read of it is all that a page knows.
EmptyFolderJson == {}
Registered(json, child) == json \cup {child}
Json(p) == stored[page[p].at]

\* Listed child goes first, and then goes its folder.
WrongCreated(q, child, content, folder, json) ==    \* the other way round
    AddTask(AddTask(q, Task(folder, Registered(json, child), FALSE)),
            Task(child, content, TRUE))
Created(q, child, content, folder, json) ==
    AddTask(AddTask(q, Task(child, content, TRUE)),
            Task(folder, Registered(json, child), FALSE))

\* The first task is of the root, thus, its folders go after it.  Folder for user
\* files, that nobody opens, is like the one with data of applications.
RootTask == Task(Root, EmptyFolderJson, TRUE)
NewTree(p) == Created(<<RootTask>>, Apps(p), EmptyFolderJson, Root, EmptyFolderJson)

\* Children of a kind, by which an entry with a name is found.
Entries(json, kind) == {o \in json : o[1] = kind}
Entry(json, kind) == CHOOSE o \in Entries(json, kind) : TRUE

-----------------------------------------------------------------------------
(* Programs of pages                                                        *)

Busy(p) == page[p].st \notin {"none", "failed", "gone"}
Starts(p) ==
    /\ \A q \in Page : q < p => page[q].st # "none"
    /\ Cardinality({q \in Page : Busy(q)}) < MaxBusy
    /\ hurt' = (hurt \/ (\E q \in Page : Busy(q)) \/ finals # {})

Ends(p, st) == page' = [page EXCEPT ![p] = [Fresh EXCEPT !.st = st]]

\* makeAndSaveRoot.  A page gets to it, if it saw no account.  Sign ups that run
\* at once are in module Accounts.
SignUp(p) ==
    /\ page[p].st = "none" /\ stored[Root] = None
    /\ \A q \in Page : page[q].st # "signing"
    /\ page' = [page EXCEPT ![p].st = "signing"]
    /\ queue' = [queue EXCEPT ![p] = NewTree(p)]
    /\ Starts(p)
    /\ UNCHANGED <<cur, made, serverVars, faults, lost>>

\* File system is closed after its saves, and session with it.
SignedUp(p) ==
    /\ page[p].st = "signing" /\ queue[p] = <<>> /\ cur[p] = Idle
    /\ Ends(p, "gone")
    /\ UNCHANGED <<queue, cur, made, serverVars, noteVars>>

\* FileStorage.init: login, a passphrase, and then the root is asked for.
Open(p) ==
    /\ page[p].st = "none"
    /\ page' = [page EXCEPT ![p].st = "root", ![p].at = Root]
    /\ Starts(p)
    /\ UNCHANGED <<queue, cur, made, serverVars, faults, lost>>

\* An object, that is asked for, comes, or there is a reply that it is unknown.
Comes(p, st) == page[p].st = st /\ stored[page[p].at] # None
Unknown(p) ==
    /\ page[p].st \in {"root", "apps", "ring", "file"}
    /\ stored[page[p].at] = None
    /\ Ends(p, "failed")
    /\ UNCHANGED <<queue, cur, made, serverVars, noteVars>>

\* System folder is in the root from the beginning.
RootComes(p) ==
    /\ Comes(p, "root")
    /\ page' = [page EXCEPT ![p].st = "apps",
                            ![p].at = Entry(Json(p), "apps")]
    /\ UNCHANGED <<queue, cur, made, serverVars, noteVars>>

\* Keyring's folder is in a folder with data of applications, or is missing.
AppsComes(p) ==
    /\ Comes(p, "apps")
    /\ LET json == Json(p) IN
       IF Entries(json, "ring") # {}
       THEN /\ page' = [page EXCEPT ![p].st = "ring", ![p].at = Entry(json, "ring")]
            /\ UNCHANGED queue
       ELSE /\ page' = [page EXCEPT ![p].st = "closing", ![p].up = Ring(p)]
            /\ queue' = [queue EXCEPT ![p] =
                            Created(@, Ring(p), EmptyFolderJson, page[p].at, json)]
    /\ UNCHANGED <<cur, made, serverVars, noteVars>>

\* The folder becomes a root of another file system, and shares its json.
RingComes(p) ==
    /\ Comes(p, "ring")
    /\ page' = [page EXCEPT ![p].st = "closing", ![p].up = page[p].at,
                            ![p].json = Json(p)]
    /\ UNCHANGED <<queue, cur, made, serverVars, noteVars>>

\* The first file system is closed, when it has nothing to save.  The next call
\* is load, and there is nothing to wait for without a file.
Closed(p) == queue[p] = <<>> /\ cur[p] = Idle
Load(p) ==
    /\ page[p].st = "closing" /\ Closed(p)
    /\ page' = [page EXCEPT
                  ![p].st = IF Entries(page[p].json, "file") = {} THEN "new" ELSE "file",
                  ![p].at = IF Entries(page[p].json, "file") = {} THEN None
                            ELSE Entry(page[p].json, "file")]
    /\ UNCHANGED <<queue, cur, made, serverVars, noteVars>>

\* Content of a keyring's file becomes a keyring.
WrongLoaded(p) == page[p].keys          \* it is read, and then is not used
Loaded(p) == stored[page[p].at]
FileComes(p) ==
    /\ Comes(p, "file")
    /\ page' = [page EXCEPT ![p].st = "open", ![p].keys = Loaded(p)]
    /\ UNCHANGED <<queue, cur, made, serverVars, noteVars>>

\* The whole keyring is saved into its file, which is made, when it is missing.
\* Initial keyring is saved at once.  A new task starts a stopped process.
SaveRing(p) ==
    /\ page[p].st \in {"new", "open"} /\ made < MaxChanges
    /\ made' = made + 1
    /\ LET keys == page[p].keys \cup {<<"change", made + 1>>}
           json == page[p].json
       IN IF Entries(json, "file") = {}
          THEN /\ queue' = [queue EXCEPT ![p] =
                                Created(@, File(p), keys, page[p].up, json)]
               /\ page' = [page EXCEPT ![p].st = "open", ![p].keys = keys,
                                       ![p].json = Registered(json, File(p))]
          ELSE /\ queue' = [queue EXCEPT ![p] =
                                AddTask(@, Task(Entry(json, "file"), keys, FALSE))]
               /\ page' = [page EXCEPT ![p].keys = keys]
    /\ cur' = [cur EXCEPT ![p] = IF @.st = "stopped" THEN Idle ELSE @]
    /\ UNCHANGED <<serverVars, noteVars>>

\* Reading request fails.  Promise of a request ends with done(), which throws, thus,
\* a reader is never told, and waits forever, here, and when an object is unknown.
ReadFails(p) ==
    /\ page[p].st \in {"root", "apps", "ring", "file"} /\ Fault
    /\ Ends(p, "failed")
    /\ UNCHANGED <<queue, cur, made, serverVars, lost, hurt>>

\* A user closes a page, with everything that it had to do.
Leave(p) ==
    /\ Busy(p)
    /\ Ends(p, "gone")
    /\ queue' = [queue EXCEPT ![p] = <<>>]
    /\ cur' = [cur EXCEPT ![p] = Idle]
    /\ UNCHANGED <<made, serverVars, noteVars>>

-----------------------------------------------------------------------------
(* Saving                                                                   *)

\* doSavingIteratively.
StuckTakeTask(p) ==                   \* a process ends after the first task
    /\ queue[p] # <<>> /\ cur[p] = Idle
    /\ cur' = [cur EXCEPT ![p] = [st |-> IF Head(queue[p]).new THEN "start" ELSE "stopped",
                                  task |-> Head(queue[p])]]
    /\ queue' = [queue EXCEPT ![p] = Tail(@)]
    /\ UNCHANGED <<page, made, serverVars, noteVars>>
TakeTask(p) ==
    /\ queue[p] # <<>> /\ cur[p] = Idle
    /\ cur' = [cur EXCEPT ![p] = [st |-> "start", task |-> Head(queue[p])]]
    /\ queue' = [queue EXCEPT ![p] = Tail(@)]
    /\ UNCHANGED <<page, made, serverVars, noteVars>>

\* A rejection ends a process, and fails what waits for it.  The rest of a queue
\* stays till the next task is added.
Rejected(p) ==
    /\ cur' = [cur EXCEPT ![p] = [st |-> "stopped", task |-> None]]
    /\ IF page[p].st = "open" THEN UNCHANGED page ELSE Ends(p, "failed")
    /\ lost' = lost \cup {cur[p].task.obj}
    /\ UNCHANGED <<queue, made>>

CanLock(o) == o \notin locked

\* Existence of a new root is not checked.
CanStart(task) ==
    IF task.new THEN task.obj = Root \/ stored[task.obj] = None
                ELSE stored[task.obj] # None

StartTransaction(p) ==
    /\ cur[p].st = "start"
    /\ CanLock(cur[p].task.obj) /\ CanStart(cur[p].task)
    /\ locked' = locked \cup {cur[p].task.obj}
    /\ cur' = [cur EXCEPT ![p].st = "put"]
    /\ UNCHANGED <<page, queue, made, stored, finals, noteVars>>

\* Refused start of a wrong transaction leaves its folder.
StartRefused(p) ==
    /\ cur[p].st = "start"
    /\ \/ ~CanLock(cur[p].task.obj) /\ UNCHANGED locked
       \/ /\ CanLock(cur[p].task.obj) /\ ~CanStart(cur[p].task)
          /\ locked' = locked \cup {cur[p].task.obj}
    /\ Rejected(p)
    /\ UNCHANGED <<stored, finals, faults, hurt>>

StartLost(p) ==
    /\ cur[p].st = "start" /\ Fault
    /\ \/ UNCHANGED locked
       \/ /\ CanLock(cur[p].task.obj)
          /\ locked' = locked \cup {cur[p].task.obj}
    /\ Rejected(p)
    /\ UNCHANGED <<stored, finals, hurt>>

\* Bytes are sent, and nobody waits for a transaction to end.
BytesSent(p) ==
    /\ cur[p].st = "put"
    /\ finals' = finals \cup {[obj |-> cur[p].task.obj,
                               content |-> cur[p].task.content, by |-> p]}
    /\ cur' = [cur EXCEPT ![p] = Idle]
    /\ UNCHANGED <<page, queue, made, stored, locked, noteVars>>

\* Transaction is cancelled.
BytesLost(p) ==
    /\ cur[p].st = "put" /\ Fault
    /\ locked' = locked \ {cur[p].task.obj}
    /\ Rejected(p)
    /\ UNCHANGED <<stored, finals, hurt>>

FinalizeTransaction(r) ==
    /\ finals' = finals \ {r}
    /\ locked' = locked \ {r.obj}
    /\ stored' = [stored EXCEPT ![r.obj] = r.content]
    /\ UNCHANGED <<clientVars, noteVars>>

\* Request does not come, as its page is closed, or has closed its session.
FinalizeLost(r) ==
    /\ \/ page[r.by].st = "gone" /\ UNCHANGED faults
       \/ page[r.by].st # "gone" /\ Fault
    /\ finals' = finals \ {r}
    /\ lost' = lost \cup {r.obj}
    /\ UNCHANGED <<clientVars, stored, locked, hurt>>

Saving(p) == TakeTask(p) \/ StartTransaction(p) \/ StartRefused(p) \/ BytesSent(p)
Opening(p) == Unknown(p) \/ RootComes(p) \/ AppsComes(p) \/ RingComes(p)
              \/ Load(p) \/ FileComes(p)

Next ==
    \/ \E p \in Page :
        \/ SignUp(p) \/ SignedUp(p) \/ Open(p) \/ Opening(p) \/ SaveRing(p)
        \/ ReadFails(p) \/ Leave(p)
        \/ Saving(p) \/ StartLost(p) \/ BytesLost(p)
    \/ \E r \in finals : FinalizeTransaction(r) \/ FinalizeLost(r)

\* Requests are answered, and callbacks are called.  Every page has a few of these
\* steps, thus, none of them can be left waiting.
Fairness == WF_vars(\E p \in Page : Saving(p) \/ Opening(p))

Spec == Init /\ [][Next]_vars /\ Fairness

-----------------------------------------------------------------------------
(* Properties                                                               *)

TaskType == [obj: Obj, content: SUBSET Content, new: BOOLEAN]
PageType == [st: {"none", "signing", "root", "apps", "ring", "closing", "file",
                  "new", "open", "failed", "gone"},
             at: Obj \cup {None}, json: SUBSET Content, up: Obj \cup {None},
             keys: SUBSET Content]
CurType == [st: {"idle", "start", "put", "stopped"}, task: TaskType \cup {None}]
FinalType == [obj: Obj, content: SUBSET Content, by: Page]

\* Types of all variables.  A saving process has a task, till its bytes are sent.
TypeOK ==
    /\ page \in [Page -> PageType]
    /\ queue \in [Page -> Seq(TaskType)]
    /\ cur \in [Page -> CurType]
    /\ \A p \in Page : cur[p].st \in {"start", "put"} => cur[p].task \in TaskType
    /\ stored \in [Obj -> {None} \cup SUBSET Content]
    /\ finals \subseteq FinalType
    /\ locked \subseteq Obj /\ lost \subseteq Obj
    /\ made \in 0..MaxChanges /\ faults \in 0..MaxFaults /\ hurt \in BOOLEAN

\* In whichever order finalizations come, and whenever pages are closed, every
\* child that is listed in a stored folder, the root excepted, is stored, or is
\* on its way, unless saving of this very child has failed.
NoDangling ==
    \A o \in Obj \ {Root} :
        stored[o] # None =>
            \A c \in stored[o] \cap Obj :
                \/ stored[c] # None
                \/ \E r \in finals : r.obj = c
                \/ c \in lost

\* Changes of a keyring, that may be found from the root.
Known(store) ==
    {n \in Change :
        \E p, q, s \in Page :
            /\ store[Root] # None /\ Apps(p) \in store[Root]
            /\ store[Apps(p)] # None /\ Ring(q) \in store[Apps(p)]
            /\ store[Ring(q)] # None /\ File(s) \in store[Ring(q)]
            /\ store[File(s)] # None /\ n \in store[File(s)]}

\* A change of a keyring, that is once found, is found by every later page, if
\* pages do not overlap, and requests of previous ones have been processed,
\* even if pages are closed, and requests fail, at any moment.
KeyringStays == [][~hurt => Known(stored) \subseteq Known(stored')]_vars

\* Objects on the way down, that are there, or may be made.
Whole(o) == stored[o] # None /\ \A c \in stored[o] \cap Obj : stored[c] # None
Sound ==
    /\ finals = {} /\ Whole(Root)
    /\ \A p \in Page : Apps(p) \in stored[Root] =>
        /\ Whole(Apps(p)) /\ (stored[Apps(p)] = {} => Apps(p) \notin locked)
        /\ \A q \in Page : Ring(q) \in stored[Apps(p)] => Whole(Ring(q))

\* The last page, if it starts, when what is stored is whole, and when objects, into
\* which it has to write, were not left locked, gets to the keyring, whatever pages
\* before it did, unless its own requests fail, or a user closes it.
PageOpens ==
    LET p == Pages IN
    (page[p].st = "root" /\ Sound /\ faults = 0)
        ~> (page[p].st \in {"new", "open", "gone"} \/ faults > 0 \/ hurt)
=============================================================================

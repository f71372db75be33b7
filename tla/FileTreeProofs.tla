--------------------------- MODULE FileTreeProofs ---------------------------
(***************************************************************************)
(* Proofs about FileTree, for any number of pages, of changes and faults.  *)
(***************************************************************************)
EXTENDS FileTree, SequenceTheorems, TLAPS

\* An object is stored, or is on its way, or its save has failed.
Settled(c) == stored[c] # None \/ (\E r \in finals : r.obj = c) \/ c \in lost
AllSettled(content) == \A c \in content \cap Obj : Settled(c)

\* What a page knows on its way down, and what it is going to save.
OnWay(p) ==
    /\ page[p].st = "root" => page[p].at = Root
    /\ page[p].st \in {"apps", "ring", "file"} =>
        page[p].at \in Obj /\ page[p].at[1] = page[p].st
    /\ page[p].st \in {"closing", "file", "new"} =>
        page[p].up \in Obj /\ page[p].up[1] = "ring"
    /\ page[p].st # "open" => AllSettled(page[p].json)
    /\ page[p].st \in {"file", "open"} => Entries(page[p].json, "file") # {}
    /\ page[p].st = "new" => Entries(page[p].json, "file") = {}
    /\ AllSettled(page[p].keys)
    /\ page[p].st \in {"none", "root", "apps", "ring", "file", "new"} => queue[p] = <<>>

\* The root has a system folder in all of its versions.
HasApps(content) == Entries(content, "apps") # {}
Saved(p) == cur[p].st \in {"start", "put"}
RootTasks(p) ==
    /\ Saved(p) /\ cur[p].task.obj = Root => HasApps(cur[p].task.content)
    /\ \A i \in DOMAIN queue[p] : queue[p][i].obj = Root => HasApps(queue[p][i].content)

\* Children of a folder are saved before it.
InHand(p, c) == Saved(p) /\ cur[p].task.obj = c
Ahead(q, i, c) == \E j \in 1..(i - 1) : q[j].obj = c
InOrder(p) ==
    \A i \in DOMAIN queue[p] : queue[p][i].obj # Root =>
        \A c \in queue[p][i].content \cap Obj :
            Settled(c) \/ InHand(p, c) \/ Ahead(queue[p], i, c)
HandSettled(p) ==
    Saved(p) /\ cur[p].task.obj # Root => AllSettled(cur[p].task.content)

PageKept(p) == OnWay(p) /\ RootTasks(p) /\ InOrder(p) /\ HandSettled(p)
ServerKept ==
    /\ stored[Root] # None => HasApps(stored[Root])
    /\ \A r \in finals : IF r.obj = Root THEN HasApps(r.content) ELSE AllSettled(r.content)
    /\ \A o \in Obj \ {Root} : stored[o] # None => AllSettled(stored[o])

\* The inductive invariant.
IInv == TypeOK /\ (\A p \in Page : PageKept(p)) /\ ServerKept

-----------------------------------------------------------------------------
(* Objects, and queues of tasks                                             *)

\* Kinds of objects and of changes are different.
LEMMA ObjKinds ==
    /\ \A o \in Obj : o[1] \in {"root", "apps", "ring", "file"} /\ (o[1] = "root" <=> o = Root)
    /\ \A n \in Change : n[1] = "change"
    /\ \A p \in Page : /\ Apps(p) \in Obj /\ Apps(p)[1] = "apps"
                       /\ Ring(p) \in Obj /\ Ring(p)[1] = "ring"
                       /\ File(p) \in Obj /\ File(p)[1] = "file"
    /\ Root \in Obj /\ Root[1] = "root"
<1>1. Root \in Obj /\ Root[1] = "root"
  BY DEF Obj, Root
<1>2. \A n \in Change : n[1] = "change"
  BY DEF Change
<1>3. \A p \in Page : /\ Apps(p) \in Obj /\ Apps(p)[1] = "apps"
                     /\ Ring(p) \in Obj /\ Ring(p)[1] = "ring"
                     /\ File(p) \in Obj /\ File(p)[1] = "file"
  BY DEF Obj, Apps, Ring, File
<1>4. \A o \in {"apps", "ring", "file"} \X Page : o[1] \in {"apps", "ring", "file"}
  OBVIOUS
<1>5. \A o \in Obj : o = Root \/ o[1] \in {"apps", "ring", "file"}
  BY <1>4 DEF Obj
<1> QED
  BY <1>1, <1>2, <1>3, <1>5

\* An entry, that is found, is a child of its kind.
LEMMA EntryIs ==
    ASSUME NEW json \in SUBSET Content, NEW kind \in {"apps", "ring", "file"},
           Entries(json, kind) # {}
    PROVE  Entry(json, kind) \in json /\ Entry(json, kind) \in Obj /\ Entry(json, kind)[1] = kind
<1>1. Entry(json, kind) \in Entries(json, kind)
  BY DEF Entry
<1>2. Entry(json, kind) \in json /\ Entry(json, kind)[1] = kind
  BY <1>1 DEF Entries
<1> QED
  BY <1>2, ObjKinds DEF Content

\* Two tasks, one after another.
LEMMA AppendPair ==
    ASSUME NEW S, NEW a \in S, NEW b \in S
    PROVE  Append(<<a>>, b) = <<a, b>>
<1>1. <<a>> \in Seq(S) /\ Len(<<a>>) = 1 /\ <<a>>[1] = a
  OBVIOUS
<1>2. /\ Append(<<a>>, b) \in Seq(S) /\ Len(Append(<<a>>, b)) = 2
      /\ Append(<<a>>, b)[1] = a /\ Append(<<a>>, b)[2] = b
  BY <1>1, AppendProperties
<1>3. <<a, b>> \in Seq(S) /\ Len(<<a, b>>) = 2 /\ <<a, b>>[1] = a /\ <<a, b>>[2] = b
  OBVIOUS
<1> DEFINE x == Append(<<a>>, b)
           y == <<a, b>>
<1>4. /\ x \in Seq(S) /\ y \in Seq(S) /\ Len(x) = 2 /\ Len(y) = 2
      /\ x[1] = y[1] /\ x[2] = y[2]
  BY <1>2, <1>3
<1> HIDE DEF x, y
<1>5. \A i \in 1..2 : i = 1 \/ i = 2
  OBVIOUS
<1>6. x = y
  BY <1>4, <1>5, SeqEqual
<1> QED
  BY <1>6 DEF x, y

\* A task is made of its parts.
LEMMA TaskTypes ==
    ASSUME NEW o \in Obj, NEW content \in SUBSET Content, NEW isNew \in BOOLEAN
    PROVE  /\ Task(o, content, isNew) \in TaskType
           /\ Task(o, content, isNew).obj = o /\ Task(o, content, isNew).content = content
           /\ Task(o, content, isNew).new = isNew
BY DEF Task, TaskType

\* A queue keeps its order, and only a task of the same object gets other content.
LEMMA AddTaskIs ==
    ASSUME NEW q \in Seq(TaskType), NEW task \in TaskType
    PROVE  /\ AddTask(q, task) \in Seq(TaskType)
           /\ DOMAIN q \subseteq DOMAIN AddTask(q, task)
           /\ \A i \in DOMAIN q : AddTask(q, task)[i].obj = q[i].obj
           /\ \A i \in DOMAIN AddTask(q, task) :
                \/ /\ AddTask(q, task)[i].obj = task.obj
                   /\ AddTask(q, task)[i].content = task.content
                \/ i \in DOMAIN q /\ AddTask(q, task)[i] = q[i]
<1>1. CASE \E i \in DOMAIN q : q[i].obj = task.obj
  <2> DEFINE r == [i \in DOMAIN q |-> IF q[i].obj = task.obj
                                     THEN [q[i] EXCEPT !.content = task.content] ELSE q[i]]
  <2>1. AddTask(q, task) = r
    BY <1>1 DEF AddTask
  <2>2. \A i \in DOMAIN q : q[i] \in TaskType /\ [q[i] EXCEPT !.content = task.content] \in TaskType
    <3>1. \A t \in TaskType : [t EXCEPT !.content = task.content] \in TaskType
      BY DEF TaskType
    <3> QED
      BY <3>1
  <2>3. \A i \in DOMAIN q : /\ r[i] \in TaskType /\ r[i].obj = q[i].obj
                           /\ \/ r[i].obj = task.obj /\ r[i].content = task.content
                              \/ r[i] = q[i]
    BY <2>2 DEF TaskType
  <2>4. r \in Seq(TaskType) /\ DOMAIN r = DOMAIN q
    <3>1. DOMAIN q = 1..Len(q) /\ Len(q) \in Nat
      OBVIOUS
    <3>2. r \in [1..Len(q) -> TaskType]
      BY <2>3, <3>1
    <3> HIDE DEF r
    <3> QED
      BY <3>1, <3>2, SeqDef
  <2> HIDE DEF r
  <2> QED
    BY <2>1, <2>3, <2>4
<1>2. CASE ~\E i \in DOMAIN q : q[i].obj = task.obj
  BY <1>2 DEF AddTask
<1> QED
  BY <1>1, <1>2

\* Tasks of a queue stay those of different objects.
LEMMA AddTaskApart ==
    ASSUME NEW q \in Seq(TaskType), NEW task \in TaskType,
           \A i, j \in DOMAIN q : q[i].obj = q[j].obj => i = j
    PROVE  \A i, j \in DOMAIN AddTask(q, task) :
                AddTask(q, task)[i].obj = AddTask(q, task)[j].obj => i = j
<1>1. CASE \E i \in DOMAIN q : q[i].obj = task.obj
  <2>1. DOMAIN AddTask(q, task) = DOMAIN q
    BY <1>1 DEF AddTask
  <2> QED
    BY <2>1, AddTaskIs
<1>2. CASE ~\E i \in DOMAIN q : q[i].obj = task.obj
  <2>1. AddTask(q, task) = Append(q, task)
    BY <1>2 DEF AddTask
  <2>2. /\ Len(q) \in Nat /\ DOMAIN q = 1..Len(q) /\ DOMAIN Append(q, task) = 1..(Len(q) + 1)
        /\ \A i \in DOMAIN q : Append(q, task)[i] = q[i]
        /\ Append(q, task)[Len(q) + 1] = task
    OBVIOUS
  <2>3. \A i \in DOMAIN Append(q, task) : i \in DOMAIN q \/ i = Len(q) + 1
    BY <2>2
  <2> QED
    BY <1>2, <2>1, <2>2, <2>3
<1> QED
  BY <1>1, <1>2

\* A child goes first, when nothing waits.
LEMMA CreatedIs ==
    ASSUME NEW child \in Obj, NEW content \in SUBSET Content, NEW folder \in Obj,
           NEW json \in SUBSET Content, child # folder,
           NEW q, q = Created(<<>>, child, content, folder, json)
    PROVE  /\ q \in Seq(TaskType) /\ DOMAIN q = {1, 2}
           /\ q[1].obj = child /\ q[1].content = content /\ q[1].new
           /\ q[2].obj = folder /\ q[2].content = json \cup {child}
<1> DEFINE t == Task(child, content, TRUE)
           u == Task(folder, Registered(json, child), FALSE)
<1>1. t \in TaskType /\ t.obj = child /\ t.content = content /\ t.new
  BY TaskTypes
<1>2. u \in TaskType /\ u.obj = folder /\ u.content = json \cup {child}
  BY DEF Task, TaskType, Registered, Content
<1>3. Created(<<>>, child, content, folder, json) = AddTask(AddTask(<<>>, t), u)
  BY DEF Created
<1> HIDE DEF t, u
<1>4. AddTask(<<>>, t) = <<t>>
  BY DEF AddTask
<1>5. AddTask(<<t>>, u) = <<t, u>>
  <2>1. ~\E i \in DOMAIN <<t>> : <<t>>[i].obj = u.obj
    BY <1>1, <1>2
  <2>2. Append(<<t>>, u) = <<t, u>>
    BY <1>1, <1>2, AppendPair
  <2> QED
    BY <2>1, <2>2 DEF AddTask
<1>6. <<t, u>> \in Seq(TaskType) /\ DOMAIN <<t, u>> = {1, 2}
  BY <1>1, <1>2
<1>7. <<t, u>>[1] = t /\ <<t, u>>[2] = u
  OBVIOUS
<1>8. q = <<t, u>>
  BY <1>3, <1>4, <1>5
<1> QED
  BY <1>1, <1>2, <1>6, <1>7, <1>8

LEMMA CreatedQueue ==
    ASSUME NEW child \in Obj, NEW content \in SUBSET Content, NEW folder \in Obj,
           NEW json \in SUBSET Content
    PROVE  Created(<<>>, child, content, folder, json) \in Seq(TaskType)
<1> DEFINE t == Task(child, content, TRUE)
           u == Task(folder, Registered(json, child), FALSE)
<1>1. t \in TaskType /\ u \in TaskType
  BY DEF Task, TaskType, Registered, Content
<1>2. Created(<<>>, child, content, folder, json) = AddTask(AddTask(<<>>, t), u)
  BY DEF Created
<1> HIDE DEF t, u
<1>3. AddTask(<<>>, t) \in Seq(TaskType)
  <2>1. <<>> \in Seq(TaskType)
    OBVIOUS
  <2> QED
    BY <1>1, <2>1, AddTaskIs
<1> QED
  BY <1>1, <1>2, <1>3, AddTaskIs

\* The root is the first one, as it waits before its folders are made.
LEMMA NewTreeIs ==
    ASSUME NEW p \in Page
    PROVE  LET q == NewTree(p) IN
           /\ q \in Seq(TaskType) /\ DOMAIN q = {1, 2}
           /\ q[1].obj = Root /\ q[1].content = {Apps(p)}
           /\ q[2].obj = Apps(p) /\ q[2].content = {} /\ q[2].new
<1> DEFINE t == Task(Apps(p), {}, TRUE)
           u == Task(Root, {Apps(p)}, FALSE)
           r == Task(Root, {}, TRUE)
           w == [r EXCEPT !.content = {Apps(p)}]
<1>1. t \in TaskType /\ t.obj = Apps(p) /\ t.content = {} /\ t.new /\ Apps(p) # Root
  <2>1. Apps(p) \in Obj /\ Apps(p) # Root /\ {} \in SUBSET Content
    BY ObjKinds
  <2> QED
    BY <2>1 DEF Task, TaskType
<1>2. u \in TaskType /\ u.obj = Root /\ u.content = {Apps(p)}
  BY ObjKinds DEF Task, TaskType, Content
<1>3. r \in TaskType /\ r.obj = Root
  BY ObjKinds DEF Task, TaskType
<1>4. w \in TaskType /\ w.obj = Root /\ w.content = {Apps(p)}
  BY ObjKinds DEF Task, TaskType, Content
<1>5. NewTree(p) = AddTask(AddTask(<<r>>, t), u)
  BY DEF NewTree, RootTask, Created, EmptyFolderJson, Registered
<1>6. [r EXCEPT !.content = u.content] = w
  BY <1>2
<1> HIDE DEF t, u, r, w
<1>7. AddTask(<<r>>, t) = <<r, t>>
  <2>1. ~\E i \in DOMAIN <<r>> : <<r>>[i].obj = t.obj
    BY <1>1, <1>3
  <2>2. Append(<<r>>, t) = <<r, t>>
    BY <1>1, <1>3, AppendPair
  <2> QED
    BY <2>1, <2>2 DEF AddTask
<1>8. AddTask(<<r, t>>, u) = <<w, t>>
  <2>1. DOMAIN <<r, t>> = {1, 2} /\ <<r, t>>[1] = r /\ <<r, t>>[2] = t
    OBVIOUS
  <2>2. AddTask(<<r, t>>, u) = [i \in {1, 2} |-> IF <<r, t>>[i].obj = u.obj
                        THEN [<<r, t>>[i] EXCEPT !.content = u.content] ELSE <<r, t>>[i]]
    BY <1>2, <1>3, <2>1 DEF AddTask
  <2>3. AddTask(<<r, t>>, u) = [i \in {1, 2} |-> IF i = 1 THEN w ELSE t]
    BY <1>1, <1>2, <1>3, <1>6, <2>1, <2>2
  <2>4. <<w, t>> = [i \in {1, 2} |-> IF i = 1 THEN w ELSE t]
    OBVIOUS
  <2> QED
    BY <2>3, <2>4
<1>9. <<w, t>> \in Seq(TaskType) /\ DOMAIN <<w, t>> = {1, 2}
  BY <1>1, <1>4
<1>10. <<w, t>>[1] = w /\ <<w, t>>[2] = t
  OBVIOUS
<1>11. NewTree(p) = <<w, t>>
  BY <1>5, <1>7, <1>8
<1> QED
  BY <1>1, <1>4, <1>9, <1>10, <1>11

-----------------------------------------------------------------------------
(* What stays                                                               *)

\* An object stays settled, when no request to finalize disappears silently.
LEMMA SettledStays ==
    ASSUME \A o \in Obj : stored[o] # None => stored'[o] # None,
           lost \subseteq lost',
           \A r \in finals : r \in finals' \/ stored'[r.obj] # None \/ r.obj \in lost'
    PROVE  \A c \in Obj : Settled(c) => Settled(c)'
BY DEF Settled


\* A page, with which nothing happens.
LEMMA OthersKept ==
    ASSUME TypeOK, NEW z \in Page, PageKept(z),
           \A c \in Obj : Settled(c) => Settled(c)',
           page'[z] = page[z], queue'[z] = queue[z], cur'[z] = cur[z]
    PROVE  PageKept(z)'
<1>1. Saved(z)' <=> Saved(z)
  BY DEF Saved
<1>2. OnWay(z)'
  <2>1. AllSettled(page[z].keys)'
    BY DEF PageKept, OnWay, AllSettled
  <2>2. page[z].st # "open" => AllSettled(page[z].json)'
    BY DEF PageKept, OnWay, AllSettled
  <2> QED
    BY <2>1, <2>2 DEF PageKept, OnWay
<1>3. RootTasks(z)'
  BY <1>1 DEF PageKept, RootTasks
<1>4. InOrder(z)'
  <2>1. \A c \in Obj : InHand(z, c)' <=> InHand(z, c)
    BY <1>1 DEF InHand
  <2>2. \A i : \A c : Ahead(queue'[z], i, c) <=> Ahead(queue[z], i, c)
    OBVIOUS
  <2> SUFFICES ASSUME NEW i \in DOMAIN queue'[z], queue'[z][i].obj # Root,
                      NEW c \in queue'[z][i].content \cap Obj
               PROVE  \/ Settled(c)'
                      \/ InHand(z, c)'
                      \/ Ahead(queue'[z], i, c)
    BY DEF InOrder
  <2>3. Settled(c) \/ InHand(z, c) \/ Ahead(queue[z], i, c)
    BY DEF PageKept, InOrder
  <2> QED
    BY <2>1, <2>2, <2>3
<1>5. HandSettled(z)'
  BY <1>1 DEF PageKept, HandSettled, AllSettled
<1> QED
  BY <1>2, <1>3, <1>4, <1>5 DEF PageKept

\* Contents on a server.
LEMMA ServerStays ==
    ASSUME ServerKept, stored' = stored, finals' = finals,
           \A c \in Obj : Settled(c) => Settled(c)'
    PROVE  ServerKept'
<1>1. \A content : AllSettled(content) => \A c \in content \cap Obj : Settled(c)'
  BY DEF AllSettled
<1>2. \A r \in finals : r.obj # Root => AllSettled(r.content)'
  BY <1>1 DEF ServerKept, AllSettled
<1>3. \A o \in Obj \ {Root} : stored[o] # None => AllSettled(stored[o])'
  BY <1>1 DEF ServerKept, AllSettled
<1> QED
  BY <1>2, <1>3 DEF ServerKept

\* A step of a page, which does not come to a server.
LEMMA ClientStep ==
    ASSUME IInv, NEW p \in Page, TypeOK', stored' = stored, finals' = finals,
           lost \subseteq lost',
           \A z \in Page \ {p} :
                page'[z] = page[z] /\ queue'[z] = queue[z] /\ cur'[z] = cur[z],
           PageKept(p)'
    PROVE  IInv'
<1>1. \A c \in Obj : Settled(c) => Settled(c)'
  BY SettledStays
<1>2. \A z \in Page : PageKept(z)'
  <2> SUFFICES ASSUME NEW z \in Page, z # p
               PROVE  PageKept(z)'
    OBVIOUS
  <2>1. PageKept(z) /\ TypeOK
    BY DEF IInv
  <2> QED
    BY <1>1, <2>1, OthersKept
<1>3. ServerKept'
  BY <1>1, ServerStays DEF IInv
<1> QED
  BY <1>2, <1>3 DEF IInv

\* A step of a program, that saves nothing.
LEMMA ProgramStep ==
    ASSUME IInv, NEW p \in Page, TypeOK', NEW w,
           page' = [page EXCEPT ![p] = w], queue' = queue, cur' = cur,
           stored' = stored, finals' = finals, lost' = lost,
           OnWay(p)'
    PROVE  IInv'
<1>1. \A c \in Obj : Settled(c) => Settled(c)'
  BY SettledStays
<1>2. PageKept(p)
  BY DEF IInv
<1>3. Saved(p)' <=> Saved(p)
  BY DEF Saved
<1>4. RootTasks(p)'
  BY <1>2, <1>3 DEF PageKept, RootTasks
<1>5. InOrder(p)'
  <2>1. \A c \in Obj : InHand(p, c)' <=> InHand(p, c)
    BY <1>3 DEF InHand
  <2> SUFFICES ASSUME NEW i \in DOMAIN queue'[p], queue'[p][i].obj # Root,
                      NEW c \in queue'[p][i].content \cap Obj
               PROVE  \/ Settled(c)'
                      \/ InHand(p, c)'
                      \/ Ahead(queue'[p], i, c)
    BY DEF InOrder
  <2>2. Settled(c) \/ InHand(p, c) \/ Ahead(queue[p], i, c)
    BY <1>2 DEF PageKept, InOrder
  <2> QED
    BY <1>1, <2>1, <2>2
<1>6. HandSettled(p)'
  BY <1>1, <1>2, <1>3 DEF PageKept, HandSettled, AllSettled
<1>7. PageKept(p)'
  BY <1>4, <1>5, <1>6 DEF PageKept
<1>8. page \in [Page -> PageType]
  BY DEF IInv, TypeOK
<1>9. \A z \in Page \ {p} : page'[z] = page[z]
  BY <1>8
<1> QED
  BY <1>7, <1>9, ClientStep

-----------------------------------------------------------------------------
(* Initial states                                                           *)

LEMMA InitHolds ==
    Init => IInv
<1> SUFFICES ASSUME Init
             PROVE  IInv
  OBVIOUS
<1> USE BoundsAssumption
<1>1. Fresh \in PageType /\ Idle \in CurType
  BY DEF Fresh, Idle, PageType, CurType
<1>2. TypeOK
  <2>1. <<>> \in Seq(TaskType) /\ 0 \in 0..MaxChanges /\ 0 \in 0..MaxFaults
    BY BoundsAssumption
  <2>2. \A p \in Page : cur[p].st = "idle"
    BY DEF Init, Idle
  <2>3. page \in [Page -> PageType] /\ cur \in [Page -> CurType]
    BY <1>1 DEF Init
  <2>4. queue \in [Page -> Seq(TaskType)] /\ stored \in [Obj -> {None} \cup SUBSET Content]
    BY <2>1 DEF Init
  <2> QED
    BY <2>1, <2>2, <2>3, <2>4 DEF Init, TypeOK
<1>3. ASSUME NEW p \in Page
      PROVE  PageKept(p)
  <2>1. page[p] = Fresh /\ queue[p] = <<>> /\ cur[p] = Idle
    BY <1>3 DEF Init
  <2>2. ~Saved(p)
    BY <2>1 DEF Saved, Idle
  <2>3. /\ page[p].st = "none" /\ page[p].json = {} /\ page[p].keys = {}
        /\ DOMAIN queue[p] = {}
    BY <2>1 DEF Fresh
  <2> QED
    BY <2>1, <2>2, <2>3
    DEF PageKept, OnWay, RootTasks, InOrder, HandSettled, AllSettled
<1>4. ServerKept
  BY ObjKinds DEF Init, ServerKept
<1> QED
  BY <1>2, <1>3, <1>4 DEF IInv

-----------------------------------------------------------------------------
(* Steps of programs                                                        *)

\* Types, when a program goes on, and nothing is saved.
LEMMA ProgramTypes ==
    ASSUME TypeOK, NEW p \in Page, NEW w \in PageType,
           page' = [page EXCEPT ![p] = w],
           UNCHANGED <<queue, cur, made, serverVars, lost>>,
           faults' \in 0..MaxFaults, hurt' \in BOOLEAN
    PROVE  TypeOK' /\ page'[p] = w
BY DEF TypeOK, serverVars, CurType

\* A page that ends knows nothing.
LEMMA EndedIs ==
    ASSUME NEW st \in {"failed", "gone"}
    PROVE  LET w == [Fresh EXCEPT !.st = st] IN
           w \in PageType /\ w.st = st /\ w.json = {} /\ w.keys = {}
BY DEF Fresh, PageType

\* A page ends its program, and what it had to save is not touched.
LEMMA EndsHolds ==
    ASSUME IInv, NEW p \in Page, NEW st \in {"failed", "gone"}, Ends(p, st),
           UNCHANGED <<queue, cur, made, serverVars, lost>>,
           faults' \in 0..MaxFaults, hurt' \in BOOLEAN
    PROVE  IInv'
<1> DEFINE w == [Fresh EXCEPT !.st = st]
<1>1. w \in PageType /\ w.st = st /\ w.json = {} /\ w.keys = {}
  BY EndedIs
<1>2. page' = [page EXCEPT ![p] = w]
  BY DEF Ends
<1> HIDE DEF w
<1>3. TypeOK' /\ page'[p] = w
  BY <1>1, <1>2, ProgramTypes DEF IInv
<1>4. OnWay(p)'
  BY <1>1, <1>3 DEF OnWay, AllSettled
<1> QED
  BY <1>2, <1>3, <1>4, ProgramStep DEF serverVars

\* Types of the notes, when they stay.
LEMMA NotesStay ==
    ASSUME TypeOK, UNCHANGED noteVars
    PROVE  faults' \in 0..MaxFaults /\ hurt' \in BOOLEAN /\ lost' = lost
BY DEF TypeOK, noteVars

\* A page that starts may overlap with others.
LEMMA StartsNote ==
    ASSUME TypeOK, NEW p \in Page, Starts(p), UNCHANGED <<faults, lost>>
    PROVE  faults' \in 0..MaxFaults /\ hurt' \in BOOLEAN /\ lost' = lost
BY DEF TypeOK, Starts

\* A failure is counted.
LEMMA FaultNote ==
    ASSUME TypeOK, Fault
    PROVE  faults' \in 0..MaxFaults
BY BoundsAssumption DEF TypeOK, Fault

LEMMA SignedUpHolds ==
    ASSUME IInv, NEW p \in Page, SignedUp(p)
    PROVE  IInv'
BY EndsHolds, NotesStay DEF SignedUp, IInv, noteVars

LEMMA UnknownHolds ==
    ASSUME IInv, NEW p \in Page, Unknown(p)
    PROVE  IInv'
BY EndsHolds, NotesStay DEF Unknown, IInv, noteVars

LEMMA ReadFailsHolds ==
    ASSUME IInv, NEW p \in Page, ReadFails(p)
    PROVE  IInv'
<1>1. hurt' \in BOOLEAN /\ faults' \in 0..MaxFaults
  BY FaultNote DEF ReadFails, IInv, TypeOK
<1> QED
  BY <1>1, EndsHolds DEF ReadFails

LEMMA OpenHolds ==
    ASSUME IInv, NEW p \in Page, Open(p)
    PROVE  IInv'
<1> DEFINE w == [page[p] EXCEPT !.st = "root", !.at = Root]
<1>1. TypeOK /\ PageKept(p) /\ page[p] \in PageType
  BY DEF IInv, TypeOK
<1>2. /\ w \in PageType /\ w.st = "root" /\ w.at = Root
      /\ w.json = page[p].json /\ w.keys = page[p].keys
  BY <1>1, ObjKinds DEF PageType
<1>3. page' = [page EXCEPT ![p] = w]
  BY <1>1 DEF Open, TypeOK
<1> HIDE DEF w
<1>4. UNCHANGED <<queue, cur, made, serverVars, lost>>
  BY DEF Open
<1>5. faults' \in 0..MaxFaults /\ hurt' \in BOOLEAN
  BY <1>1, StartsNote DEF Open
<1>6. TypeOK' /\ page'[p] = w
  BY <1>1, <1>2, <1>3, <1>4, <1>5, ProgramTypes
<1>7. AllSettled(page[p].json)' /\ AllSettled(page[p].keys)' /\ queue'[p] = <<>>
  <2>1. page[p].st = "none"
    BY DEF Open
  <2>2. AllSettled(page[p].json) /\ AllSettled(page[p].keys) /\ queue[p] = <<>>
    BY <1>1, <2>1 DEF PageKept, OnWay
  <2>3. \A c \in Obj : Settled(c) => Settled(c)'
    BY <1>4, SettledStays DEF serverVars
  <2>4. page'[p].json = page[p].json /\ page'[p].keys = page[p].keys
    BY <1>2, <1>6
  <2> QED
    BY <1>4, <2>2, <2>3, <2>4 DEF AllSettled
<1>8. OnWay(p)'
  BY <1>2, <1>6, <1>7 DEF OnWay
<1> QED
  BY <1>3, <1>4, <1>6, <1>8, ProgramStep DEF serverVars

\* Steps down to the keyring, without a need to save anything.
LEMMA GoesDown ==
    ASSUME IInv, NEW p \in Page, NEW w \in PageType,
           page' = [page EXCEPT ![p] = w],
           UNCHANGED <<queue, cur, made, serverVars, noteVars>>,
           AllSettled(w.json), AllSettled(w.keys), queue[p] = <<>>,
           w.st \in {"apps", "ring", "file"} => w.at \in Obj /\ w.at[1] = w.st,
           w.st \in {"closing", "file", "new"} => w.up \in Obj /\ w.up[1] = "ring",
           w.st \in {"file", "open"} => Entries(w.json, "file") # {},
           w.st = "new" => Entries(w.json, "file") = {},
           w.st # "root"
    PROVE  IInv'
<1>1. TypeOK /\ faults' \in 0..MaxFaults /\ hurt' \in BOOLEAN /\ lost' = lost
  BY NotesStay DEF IInv
<1>2. TypeOK' /\ page'[p] = w
  BY <1>1, ProgramTypes
<1>3. \A c \in Obj : Settled(c) => Settled(c)'
  BY <1>1, SettledStays DEF serverVars
<1>4. AllSettled(page[p].json)' /\ AllSettled(page[p].keys)'
  BY <1>2, <1>3 DEF AllSettled
<1>5. OnWay(p)'
  BY <1>2, <1>4 DEF OnWay
<1> QED
  BY <1>1, <1>2, <1>5, ProgramStep DEF serverVars

\* A folder that came has its children settled, if it is not the root.
LEMMA FolderSettled ==
    ASSUME IInv, NEW o \in Obj, stored[o] # None
    PROVE  /\ stored[o] \in SUBSET Content
           /\ o # Root => AllSettled(stored[o])
           /\ o = Root => HasApps(stored[o])
BY DEF IInv, TypeOK, ServerKept

LEMMA RootComesHolds ==
    ASSUME IInv, NEW p \in Page, RootComes(p)
    PROVE  IInv'
<1> DEFINE e == Entry(Json(p), "apps")
           w == [page[p] EXCEPT !.st = "apps", !.at = e]
<1>1. TypeOK /\ PageKept(p) /\ page[p] \in PageType
  BY DEF IInv, TypeOK
<1>2. page[p].st = "root" /\ page[p].at = Root /\ stored[Root] # None
  BY <1>1 DEF RootComes, Comes, PageKept, OnWay
<1>3. e \in Obj /\ e[1] = "apps"
  <2>1. Json(p) \in SUBSET Content /\ Entries(Json(p), "apps") # {}
    BY <1>2, ObjKinds, FolderSettled DEF Json, HasApps
  <2> QED
    BY <2>1, EntryIs
<1>4. page' = [page EXCEPT ![p] = w] /\ UNCHANGED <<queue, cur, made, serverVars, noteVars>>
  BY <1>1 DEF RootComes, TypeOK
<1> HIDE DEF e
<1>5. /\ w \in PageType /\ w.st = "apps" /\ w.at = e
      /\ w.json = page[p].json /\ w.keys = page[p].keys
  BY <1>1, <1>3 DEF PageType
<1> HIDE DEF w
<1>6. AllSettled(w.json) /\ AllSettled(w.keys) /\ queue[p] = <<>>
  BY <1>1, <1>2, <1>5 DEF PageKept, OnWay
<1> QED
  BY <1>3, <1>4, <1>5, <1>6, GoesDown

LEMMA RingComesHolds ==
    ASSUME IInv, NEW p \in Page, RingComes(p)
    PROVE  IInv'
<1> DEFINE o == page[p].at
           w == [page[p] EXCEPT !.st = "closing", !.up = o, !.json = stored[o]]
<1>1. TypeOK /\ PageKept(p) /\ page[p] \in PageType
  BY DEF IInv, TypeOK
<1>2. page[p].st = "ring" /\ o \in Obj /\ o[1] = "ring" /\ stored[o] # None
  BY <1>1 DEF RingComes, Comes, PageKept, OnWay
<1>3. stored[o] \in SUBSET Content /\ AllSettled(stored[o])
  BY <1>2, ObjKinds, FolderSettled
<1>4. page' = [page EXCEPT ![p] = w] /\ UNCHANGED <<queue, cur, made, serverVars, noteVars>>
  BY <1>1 DEF RingComes, TypeOK, Json
<1>5. /\ w \in PageType /\ w.st = "closing" /\ w.up = o
      /\ w.json = stored[o] /\ w.keys = page[p].keys
  BY <1>1, <1>2, <1>3 DEF PageType
<1>6. AllSettled(page[p].keys) /\ queue[p] = <<>>
  BY <1>1, <1>2 DEF PageKept, OnWay
<1> HIDE DEF w
<1>7. w.up \in Obj /\ w.up[1] = "ring" /\ AllSettled(w.json) /\ AllSettled(w.keys)
  BY <1>2, <1>3, <1>5, <1>6
<1> QED
  BY <1>4, <1>5, <1>6, <1>7, GoesDown

LEMMA FileComesHolds ==
    ASSUME IInv, NEW p \in Page, FileComes(p)
    PROVE  IInv'
<1> DEFINE o == page[p].at
           w == [page[p] EXCEPT !.st = "open", !.keys = stored[o]]
<1>1. TypeOK /\ PageKept(p) /\ page[p] \in PageType
  BY DEF IInv, TypeOK
<1>2. page[p].st = "file" /\ o \in Obj /\ o[1] = "file" /\ stored[o] # None
  BY <1>1 DEF FileComes, Comes, PageKept, OnWay
<1>3. stored[o] \in SUBSET Content /\ AllSettled(stored[o])
  BY <1>2, ObjKinds, FolderSettled
<1>4. page' = [page EXCEPT ![p] = w] /\ UNCHANGED <<queue, cur, made, serverVars, noteVars>>
  BY <1>1 DEF FileComes, TypeOK, Loaded
<1>5. /\ w \in PageType /\ w.st = "open" /\ w.json = page[p].json /\ w.keys = stored[o]
  BY <1>1, <1>3 DEF PageType
<1>6. AllSettled(page[p].json) /\ queue[p] = <<>> /\ Entries(page[p].json, "file") # {}
  BY <1>1, <1>2 DEF PageKept, OnWay
<1> HIDE DEF w
<1>7. AllSettled(w.json) /\ AllSettled(w.keys) /\ Entries(w.json, "file") # {}
  BY <1>3, <1>5, <1>6
<1> QED
  BY <1>4, <1>5, <1>6, <1>7, GoesDown

LEMMA LoadHolds ==
    ASSUME IInv, NEW p \in Page, Load(p)
    PROVE  IInv'
<1> DEFINE json == page[p].json
           st == IF Entries(json, "file") = {} THEN "new" ELSE "file"
           at == IF Entries(json, "file") = {} THEN None ELSE Entry(json, "file")
           w == [page[p] EXCEPT !.st = st, !.at = at]
<1>1. TypeOK /\ PageKept(p) /\ page[p] \in PageType
  BY DEF IInv, TypeOK
<1>2. page[p].st = "closing" /\ json \in SUBSET Content /\ queue[p] = <<>>
  BY <1>1 DEF Load, Closed, PageType
<1>3. /\ st \in {"new", "file"} /\ at \in Obj \cup {None}
      /\ st = "file" => at \in Obj /\ at[1] = "file" /\ Entries(json, "file") # {}
      /\ st = "new" => Entries(json, "file") = {}
  BY <1>2, EntryIs
<1>4. page' = [page EXCEPT ![p] = w] /\ UNCHANGED <<queue, cur, made, serverVars, noteVars>>
  BY <1>1 DEF Load, TypeOK
<1> HIDE DEF st, at
<1>5. /\ w \in PageType /\ w.st = st /\ w.at = at /\ w.json = page[p].json
      /\ w.keys = page[p].keys /\ w.up = page[p].up
  BY <1>1, <1>3 DEF PageType
<1> HIDE DEF w
<1>6. /\ AllSettled(w.json) /\ AllSettled(w.keys) /\ w.up \in Obj /\ w.up[1] = "ring"
  BY <1>1, <1>2, <1>5 DEF PageKept, OnWay
<1> QED
  BY <1>2, <1>3, <1>4, <1>5, <1>6, GoesDown

-----------------------------------------------------------------------------
(* Steps that change queues                                                 *)

\* A queue gets tasks, with children being ahead of folders.
LEMMA QueueStep ==
    ASSUME IInv, NEW p \in Page, NEW w \in PageType, NEW q \in Seq(TaskType),
           NEW k \in CurType, k = cur[p] \/ k.st \notin {"start", "put"},
           page' = [page EXCEPT ![p] = w],
           queue' = [queue EXCEPT ![p] = q],
           cur' = [cur EXCEPT ![p] = k],
           made' \in 0..MaxChanges, faults' \in 0..MaxFaults, hurt' \in BOOLEAN,
           UNCHANGED <<serverVars, lost>>,
           w.st \in {"signing", "closing", "open", "gone"},
           w.st = "closing" => w.up \in Obj /\ w.up[1] = "ring",
           w.st = "open" => Entries(w.json, "file") # {},
           w.st # "open" => AllSettled(w.json),
           AllSettled(w.keys),
           \A i \in DOMAIN q : q[i].obj = Root => HasApps(q[i].content),
           \A i \in DOMAIN q : q[i].obj # Root => \A c \in q[i].content \cap Obj :
                Settled(c) \/ (InHand(p, c) /\ k = cur[p]) \/ Ahead(q, i, c)
    PROVE  IInv'
<1>1. TypeOK /\ PageKept(p)
  BY DEF IInv
<1>2. page'[p] = w /\ queue'[p] = q /\ cur'[p] = k
  BY <1>1 DEF TypeOK
<1>3. TypeOK'
  <2>1. page' \in [Page -> PageType] /\ cur' \in [Page -> CurType]
    BY <1>1 DEF TypeOK
  <2>2. queue' \in [Page -> Seq(TaskType)]
    BY <1>1 DEF TypeOK
  <2>3. \A z \in Page : cur'[z].st \in {"start", "put"} => cur'[z].task \in TaskType
    BY <1>1 DEF TypeOK
  <2>4. /\ stored' \in [Obj -> {None} \cup SUBSET Content]
        /\ finals' \subseteq FinalType
        /\ locked' \subseteq Obj /\ lost' \subseteq Obj
    BY <1>1 DEF TypeOK, serverVars
  <2> QED
    BY <2>1, <2>2, <2>3, <2>4 DEF TypeOK
<1>4. \A c \in Obj : Settled(c) => Settled(c)'
  BY SettledStays DEF serverVars
<1>5. OnWay(p)'
  <2>1. AllSettled(page[p].keys)' /\ (w.st # "open" => AllSettled(page[p].json)')
    BY <1>2, <1>4 DEF AllSettled
  <2> QED
    BY <1>2, <2>1 DEF OnWay
<1>6. Saved(p)' => Saved(p) /\ k = cur[p]
  BY <1>2 DEF Saved
<1>7. RootTasks(p)'
  BY <1>1, <1>2, <1>6 DEF PageKept, RootTasks
<1>8. InOrder(p)'
  <2>1. \A c \in Obj : InHand(p, c) /\ k = cur[p] => InHand(p, c)'
    BY <1>2 DEF InHand, Saved
  <2> SUFFICES ASSUME NEW i \in DOMAIN queue'[p], queue'[p][i].obj # Root,
                      NEW c \in queue'[p][i].content \cap Obj
               PROVE  \/ Settled(c)'
                      \/ InHand(p, c)'
                      \/ Ahead(queue'[p], i, c)
    BY DEF InOrder
  <2>2. Settled(c) \/ (InHand(p, c) /\ k = cur[p]) \/ Ahead(q, i, c)
    BY <1>2
  <2> QED
    BY <1>2, <1>4, <2>1, <2>2
<1>9. HandSettled(p)'
  BY <1>1, <1>2, <1>4, <1>6 DEF PageKept, HandSettled, AllSettled
<1>10. PageKept(p)'
  BY <1>5, <1>7, <1>8, <1>9 DEF PageKept
<1>11. \A z \in Page \ {p} :
            page'[z] = page[z] /\ queue'[z] = queue[z] /\ cur'[z] = cur[z]
  BY <1>1 DEF TypeOK
<1> QED
  BY <1>3, <1>10, <1>11, ClientStep DEF serverVars

\* A queue with a child, and with a folder after it.
LEMMA PairInOrder ==
    ASSUME NEW q, DOMAIN q = {1, 2}, NEW child, NEW json,
           AllSettled(q[1].content), q[2].content = json \cup {child},
           AllSettled(json), q[1].obj = child
    PROVE  \A i \in DOMAIN q : \A c \in q[i].content \cap Obj :
                Settled(c) \/ Ahead(q, i, c)
<1>1. \A c \in q[1].content \cap Obj : Settled(c)
  BY DEF AllSettled
<1>2. \A c \in q[2].content \cap Obj : Settled(c) \/ c = child
  BY DEF AllSettled
<1>3. Ahead(q, 2, child)
  BY DEF Ahead
<1> QED
  BY <1>1, <1>2, <1>3

\* A root waits with its system folder listed.
LEMMA SignUpHolds ==
    ASSUME IInv, NEW p \in Page, SignUp(p)
    PROVE  IInv'
<1> DEFINE w == [page[p] EXCEPT !.st = "signing"]
           q == NewTree(p)
           k == cur[p]
<1>1. TypeOK /\ PageKept(p) /\ page[p] \in PageType /\ k \in CurType
  BY DEF IInv, TypeOK
<1>2. /\ w \in PageType /\ w.st = "signing" /\ w.json = page[p].json
      /\ w.keys = page[p].keys
  BY <1>1 DEF PageType
<1>3. AllSettled(w.json) /\ AllSettled(w.keys)
  <2>1. page[p].st = "none"
    BY DEF SignUp
  <2> QED
    BY <1>1, <1>2, <2>1 DEF PageKept, OnWay
<1>4. page' = [page EXCEPT ![p] = w] /\ queue' = [queue EXCEPT ![p] = q]
  BY <1>1 DEF SignUp, TypeOK
<1>5. cur' = [cur EXCEPT ![p] = k]
  BY <1>1 DEF SignUp, TypeOK
<1>6. /\ made' \in 0..MaxChanges /\ faults' \in 0..MaxFaults /\ hurt' \in BOOLEAN
      /\ UNCHANGED <<serverVars, lost>>
  BY <1>1, StartsNote DEF SignUp, TypeOK
<1>7. /\ q \in Seq(TaskType) /\ DOMAIN q = {1, 2}
      /\ q[1].obj = Root /\ q[1].content = {Apps(p)}
      /\ q[2].obj = Apps(p) /\ q[2].content = {}
  BY NewTreeIs
<1> HIDE DEF w, q, k
<1>8. HasApps(q[1].content) /\ q[2].obj # Root
  BY <1>7, ObjKinds DEF HasApps, Entries
<1>9. \A i \in DOMAIN q : q[i].obj = Root => HasApps(q[i].content)
  BY <1>7, <1>8
<1>10. \A i \in DOMAIN q : q[i].obj # Root => \A c \in q[i].content \cap Obj :
            Settled(c) \/ (InHand(p, c) /\ k = cur[p]) \/ Ahead(q, i, c)
  BY <1>7
<1>11. k = cur[p]
  BY DEF k
<1> QED
  BY <1>1, <1>2, <1>3, <1>4, <1>5, <1>6, <1>7, <1>9, <1>10, <1>11, QueueStep

\* A missing keyring's folder is made, and goes before a folder that lists it.
LEMMA AppsComesHolds ==
    ASSUME IInv, NEW p \in Page, AppsComes(p)
    PROVE  IInv'
<1> DEFINE o == page[p].at
           json == stored[o]
<1>1. TypeOK /\ PageKept(p) /\ page[p] \in PageType
  BY DEF IInv, TypeOK
<1>2. /\ page[p].st = "apps" /\ o \in Obj /\ o[1] = "apps" /\ stored[o] # None
      /\ queue[p] = <<>> /\ AllSettled(page[p].json) /\ AllSettled(page[p].keys)
  BY <1>1 DEF AppsComes, Comes, PageKept, OnWay
<1>3. json \in SUBSET Content /\ AllSettled(json)
  BY <1>2, ObjKinds, FolderSettled
<1>4. CASE Entries(json, "ring") # {}
  <2> DEFINE e == Entry(json, "ring")
             w == [page[p] EXCEPT !.st = "ring", !.at = e]
  <2>1. e \in Obj /\ e[1] = "ring"
    BY <1>3, <1>4, EntryIs
  <2>2. page' = [page EXCEPT ![p] = w] /\ UNCHANGED <<queue, cur, made, serverVars, noteVars>>
    BY <1>1, <1>4 DEF AppsComes, TypeOK, Json
  <2> HIDE DEF e
  <2>3. /\ w \in PageType /\ w.st = "ring" /\ w.at = e
        /\ w.json = page[p].json /\ w.keys = page[p].keys
    BY <1>1, <2>1 DEF PageType
  <2> HIDE DEF w
  <2>4. AllSettled(w.json) /\ AllSettled(w.keys)
    BY <1>2, <2>3
  <2> QED
    BY <1>2, <2>1, <2>2, <2>3, <2>4, GoesDown
<1>5. CASE Entries(json, "ring") = {}
  <2> DEFINE w == [page[p] EXCEPT !.st = "closing", !.up = Ring(p)]
             q == Created(<<>>, Ring(p), {}, o, json)
             k == cur[p]
  <2>1. /\ page' = [page EXCEPT ![p] = w] /\ queue' = [queue EXCEPT ![p] = q]
        /\ UNCHANGED <<cur, made, serverVars, noteVars>>
    BY <1>1, <1>2, <1>5 DEF AppsComes, TypeOK, Json, EmptyFolderJson
  <2>2. /\ w \in PageType /\ w.st = "closing" /\ w.up = Ring(p)
        /\ w.json = page[p].json /\ w.keys = page[p].keys
    BY <1>1, ObjKinds DEF PageType
  <2>3. Ring(p) \in Obj /\ Ring(p)[1] = "ring" /\ Ring(p) # o /\ Ring(p) # Root
    BY <1>2, ObjKinds
  <2>4. /\ q \in Seq(TaskType) /\ DOMAIN q = {1, 2}
        /\ q[1].obj = Ring(p) /\ q[1].content = {}
        /\ q[2].obj = o /\ q[2].content = json \cup {Ring(p)}
    <3>1. {} \in SUBSET Content /\ q = Created(<<>>, Ring(p), {}, o, json)
      OBVIOUS
    <3> HIDE DEF json, o, q
    <3>2. Ring(p) \in Obj /\ o \in Obj /\ Ring(p) # o /\ json \in SUBSET Content
      BY <1>2, <1>3, <2>3
    <3> DEFINE r == Ring(p)
               n == {}
    <3>3. /\ r \in Obj /\ o \in Obj /\ r # o
          /\ n \in SUBSET Content /\ json \in SUBSET Content
          /\ q = Created(<<>>, r, n, o, json)
      BY <3>1, <3>2
    <3> HIDE DEF r, n
    <3>4. /\ DOMAIN q = {1, 2} /\ q[1].obj = r /\ q[1].content = n
          /\ q[2].obj = o /\ q[2].content = json \cup {r}
      BY <3>3, CreatedIs
    <3>5. q \in Seq(TaskType)
      BY <3>3, CreatedQueue
    <3> QED
      BY <3>4, <3>5 DEF r, n
  <2>5. /\ k \in CurType /\ k = cur[p] /\ cur' = [cur EXCEPT ![p] = k]
        /\ made' \in 0..MaxChanges /\ faults' \in 0..MaxFaults /\ hurt' \in BOOLEAN
        /\ UNCHANGED <<serverVars, lost>>
    BY <1>1, <2>1, NotesStay DEF TypeOK
  <2> HIDE DEF w, q, k, json
  <2>6. AllSettled(w.json) /\ AllSettled(w.keys) /\ AllSettled({})
    BY <1>2, <2>2 DEF AllSettled
  <2>7. o # Root
    BY <1>2, ObjKinds
  <2>8. \A i \in DOMAIN q : q[i].obj # Root
    BY <2>3, <2>4, <2>7
  <2>9. \A i \in DOMAIN q : \A c \in q[i].content \cap Obj : Settled(c) \/ Ahead(q, i, c)
    BY <1>3, <2>4, <2>6, PairInOrder
  <2>10. \A i \in DOMAIN q : q[i].obj # Root => \A c \in q[i].content \cap Obj :
            Settled(c) \/ (InHand(p, c) /\ k = cur[p]) \/ Ahead(q, i, c)
    BY <2>9
  <2>11. \A i \in DOMAIN q : q[i].obj = Root => HasApps(q[i].content)
    BY <2>8
  <2>12. w.st # "open" /\ w.up \in Obj /\ w.up[1] = "ring"
    BY <2>2, <2>3
  <2> QED
    BY <2>1, <2>2, <2>4, <2>5, <2>6, <2>10, <2>11, <2>12, QueueStep
<1> QED
  BY <1>4, <1>5

\* Queue of a closed page is emptied, and a file system starts none of it.
LEMMA LeaveHolds ==
    ASSUME IInv, NEW p \in Page, Leave(p)
    PROVE  IInv'
<1> DEFINE w == [Fresh EXCEPT !.st = "gone"]
           q == <<>>
           k == Idle
<1>1. TypeOK
  BY DEF IInv
<1>2. w \in PageType /\ w.st = "gone" /\ w.json = {} /\ w.keys = {}
  BY EndedIs
<1>3. /\ q \in Seq(TaskType) /\ DOMAIN q = {}
      /\ k \in CurType /\ k.st \notin {"start", "put"}
  BY DEF Idle, CurType
<1>4. /\ page' = [page EXCEPT ![p] = w] /\ queue' = [queue EXCEPT ![p] = q]
      /\ cur' = [cur EXCEPT ![p] = k] /\ UNCHANGED <<serverVars, lost>>
  BY DEF Leave, Ends, noteVars
<1>5. made' \in 0..MaxChanges /\ faults' \in 0..MaxFaults /\ hurt' \in BOOLEAN
  BY <1>1, NotesStay DEF Leave, TypeOK
<1> HIDE DEF w, q, k
<1>6. AllSettled(w.json) /\ AllSettled(w.keys)
  BY <1>2 DEF AllSettled
<1> QED
  BY <1>2, <1>3, <1>4, <1>5, <1>6, QueueStep

\* A process, that was stopped, is started with a new task.
LEMMA WokenIs ==
    ASSUME TypeOK, NEW p \in Page
    PROVE  LET k == IF cur[p].st = "stopped" THEN Idle ELSE cur[p] IN
           k \in CurType /\ (k = cur[p] \/ k.st \notin {"start", "put"})
BY DEF TypeOK, Idle, CurType


\* The first save makes a file, and goes before a folder with it.  Later ones put
\* a new keyring into a place of a task, that waits, or to the end of the queue.
LEMMA SaveRingHolds ==
    ASSUME IInv, NEW p \in Page, SaveRing(p)
    PROVE  IInv'
<1> DEFINE ch == <<"change", made + 1>>
           keys == page[p].keys \cup {ch}
           json == page[p].json
           k == IF cur[p].st = "stopped" THEN Idle ELSE cur[p]
<1>1. TypeOK /\ PageKept(p) /\ page[p] \in PageType /\ queue[p] \in Seq(TaskType)
  BY DEF IInv, TypeOK
<1>2. page[p].st \in {"new", "open"} /\ made < MaxChanges /\ made \in Nat
  BY <1>1 DEF SaveRing, TypeOK
<1>3. /\ made' \in 0..MaxChanges /\ faults' \in 0..MaxFaults /\ hurt' \in BOOLEAN
      /\ UNCHANGED <<serverVars, lost>>
  BY <1>1, <1>2, NotesStay, BoundsAssumption DEF SaveRing, TypeOK
<1>4. ch \in Change /\ ch \notin Obj
  <2>1. ch \in Change
    BY <1>2, BoundsAssumption DEF Change
  <2> QED
    BY <2>1, ObjKinds
<1> HIDE DEF ch
<1>5. keys \in SUBSET Content /\ AllSettled(keys)
  BY <1>1, <1>4 DEF PageType, PageKept, OnWay, AllSettled, Content
<1>6. json \in SUBSET Content
  BY <1>1 DEF PageType
<1>7. k \in CurType /\ (k = cur[p] \/ k.st \notin {"start", "put"})
  BY <1>1, WokenIs
<1>8. cur' = [cur EXCEPT ![p] = k]
  BY DEF SaveRing
<1>9. CASE Entries(json, "file") = {}
  <2> DEFINE f == File(p)
             up == page[p].up
             w == [page[p] EXCEPT !.st = "open", !.keys = keys, !.json = json \cup {f}]
             q == Created(<<>>, f, keys, up, json)
  <2>1. /\ page[p].st = "new" /\ queue[p] = <<>> /\ up \in Obj /\ up[1] = "ring"
        /\ AllSettled(json)
    BY <1>1, <1>2, <1>9 DEF PageKept, OnWay
  <2>2. page' = [page EXCEPT ![p] = w] /\ queue' = [queue EXCEPT ![p] = q]
    BY <1>1, <1>9, <2>1 DEF SaveRing, TypeOK, Registered, ch
  <2>3. f \in Obj /\ f[1] = "file" /\ f # up /\ f # Root /\ up # Root
    BY <2>1, ObjKinds
  <2>4. /\ w \in PageType /\ w.st = "open" /\ w.keys = keys /\ w.json = json \cup {f}
    BY <1>1, <1>5, <1>6, <2>3 DEF PageType, Content
  <2>5. Entries(w.json, "file") # {}
    BY <2>3, <2>4 DEF Entries
  <2>6. q = Created(<<>>, f, keys, up, json)
    OBVIOUS
  <2> HIDE DEF f, up, w, q, keys, json
  <2>7. /\ q \in Seq(TaskType) /\ DOMAIN q = {1, 2} /\ q[1].obj = f /\ q[1].content = keys
        /\ q[2].obj = up /\ q[2].content = json \cup {f}
    <3>1. /\ f \in Obj /\ keys \in SUBSET Content /\ up \in Obj /\ json \in SUBSET Content
          /\ f # up
      BY <1>5, <1>6, <2>1, <2>3
    <3> QED
      BY <2>6, <3>1, CreatedIs
  <2>8. \A i \in DOMAIN q : \A c \in q[i].content \cap Obj : Settled(c) \/ Ahead(q, i, c)
    BY <1>5, <2>1, <2>7, PairInOrder
  <2>9. \A i \in DOMAIN q : q[i].obj # Root
    BY <2>3, <2>7
  <2>10. \A i \in DOMAIN q : q[i].obj # Root => \A c \in q[i].content \cap Obj :
            Settled(c) \/ (InHand(p, c) /\ k = cur[p]) \/ Ahead(q, i, c)
    BY <2>8
  <2>11. \A i \in DOMAIN q : q[i].obj = Root => HasApps(q[i].content)
    BY <2>9
  <2>12. AllSettled(w.keys)
    BY <1>5, <2>4
  <2> HIDE DEF k
  <2>13. w \in PageType /\ q \in Seq(TaskType) /\ w.st = "open"
    BY <2>4, <2>7
  <2> QED
    BY <1>3, <1>7, <1>8, <2>2, <2>5, <2>10, <2>11, <2>12, <2>13, QueueStep
<1>10. CASE Entries(json, "file") # {}
  <2> DEFINE f == Entry(json, "file")
             t == Task(f, keys, FALSE)
             o == queue[p]
             w == [page[p] EXCEPT !.keys = keys]
             q == AddTask(o, t)
  <2>1. f \in Obj /\ f[1] = "file" /\ f # Root
    BY <1>6, <1>10, EntryIs, ObjKinds
  <2>2. page' = [page EXCEPT ![p] = w] /\ queue' = [queue EXCEPT ![p] = q]
    BY <1>1, <1>10 DEF SaveRing, TypeOK, ch
  <2>3. /\ w \in PageType /\ w.st = page[p].st /\ w.keys = keys /\ w.json = json
        /\ w.up = page[p].up
    BY <1>1, <1>5 DEF PageType
  <2>4. FALSE \in BOOLEAN
    OBVIOUS
  <2>5. t = Task(f, keys, FALSE) /\ q = AddTask(o, t) /\ o \in Seq(TaskType)
    BY <1>1
  <2>6. w.st = "open"
    BY <1>1, <1>2, <1>10, <2>3 DEF PageKept, OnWay
  <2>7. /\ \A i \in DOMAIN o : o[i].obj = Root => HasApps(o[i].content)
        /\ \A i \in DOMAIN o : o[i].obj # Root => \A c \in o[i].content \cap Obj :
            Settled(c) \/ InHand(p, c) \/ Ahead(o, i, c)
    BY <1>1 DEF PageKept, RootTasks, InOrder
  <2>8. \A c \in Obj : InHand(p, c) => k = cur[p]
    BY DEF InHand, Saved
  <2> HIDE DEF f, t, o, w, q, k, keys, json
  <2>9. t \in TaskType /\ t.obj = f /\ t.content = keys
    BY <1>5, <2>1, <2>4, <2>5, TaskTypes
  <2>10. /\ q \in Seq(TaskType) /\ DOMAIN o \subseteq DOMAIN q
         /\ \A i \in DOMAIN o : q[i].obj = o[i].obj
         /\ \A i \in DOMAIN q : \/ q[i].obj = t.obj /\ q[i].content = t.content
                                \/ i \in DOMAIN o /\ q[i] = o[i]
    BY <2>5, <2>9, AddTaskIs
  <2>11. \A i \in DOMAIN q : q[i].obj = Root => HasApps(q[i].content)
    BY <2>1, <2>7, <2>9, <2>10
  <2>12. ASSUME NEW i \in DOMAIN q, q[i].obj # Root, NEW c \in q[i].content \cap Obj
         PROVE  Settled(c) \/ (InHand(p, c) /\ k = cur[p]) \/ Ahead(q, i, c)
    <3>1. CASE q[i].obj = t.obj /\ q[i].content = t.content
      BY <1>5, <2>9, <2>12, <3>1 DEF AllSettled
    <3>2. CASE i \in DOMAIN o /\ q[i] = o[i]
      <4>1. Settled(c) \/ InHand(p, c) \/ Ahead(o, i, c)
        BY <2>7, <2>12, <3>2
      <4>2. Ahead(o, i, c) => Ahead(q, i, c)
        <5>1. DOMAIN o = 1..Len(o) /\ Len(o) \in Nat
          BY <2>5
        <5>2. 1..(i - 1) \subseteq DOMAIN o
          BY <3>2, <5>1
        <5> QED
          BY <2>10, <5>2 DEF Ahead
      <4> QED
        BY <2>8, <4>1, <4>2
    <3> QED
      BY <2>10, <3>1, <3>2
  <2>13. AllSettled(w.keys) /\ Entries(w.json, "file") # {}
    BY <1>5, <1>10, <2>3
  <2> QED
    BY <1>3, <1>7, <1>8, <2>2, <2>3, <2>6, <2>10, <2>11, <2>12, <2>13, QueueStep
<1> QED
  BY <1>9, <1>10

-----------------------------------------------------------------------------
(* Saving                                                                   *)

\* Places of tasks, when the first one is taken.
LEMMA TailIs ==
    ASSUME NEW q \in Seq(TaskType), q # <<>>
    PROVE  /\ Head(q) \in TaskType /\ Head(q) = q[1] /\ 1 \in DOMAIN q
           /\ Tail(q) \in Seq(TaskType)
           /\ \A i \in DOMAIN Tail(q) :
                i \in Nat /\ i + 1 \in DOMAIN q /\ Tail(q)[i] = q[i + 1]
           /\ \A j : j \in DOMAIN q /\ j # 1 => j - 1 \in DOMAIN Tail(q)
           /\ DOMAIN q = 1..Len(q) /\ Len(q) \in Nat
<1>1. Tail(q) \in Seq(TaskType) /\ Len(Tail(q)) = Len(q) - 1 /\ Len(q) \in Nat \ {0}
  BY EmptySeq
<1>2. \A i \in 1..Len(Tail(q)) : Tail(q)[i] = q[i + 1]
  BY <1>1
<1>3. DOMAIN q = 1..Len(q) /\ DOMAIN Tail(q) = 1..Len(Tail(q))
  BY <1>1
<1>4. q[1] \in TaskType /\ Head(q) = q[1]
  BY <1>1, <1>3
<1> QED
  BY <1>1, <1>2, <1>3, <1>4

\* The first task is taken: its children are settled, and it is itself in hand for
\* tasks behind it.
LEMMA TakeTaskHolds ==
    ASSUME IInv, NEW p \in Page, TakeTask(p)
    PROVE  IInv'
<1> DEFINE q == queue[p]
           h == Head(q)
           r == Tail(q)
<1>1. TypeOK /\ PageKept(p) /\ q \in Seq(TaskType)
  BY DEF IInv, TypeOK
<1>2. q # <<>> /\ cur[p] = Idle
  BY DEF TakeTask
<1>3. /\ h \in TaskType /\ h = q[1] /\ 1 \in DOMAIN q /\ r \in Seq(TaskType)
      /\ \A i \in DOMAIN r : i \in Nat /\ i + 1 \in DOMAIN q /\ r[i] = q[i + 1]
      /\ \A j : j \in DOMAIN q /\ j # 1 => j - 1 \in DOMAIN r
      /\ DOMAIN q = 1..Len(q) /\ Len(q) \in Nat
  BY <1>1, <1>2, TailIs
<1>4. /\ cur' = [cur EXCEPT ![p] = [st |-> "start", task |-> h]]
      /\ queue' = [queue EXCEPT ![p] = r]
      /\ UNCHANGED <<page, made, serverVars, noteVars>>
  BY DEF TakeTask
<1> HIDE DEF h, r
<1>5. /\ page'[p] = page[p] /\ queue'[p] = r
      /\ cur'[p].st = "start" /\ cur'[p].task = h
      /\ \A z \in Page \ {p} :
            page'[z] = page[z] /\ queue'[z] = queue[z] /\ cur'[z] = cur[z]
  BY <1>1, <1>4 DEF TypeOK
<1>6. TypeOK'
  <2>1. cur' \in [Page -> CurType] /\ queue' \in [Page -> Seq(TaskType)]
    BY <1>1, <1>3, <1>4 DEF TypeOK, CurType
  <2>2. \A z \in Page : cur'[z].st \in {"start", "put"} => cur'[z].task \in TaskType
    BY <1>1, <1>3, <1>5 DEF TypeOK
  <2> QED
    BY <1>1, <1>4, <2>1, <2>2 DEF TypeOK, serverVars, noteVars
<1>7. ~Saved(p) /\ Saved(p)'
  BY <1>2, <1>5 DEF Saved, Idle
<1>8. \A c \in Obj : Settled(c) => Settled(c)'
  BY <1>4, SettledStays DEF serverVars, noteVars
<1>9. \A i \in DOMAIN q : q[i].obj # Root => \A c \in q[i].content \cap Obj :
            Settled(c) \/ Ahead(q, i, c)
  BY <1>1, <1>7 DEF PageKept, InOrder, InHand
<1>10. OnWay(p)'
  <2>1. page[p].st \notin {"none", "root", "apps", "ring", "file", "new"}
    BY <1>1, <1>2 DEF PageKept, OnWay
  <2>2. AllSettled(page[p].keys)' /\ (page[p].st # "open" => AllSettled(page[p].json)')
    BY <1>1, <1>5, <1>8 DEF PageKept, OnWay, AllSettled
  <2> QED
    BY <1>1, <1>5, <2>1, <2>2 DEF PageKept, OnWay
<1>11. RootTasks(p)'
  <2>1. \A i \in DOMAIN q : q[i].obj = Root => HasApps(q[i].content)
    BY <1>1 DEF PageKept, RootTasks
  <2>2. h.obj = Root => HasApps(h.content)
    BY <1>3, <2>1
  <2>3. \A i \in DOMAIN r : r[i].obj = Root => HasApps(r[i].content)
    BY <1>3, <2>1
  <2> QED
    BY <1>5, <2>2, <2>3 DEF RootTasks
<1>12. InOrder(p)'
  <2> SUFFICES ASSUME NEW i \in DOMAIN r, r[i].obj # Root,
                      NEW c \in r[i].content \cap Obj
               PROVE  \/ Settled(c)'
                      \/ InHand(p, c)'
                      \/ Ahead(r, i, c)
    BY <1>5 DEF InOrder
  <2>1. i \in Nat /\ i + 1 \in DOMAIN q /\ r[i] = q[i + 1]
    BY <1>3
  <2>2. Settled(c) \/ Ahead(q, i + 1, c)
    BY <1>9, <2>1
  <2>3. CASE Settled(c)
    BY <1>8, <2>3
  <2>4. CASE Ahead(q, i + 1, c)
    <3>1. PICK j \in 1..i : q[j].obj = c
      BY <2>1, <2>4 DEF Ahead
    <3>2. CASE j = 1
      BY <1>3, <1>5, <1>7, <3>1, <3>2 DEF InHand
    <3>3. CASE j # 1
      <4>1. j \in DOMAIN q /\ j - 1 \in 1..(i - 1)
        BY <1>3, <2>1, <3>1, <3>3
      <4>2. j - 1 \in DOMAIN r
        BY <1>3, <3>3, <4>1
      <4>3. r[j - 1] = q[(j - 1) + 1] /\ (j - 1) + 1 = j
        BY <1>3, <4>1, <4>2
      <4>4. r[j - 1].obj = c
        BY <3>1, <4>3
      <4> QED
        BY <4>1, <4>4 DEF Ahead
    <3> QED
      BY <3>2, <3>3
  <2> QED
    BY <2>2, <2>3, <2>4
<1>13. HandSettled(p)'
  <2> SUFFICES ASSUME h.obj # Root, NEW c \in h.content \cap Obj
               PROVE  Settled(c)'
    BY <1>5 DEF HandSettled, AllSettled
  <2>1. Settled(c) \/ Ahead(q, 1, c)
    BY <1>3, <1>9
  <2>2. ~Ahead(q, 1, c)
    BY DEF Ahead
  <2> QED
    BY <1>8, <2>1, <2>2
<1>14. PageKept(p)'
  BY <1>10, <1>11, <1>12, <1>13 DEF PageKept
<1> QED
  BY <1>4, <1>5, <1>6, <1>14, ClientStep DEF serverVars, noteVars

\* A transaction is started, and the same task is in hand.
LEMMA StartTransactionHolds ==
    ASSUME IInv, NEW p \in Page, StartTransaction(p)
    PROVE  IInv'
<1>1. TypeOK /\ PageKept(p)
  BY DEF IInv
<1>2. cur[p] \in CurType /\ cur[p].st = "start" /\ cur[p].task \in TaskType
  BY <1>1 DEF StartTransaction, TypeOK
<1>3. /\ cur' = [cur EXCEPT ![p].st = "put"] /\ cur'[p].st = "put"
      /\ cur'[p].task = cur[p].task /\ cur'[p] \in CurType
  BY <1>1, <1>2 DEF StartTransaction, TypeOK, CurType
<1>4. /\ UNCHANGED <<page, queue, made, stored, finals, noteVars>>
      /\ locked' = locked \cup {cur[p].task.obj}
  BY DEF StartTransaction
<1>5. TypeOK'
  <2>1. cur' \in [Page -> CurType]
    BY <1>1, <1>3 DEF TypeOK
  <2>2. \A z \in Page : cur'[z].st \in {"start", "put"} => cur'[z].task \in TaskType
    BY <1>1, <1>2, <1>3 DEF TypeOK
  <2>3. locked' \subseteq Obj
    BY <1>1, <1>2, <1>4 DEF TypeOK, TaskType
  <2> QED
    BY <1>1, <1>4, <2>1, <2>2, <2>3 DEF TypeOK, noteVars
<1>6. \A c \in Obj : Settled(c) => Settled(c)'
  BY <1>4, SettledStays DEF noteVars
<1>7. Saved(p) /\ Saved(p)'
  BY <1>2, <1>3 DEF Saved
<1>8. page'[p] = page[p] /\ queue'[p] = queue[p] /\ cur'[p].task = cur[p].task
  BY <1>3, <1>4
<1>9. OnWay(p)'
  <2>1. AllSettled(page[p].keys)' /\ (page[p].st # "open" => AllSettled(page[p].json)')
    BY <1>1, <1>6, <1>8 DEF PageKept, OnWay, AllSettled
  <2> QED
    BY <1>1, <1>8, <2>1 DEF PageKept, OnWay
<1>10. RootTasks(p)'
  BY <1>1, <1>7, <1>8 DEF PageKept, RootTasks
<1>11. InOrder(p)'
  <2>1. \A c \in Obj : InHand(p, c) => InHand(p, c)'
    BY <1>7, <1>8 DEF InHand
  <2> SUFFICES ASSUME NEW i \in DOMAIN queue'[p], queue'[p][i].obj # Root,
                      NEW c \in queue'[p][i].content \cap Obj
               PROVE  \/ Settled(c)'
                      \/ InHand(p, c)'
                      \/ Ahead(queue'[p], i, c)
    BY DEF InOrder
  <2>2. Settled(c) \/ InHand(p, c) \/ Ahead(queue[p], i, c)
    BY <1>1, <1>8 DEF PageKept, InOrder
  <2> QED
    BY <1>6, <1>8, <2>1, <2>2
<1>12. HandSettled(p)'
  BY <1>1, <1>6, <1>7, <1>8 DEF PageKept, HandSettled, AllSettled
<1>13. PageKept(p)'
  BY <1>9, <1>10, <1>11, <1>12 DEF PageKept
<1>14. \A z \in Page \ {p} :
            page'[z] = page[z] /\ queue'[z] = queue[z] /\ cur'[z] = cur[z]
  BY <1>1, <1>3, <1>4 DEF TypeOK
<1> QED
  BY <1>4, <1>5, <1>13, <1>14, ClientStep DEF noteVars

\* A save that failed is noted, thus, folders behind it may go on.
LEMMA RejectedHolds ==
    ASSUME IInv, NEW p \in Page, Saved(p), Rejected(p),
           stored' = stored, finals' = finals, locked' \subseteq Obj,
           faults' \in 0..MaxFaults, hurt' \in BOOLEAN
    PROVE  IInv'
<1> DEFINE o == cur[p].task.obj
           f == [Fresh EXCEPT !.st = "failed"]
<1>1. TypeOK /\ PageKept(p) /\ page[p] \in PageType
  BY DEF IInv, TypeOK
<1>2. cur[p].task \in TaskType /\ o \in Obj
  BY <1>1 DEF Saved, TypeOK, TaskType
<1>3. /\ queue' = queue /\ made' = made /\ lost' = lost \cup {o}
      /\ cur' = [cur EXCEPT ![p] = [st |-> "stopped", task |-> None]]
  BY DEF Rejected
<1>4. f \in PageType /\ f.st = "failed" /\ f.json = {} /\ f.keys = {}
  BY EndedIs
<1>5. \/ page' = page /\ page[p].st = "open"
      \/ page' = [page EXCEPT ![p] = f]
  BY DEF Rejected, Ends
<1> HIDE DEF f
<1>6. \/ page'[p] = page[p] /\ page[p].st = "open"
      \/ page'[p] = f
  BY <1>1, <1>5 DEF TypeOK
<1>7. [st |-> "stopped", task |-> None] \in CurType
  BY DEF CurType
<1>8. cur'[p].st = "stopped" /\ ~Saved(p)' /\ queue'[p] = queue[p]
  BY <1>1, <1>3 DEF TypeOK, Saved
<1>9. \A z \in Page \ {p} :
            page'[z] = page[z] /\ queue'[z] = queue[z] /\ cur'[z] = cur[z]
  BY <1>1, <1>3, <1>5 DEF TypeOK
<1>10. TypeOK'
  <2>1. cur' \in [Page -> CurType]
    BY <1>1, <1>3, <1>7 DEF TypeOK
  <2>2. page' \in [Page -> PageType]
    BY <1>1, <1>4, <1>5 DEF TypeOK
  <2>3. \A z \in Page : cur'[z].st \in {"start", "put"} => cur'[z].task \in TaskType
    BY <1>1, <1>8, <1>9 DEF TypeOK
  <2>4. lost' \subseteq Obj
    BY <1>1, <1>2, <1>3 DEF TypeOK
  <2> QED
    BY <1>1, <1>3, <2>1, <2>2, <2>3, <2>4 DEF TypeOK
<1>11. \A c \in Obj : Settled(c) \/ c = o => Settled(c)'
  <2>1. \A c \in Obj : Settled(c) => Settled(c)'
    BY <1>3, SettledStays
  <2> QED
    BY <1>3, <2>1 DEF Settled
<1>12. OnWay(p)'
  <2>1. CASE page'[p] = page[p] /\ page[p].st = "open"
    <3>1. AllSettled(page[p].keys)'
      BY <1>1, <1>11, <2>1 DEF PageKept, OnWay, AllSettled
    <3> QED
      BY <1>1, <2>1, <3>1 DEF PageKept, OnWay
  <2>2. CASE page'[p] = f
    BY <1>4, <2>2 DEF OnWay, AllSettled
  <2> QED
    BY <1>6, <2>1, <2>2
<1>13. RootTasks(p)'
  BY <1>1, <1>8 DEF PageKept, RootTasks
<1>14. InOrder(p)'
  <2>1. \A c : InHand(p, c) => c = o
    BY DEF InHand
  <2> SUFFICES ASSUME NEW i \in DOMAIN queue'[p], queue'[p][i].obj # Root,
                      NEW c \in queue'[p][i].content \cap Obj
               PROVE  Settled(c)' \/ Ahead(queue'[p], i, c)
    BY DEF InOrder
  <2>2. Settled(c) \/ InHand(p, c) \/ Ahead(queue[p], i, c)
    BY <1>1, <1>8 DEF PageKept, InOrder
  <2> QED
    BY <1>8, <1>11, <2>1, <2>2
<1>15. HandSettled(p)'
  BY <1>8 DEF HandSettled
<1>16. PageKept(p)'
  BY <1>12, <1>13, <1>14, <1>15 DEF PageKept
<1>17. lost \subseteq lost'
  BY <1>3
<1> QED
  BY <1>9, <1>10, <1>16, <1>17, ClientStep

\* An object of a task in hand.
LEMMA HandIs ==
    ASSUME TypeOK, NEW p \in Page, cur[p].st \in {"start", "put"}
    PROVE  Saved(p) /\ cur[p].task \in TaskType /\ cur[p].task.obj \in Obj /\ locked \subseteq Obj
BY DEF TypeOK, Saved, TaskType

LEMMA StartRefusedHolds ==
    ASSUME IInv, NEW p \in Page, StartRefused(p)
    PROVE  IInv'
<1>1. TypeOK /\ cur[p].st = "start" /\ Rejected(p)
  BY DEF IInv, StartRefused
<1>2. Saved(p) /\ cur[p].task.obj \in Obj /\ locked \subseteq Obj
  BY <1>1, HandIs
<1>3. /\ stored' = stored /\ finals' = finals /\ locked' \subseteq Obj
      /\ faults' \in 0..MaxFaults /\ hurt' \in BOOLEAN
  BY <1>1, <1>2 DEF StartRefused, TypeOK
<1> QED
  BY <1>1, <1>2, <1>3, RejectedHolds

LEMMA StartLostHolds ==
    ASSUME IInv, NEW p \in Page, StartLost(p)
    PROVE  IInv'
<1>1. TypeOK /\ cur[p].st = "start" /\ Rejected(p)
  BY DEF IInv, StartLost
<1>2. Saved(p) /\ cur[p].task.obj \in Obj /\ locked \subseteq Obj
  BY <1>1, HandIs
<1>3. /\ stored' = stored /\ finals' = finals /\ locked' \subseteq Obj
      /\ faults' \in 0..MaxFaults /\ hurt' \in BOOLEAN
  BY <1>1, <1>2, FaultNote DEF StartLost, TypeOK
<1> QED
  BY <1>1, <1>2, <1>3, RejectedHolds

LEMMA BytesLostHolds ==
    ASSUME IInv, NEW p \in Page, BytesLost(p)
    PROVE  IInv'
<1>1. TypeOK /\ cur[p].st = "put" /\ Rejected(p)
  BY DEF IInv, BytesLost
<1>2. Saved(p) /\ cur[p].task.obj \in Obj /\ locked \subseteq Obj
  BY <1>1, HandIs
<1>3. /\ stored' = stored /\ finals' = finals /\ locked' \subseteq Obj
      /\ faults' \in 0..MaxFaults /\ hurt' \in BOOLEAN
  BY <1>1, <1>2, FaultNote DEF BytesLost, TypeOK
<1> QED
  BY <1>1, <1>2, <1>3, RejectedHolds

\* A request to finalize goes with children of a folder being settled.
LEMMA BytesSentHolds ==
    ASSUME IInv, NEW p \in Page, BytesSent(p)
    PROVE  IInv'
<1> DEFINE t == cur[p].task
           r == [obj |-> t.obj, content |-> t.content, by |-> p]
<1>1. TypeOK /\ PageKept(p) /\ ServerKept
  BY DEF IInv
<1>2. cur[p].st = "put" /\ t \in TaskType /\ Saved(p)
  BY <1>1, HandIs DEF BytesSent
<1>3. r \in FinalType /\ r.obj = t.obj /\ r.content = t.content
  BY <1>2 DEF TaskType, FinalType
<1>4. /\ finals' = finals \cup {r} /\ cur' = [cur EXCEPT ![p] = Idle]
      /\ UNCHANGED <<page, queue, made, stored, locked, noteVars>>
  BY DEF BytesSent
<1> HIDE DEF r
<1>5. Idle \in CurType /\ Idle.st \notin {"start", "put"}
  BY DEF Idle, CurType
<1>6. /\ cur'[p] = Idle /\ ~Saved(p)'
      /\ \A z \in Page \ {p} : cur'[z] = cur[z]
  BY <1>1, <1>4, <1>5 DEF TypeOK, Saved
<1>7. TypeOK'
  <2>1. cur' \in [Page -> CurType]
    BY <1>1, <1>4, <1>5 DEF TypeOK
  <2>2. \A z \in Page : cur'[z].st \in {"start", "put"} => cur'[z].task \in TaskType
    BY <1>1, <1>5, <1>6 DEF TypeOK
  <2> QED
    BY <1>1, <1>3, <1>4, <2>1, <2>2 DEF TypeOK, noteVars
<1>8. \A c \in Obj : Settled(c) \/ c = t.obj => Settled(c)'
  <2>1. \A c \in Obj : Settled(c) => Settled(c)'
    BY <1>4, SettledStays DEF noteVars
  <2> QED
    BY <1>3, <1>4, <2>1 DEF Settled
<1>9. PageKept(p)'
  <2>1. OnWay(p)'
    <3>1. /\ AllSettled(page[p].keys)'
          /\ page[p].st # "open" => AllSettled(page[p].json)'
      BY <1>1, <1>4, <1>8 DEF PageKept, OnWay, AllSettled
    <3> QED
      BY <1>1, <1>4, <3>1 DEF PageKept, OnWay
  <2>2. RootTasks(p)'
    BY <1>1, <1>4, <1>6 DEF PageKept, RootTasks
  <2>3. InOrder(p)'
    <3>1. \A c : InHand(p, c) => c = t.obj
      BY DEF InHand
    <3> SUFFICES ASSUME NEW i \in DOMAIN queue'[p], queue'[p][i].obj # Root,
                        NEW c \in queue'[p][i].content \cap Obj
                 PROVE  Settled(c)' \/ Ahead(queue'[p], i, c)
      BY DEF InOrder
    <3>2. Settled(c) \/ InHand(p, c) \/ Ahead(queue[p], i, c)
      BY <1>1, <1>4 DEF PageKept, InOrder
    <3> QED
      BY <1>4, <1>8, <3>1, <3>2
  <2>4. HandSettled(p)'
    BY <1>6 DEF HandSettled
  <2> QED
    BY <2>1, <2>2, <2>3, <2>4 DEF PageKept
<1>10. \A z \in Page : PageKept(z)'
  <2> SUFFICES ASSUME NEW z \in Page, z # p
               PROVE  PageKept(z)'
    BY <1>9
  <2>1. page'[z] = page[z] /\ queue'[z] = queue[z] /\ cur'[z] = cur[z]
    BY <1>4, <1>6
  <2> QED
    BY <1>1, <1>8, <2>1, OthersKept DEF IInv
<1>11. ServerKept'
  <2>1. IF t.obj = Root THEN HasApps(t.content) ELSE AllSettled(t.content)
    BY <1>1, <1>2 DEF PageKept, RootTasks, HandSettled
  <2>2. \A x \in finals' : x.obj = Root => HasApps(x.content)
    BY <1>1, <1>3, <1>4, <2>1 DEF ServerKept
  <2>3. ASSUME NEW x \in finals', x.obj # Root
        PROVE  AllSettled(x.content)
    BY <1>1, <1>3, <1>4, <2>1, <2>3 DEF ServerKept
  <2>4. ASSUME NEW x \in finals', x.obj # Root
        PROVE  AllSettled(x.content)'
    BY <1>8, <2>3, <2>4 DEF AllSettled
  <2>5. \A o \in Obj \ {Root} : stored[o] # None => AllSettled(stored[o])'
    BY <1>1, <1>4, <1>8 DEF ServerKept, AllSettled
  <2> QED
    BY <1>1, <1>4, <2>2, <2>4, <2>5 DEF ServerKept
<1> QED
  BY <1>7, <1>10, <1>11 DEF IInv

\* A new version lists only what is settled.
LEMMA FinalizeTransactionHolds ==
    ASSUME IInv, NEW r \in finals, FinalizeTransaction(r)
    PROVE  IInv'
<1>1. TypeOK /\ ServerKept
  BY DEF IInv
<1>2. r \in FinalType /\ r.obj \in Obj /\ r.content \in SUBSET Content
  BY <1>1 DEF TypeOK, FinalType
<1>3. /\ finals' = finals \ {r} /\ locked' = locked \ {r.obj}
      /\ stored' = [stored EXCEPT ![r.obj] = r.content]
      /\ UNCHANGED <<clientVars, noteVars>>
  BY DEF FinalizeTransaction
<1>4. r.content # None
  BY <1>2, NoneAssumption
<1>5. stored'[r.obj] = r.content /\ \A o \in Obj \ {r.obj} : stored'[o] = stored[o]
  BY <1>1, <1>2, <1>3 DEF TypeOK
<1>6. TypeOK'
  <2>1. stored' \in [Obj -> {None} \cup SUBSET Content]
    BY <1>1, <1>2, <1>3 DEF TypeOK
  <2>2. finals' \subseteq FinalType /\ locked' \subseteq Obj
    BY <1>1, <1>3 DEF TypeOK
  <2> QED
    BY <1>1, <1>3, <2>1, <2>2 DEF TypeOK, clientVars, noteVars
<1>7. \A c \in Obj : Settled(c) => Settled(c)'
  <2>1. \A o \in Obj : stored[o] # None => stored'[o] # None
    BY <1>4, <1>5
  <2>2. \A x \in finals : x \in finals' \/ stored'[x.obj] # None
    BY <1>3, <1>4, <1>5
  <2>3. lost \subseteq lost'
    BY <1>3 DEF noteVars
  <2> QED
    BY <2>1, <2>2, <2>3, SettledStays
<1>8. ASSUME NEW z \in Page
      PROVE  PageKept(z)'
  <2>1. page'[z] = page[z] /\ queue'[z] = queue[z] /\ cur'[z] = cur[z]
    BY <1>3 DEF clientVars
  <2> QED
    BY <1>1, <1>7, <2>1, OthersKept DEF IInv
<1>9. ServerKept'
  <2>1. stored'[Root] # None => HasApps(stored'[Root])
    BY <1>1, <1>5, ObjKinds DEF ServerKept
  <2>2. \A x \in finals' : x.obj = Root => HasApps(x.content)
    BY <1>1, <1>3 DEF ServerKept
  <2>3. ASSUME NEW x \in finals', x.obj # Root
        PROVE  AllSettled(x.content)'
    BY <1>1, <1>3, <1>7, <2>3 DEF ServerKept, AllSettled
  <2>4. ASSUME NEW o \in Obj \ {Root}, stored'[o] # None
        PROVE  \A c \in stored'[o] \cap Obj : Settled(c)'
    <3>1. CASE o = r.obj
      BY <1>1, <1>5, <1>7, <3>1, <2>4 DEF ServerKept, AllSettled
    <3>2. CASE o # r.obj
      BY <1>1, <1>5, <1>7, <3>2, <2>4 DEF ServerKept, AllSettled
    <3> QED
      BY <3>1, <3>2
  <2> QED
    BY <2>1, <2>2, <2>3, <2>4 DEF ServerKept, AllSettled
<1> QED
  BY <1>6, <1>8, <1>9 DEF IInv

\* A lost finalization is noted.
LEMMA FinalizeLostHolds ==
    ASSUME IInv, NEW r \in finals, FinalizeLost(r)
    PROVE  IInv'
<1>1. TypeOK /\ ServerKept
  BY DEF IInv
<1>2. r.obj \in Obj
  BY <1>1 DEF TypeOK, FinalType
<1>3. /\ finals' = finals \ {r} /\ lost' = lost \cup {r.obj}
      /\ UNCHANGED <<clientVars, stored, locked, hurt>>
  BY DEF FinalizeLost
<1>4. faults' \in 0..MaxFaults
  BY <1>1, FaultNote DEF FinalizeLost, TypeOK
<1>5. TypeOK'
  BY <1>1, <1>2, <1>3, <1>4 DEF TypeOK, clientVars
<1>6. \A c \in Obj : Settled(c) => Settled(c)'
  BY <1>3, SettledStays
<1>7. ASSUME NEW z \in Page
      PROVE  PageKept(z)'
  <2>1. page'[z] = page[z] /\ queue'[z] = queue[z] /\ cur'[z] = cur[z]
    BY <1>3 DEF clientVars
  <2> QED
    BY <1>1, <1>6, <2>1, OthersKept DEF IInv
<1>8. ServerKept'
  <2>1. ASSUME NEW x \in finals', x.obj # Root
        PROVE  AllSettled(x.content)'
    BY <1>1, <1>3, <1>6, <2>1 DEF ServerKept, AllSettled
  <2>2. \A o \in Obj \ {Root} : stored[o] # None => AllSettled(stored[o])'
    BY <1>1, <1>3, <1>6 DEF ServerKept, AllSettled
  <2> QED
    BY <1>1, <1>3, <2>1, <2>2 DEF ServerKept
<1> QED
  BY <1>5, <1>7, <1>8 DEF IInv

-----------------------------------------------------------------------------
(* What pages write into, when they do not overlap                          *)

\* Pages that wait for a read, or have ended, save nothing, and tasks of a queue are
\* of different objects.
Waits(p) ==
    /\ page[p].st \in {"none", "root", "apps", "ring", "file", "new"} => cur[p] = Idle
    /\ ~Busy(p) => ~Saved(p) /\ (queue[p] = <<>> \/ cur[p].st = "stopped")
    /\ page[p].st \notin {"closing", "file", "new", "open"} => page[p].json = {}
    /\ page[p].st # "open" => page[p].keys = {}
    /\ page[p].st = "file" => page[p].at = Entry(page[p].json, "file")
    /\ \A i, j \in DOMAIN queue[p] : queue[p][i].obj = queue[p][j].obj => i = j

\* A transaction holds its object, till it is finalized.
Locks ==
    /\ \A r \in finals : r.obj \in locked
    /\ \A r, s \in finals : r.obj = s.obj => r = s
    /\ \A p \in Page : cur[p].st = "put" =>
        /\ cur[p].task.obj \in locked
        /\ \A r \in finals : r.obj # cur[p].task.obj
        /\ \A z \in Page \ {p} : cur[z].st = "put" => cur[z].task.obj # cur[p].task.obj

\* A folder of a keyring, and its file, that their page has not made yet.
Down == {"none", "root", "apps", "ring"}
NotMade(o) ==
    \E p \in Page : \/ o = Ring(p) /\ page[p].st \in Down
                    \/ o = File(p) /\ page[p].st \in Down \cup {"closing", "file", "new"}
PageOrigins(p) ==
    /\ Saved(p) => ~NotMade(cur[p].task.obj)
    /\ \A i \in DOMAIN queue[p] : ~NotMade(queue[p][i].obj)
    /\ page[p].st \in {"closing", "file", "new"} => ~NotMade(page[p].up)
    /\ page[p].st = "open" => ~NotMade(Entry(page[p].json, "file"))
Origins ==
    /\ \A o \in Obj : stored[o] # None => ~NotMade(o)
    /\ \A r \in finals : ~NotMade(r.obj)
    /\ \A p \in Page : PageOrigins(p)

\* Content has all that is, and is going to be, stored in an object.
Low(o, content) ==
    /\ stored[o] # None => stored[o] \subseteq content
    /\ \A r \in finals : r.obj = o => r.content \subseteq content
HandLow(p, o, content) ==
    Saved(p) /\ cur[p].task.obj = o => cur[p].task.content \subseteq content
QueueLow(p, o, content) ==
    \A i \in DOMAIN queue[p] : queue[p][i].obj = o => queue[p][i].content \subseteq content
Covers(p, o, content) == Low(o, content) /\ HandLow(p, o, content) /\ QueueLow(p, o, content)

\* Existence of an object is not checked for these tasks, or it must exist.
Firm(task) == ~task.new \/ task.obj = Root
HandGrows(p) ==
    Saved(p) /\ (Firm(cur[p].task) \/ cur[p].st = "put") =>
        Low(cur[p].task.obj, cur[p].task.content)
QueueGrows(p) ==
    Busy(p) => \A i \in DOMAIN queue[p] : Firm(queue[p][i]) =>
        /\ Low(queue[p][i].obj, queue[p][i].content)
        /\ HandLow(p, queue[p][i].obj, queue[p][i].content)

\* What a page has read is what is there, and it writes no less than it has read.
Calm(p) == finals = {} /\ queue[p] = <<>> /\ cur[p] = Idle
Knows(p) ==
    /\ page[p].st \in {"root", "apps", "ring", "file"} => Calm(p)
    /\ page[p].st = "closing" => Calm(p) \/ page[p].json = {}
    /\ page[p].st \in {"closing", "file", "new"} => Covers(p, page[p].up, page[p].json)
    /\ page[p].st = "open" => Covers(p, Entry(page[p].json, "file"), page[p].keys)

Grows(p) == HandGrows(p) /\ QueueGrows(p) /\ Knows(p)
Growth ==
    /\ \A p, z \in Page : Busy(p) /\ Busy(z) => p = z
    /\ \A r \in finals : stored[r.obj] # None => stored[r.obj] \subseteq r.content
    /\ \A p \in Page : Grows(p)

\* The inductive invariant of growth.
GInv == (\A p \in Page : Waits(p)) /\ Locks /\ Origins /\ (~hurt => Growth)

-----------------------------------------------------------------------------
(* Steps of one page leave others as they are                               *)

\* Only these objects may be not made.
LEMMA NotMadeKinds ==
    \A o : NotMade(o) => o[1] \in {"ring", "file"}
BY DEF NotMade, Ring, File

\* Objects of different pages, and of different kinds, are different.
LEMMA NotMadeIs ==
    ASSUME NEW p \in Page
    PROVE  /\ NotMade(Ring(p)) <=> page[p].st \in Down
           /\ NotMade(File(p)) <=> page[p].st \in Down \cup {"closing", "file", "new"}
           /\ NotMade(Ring(p))' <=> page'[p].st \in Down
           /\ NotMade(File(p))' <=> page'[p].st \in Down \cup {"closing", "file", "new"}
<1>1. \A z : /\ Ring(p) = Ring(z) <=> p = z
             /\ File(p) = File(z) <=> p = z
             /\ Ring(p) # File(z) /\ File(p) # Ring(z)
  BY DEF Ring, File
<1> QED
  BY <1>1 DEF NotMade, Ring, File, Down

\* Programs go only forward.
LEMMA MadeStays ==
    ASSUME NEW p \in Page, \A z \in Page \ {p} : page'[z] = page[z],
           page'[p].st \in Down => page[p].st \in Down,
           page'[p].st \in Down \cup {"closing", "file", "new"} =>
                page[p].st \in Down \cup {"closing", "file", "new"}
    PROVE  \A o : NotMade(o)' => NotMade(o)
<1> SUFFICES ASSUME NEW o, NotMade(o)' PROVE NotMade(o)
  OBVIOUS
<1>1. PICK z \in Page : \/ o = Ring(z) /\ page'[z].st \in Down
                        \/ o = File(z) /\ page'[z].st \in Down \cup {"closing", "file", "new"}
  BY DEF NotMade, Ring, File, Down
<1>2. \/ o = Ring(z) /\ page[z].st \in Down
      \/ o = File(z) /\ page[z].st \in Down \cup {"closing", "file", "new"}
  BY <1>1
<1> QED
  BY <1>2 DEF NotMade

\* A page, that is not busy, is going to write nothing.
LEMMA IdleGrows ==
    ASSUME NEW z \in Page, Waits(z), ~Busy(z)
    PROVE  Grows(z)
BY DEF Waits, Busy, Grows, HandGrows, QueueGrows, Knows

\* A page, with which nothing happens.
LEMMA OthersWait ==
    ASSUME NEW z \in Page, Waits(z), PageOrigins(z),
           page'[z] = page[z], queue'[z] = queue[z], cur'[z] = cur[z],
           \A o : NotMade(o)' => NotMade(o)
    PROVE  Waits(z)' /\ PageOrigins(z)' /\ (Busy(z)' <=> Busy(z))
<1>1. Waits(z)' /\ (Busy(z)' <=> Busy(z)) /\ (Saved(z)' <=> Saved(z))
  BY DEF Waits, Busy, Saved
<1>2. PageOrigins(z)'
  <2>1. Saved(z)' => ~NotMade(cur[z].task.obj)'
    <3>1. PICK o : o = cur[z].task.obj
      OBVIOUS
    <3>2. Saved(z)' => ~NotMade(o)'
      BY <1>1, <3>1 DEF PageOrigins
    <3>3. cur'[z].task.obj = o
      BY <3>1
    <3> QED
      BY <3>2, <3>3
  <2> QED
    BY <1>1, <2>1 DEF PageOrigins
<1> QED
  BY <1>1, <1>2

\* Transactions that go on.
LEMMA LocksStay ==
    ASSUME Locks, finals' = finals, locked \subseteq locked',
           \A z \in Page : cur'[z].st = "put" =>
                cur[z].st = "put" /\ cur'[z].task = cur[z].task
    PROVE  Locks'
<1>1. (\A r \in finals : r.obj \in locked') /\ (\A r, s \in finals : r.obj = s.obj => r = s)
  BY DEF Locks
<1>2. ASSUME NEW z \in Page, cur'[z].st = "put"
      PROVE  /\ cur'[z].task.obj \in locked'
             /\ \A r \in finals : r.obj # cur'[z].task.obj
             /\ \A y \in Page \ {z} : cur'[y].st = "put" => cur'[y].task.obj # cur'[z].task.obj
  BY <1>2 DEF Locks
<1> QED
  BY <1>1, <1>2 DEF Locks

LEMMA OthersGrow ==
    ASSUME NEW z \in Page, Grows(z), stored' = stored, finals' = finals,
           page'[z] = page[z], queue'[z] = queue[z], cur'[z] = cur[z]
    PROVE  Grows(z)'
<1>1. /\ Saved(z)' <=> Saved(z)
      /\ Busy(z)' <=> Busy(z)
      /\ Calm(z)' <=> Calm(z)
  BY DEF Saved, Busy, Calm
<1>2. \A o : \A content : /\ Low(o, content)' <=> Low(o, content)
                          /\ HandLow(z, o, content)' <=> HandLow(z, o, content)
                          /\ QueueLow(z, o, content)' <=> QueueLow(z, o, content)
                          /\ Covers(z, o, content)' <=> Covers(z, o, content)
  BY <1>1 DEF Low, HandLow, QueueLow, Covers
<1>3. HandGrows(z)'
  BY <1>1, <1>2 DEF Grows, HandGrows
<1>4. QueueGrows(z)'
  BY <1>1, <1>2 DEF Grows, QueueGrows
<1>5. Knows(z)'
  BY <1>1, <1>2 DEF Grows, Knows
<1> QED
  BY <1>3, <1>4, <1>5 DEF Grows

\* A step of a page, which does not come to a server.
LEMMA ClientGrows ==
    ASSUME GInv, NEW p \in Page, stored' = stored, finals' = finals,
           \A z \in Page \ {p} :
                page'[z] = page[z] /\ queue'[z] = queue[z] /\ cur'[z] = cur[z],
           \A o : NotMade(o)' => NotMade(o),
           ~hurt' => ~hurt, Locks', Waits(p)', PageOrigins(p)',
           ~hurt' /\ Busy(p)' => \A z \in Page \ {p} : ~Busy(z),
           ~hurt' => Grows(p)'
    PROVE  GInv'
<1>1. \A z \in Page \ {p} : Waits(z)' /\ PageOrigins(z)' /\ (Busy(z)' <=> Busy(z))
  BY OthersWait DEF GInv, Origins
<1>2. Origins'
  <2>1. \A o \in Obj : stored'[o] # None => ~NotMade(o)'
    BY DEF GInv, Origins
  <2>2. ASSUME NEW r \in finals PROVE ~NotMade(r.obj)'
    <3>1. PICK o : o = r.obj
      OBVIOUS
    <3>2. ~NotMade(o)'
      BY <3>1 DEF GInv, Origins
    <3> QED
      BY <3>1, <3>2
  <2> QED
    BY <1>1, <2>1, <2>2 DEF Origins
<1>3. ASSUME ~hurt' PROVE Growth'
  <2>1. Growth
    BY <1>3 DEF GInv
  <2>2. \A y, z \in Page : Busy(y)' /\ Busy(z)' => y = z
    BY <1>1, <1>3, <2>1 DEF Growth
  <2>3. \A z \in Page : Grows(z)'
    BY <1>3, <2>1, OthersGrow DEF Growth
  <2>4. \A r \in finals' : stored'[r.obj] # None => stored'[r.obj] \subseteq r.content
    BY <2>1 DEF Growth
  <2> QED
    BY <2>2, <2>3, <2>4 DEF Growth
<1> QED
  BY <1>1, <1>2, <1>3 DEF GInv

\* A page ends, and nothing of it is saved any more.
LEMMA EndsGrow ==
    ASSUME IInv, GInv, NEW p \in Page, NEW st \in {"failed", "gone"}, Ends(p, st),
           stored' = stored, finals' = finals, hurt' = hurt, Locks',
           \A z \in Page \ {p} : queue'[z] = queue[z] /\ cur'[z] = cur[z],
           queue'[p] \in {queue[p], <<>>}, cur'[p].st \notin {"start", "put"},
           queue'[p] = <<>> \/ cur'[p].st = "stopped"
    PROVE  GInv'
<1> DEFINE w == [Fresh EXCEPT !.st = st]
<1>1. w.st = st /\ w.json = {} /\ w.keys = {}
  BY EndedIs
<1>2. page'[p] = w /\ \A z \in Page \ {p} : page'[z] = page[z]
  BY DEF Ends, IInv, TypeOK
<1> HIDE DEF w
<1>3. page'[p].st \in {"failed", "gone"} /\ ~Busy(p)' /\ ~Saved(p)'
  BY <1>1, <1>2 DEF Busy, Saved
<1>4. \A o : NotMade(o)' => NotMade(o)
  BY <1>2, <1>3, MadeStays DEF Down
<1>5. Waits(p)'
  BY <1>1, <1>2, <1>3 DEF Waits, GInv
<1>6. PageOrigins(p)'
  <2>1. \A i \in DOMAIN queue'[p] : ~NotMade(queue[p][i].obj)'
    <3> SUFFICES ASSUME NEW i \in DOMAIN queue'[p] PROVE ~NotMade(queue[p][i].obj)'
      OBVIOUS
    <3>1. queue'[p] = queue[p]
      OBVIOUS
    <3>2. ~NotMade(queue[p][i].obj)
      BY <3>1 DEF GInv, Origins, PageOrigins
    <3>3. PICK o : o = queue[p][i].obj
      OBVIOUS
    <3>4. ~NotMade(o)'
      BY <1>4, <3>2, <3>3
    <3> QED
      BY <3>1, <3>3, <3>4
  <2> QED
    BY <1>3, <2>1 DEF PageOrigins
<1>7. Grows(p)'
  BY <1>3, <1>5, IdleGrows DEF Grows, HandGrows, QueueGrows, Knows, Waits
<1> QED
  BY <1>2, <1>3, <1>4, <1>5, <1>6, <1>7, ClientGrows

-----------------------------------------------------------------------------
(* Growth in steps of programs                                              *)

LEMMA SignedUpGrows ==
    ASSUME IInv, GInv, NEW p \in Page, SignedUp(p)
    PROVE  GInv'
<1>1. /\ Ends(p, "gone") /\ queue[p] = <<>> /\ cur[p].st = "idle"
      /\ UNCHANGED <<queue, cur, made, serverVars, noteVars>>
  BY DEF SignedUp, Idle
<1>2. Locks'
  BY <1>1, LocksStay DEF GInv, serverVars
<1> QED
  BY <1>1, <1>2, EndsGrow DEF serverVars, noteVars

\* A page that waits for a read has nothing to save.
LEMMA ReadingIs ==
    ASSUME IInv, GInv, NEW p \in Page, page[p].st \in {"none", "root", "apps", "ring", "file"}
    PROVE  queue[p] = <<>> /\ cur[p] = Idle /\ cur[p].st = "idle"
BY DEF IInv, PageKept, OnWay, GInv, Waits, Idle

LEMMA UnknownGrows ==
    ASSUME IInv, GInv, NEW p \in Page, Unknown(p)
    PROVE  GInv'
<1>1. /\ Ends(p, "failed") /\ queue[p] = <<>> /\ cur[p].st = "idle"
      /\ UNCHANGED <<queue, cur, made, serverVars, noteVars>>
  BY ReadingIs DEF Unknown
<1>2. Locks'
  BY <1>1, LocksStay DEF GInv, serverVars
<1> QED
  BY <1>1, <1>2, EndsGrow DEF serverVars, noteVars

LEMMA ReadFailsGrows ==
    ASSUME IInv, GInv, NEW p \in Page, ReadFails(p)
    PROVE  GInv'
<1>1. /\ Ends(p, "failed") /\ queue[p] = <<>> /\ cur[p].st = "idle" /\ hurt' = hurt
      /\ UNCHANGED <<queue, cur, made, serverVars>>
  BY ReadingIs DEF ReadFails
<1>2. Locks'
  BY <1>1, LocksStay DEF GInv, serverVars
<1> QED
  BY <1>1, <1>2, EndsGrow DEF serverVars

LEMMA LeaveGrows ==
    ASSUME IInv, GInv, NEW p \in Page, Leave(p)
    PROVE  GInv'
<1>1. /\ Ends(p, "gone") /\ UNCHANGED <<made, serverVars, noteVars>>
      /\ queue' = [queue EXCEPT ![p] = <<>>] /\ cur' = [cur EXCEPT ![p] = Idle]
  BY DEF Leave
<1>2. /\ queue'[p] = <<>> /\ cur'[p].st = "idle"
      /\ \A z \in Page \ {p} : queue'[z] = queue[z] /\ cur'[z] = cur[z]
  BY <1>1 DEF IInv, TypeOK, Idle
<1>3. Locks'
  BY <1>1, <1>2, LocksStay DEF GInv, serverVars
<1> QED
  BY <1>1, <1>2, <1>3, EndsGrow DEF serverVars, noteVars

\* A page starts, when others do not run, and all their requests are processed.
LEMMA StartsAlone ==
    ASSUME NEW p \in Page, Starts(p), ~hurt'
    PROVE  ~hurt /\ finals = {} /\ \A z \in Page : ~Busy(z)
BY DEF Starts

LEMMA OpenGrows ==
    ASSUME IInv, GInv, NEW p \in Page, Open(p)
    PROVE  GInv'
<1>1. /\ page[p].st = "none" /\ Starts(p) /\ UNCHANGED <<queue, cur, serverVars>>
      /\ page' = [page EXCEPT ![p].st = "root", ![p].at = Root]
  BY DEF Open
<1>2. /\ page'[p].st = "root" /\ page'[p].json = page[p].json /\ page'[p].keys = page[p].keys
      /\ \A z \in Page \ {p} : page'[z] = page[z]
  BY <1>1 DEF IInv, TypeOK, PageType
<1>3. queue[p] = <<>> /\ cur[p] = Idle /\ cur[p].st = "idle"
  BY <1>1, ReadingIs
<1>4. \A o : NotMade(o)' => NotMade(o)
  BY <1>1, <1>2, MadeStays DEF Down
<1>5. Locks'
  BY <1>1, LocksStay DEF GInv, serverVars
<1>6. Waits(p)'
  <2>1. page[p].json = {} /\ page[p].keys = {} /\ cur'[p] = Idle /\ queue'[p] = <<>>
    BY <1>1, <1>3 DEF GInv, Waits
  <2> QED
    BY <1>2, <2>1 DEF Waits, Busy
<1>7. PageOrigins(p)'
  BY <1>1, <1>2, <1>3 DEF PageOrigins, Saved
<1>8. ASSUME ~hurt' PROVE Grows(p)'
  BY <1>1, <1>2, <1>3, <1>8, StartsAlone
  DEF Grows, HandGrows, QueueGrows, Knows, Calm, Saved, serverVars
<1> QED
  BY <1>1, <1>2, <1>4, <1>5, <1>6, <1>7, <1>8, StartsAlone, ClientGrows DEF serverVars

\* Steps down to the keyring, without a need to save anything.
LEMMA DownGrows ==
    ASSUME IInv, GInv, NEW p \in Page, Busy(p), UNCHANGED <<queue, cur, made, serverVars, noteVars>>,
           queue[p] = <<>>, cur[p] = Idle,
           \A z \in Page \ {p} : page'[z] = page[z],
           page'[p].st \in {"apps", "ring", "closing", "file", "new", "open"},
           page'[p].st \in Down => page[p].st \in Down,
           page'[p].st \in Down \cup {"closing", "file", "new"} =>
                page[p].st \in Down \cup {"closing", "file", "new"},
           page'[p].st \in {"apps", "ring"} => page'[p].json = {},
           page'[p].st = "file" => page'[p].at = Entry(page'[p].json, "file"),
           page'[p].st # "open" => page'[p].keys = {},
           page'[p].st \in {"closing", "file", "new"} => ~NotMade(page'[p].up),
           page'[p].st = "open" => ~NotMade(Entry(page'[p].json, "file")),
           Knows(p) => Knows(p)'
    PROVE  GInv'
<1>1. cur[p].st = "idle" /\ cur' = cur /\ queue' = queue /\ stored' = stored /\ finals' = finals
      /\ locked' = locked /\ hurt' = hurt
  BY DEF Idle, serverVars, noteVars
<1>2. \A o : NotMade(o)' => NotMade(o)
  BY MadeStays
<1>3. Locks'
  BY <1>1, LocksStay DEF GInv
<1>4. Waits(p)'
  BY <1>1 DEF GInv, Waits, Busy
<1>5. PageOrigins(p)'
  <2>1. \A o : ~NotMade(o) => ~NotMade(o)'
    BY <1>2
  <2>2. page'[p].st \in {"closing", "file", "new"} => ~NotMade(page[p].up)'
    <3>1. PICK o : o = page'[p].up
      OBVIOUS
    <3> QED
      BY <2>1, <3>1
  <2>3. page'[p].st = "open" => ~NotMade(Entry(page[p].json, "file"))'
    <3>1. PICK o : o = Entry(page'[p].json, "file")
      OBVIOUS
    <3>2. page'[p].st = "open" => ~NotMade(o)'
      BY <2>1, <3>1
    <3> QED
      BY <3>1, <3>2 DEF Entry, Entries
  <2> QED
    BY <1>1, <2>2, <2>3 DEF PageOrigins, Saved
<1>6. ASSUME ~hurt' PROVE Grows(p)' /\ \A z \in Page \ {p} : ~Busy(z)
  <2>1. Growth
    BY <1>1, <1>6 DEF GInv
  <2>2. Knows(p)'
    BY <2>1 DEF Growth, Grows
  <2>3. HandGrows(p)' /\ QueueGrows(p)'
    BY <1>1 DEF HandGrows, QueueGrows, Saved
  <2> QED
    BY <2>1, <2>2, <2>3 DEF Growth, Grows
<1> QED
  BY <1>1, <1>2, <1>3, <1>4, <1>5, <1>6, ClientGrows

LEMMA RootComesGrows ==
    ASSUME IInv, GInv, NEW p \in Page, RootComes(p)
    PROVE  GInv'
<1>1. /\ page[p].st = "root" /\ UNCHANGED <<queue, cur, made, serverVars, noteVars>>
      /\ page' = [page EXCEPT ![p].st = "apps", ![p].at = Entry(Json(p), "apps")]
  BY DEF RootComes, Comes
<1>2. /\ page'[p].st = "apps" /\ page'[p].json = page[p].json /\ page'[p].keys = page[p].keys
      /\ \A z \in Page \ {p} : page'[z] = page[z]
  BY <1>1 DEF IInv, TypeOK, PageType
<1>3. queue[p] = <<>> /\ cur[p] = Idle
  BY <1>1, ReadingIs
<1>4. page[p].json = {} /\ page[p].keys = {} /\ Busy(p) /\ page[p].st \in Down
  BY <1>1 DEF GInv, Waits, Busy, Down
<1>5. Knows(p) => Knows(p)'
  BY <1>1, <1>2, <1>3 DEF Knows, Calm, serverVars
<1> QED
  BY <1>1, <1>2, <1>3, <1>4, <1>5, DownGrows

LEMMA RingComesGrows ==
    ASSUME IInv, GInv, NEW p \in Page, RingComes(p)
    PROVE  GInv'
<1>1. /\ page[p].st = "ring" /\ UNCHANGED <<queue, cur, made, serverVars, noteVars>>
      /\ page' = [page EXCEPT ![p].st = "closing", ![p].up = page[p].at, ![p].json = Json(p)]
      /\ stored[page[p].at] # None
  BY DEF RingComes, Comes
<1>2. /\ page'[p].st = "closing" /\ page'[p].json = stored[page[p].at]
      /\ page'[p].up = page[p].at /\ page'[p].keys = page[p].keys
      /\ \A z \in Page \ {p} : page'[z] = page[z]
  BY <1>1 DEF IInv, TypeOK, PageType, Json
<1>3. queue[p] = <<>> /\ cur[p] = Idle
  BY <1>1, ReadingIs
<1>4. page[p].keys = {} /\ Busy(p) /\ page[p].st \in Down /\ "closing" \notin Down
  BY <1>1 DEF GInv, Waits, Busy, Down
<1>5. page[p].at \in Obj /\ ~NotMade(page[p].at)
  BY <1>1 DEF IInv, PageKept, OnWay, GInv, Origins
<1>6. Knows(p) => Knows(p)'
  <2> SUFFICES ASSUME Knows(p) PROVE Knows(p)'
    OBVIOUS
  <2>1. Calm(p) /\ Calm(p)'
    BY <1>1 DEF Knows, Calm, serverVars
  <2>2. Covers(p, page[p].up, page[p].json)'
    <3>1. PICK o, content : o = page[p].at /\ content = stored[o]
      OBVIOUS
    <3>2. Covers(p, o, content)'
      BY <1>1, <2>1, <3>1 DEF Calm, Idle, Covers, Low, HandLow, QueueLow, Saved, serverVars
    <3> QED
      BY <1>2, <3>1, <3>2
  <2> QED
    BY <1>2, <2>1, <2>2 DEF Knows
<1> QED
  BY <1>1, <1>2, <1>3, <1>4, <1>5, <1>6, DownGrows

LEMMA LoadGrows ==
    ASSUME IInv, GInv, NEW p \in Page, Load(p)
    PROVE  GInv'
<1> DEFINE json == page[p].json
<1>1. /\ page[p].st = "closing" /\ queue[p] = <<>> /\ cur[p] = Idle
      /\ UNCHANGED <<queue, cur, made, serverVars, noteVars>>
      /\ page' = [page EXCEPT ![p].st = IF Entries(json, "file") = {} THEN "new" ELSE "file",
                              ![p].at = IF Entries(json, "file") = {} THEN None
                                        ELSE Entry(json, "file")]
  BY DEF Load, Closed
<1>2. /\ page'[p].st = IF Entries(json, "file") = {} THEN "new" ELSE "file"
      /\ page'[p].st = "file" => page'[p].at = Entry(json, "file")
      /\ page'[p].json = json /\ page'[p].keys = page[p].keys /\ page'[p].up = page[p].up
      /\ \A z \in Page \ {p} : page'[z] = page[z]
  BY <1>1 DEF IInv, TypeOK, PageType
<1>3. page[p].keys = {} /\ Busy(p) /\ {"new", "file"} \cap Down = {}
  BY <1>1 DEF GInv, Waits, Busy, Down
<1>4. ~NotMade(page[p].up)
  BY <1>1 DEF GInv, Origins, PageOrigins
<1>5. Knows(p) => Knows(p)'
  <2> SUFFICES ASSUME Knows(p) PROVE Knows(p)'
    OBVIOUS
  <2>1. Covers(p, page[p].up, json) /\ (Calm(p) \/ json = {})
    BY <1>1 DEF Knows
  <2>2. Covers(p, page[p].up, page[p].json)'
    BY <1>1, <1>2, <2>1 DEF Covers, Low, HandLow, QueueLow, Saved, serverVars
  <2>3. page'[p].st = "file" => Calm(p)'
    <3>1. json = {} => page'[p].st = "new"
      BY <1>2 DEF Entries
    <3> QED
      BY <1>1, <2>1, <3>1 DEF Calm, serverVars
  <2> QED
    BY <1>2, <2>2, <2>3 DEF Knows
<1>6. /\ page'[p].st \in {"new", "file"}
      /\ page'[p].st = "file" => page'[p].at = Entry(page'[p].json, "file")
  BY <1>2
<1> QED
  BY <1>1, <1>2, <1>3, <1>4, <1>5, <1>6, DownGrows

LEMMA FileComesGrows ==
    ASSUME IInv, GInv, NEW p \in Page, FileComes(p)
    PROVE  GInv'
<1>1. /\ page[p].st = "file" /\ UNCHANGED <<queue, cur, made, serverVars, noteVars>>
      /\ page' = [page EXCEPT ![p].st = "open", ![p].keys = Loaded(p)]
      /\ stored[page[p].at] # None
  BY DEF FileComes, Comes
<1>2. /\ page'[p].st = "open" /\ page'[p].keys = stored[page[p].at]
      /\ page'[p].json = page[p].json
      /\ \A z \in Page \ {p} : page'[z] = page[z]
  BY <1>1 DEF IInv, TypeOK, PageType, Loaded
<1>3. queue[p] = <<>> /\ cur[p] = Idle
  BY <1>1, ReadingIs
<1>4. page[p].at = Entry(page[p].json, "file") /\ Busy(p) /\ "open" \notin Down
  BY <1>1 DEF GInv, Waits, Busy, Down
<1>5. page[p].at \in Obj /\ ~NotMade(page[p].at)
  BY <1>1 DEF IInv, PageKept, OnWay, GInv, Origins
<1>6. Knows(p) => Knows(p)'
  <2> SUFFICES ASSUME Knows(p) PROVE Knows(p)'
    OBVIOUS
  <2>1. Calm(p)
    BY <1>1 DEF Knows
  <2>2. Covers(p, Entry(page[p].json, "file"), page[p].keys)'
    <3>1. PICK o, content : o = page[p].at /\ content = stored[o]
      OBVIOUS
    <3>2. Covers(p, o, content)'
      BY <1>1, <2>1, <3>1 DEF Calm, Idle, Covers, Low, HandLow, QueueLow, Saved, serverVars
    <3>3. Entry(page'[p].json, "file") = o
      BY <1>2, <1>4, <3>1
    <3> QED
      BY <1>2, <3>1, <3>2, <3>3 DEF Entry, Entries
  <2> QED
    BY <1>2, <2>2 DEF Knows
<1>7. page'[p].st = "open" => ~NotMade(Entry(page'[p].json, "file"))
  BY <1>2, <1>4, <1>5
<1> QED
  BY <1>1, <1>2, <1>3, <1>4, <1>6, <1>7, DownGrows

-----------------------------------------------------------------------------
(* Growth in steps that add tasks                                           *)

\* A queue gets tasks, that write no less than a page has read.
LEMMA QueueGrow ==
    ASSUME IInv, GInv, NEW p \in Page, stored' = stored, finals' = finals, locked' = locked,
           \A z \in Page \ {p} :
                page'[z] = page[z] /\ queue'[z] = queue[z] /\ cur'[z] = cur[z],
           ~hurt' => ~hurt /\ \A z \in Page \ {p} : ~Busy(z),
           page'[p].st \in {"signing", "closing", "open"},
           cur'[p] = cur[p] \/ (cur'[p] = Idle /\ ~Saved(p)),
           page'[p].st = "signing" => page'[p].json = {},
           page'[p].st # "open" => page'[p].keys = {},
           \A i, j \in DOMAIN queue'[p] : queue'[p][i].obj = queue'[p][j].obj => i = j,
           \A o : NotMade(o)' => NotMade(o),
           PageOrigins(p)',
           ~hurt' => QueueGrows(p)' /\ Knows(p)'
    PROVE  GInv'
<1>1. Saved(p)' => Saved(p) /\ cur'[p] = cur[p]
  BY DEF Saved, Idle
<1>2. Locks'
  <2>1. \A z \in Page : cur'[z].st = "put" => cur[z].st = "put" /\ cur'[z].task = cur[z].task
    BY DEF Idle
  <2> QED
    BY <2>1, LocksStay DEF GInv
<1>3. Waits(p)'
  BY DEF Waits, Busy
<1>4. ASSUME ~hurt' PROVE HandGrows(p)'
  <2>1. HandGrows(p)
    BY <1>4 DEF GInv, Growth, Grows
  <2> QED
    BY <1>1, <2>1 DEF HandGrows, Low
<1> QED
  BY <1>2, <1>3, <1>4, ClientGrows DEF Grows

LEMMA SignUpGrows ==
    ASSUME IInv, GInv, NEW p \in Page, SignUp(p)
    PROVE  GInv'
<1> DEFINE q == NewTree(p)
<1>1. /\ page[p].st = "none" /\ stored[Root] = None /\ Starts(p) /\ UNCHANGED <<cur, serverVars>>
      /\ page' = [page EXCEPT ![p].st = "signing"] /\ queue' = [queue EXCEPT ![p] = q]
  BY DEF SignUp
<1>2. /\ page'[p].st = "signing" /\ page'[p].json = page[p].json /\ page'[p].keys = page[p].keys
      /\ queue'[p] = q
      /\ \A z \in Page \ {p} : page'[z] = page[z] /\ queue'[z] = queue[z]
  BY <1>1 DEF IInv, TypeOK, PageType
<1>3. /\ DOMAIN q = {1, 2} /\ q[1].obj = Root /\ q[1].content = {Apps(p)}
      /\ q[2].obj = Apps(p) /\ q[2].new
  BY NewTreeIs
<1>4. cur[p] = Idle /\ ~Saved(p) /\ page[p].json = {} /\ page[p].keys = {}
  BY <1>1, ReadingIs DEF Saved, GInv, Waits
<1> HIDE DEF q
<1>5. /\ stored' = stored /\ finals' = finals /\ locked' = locked /\ cur' = cur
  BY <1>1 DEF serverVars
<1>6. Root[1] = "root" /\ Apps(p)[1] = "apps" /\ Root # Apps(p)
  BY ObjKinds
<1>7. \A o : NotMade(o)' => NotMade(o)
  BY <1>2, MadeStays DEF Down
<1>8. PageOrigins(p)'
  <2>1. ~NotMade(Root)' /\ ~NotMade(Apps(p))'
    BY <1>6, <1>7, NotMadeKinds
  <2>2. ~Saved(p)'
    BY <1>4, <1>5 DEF Saved
  <2>3. \A i \in DOMAIN q : q[i].obj = Root \/ q[i].obj = Apps(p)
    BY <1>3
  <2>4. \A i \in DOMAIN queue'[p] : ~NotMade(queue[p][i].obj)'
    <3> SUFFICES ASSUME NEW i \in DOMAIN q PROVE ~NotMade(queue[p][i].obj)'
      BY <1>2
    <3>1. PICK o : o = q[i].obj
      OBVIOUS
    <3>2. ~NotMade(o)'
      BY <2>1, <2>3, <3>1 DEF Root, Apps
    <3> QED
      BY <1>2, <3>1, <3>2
  <2> QED
    BY <1>2, <2>2, <2>4 DEF PageOrigins
<1>9. ASSUME ~hurt' PROVE QueueGrows(p)' /\ Knows(p)'
  <2>1. finals = {}
    BY <1>1, <1>9, StartsAlone
  <2>2. ~Firm(q[2])
    BY <1>3, <1>6 DEF Firm
  <2>3. /\ Low(q[1].obj, q[1].content)' /\ HandLow(p, q[1].obj, q[1].content)'
    BY <1>1, <1>3, <1>4, <1>5, <2>1 DEF Low, HandLow, Saved
  <2>4. \A i \in DOMAIN q : Firm(q[i]) => i = 1
    BY <1>3, <2>2
  <2> QED
    BY <1>2, <1>3, <2>3, <2>4 DEF QueueGrows, Knows
<1>10. \A i, j \in DOMAIN q : q[i].obj = q[j].obj => i = j
  BY <1>3, <1>6
<1>11. ~hurt' => ~hurt /\ \A z \in Page \ {p} : ~Busy(z)
  BY <1>1, StartsAlone
<1> QED
  BY <1>2, <1>4, <1>5, <1>7, <1>8, <1>9, <1>10, <1>11, QueueGrow

\* A made object and its folder are the only tasks of a page.
LEMMA PairGrow ==
    ASSUME NEW p \in Page, NEW child, NEW folder, NEW json, child # folder, child # Root,
           DOMAIN queue'[p] = {1, 2}, queue'[p][1].obj = child, queue'[p][1].new,
           queue'[p][2].obj = folder, queue'[p][2].content = json \cup {child},
           stored' = stored, finals' = finals, cur' = cur, ~Saved(p),
           ~NotMade(child)', ~NotMade(folder)'
    PROVE  /\ \A i, j \in DOMAIN queue'[p] : queue'[p][i].obj = queue'[p][j].obj => i = j
           /\ ~Saved(p)'
           /\ \A i \in DOMAIN queue'[p] : ~NotMade(queue[p][i].obj)'
           /\ Low(folder, json) => QueueGrows(p)'
<1>1. \A i \in DOMAIN queue'[p] : i = 1 \/ i = 2
  OBVIOUS
<1>2. \A i, j \in DOMAIN queue'[p] : queue'[p][i].obj = queue'[p][j].obj => i = j
  BY <1>1
<1>3. ~Saved(p)'
  BY DEF Saved
<1>4. ASSUME NEW i \in DOMAIN queue'[p] PROVE ~NotMade(queue[p][i].obj)'
  <2>1. PICK o : o = queue'[p][i].obj
    OBVIOUS
  <2>2. o = child \/ o = folder
    BY <1>1, <2>1
  <2>3. ~NotMade(o)'
    BY <2>2
  <2> QED
    BY <2>1, <2>3
<1>5. ASSUME Low(folder, json) PROVE QueueGrows(p)'
  <2>1. ~Firm(queue'[p][1])
    BY DEF Firm
  <2>2. \A i \in DOMAIN queue'[p] : Firm(queue'[p][i]) => i = 2
    BY <1>1, <2>1
  <2>3. Low(queue[p][2].obj, queue[p][2].content)'
    BY <1>5 DEF Low
  <2>4. HandLow(p, queue[p][2].obj, queue[p][2].content)'
    BY <1>3 DEF HandLow
  <2> QED
    BY <2>2, <2>3, <2>4 DEF QueueGrows
<1> QED
  BY <1>2, <1>3, <1>4, <1>5

LEMMA AppsComesGrows ==
    ASSUME IInv, GInv, NEW p \in Page, AppsComes(p)
    PROVE  GInv'
<1> DEFINE o == page[p].at
           json == stored[o]
           r == Ring(p)
<1>1. /\ page[p].st = "apps" /\ o \in Obj /\ o[1] = "apps" /\ stored[o] # None
      /\ queue[p] = <<>> /\ cur[p] = Idle /\ UNCHANGED <<cur, made, serverVars, noteVars>>
  BY ReadingIs DEF AppsComes, Comes, IInv, PageKept, OnWay
<1>2. page[p].json = {} /\ page[p].keys = {} /\ Busy(p) /\ page[p].st \in Down
  BY <1>1 DEF GInv, Waits, Busy, Down
<1>3. ~NotMade(o)
  BY <1>1 DEF GInv, Origins
<1>4. CASE Entries(json, "ring") # {}
  <2>1. /\ page' = [page EXCEPT ![p].st = "ring", ![p].at = Entry(json, "ring")]
        /\ UNCHANGED queue
    BY <1>4 DEF AppsComes, Json
  <2>2. /\ page'[p].st = "ring" /\ page'[p].json = page[p].json /\ page'[p].keys = page[p].keys
        /\ \A z \in Page \ {p} : page'[z] = page[z]
    BY <2>1 DEF IInv, TypeOK, PageType
  <2>3. Knows(p) => Knows(p)'
    BY <1>1, <2>1, <2>2 DEF Knows, Calm, serverVars
  <2> QED
    BY <1>1, <1>2, <2>1, <2>2, <2>3, DownGrows
<1>5. CASE Entries(json, "ring") = {}
  <2> DEFINE q == Created(<<>>, r, {}, o, json)
  <2>1. /\ page' = [page EXCEPT ![p].st = "closing", ![p].up = r]
        /\ queue' = [queue EXCEPT ![p] = q]
    BY <1>1, <1>5 DEF AppsComes, Json, EmptyFolderJson
  <2>2. /\ page'[p].st = "closing" /\ page'[p].up = r /\ page'[p].json = {}
        /\ page'[p].keys = {} /\ queue'[p] = q
        /\ \A z \in Page \ {p} : page'[z] = page[z] /\ queue'[z] = queue[z]
    BY <1>2, <2>1 DEF IInv, TypeOK, PageType
  <2>3. r \in Obj /\ r # o /\ r # Root
    BY <1>1, ObjKinds
  <2>4. /\ DOMAIN q = {1, 2} /\ q[1].obj = r /\ q[1].content = {} /\ q[1].new
        /\ q[2].obj = o /\ q[2].content = json \cup {r}
    <3>1. q = Created(<<>>, r, {}, o, json) /\ {} \in SUBSET Content
      OBVIOUS
    <3>2. json \in SUBSET Content
      BY <1>1 DEF IInv, TypeOK
    <3>3. o \in Obj
      BY <1>1
    <3> HIDE DEF json, o, q, r
    <3> DEFINE n == {}
    <3>4. n \in SUBSET Content /\ q = Created(<<>>, r, n, o, json)
      BY <3>1
    <3> HIDE DEF n
    <3>5. /\ DOMAIN q = {1, 2} /\ q[1].obj = r /\ q[1].content = n /\ q[1].new
          /\ q[2].obj = o /\ q[2].content = json \cup {r}
      BY <2>3, <3>2, <3>3, <3>4, CreatedIs
    <3> QED
      BY <3>5 DEF n
  <2> HIDE DEF q
  <2>5. /\ stored' = stored /\ finals' = finals /\ locked' = locked /\ cur' = cur /\ hurt' = hurt
        /\ ~Saved(p)
    BY <1>1 DEF serverVars, noteVars, Saved, Idle
  <2>6. \A x : NotMade(x)' => NotMade(x)
    BY <1>2, <2>2, MadeStays DEF Down
  <2>7. NotMade(r) /\ ~NotMade(r)'
    BY <1>2, <2>2, NotMadeIs DEF Down
  <2>8. PICK folder, list : folder = o /\ list = json
    OBVIOUS
  <2>9. ~NotMade(folder)'
    BY <1>3, <2>6, <2>8
  <2>10. /\ \A i, j \in DOMAIN queue'[p] : queue'[p][i].obj = queue'[p][j].obj => i = j
         /\ ~Saved(p)'
         /\ \A i \in DOMAIN queue'[p] : ~NotMade(queue[p][i].obj)'
         /\ Low(folder, list) => QueueGrows(p)'
    <3>1. PICK child : child = r
      OBVIOUS
    <3>2. ~NotMade(child)'
      BY <2>7, <3>1 DEF Ring
    <3> QED
      BY <2>2, <2>3, <2>4, <2>5, <2>8, <2>9, <3>1, <3>2, PairGrow
  <2>11. PageOrigins(p)'
    BY <2>2, <2>7, <2>10 DEF PageOrigins, Ring
  <2>12. ASSUME ~hurt PROVE QueueGrows(p)' /\ Knows(p)'
    <3>1. finals = {}
      BY <1>1, <2>12 DEF GInv, Growth, Grows, Knows, Calm
    <3>2. Low(folder, list)
      BY <2>8, <3>1 DEF Low
    <3>3. stored[r] = None
      BY <2>3, <2>7 DEF GInv, Origins
    <3>4. Low(r, {})'
      BY <2>5, <3>1, <3>3 DEF Low
    <3>5. HandLow(p, r, {})'
      BY <2>10 DEF HandLow
    <3>6. QueueLow(p, r, {})'
      BY <2>2, <2>3, <2>4 DEF QueueLow
    <3>7. Covers(p, r, {})'
      BY <3>4, <3>5, <3>6 DEF Covers
    <3> QED
      BY <2>2, <2>10, <3>2, <3>7 DEF Knows, Ring
  <2>13. ~hurt => \A z \in Page \ {p} : ~Busy(z)
    BY <1>2 DEF GInv, Growth
  <2> QED
    BY <2>2, <2>5, <2>6, <2>10, <2>11, <2>12, <2>13, QueueGrow
<1> QED
  BY <1>4, <1>5

\* The first save of a keyring makes its file.
LEMMA NewRingGrows ==
    ASSUME IInv, GInv, NEW p \in Page, SaveRing(p), Entries(page[p].json, "file") = {}
    PROVE  GInv'
<1> DEFINE f == File(p)
           up == page[p].up
           json == page[p].json
           keys == page[p].keys \cup {<<"change", made + 1>>}
           q == Created(<<>>, f, keys, up, json)
<1>1. /\ page[p].st = "new" /\ queue[p] = <<>> /\ up \in Obj /\ up[1] = "ring"
      /\ cur[p] = Idle
  <2>1. page[p].st \in {"new", "open"} /\ OnWay(p) /\ Waits(p)
    BY DEF SaveRing, IInv, PageKept, GInv
  <2> QED
    BY <2>1 DEF OnWay, Waits
<1>2. json \in SUBSET Content /\ keys \in SUBSET Content
  <2>1. made + 1 \in 1..MaxChanges
    BY BoundsAssumption DEF SaveRing, IInv, TypeOK
  <2> QED
    BY <2>1 DEF IInv, TypeOK, PageType, Content, Change
<1>3. /\ page' = [page EXCEPT ![p].st = "open", ![p].keys = keys, ![p].json = json \cup {f}]
      /\ queue' = [queue EXCEPT ![p] = q]
      /\ UNCHANGED <<serverVars, noteVars>>
  BY <1>1 DEF SaveRing, Registered
<1>4. cur' = cur
  <2>1. cur' = [cur EXCEPT ![p] = cur[p]]
    BY <1>1 DEF SaveRing, Idle
  <2> QED
    BY <2>1 DEF IInv, TypeOK
<1>5. /\ page'[p].st = "open" /\ page'[p].keys = keys /\ page'[p].json = json \cup {f}
      /\ queue'[p] = q
      /\ \A z \in Page \ {p} : page'[z] = page[z] /\ queue'[z] = queue[z]
  BY <1>3 DEF IInv, TypeOK, PageType
<1>6. f \in Obj /\ f[1] = "file" /\ f # up /\ f # Root
  BY <1>1, ObjKinds
<1>7. /\ DOMAIN q = {1, 2} /\ q[1].obj = f /\ q[1].content = keys /\ q[1].new
      /\ q[2].obj = up /\ q[2].content = json \cup {f}
  <2>1. q = Created(<<>>, f, keys, up, json)
    OBVIOUS
  <2>2. up \in Obj /\ f \in Obj /\ f # up
    BY <1>1, <1>6
  <2>3. json \in SUBSET Content /\ keys \in SUBSET Content
    BY <1>2
  <2> HIDE DEF f, up, json, keys, q
  <2> QED
    BY <2>1, <2>2, <2>3, CreatedIs
<1> HIDE DEF keys, q
<1>8. /\ stored' = stored /\ finals' = finals /\ locked' = locked /\ hurt' = hurt /\ ~Saved(p)
  BY <1>1, <1>3 DEF serverVars, noteVars, Saved, Idle
<1>9. \A x : NotMade(x)' => NotMade(x)
  BY <1>1, <1>5, MadeStays DEF Down
<1>10. NotMade(f) /\ ~NotMade(f)' /\ ~NotMade(up)
  <2>1. NotMade(f) /\ ~NotMade(f)'
    BY <1>1, <1>5, NotMadeIs DEF Down
  <2> QED
    BY <1>1, <2>1 DEF GInv, Origins, PageOrigins
<1>11. Entry(page'[p].json, "file") = f
  <2>1. Entries(json \cup {f}, "file") = {f}
    BY <1>6 DEF Entries
  <2> QED
    BY <1>5, <2>1 DEF Entry
<1>12. PICK folder, list : folder = up /\ list = json
  OBVIOUS
<1>13. PICK child : child = f
  OBVIOUS
<1>14. ~NotMade(child)' /\ ~NotMade(folder)'
  BY <1>9, <1>10, <1>12, <1>13 DEF File
<1>15. /\ \A i, j \in DOMAIN queue'[p] : queue'[p][i].obj = queue'[p][j].obj => i = j
       /\ ~Saved(p)'
       /\ \A i \in DOMAIN queue'[p] : ~NotMade(queue[p][i].obj)'
       /\ Low(folder, list) => QueueGrows(p)'
  BY <1>4, <1>5, <1>6, <1>7, <1>8, <1>12, <1>13, <1>14, PairGrow
<1>16. PageOrigins(p)'
  <2>1. ~NotMade(Entry(page[p].json, "file"))'
    BY <1>11, <1>13, <1>14 DEF Entry, Entries
  <2> QED
    BY <1>5, <1>15, <2>1 DEF PageOrigins
<1>17. ASSUME ~hurt PROVE QueueGrows(p)' /\ Knows(p)'
  <2>1. Low(folder, list)
    BY <1>1, <1>12, <1>17 DEF GInv, Growth, Grows, Knows, Covers
  <2>2. stored[f] = None /\ \A r \in finals : r.obj # f
    BY <1>6, <1>10 DEF GInv, Origins
  <2>3. PICK content : content = keys
    OBVIOUS
  <2>4. Low(child, content)'
    BY <1>8, <1>13, <2>2 DEF Low
  <2>5. HandLow(p, child, content)'
    BY <1>15 DEF HandLow
  <2>6. QueueLow(p, child, content)'
    BY <1>5, <1>6, <1>7, <1>13, <2>3 DEF QueueLow
  <2>7. Covers(p, child, content)'
    BY <2>4, <2>5, <2>6 DEF Covers
  <2>8. Covers(p, Entry(page[p].json, "file"), page[p].keys)'
    BY <1>5, <1>11, <1>13, <2>3, <2>7 DEF Entry, Entries
  <2> QED
    BY <1>5, <1>15, <2>1, <2>8 DEF Knows
<1>18. ~hurt => \A z \in Page \ {p} : ~Busy(z)
  BY <1>1 DEF GInv, Growth, Busy
<1> QED
  BY <1>4, <1>5, <1>8, <1>9, <1>15, <1>16, <1>17, <1>18, QueueGrow

\* Later saves write all that was loaded, and was written before.
LEMMA OldRingGrows ==
    ASSUME IInv, GInv, NEW p \in Page, SaveRing(p), Entries(page[p].json, "file") # {}
    PROVE  GInv'
<1> DEFINE keys == page[p].keys \cup {<<"change", made + 1>>}
           k == IF cur[p].st = "stopped" THEN Idle ELSE cur[p]
<1>1. PICK f : f = Entry(page[p].json, "file")
  OBVIOUS
<1>2. /\ page[p].st = "open" /\ f \in Obj /\ f # Root /\ ~NotMade(f) /\ Busy(p)
      /\ queue[p] \in Seq(TaskType) /\ keys \in SUBSET Content
  <2>1. page[p].st = "open"
    BY DEF SaveRing, IInv, PageKept, OnWay
  <2>2. page[p].json \in SUBSET Content
    BY DEF IInv, TypeOK, PageType
  <2>3. f \in Obj /\ f # Root
    BY <1>1, <2>2, EntryIs, ObjKinds
  <2>4. made + 1 \in 1..MaxChanges
    BY BoundsAssumption DEF SaveRing, IInv, TypeOK
  <2>5. keys \in SUBSET Content
    BY <2>4 DEF IInv, TypeOK, PageType, Content, Change
  <2>6. ~NotMade(f)
    BY <1>1, <2>1 DEF GInv, Origins, PageOrigins
  <2> QED
    BY <2>1, <2>3, <2>5, <2>6 DEF Busy, IInv, TypeOK
<1> DEFINE t == Task(f, keys, FALSE)
           q == AddTask(queue[p], t)
<1>3. /\ page' = [page EXCEPT ![p].keys = keys] /\ queue' = [queue EXCEPT ![p] = q]
      /\ cur' = [cur EXCEPT ![p] = k] /\ UNCHANGED <<serverVars, noteVars>>
  BY <1>1 DEF SaveRing
<1>4. t \in TaskType /\ t.obj = f /\ t.content = keys
  <2>1. PICK content \in SUBSET Content : content = keys
    BY <1>2
  <2> HIDE DEF keys
  <2>2. FALSE \in BOOLEAN
    OBVIOUS
  <2> QED
    BY <1>2, <2>1, <2>2, TaskTypes
<1>5. page[p].keys \subseteq keys
  OBVIOUS
<1>6. k = cur[p] \/ (k = Idle /\ ~Saved(p))
  BY DEF Saved
<1> HIDE DEF keys, k, t
<1>7. \A i, j \in DOMAIN queue[p] : queue[p][i].obj = queue[p][j].obj => i = j
  BY DEF GInv, Waits
<1>8. /\ \A i \in DOMAIN q : \/ q[i].obj = f /\ q[i].content = keys
                             \/ i \in DOMAIN queue[p] /\ q[i] = queue[p][i]
      /\ \A i, j \in DOMAIN q : q[i].obj = q[j].obj => i = j
  <2>1. q = AddTask(queue[p], t) /\ queue[p] \in Seq(TaskType)
    BY <1>2
  <2> HIDE DEF q
  <2>2. \A i \in DOMAIN q : \/ q[i].obj = t.obj /\ q[i].content = t.content
                            \/ i \in DOMAIN queue[p] /\ q[i] = queue[p][i]
    BY <1>4, <2>1, AddTaskIs
  <2>3. \A i, j \in DOMAIN q : q[i].obj = q[j].obj => i = j
    BY <1>4, <1>7, <2>1, AddTaskApart
  <2> QED
    BY <1>4, <2>2, <2>3
<1> HIDE DEF q
<1>9. /\ page'[p].st = "open" /\ page'[p].keys = keys /\ page'[p].json = page[p].json
      /\ queue'[p] = q /\ cur'[p] = k
      /\ \A z \in Page \ {p} : page'[z] = page[z] /\ queue'[z] = queue[z] /\ cur'[z] = cur[z]
  BY <1>2, <1>3 DEF IInv, TypeOK, PageType
<1>10. /\ stored' = stored /\ finals' = finals /\ locked' = locked /\ hurt' = hurt
  BY <1>3 DEF serverVars, noteVars
<1>11. \A x : NotMade(x)' => NotMade(x)
  BY <1>2, <1>9, MadeStays DEF Down
<1>12. Saved(p)' => Saved(p) /\ cur'[p] = cur[p]
  BY <1>6, <1>9 DEF Saved, Idle
<1>13. PageOrigins(p)'
  <2>1. ASSUME NEW i \in DOMAIN q PROVE ~NotMade(queue[p][i].obj)'
    <3>1. PICK o : o = q[i].obj
      OBVIOUS
    <3>2. ~NotMade(o)
      BY <1>2, <1>8, <3>1 DEF GInv, Origins, PageOrigins
    <3>3. ~NotMade(o)'
      BY <1>11, <3>2
    <3> QED
      BY <1>9, <3>1, <3>3
  <2>2. Saved(p)' => ~NotMade(cur[p].task.obj)'
    <3>1. PICK o : o = cur[p].task.obj
      OBVIOUS
    <3>2. Saved(p) => ~NotMade(o)'
      BY <1>11, <3>1 DEF GInv, Origins, PageOrigins
    <3> QED
      BY <1>12, <3>1, <3>2
  <2>3. ~NotMade(Entry(page[p].json, "file"))'
    <3>1. ~NotMade(f)'
      BY <1>2, <1>11
    <3> QED
      BY <1>1, <1>9, <3>1 DEF Entry, Entries
  <2> QED
    BY <1>9, <2>1, <2>2, <2>3 DEF PageOrigins
<1>14. ASSUME ~hurt PROVE QueueGrows(p)' /\ Knows(p)'
  <2>1. Covers(p, f, page[p].keys) /\ QueueGrows(p)
    BY <1>1, <1>2, <1>14 DEF GInv, Growth, Grows, Knows
  <2>2. PICK content : content = keys
    OBVIOUS
  <2>3. Low(f, content)' /\ HandLow(p, f, content)' /\ QueueLow(p, f, content)'
    <3>1. Low(f, content)'
      BY <1>5, <1>10, <2>1, <2>2 DEF Covers, Low
    <3>2. HandLow(p, f, content)'
      BY <1>5, <1>12, <2>1, <2>2 DEF Covers, HandLow
    <3>3. QueueLow(p, f, content)'
      BY <1>5, <1>8, <1>9, <2>1, <2>2 DEF Covers, QueueLow
    <3> QED
      BY <3>1, <3>2, <3>3
  <2>4. Knows(p)'
    <3>1. Covers(p, f, content)'
      BY <2>3 DEF Covers
    <3>2. Covers(p, Entry(page[p].json, "file"), page[p].keys)'
      BY <1>1, <1>9, <2>2, <3>1 DEF Entry, Entries
    <3> QED
      BY <1>9, <3>2 DEF Knows
  <2>5. ASSUME NEW i \in DOMAIN q, Firm(q[i])
        PROVE  Low(queue[p][i].obj, queue[p][i].content)'
               /\ HandLow(p, queue[p][i].obj, queue[p][i].content)'
    <3>1. PICK o, c : o = q[i].obj /\ c = q[i].content
      OBVIOUS
    <3>2. Low(o, c)' /\ HandLow(p, o, c)'
      <4>1. CASE o = f /\ c = keys
        BY <2>2, <2>3, <4>1
      <4>2. CASE i \in DOMAIN queue[p] /\ q[i] = queue[p][i]
        <5>1. Low(o, c) /\ HandLow(p, o, c)
          BY <1>2, <2>1, <2>5, <3>1, <4>2 DEF QueueGrows
        <5>2. Low(o, c)'
          BY <1>10, <5>1 DEF Low
        <5>3. HandLow(p, o, c)'
          BY <1>12, <5>1 DEF HandLow
        <5> QED
          BY <5>2, <5>3
      <4> QED
        BY <1>8, <3>1, <4>1, <4>2
    <3> QED
      BY <1>9, <3>1, <3>2
  <2>6. QueueGrows(p)'
    BY <1>9, <2>5 DEF QueueGrows
  <2> QED
    BY <2>4, <2>6
<1>15. ~hurt => \A z \in Page \ {p} : ~Busy(z)
  BY <1>2 DEF GInv, Growth
<1>16. cur'[p] = cur[p] \/ (cur'[p] = Idle /\ ~Saved(p))
  BY <1>6, <1>9
<1> QED
  BY <1>8, <1>9, <1>10, <1>11, <1>13, <1>14, <1>15, <1>16, QueueGrow

LEMMA SaveRingGrows ==
    ASSUME IInv, GInv, NEW p \in Page, SaveRing(p)
    PROVE  GInv'
BY NewRingGrows, OldRingGrows

-----------------------------------------------------------------------------
(* Growth in steps of saving                                                *)

\* A save that fails writes nothing.
LEMMA RejectedGrows ==
    ASSUME IInv, GInv, NEW p \in Page, Rejected(p), Saved(p),
           stored' = stored, finals' = finals, hurt' = hurt, Locks'
    PROVE  GInv'
<1>1. /\ queue' = queue /\ cur'[p].st = "stopped" /\ cur'[p] # Idle
      /\ \A z \in Page \ {p} : cur'[z] = cur[z]
  BY DEF Rejected, IInv, TypeOK, Idle
<1>2. ~Saved(p)' /\ Busy(p)
  BY <1>1 DEF Saved, GInv, Waits
<1>3. CASE page[p].st = "open"
  <2>1. page' = page
    BY <1>3 DEF Rejected
  <2>2. \A o : NotMade(o)' => NotMade(o)
    BY <2>1 DEF NotMade
  <2>3. Waits(p)' /\ Busy(p)'
    <3>1. \A i, j \in DOMAIN queue[p] : queue[p][i].obj = queue[p][j].obj => i = j
      BY DEF GInv, Waits
    <3> QED
      BY <1>1, <1>3, <2>1, <3>1 DEF Waits, Busy
  <2>4. PageOrigins(p)'
    <3>1. ASSUME NEW i \in DOMAIN queue[p] PROVE ~NotMade(queue[p][i].obj)'
      <4>1. PICK o : o = queue[p][i].obj
        OBVIOUS
      <4>2. ~NotMade(o)'
        BY <2>2, <4>1 DEF GInv, Origins, PageOrigins
      <4> QED
        BY <1>1, <4>1, <4>2
    <3>2. ~NotMade(Entry(page[p].json, "file"))'
      <4>1. PICK o : o = Entry(page[p].json, "file")
        OBVIOUS
      <4>2. ~NotMade(o)'
        BY <1>3, <2>2, <4>1 DEF GInv, Origins, PageOrigins
      <4> QED
        BY <2>1, <4>1, <4>2 DEF Entry, Entries
    <3> QED
      BY <1>1, <1>2, <1>3, <2>1, <3>1, <3>2 DEF PageOrigins
  <2>5. ASSUME ~hurt PROVE Grows(p)'
    <3>1. Grows(p)
      BY <2>5 DEF GInv, Growth
    <3>2. \A o, c : /\ Low(o, c)' <=> Low(o, c)
                    /\ HandLow(p, o, c)'
                    /\ QueueLow(p, o, c)' <=> QueueLow(p, o, c)
                    /\ Covers(p, o, c) => Covers(p, o, c)'
      BY <1>1, <1>2 DEF Low, HandLow, QueueLow, Covers
    <3>3. HandGrows(p)'
      BY <1>2 DEF HandGrows
    <3>4. QueueGrows(p)'
      BY <1>1, <1>2, <3>1, <3>2 DEF Grows, QueueGrows
    <3>5. Knows(p)'
      <4>1. PICK o, c : o = Entry(page[p].json, "file") /\ c = page[p].keys
        OBVIOUS
      <4>2. Covers(p, o, c)'
        BY <1>3, <3>1, <3>2, <4>1 DEF Grows, Knows
      <4>3. Covers(p, Entry(page[p].json, "file"), page[p].keys)'
        BY <2>1, <4>1, <4>2 DEF Entry, Entries
      <4> QED
        BY <1>3, <2>1, <4>3 DEF Knows
    <3> QED
      BY <3>3, <3>4, <3>5 DEF Grows
  <2>6. ~hurt' /\ Busy(p)' => \A z \in Page \ {p} : ~Busy(z)
    BY <1>2 DEF GInv, Growth
  <2> QED
    BY <1>1, <2>1, <2>2, <2>3, <2>4, <2>5, <2>6, ClientGrows
<1>4. CASE page[p].st # "open"
  <2>1. Ends(p, "failed")
    BY <1>4 DEF Rejected
  <2> QED
    BY <1>1, <2>1, EndsGrow
<1> QED
  BY <1>3, <1>4

\* What keeps others' transactions, when a task in hand is rejected.
LEMMA RejectedHand ==
    ASSUME TypeOK, NEW p \in Page, Rejected(p)
    PROVE  cur'[p].st = "stopped" /\ \A z \in Page \ {p} : cur'[z] = cur[z]
BY DEF Rejected, TypeOK

LEMMA StartRefusedGrows ==
    ASSUME IInv, GInv, NEW p \in Page, StartRefused(p)
    PROVE  GInv'
<1>1. /\ cur[p].st = "start" /\ Rejected(p) /\ Saved(p)
      /\ stored' = stored /\ finals' = finals /\ hurt' = hurt /\ locked \subseteq locked'
  BY DEF StartRefused, Saved
<1>2. Locks'
  BY <1>1, RejectedHand, LocksStay DEF GInv, IInv
<1> QED
  BY <1>1, <1>2, RejectedGrows

LEMMA StartLostGrows ==
    ASSUME IInv, GInv, NEW p \in Page, StartLost(p)
    PROVE  GInv'
<1>1. /\ cur[p].st = "start" /\ Rejected(p) /\ Saved(p)
      /\ stored' = stored /\ finals' = finals /\ hurt' = hurt /\ locked \subseteq locked'
  BY DEF StartLost, Saved
<1>2. Locks'
  BY <1>1, RejectedHand, LocksStay DEF GInv, IInv
<1> QED
  BY <1>1, <1>2, RejectedGrows

\* Only the lock of a cancelled transaction is gone.
LEMMA BytesLostGrows ==
    ASSUME IInv, GInv, NEW p \in Page, BytesLost(p)
    PROVE  GInv'
<1>1. /\ cur[p].st = "put" /\ Rejected(p) /\ Saved(p)
      /\ stored' = stored /\ finals' = finals /\ hurt' = hurt
      /\ locked' = locked \ {cur[p].task.obj}
  BY DEF BytesLost, Saved
<1>2. cur'[p].st = "stopped" /\ \A z \in Page \ {p} : cur'[z] = cur[z]
  BY <1>1, RejectedHand DEF IInv
<1>3. Locks'
  <2>1. /\ \A r \in finals : r.obj \in locked'
        /\ \A r, s \in finals : r.obj = s.obj => r = s
    BY <1>1 DEF GInv, Locks
  <2>2. ASSUME NEW z \in Page, cur'[z].st = "put"
        PROVE  /\ cur'[z].task.obj \in locked'
               /\ \A r \in finals : r.obj # cur'[z].task.obj
               /\ \A y \in Page \ {z} : cur'[y].st = "put" => cur'[y].task.obj # cur'[z].task.obj
    BY <1>1, <1>2, <2>2 DEF GInv, Locks
  <2> QED
    BY <1>1, <2>1, <2>2 DEF Locks
<1> QED
  BY <1>1, <1>3, RejectedGrows

\* A task is taken into hand, and nothing behind it is of the same object.
LEMMA TakeTaskGrows ==
    ASSUME IInv, GInv, NEW p \in Page, TakeTask(p)
    PROVE  GInv'
<1> DEFINE q == queue[p]
           h == Head(q)
           r == Tail(q)
<1>1. TypeOK /\ q \in Seq(TaskType) /\ q # <<>> /\ cur[p] = Idle
  BY DEF IInv, TypeOK, TakeTask
<1>2. /\ h = q[1] /\ 1 \in DOMAIN q
      /\ \A i \in DOMAIN r : i \in Nat /\ i + 1 \in DOMAIN q /\ r[i] = q[i + 1]
      /\ DOMAIN r = 1..Len(r) /\ Len(r) \in Nat
  BY <1>1, TailIs
<1>3. /\ cur' = [cur EXCEPT ![p] = [st |-> "start", task |-> h]]
      /\ queue' = [queue EXCEPT ![p] = r]
      /\ UNCHANGED <<page, made, serverVars, noteVars>>
  BY DEF TakeTask
<1> HIDE DEF h, r
<1>4. /\ page' = page /\ queue'[p] = r /\ cur'[p].st = "start" /\ cur'[p].task = h
      /\ stored' = stored /\ finals' = finals /\ locked' = locked /\ hurt' = hurt
      /\ \A z \in Page \ {p} : queue'[z] = queue[z] /\ cur'[z] = cur[z]
  BY <1>1, <1>3 DEF TypeOK, serverVars, noteVars
<1>5. cur[p].st = "idle" /\ ~Saved(p) /\ Saved(p)'
  BY <1>1, <1>4 DEF Saved, Idle
<1>6. page[p].st \in {"signing", "closing", "open"} /\ Busy(p)
  <2>1. page[p] \in PageType /\ OnWay(p) /\ Waits(p)
    BY DEF IInv, TypeOK, PageKept, GInv
  <2> QED
    BY <1>1, <1>5, <2>1 DEF PageType, OnWay, Waits, Busy
<1>7. \A o : NotMade(o)' => NotMade(o)
  BY <1>4 DEF NotMade
<1>8. \A i, j \in DOMAIN q : q[i].obj = q[j].obj => i = j
  BY DEF GInv, Waits
<1>9. /\ \A i, j \in DOMAIN r : r[i].obj = r[j].obj => i = j
      /\ \A i \in DOMAIN r : r[i].obj # h.obj
  <2>1. ASSUME NEW i \in DOMAIN r, NEW j \in DOMAIN r, r[i].obj = r[j].obj PROVE i = j
    <3>1. i + 1 = j + 1
      BY <1>2, <1>8, <2>1
    <3> QED
      BY <1>2, <3>1
  <2>2. ASSUME NEW i \in DOMAIN r, r[i].obj = h.obj PROVE FALSE
    <3>1. i + 1 = 1
      BY <1>2, <1>8, <2>2
    <3> QED
      BY <1>2, <3>1
  <2> QED
    BY <2>1, <2>2
<1>10. Locks'
  <2>1. \A z \in Page : cur'[z].st = "put" => cur[z].st = "put" /\ cur'[z].task = cur[z].task
    BY <1>4
  <2> QED
    BY <1>4, <2>1, LocksStay DEF GInv
<1>11. Waits(p)' /\ Busy(p)'
  BY <1>4, <1>6, <1>9 DEF Waits, Busy, GInv
<1>12. PageOrigins(p)'
  <2>1. \A i \in DOMAIN q : ~NotMade(q[i].obj)
    BY DEF GInv, Origins, PageOrigins
  <2>2. ~NotMade(cur[p].task.obj)'
    <3>1. PICK o : o = h.obj
      OBVIOUS
    <3>2. ~NotMade(o)'
      BY <1>2, <1>7, <2>1, <3>1
    <3> QED
      BY <1>4, <3>1, <3>2
  <2>3. ASSUME NEW i \in DOMAIN r PROVE ~NotMade(queue[p][i].obj)'
    <3>1. PICK o : o = r[i].obj
      OBVIOUS
    <3>2. ~NotMade(o)'
      BY <1>2, <1>7, <2>1, <3>1
    <3> QED
      BY <1>4, <3>1, <3>2
  <2>4. page[p].st = "closing" => ~NotMade(page[p].up)'
    <3>1. PICK o : o = page[p].up
      OBVIOUS
    <3>2. page[p].st = "closing" => ~NotMade(o)'
      BY <1>7, <3>1 DEF GInv, Origins, PageOrigins
    <3> QED
      BY <1>4, <3>1, <3>2
  <2>5. page[p].st = "open" => ~NotMade(Entry(page[p].json, "file"))'
    <3>1. PICK o : o = Entry(page[p].json, "file")
      OBVIOUS
    <3>2. page[p].st = "open" => ~NotMade(o)'
      BY <1>7, <3>1 DEF GInv, Origins, PageOrigins
    <3> QED
      BY <1>4, <3>1, <3>2 DEF Entry, Entries
  <2> QED
    BY <1>4, <1>6, <2>2, <2>3, <2>4, <2>5 DEF PageOrigins
<1>13. ASSUME ~hurt PROVE Grows(p)'
  <2>1. QueueGrows(p) /\ Knows(p)
    BY <1>13 DEF GInv, Growth, Grows
  <2>2. \A o, c : Low(o, c)' <=> Low(o, c)
    BY <1>4 DEF Low
  <2>3. HandGrows(p)'
    <3>1. PICK o, c : o = h.obj /\ c = h.content
      OBVIOUS
    <3>2. Firm(h) => Low(o, c)'
      BY <1>2, <1>6, <2>1, <2>2, <3>1 DEF QueueGrows
    <3> QED
      BY <1>4, <3>1, <3>2 DEF HandGrows
  <2>4. QueueGrows(p)'
    <3>1. ASSUME NEW i \in DOMAIN r, Firm(r[i])
          PROVE  Low(queue[p][i].obj, queue[p][i].content)'
                 /\ HandLow(p, queue[p][i].obj, queue[p][i].content)'
      <4>1. PICK o, c : o = r[i].obj /\ c = r[i].content
        OBVIOUS
      <4>2. Low(o, c)'
        BY <1>2, <1>6, <2>1, <2>2, <3>1, <4>1 DEF QueueGrows
      <4>3. HandLow(p, o, c)'
        BY <1>4, <1>9, <4>1 DEF HandLow
      <4> QED
        BY <1>4, <4>1, <4>2, <4>3
    <3> QED
      BY <1>4, <3>1 DEF QueueGrows
  <2>5. \A o, c : Covers(p, o, c) => Covers(p, o, c)'
    <3> SUFFICES ASSUME NEW o, NEW c, Covers(p, o, c) PROVE Covers(p, o, c)'
      OBVIOUS
    <3>1. HandLow(p, o, c)'
      BY <1>2, <1>4 DEF Covers, QueueLow, HandLow
    <3>2. QueueLow(p, o, c)'
      BY <1>2, <1>4 DEF Covers, QueueLow
    <3> QED
      BY <2>2, <3>1, <3>2 DEF Covers
  <2>6. Knows(p)'
    <3>1. ~Calm(p)
      BY <1>1 DEF Calm
    <3>2. page[p].st = "closing" => Covers(p, page[p].up, page[p].json)'
      <4>1. PICK o, c : o = page[p].up /\ c = page[p].json
        OBVIOUS
      <4>2. page[p].st = "closing" => Covers(p, o, c)'
        BY <2>1, <2>5, <4>1 DEF Knows
      <4> QED
        BY <1>4, <4>1, <4>2
    <3>3. page[p].st = "open" => Covers(p, Entry(page[p].json, "file"), page[p].keys)'
      <4>1. PICK o, c : o = Entry(page[p].json, "file") /\ c = page[p].keys
        OBVIOUS
      <4>2. page[p].st = "open" => Covers(p, o, c)'
        BY <2>1, <2>5, <4>1 DEF Knows
      <4> QED
        BY <1>4, <4>1, <4>2 DEF Entry, Entries
    <3> QED
      BY <1>4, <1>6, <2>1, <3>1, <3>2, <3>3 DEF Knows
  <2> QED
    BY <2>3, <2>4, <2>6 DEF Grows
<1>14. ~hurt' /\ Busy(p)' => \A z \in Page \ {p} : ~Busy(z)
  BY <1>4, <1>6 DEF GInv, Growth
<1> QED
  BY <1>4, <1>7, <1>10, <1>11, <1>12, <1>13, <1>14, ClientGrows

\* Objects of tasks were made before these tasks.
LEMMA OriginsStay ==
    ASSUME NEW p \in Page, PageOrigins(p), page'[p] = page[p], queue'[p] = queue[p],
           Saved(p)' => Saved(p) /\ cur'[p].task = cur[p].task,
           \A o : NotMade(o)' => NotMade(o)
    PROVE  PageOrigins(p)'
<1>1. Saved(p)' => ~NotMade(cur[p].task.obj)'
  <2>1. PICK o : o = cur[p].task.obj
    OBVIOUS
  <2>2. Saved(p) => ~NotMade(o)'
    BY <2>1 DEF PageOrigins
  <2> QED
    BY <2>1, <2>2
<1> QED
  BY <1>1 DEF PageOrigins

\* A new object was not there, as its existence has been checked.
LEMMA StartTransactionGrows ==
    ASSUME IInv, GInv, NEW p \in Page, StartTransaction(p)
    PROVE  GInv'
<1> DEFINE t == cur[p].task
<1>1. /\ cur[p].st = "start" /\ t.obj \notin locked /\ CanStart(t)
      /\ cur' = [cur EXCEPT ![p].st = "put"] /\ locked' = locked \cup {t.obj}
      /\ UNCHANGED <<page, queue, made, stored, finals, noteVars>>
  BY DEF StartTransaction, CanLock
<1>2. /\ cur'[p].st = "put" /\ cur'[p].task = t /\ Saved(p) /\ Saved(p)' /\ hurt' = hurt
      /\ \A z \in Page \ {p} : cur'[z] = cur[z]
  BY <1>1 DEF IInv, TypeOK, CurType, Saved, noteVars
<1>3. /\ page[p].st \notin {"none", "root", "apps", "ring", "file", "new"} /\ Busy(p)
      /\ cur[p] # Idle
  BY <1>1, <1>2 DEF GInv, Waits, Idle
<1>4. \A o : NotMade(o)' => NotMade(o)
  BY <1>1 DEF NotMade
<1>5. Locks'
  <2>1. /\ \A r \in finals : r.obj \in locked /\ r.obj # t.obj
        /\ \A r, s \in finals : r.obj = s.obj => r = s
        /\ \A z \in Page : cur[z].st = "put" => cur[z].task.obj # t.obj
    BY <1>1 DEF GInv, Locks
  <2>2. ASSUME NEW z \in Page, cur'[z].st = "put"
        PROVE  /\ cur'[z].task.obj \in locked'
               /\ \A r \in finals : r.obj # cur'[z].task.obj
               /\ \A y \in Page \ {z} : cur'[y].st = "put" => cur'[y].task.obj # cur'[z].task.obj
    <3>1. CASE z = p
      BY <1>1, <1>2, <2>1, <3>1
    <3>2. CASE z # p
      BY <1>1, <1>2, <2>1, <2>2, <3>2 DEF GInv, Locks
    <3> QED
      BY <3>1, <3>2
  <2> QED
    BY <1>1, <2>1, <2>2 DEF Locks
<1>6. Waits(p)' /\ Busy(p)'
  BY <1>1, <1>3 DEF Waits, Busy, GInv
<1>7. PageOrigins(p)'
  BY <1>1, <1>2, <1>4, OriginsStay DEF GInv, Origins
<1>8. ASSUME ~hurt PROVE Grows(p)'
  <2>1. HandGrows(p) /\ QueueGrows(p) /\ Knows(p)
    BY <1>8 DEF GInv, Growth, Grows
  <2>2. \A o, c : /\ Low(o, c)' <=> Low(o, c)
                  /\ HandLow(p, o, c)' <=> HandLow(p, o, c)
                  /\ QueueLow(p, o, c)' <=> QueueLow(p, o, c)
                  /\ Covers(p, o, c)' <=> Covers(p, o, c)
    BY <1>1, <1>2 DEF Low, HandLow, QueueLow, Covers
  <2>3. HandGrows(p)'
    <3>1. PICK o, c : o = t.obj /\ c = t.content
      OBVIOUS
    <3>2. Low(o, c)
      <4>1. CASE Firm(t)
        BY <1>2, <2>1, <3>1, <4>1 DEF HandGrows
      <4>2. CASE ~Firm(t)
        <5>1. stored[o] = None
          BY <1>1, <3>1, <4>2 DEF CanStart, Firm
        <5>2. \A r \in finals : r.obj # o
          BY <1>1, <3>1 DEF GInv, Locks
        <5> QED
          BY <5>1, <5>2 DEF Low
      <4> QED
        BY <4>1, <4>2
    <3> QED
      BY <1>2, <2>2, <3>1, <3>2 DEF HandGrows
  <2>4. QueueGrows(p)'
    BY <1>1, <1>3, <2>1, <2>2 DEF QueueGrows
  <2>5. Knows(p)'
    BY <1>1, <1>3, <2>1, <2>2 DEF Knows, Calm
  <2> QED
    BY <2>3, <2>4, <2>5 DEF Grows
<1>9. ~hurt' /\ Busy(p)' => \A z \in Page \ {p} : ~Busy(z)
  BY <1>2, <1>3 DEF GInv, Growth
<1> QED
  BY <1>1, <1>2, <1>4, <1>5, <1>6, <1>7, <1>8, <1>9, ClientGrows DEF noteVars

\* A request to finalize takes what was in hand, and what goes after it is no less.
LEMMA BytesSentGrows ==
    ASSUME IInv, GInv, NEW p \in Page, BytesSent(p)
    PROVE  GInv'
<1> DEFINE t == cur[p].task
           r == [obj |-> t.obj, content |-> t.content, by |-> p]
<1>1. /\ cur[p].st = "put" /\ finals' = finals \cup {r} /\ cur' = [cur EXCEPT ![p] = Idle]
      /\ UNCHANGED <<page, queue, made, stored, locked, noteVars>>
  BY DEF BytesSent
<1>2. r.obj = t.obj /\ r.content = t.content
  OBVIOUS
<1> HIDE DEF r
<1>3. /\ cur'[p] = Idle /\ cur'[p].st = "idle" /\ Saved(p) /\ ~Saved(p)' /\ hurt' = hurt
      /\ \A z \in Page \ {p} : cur'[z] = cur[z]
  BY <1>1 DEF IInv, TypeOK, Saved, Idle, noteVars
<1>4. /\ page[p].st \notin {"none", "root", "apps", "ring", "file", "new"} /\ Busy(p)
      /\ cur[p] # Idle
  BY <1>1, <1>3 DEF GInv, Waits, Idle
<1>5. \A o : NotMade(o)' => NotMade(o)
  BY <1>1 DEF NotMade
<1>6. Locks'
  <2>1. /\ t.obj \in locked /\ \A x \in finals : x.obj # t.obj
        /\ \A z \in Page \ {p} : cur[z].st = "put" => cur[z].task.obj # t.obj
    BY <1>1 DEF GInv, Locks
  <2>2. /\ \A x \in finals' : x.obj \in locked
        /\ \A x, s \in finals' : x.obj = s.obj => x = s
    BY <1>1, <1>2, <2>1 DEF GInv, Locks
  <2>3. ASSUME NEW z \in Page, cur'[z].st = "put"
        PROVE  /\ cur'[z].task.obj \in locked
               /\ \A x \in finals' : x.obj # cur'[z].task.obj
               /\ \A y \in Page \ {z} : cur'[y].st = "put" => cur'[y].task.obj # cur'[z].task.obj
    <3>1. z # p /\ cur'[z] = cur[z]
      BY <1>3, <2>3
    <3> QED
      BY <1>1, <1>2, <1>3, <2>1, <2>3, <3>1 DEF GInv, Locks
  <2> QED
    BY <1>1, <2>2, <2>3 DEF Locks
<1>7. Waits(p)'
  BY <1>1, <1>3, <1>4 DEF Waits, Busy, GInv
<1>8. PageOrigins(p)'
  BY <1>1, <1>3, <1>5, OriginsStay DEF GInv, Origins
<1>9. \A z \in Page \ {p} : Waits(z)' /\ PageOrigins(z)' /\ (Busy(z)' <=> Busy(z))
  BY <1>1, <1>3, <1>5, OthersWait DEF GInv, Origins
<1>10. Origins'
  <2>1. \A o \in Obj : stored'[o] # None => ~NotMade(o)'
    BY <1>1, <1>5 DEF GInv, Origins
  <2>2. ASSUME NEW x \in finals' PROVE ~NotMade(x.obj)'
    <3>1. PICK o : o = x.obj
      OBVIOUS
    <3>2. ~NotMade(o)
      BY <1>1, <1>2, <1>3, <3>1 DEF GInv, Origins, PageOrigins
    <3> QED
      BY <1>5, <3>1, <3>2
  <2> QED
    BY <1>8, <1>9, <2>1, <2>2 DEF Origins
<1>11. ASSUME ~hurt PROVE Growth'
  <2>1. HandGrows(p) /\ QueueGrows(p) /\ Knows(p) /\ \A z \in Page \ {p} : ~Busy(z)
    BY <1>4, <1>11 DEF GInv, Growth, Grows
  <2>2. ASSUME NEW z \in Page \ {p} PROVE Grows(z)'
    BY <1>9, <2>1 DEF Waits, Busy, Grows, HandGrows, QueueGrows, Knows
  <2>3. \A x \in finals' : stored'[x.obj] # None => stored'[x.obj] \subseteq x.content
    <3>1. Low(t.obj, t.content)
      BY <1>1, <1>3, <2>1 DEF HandGrows
    <3> QED
      BY <1>1, <1>2, <1>11, <3>1 DEF GInv, Growth, Low
  <2>4. \A o, c : Low(o, c) /\ HandLow(p, o, c) => Low(o, c)' /\ HandLow(p, o, c)'
    BY <1>1, <1>2, <1>3 DEF Low, HandLow
  <2>5. \A o, c : Covers(p, o, c) => Covers(p, o, c)'
    BY <1>1, <2>4 DEF Covers, QueueLow
  <2>6. HandGrows(p)'
    BY <1>3 DEF HandGrows
  <2>7. QueueGrows(p)'
    BY <1>1, <1>4, <2>1, <2>4 DEF QueueGrows
  <2>8. Knows(p)'
    BY <1>1, <1>4, <2>1, <2>5 DEF Knows, Calm
  <2>9. \A y, z \in Page : Busy(y)' /\ Busy(z)' => y = z
    BY <1>9, <2>1
  <2> QED
    BY <2>2, <2>3, <2>6, <2>7, <2>8, <2>9 DEF Growth, Grows
<1> QED
  BY <1>3, <1>6, <1>7, <1>9, <1>10, <1>11 DEF GInv

\* A step of a server, which leaves no less in objects.
LEMMA ServerGrows ==
    ASSUME IInv, GInv, UNCHANGED clientVars, hurt' = hurt, finals' \subseteq finals, Locks',
           \A o \in Obj : stored'[o] # None => stored[o] # None \/ \E r \in finals : r.obj = o,
           \A o \in Obj : \A c : Low(o, c) => Low(o, c)',
           ~hurt => \A r \in finals' :
                stored'[r.obj] # None => stored'[r.obj] \subseteq r.content
    PROVE  GInv'
<1>1. page' = page /\ queue' = queue /\ cur' = cur
  BY DEF clientVars
<1>2. \A o : NotMade(o)' => NotMade(o)
  BY <1>1 DEF NotMade
<1>3. \A z \in Page : Waits(z)' /\ PageOrigins(z)' /\ (Busy(z)' <=> Busy(z))
  BY <1>1, <1>2, OthersWait DEF GInv, Origins
<1>4. Origins'
  <2>1. \A o \in Obj : stored'[o] # None => ~NotMade(o)
    BY DEF GInv, Origins
  <2>2. ASSUME NEW x \in finals' PROVE ~NotMade(x.obj)'
    <3>1. PICK o : o = x.obj
      OBVIOUS
    <3>2. ~NotMade(o)
      BY <3>1 DEF GInv, Origins
    <3> QED
      BY <1>2, <3>1, <3>2
  <2> QED
    BY <1>2, <1>3, <2>1, <2>2 DEF Origins
<1>5. ASSUME ~hurt, NEW z \in Page PROVE Grows(z)'
  <2>1. HandGrows(z) /\ QueueGrows(z) /\ Knows(z)
    BY <1>5 DEF GInv, Growth, Grows
  <2>2. /\ Saved(z)' <=> Saved(z)
        /\ \A o, c : /\ HandLow(z, o, c)' <=> HandLow(z, o, c)
                     /\ QueueLow(z, o, c)' <=> QueueLow(z, o, c)
    BY <1>1 DEF Saved, HandLow, QueueLow
  <2>3. \A o \in Obj : \A c : Covers(z, o, c) => Covers(z, o, c)'
    BY <2>2 DEF Covers
  <2>4. HandGrows(z)'
    <3>1. Saved(z) => cur[z].task.obj \in Obj
      BY HandIs DEF Saved, IInv
    <3>2. PICK o, c : o = cur[z].task.obj /\ c = cur[z].task.content
      OBVIOUS
    <3>3. Saved(z) /\ (Firm(cur[z].task) \/ cur[z].st = "put") => Low(o, c)'
      BY <2>1, <3>1, <3>2 DEF HandGrows
    <3> QED
      BY <1>1, <2>2, <3>2, <3>3 DEF HandGrows
  <2>5. QueueGrows(z)'
    <3>1. \A i \in DOMAIN queue[z] : queue[z][i].obj \in Obj
      <4>1. queue[z] \in Seq(TaskType)
        BY DEF IInv, TypeOK
      <4>2. \A i \in DOMAIN queue[z] : queue[z][i] \in TaskType
        BY <4>1
      <4> QED
        BY <4>2 DEF TaskType
    <3>2. ASSUME NEW i \in DOMAIN queue[z], Firm(queue[z][i]), Busy(z)
          PROVE  Low(queue[z][i].obj, queue[z][i].content)'
                 /\ HandLow(z, queue[z][i].obj, queue[z][i].content)'
      <4>1. PICK o, c : o = queue[z][i].obj /\ c = queue[z][i].content
        OBVIOUS
      <4>2. Low(o, c)' /\ HandLow(z, o, c)'
        BY <2>1, <2>2, <3>1, <3>2, <4>1 DEF QueueGrows
      <4> QED
        BY <1>1, <4>1, <4>2
    <3> QED
      BY <1>1, <1>3, <3>2 DEF QueueGrows
  <2>6. Knows(z)'
    <3>1. Calm(z) => Calm(z)'
      BY <1>1 DEF Calm
    <3>2. page[z].st \in {"closing", "file", "new"} => Covers(z, page[z].up, page[z].json)'
      <4>1. PICK o, c : o = page[z].up /\ c = page[z].json
        OBVIOUS
      <4>2. page[z].st \in {"closing", "file", "new"} => o \in Obj
        BY <4>1 DEF IInv, PageKept, OnWay
      <4>3. page[z].st \in {"closing", "file", "new"} => Covers(z, o, c)'
        BY <2>1, <2>3, <4>1, <4>2 DEF Knows
      <4> QED
        BY <1>1, <4>1, <4>3
    <3>3. page[z].st = "open" => Covers(z, Entry(page[z].json, "file"), page[z].keys)'
      <4>1. PICK o, c : o = Entry(page[z].json, "file") /\ c = page[z].keys
        OBVIOUS
      <4>2. page[z].st = "open" => o \in Obj
        <5>1. page[z].json \in SUBSET Content
          BY DEF IInv, TypeOK, PageType
        <5>2. page[z].st = "open" => Entries(page[z].json, "file") # {}
          BY DEF IInv, PageKept, OnWay
        <5> QED
          BY <4>1, <5>1, <5>2, EntryIs
      <4>3. page[z].st = "open" => Covers(z, o, c)'
        BY <2>1, <2>3, <4>1, <4>2 DEF Knows
      <4> QED
        BY <1>1, <4>1, <4>3 DEF Entry, Entries
    <3> QED
      BY <1>1, <2>1, <3>1, <3>2, <3>3 DEF Knows
  <2> QED
    BY <2>4, <2>5, <2>6 DEF Grows
<1>6. ~hurt => Growth'
  BY <1>3, <1>5 DEF GInv, Growth
<1> QED
  BY <1>3, <1>4, <1>6 DEF GInv

\* What is finalized was put with everything that its object had.
LEMMA FinalizeTransactionGrows ==
    ASSUME IInv, GInv, NEW r \in finals, FinalizeTransaction(r)
    PROVE  GInv'
<1>1. /\ finals' = finals \ {r} /\ locked' = locked \ {r.obj} /\ hurt' = hurt
      /\ UNCHANGED clientVars /\ cur' = cur
  BY DEF FinalizeTransaction, clientVars, noteVars
<1>2. r.obj \in Obj /\ \A x \in finals : x.obj \in Obj
  BY DEF IInv, TypeOK, FinalType
<1>3. stored'[r.obj] = r.content /\ \A o \in Obj \ {r.obj} : stored'[o] = stored[o]
  BY <1>2 DEF FinalizeTransaction, IInv, TypeOK
<1>4. \A x \in finals' : x.obj # r.obj
  BY <1>1 DEF GInv, Locks
<1>5. Locks'
  BY <1>1, <1>4 DEF GInv, Locks
<1>6. \A o \in Obj : \A c : Low(o, c) => Low(o, c)'
  BY <1>1, <1>3 DEF Low
<1>7. ~hurt => \A x \in finals' :
            stored'[x.obj] # None => stored'[x.obj] \subseteq x.content
  BY <1>1, <1>2, <1>3, <1>4 DEF GInv, Growth
<1>8. \A o \in Obj : stored'[o] # None => stored[o] # None \/ \E x \in finals : x.obj = o
  BY <1>3
<1> QED
  BY <1>1, <1>5, <1>6, <1>7, <1>8, ServerGrows

\* A lost request leaves its object locked.
LEMMA FinalizeLostGrows ==
    ASSUME IInv, GInv, NEW r \in finals, FinalizeLost(r)
    PROVE  GInv'
<1>1. /\ finals' = finals \ {r} /\ UNCHANGED <<clientVars, stored, locked, hurt>>
  BY DEF FinalizeLost
<1>2. Locks'
  BY <1>1 DEF GInv, Locks, clientVars
<1>3. \A o \in Obj : \A c : Low(o, c) => Low(o, c)'
  BY <1>1 DEF Low
<1>4. ~hurt => \A x \in finals' :
            stored'[x.obj] # None => stored'[x.obj] \subseteq x.content
  BY <1>1 DEF GInv, Growth
<1> QED
  BY <1>1, <1>2, <1>3, <1>4, ServerGrows

-----------------------------------------------------------------------------
(* Growth in all steps                                                      *)

LEMMA GInit == Init => GInv
<1> SUFFICES ASSUME Init PROVE GInv
  OBVIOUS
<1>1. /\ \A p \in Page : page[p] = Fresh /\ queue[p] = <<>> /\ cur[p] = Idle
      /\ \A o \in Obj : stored[o] = None
      /\ finals = {}
  BY DEF Init
<1>2. \A p \in Page : /\ page[p].st = "none" /\ page[p].json = {} /\ page[p].keys = {}
                      /\ cur[p].st = "idle"
  BY <1>1 DEF Fresh, Idle
<1>3. \A p \in Page : ~Saved(p) /\ ~Busy(p)
  BY <1>2 DEF Saved, Busy
<1>4. \A p \in Page : Waits(p)
  BY <1>1, <1>2, <1>3 DEF Waits
<1>5. Locks
  BY <1>1, <1>2 DEF Locks
<1>6. Origins
  BY <1>1, <1>2, <1>3 DEF Origins, PageOrigins
<1>7. Growth
  BY <1>1, <1>3, <1>4, IdleGrows DEF Growth
<1> QED
  BY <1>4, <1>5, <1>6, <1>7 DEF GInv

\* Every step keeps the inductive invariant of growth.
LEMMA GNext ==
    ASSUME IInv, GInv, [Next]_vars
    PROVE  GInv'
<1>1. CASE Next
  <2>1. ASSUME NEW p \in Page, SignUp(p) \/ SignedUp(p) \/ Open(p) \/ SaveRing(p)
                                 \/ ReadFails(p) \/ Leave(p)
        PROVE  GInv'
    BY <2>1, SignUpGrows, SignedUpGrows, OpenGrows, SaveRingGrows, ReadFailsGrows,
       LeaveGrows
  <2>2. ASSUME NEW p \in Page, Opening(p)
        PROVE  GInv'
    BY <2>2, UnknownGrows, RootComesGrows, AppsComesGrows, RingComesGrows, LoadGrows,
       FileComesGrows DEF Opening
  <2>3. ASSUME NEW p \in Page, Saving(p) \/ StartLost(p) \/ BytesLost(p)
        PROVE  GInv'
    BY <2>3, TakeTaskGrows, StartTransactionGrows, StartRefusedGrows, BytesSentGrows,
       StartLostGrows, BytesLostGrows DEF Saving
  <2>4. ASSUME NEW r \in finals, FinalizeTransaction(r) \/ FinalizeLost(r)
        PROVE  GInv'
    BY <2>4, FinalizeTransactionGrows, FinalizeLostGrows
  <2> QED
    BY <1>1, <2>1, <2>2, <2>3, <2>4 DEF Next
<1>2. CASE UNCHANGED vars
  <2>1. UNCHANGED clientVars /\ UNCHANGED <<stored, locked, finals>> /\ cur' = cur /\ hurt' = hurt
    BY <1>2 DEF vars, clientVars, serverVars, noteVars
  <2>2. Locks'
    BY <2>1, LocksStay DEF GInv
  <2>3. \A o \in Obj : \A c : Low(o, c) => Low(o, c)'
    BY <2>1 DEF Low
  <2>4. ~hurt => \A x \in finals' :
            stored'[x.obj] # None => stored'[x.obj] \subseteq x.content
    BY <2>1 DEF GInv, Growth
  <2> QED
    BY <2>1, <2>2, <2>3, <2>4, ServerGrows
<1> QED
  BY <1>1, <1>2

\* Only a finalization changes an object, and it puts no less into it.
LEMMA ObjectsGrow ==
    ASSUME IInv, GInv, ~hurt, [Next]_vars, NEW o \in Obj, stored[o] # None
    PROVE  stored'[o] # None /\ stored[o] \subseteq stored'[o]
<1>1. CASE stored' = stored
  BY <1>1
<1>2. CASE \E r \in finals : FinalizeTransaction(r)
  <2>1. PICK r \in finals : FinalizeTransaction(r)
    BY <1>2
  <2>2. r.obj \in Obj /\ r.content \in SUBSET Content
    BY DEF IInv, TypeOK, FinalType
  <2>3. stored'[r.obj] = r.content /\ \A x \in Obj \ {r.obj} : stored'[x] = stored[x]
    BY <2>1, <2>2 DEF FinalizeTransaction, IInv, TypeOK
  <2>4. r.content # None
    BY <2>2, NoneAssumption
  <2>5. o = r.obj => stored[o] \subseteq r.content
    BY DEF GInv, Growth
  <2> QED
    BY <2>3, <2>4, <2>5
<1>3. stored' = stored \/ \E r \in finals : FinalizeTransaction(r)
  <2>1. ASSUME NEW p \in Page, SignUp(p) \/ SignedUp(p) \/ Open(p) \/ Opening(p) \/ SaveRing(p)
                                 \/ ReadFails(p) \/ Leave(p)
        PROVE  stored' = stored
    BY <2>1 DEF SignUp, SignedUp, Open, Opening, SaveRing, ReadFails, Leave, Unknown,
                RootComes, AppsComes, RingComes, Load, FileComes, serverVars
  <2>2. ASSUME NEW p \in Page, Saving(p) \/ StartLost(p) \/ BytesLost(p)
        PROVE  stored' = stored
    BY <2>2 DEF Saving, TakeTask, StartTransaction, StartRefused, BytesSent, StartLost,
                BytesLost, serverVars
  <2>3. ASSUME NEW r \in finals, FinalizeLost(r)
        PROVE  stored' = stored
    BY <2>3 DEF FinalizeLost
  <2>4. UNCHANGED vars => stored' = stored
    BY DEF vars, serverVars
  <2> QED
    BY <2>1, <2>2, <2>3, <2>4 DEF Next
<1> QED
  BY <1>1, <1>2, <1>3

\* The whole way to a change stays.
LEMMA KnownGrows ==
    ASSUME IInv, GInv, ~hurt, [Next]_vars
    PROVE  Known(stored) \subseteq Known(stored')
<1>1. \A p \in Page : Apps(p) \in Obj /\ Ring(p) \in Obj /\ File(p) \in Obj /\ Root \in Obj
  BY ObjKinds
<1> SUFFICES ASSUME NEW n \in Change, n \in Known(stored) PROVE n \in Known(stored')
  BY DEF Known
<1>2. PICK p, q, s \in Page :
        /\ stored[Root] # None /\ Apps(p) \in stored[Root]
        /\ stored[Apps(p)] # None /\ Ring(q) \in stored[Apps(p)]
        /\ stored[Ring(q)] # None /\ File(s) \in stored[Ring(q)]
        /\ stored[File(s)] # None /\ n \in stored[File(s)]
  BY DEF Known
<1>3. stored'[Root] # None /\ Apps(p) \in stored'[Root]
  BY <1>1, <1>2, ObjectsGrow
<1>4. stored'[Apps(p)] # None /\ Ring(q) \in stored'[Apps(p)]
  BY <1>1, <1>2, ObjectsGrow
<1>5. stored'[Ring(q)] # None /\ File(s) \in stored'[Ring(q)]
  BY <1>1, <1>2, ObjectsGrow
<1>6. stored'[File(s)] # None /\ n \in stored'[File(s)]
  BY <1>1, <1>2, ObjectsGrow
<1> QED
  BY <1>3, <1>4, <1>5, <1>6 DEF Known

-----------------------------------------------------------------------------
(* The theorems                                                             *)

\* Every step keeps the inductive invariant.
LEMMA NextHolds ==
    ASSUME IInv, [Next]_vars
    PROVE  IInv'
<1>1. CASE Next
  <2>1. ASSUME NEW p \in Page, SignUp(p) \/ SignedUp(p) \/ Open(p) \/ SaveRing(p)
                                 \/ ReadFails(p) \/ Leave(p)
        PROVE  IInv'
    BY <2>1, SignUpHolds, SignedUpHolds, OpenHolds, SaveRingHolds, ReadFailsHolds,
       LeaveHolds
  <2>2. ASSUME NEW p \in Page, Opening(p)
        PROVE  IInv'
    BY <2>2, UnknownHolds, RootComesHolds, AppsComesHolds, RingComesHolds, LoadHolds,
       FileComesHolds DEF Opening
  <2>3. ASSUME NEW p \in Page, Saving(p) \/ StartLost(p) \/ BytesLost(p)
        PROVE  IInv'
    BY <2>3, TakeTaskHolds, StartTransactionHolds, StartRefusedHolds, BytesSentHolds,
       StartLostHolds, BytesLostHolds DEF Saving
  <2>4. ASSUME NEW r \in finals, FinalizeTransaction(r) \/ FinalizeLost(r)
        PROVE  IInv'
    BY <2>4, FinalizeTransactionHolds, FinalizeLostHolds
  <2> QED
    BY <1>1, <2>1, <2>2, <2>3, <2>4 DEF Next
<1>2. CASE UNCHANGED vars
  <2>1. /\ UNCHANGED <<page, queue, cur, made>> /\ UNCHANGED <<stored, locked, finals>>
        /\ UNCHANGED <<faults, lost, hurt>>
    BY <1>2 DEF vars, clientVars, serverVars, noteVars
  <2>2. TypeOK'
    BY <2>1 DEF IInv, TypeOK
  <2>3. \A c \in Obj : Settled(c) => Settled(c)'
    BY <2>1, SettledStays
  <2>4. ASSUME NEW z \in Page
        PROVE  PageKept(z)'
    BY <2>1, <2>3, OthersKept DEF IInv
  <2>5. ServerKept'
    BY <2>1, <2>3, ServerStays DEF IInv
  <2> QED
    BY <2>2, <2>4, <2>5 DEF IInv
<1> QED
  BY <1>1, <1>2

\* The inductive invariant holds in every behaviour.
LEMMA Invariance == Spec => []IInv
<1>1. Init => IInv
  BY InitHolds
<1>2. IInv /\ [Next]_vars => IInv'
  BY NextHolds
<1> QED
  BY <1>1, <1>2, PTL DEF Spec

\* Variables of pages and of a storage server keep their types.
THEOREM TypeCorrect == Spec => []TypeOK
<1>1. IInv => TypeOK
  BY DEF IInv
<1> QED
  BY <1>1, Invariance, PTL

\* With any number of pages, and of failures, in whichever order finalizations come,
\* a child in a stored folder is stored, or on its way, or its own save has failed
\* (saving-proc.ts takes tasks in order, fs.ts puts a child's task before the one of
\* its folder).
THEOREM NoDanglingHolds == Spec => []NoDangling
<1>1. IInv => NoDangling
  BY DEF IInv, ServerKept, AllSettled, Settled, NoDangling
<1> QED
  BY <1>1, Invariance, PTL

\* The inductive invariant of growth holds in every behaviour.
LEMMA GrowthInvariance == Spec => []GInv
<1>1. Init => GInv
  BY GInit
<1>2. IInv /\ GInv /\ [Next]_vars => GInv'
  BY GNext
<1> QED
  BY <1>1, <1>2, Invariance, PTL DEF Spec

\* With any number of pages, that follow one another, and of failures, a change of a
\* keyring, that is once found from the root, is found for ever, as pages write into
\* folders and files all that these had, when they were read (fs.ts saves a folder as
\* a whole, keyring/index.ts does so with a keyring).
THEOREM KeyringStaysHolds == Spec => KeyringStays
<1>1. IInv /\ GInv /\ [Next]_vars => (~hurt => Known(stored) \subseteq Known(stored'))
  BY KnownGrows
<1>2. IInv /\ GInv /\ [Next]_vars =>
            [~hurt => Known(stored) \subseteq Known(stored')]_vars
  BY <1>1
<1> QED
  BY <1>2, Invariance, GrowthInvariance, PTL DEF Spec, KeyringStays
=============================================================================

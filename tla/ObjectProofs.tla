--------------------------- MODULE ObjectProofs ---------------------------
(***************************************************************************)
(* Proofs about ObjTransaction, for any set of transactions on a non-root  *)
(* object, and about ObjBytes, for any arrays, chunks, segments and buffer.*)
(***************************************************************************)
EXTENDS ObjTransaction, ObjBytes, FiniteSetTheorems, WellFoundedInduction, TLAPS

\* t may still change something in transaction's folder.
Active(t) == Holds(t) \/ tasks[t] # {}

Lock ==
    /\ \A t1, t2 \in Trans : Active(t1) /\ Active(t2) => t1 = t2
    /\ \A t \in Trans : Active(t) => lock

\* How progress of requests of one transaction relate to each other.
Progress(t) ==
    /\ tasks[t] # {} => start[t] \in {"tasks", "failed"}
    /\ "space" \in tasks[t] => tasks[t] \cap Part = {}
    /\ start[t] \notin {"ok", "dead"} =>
          close[t] = "none" /\ \A p \in Part : put[t][p] = "none"
    /\ start[t] = "dead" => close[t] \in {"none", "dead", "lost"}
    /\ start[t] = "ok" => close[t] # "dead"
    /\ close[t] = "lost" => \A p \in Part : put[t][p] # "open"
    /\ close[t] # "err"
    /\ renames[t] # {} => close[t] = "renaming"
    /\ put[t]["segs"] # "none" => put[t]["hdr"] = "ok"
    /\ close[t] = "renaming" => \A p \in Part : put[t][p] = "ok"
    /\ \A p \in Part :
          /\ put[t][p] = "open" => start[t] = "ok"
          /\ put[t][p] = "open" /\ close[t] # "none" => t \in Dropping
          /\ put[t][p] = "failed" => close[t] \notin {"none", "lost"}

\* What is in transaction's folder at every stage of an active transaction.
Folder(t) ==
    /\ Active(t) /\ start[t] \in {"tasks", "failed"} => params = NoTrans
    /\ start[t] = "tasks" =>
          \A p \in Part :
             newFile[p] = IF "space" \in tasks[t] \/ p \in tasks[t] THEN NoTrans ELSE t
    /\ start[t] = "saving" =>
          params = "empty" /\ \A p \in Part : newFile[p] = t
    /\ start[t] = "ok" =>
          /\ close[t] \in {"none", "renaming", "setver", "rmobj", "rmobjdir"} =>
                params = t
          /\ close[t] = "none" => \A p \in Part : newFile[p] = t
          /\ close[t] = "renaming" => \A p \in renames[t] : newFile[p] = t

FreeFolder == ~lock => params = NoTrans /\ \A p \in Part : newFile[p] = NoTrans

\* The file current.v, and the file `transaction' that tells about it.
Current ==
    /\ current # "absent" => objFolder
    /\ current \in {"absent", "new"} => curVer = 0
    /\ current = "num" => curVer > 0
    /\ params \in Trans => start[params] \in {"ok", "dead"}
    /\ current = "empty" =>
          curVer = IF params \in Trans THEN ver[params] - 1 ELSE 0

\* t is going to give the object its next version.
Uploading(t) ==
    \/ start[t] = "saving"
    \/ start[t] = "ok" /\ close[t] \in {"none", "renaming"}

\* What an active transaction relies upon in object's folder.
Version(t) ==
    /\ "openv" \in tasks[t] => objFolder /\ current = "absent"
    /\ "writev" \in tasks[t] => current = "empty"
    /\ start[t] = "tasks" =>
          IF isNew[t]
          THEN /\ "readver" \notin tasks[t]
               /\ ver[t] = 1
               /\ tasks[t] \cap {"mkobj", "openv", "writev"} = {} => current = "new"
          ELSE "readver" \notin tasks[t] => current = "num" /\ ver[t] = curVer + 1
    /\ Uploading(t) =>
          /\ ver[t] = curVer + 1
          /\ current = IF isNew[t] THEN "new" ELSE "num"
    /\ start[t] = "ok" /\ close[t] = "setver" =>
          ver[t] = curVer + 1 /\ current = "empty"
    /\ start[t] = "ok" /\ close[t] = "rmobj" => current = "new"
    /\ start[t] = "ok" /\ close[t] = "rmobjdir" => current = "absent"
    /\ start[t] = "ok" /\ close[t] \in {"rm_fin", "rm_can"} => current # "empty"

\* Files of version v, when it is made by t.
FilesOf(v, t) == {[ver |-> v, part |-> p, from |-> t] : p \in Part}
FilesAt(v) == {f \in verFiles : f.ver = v}

NoPending == \A f \in verFiles : f.ver <= curVer

\* Files of versions in object's folder.
Files ==
    /\ \A f \in verFiles : f.ver \in 1..(curVer + 1)
    /\ \A f \in verFiles : f.from \in bytes[f.from][f.part]
    /\ \A f \in verFiles : f.ver <= curVer =>
          close[f.from] \in {"rm_fin", "finalized", "dead"}
    /\ ~lock => NoPending

Pending(t) ==
    /\ Active(t) /\ close[t] \notin {"renaming", "setver"} => NoPending
    /\ start[t] = "ok" /\ close[t] \in {"renaming", "setver"} =>
          FilesAt(curVer + 1) =
             {[ver |-> curVer + 1, part |-> p, from |-> t] : p \in Part \ renames[t]}

Finalized(t) ==
    close[t] \in {"rm_fin", "finalized"} =>
        ver[t] \in 1..curVer /\ FilesAt(ver[t]) = FilesOf(ver[t], t)

Bytes(t) ==
    \A p \in Part :
        /\ bytes[t][p] \subseteq {t} \cup Dropping
        /\ put[t][p] = "ok" /\ close[t] \in {"none", "renaming"} => t \in bytes[t][p]

\* The inductive invariant.
IInv ==
    /\ TypeOK
    /\ Lock
    /\ \A t \in Trans : Progress(t)
    /\ \A t \in Trans : Folder(t)
    /\ FreeFolder
    /\ Current
    /\ \A t \in Trans : Version(t)
    /\ Files
    /\ \A t \in Trans : Pending(t)
    /\ \A t \in Trans : Finalized(t)
    /\ \A t \in Trans : Bytes(t)

-----------------------------------------------------------------------------
(* Type correctness                                                         *)

\* No step takes a variable out of its type, with a root object, or any other one.
LEMMA TypeStep == ASSUME TypeOK, [Next]_vars PROVE TypeOK'
<1> USE TransAssumption DEF TypeOK, Part
<1>1. ASSUME NEW t \in Trans, NEW new \in BOOLEAN, StartTransaction(t, new)
      PROVE  TypeOK'
  <2> USE <1>1 DEF StartTransaction, FolderExists
  <2>1. isNew' \in [Trans -> BOOLEAN] /\ ver' \in [Trans -> Nat]
    OBVIOUS
  <2>2. start' \in [Trans -> StartState] /\ lock' \in BOOLEAN
    BY DEF StartState
  <2>3. tasks' \in [Trans -> SUBSET Task]
    <3>1. {"space"} \cup (IF ~new THEN {"readver"} ELSE IF IsRoot THEN {} ELSE {"mkobj"})
             \in SUBSET Task
      BY DEF Task
    <3> QED
      BY <3>1
  <2> QED
    BY <2>1, <2>2, <2>3 DEF closeVars
<1>2. ASSUME NEW t \in Trans, StartSteps(t) PROVE TypeOK'
  <2>1. ASSUME NEW task \in Task, NEW next \in SUBSET Task, TaskDone(t, task, next)
        PROVE  start' \in [Trans -> StartState] /\ tasks' \in [Trans -> SUBSET Task]
    BY <2>1 DEF TaskDone
  <2>2. ASSUME NEW task \in Task, TaskFailed(t, task)
        PROVE  start' \in [Trans -> StartState] /\ tasks' \in [Trans -> SUBSET Task]
    BY <2>2 DEF TaskFailed, StartState
  <2>3. /\ {"mkobj", "openv", "writev", "readver", "space"} \subseteq Task
        /\ \A p \in Part : p \in Task
        /\ {} \in SUBSET Task /\ {"openv"} \in SUBSET Task
        /\ {"writev"} \in SUBSET Task /\ Part \in SUBSET Task
    BY DEF Task
  <2> USE DEF closeVars, diskVars
  <2>4. CASE MakeObjFolder(t)
    BY <2>1, <2>2, <2>3, <2>4 DEF MakeObjFolder
  <2>5. CASE OpenNewVersion(t)
    BY <2>1, <2>3, <2>5 DEF OpenNewVersion
  <2>6. CASE WriteNewVersion(t)
    BY <2>1, <2>3, <2>6 DEF WriteNewVersion
  <2>7. CASE ReadVersion(t)
    <3>1. current = "num" => ver' = [ver EXCEPT ![t] = curVer + 1]
      BY <2>7 DEF ReadVersion, NextVersion
    <3>2. current # "num" => ver' = ver
      BY <2>7 DEF ReadVersion, NextVersion
    <3>3. ver' \in [Trans -> Nat]
      BY <3>1, <3>2
    <3> QED
      BY <2>1, <2>2, <2>3, <2>7, <3>3 DEF ReadVersion, NextVersion
  <2>8. CASE CheckSpace(t)
    BY <2>1, <2>2, <2>3, <2>8 DEF CheckSpace
  <2>9. ASSUME NEW p \in Part, AllocateFile(t, p) PROVE TypeOK'
    <3>1. newFile' \in [Part -> Trans \cup {NoTrans}]
      BY <2>9 DEF AllocateFile
    <3>2. start' \in [Trans -> StartState] /\ tasks' \in [Trans -> SUBSET Task]
      BY <2>1, <2>2, <2>3, <2>9 DEF AllocateFile
    <3> QED
      BY <2>9, <3>1, <3>2 DEF AllocateFile
  <2>10. CASE OpenParams(t)        BY <2>10 DEF OpenParams, StartState
  <2>11. CASE WriteParams(t)       BY <2>11 DEF WriteParams, StartState
  <2> QED
    BY <1>2, <2>4, <2>5, <2>6, <2>7, <2>8, <2>9, <2>10, <2>11 DEF StartSteps
<1>3. ASSUME NEW t \in Trans, NEW p \in Part, PutBytes(t, p) PROVE TypeOK'
  <2>1. put' \in [Trans -> [Part -> PutState]]
    BY <1>3 DEF PutBytes, PutState
  <2> QED
    BY <1>3, <2>1 DEF PutBytes, diskVars, startVars, closeVars
<1>4. ASSUME NEW t \in Trans, NEW p \in Part, WriteBytes(t, p) PROVE TypeOK'
  <2> DEFINE n == newFile[p]
  <2>1. CASE n = NoTrans
    <3>1. put' = [put EXCEPT ![t][p] = "failed"] /\ bytes' = bytes
      BY <1>4, <2>1 DEF WriteBytes
    <3>2. put' \in [Trans -> [Part -> PutState]]
      BY <3>1 DEF PutState
    <3> QED
      BY <1>4, <3>1, <3>2 DEF WriteBytes, startVars, closeVars
  <2>2. CASE n # NoTrans
    <3>1. /\ \E to \in {"open", "ok", "stalled"} : put' = [put EXCEPT ![t][p] = to]
          /\ bytes' = [bytes EXCEPT ![n][p] = bytes[n][p] \cup {t}]
      BY <1>4, <2>2 DEF WriteBytes
    <3>2. n \in Trans
      BY <2>2
    <3> HIDE DEF n
    <3>3. put' \in [Trans -> [Part -> PutState]]
      BY <3>1 DEF PutState
    <3>4. bytes' \in [Trans -> [Part -> SUBSET Trans]]
      BY <3>1, <3>2
    <3> QED
      BY <1>4, <3>3, <3>4 DEF WriteBytes, startVars, closeVars
  <2> QED
    BY <2>1, <2>2
<1>5. ASSUME NEW t \in Trans, CloseSteps(t) PROVE TypeOK'
  <2> USE DEF CloseState, startVars, closeVars
  <2>1. ASSUME NEW p \in Part, RenameNewFile(t, p) PROVE TypeOK'
    <3>1. /\ newFile' = newFile \/ newFile' = [newFile EXCEPT ![p] = NoTrans]
          /\ close' = close \/ close' = [close EXCEPT ![t] = "err"]
          /\ renames' = [renames EXCEPT ![t] = renames[t] \ {p}]
      BY <2>1 DEF RenameNewFile
    <3>5. newFile' \in [Part -> Trans \cup {NoTrans}]
      BY <3>1
    <3>6. close' \in [Trans -> CloseState]
      BY <3>1
    <3>4. renames' \in [Trans -> SUBSET Part]
      BY <3>1
    <3>2. newFile[p] # NoTrans =>
             [ver |-> ver[t], part |-> p, from |-> newFile[p]] \in VerFile
      BY DEF VerFile
    <3>3. verFiles' \subseteq VerFile
      BY <2>1, <3>2 DEF RenameNewFile
    <3> QED
      BY <2>1, <3>3, <3>4, <3>5, <3>6 DEF RenameNewFile
  <2>2. CASE OpenCurrentVersion(t)   BY <2>2 DEF OpenCurrentVersion, RenamesDone
  <2>3. CASE WriteCurrentVersion(t)  BY <2>3 DEF WriteCurrentVersion
  <2>4. CASE UnlinkObjFiles(t)       BY <2>4 DEF UnlinkObjFiles
  <2>5. CASE RemoveObjFolder(t)      BY <2>5 DEF RemoveObjFolder
  <2>6. CASE UnlinkTransFile(t)
    <3>1. newFile' \in [Part -> Trans \cup {NoTrans}]
      BY <2>6 DEF UnlinkTransFile
    <3>2. params' \in Trans \cup {NoTrans, "empty"}
      BY <2>6 DEF UnlinkTransFile
    <3>3. UNCHANGED <<objFolder, current, curVer, verFiles, lock, bytes, isNew, ver, start,
                      tasks, put, close, renames>>
      BY <2>6 DEF UnlinkTransFile
    <3> HIDE DEF CloseState
    <3> QED
      BY <3>1, <3>2, <3>3
  <2>7. CASE RemoveTransFolder(t)    BY <2>7 DEF RemoveTransFolder
  <2> QED
    BY <1>5, <2>1, <2>2, <2>3, <2>4, <2>5, <2>6, <2>7 DEF CloseSteps
<1>6. ASSUME NEW t \in Trans, FinalizeTransaction(t) PROVE TypeOK'
  <2>1. \/ /\ close' = [close EXCEPT ![t] = "renaming"]
           /\ renames' = [renames EXCEPT ![t] = Part]
        \/ /\ close' = [close EXCEPT ![t] = "err"]
           /\ renames' = renames
    BY <1>6 DEF FinalizeTransaction, AllSent
  <2>2. close' \in [Trans -> CloseState]
    BY <2>1 DEF CloseState
  <2>3. renames' \in [Trans -> SUBSET Part]
    BY <2>1
  <2> QED
    BY <1>6, <2>2, <2>3 DEF FinalizeTransaction, AllSent, diskVars, startVars
<1>7. ASSUME NEW t \in Trans, CancelTransaction(t) PROVE TypeOK'
  <2>1. close' \in [Trans -> CloseState]
    BY <1>7 DEF CancelTransaction, RemovesObj, CloseState
  <2> QED
    BY <1>7, <2>1 DEF CancelTransaction, RemovesObj, diskVars, startVars
<1>10. ASSUME NEW t \in Trans, LoseRequest(t) PROVE TypeOK'
  <2>1. close' \in [Trans -> CloseState]
    BY <1>10 DEF LoseRequest, CloseState
  <2> QED
    BY <1>10, <2>1 DEF LoseRequest, diskVars, startVars
<1>8. CASE Crash
  BY <1>8 DEF Crash, StartState, PutState, CloseState, diskVars
<1>9. CASE UNCHANGED vars
  BY <1>9 DEF vars, diskVars, startVars, closeVars
<1> QED
  BY <1>1, <1>2, <1>3, <1>4, <1>5, <1>6, <1>7, <1>8, <1>9, <1>10
     DEF Next, ServerSteps, ClientSteps

\* An empty store has variables of their types.
LEMMA TypeInit == ASSUME Init PROVE TypeOK
<1>1. /\ newFile \in [Part -> Trans \cup {NoTrans}]
      /\ bytes \in [Trans -> [Part -> SUBSET Trans]]
      /\ isNew \in [Trans -> BOOLEAN]
      /\ ver \in [Trans -> Nat]
  BY DEF Init
<1>2. /\ start \in [Trans -> StartState]
      /\ put \in [Trans -> [Part -> PutState]]
      /\ close \in [Trans -> CloseState]
  BY DEF Init, StartState, PutState, CloseState
<1>3. tasks \in [Trans -> SUBSET Task] /\ renames \in [Trans -> SUBSET Part]
  BY DEF Init
<1>4. objFolder \in BOOLEAN
  BY EnvAssumption DEF Init
<1> QED
  BY <1>1, <1>2, <1>3, <1>4 DEF Init, TypeOK

\* Variables keep their types, for the root object as well.
THEOREM TypeCorrect == Spec => []TypeOK
  BY TypeInit, TypeStep, PTL DEF Spec

-----------------------------------------------------------------------------
(* Every step preserves the invariant                                       *)

\* Nothing is expected of a transaction that is not active.
LEMMA IdleExpectsNothing ==
    \A u \in Trans : Progress(u) /\ ~Active(u) => Folder(u) /\ Version(u) /\ Pending(u)
BY DEF Progress, Active, Holds, Folder, Version, Uploading, Pending

\* When no other transaction is active, a step of t has to care about t and
\* about what is common.
LEMMA ActiveStep ==
    ASSUME IInv, TypeOK', NEW t \in Trans,
           \A u \in Trans \ {t} : ~Active(u),
           \A u \in Trans \ {t} : /\ start'[u] = start[u]
                                  /\ tasks'[u] = tasks[u]
                                  /\ close'[u] = close[u],
           Active(t)' => lock',
           \A u \in Trans : Progress(u)',
           Folder(t)', FreeFolder', Current', Version(t)', Files', Pending(t)',
           \A u \in Trans : Finalized(u)',
           \A u \in Trans : Bytes(u)'
    PROVE  IInv'
<1>1. \A u \in Trans \ {t} : ~Active(u)'
  BY DEF IInv, Lock, Active, Holds
<1>2. Lock'
  BY <1>1 DEF Lock
<1>3. (\A u \in Trans : Progress(u) /\ ~Active(u) =>
                          Folder(u) /\ Version(u) /\ Pending(u))'
  BY IdleExpectsNothing, PTL
<1> QED
  BY <1>1, <1>2, <1>3 DEF IInv

\* What is known about files stays so, when a step does not touch them.
LEMMA FilesKept ==
    ASSUME IInv, TypeOK', NEW t \in Trans,
           UNCHANGED <<verFiles, curVer>>,
           \A u \in Trans, p \in Part : bytes[u][p] \subseteq bytes'[u][p],
           \A u \in Trans : close[u] \in {"rm_fin", "finalized", "dead"} =>
                               close'[u] \in {"rm_fin", "finalized", "dead"},
           \A u \in Trans : close'[u] \in {"rm_fin", "finalized"} =>
                               close[u] \in {"rm_fin", "finalized"} /\ ver'[u] = ver[u],
           ~lock' => ~lock \/ NoPending
    PROVE  Files' /\ \A u \in Trans : Finalized(u)'
<1>1. Files'
  BY DEF IInv, Files, NoPending, TypeOK, VerFile
<1>2. \A u \in Trans : Finalized(u)'
  BY DEF IInv, Finalized, FilesAt, FilesOf
<1> QED
  BY <1>1, <1>2

\* What holds when t is active.
LEMMA Alone ==
    ASSUME IInv, NEW t \in Trans, Active(t)
    PROVE  /\ lock
           /\ \A u \in Trans \ {t} : /\ ~Active(u)
                                     /\ tasks[u] = {}
                                     /\ start[u] \notin {"tasks", "saving"}
                                     /\ start[u] = "ok" => close[u] \in {"finalized", "cancelled"}
BY DEF IInv, Lock, Active, Holds, Progress

\* Folder of a new object appears with no file current.v in it.
LEMMA MakeObjFolderKeeps ==
    ASSUME IInv, ~IsRoot, NEW t \in Trans, MakeObjFolder(t)
    PROVE  IInv'
<1> USE TransAssumption DEF Part
<1>1. TypeOK /\ TypeOK'
  BY TypeStep DEF IInv, Next, ServerSteps, StartSteps
<1>2. Active(t)
  BY <1>1 DEF IInv, TypeOK, Active, Holds, Progress, MakeObjFolder, TaskDone,
     TaskFailed, closeVars
<1>3. /\ lock
      /\ \A u \in Trans \ {t} : /\ ~Active(u) /\ tasks[u] = {}
                                /\ start[u] \notin {"tasks", "saving"}
                                /\ start[u] = "ok" => close[u] \in {"finalized", "cancelled"}
  BY <1>2, Alone
<1>4. \A u \in Trans \ {t} : /\ start'[u] = start[u] /\ tasks'[u] = tasks[u]
                            /\ close'[u] = close[u] /\ renames'[u] = renames[u]
                            /\ put'[u] = put[u]
  BY <1>1 DEF TypeOK, MakeObjFolder, TaskDone, TaskFailed, closeVars
<1>5. /\ "mkobj" \in tasks[t]
      /\ tasks'[t] \in {tasks[t] \ {"mkobj"}, (tasks[t] \ {"mkobj"}) \cup {"openv"}}
      /\ start'[t] \in {start[t], "failed"}
      /\ UNCHANGED <<close, put, renames>>
  BY <1>1 DEF TypeOK, MakeObjFolder, TaskDone, TaskFailed, closeVars
<1>prog. \A u \in Trans : Progress(u)'
  <2>1. Progress(t)'
    BY <1>1, <1>5 DEF IInv, TypeOK, Progress
  <2>2. ASSUME NEW u \in Trans \ {t} PROVE Progress(u)'
    BY <1>4, <2>2 DEF IInv, Progress
  <2> QED
    BY <2>1, <2>2
<1>lock. Active(t)' => lock'
  BY <1>1, <1>3 DEF TypeOK, MakeObjFolder, TaskDone, TaskFailed, closeVars
<1>fold. Folder(t)'
  BY <1>1, <1>2, <1>3 DEF IInv, TypeOK, Progress, Folder, Version, Active, Holds,
     MakeObjFolder, TaskDone, TaskFailed, closeVars
<1>free. FreeFolder'
  BY <1>1, <1>3 DEF IInv, TypeOK, FreeFolder, MakeObjFolder, TaskDone, TaskFailed,
     closeVars
<1>curr. Current'
  BY <1>1, <1>2, <1>3 DEF IInv, TypeOK, Current, Progress, Folder, Version,
     Uploading, Active, Holds, MakeObjFolder, TaskDone, TaskFailed, closeVars
<1>vers. Version(t)'
  BY <1>1, <1>2, <1>3 DEF IInv, TypeOK, Version, Uploading, Progress, Folder,
     Current, Active, Holds, MakeObjFolder, TaskDone, TaskFailed, closeVars
<1>fin. Files' /\ \A u \in Trans : Finalized(u)'
  BY <1>1, <1>3, FilesKept DEF IInv, TypeOK, NoPending, Pending, Progress, Active,
     Holds, MakeObjFolder, TaskDone, TaskFailed, closeVars
<1>pend. Pending(t)'
  BY <1>1, <1>2, <1>3 DEF IInv, TypeOK, Pending, NoPending, FilesAt, Progress,
     Active, Holds, MakeObjFolder, TaskDone, TaskFailed, closeVars
<1>byte. \A u \in Trans : Bytes(u)'
  BY <1>1, <1>3, <1>4 DEF IInv, TypeOK, Bytes, Progress, MakeObjFolder, TaskDone,
     TaskFailed, closeVars
<1> QED
  BY <1>1, <1>3, <1>4, <1>prog, <1>lock, <1>fold, <1>free, <1>curr, <1>vers, <1>fin,
     <1>pend, <1>byte, ActiveStep

\* Only t can see an empty current.v.
LEMMA OpenNewVersionKeeps ==
    ASSUME IInv, ~IsRoot, NEW t \in Trans, OpenNewVersion(t)
    PROVE  IInv'
<1> USE TransAssumption DEF Part
<1>1. TypeOK /\ TypeOK'
  BY TypeStep DEF IInv, Next, ServerSteps, StartSteps
<1>2. Active(t)
  BY <1>1 DEF IInv, TypeOK, Active, Holds, Progress, OpenNewVersion, TaskDone, closeVars
<1>3. /\ lock
      /\ \A u \in Trans \ {t} : /\ ~Active(u) /\ tasks[u] = {}
                                /\ start[u] \notin {"tasks", "saving"}
                                /\ start[u] = "ok" => close[u] \in {"finalized", "cancelled"}
  BY <1>2, Alone
<1>4. \A u \in Trans \ {t} : /\ start'[u] = start[u] /\ tasks'[u] = tasks[u]
                            /\ close'[u] = close[u] /\ renames'[u] = renames[u]
                            /\ put'[u] = put[u]
  BY <1>1 DEF TypeOK, OpenNewVersion, TaskDone, closeVars
<1>prog. \A u \in Trans : Progress(u)'
  BY <1>1, <1>3, <1>4 DEF IInv, TypeOK, Progress, OpenNewVersion, TaskDone, closeVars
<1>lock. Active(t)' => lock'
  BY <1>1, <1>3 DEF TypeOK, OpenNewVersion, TaskDone, closeVars
<1>fold. Folder(t)'
  BY <1>1, <1>2, <1>3 DEF IInv, TypeOK, Progress, Folder, Version, Active, Holds,
     OpenNewVersion, TaskDone, closeVars
<1>free. FreeFolder'
  BY <1>1, <1>3 DEF IInv, TypeOK, FreeFolder, OpenNewVersion, TaskDone, closeVars
<1>curr. Current'
  <2>1. "openv" \in tasks[t] /\ UNCHANGED <<objFolder, curVer, params>> /\ current' = "empty"
    BY DEF OpenNewVersion, TaskDone
  <2>2. params = NoTrans
    BY <1>2, <2>1 DEF IInv, Progress, Folder
  <2>3. objFolder /\ current = "absent"
    BY <2>1 DEF IInv, Version
  <2> QED
    BY <2>1, <2>2, <2>3 DEF IInv, Current
<1>vers. Version(t)'
  BY <1>1, <1>2, <1>3 DEF IInv, TypeOK, Version, Uploading, Progress, Folder,
     Current, Active, Holds, OpenNewVersion, TaskDone, closeVars
<1>fin. Files' /\ \A u \in Trans : Finalized(u)'
  BY <1>1, <1>3, FilesKept DEF IInv, TypeOK, NoPending, Pending, Progress, Active,
     Holds, OpenNewVersion, TaskDone, closeVars
<1>pend. Pending(t)'
  BY <1>1, <1>2, <1>3 DEF IInv, TypeOK, Pending, NoPending, FilesAt, Progress,
     Active, Holds, OpenNewVersion, TaskDone, closeVars
<1>byte. \A u \in Trans : Bytes(u)'
  BY <1>1, <1>3, <1>4 DEF IInv, TypeOK, Bytes, Progress, OpenNewVersion, TaskDone,
     closeVars
<1> QED
  BY <1>1, <1>3, <1>4, <1>prog, <1>lock, <1>fold, <1>free, <1>curr, <1>vers, <1>fin,
     <1>pend, <1>byte, ActiveStep

\* A new object is marked as such.
LEMMA WriteNewVersionKeeps ==
    ASSUME IInv, ~IsRoot, NEW t \in Trans, WriteNewVersion(t)
    PROVE  IInv'
<1> USE TransAssumption DEF Part
<1>1. TypeOK /\ TypeOK'
  BY TypeStep DEF IInv, Next, ServerSteps, StartSteps
<1>2. Active(t)
  BY <1>1 DEF IInv, TypeOK, Active, Holds, Progress, WriteNewVersion, TaskDone,
     closeVars
<1>3. /\ lock
      /\ \A u \in Trans \ {t} : /\ ~Active(u) /\ tasks[u] = {}
                                /\ start[u] \notin {"tasks", "saving"}
                                /\ start[u] = "ok" => close[u] \in {"finalized", "cancelled"}
  BY <1>2, Alone
<1>4. \A u \in Trans \ {t} : /\ start'[u] = start[u] /\ tasks'[u] = tasks[u]
                            /\ close'[u] = close[u] /\ renames'[u] = renames[u]
                            /\ put'[u] = put[u]
  BY <1>1 DEF TypeOK, WriteNewVersion, TaskDone, closeVars
<1>prog. \A u \in Trans : Progress(u)'
  BY <1>1, <1>3, <1>4 DEF IInv, TypeOK, Progress, WriteNewVersion, TaskDone, closeVars
<1>lock. Active(t)' => lock'
  BY <1>1, <1>3 DEF TypeOK, WriteNewVersion, TaskDone, closeVars
<1>fold. Folder(t)'
  BY <1>1, <1>2, <1>3 DEF IInv, TypeOK, Progress, Folder, Version, Active, Holds,
     WriteNewVersion, TaskDone, closeVars
<1>free. FreeFolder'
  BY <1>1, <1>3 DEF IInv, TypeOK, FreeFolder, WriteNewVersion, TaskDone, closeVars
<1>curr. Current'
  BY <1>1, <1>2, <1>3 DEF IInv, TypeOK, Current, Progress, Folder, Version,
     Uploading, Active, Holds, WriteNewVersion, TaskDone, closeVars
<1>vers. Version(t)'
  BY <1>1, <1>2, <1>3 DEF IInv, TypeOK, Version, Uploading, Progress, Folder,
     Current, Active, Holds, WriteNewVersion, TaskDone, closeVars
<1>fin. Files' /\ \A u \in Trans : Finalized(u)'
  BY <1>1, <1>3, FilesKept DEF IInv, TypeOK, NoPending, Pending, Progress, Active,
     Holds, WriteNewVersion, TaskDone, closeVars
<1>pend. Pending(t)'
  BY <1>1, <1>2, <1>3 DEF IInv, TypeOK, Pending, NoPending, FilesAt, Progress,
     Active, Holds, WriteNewVersion, TaskDone, closeVars
<1>byte. \A u \in Trans : Bytes(u)'
  BY <1>1, <1>3, <1>4 DEF IInv, TypeOK, Bytes, Progress, WriteNewVersion, TaskDone,
     closeVars
<1> QED
  BY <1>1, <1>3, <1>4, <1>prog, <1>lock, <1>fold, <1>free, <1>curr, <1>vers, <1>fin,
     <1>pend, <1>byte, ActiveStep

\* t, that found a number in current.v, is going to add the next one.
LEMMA ReadVersionKeeps ==
    ASSUME IInv, ~IsRoot, NEW t \in Trans, ReadVersion(t)
    PROVE  IInv'
<1> USE TransAssumption DEF Part
<1>1. TypeOK /\ TypeOK'
  BY TypeStep DEF IInv, Next, ServerSteps, StartSteps
<1>2. Active(t)
  BY <1>1 DEF IInv, TypeOK, Active, Holds, Progress, ReadVersion, NextVersion, TaskDone,
     TaskFailed, diskVars, closeVars
<1>3. /\ lock
      /\ \A u \in Trans \ {t} : /\ ~Active(u) /\ tasks[u] = {}
                                /\ start[u] \notin {"tasks", "saving"}
                                /\ start[u] = "ok" => close[u] \in {"finalized", "cancelled"}
  BY <1>2, Alone
<1>4. \A u \in Trans \ {t} : /\ start'[u] = start[u] /\ tasks'[u] = tasks[u]
                            /\ close'[u] = close[u] /\ renames'[u] = renames[u]
                            /\ put'[u] = put[u]
  BY <1>1 DEF TypeOK, ReadVersion, NextVersion, TaskDone, TaskFailed, diskVars, closeVars
<1>5. /\ tasks'[t] = tasks[t] \ {"readver"} /\ start'[t] \in {start[t], "failed"}
      /\ "readver" \in tasks[t]
      /\ UNCHANGED <<close, put, renames, bytes, verFiles, curVer, lock>>
  BY <1>1 DEF TypeOK, ReadVersion, NextVersion, TaskDone, TaskFailed, diskVars, closeVars
<1>6. \A u \in Trans \ {t} : ver'[u] = ver[u]
  BY <1>1 DEF TypeOK, ReadVersion, NextVersion
<1>7. start[t] \in {"tasks", "failed"} /\ close[t] = "none"
  BY <1>5 DEF IInv, Progress
<1>prog. \A u \in Trans : Progress(u)'
  <2>1. Progress(t)'
    BY <1>1, <1>5, <1>7 DEF IInv, TypeOK, Progress
  <2>2. ASSUME NEW u \in Trans \ {t} PROVE Progress(u)'
    BY <1>4, <2>2 DEF IInv, Progress
  <2> QED
    BY <2>1, <2>2
<1>lock. Active(t)' => lock'
  BY <1>1, <1>3 DEF TypeOK, ReadVersion, NextVersion, TaskDone, TaskFailed, diskVars, closeVars
<1>fold. Folder(t)'
  BY <1>1, <1>2, <1>3 DEF IInv, TypeOK, Progress, Folder, Version, Active, Holds,
     ReadVersion, NextVersion, TaskDone, TaskFailed, diskVars, closeVars
<1>free. FreeFolder'
  BY <1>1, <1>3 DEF IInv, TypeOK, FreeFolder, ReadVersion, NextVersion, TaskDone, TaskFailed,
     diskVars, closeVars
<1>curr. Current'
  BY <1>1, <1>2, <1>3 DEF IInv, TypeOK, Current, Progress, Folder, Version,
     Uploading, Active, Holds, ReadVersion, NextVersion, TaskDone, TaskFailed, diskVars,
     closeVars
<1>vers. Version(t)'
  BY <1>1, <1>2, <1>3 DEF IInv, TypeOK, Version, Uploading, Progress, Folder,
     Current, Active, Holds, ReadVersion, NextVersion, TaskDone, TaskFailed, diskVars, closeVars
<1>fin. Files' /\ \A u \in Trans : Finalized(u)'
  BY <1>1, <1>3, <1>5, <1>6, <1>7, FilesKept
<1>pend. Pending(t)'
  BY <1>1, <1>2, <1>3 DEF IInv, TypeOK, Pending, NoPending, FilesAt, Progress,
     Active, Holds, ReadVersion, NextVersion, TaskDone, TaskFailed, diskVars, closeVars
<1>byte. \A u \in Trans : Bytes(u)'
  BY <1>1, <1>3, <1>4 DEF IInv, TypeOK, Bytes, Progress, ReadVersion, NextVersion, TaskDone,
     TaskFailed, diskVars, closeVars
<1> QED
  BY <1>1, <1>3, <1>4, <1>prog, <1>lock, <1>fold, <1>free, <1>curr, <1>vers, <1>fin,
     <1>pend, <1>byte, ActiveStep

\* Files are allocated only after a check of space.
LEMMA CheckSpaceKeeps ==
    ASSUME IInv, ~IsRoot, NEW t \in Trans, CheckSpace(t)
    PROVE  IInv'
<1> USE TransAssumption DEF Part
<1>1. TypeOK /\ TypeOK'
  BY TypeStep DEF IInv, Next, ServerSteps, StartSteps
<1>2. Active(t)
  BY <1>1 DEF IInv, TypeOK, Active, Holds, Progress, CheckSpace, TaskDone,
     TaskFailed, diskVars, closeVars
<1>3. /\ lock
      /\ \A u \in Trans \ {t} : /\ ~Active(u) /\ tasks[u] = {}
                                /\ start[u] \notin {"tasks", "saving"}
                                /\ start[u] = "ok" => close[u] \in {"finalized", "cancelled"}
  BY <1>2, Alone
<1>4. \A u \in Trans \ {t} : /\ start'[u] = start[u] /\ tasks'[u] = tasks[u]
                            /\ close'[u] = close[u] /\ renames'[u] = renames[u]
                            /\ put'[u] = put[u]
  BY <1>1 DEF TypeOK, CheckSpace, TaskDone, TaskFailed, diskVars, closeVars
<1>5. /\ \A x \in {"mkobj", "openv", "writev", "readver"} : x \in tasks'[t] <=> x \in tasks[t]
      /\ start'[t] \in {start[t], "failed"}
      /\ "space" \in tasks[t]
      /\ UNCHANGED <<close, ver, isNew, objFolder, current, curVer>>
  <2>1. tasks'[t] \in {tasks[t] \ {"space"}, (tasks[t] \ {"space"}) \cup Part}
    BY <1>1 DEF TypeOK, CheckSpace, TaskDone, TaskFailed
  <2> QED
    BY <1>1, <2>1 DEF TypeOK, CheckSpace, TaskDone, TaskFailed, diskVars, closeVars
<1>7. start[t] \in {"tasks", "failed"}
  BY <1>5 DEF IInv, Progress
<1>6. tasks'[t] \cap {"mkobj", "openv", "writev"} = tasks[t] \cap {"mkobj", "openv", "writev"}
  BY <1>5
<1>prog. \A u \in Trans : Progress(u)'
  <2>1. Progress(t)'
    <3>1. /\ start'[t] \in {"tasks", "failed"} /\ "space" \notin tasks'[t]
          /\ UNCHANGED <<close, put, renames>>
      BY <1>1, <1>5, <1>7 DEF TypeOK, CheckSpace, TaskDone, TaskFailed, diskVars, closeVars
    <3>2. Progress(t)
      BY DEF IInv
    <3> QED
      BY <1>7, <3>1, <3>2 DEF Progress
  <2>2. ASSUME NEW u \in Trans \ {t} PROVE Progress(u)'
    BY <1>4, <2>2 DEF IInv, Progress
  <2> QED
    BY <2>1, <2>2
<1>lock. Active(t)' => lock'
  BY <1>1, <1>3 DEF TypeOK, CheckSpace, TaskDone, TaskFailed, diskVars, closeVars
<1>fold. Folder(t)'
  BY <1>1, <1>2, <1>3 DEF IInv, TypeOK, Progress, Folder, Version, Active, Holds,
     CheckSpace, TaskDone, TaskFailed, diskVars, closeVars
<1>free. FreeFolder'
  BY <1>1, <1>3 DEF IInv, TypeOK, FreeFolder, CheckSpace, TaskDone, TaskFailed,
     diskVars, closeVars
<1>curr. Current'
  BY <1>1, <1>2, <1>3 DEF IInv, TypeOK, Current, Progress, Folder, Version,
     Uploading, Active, Holds, CheckSpace, TaskDone, TaskFailed, diskVars, closeVars
<1>vers. Version(t)'
  BY <1>1, <1>5, <1>6, <1>7 DEF IInv, Version, Uploading
<1>fin. Files' /\ \A u \in Trans : Finalized(u)'
  BY <1>1, <1>3, FilesKept DEF IInv, TypeOK, NoPending, Pending, Progress, Active,
     Holds, CheckSpace, TaskDone, TaskFailed, diskVars, closeVars
<1>pend. Pending(t)'
  BY <1>1, <1>2, <1>3 DEF IInv, TypeOK, Pending, NoPending, FilesAt, Progress,
     Active, Holds, CheckSpace, TaskDone, TaskFailed, diskVars, closeVars
<1>byte. \A u \in Trans : Bytes(u)'
  BY <1>1, <1>3, <1>4 DEF IInv, TypeOK, Bytes, Progress, CheckSpace, TaskDone,
     TaskFailed, diskVars, closeVars
<1> QED
  BY <1>1, <1>3, <1>4, <1>prog, <1>lock, <1>fold, <1>free, <1>curr, <1>vers, <1>fin,
     <1>pend, <1>byte, ActiveStep

\* In a folder that it has created, t allocates each of its files once.
LEMMA AllocateFileKeeps ==
    ASSUME IInv, ~IsRoot, NEW t \in Trans, NEW p \in Part, AllocateFile(t, p)
    PROVE  IInv'
<1> USE TransAssumption DEF Part
<1>1. TypeOK /\ TypeOK'
  BY TypeStep DEF IInv, Next, ServerSteps, StartSteps
<1>2. Active(t)
  BY <1>1 DEF IInv, TypeOK, Active, Holds, Progress, AllocateFile, TaskDone,
     TaskFailed, closeVars
<1>3. /\ lock
      /\ \A u \in Trans \ {t} : /\ ~Active(u) /\ tasks[u] = {}
                                /\ start[u] \notin {"tasks", "saving"}
                                /\ start[u] = "ok" => close[u] \in {"finalized", "cancelled"}
  BY <1>2, Alone
<1>4. \A u \in Trans \ {t} : /\ start'[u] = start[u] /\ tasks'[u] = tasks[u]
                            /\ close'[u] = close[u] /\ renames'[u] = renames[u]
                            /\ put'[u] = put[u]
  BY <1>1 DEF TypeOK, AllocateFile, TaskDone, TaskFailed, closeVars
<1>5. /\ p \in tasks[t] /\ tasks'[t] = tasks[t] \ {p}
      /\ "space" \notin tasks[t]
      /\ start[t] \in {"tasks", "failed"} /\ close[t] = "none"
      /\ UNCHANGED <<params, close, put, renames, isNew, ver, current, curVer, objFolder>>
      /\ start'[t] \in {"tasks", "failed"}
      /\ start'[t] = "tasks" => start[t] = "tasks" /\ newFile' = [newFile EXCEPT ![p] = t]
  <2>1. Progress(t)
    BY DEF IInv
  <2>2. p \in tasks[t]
    BY DEF AllocateFile, TaskDone, TaskFailed
  <2>3. "space" \notin tasks[t] /\ start[t] \in {"tasks", "failed"} /\ close[t] = "none"
    BY <2>1, <2>2 DEF Progress
  <2>4. tasks'[t] = tasks[t] \ {p}
    BY <1>1 DEF TypeOK, AllocateFile, TaskDone, TaskFailed
  <2>5. UNCHANGED <<params, close, put, renames, isNew, ver, current, curVer, objFolder>>
    BY DEF AllocateFile, closeVars
  <2>6. \/ start' = start /\ newFile' = [newFile EXCEPT ![p] = t]
        \/ start'[t] = "failed"
    BY <1>1 DEF TypeOK, AllocateFile, TaskDone, TaskFailed
  <2> QED
    BY <2>2, <2>3, <2>4, <2>5, <2>6
<1>6. \A x \in {"mkobj", "openv", "writev", "readver"} : x \in tasks'[t] <=> x \in tasks[t]
  BY <1>5
<1>7. tasks'[t] \cap {"mkobj", "openv", "writev"} = tasks[t] \cap {"mkobj", "openv", "writev"}
  BY <1>6
<1>prog. \A u \in Trans : Progress(u)'
  <2>1. Progress(t)'
    BY <1>1, <1>5 DEF IInv, TypeOK, Progress
  <2>2. ASSUME NEW u \in Trans \ {t} PROVE Progress(u)'
    BY <1>4, <2>2 DEF IInv, Progress
  <2> QED
    BY <2>1, <2>2
<1>lock. Active(t)' => lock'
  BY <1>1, <1>3 DEF TypeOK, AllocateFile, TaskDone, TaskFailed, closeVars
<1>fold. Folder(t)'
  BY <1>1, <1>2, <1>5 DEF IInv, TypeOK, Folder
<1>free. FreeFolder'
  BY <1>1, <1>3 DEF IInv, TypeOK, FreeFolder, AllocateFile, TaskDone, TaskFailed,
     closeVars
<1>curr. Current'
  BY <1>1, <1>2, <1>3 DEF IInv, TypeOK, Current, Progress, Folder, Version,
     Uploading, Active, Holds, AllocateFile, TaskDone, TaskFailed, closeVars
<1>vers. Version(t)'
  BY <1>1, <1>5, <1>6, <1>7 DEF IInv, Version, Uploading
<1>fin. Files' /\ \A u \in Trans : Finalized(u)'
  BY <1>1, <1>3, FilesKept DEF IInv, TypeOK, NoPending, Pending, Progress, Active,
     Holds, AllocateFile, TaskDone, TaskFailed, closeVars
<1>pend. Pending(t)'
  BY <1>1, <1>2, <1>3 DEF IInv, TypeOK, Pending, NoPending, FilesAt, Progress,
     Active, Holds, AllocateFile, TaskDone, TaskFailed, closeVars
<1>byte. \A u \in Trans : Bytes(u)'
  BY <1>1, <1>3, <1>4 DEF IInv, TypeOK, Bytes, Progress, AllocateFile, TaskDone,
     TaskFailed, closeVars
<1> QED
  BY <1>1, <1>3, <1>4, <1>prog, <1>lock, <1>fold, <1>free, <1>curr, <1>vers, <1>fin,
     <1>pend, <1>byte, ActiveStep

\* All is ready in the folder, when a file with id of t is opened.
LEMMA OpenParamsKeeps ==
    ASSUME IInv, ~IsRoot, NEW t \in Trans, OpenParams(t)
    PROVE  IInv'
<1> USE TransAssumption DEF Part
<1>1. TypeOK /\ TypeOK'
  BY TypeStep DEF IInv, Next, ServerSteps, StartSteps
<1>2. Active(t)
  BY <1>1 DEF IInv, TypeOK, Active, Holds, Progress, OpenParams, closeVars
<1>3. /\ lock
      /\ \A u \in Trans \ {t} : /\ ~Active(u) /\ tasks[u] = {}
                                /\ start[u] \notin {"tasks", "saving"}
                                /\ start[u] = "ok" => close[u] \in {"finalized", "cancelled"}
  BY <1>2, Alone
<1>4. \A u \in Trans \ {t} : /\ start'[u] = start[u] /\ tasks'[u] = tasks[u]
                            /\ close'[u] = close[u] /\ renames'[u] = renames[u]
                            /\ put'[u] = put[u]
  BY <1>1 DEF TypeOK, OpenParams, closeVars
<1>prog. \A u \in Trans : Progress(u)'
  BY <1>1, <1>3, <1>4 DEF IInv, TypeOK, Progress, OpenParams, closeVars
<1>lock. Active(t)' => lock'
  BY <1>1, <1>3 DEF TypeOK, OpenParams, closeVars
<1>fold. Folder(t)'
  BY <1>1, <1>2, <1>3 DEF IInv, TypeOK, Progress, Folder, Version, Active, Holds,
     OpenParams, closeVars
<1>free. FreeFolder'
  BY <1>1, <1>3 DEF IInv, TypeOK, FreeFolder, OpenParams, closeVars
<1>curr. Current'
  BY <1>1, <1>2, <1>3 DEF IInv, TypeOK, Current, Progress, Folder, Version,
     Uploading, Active, Holds, OpenParams, closeVars
<1>vers. Version(t)'
  BY <1>1, <1>2, <1>3 DEF IInv, TypeOK, Version, Uploading, Progress, Folder,
     Current, Active, Holds, OpenParams, closeVars
<1>fin. Files' /\ \A u \in Trans : Finalized(u)'
  BY <1>1, <1>3, FilesKept DEF IInv, TypeOK, NoPending, Pending, Progress, Active,
     Holds, OpenParams, closeVars
<1>pend. Pending(t)'
  BY <1>1, <1>2, <1>3 DEF IInv, TypeOK, Pending, NoPending, FilesAt, Progress,
     Active, Holds, OpenParams, closeVars
<1>byte. \A u \in Trans : Bytes(u)'
  BY <1>1, <1>3, <1>4 DEF IInv, TypeOK, Bytes, Progress, OpenParams, closeVars
<1> QED
  BY <1>1, <1>3, <1>4, <1>prog, <1>lock, <1>fold, <1>free, <1>curr, <1>vers, <1>fin,
     <1>pend, <1>byte, ActiveStep

\* When t gets its id, its files are allocated and its version is the next one.
LEMMA WriteParamsKeeps ==
    ASSUME IInv, ~IsRoot, NEW t \in Trans, WriteParams(t)
    PROVE  IInv'
<1> USE TransAssumption DEF Part
<1>1. TypeOK /\ TypeOK'
  BY TypeStep DEF IInv, Next, ServerSteps, StartSteps
<1>2. Active(t)
  BY <1>1 DEF IInv, TypeOK, Active, Holds, Progress, WriteParams, closeVars
<1>3. /\ lock
      /\ \A u \in Trans \ {t} : /\ ~Active(u) /\ tasks[u] = {}
                                /\ start[u] \notin {"tasks", "saving"}
                                /\ start[u] = "ok" => close[u] \in {"finalized", "cancelled"}
  BY <1>2, Alone
<1>4. \A u \in Trans \ {t} : /\ start'[u] = start[u] /\ tasks'[u] = tasks[u]
                            /\ close'[u] = close[u] /\ renames'[u] = renames[u]
                            /\ put'[u] = put[u]
  BY <1>1 DEF TypeOK, WriteParams, closeVars
<1>prog. \A u \in Trans : Progress(u)'
  BY <1>1, <1>3, <1>4 DEF IInv, TypeOK, Progress, WriteParams, closeVars
<1>lock. Active(t)' => lock'
  BY <1>1, <1>3 DEF TypeOK, WriteParams, closeVars
<1>fold. Folder(t)'
  BY <1>1, <1>2, <1>3 DEF IInv, TypeOK, Progress, Folder, Version, Active, Holds,
     WriteParams, closeVars
<1>free. FreeFolder'
  BY <1>1, <1>3 DEF IInv, TypeOK, FreeFolder, WriteParams, closeVars
<1>curr. Current'
  BY <1>1, <1>2, <1>3 DEF IInv, TypeOK, Current, Progress, Folder, Version,
     Uploading, Active, Holds, WriteParams, closeVars
<1>vers. Version(t)'
  BY <1>1, <1>2, <1>3 DEF IInv, TypeOK, Version, Uploading, Progress, Folder,
     Current, Active, Holds, WriteParams, closeVars
<1>fin. Files' /\ \A u \in Trans : Finalized(u)'
  BY <1>1, <1>3, FilesKept DEF IInv, TypeOK, NoPending, Pending, Progress, Active,
     Holds, WriteParams, closeVars
<1>pend. Pending(t)'
  BY <1>1, <1>2, <1>3 DEF IInv, TypeOK, Pending, NoPending, FilesAt, Progress,
     Active, Holds, WriteParams, closeVars
<1>byte. \A u \in Trans : Bytes(u)'
  BY <1>1, <1>3, <1>4 DEF IInv, TypeOK, Bytes, Progress, WriteParams, closeVars
<1> QED
  BY <1>1, <1>3, <1>4, <1>prog, <1>lock, <1>fold, <1>free, <1>curr, <1>vers, <1>fin,
     <1>pend, <1>byte, ActiveStep

\* The file with id of t is in place till t is closed.
LEMMA PutBytesKeeps ==
    ASSUME IInv, ~IsRoot, NEW t \in Trans, NEW p \in Part, PutBytes(t, p)
    PROVE  IInv'
<1> USE TransAssumption DEF Part
<1>1. TypeOK /\ TypeOK'
  BY TypeStep DEF IInv, Next, ClientSteps
<1>2. Active(t)
  BY <1>1 DEF IInv, TypeOK, Active, Holds, Progress, PutBytes, diskVars, startVars,
     closeVars
<1>3. /\ lock
      /\ \A u \in Trans \ {t} : /\ ~Active(u) /\ tasks[u] = {}
                                /\ start[u] \notin {"tasks", "saving"}
                                /\ start[u] = "ok" => close[u] \in {"finalized", "cancelled"}
  BY <1>2, Alone
<1>4. \A u \in Trans \ {t} : /\ start'[u] = start[u] /\ tasks'[u] = tasks[u]
                            /\ close'[u] = close[u] /\ renames'[u] = renames[u]
                            /\ put'[u] = put[u]
  BY <1>1 DEF TypeOK, PutBytes, diskVars, startVars, closeVars
<1>5. /\ params = t /\ start[t] = "ok" /\ close[t] = "none" /\ put[t][p] = "none"
      /\ p = "segs" => put[t]["hdr"] = "ok"
      /\ put' = [put EXCEPT ![t][p] = "open"]
      /\ start'[t] = start[t] /\ tasks'[t] = tasks[t]
      /\ close'[t] = close[t] /\ renames'[t] = renames[t]
  BY <1>1 DEF IInv, TypeOK, Folder, PutBytes, diskVars, startVars, closeVars
<1>6. put'[t][p] = "open" /\ \A q \in Part \ {p} : put'[t][q] = put[t][q]
  BY <1>1, <1>5 DEF TypeOK
<1>7. Progress(t)
  BY DEF IInv
<1>prog. \A u \in Trans : Progress(u)'
  <2>1. Progress(t)'
    BY <1>5, <1>6, <1>7 DEF Progress
  <2>2. ASSUME NEW u \in Trans \ {t} PROVE Progress(u)'
    BY <1>4, <2>2 DEF IInv, Progress
  <2> QED
    BY <2>1, <2>2
<1>lock. Active(t)' => lock'
  BY <1>1, <1>3 DEF TypeOK, PutBytes, diskVars, startVars, closeVars
<1>fold. Folder(t)'
  BY <1>1, <1>2, <1>3 DEF IInv, TypeOK, Progress, Folder, Version, Active, Holds,
     PutBytes, diskVars, startVars, closeVars
<1>free. FreeFolder'
  BY <1>1, <1>3 DEF IInv, TypeOK, FreeFolder, PutBytes, diskVars, startVars, closeVars
<1>curr. Current'
  BY <1>1, <1>2, <1>3 DEF IInv, TypeOK, Current, Progress, Folder, Version,
     Uploading, Active, Holds, PutBytes, diskVars, startVars, closeVars
<1>vers. Version(t)'
  BY <1>1, <1>2, <1>3 DEF IInv, TypeOK, Version, Uploading, Progress, Folder,
     Current, Active, Holds, PutBytes, diskVars, startVars, closeVars
<1>fin. Files' /\ \A u \in Trans : Finalized(u)'
  BY <1>1, <1>3, FilesKept DEF IInv, TypeOK, NoPending, Pending, Progress, Active,
     Holds, PutBytes, diskVars, startVars, closeVars
<1>pend. Pending(t)'
  BY <1>1, <1>2, <1>3 DEF IInv, TypeOK, Pending, NoPending, FilesAt, Progress,
     Active, Holds, PutBytes, diskVars, startVars, closeVars
<1>byte. \A u \in Trans : Bytes(u)'
  BY <1>1, <1>3, <1>4 DEF IInv, TypeOK, Bytes, Progress, PutBytes, diskVars,
     startVars, closeVars
<1> QED
  BY <1>1, <1>3, <1>4, <1>prog, <1>lock, <1>fold, <1>free, <1>curr, <1>vers, <1>fin,
     <1>pend, <1>byte, ActiveStep

\* Finalization starts, when all bytes of t are in its own files.
LEMMA FinalizeTransactionKeeps ==
    ASSUME IInv, ~IsRoot, NEW t \in Trans, FinalizeTransaction(t)
    PROVE  IInv'
<1> USE TransAssumption DEF Part
<1>1. TypeOK /\ TypeOK'
  BY TypeStep DEF IInv, Next, ClientSteps
<1>2. Active(t)
  BY <1>1 DEF IInv, TypeOK, Active, Holds, Progress, FinalizeTransaction, AllSent, diskVars,
     startVars
<1>3. /\ lock
      /\ \A u \in Trans \ {t} : /\ ~Active(u) /\ tasks[u] = {}
                                /\ start[u] \notin {"tasks", "saving"}
                                /\ start[u] = "ok" => close[u] \in {"finalized", "cancelled"}
  BY <1>2, Alone
<1>4. \A u \in Trans \ {t} : /\ start'[u] = start[u] /\ tasks'[u] = tasks[u]
                            /\ close'[u] = close[u] /\ renames'[u] = renames[u]
                            /\ put'[u] = put[u]
  BY <1>1 DEF TypeOK, FinalizeTransaction, AllSent, diskVars, startVars
<1>5. /\ params = t /\ start[t] = "ok" /\ close[t] = "none" /\ tasks[t] = {}
      /\ \A q \in Part : put[t][q] = "ok"
      /\ close'[t] = "renaming" /\ renames'[t] = Part
      /\ UNCHANGED <<diskVars, startVars, put>>
  BY <1>1 DEF IInv, TypeOK, Folder, Progress, FinalizeTransaction, AllSent
<1>6. /\ start'[t] = start[t] /\ tasks'[t] = tasks[t] /\ put'[t] = put[t]
      /\ UNCHANGED <<params, newFile, verFiles, curVer, bytes, lock, ver>>
  BY <1>5 DEF startVars, diskVars
<1>7. /\ Folder(t) /\ Pending(t)
  BY DEF IInv
<1>prog. \A u \in Trans : Progress(u)'
  <2>1. Progress(t)'
    BY <1>1, <1>5, <1>6 DEF IInv, TypeOK, Progress
  <2>2. ASSUME NEW u \in Trans \ {t} PROVE Progress(u)'
    BY <1>4, <2>2 DEF IInv, Progress
  <2> QED
    BY <2>1, <2>2
<1>lock. Active(t)' => lock'
  BY <1>1, <1>3 DEF TypeOK, FinalizeTransaction, AllSent, diskVars, startVars
<1>fold. Folder(t)'
  BY <1>5, <1>6, <1>7 DEF Folder
<1>free. FreeFolder'
  BY <1>1, <1>3 DEF IInv, TypeOK, FreeFolder, FinalizeTransaction, AllSent, diskVars, startVars
<1>curr. Current'
  BY <1>1, <1>2, <1>3 DEF IInv, TypeOK, Current, Progress, Folder, Version,
     Uploading, Active, Holds, FinalizeTransaction, AllSent, diskVars, startVars
<1>vers. Version(t)'
  BY <1>1, <1>2, <1>3 DEF IInv, TypeOK, Version, Uploading, Progress, Folder,
     Current, Active, Holds, FinalizeTransaction, AllSent, diskVars, startVars
<1>fin. Files' /\ \A u \in Trans : Finalized(u)'
  BY <1>1, <1>3, <1>4, <1>5, <1>6, FilesKept DEF NoPending
<1>pend. Pending(t)'
  <2>1. NoPending
    BY <1>2, <1>5, <1>7 DEF Pending
  <2>2. FilesAt(curVer + 1) = {}
    BY <1>1, <2>1 DEF NoPending, FilesAt, TypeOK, VerFile
  <2> QED
    BY <1>5, <1>6, <2>2 DEF Pending, FilesAt
<1>byte. \A u \in Trans : Bytes(u)'
  BY <1>1, <1>3, <1>4 DEF IInv, TypeOK, Bytes, Progress, FinalizeTransaction, AllSent,
     diskVars, startVars
<1> QED
  BY <1>1, <1>3, <1>4, <1>prog, <1>lock, <1>fold, <1>free, <1>curr, <1>vers, <1>fin,
     <1>pend, <1>byte, ActiveStep

\* A rename moves t's own file to a version that is not committed, yet.
LEMMA RenameNewFileKeeps ==
    ASSUME IInv, ~IsRoot, NEW t \in Trans, NEW p \in Part, RenameNewFile(t, p)
    PROVE  IInv'
<1> USE TransAssumption DEF Part
<1>1. TypeOK /\ TypeOK'
  BY TypeStep DEF IInv, Next, ServerSteps, CloseSteps
<1>2. Active(t)
  BY <1>1 DEF IInv, TypeOK, Active, Holds, Progress, RenameNewFile, startVars
<1>3. /\ lock
      /\ \A u \in Trans \ {t} : /\ ~Active(u) /\ tasks[u] = {}
                                /\ start[u] \notin {"tasks", "saving"}
                                /\ start[u] = "ok" => close[u] \in {"finalized", "cancelled"}
  BY <1>2, Alone
<1>4. \A u \in Trans \ {t} : /\ start'[u] = start[u] /\ tasks'[u] = tasks[u]
                            /\ close'[u] = close[u] /\ renames'[u] = renames[u]
                            /\ put'[u] = put[u]
  BY <1>1 DEF TypeOK, RenameNewFile, startVars
<1>a. p \in renames[t] /\ Progress(t) /\ Folder(t) /\ Version(t) /\ Current /\ Bytes(t)
  BY DEF IInv, RenameNewFile
<1>b. close[t] = "renaming" /\ start[t] = "ok" /\ tasks[t] = {} /\ \A q \in Part : put[t][q] = "ok"
  BY <1>1, <1>a DEF Progress, TypeOK
<1>5. /\ start[t] = "ok" /\ close[t] = "renaming" /\ params = t /\ tasks[t] = {}
      /\ \A q \in renames[t] : newFile[q] = t
      /\ p \in renames[t] /\ ver[t] = curVer + 1 /\ current # "absent" /\ objFolder
      /\ \A q \in Part : put[t][q] = "ok" /\ t \in bytes[t][q]
  BY <1>a, <1>b DEF Folder, Version, Uploading, Current, Bytes
<1>6. /\ renames'[t] = renames[t] \ {p}
      /\ verFiles' = {f \in verFiles : ~(f.ver = curVer + 1 /\ f.part = p)} \cup
                        {[ver |-> curVer + 1, part |-> p, from |-> t]}
      /\ newFile' = [newFile EXCEPT ![p] = NoTrans]
      /\ UNCHANGED <<objFolder, current, curVer, lock, params, bytes, startVars, put, close>>
  BY <1>1, <1>5 DEF TypeOK, RenameNewFile
<1>7. /\ start'[t] = start[t] /\ tasks'[t] = tasks[t] /\ put'[t] = put[t] /\ close'[t] = close[t]
      /\ UNCHANGED <<params, curVer, bytes, lock, ver>>
  BY <1>6 DEF startVars
<1>8. Pending(t) /\ Files /\ \A u \in Trans : Finalized(u)
  BY DEF IInv
<1>prog. \A u \in Trans : Progress(u)'
  <2>1. Progress(t)'
    BY <1>1, <1>5, <1>6, <1>7 DEF IInv, TypeOK, Progress
  <2>2. ASSUME NEW u \in Trans \ {t} PROVE Progress(u)'
    BY <1>4, <2>2 DEF IInv, Progress
  <2> QED
    BY <2>1, <2>2
<1>lock. Active(t)' => lock'
  BY <1>1, <1>3 DEF TypeOK, RenameNewFile, startVars
<1>fold. Folder(t)'
  BY <1>1, <1>5, <1>6, <1>7 DEF Folder, TypeOK
<1>free. FreeFolder'
  BY <1>1, <1>3 DEF IInv, TypeOK, FreeFolder, RenameNewFile, startVars
<1>curr. Current'
  BY <1>1, <1>2, <1>3 DEF IInv, TypeOK, Current, Progress, Folder, Version,
     Uploading, Active, Holds, RenameNewFile, startVars
<1>vers. Version(t)'
  BY <1>1, <1>2, <1>3 DEF IInv, TypeOK, Version, Uploading, Progress, Folder,
     Current, Active, Holds, RenameNewFile, startVars
<1>fin. Files' /\ \A u \in Trans : Finalized(u)'
  <2>1. Files'
    BY <1>1, <1>3, <1>5, <1>6, <1>8 DEF Files, NoPending, TypeOK, VerFile
  <2>2. ASSUME NEW u \in Trans PROVE Finalized(u)'
    BY <1>1, <1>6, <1>7, <1>8 DEF Finalized, FilesAt, FilesOf, TypeOK, VerFile
  <2> QED
    BY <2>1, <2>2
<1>pend. Pending(t)'
  <2>1. FilesAt(curVer + 1) =
           {[ver |-> curVer + 1, part |-> q, from |-> t] : q \in Part \ renames[t]}
    BY <1>5, <1>8 DEF Pending
  <2>2. FilesAt(curVer + 1)' =
           {f \in FilesAt(curVer + 1) : f.part # p} \cup
              {[ver |-> curVer + 1, part |-> p, from |-> t]}
    BY <1>6 DEF FilesAt
  <2>3. FilesAt(curVer + 1)' =
           {[ver |-> curVer + 1, part |-> q, from |-> t] : q \in (Part \ renames[t]) \cup {p}}
    BY <1>5, <2>1, <2>2
  <2>4. (Part \ renames[t]) \cup {p} = Part \ renames'[t]
    BY <1>1, <1>6 DEF TypeOK
  <2> QED
    BY <1>5, <1>7, <2>3, <2>4 DEF Pending, FilesAt
<1>byte. \A u \in Trans : Bytes(u)'
  BY <1>1, <1>3, <1>4 DEF IInv, TypeOK, Bytes, Progress, RenameNewFile, startVars
<1> QED
  BY <1>1, <1>3, <1>4, <1>prog, <1>lock, <1>fold, <1>free, <1>curr, <1>vers, <1>fin,
     <1>pend, <1>byte, ActiveStep

\* Both files are in place, when current.v is opened.
LEMMA OpenCurrentVersionKeeps ==
    ASSUME IInv, ~IsRoot, NEW t \in Trans, OpenCurrentVersion(t)
    PROVE  IInv'
<1> USE TransAssumption DEF Part
<1>1. TypeOK /\ TypeOK'
  BY TypeStep DEF IInv, Next, ServerSteps, CloseSteps
<1>2. Active(t)
  BY <1>1 DEF IInv, TypeOK, Active, Holds, Progress, OpenCurrentVersion, RenamesDone, startVars
<1>3. /\ lock
      /\ \A u \in Trans \ {t} : /\ ~Active(u) /\ tasks[u] = {}
                                /\ start[u] \notin {"tasks", "saving"}
                                /\ start[u] = "ok" => close[u] \in {"finalized", "cancelled"}
  BY <1>2, Alone
<1>4. \A u \in Trans \ {t} : /\ start'[u] = start[u] /\ tasks'[u] = tasks[u]
                            /\ close'[u] = close[u] /\ renames'[u] = renames[u]
                            /\ put'[u] = put[u]
  BY <1>1 DEF TypeOK, OpenCurrentVersion, RenamesDone, startVars
<1>a. /\ Progress(t) /\ Folder(t) /\ Version(t) /\ Current
      /\ close[t] = "renaming" /\ renames[t] = {}
  BY DEF IInv, OpenCurrentVersion, RenamesDone
<1>b. start[t] = "ok" /\ tasks[t] = {}
  BY <1>1, <1>a DEF Progress, TypeOK
<1>5. /\ start[t] = "ok" /\ close[t] = "renaming" /\ params = t /\ tasks[t] = {}
      /\ ver[t] = curVer + 1 /\ current # "absent" /\ objFolder
      /\ renames[t] = {} /\ renames'[t] = renames[t]
      /\ close'[t] = "setver" /\ current' = "empty"
  BY <1>1, <1>a, <1>b DEF TypeOK, Folder, Version, Uploading, Current,
     OpenCurrentVersion, RenamesDone
<1>6. UNCHANGED <<params, curVer, bytes, lock, ver, objFolder, start, tasks, isNew, verFiles>>
  BY DEF OpenCurrentVersion, RenamesDone, startVars
<1>7. curVer \in Nat
  BY <1>1 DEF TypeOK
<1>prog. \A u \in Trans : Progress(u)'
  BY <1>1, <1>3, <1>4 DEF IInv, TypeOK, Progress, OpenCurrentVersion, RenamesDone, startVars
<1>lock. Active(t)' => lock'
  BY <1>1, <1>3 DEF TypeOK, OpenCurrentVersion, RenamesDone, startVars
<1>fold. Folder(t)'
  BY <1>1, <1>2, <1>3 DEF IInv, TypeOK, Progress, Folder, Version, Active, Holds,
     OpenCurrentVersion, RenamesDone, startVars
<1>free. FreeFolder'
  BY <1>1, <1>3 DEF IInv, TypeOK, FreeFolder, OpenCurrentVersion, RenamesDone, startVars
<1>curr. Current'
  BY <1>5, <1>6, <1>7 DEF Current
<1>vers. Version(t)'
  BY <1>5, <1>6 DEF Version, Uploading
<1>fin. Files' /\ \A u \in Trans : Finalized(u)'
  BY <1>1, <1>3, FilesKept DEF IInv, TypeOK, NoPending, Pending, Progress, Active,
     Holds, OpenCurrentVersion, RenamesDone, startVars
<1>pend. Pending(t)'
  <2>1. Pending(t)
    BY DEF IInv
  <2> QED
    BY <1>5, <1>6, <2>1 DEF Pending, FilesAt
<1>byte. \A u \in Trans : Bytes(u)'
  BY <1>1, <1>3, <1>4 DEF IInv, TypeOK, Bytes, Progress, OpenCurrentVersion, RenamesDone, startVars
<1> QED
  BY <1>1, <1>3, <1>4, <1>prog, <1>lock, <1>fold, <1>free, <1>curr, <1>vers, <1>fin,
     <1>pend, <1>byte, ActiveStep

\* Cancellation finds the id of t.
LEMMA CancelTransactionKeeps ==
    ASSUME IInv, ~IsRoot, NEW t \in Trans, CancelTransaction(t)
    PROVE  IInv'
<1> USE TransAssumption DEF Part
<1>1. TypeOK /\ TypeOK'
  BY TypeStep DEF IInv, Next, ClientSteps
<1>2. Active(t)
  BY <1>1 DEF IInv, TypeOK, Active, Holds, Progress, CancelTransaction, RemovesObj, diskVars,
     startVars
<1>3. /\ lock
      /\ \A u \in Trans \ {t} : /\ ~Active(u) /\ tasks[u] = {}
                                /\ start[u] \notin {"tasks", "saving"}
                                /\ start[u] = "ok" => close[u] \in {"finalized", "cancelled"}
  BY <1>2, Alone
<1>4. \A u \in Trans \ {t} : /\ start'[u] = start[u] /\ tasks'[u] = tasks[u]
                            /\ close'[u] = close[u] /\ renames'[u] = renames[u]
                            /\ put'[u] = put[u]
  BY <1>1 DEF TypeOK, CancelTransaction, RemovesObj, diskVars, startVars
<1>5. /\ start[t] = "ok" /\ close[t] = "none" /\ params = t /\ tasks[t] = {} /\ renames[t] = {}
      /\ close'[t] \in {"rmobj", "rm_can"}
      /\ start'[t] = start[t] /\ tasks'[t] = tasks[t] /\ put'[t] = put[t] /\ renames'[t] = renames[t]
      /\ t \notin Dropping => \A q \in Part : put[t][q] # "open"
  BY <1>1 DEF IInv, TypeOK, Progress, Folder, CancelTransaction, RemovesObj, diskVars, startVars
<1>prog. \A u \in Trans : Progress(u)'
  <2>1. Progress(t)'
    BY <1>1, <1>5 DEF IInv, TypeOK, Progress
  <2>2. ASSUME NEW u \in Trans \ {t} PROVE Progress(u)'
    BY <1>4, <2>2 DEF IInv, Progress
  <2> QED
    BY <2>1, <2>2
<1>lock. Active(t)' => lock'
  BY <1>1, <1>3 DEF TypeOK, CancelTransaction, RemovesObj, diskVars, startVars
<1>fold. Folder(t)'
  BY <1>1, <1>2, <1>3 DEF IInv, TypeOK, Progress, Folder, Version, Active, Holds,
     CancelTransaction, RemovesObj, diskVars, startVars
<1>free. FreeFolder'
  BY <1>1, <1>3 DEF IInv, TypeOK, FreeFolder, CancelTransaction, RemovesObj, diskVars, startVars
<1>curr. Current'
  BY <1>1, <1>2, <1>3 DEF IInv, TypeOK, Current, Progress, Folder, Version,
     Uploading, Active, Holds, CancelTransaction, RemovesObj, diskVars, startVars
<1>vers. Version(t)'
  BY <1>1, <1>2, <1>3 DEF IInv, TypeOK, Version, Uploading, Progress, Folder,
     Current, Active, Holds, CancelTransaction, RemovesObj, diskVars, startVars
<1>fin. Files' /\ \A u \in Trans : Finalized(u)'
  BY <1>1, <1>3, FilesKept DEF IInv, TypeOK, NoPending, Pending, Progress, Active,
     Holds, CancelTransaction, RemovesObj, diskVars, startVars
<1>pend. Pending(t)'
  BY <1>1, <1>2, <1>3 DEF IInv, TypeOK, Pending, NoPending, FilesAt, Progress,
     Active, Holds, CancelTransaction, RemovesObj, diskVars, startVars
<1>byte. \A u \in Trans : Bytes(u)'
  BY <1>1, <1>3, <1>4 DEF IInv, TypeOK, Bytes, Progress, CancelTransaction, RemovesObj,
     diskVars, startVars
<1> QED
  BY <1>1, <1>3, <1>4, <1>prog, <1>lock, <1>fold, <1>free, <1>curr, <1>vers, <1>fin,
     <1>pend, <1>byte, ActiveStep

\* Only an object without versions is removed.
\* A lost request changes nothing, but that no more of them come.
LEMMA LoseRequestKeeps ==
    ASSUME IInv, NEW t \in Trans, LoseRequest(t)
    PROVE  IInv'
<1> USE TransAssumption DEF Part
<1>1. TypeOK /\ TypeOK'
  BY TypeStep DEF IInv, Next
<1>2. UNCHANGED <<objFolder, current, curVer, verFiles, lock, params, newFile, bytes,
                  isNew, ver, start, tasks, put, renames>>
  BY DEF LoseRequest, diskVars, startVars
<1>3. /\ start[t] = "ok" /\ close[t] = "none" /\ close'[t] = "lost"
      /\ \A q \in Part : put[t][q] \notin {"open", "stalled"}
      /\ \A u \in Trans \ {t} : close'[u] = close[u]
  BY <1>1 DEF TypeOK, LoseRequest
<1>4. \A u \in Trans : Progress(u)'
  <2>1. Progress(t)'
    BY <1>2, <1>3 DEF IInv, Progress
  <2>2. ASSUME NEW u \in Trans \ {t} PROVE Progress(u)'
    BY <1>2, <1>3, <2>2 DEF IInv, Progress
  <2> QED
    BY <2>1, <2>2
<1>5. \A u \in Trans : Active(u)' <=> Active(u)
  BY <1>2, <1>3 DEF Active, Holds
<1>6. Lock' /\ FreeFolder' /\ Current'
  BY <1>2, <1>5 DEF IInv, Lock, FreeFolder, Current
<1>7. \A u \in Trans : Folder(u)' /\ Version(u)'
  BY <1>2, <1>3, <1>5 DEF IInv, Folder, Version, Uploading
<1>8. Files'
  <2>1. \A f \in verFiles : f.from \in Trans
    BY <1>1 DEF TypeOK, VerFile
  <2> QED
    BY <1>2, <1>3, <2>1 DEF IInv, Files, NoPending
<1>9. \A u \in Trans : Pending(u)' /\ Finalized(u)'
  BY <1>2, <1>3, <1>5 DEF IInv, Pending, NoPending, Finalized, FilesAt, FilesOf
<1>10. \A u \in Trans : Bytes(u)'
  BY <1>2, <1>3 DEF IInv, Bytes
<1> QED
  BY <1>1, <1>4, <1>6, <1>7, <1>8, <1>9, <1>10 DEF IInv

LEMMA UnlinkObjFilesKeeps ==
    ASSUME IInv, ~IsRoot, NEW t \in Trans, UnlinkObjFiles(t)
    PROVE  IInv'
<1> USE TransAssumption DEF Part
<1>1. TypeOK /\ TypeOK'
  BY TypeStep DEF IInv, Next, ServerSteps, CloseSteps
<1>2. Active(t)
  BY <1>1 DEF IInv, TypeOK, Active, Holds, Progress, UnlinkObjFiles, startVars
<1>3. /\ lock
      /\ \A u \in Trans \ {t} : /\ ~Active(u) /\ tasks[u] = {}
                                /\ start[u] \notin {"tasks", "saving"}
                                /\ start[u] = "ok" => close[u] \in {"finalized", "cancelled"}
  BY <1>2, Alone
<1>4. \A u \in Trans \ {t} : /\ start'[u] = start[u] /\ tasks'[u] = tasks[u]
                            /\ close'[u] = close[u] /\ renames'[u] = renames[u]
                            /\ put'[u] = put[u]
  BY <1>1 DEF TypeOK, UnlinkObjFiles, startVars
<1>a. Progress(t) /\ Version(t) /\ Current /\ close[t] = "rmobj"
  BY DEF IInv, UnlinkObjFiles
<1>b. start[t] = "ok"
  BY <1>1, <1>a DEF Progress, TypeOK
<1>5. /\ start[t] = "ok" /\ close[t] = "rmobj" /\ current = "new" /\ curVer = 0
      /\ close'[t] = "rmobjdir" /\ verFiles' = {}
      /\ UNCHANGED <<curVer, lock, ver, bytes>>
  BY <1>1, <1>a, <1>b DEF TypeOK, Version, Current, UnlinkObjFiles, startVars
<1>6. \A u \in Trans : close'[u] \in {"rm_fin", "finalized"} => close[u] = close'[u]
  BY <1>4, <1>5
<1>prog. \A u \in Trans : Progress(u)'
  BY <1>1, <1>3, <1>4 DEF IInv, TypeOK, Progress, UnlinkObjFiles, startVars
<1>lock. Active(t)' => lock'
  BY <1>1, <1>3 DEF TypeOK, UnlinkObjFiles, startVars
<1>fold. Folder(t)'
  BY <1>1, <1>2, <1>3 DEF IInv, TypeOK, Progress, Folder, Version, Active, Holds,
     UnlinkObjFiles, startVars
<1>free. FreeFolder'
  BY <1>1, <1>3 DEF IInv, TypeOK, FreeFolder, UnlinkObjFiles, startVars
<1>curr. Current'
  BY <1>1, <1>2, <1>3 DEF IInv, TypeOK, Current, Progress, Folder, Version,
     Uploading, Active, Holds, UnlinkObjFiles, startVars
<1>vers. Version(t)'
  BY <1>1, <1>2, <1>3 DEF IInv, TypeOK, Version, Uploading, Progress, Folder,
     Current, Active, Holds, UnlinkObjFiles, startVars
<1>fin. Files' /\ \A u \in Trans : Finalized(u)'
  <2>1. Files'
    BY <1>5 DEF Files, NoPending
  <2>2. ASSUME NEW u \in Trans PROVE Finalized(u)'
    BY <1>1, <1>5, <1>6 DEF IInv, Finalized, TypeOK
  <2> QED
    BY <2>1, <2>2
<1>pend. Pending(t)'
  BY <1>1, <1>2, <1>3 DEF IInv, TypeOK, Pending, NoPending, FilesAt, Progress,
     Active, Holds, UnlinkObjFiles, startVars
<1>byte. \A u \in Trans : Bytes(u)'
  BY <1>1, <1>3, <1>4 DEF IInv, TypeOK, Bytes, Progress, UnlinkObjFiles, startVars
<1> QED
  BY <1>1, <1>3, <1>4, <1>prog, <1>lock, <1>fold, <1>free, <1>curr, <1>vers, <1>fin,
     <1>pend, <1>byte, ActiveStep

\* Folder of an object is removed empty.
LEMMA RemoveObjFolderKeeps ==
    ASSUME IInv, ~IsRoot, NEW t \in Trans, RemoveObjFolder(t)
    PROVE  IInv'
<1> USE TransAssumption DEF Part
<1>1. TypeOK /\ TypeOK'
  BY TypeStep DEF IInv, Next, ServerSteps, CloseSteps
<1>2. Active(t)
  BY <1>1 DEF IInv, TypeOK, Active, Holds, Progress, RemoveObjFolder, startVars
<1>3. /\ lock
      /\ \A u \in Trans \ {t} : /\ ~Active(u) /\ tasks[u] = {}
                                /\ start[u] \notin {"tasks", "saving"}
                                /\ start[u] = "ok" => close[u] \in {"finalized", "cancelled"}
  BY <1>2, Alone
<1>4. \A u \in Trans \ {t} : /\ start'[u] = start[u] /\ tasks'[u] = tasks[u]
                            /\ close'[u] = close[u] /\ renames'[u] = renames[u]
                            /\ put'[u] = put[u]
  BY <1>1 DEF TypeOK, RemoveObjFolder, startVars
<1>5. /\ start[t] = "ok" /\ close[t] = "rmobjdir" /\ close'[t] = "rm_can"
      /\ UNCHANGED <<verFiles, curVer>>
  BY <1>1 DEF IInv, TypeOK, Progress, RemoveObjFolder
<1>prog. \A u \in Trans : Progress(u)'
  BY <1>1, <1>3, <1>4 DEF IInv, TypeOK, Progress, RemoveObjFolder, startVars
<1>lock. Active(t)' => lock'
  BY <1>1, <1>3 DEF TypeOK, RemoveObjFolder, startVars
<1>fold. Folder(t)'
  BY <1>1, <1>2, <1>3 DEF IInv, TypeOK, Progress, Folder, Version, Active, Holds,
     RemoveObjFolder, startVars
<1>free. FreeFolder'
  BY <1>1, <1>3 DEF IInv, TypeOK, FreeFolder, RemoveObjFolder, startVars
<1>curr. Current'
  BY <1>1, <1>2, <1>3 DEF IInv, TypeOK, Current, Progress, Folder, Version,
     Uploading, Active, Holds, RemoveObjFolder, startVars
<1>vers. Version(t)'
  BY <1>1, <1>2, <1>3 DEF IInv, TypeOK, Version, Uploading, Progress, Folder,
     Current, Active, Holds, RemoveObjFolder, startVars
<1>fin. Files' /\ \A u \in Trans : Finalized(u)'
  BY <1>1, <1>3, FilesKept DEF IInv, TypeOK, NoPending, Pending, Progress, Active,
     Holds, RemoveObjFolder, startVars
<1>pend. Pending(t)'
  BY <1>2, <1>5 DEF IInv, Pending, NoPending
<1>byte. \A u \in Trans : Bytes(u)'
  BY <1>1, <1>3, <1>4 DEF IInv, TypeOK, Bytes, Progress, RemoveObjFolder, startVars
<1> QED
  BY <1>1, <1>3, <1>4, <1>prog, <1>lock, <1>fold, <1>free, <1>curr, <1>vers, <1>fin,
     <1>pend, <1>byte, ActiveStep

\* Nothing is expected of the folder at this stage.
LEMMA UnlinkTransFileKeeps ==
    ASSUME IInv, ~IsRoot, NEW t \in Trans, UnlinkTransFile(t)
    PROVE  IInv'
<1> USE TransAssumption DEF Part
<1>1. TypeOK /\ TypeOK'
  BY TypeStep DEF IInv, Next, ServerSteps, CloseSteps
<1>2. Active(t)
  BY <1>1 DEF IInv, TypeOK, Active, Holds, Progress, UnlinkTransFile, startVars,
     closeVars
<1>3. /\ lock
      /\ \A u \in Trans \ {t} : /\ ~Active(u) /\ tasks[u] = {}
                                /\ start[u] \notin {"tasks", "saving"}
                                /\ start[u] = "ok" => close[u] \in {"finalized", "cancelled"}
  BY <1>2, Alone
<1>4. \A u \in Trans \ {t} : /\ start'[u] = start[u] /\ tasks'[u] = tasks[u]
                            /\ close'[u] = close[u] /\ renames'[u] = renames[u]
                            /\ put'[u] = put[u]
  BY <1>1 DEF TypeOK, UnlinkTransFile, startVars, closeVars
<1>prog. \A u \in Trans : Progress(u)'
  BY <1>1, <1>3, <1>4 DEF IInv, TypeOK, Progress, UnlinkTransFile, startVars, closeVars
<1>lock. Active(t)' => lock'
  BY <1>1, <1>3 DEF TypeOK, UnlinkTransFile, startVars, closeVars
<1>fold. Folder(t)'
  BY <1>1, <1>2, <1>3 DEF IInv, TypeOK, Progress, Folder, Version, Active, Holds,
     UnlinkTransFile, startVars, closeVars
<1>free. FreeFolder'
  BY <1>1, <1>3 DEF IInv, TypeOK, FreeFolder, UnlinkTransFile, startVars, closeVars
<1>curr. Current'
  BY <1>1, <1>2, <1>3 DEF IInv, TypeOK, Current, Progress, Folder, Version,
     Uploading, Active, Holds, UnlinkTransFile, startVars, closeVars
<1>vers. Version(t)'
  BY <1>1, <1>2, <1>3 DEF IInv, TypeOK, Version, Uploading, Progress, Folder,
     Current, Active, Holds, UnlinkTransFile, startVars, closeVars
<1>fin. Files' /\ \A u \in Trans : Finalized(u)'
  BY <1>1, <1>3, FilesKept DEF IInv, TypeOK, NoPending, Pending, Progress, Active,
     Holds, UnlinkTransFile, startVars, closeVars
<1>pend. Pending(t)'
  BY <1>1, <1>2, <1>3 DEF IInv, TypeOK, Pending, NoPending, FilesAt, Progress,
     Active, Holds, UnlinkTransFile, startVars, closeVars
<1>byte. \A u \in Trans : Bytes(u)'
  BY <1>1, <1>3, <1>4 DEF IInv, TypeOK, Bytes, Progress, UnlinkTransFile, startVars,
     closeVars
<1> QED
  BY <1>1, <1>3, <1>4, <1>prog, <1>lock, <1>fold, <1>free, <1>curr, <1>vers, <1>fin,
     <1>pend, <1>byte, ActiveStep

\* Folder is removed empty, and frees the object.
LEMMA RemoveTransFolderKeeps ==
    ASSUME IInv, ~IsRoot, NEW t \in Trans, RemoveTransFolder(t)
    PROVE  IInv'
<1> USE TransAssumption DEF Part
<1>1. TypeOK /\ TypeOK'
  BY TypeStep DEF IInv, Next, ServerSteps, CloseSteps
<1>2. Active(t)
  BY <1>1 DEF IInv, TypeOK, Active, Holds, Progress, RemoveTransFolder, startVars
<1>3. /\ lock
      /\ \A u \in Trans \ {t} : /\ ~Active(u) /\ tasks[u] = {}
                                /\ start[u] \notin {"tasks", "saving"}
                                /\ start[u] = "ok" => close[u] \in {"finalized", "cancelled"}
  BY <1>2, Alone
<1>4. \A u \in Trans \ {t} : /\ start'[u] = start[u] /\ tasks'[u] = tasks[u]
                            /\ close'[u] = close[u] /\ renames'[u] = renames[u]
                            /\ put'[u] = put[u]
  BY <1>1 DEF TypeOK, RemoveTransFolder, startVars
<1>5. /\ start[t] = "ok" /\ tasks'[t] = {} /\ close'[t] \in {"finalized", "cancelled"}
  BY <1>1 DEF IInv, TypeOK, Progress, RemoveTransFolder, startVars
<1>prog. \A u \in Trans : Progress(u)'
  BY <1>1, <1>3, <1>4 DEF IInv, TypeOK, Progress, RemoveTransFolder, startVars
<1>lock. Active(t)' => lock'
  BY <1>5 DEF Active, Holds
<1>fold. Folder(t)'
  BY <1>1, <1>2, <1>3 DEF IInv, TypeOK, Progress, Folder, Version, Active, Holds,
     RemoveTransFolder, startVars
<1>free. FreeFolder'
  BY <1>1, <1>3 DEF IInv, TypeOK, FreeFolder, RemoveTransFolder, startVars
<1>curr. Current'
  BY <1>1, <1>2, <1>3 DEF IInv, TypeOK, Current, Progress, Folder, Version,
     Uploading, Active, Holds, RemoveTransFolder, startVars
<1>vers. Version(t)'
  BY <1>1, <1>2, <1>3 DEF IInv, TypeOK, Version, Uploading, Progress, Folder,
     Current, Active, Holds, RemoveTransFolder, startVars
<1>fin. Files' /\ \A u \in Trans : Finalized(u)'
  BY <1>1, <1>3, FilesKept DEF IInv, TypeOK, NoPending, Pending, Progress, Active,
     Holds, RemoveTransFolder, startVars
<1>pend. Pending(t)'
  BY <1>1, <1>2, <1>3 DEF IInv, TypeOK, Pending, NoPending, FilesAt, Progress,
     Active, Holds, RemoveTransFolder, startVars
<1>byte. \A u \in Trans : Bytes(u)'
  BY <1>1, <1>3, <1>4 DEF IInv, TypeOK, Bytes, Progress, RemoveTransFolder, startVars
<1> QED
  BY <1>1, <1>3, <1>4, <1>prog, <1>lock, <1>fold, <1>free, <1>curr, <1>vers, <1>fin,
     <1>pend, <1>byte, ActiveStep

\* A number in current.v commits files of t.
LEMMA WriteCurrentVersionKeeps ==
    ASSUME IInv, ~IsRoot, NEW t \in Trans, WriteCurrentVersion(t)
    PROVE  IInv'
<1> USE TransAssumption DEF Part
<1>1. TypeOK /\ TypeOK'
  BY TypeStep DEF IInv, Next, ServerSteps, CloseSteps
<1>a. Progress(t) /\ Folder(t) /\ Version(t) /\ Current /\ Pending(t) /\ close[t] = "setver"
  BY DEF IInv, WriteCurrentVersion
<1>b. start[t] = "ok" /\ tasks[t] = {} /\ renames[t] = {}
  BY <1>1, <1>a DEF Progress, TypeOK
<1>2. Active(t)
  BY <1>a, <1>b DEF Active, Holds
<1>3. /\ lock
      /\ \A u \in Trans \ {t} : /\ ~Active(u) /\ tasks[u] = {}
                                /\ start[u] \notin {"tasks", "saving"}
                                /\ start[u] = "ok" => close[u] \in {"finalized", "cancelled"}
  BY <1>2, Alone
<1>4. \A u \in Trans \ {t} : /\ start'[u] = start[u] /\ tasks'[u] = tasks[u]
                            /\ close'[u] = close[u] /\ renames'[u] = renames[u]
                            /\ put'[u] = put[u]
  BY <1>1 DEF TypeOK, WriteCurrentVersion, startVars
<1>5. /\ ver[t] = curVer + 1 /\ params = t /\ objFolder
      /\ FilesAt(curVer + 1) = FilesOf(curVer + 1, t)
  BY <1>a, <1>b DEF Folder, Version, Current, Pending, FilesOf
<1>6. /\ curVer' = curVer + 1 /\ current' = "num" /\ close'[t] = "rm_fin"
      /\ start'[t] = start[t] /\ tasks'[t] = tasks[t] /\ put'[t] = put[t] /\ renames'[t] = renames[t]
      /\ UNCHANGED <<objFolder, verFiles, lock, params, newFile, bytes, ver, start>>
  BY <1>1, <1>5 DEF TypeOK, WriteCurrentVersion, startVars
<1>7. curVer \in Nat /\ \A f \in verFiles : f.ver \in Nat /\ f.from \in Trans
  BY <1>1 DEF TypeOK, VerFile
<1>8. Files /\ \A u \in Trans : Finalized(u)
  BY DEF IInv
<1>9. \A f \in verFiles : f.ver = curVer + 1 => f.from = t
  <2> SUFFICES ASSUME NEW f \in verFiles, f.ver = curVer + 1 PROVE f.from = t
    OBVIOUS
  <2>1. f \in FilesOf(curVer + 1, t)
    BY <1>5 DEF FilesAt
  <2> QED
    BY <2>1 DEF FilesOf
<1>prog. \A u \in Trans : Progress(u)'
  <2>1. Progress(t)'
    BY <1>a, <1>b, <1>6 DEF Progress
  <2>2. ASSUME NEW u \in Trans \ {t} PROVE Progress(u)'
    BY <1>4, <2>2 DEF IInv, Progress
  <2> QED
    BY <2>1, <2>2
<1>lock. Active(t)' => lock'
  BY <1>3, <1>6
<1>fold. Folder(t)'
  BY <1>b, <1>6 DEF Folder
<1>free. FreeFolder'
  BY <1>3, <1>6 DEF FreeFolder
<1>curr. Current'
  BY <1>a, <1>b, <1>5, <1>6, <1>7 DEF Current
<1>vers. Version(t)'
  BY <1>b, <1>6 DEF Version, Uploading
<1>fin. Files' /\ \A u \in Trans : Finalized(u)'
  <2>1. NoPending'
    BY <1>6, <1>7, <1>8 DEF Files, NoPending
  <2>2. \A u \in Trans : close[u] \in {"rm_fin", "finalized", "dead"} => close'[u] = close[u]
    BY <1>4, <1>a
  <2>3. \A f \in verFiles : close'[f.from] \in {"rm_fin", "finalized", "dead"}
    <3> SUFFICES ASSUME NEW f \in verFiles
                 PROVE  close'[f.from] \in {"rm_fin", "finalized", "dead"}
      OBVIOUS
    <3>1. CASE f.ver <= curVer
      BY <1>7, <1>8, <2>2, <3>1 DEF Files
    <3>2. CASE f.ver = curVer + 1
      BY <1>6, <1>9, <3>2
    <3> QED
      BY <1>7, <1>8, <3>1, <3>2 DEF Files
  <2>4. Files'
    BY <1>6, <1>7, <1>8, <2>1, <2>3 DEF Files
  <2>5. ASSUME NEW u \in Trans PROVE Finalized(u)'
    <3>1. CASE u = t
      BY <1>5, <1>6, <1>7, <3>1 DEF Finalized, FilesAt, FilesOf
    <3>2. CASE u # t
      BY <1>1, <1>4, <1>6, <1>7, <1>8, <3>2 DEF Finalized, FilesAt, FilesOf, TypeOK
    <3> QED
      BY <3>1, <3>2
  <2> QED
    BY <2>4, <2>5
<1>pend. Pending(t)'
  BY <1>6, <1>7, <1>8 DEF Files, Pending, NoPending
<1>byte. \A u \in Trans : Bytes(u)'
  BY <1>4, <1>6 DEF IInv, Bytes
<1> QED
  BY <1>1, <1>3, <1>4, <1>prog, <1>lock, <1>fold, <1>free, <1>curr, <1>vers, <1>fin,
     <1>pend, <1>byte, ActiveStep

\* Bytes, that are late, may be written even after close of their transaction.
LEMMA WriteBytesKeeps ==
    ASSUME IInv, NEW t \in Trans, NEW p \in Part, WriteBytes(t, p)
    PROVE  IInv'
<1> USE TransAssumption DEF Part
<1>1. TypeOK /\ TypeOK'
  BY TypeStep DEF IInv, Next, ServerSteps
<1>2. UNCHANGED <<objFolder, current, curVer, verFiles, lock, params, newFile,
                  isNew, ver, start, tasks, close, renames>>
  BY DEF WriteBytes, startVars, closeVars
<1>3. put[t][p] = "open" /\ Progress(t) /\ Folder(t)
  BY DEF IInv, WriteBytes
<1>4. start[t] = "ok" /\ close[t] # "renaming" /\ (close[t] = "none" => newFile[p] = t)
  BY <1>3 DEF Progress, Folder
<1>5. close[t] = "none" \/ t \in Dropping
  BY <1>3 DEF Progress
<1>6. \A u \in Trans, q \in Part : u # t \/ q # p => put'[u][q] = put[u][q]
  BY <1>1 DEF TypeOK, WriteBytes
<1>7. /\ put'[t][p] \in {"open", "ok", "stalled", "failed"}
      /\ put'[t][p] = "failed" => newFile[p] = NoTrans /\ bytes' = bytes
      /\ put'[t][p] # "failed" =>
            newFile[p] \in Trans /\ bytes' = [bytes EXCEPT ![newFile[p]][p] = @ \cup {t}]
  BY <1>1 DEF TypeOK, WriteBytes
<1>8. \A u \in Trans : Progress(u)'
  <2>1. Progress(t)'
    BY <1>2, <1>3, <1>4, <1>6, <1>7 DEF Progress
  <2>2. ASSUME NEW u \in Trans \ {t} PROVE Progress(u)'
    BY <1>2, <1>6 DEF IInv, Progress
  <2> QED
    BY <2>1, <2>2
<1>9. \A u \in Trans, q \in Part : /\ bytes[u][q] \subseteq bytes'[u][q]
                                   /\ bytes'[u][q] \subseteq bytes[u][q] \cup {t}
                                   /\ bytes'[u][q] # bytes[u][q] => newFile[p] = u /\ q = p
  <2>1. CASE put'[t][p] = "failed"
    BY <1>7, <2>1
  <2>2. CASE put'[t][p] # "failed"
    <3> DEFINE n == newFile[p]
    <3>1. n \in Trans /\ bytes' = [bytes EXCEPT ![n][p] = bytes[n][p] \cup {t}]
      BY <1>7, <2>2
    <3> HIDE DEF n
    <3>2. bytes \in [Trans -> [Part -> SUBSET Trans]]
      BY <1>1 DEF TypeOK
    <3>3. bytes'[n][p] = bytes[n][p] \cup {t}
      BY <3>1, <3>2
    <3>4. \A u \in Trans, q \in Part : u # n \/ q # p => bytes'[u][q] = bytes[u][q]
      BY <3>1, <3>2
    <3> QED
      BY <3>3, <3>4 DEF n
  <2> QED
    BY <1>7, <2>1, <2>2
<1>10. \A u \in Trans : Bytes(u)'
  <2> SUFFICES ASSUME NEW u \in Trans, NEW q \in Part
               PROVE  /\ bytes'[u][q] \subseteq {u} \cup Dropping
                      /\ put'[u][q] = "ok" /\ close'[u] \in {"none", "renaming"} =>
                            u \in bytes'[u][q]
    BY DEF Bytes
  <2>1. Bytes(u)
    BY DEF IInv
  <2>2. bytes'[u][q] \subseteq {u} \cup Dropping
    <3>1. CASE bytes'[u][q] = bytes[u][q]
      BY <2>1, <3>1 DEF Bytes
    <3>2. CASE bytes'[u][q] # bytes[u][q]
      BY <1>4, <1>5, <1>9, <2>1, <3>2 DEF Bytes
    <3> QED
      BY <3>1, <3>2
  <2>3. ASSUME put'[u][q] = "ok", close'[u] \in {"none", "renaming"}
        PROVE  u \in bytes'[u][q]
    <3>1. CASE u = t /\ q = p
      <4>1. newFile[p] = t /\ bytes' = [bytes EXCEPT ![t][p] = bytes[t][p] \cup {t}]
        BY <1>2, <1>4, <1>7, <2>3, <3>1
      <4> QED
        BY <1>1, <3>1, <4>1 DEF TypeOK
    <3>2. CASE u # t \/ q # p
      BY <1>2, <1>6, <1>9, <2>1, <2>3, <3>2 DEF Bytes
    <3> QED
      BY <3>1, <3>2
  <2> QED
    BY <2>2, <2>3
<1>11. Files' /\ \A u \in Trans : Finalized(u)'
  <2>1. Files'
    <3>1. \A f \in verFiles : f.from \in Trans /\ f.part \in Part
      BY <1>1 DEF TypeOK, VerFile
    <3> QED
      BY <1>2, <1>9, <3>1 DEF IInv, Files, NoPending
  <2>2. \A u \in Trans : Finalized(u)'
    BY <1>2 DEF IInv, Finalized, FilesAt, FilesOf
  <2> QED
    BY <2>1, <2>2
<1>12. Lock' /\ FreeFolder' /\ Current'
  BY <1>2 DEF IInv, Lock, Active, Holds, FreeFolder, Current
<1>13. \A u \in Trans : Folder(u)' /\ Version(u)' /\ Pending(u)'
  BY <1>2 DEF IInv, Folder, Version, Pending, Active, Holds, Uploading, NoPending,
     FilesAt
<1> QED
  BY <1>1, <1>8, <1>10, <1>11, <1>12, <1>13 DEF IInv

\* A start that finds transaction's folder changes nothing on the disk.
LEMMA StartTransactionKeeps ==
    ASSUME IInv, ~IsRoot, NEW t \in Trans, NEW new \in BOOLEAN, StartTransaction(t, new)
    PROVE  IInv'
<1> USE TransAssumption DEF Part
<1>1. TypeOK /\ TypeOK'
  BY TypeStep DEF IInv, Next
<1>2. /\ start[t] = "none"
      /\ UNCHANGED <<objFolder, current, curVer, verFiles, params, newFile, bytes,
                     put, close, renames>>
      /\ ver'[t] = (IF new THEN 1 ELSE 0) /\ isNew'[t] = new
  BY <1>1 DEF TypeOK, StartTransaction, FolderExists, closeVars
<1>3. tasks[t] = {} /\ close[t] = "none" /\ Progress(t)
  BY <1>2 DEF IInv, Progress
<1>4. \A u \in Trans \ {t} : /\ start'[u] = start[u] /\ tasks'[u] = tasks[u]
                             /\ isNew'[u] = isNew[u] /\ ver'[u] = ver[u]
                             /\ close'[u] = close[u]
  BY <1>1, <1>2 DEF TypeOK, StartTransaction, FolderExists
<1>5. Files /\ FreeFolder /\ Current /\ Lock /\ \A u \in Trans : Finalized(u)
  BY DEF IInv
<1>6. Current'
  BY <1>1, <1>2, <1>4, <1>5 DEF Current, TypeOK
<1>7. \A u \in Trans : Finalized(u)'
  <2>1. Finalized(t)'
    BY <1>2, <1>3 DEF Finalized
  <2>2. ASSUME NEW u \in Trans \ {t} PROVE Finalized(u)'
    BY <1>2, <1>4, <1>5 DEF Finalized, FilesAt, FilesOf
  <2> QED
    BY <2>1, <2>2
<1>8. \A u \in Trans : Bytes(u)'
  BY <1>2 DEF IInv, Bytes
<1>9. CASE lock
  <2>1. /\ start'[t] = "failed" /\ tasks'[t] = {} /\ lock' = lock
    BY <1>1, <1>3, <1>9 DEF TypeOK, StartTransaction, FolderExists
  <2>2. ~Active(t)' /\ \A u \in Trans \ {t} : Active(u)' <=> Active(u)
    BY <1>2, <1>4, <2>1 DEF Active, Holds
  <2>3. \A u \in Trans : Progress(u)'
    BY <1>2, <1>3, <1>4, <2>1 DEF IInv, Progress
  <2>4. \A u \in Trans : Folder(u)' /\ Version(u)' /\ Pending(u)'
    <3>1. Folder(t)' /\ Version(t)' /\ Pending(t)'
      BY <2>1, <2>2 DEF Folder, Version, Pending, Uploading
    <3>2. ASSUME NEW u \in Trans \ {t} PROVE Folder(u)' /\ Version(u)' /\ Pending(u)'
      BY <1>2, <1>4, <2>2, <3>2
         DEF IInv, Folder, Version, Pending, Uploading, NoPending, FilesAt
    <3> QED
      BY <3>1, <3>2
  <2>5. Files'
    BY <1>2, <1>5, <2>1 DEF Files, NoPending
  <2>6. Lock' /\ FreeFolder'
    BY <1>2, <1>5, <1>9, <2>1, <2>2 DEF Lock, FreeFolder
  <2> QED
    BY <1>1, <1>6, <1>7, <1>8, <2>3, <2>4, <2>5, <2>6 DEF IInv
<1>10. CASE ~lock
  <2>1. /\ start'[t] = "tasks" /\ lock'
        /\ tasks'[t] = IF new THEN {"space", "mkobj"} ELSE {"space", "readver"}
    BY <1>1, <1>3, <1>10 DEF TypeOK, StartTransaction, FolderExists
  <2>2. \A u \in Trans \ {t} : ~Active(u)
    BY <1>5, <1>10 DEF Lock
  <2>3. \A u \in Trans : Progress(u)'
    <3>1. Progress(t)'
      BY <1>2, <1>3, <2>1 DEF Progress
    <3>2. ASSUME NEW u \in Trans \ {t} PROVE Progress(u)'
      BY <1>2, <1>4, <3>2 DEF IInv, Progress
    <3> QED
      BY <3>1, <3>2
  <2>4. params = NoTrans /\ (\A p \in Part : newFile[p] = NoTrans) /\ NoPending
    BY <1>5, <1>10 DEF FreeFolder, Files
  <2>5. Folder(t)'
    BY <1>2, <2>1, <2>4 DEF Folder
  <2>6. Version(t)'
    BY <1>2, <2>1 DEF Version, Uploading
  <2>7. Pending(t)' /\ Files' /\ FreeFolder'
    BY <1>2, <1>5, <2>1, <2>4 DEF Pending, Files, NoPending, FreeFolder
  <2> QED
    BY <1>1, <1>4, <1>6, <1>7, <1>8, <2>1, <2>2, <2>3, <2>5, <2>6, <2>7, ActiveStep
<1> QED
  BY <1>9, <1>10

\* Nobody is active after a crash.
LEMMA CrashKeeps == ASSUME IInv, Crash PROVE IInv'
<1> USE TransAssumption DEF Part
<1>1. TypeOK /\ TypeOK'
  BY TypeStep DEF IInv, Next
<1>2. UNCHANGED <<objFolder, current, curVer, verFiles, lock, params, newFile, bytes,
                  isNew, ver>>
  BY DEF Crash, diskVars
<1>3. ASSUME NEW u \in Trans
      PROVE  /\ tasks'[u] = {} /\ renames'[u] = {}
             /\ start'[u] = IF \/ start[u] \in {"tasks", "saving"}
                               \/ /\ start[u] = "ok"
                                  /\ close[u] \notin {"finalized", "cancelled", "err"}
                            THEN "dead" ELSE start[u]
             /\ close'[u] = IF close[u] \in {"none", "finalized", "cancelled", "err", "lost"}
                            THEN close[u] ELSE "dead"
             /\ \A p \in Part : put'[u][p] = IF put[u][p] \in {"open", "stalled"}
                                             THEN "dead" ELSE put[u][p]
  BY DEF Crash
<1>4. \A u \in Trans : ~Active(u)'
  BY <1>3 DEF Active, Holds
<1>5. ASSUME NEW u \in Trans PROVE Progress(u)'
  <2>1. Progress(u)
    BY DEF IInv
  <2>2. CASE start[u] \notin {"ok", "dead"}
    BY <1>3, <2>1, <2>2 DEF Progress
  <2>3. CASE start[u] = "dead"
    BY <1>3, <2>1, <2>3 DEF Progress
  <2>4. CASE start[u] = "ok"
    <3>1. \/ close[u] \in {"finalized", "cancelled"} /\ start'[u] = "ok" /\ close'[u] = close[u]
          \/ start'[u] = "dead" /\ close'[u] \in {"none", "dead", "lost"}
      BY <1>1, <1>3, <2>1, <2>4 DEF Progress, TypeOK, CloseState
    <3>2. \A p \in Part : put'[u][p] = "failed" => close'[u] \notin {"none", "lost"}
      BY <1>1, <1>3, <2>1, <2>4 DEF Progress, TypeOK, CloseState
    <3> QED
      BY <1>3, <2>1, <2>4, <3>1, <3>2 DEF Progress
  <2> QED
    BY <2>2, <2>3, <2>4
<1>6. Lock' /\ FreeFolder'
  BY <1>2, <1>4 DEF IInv, Lock, FreeFolder
<1>7. Current'
  BY <1>1, <1>2, <1>3 DEF IInv, Current, TypeOK
<1>8. (\A u \in Trans : Progress(u) /\ ~Active(u) => Folder(u) /\ Version(u) /\ Pending(u))'
  BY IdleExpectsNothing, PTL
<1>9. Files'
  <2>1. \A f \in verFiles : f.from \in Trans
    BY <1>1 DEF TypeOK, VerFile
  <2> QED
    BY <1>2, <1>3, <2>1 DEF IInv, Files, NoPending
<1>10. \A u \in Trans : Finalized(u)'
  BY <1>2, <1>3 DEF IInv, Finalized, FilesAt, FilesOf
<1>11. \A u \in Trans : Bytes(u)'
  BY <1>2, <1>3 DEF IInv, Bytes
<1> QED
  BY <1>1, <1>4, <1>5, <1>6, <1>7, <1>8, <1>9, <1>10, <1>11 DEF IInv

\* IInv holds of an object that does not exist, yet.
LEMMA InitInv == ASSUME ~IsRoot, Init PROVE IInv
<1> USE TransAssumption DEF Init, Part
<1>1. TypeOK
  BY TypeInit
<1>2. \A t \in Trans : ~Active(t) /\ Progress(t)
  BY DEF Active, Holds, Progress
<1>3. Lock /\ FreeFolder /\ Current /\ Files
  BY <1>2 DEF Lock, FreeFolder, Current, Files, NoPending
<1>4. \A t \in Trans : Finalized(t) /\ Bytes(t)
  BY DEF Finalized, Bytes
<1> QED
  BY <1>1, <1>2, <1>3, <1>4, IdleExpectsNothing DEF IInv

\* Every handler's step, and a crash, keep IInv.
LEMMA InvStep == ASSUME IInv, ~IsRoot, [Next]_vars PROVE IInv'
<1>1. ASSUME NEW t \in Trans, StartSteps(t) PROVE IInv'
  BY <1>1, MakeObjFolderKeeps, OpenNewVersionKeeps, WriteNewVersionKeeps,
     ReadVersionKeeps,
     CheckSpaceKeeps, AllocateFileKeeps, OpenParamsKeeps, WriteParamsKeeps DEF StartSteps
<1>2. ASSUME NEW t \in Trans, CloseSteps(t) PROVE IInv'
  BY <1>2, RenameNewFileKeeps, OpenCurrentVersionKeeps, WriteCurrentVersionKeeps,
     UnlinkObjFilesKeeps, RemoveObjFolderKeeps, UnlinkTransFileKeeps, RemoveTransFolderKeeps
     DEF CloseSteps
<1>3. ASSUME NEW t \in Trans, ClientSteps(t) PROVE IInv'
  BY <1>3, PutBytesKeeps, FinalizeTransactionKeeps, CancelTransactionKeeps DEF
     ClientSteps
<1>4. CASE UNCHANGED vars
  BY <1>4 DEF vars, diskVars, startVars, closeVars, IInv, TypeOK, Lock, Active, Holds,
     Progress, Folder, FreeFolder, Current, Version, Uploading, Files, NoPending, Pending,
     FilesAt, FilesOf, Finalized, Bytes
<1> QED
  BY <1>1, <1>2, <1>3, <1>4, StartTransactionKeeps, WriteBytesKeeps, LoseRequestKeeps,
     CrashKeeps DEF Next, ServerSteps

-----------------------------------------------------------------------------
(* What follows from the invariant                                          *)

\* IInv is an invariant of every non-root object.
LEMMA Invariance == ASSUME ~IsRoot PROVE Spec => []IInv
BY InitInv, InvStep, PTL DEF Spec

\* What the refinement takes for a version, is the last number in current.v.
LEMMA CommittedIsCurVer == ASSUME IInv PROVE Committed = curVer /\ curVer \in Nat
BY DEF IInv, TypeOK, Current, Committed

\* Transactions on a non-root object are never in progress together, however
\* many requests to start them come.
THEOREM OneTransactionHolds == ASSUME ~IsRoot PROVE Spec => []OneTransaction
<1>1. IInv => OneTransaction
  BY DEF IInv, Lock, Active, OneTransaction
<1> QED
  BY <1>1, Invariance, PTL

\* No request of another transaction breaks a transaction that got its id.
THEOREM NoInterferenceHolds == ASSUME ~IsRoot PROVE Spec => []NoInterference
<1>1. IInv => NoInterference
  BY DEF IInv, Progress, NoInterference
<1> QED
  BY <1>1, Invariance, PTL

\* Finalized versions stay in place, in both of their files.
THEOREM FinalizedStaysHolds == ASSUME ~IsRoot PROVE Spec => []FinalizedStays
<1>1. IInv => FinalizedStays
  <2> SUFFICES ASSUME IInv, NEW t \in Trans, close[t] = "finalized"
               PROVE  /\ ver[t] <= Committed
                      /\ FilesAt(ver[t]) = FilesOf(ver[t], t)
    BY DEF FinalizedStays, FilesAt, FilesOf
  <2>1. ver[t] \in 1..curVer /\ FilesAt(ver[t]) = FilesOf(ver[t], t)
    BY DEF IInv, Finalized
  <2> QED
    BY <2>1, CommittedIsCurVer
<1> QED
  BY <1>1, Invariance, PTL

\* Bytes of other transactions get into committed files only from clients with
\* dropped connections.
THEOREM OwnBytesHolds == ASSUME ~IsRoot PROVE Spec => []OwnBytes
<1>1. IInv => OwnBytes
  <2> SUFFICES ASSUME IInv, NEW f \in verFiles
               PROVE  /\ f.from \in bytes[f.from][f.part]
                      /\ bytes[f.from][f.part] \subseteq {f.from} \cup Dropping
    BY DEF OwnBytes, CommittedFiles
  <2>1. f.from \in Trans /\ f.part \in Part
    BY DEF IInv, TypeOK, VerFile
  <2> QED
    BY <2>1 DEF IInv, Files, Bytes
<1> QED
  BY <1>1, Invariance, PTL

-----------------------------------------------------------------------------
(* The store implements an object, to which versions are added atomically   *)

\* Till current.v gets a new number, committed files do not change.
LEMMA CommittedKept ==
    ASSUME IInv, IInv', curVer' = curVer,
           \/ verFiles' = verFiles
           \/ verFiles' = {} /\ curVer = 0
           \/ \E p \in Part, from \in Trans :
                 verFiles' = {f \in verFiles : ~(f.ver = curVer + 1 /\ f.part = p)} \cup
                                {[ver |-> curVer + 1, part |-> p, from |-> from]}
    PROVE  Committed' = Committed /\ CommittedFiles' = CommittedFiles
<1>1. Committed = curVer /\ curVer \in Nat
  BY CommittedIsCurVer
<1>2. (IInv => Committed = curVer)'
  BY CommittedIsCurVer, PTL
<1>3. Committed' = curVer
  BY <1>2
<1>4. \A f \in verFiles : f.ver \in 1..(curVer + 1)
  BY DEF IInv, Files
<1>5. {f \in verFiles' : f.ver <= curVer} = {f \in verFiles : f.ver <= curVer}
  <2>1. CASE verFiles' = {} /\ curVer = 0
    BY <1>4, <2>1
  <2>2. ASSUME NEW p \in Part, NEW from \in Trans,
               verFiles' = {f \in verFiles : ~(f.ver = curVer + 1 /\ f.part = p)} \cup
                              {[ver |-> curVer + 1, part |-> p, from |-> from]}
        PROVE  {f \in verFiles' : f.ver <= curVer} = {f \in verFiles : f.ver <= curVer}
    BY <1>1, <1>4, <2>2
  <2> QED
    BY <2>1, <2>2
<1> QED
  BY <1>1, <1>3, <1>5 DEF CommittedFiles

\* The write of a number to current.v is the commit.
LEMMA CommitStep ==
    ASSUME IInv, IInv', NEW t \in Trans, WriteCurrentVersion(t)
    PROVE  Versions!Commit(t)
<1>1. Committed = curVer /\ curVer \in Nat
  BY CommittedIsCurVer
<1>2. (IInv => Committed = curVer)'
  BY CommittedIsCurVer, PTL
<1>3. close[t] = "setver" /\ start[t] = "ok" /\ renames[t] = {} /\ curVer' = ver[t]
      /\ verFiles' = verFiles
  BY DEF WriteCurrentVersion, IInv, Progress, TypeOK
<1>4. ver[t] = curVer + 1
  BY <1>3 DEF IInv, Version
<1>5. FilesAt(curVer + 1) = {[ver |-> curVer + 1, part |-> p, from |-> t] : p \in Part}
  BY <1>3 DEF IInv, Pending
<1>6. Committed' = curVer + 1
  BY <1>2, <1>3, <1>4
<1>7. \A f \in CommittedFiles : f.from # t
  BY <1>1, <1>3 DEF CommittedFiles, IInv, Files
<1>8. CommittedFiles' = CommittedFiles \cup FilesAt(curVer + 1)
  <2>1. \A f \in verFiles : f.ver \in Nat
    BY DEF IInv, TypeOK, VerFile
  <2> QED
    BY <1>1, <1>3, <1>6, <2>1 DEF CommittedFiles, FilesAt
<1> QED
  BY <1>1, <1>5, <1>6, <1>7, <1>8 DEF Versions!Commit

\* Every step is either an addition of the next version, or changes nothing for
\* readers.
LEMMA StepSimulation ==
    ASSUME IInv, IInv', ~IsRoot, [Next]_vars
    PROVE  [Versions!Next]_<<Committed, CommittedFiles>>
<1> DEFINE Stutters == Committed' = Committed /\ CommittedFiles' = CommittedFiles
<1>1. ASSUME NEW t \in Trans, NEW new \in BOOLEAN, StartTransaction(t, new) PROVE Stutters
  BY <1>1, CommittedKept DEF StartTransaction, FolderExists
<1>2. ASSUME NEW t \in Trans, StartSteps(t) PROVE Stutters
  <2>1. UNCHANGED <<verFiles, curVer>>
    BY <1>2 DEF StartSteps, MakeObjFolder, OpenNewVersion, WriteNewVersion, ReadVersion, NextVersion,
                CheckSpace, AllocateFile, OpenParams, WriteParams, diskVars
  <2> QED
    BY <2>1, CommittedKept
<1>3. ASSUME NEW t \in Trans, NEW p \in Part, WriteBytes(t, p) PROVE Stutters
  BY <1>3, CommittedKept DEF WriteBytes
<1>4. ASSUME NEW t \in Trans, ClientSteps(t) PROVE Stutters
  <2>1. UNCHANGED <<verFiles, curVer>>
    BY <1>4 DEF ClientSteps, PutBytes, FinalizeTransaction, AllSent, CancelTransaction, RemovesObj, diskVars
  <2> QED
    BY <2>1, CommittedKept
<1>5. ASSUME NEW t \in Trans, NEW p \in Part, RenameNewFile(t, p) PROVE Stutters
  <2>1. p \in renames[t] /\ start[t] = "ok" /\ close[t] = "renaming"
    BY <1>5 DEF RenameNewFile, IInv, Progress, TypeOK
  <2>2. ver[t] = curVer + 1 /\ newFile[p] = t /\ objFolder
    BY <2>1 DEF IInv, Folder, Version, Uploading, Current
  <2>3. /\ curVer' = curVer
        /\ verFiles' = {f \in verFiles : ~(f.ver = curVer + 1 /\ f.part = p)} \cup
                          {[ver |-> curVer + 1, part |-> p, from |-> t]}
    BY <1>5, <2>2, TransAssumption DEF RenameNewFile
  <2> QED
    BY <2>3, CommittedKept
<1>6. ASSUME NEW t \in Trans, UnlinkObjFiles(t) PROVE Stutters
  <2>1. close[t] = "rmobj" /\ start[t] = "ok"
    BY <1>6 DEF UnlinkObjFiles, IInv, Progress, TypeOK
  <2>2. curVer = 0
    BY <2>1 DEF IInv, Version, Current
  <2> QED
    BY <1>6, <2>2, CommittedKept DEF UnlinkObjFiles
<1>7. ASSUME NEW t \in Trans, CloseSteps(t) PROVE Stutters \/ Versions!Commit(t)
  <2>1. CASE OpenCurrentVersion(t) \/ RemoveObjFolder(t) \/ UnlinkTransFile(t)
             \/ RemoveTransFolder(t)
    <3>1. UNCHANGED <<verFiles, curVer>>
      BY <2>1 DEF OpenCurrentVersion, RenamesDone, RemoveObjFolder, UnlinkTransFile,
         RemoveTransFolder
    <3> QED
      BY <3>1, CommittedKept
  <2> QED
    BY <1>5, <1>6, <1>7, <2>1, CommitStep DEF CloseSteps
<1>10. ASSUME NEW t \in Trans, LoseRequest(t) PROVE Stutters
  BY <1>10, CommittedKept DEF LoseRequest, diskVars
<1>8. CASE Crash
  BY <1>8, CommittedKept DEF Crash, diskVars
<1>9. CASE UNCHANGED vars
  BY <1>9, CommittedKept DEF vars, diskVars
<1> QED
  BY <1>1, <1>2, <1>3, <1>4, <1>7, <1>8, <1>9, <1>10 DEF Next, ServerSteps, Versions!Next

\* Readers, that take the number from current.v, see versions of a non-root
\* object appear atomically, one after another, and none of them ever change.
THEOREM Implements == ASSUME ~IsRoot PROVE Spec => ImplementsVersions
<1>1. ASSUME Init PROVE Versions!Init
  <2>1. IInv
    BY <1>1, InitInv
  <2> QED
    BY <1>1, <2>1, CommittedIsCurVer DEF Init, Versions!Init, CommittedFiles
<1> QED
  BY <1>1, Invariance, StepSimulation, PTL DEF Spec, ImplementsVersions, Versions!Spec

-----------------------------------------------------------------------------
(* Induction over numbers, by sets of numbers                               *)

Before == {ss \in Nat \X Nat : ss[1] < ss[2]}

\* Every set of natural numbers has the least one.
LEMMA LeastNumber ==
    ASSUME NEW T, T \subseteq Nat, T # {}
    PROVE  \E n \in T : \A m \in T : n <= m
<1>1. IsWellFoundedOn(Before, Nat)
    BY NatLessThanWellFounded DEF OpToRel, Before
<1>2. \E n \in T : \A m \in T : ~ (<<m, n>> \in Before)
    BY <1>1, WFMin
<1>3. PICK n \in T : \A m \in T : ~ (<<m, n>> \in Before)
    BY <1>2
<1>4. ASSUME NEW m \in T, ~(n <= m)
      PROVE  <<m, n>> \in Before
  <2>1. m \in Nat /\ n \in Nat /\ m < n
      BY <1>4
  <2> QED
      BY <2>1 DEF Before
<1> QED
    BY <1>3, <1>4

\* A set with zero, and with a successor of each of its members, has all numbers.
LEMMA Induction ==
    ASSUME NEW S, 0 \in S, \A n \in Nat : n \in S => n + 1 \in S
    PROVE  Nat \subseteq S
<1> SUFFICES ASSUME Nat \ S # {}
             PROVE  FALSE
    OBVIOUS
<1>1. PICK n \in Nat \ S : \A m \in Nat \ S : n <= m
    BY LeastNumber
<1>2. n # 0
    OBVIOUS
<1>3. n - 1 \in Nat /\ n - 1 \in S
    BY <1>1, <1>2
<1>4. (n - 1) + 1 = n
    OBVIOUS
<1> QED
    BY <1>3, <1>4

-----------------------------------------------------------------------------
(* Folds                                                                    *)

\* The largest number, that is over all others.
LEMMA MaxIs ==
    ASSUME NEW T, T \subseteq Int, NEW n \in T, \A m \in T : m <= n
    PROVE  Max(T) = n
<1>1. n \in T /\ \A m \in T : n >= m
    OBVIOUS
<1>2. \A x \in T : (\A m \in T : x >= m) => x = n
    BY <1>1
<1> QED
    BY <1>1, <1>2 DEF Max

\* A set of indices has the largest one.
LEMMA SubsetMax ==
    ASSUME NEW n \in Nat, NEW t \in SUBSET (1..n), t # {}
    PROVE  Max(t) \in t /\ \A k \in t : k <= Max(t)
<1> DEFINE T == {n - m : m \in t}
<1>1. t \subseteq 1..n /\ \A m \in t : m \in Nat /\ n - m \in Nat
    OBVIOUS
<1>2. T \subseteq Nat /\ T # {}
    BY <1>1
<1>3. PICK d \in T : \A e \in T : d <= e
  <2> HIDE DEF T
  <2> QED
      BY <1>2, LeastNumber
<1>4. PICK m \in t : d = n - m
    OBVIOUS
<1>5. ASSUME NEW k \in t
      PROVE  k <= m
  <2>1. d <= n - k
      BY <1>3
  <2> QED
      BY <2>1, <1>1, <1>4
<1>6. t \subseteq Int
    BY <1>1
<1>7. Max(t) = m
    BY <1>5, <1>6, MaxIs
<1> QED
    BY <1>5, <1>7

\* FoldLeft takes the last element out of a set of indices.
Folding(H, base, n, f) ==
    f = [t \in SUBSET (1..n) |->
            IF t = {} THEN base ELSE H[<<f[t \ {Max(t)}], Max(t)>>]]

\* A fold of steps, that stay in a set, over indices up to k.
FoldsUpTo(X, H, base, k, f) ==
    /\ f \in [SUBSET (1..k) -> X] /\ f[{}] = base
    /\ \A t \in SUBSET (1..k) : t # {} => f[t] = H[<<f[t \ {Max(t)}], Max(t)>>]

\* A fold is extended by one more index.
LEMMA FoldExtends ==
    ASSUME NEW X, NEW base \in X, NEW n \in Nat, NEW H \in [X \X (1..n) -> X],
           NEW k \in Nat, k + 1 <= n, NEW f, FoldsUpTo(X, H, base, k, f)
    PROVE  \E g : FoldsUpTo(X, H, base, k + 1, g)
<1> DEFINE g == [t \in SUBSET (1..(k + 1)) |->
                    IF k + 1 \in t THEN H[<<f[t \ {k + 1}], k + 1>>] ELSE f[t]]
<1> USE DEF FoldsUpTo
<1>1. ASSUME NEW t \in SUBSET (1..(k + 1))
      PROVE  /\ k + 1 \notin t => t \in SUBSET (1..k)
             /\ t \ {k + 1} \in SUBSET (1..k)
    BY <1>1
<1>2. k + 1 \in 1..n
    OBVIOUS
<1>3. g \in [SUBSET (1..(k + 1)) -> X]
  <2> SUFFICES ASSUME NEW t \in SUBSET (1..(k + 1))
               PROVE  (IF k + 1 \in t THEN H[<<f[t \ {k + 1}], k + 1>>] ELSE f[t]) \in X
      OBVIOUS
  <2>1. f[t \ {k + 1}] \in X /\ (k + 1 \notin t => f[t] \in X)
      BY <1>1
  <2> QED
      BY <2>1, <1>2
<1>4. g[{}] = base
    OBVIOUS
<1>5. ASSUME NEW t \in SUBSET (1..(k + 1)), t # {}
      PROVE  g[t] = H[<<g[t \ {Max(t)}], Max(t)>>]
  <2>1. CASE k + 1 \in t
    <3>1. Max(t) = k + 1
      <4>1. t \subseteq Int /\ \A m \in t : m <= k + 1
          BY <1>5
      <4> QED
          BY <2>1, <4>1, MaxIs
    <3>2. g[t \ {k + 1}] = f[t \ {k + 1}]
        BY <1>1
    <3> QED
        BY <2>1, <3>1, <3>2
  <2>2. CASE k + 1 \notin t
    <3>1. t \in SUBSET (1..k)
        BY <2>2, <1>1
    <3>2. /\ t \ {Max(t)} \in SUBSET (1..(k + 1))
          /\ k + 1 \notin t \ {Max(t)}
        BY <2>2
    <3>3. g[t \ {Max(t)}] = f[t \ {Max(t)}] /\ g[t] = f[t]
        BY <2>2, <3>2
    <3> QED
        BY <3>1, <3>3, <1>5
  <2> QED
      BY <2>1, <2>2
<1> QED
    BY <1>3, <1>4, <1>5

\* Any step, that stays in a set, may be folded over any number of indices.
LEMMA FoldExists ==
    ASSUME NEW X, NEW base \in X, NEW n \in Nat, NEW H \in [X \X (1..n) -> X]
    PROVE  \E f \in [SUBSET (1..n) -> X] : Folding(H, base, n, f)
<1> DEFINE S == {k \in Nat : k <= n => \E f : FoldsUpTo(X, H, base, k, f)}
<1>1. 0 \in S
  <2>1. SUBSET (1..0) = {{}}
      OBVIOUS
  <2>2. FoldsUpTo(X, H, base, 0, [t \in SUBSET (1..0) |-> base])
      BY <2>1 DEF FoldsUpTo
  <2> QED
      BY <2>2
<1>2. ASSUME NEW k \in Nat, k \in S
      PROVE  k + 1 \in S
    BY <1>2, FoldExtends
<1>3. n \in S
  <2> HIDE DEF S
  <2> QED
      BY <1>1, <1>2, Induction
<1>4. PICK f : FoldsUpTo(X, H, base, n, f)
    BY <1>3
<1>5. f \in [SUBSET (1..n) -> X]
    BY <1>4 DEF FoldsUpTo
<1>6. f = [t \in SUBSET (1..n) |-> IF t = {} THEN base ELSE H[<<f[t \ {Max(t)}], Max(t)>>]]
    BY <1>4, <1>5 DEF FoldsUpTo
<1> QED
    BY <1>5, <1>6 DEF Folding

\* The last of indices up to k.
LEMMA LastIndex ==
    ASSUME NEW n \in Nat, NEW k \in 1..n
    PROVE  /\ 1..k \in SUBSET (1..n) /\ 1..(k - 1) \in SUBSET (1..n) /\ 1..k # {}
           /\ Max(1..k) = k /\ (1..k) \ {k} = 1..(k - 1)
<1>1. Max(1..k) = k
  <2>1. 1..k \subseteq Int /\ k \in 1..k /\ \A m \in 1..k : m <= k
      OBVIOUS
  <2> QED
      BY <2>1, MaxIs
<1> QED
    BY <1>1

-----------------------------------------------------------------------------
(* Sums of lengths                                                          *)

\* What FoldLeft of a sum is defined by.
Summing(s, f) ==
    f = [t \in SUBSET DOMAIN s |->
            IF t = {} THEN 0 ELSE f[t \ {Max(t)}] + s[Max(t)]]
LEMMA TotalIs ==
    ASSUME NEW s, \E f : Summing(s, f)
    PROVE  \E f : Summing(s, f) /\ Total(s) = f[DOMAIN s]
BY DEF Total, FoldLeft, MapThenFoldSet, Summing

LEMMA SummingExists ==
    ASSUME NEW s \in Seq(Nat)
    PROVE  \E f : Summing(s, f)
<1> DEFINE n == Len(s)
           H == [x \in Nat \X (1..n) |-> x[1] + s[x[2]]]
<1>1. n \in Nat /\ DOMAIN s = 1..n /\ \A i \in 1..n : s[i] \in Nat
    OBVIOUS
<1>2. H \in [Nat \X (1..n) -> Nat]
    BY <1>1
<1>3. PICK f \in [SUBSET (1..n) -> Nat] : Folding(H, 0, n, f)
  <2> HIDE DEF H
  <2> QED
      BY <1>1, <1>2, FoldExists
<1>4. ASSUME NEW t \in SUBSET (1..n), t # {}
      PROVE  H[<<f[t \ {Max(t)}], Max(t)>>] = f[t \ {Max(t)}] + s[Max(t)]
  <2>1. Max(t) \in 1..n
      BY <1>1, <1>4, SubsetMax
  <2>2. f[t \ {Max(t)}] \in Nat
      BY <1>3
  <2> QED
      BY <2>1, <2>2
<1>5. f = [t \in SUBSET (1..n) |->
              IF t = {} THEN 0 ELSE f[t \ {Max(t)}] + s[Max(t)]]
  <2> HIDE DEF H
  <2> QED
      BY <1>3, <1>4 DEF Folding
<1> QED
    BY <1>1, <1>5 DEF Summing

\* A sum is made by steps, of which each adds a length.
LEMMA TotalSteps ==
    ASSUME NEW s \in Seq(Nat)
    PROVE  \E a : /\ a[0] = 0 /\ \A k \in 1..Len(s) : a[k] = a[k - 1] + s[k]
                  /\ Total(s) = a[Len(s)]
<1> DEFINE n == Len(s)
<1>1. n \in Nat /\ DOMAIN s = 1..n
    OBVIOUS
<1>2. PICK f : Summing(s, f) /\ Total(s) = f[DOMAIN s]
    BY SummingExists, TotalIs
<1> DEFINE a == [k \in 0..n |-> f[1..k]]
<1>3. a[0] = 0
  <2>1. 1..0 = {} /\ {} \in SUBSET (1..n)
      OBVIOUS
  <2>2. f[{}] = 0
      BY <1>1, <1>2 DEF Summing
  <2> QED
      BY <2>1, <2>2, <1>1
<1>4. ASSUME NEW k \in 1..n
      PROVE  a[k] = a[k - 1] + s[k]
  <2>1. /\ 1..k \in SUBSET (1..n) /\ 1..k # {}
        /\ Max(1..k) = k /\ (1..k) \ {k} = 1..(k - 1)
      BY <1>1, LastIndex
  <2>2. f[1..k] = f[1..(k - 1)] + s[k]
      BY <1>1, <1>2, <2>1 DEF Summing
  <2> QED
      BY <1>1, <2>2
<1>5. Total(s) = a[n]
    BY <1>1, <1>2
<1> QED
    BY <1>3, <1>4, <1>5

LEMMA TotalType ==
    ASSUME NEW s \in Seq(Nat)
    PROVE  Total(s) \in Nat
<1>1. PICK a : /\ a[0] = 0 /\ \A k \in 1..Len(s) : a[k] = a[k - 1] + s[k]
               /\ Total(s) = a[Len(s)]
    BY TotalSteps
<1> DEFINE S == {k \in Nat : k <= Len(s) => a[k] \in Nat}
<1>2. 0 \in S
    BY <1>1
<1>3. ASSUME NEW k \in Nat, k \in S
      PROVE  k + 1 \in S
  <2> SUFFICES ASSUME k + 1 <= Len(s)
               PROVE  a[k + 1] \in Nat
      OBVIOUS
  <2>1. k + 1 \in 1..Len(s) /\ (k + 1) - 1 = k /\ a[k] \in Nat /\ s[k + 1] \in Nat
      BY <1>3
  <2> QED
      BY <1>1, <2>1
<1>4. Nat \subseteq S
  <2> HIDE DEF S
  <2> QED
      BY <1>2, <1>3, Induction
<1> QED
    BY <1>1, <1>4

LEMMA TotalOfFew ==
    ASSUME NEW m \in Nat, NEW n \in Nat
    PROVE  Total(<<>>) = 0 /\ Total(<<m>>) = m /\ Total(<<m, n>>) = m + n
<1>1. <<>> \in Seq(Nat) /\ <<m>> \in Seq(Nat) /\ <<m, n>> \in Seq(Nat)
    OBVIOUS
<1>2. Total(<<>>) = 0
    BY <1>1, TotalSteps
<1>3. Total(<<m>>) = m
  <2>1. PICK a : /\ a[0] = 0 /\ \A k \in 1..1 : a[k] = a[k - 1] + <<m>>[k]
                 /\ Total(<<m>>) = a[1]
      BY <1>1, TotalSteps
  <2> QED
      BY <2>1
<1>4. Total(<<m, n>>) = m + n
  <2>1. PICK a : /\ a[0] = 0 /\ \A k \in 1..2 : a[k] = a[k - 1] + <<m, n>>[k]
                 /\ Total(<<m, n>>) = a[2]
      BY <1>1, TotalSteps
  <2> QED
      BY <2>1
<1> QED
    BY <1>2, <1>3, <1>4

-----------------------------------------------------------------------------
(* Concatenation of chunks                                                  *)

\* What FlattenSeq is defined by.
Flattening(q, f) ==
    f = [i \in 1..Len(q) |-> IF i = 1 THEN q[i] ELSE f[i - 1] \o q[i]]

FlattensUpTo(X, q, k, f) ==
    /\ f \in [1..k -> Seq(X)]
    /\ \A i \in 1..k : f[i] = IF i = 1 THEN q[i] ELSE f[i - 1] \o q[i]

LEMMA FlatteningExtends ==
    ASSUME NEW X, NEW q \in Seq(Seq(X)), NEW k \in Nat, k + 1 <= Len(q),
           NEW f, FlattensUpTo(X, q, k, f)
    PROVE  \E g : FlattensUpTo(X, q, k + 1, g)
<1> USE DEF FlattensUpTo
<1> DEFINE g == [i \in 1..(k + 1) |->
        IF i = k + 1 THEN IF k = 0 THEN q[i] ELSE f[k] \o q[i] ELSE f[i]]
<1>1. q[k + 1] \in Seq(X) /\ (k # 0 => f[k] \in Seq(X))
    OBVIOUS
<1>2. k # 0 => f[k] \o q[k + 1] \in Seq(X)
    BY <1>1
<1>3. ASSUME NEW i \in 1..(k + 1)
      PROVE  g[i] \in Seq(X) /\ g[i] = IF i = 1 THEN q[i] ELSE g[i - 1] \o q[i]
  <2>1. CASE i = k + 1
      BY <2>1, <1>1, <1>2
  <2>2. CASE i \in 1..k
    <3>1. i # k + 1 /\ i - 1 # k + 1 /\ (i # 1 => i - 1 \in 1..(k + 1))
        BY <2>2
    <3>2. g[i] = f[i] /\ (i # 1 => g[i - 1] = f[i - 1])
        BY <3>1
    <3> HIDE DEF g
    <3> QED
        BY <2>2, <3>2
  <2> QED
      BY <2>1, <2>2
<1>4. g \in [1..(k + 1) -> Seq(X)]
    BY <1>3
<1> QED
    BY <1>3, <1>4

LEMMA FlatteningExists ==
    ASSUME NEW X, NEW q \in Seq(Seq(X))
    PROVE  \E f : Flattening(q, f)
<1> DEFINE S == {k \in Nat : k <= Len(q) => \E f : FlattensUpTo(X, q, k, f)}
<1>1. 0 \in S
  <2>1. FlattensUpTo(X, q, 0, [i \in 1..0 |-> <<>>])
      BY DEF FlattensUpTo
  <2> QED
      BY <2>1
<1>2. ASSUME NEW k \in Nat, k \in S
      PROVE  k + 1 \in S
    BY <1>2, FlatteningExtends
<1>3. Nat \subseteq S
  <2> HIDE DEF S
  <2> QED
      BY <1>1, <1>2, Induction
<1>4. PICK f : FlattensUpTo(X, q, Len(q), f)
    BY <1>3
<1> QED
    BY <1>4 DEF FlattensUpTo, Flattening

\* Chunks are put one after another.
LEMMA FlattenSteps ==
    ASSUME NEW X, NEW q \in Seq(Seq(X)), q # <<>>
    PROVE  \E f : /\ f[1] = q[1] /\ \A k \in 2..Len(q) : f[k] = f[k - 1] \o q[k]
                  /\ FlattenSeq(q) = f[Len(q)]
<1>1. Len(q) # 0
    OBVIOUS
<1>2. FlattenSeq(q) = (CHOOSE f : Flattening(q, f))[Len(q)]
    BY <1>1, Zenon DEF FlattenSeq, Flattening
<1>3. PICK f : Flattening(q, f) /\ FlattenSeq(q) = f[Len(q)]
    BY <1>2, FlatteningExists
<1>4. \A k \in 1..Len(q) : f[k] = IF k = 1 THEN q[k] ELSE f[k - 1] \o q[k]
    BY <1>3 DEF Flattening
<1>5. 1 \in 1..Len(q) /\ 2..Len(q) \subseteq 1..Len(q) /\ \A k \in 2..Len(q) : k # 1
    BY <1>1
<1>6. f[1] = q[1] /\ \A k \in 2..Len(q) : f[k] = f[k - 1] \o q[k]
    BY <1>4, <1>5
<1> QED
    BY <1>3, <1>6

LEMMA FlattenType ==
    ASSUME NEW X, NEW q \in Seq(Seq(X))
    PROVE  FlattenSeq(q) \in Seq(X)
<1>1. CASE q = <<>>
    BY <1>1 DEF FlattenSeq
<1>2. CASE q # <<>>
  <2>1. PICK f : /\ f[1] = q[1] /\ \A k \in 2..Len(q) : f[k] = f[k - 1] \o q[k]
                 /\ FlattenSeq(q) = f[Len(q)]
      BY <1>2, FlattenSteps
  <2> DEFINE S == {k \in Nat : k + 1 <= Len(q) => f[k + 1] \in Seq(X)}
  <2>2. 0 \in S
      BY <2>1
  <2>3. ASSUME NEW k \in Nat, k \in S
        PROVE  k + 1 \in S
    <3> SUFFICES ASSUME (k + 1) + 1 <= Len(q)
                 PROVE  f[(k + 1) + 1] \in Seq(X)
        OBVIOUS
    <3>1. /\ (k + 1) + 1 \in 2..Len(q) /\ ((k + 1) + 1) - 1 = k + 1
          /\ f[k + 1] \in Seq(X) /\ q[(k + 1) + 1] \in Seq(X)
        BY <2>3
    <3>2. f[(k + 1) + 1] = f[k + 1] \o q[(k + 1) + 1]
        BY <2>1, <3>1
    <3> QED
        BY <3>1, <3>2
  <2>4. Nat \subseteq S
    <3> HIDE DEF S
    <3> QED
        BY <2>2, <2>3, Induction
  <2>5. Len(q) - 1 \in Nat /\ (Len(q) - 1) + 1 = Len(q)
      BY <1>2
  <2>6. f[(Len(q) - 1) + 1] \in Seq(X)
      BY <2>4, <2>5
  <2> QED
      BY <2>1, <2>5, <2>6
<1> QED
    BY <1>1, <1>2

\* Concatenation starts with the first chunk.
LEMMA FlattenFirst ==
    ASSUME NEW X, NEW q \in Seq(Seq(X)), q # <<>>, q[1] # <<>>
    PROVE  /\ FlattenSeq(q) \in Seq(X) /\ FlattenSeq(q) # <<>>
           /\ FlattenSeq(q)[1] = q[1][1]
<1>1. PICK f : /\ f[1] = q[1] /\ \A k \in 2..Len(q) : f[k] = f[k - 1] \o q[k]
               /\ FlattenSeq(q) = f[Len(q)]
    BY FlattenSteps
<1> DEFINE Good(out) == out \in Seq(X) /\ out # <<>> /\ out[1] = q[1][1]
           S == {k \in Nat : k + 1 <= Len(q) => Good(f[k + 1])}
<1>2. Len(q) \in Nat /\ Len(q) # 0
    OBVIOUS
<1>3. 0 \in S
    BY <1>1, <1>2
<1>4. ASSUME NEW k \in Nat, k \in S
      PROVE  k + 1 \in S
  <2> SUFFICES ASSUME (k + 1) + 1 <= Len(q)
               PROVE  Good(f[(k + 1) + 1])
      OBVIOUS
  <2>1. /\ (k + 1) + 1 \in 2..Len(q) /\ ((k + 1) + 1) - 1 = k + 1
        /\ q[(k + 1) + 1] \in Seq(X)
      BY <1>2
  <2>2. Good(f[k + 1])
      BY <1>4
  <2>3. f[(k + 1) + 1] = f[k + 1] \o q[(k + 1) + 1]
      BY <1>1, <2>1
  <2>4. ASSUME NEW s \in Seq(X), NEW t \in Seq(X), s # <<>>
        PROVE  s \o t \in Seq(X) /\ s \o t # <<>> /\ (s \o t)[1] = s[1]
      BY <2>4
  <2> QED
      BY <2>1, <2>2, <2>3, <2>4
<1>5. Nat \subseteq S
  <2> HIDE DEF S
  <2> QED
      BY <1>3, <1>4, Induction
<1>6. Len(q) - 1 \in Nat /\ (Len(q) - 1) + 1 = Len(q)
    BY <1>2
<1>7. Len(q) - 1 \in S
    BY <1>5, <1>6
<1>8. Good(f[(Len(q) - 1) + 1])
    BY <1>6, <1>7
<1> QED
    BY <1>1, <1>6, <1>8

-----------------------------------------------------------------------------
(* Segments                                                                 *)

\* The last segment is not empty, and has the last byte.
LEMMA SegmentsOf ==
    ASSUME NEW n \in Nat
    PROVE  /\ NumOfSegs(n) \in Nat /\ n <= SegLen * NumOfSegs(n)
           /\ SegLen * (NumOfSegs(n) - 1) < n
           /\ SegLen * (NumOfSegs(n) - 1) = SegLen * NumOfSegs(n) - SegLen
           /\ NumOfSegs(n) = 0 <=> n = 0
<1> DEFINE N == NumOfSegs(n)
           P == SegLen * N
<1>1. SegLen \in Nat /\ SegLen > 0
    BY SegLenAssumption
<1>2. N \in Nat /\ P <= n + SegLen - 1 /\ n + SegLen - 1 < P + SegLen
    BY <1>1 DEF NumOfSegs
<1>3. SegLen * (N - 1) = P - SegLen /\ P \in Nat
    BY <1>1, <1>2
<1>4. N = 0 <=> n = 0
  <2> HIDE DEF N
  <2> QED
      BY <1>1, <1>2, SMTT(30)
<1>5. n <= P /\ P - SegLen < n
  <2> HIDE DEF P
  <2> QED
      BY <1>1, <1>2, <1>3
<1> QED
    BY <1>2, <1>3, <1>4, <1>5

\* Bounds of a segment.
LEMMA SegmentBounds ==
    ASSUME NEW n \in Nat, NEW k \in 1..NumOfSegs(n)
    PROVE  /\ SegLen * (k - 1) \in Nat /\ SegLen * k = SegLen * (k - 1) + SegLen
           /\ SegLen * (k - 1) < n /\ Least(SegLen * k, n) \in Nat
           /\ SegLen * (k - 1) < Least(SegLen * k, n)
           /\ k = NumOfSegs(n) => Least(SegLen * k, n) = n
           /\ k < NumOfSegs(n) => Least(SegLen * k, n) = SegLen * k
<1> DEFINE N == NumOfSegs(n)
<1>1. SegLen \in Nat /\ SegLen > 0
    BY SegLenAssumption
<1>2. N \in Nat /\ n <= SegLen * N /\ SegLen * (N - 1) < n /\ SegLen * (N - 1) = SegLen * N - SegLen
    BY SegmentsOf
<1>3. k \in Nat /\ k - 1 \in Nat /\ k <= N
    BY <1>2
<1> HIDE DEF N
<1>4. SegLen * k = SegLen * (k - 1) + SegLen /\ SegLen * (k - 1) \in Nat
    BY <1>1, <1>3
<1>5. SegLen * (k - 1) <= SegLen * (N - 1)
    BY <1>1, <1>2, <1>3, SMTT(30)
<1>6. k < N => SegLen * k <= SegLen * (N - 1)
    BY <1>1, <1>2, <1>3, SMTT(30)
<1> DEFINE A == SegLen * (k - 1)
           B == SegLen * k
           C == SegLen * (N - 1)
           D == SegLen * N
<1>7. /\ A \in Nat /\ B = A + SegLen /\ A <= C /\ C < n /\ n <= D
      /\ k < N => B <= C
      /\ k = N => B = D
      /\ C \in Int /\ D \in Nat
    BY <1>1, <1>2, <1>4, <1>5, <1>6
<1>8. /\ A < n /\ Least(B, n) \in Nat /\ A < Least(B, n)
      /\ k = N => Least(B, n) = n
      /\ k < N => Least(B, n) = B
  <2> HIDE DEF A, B, C, D
  <2> QED
      BY <1>1, <1>7 DEF Least
<1> QED
    BY <1>4, <1>8 DEF N

\* A byte of a segment.
LEMMA SegmentBytes ==
    ASSUME NEW X, NEW content \in Seq(X), NEW k \in 1..NumOfSegs(Len(content))
    PROVE  /\ SegmentOf(content, k) \in Seq(X)
           /\ SegSize(content, k) \in Nat /\ SegSize(content, k) > 0
           /\ Len(SegmentOf(content, k)) = SegSize(content, k)
           /\ SegSize(content, k) = Least(SegLen * k, Len(content)) - SegLen * (k - 1)
           /\ \A j \in 1..SegSize(content, k) :
                /\ SegLen * (k - 1) + j \in 1..Len(content)
                /\ SegmentOf(content, k)[j] = content[SegLen * (k - 1) + j]
<1> DEFINE A == SegLen * (k - 1)
           B == Least(SegLen * k, Len(content))
<1>1. /\ A \in Nat /\ B \in Nat /\ A < B /\ B <= Len(content)
    BY SegmentBounds, SegLenAssumption DEF Least
<1>2. SegmentOf(content, k) = SubSeq(content, A + 1, B)
    BY DEF SegmentOf
<1> HIDE DEF A, B
<1>3. SegmentOf(content, k) \in Seq(X) /\ Len(SegmentOf(content, k)) = B - A
    BY <1>1, <1>2
<1>4. \A j \in 1..(B - A) : A + j \in 1..Len(content) /\ SegmentOf(content, k)[j] = content[A + j]
    BY <1>1, <1>2
<1> QED
    BY <1>1, <1>3, <1>4 DEF A, B, SegSize

\* Every byte is in some segment.
LEMMA ByteInSegment ==
    ASSUME NEW n \in Nat, NEW i \in 1..n
    PROVE  \E k \in 1..NumOfSegs(n) :
              i - SegLen * (k - 1) \in 1..(Least(SegLen * k, n) - SegLen * (k - 1))
<1> DEFINE k == NumOfSegs(i)
           N == NumOfSegs(n)
<1>1. SegLen \in Nat /\ SegLen > 0 /\ i \in Nat /\ i # 0 /\ i <= n
    BY SegLenAssumption
<1>2. k \in Nat /\ k # 0 /\ i <= SegLen * k /\ SegLen * (k - 1) < i
      /\ SegLen * (k - 1) = SegLen * k - SegLen
    BY <1>1, SegmentsOf
<1>3. N \in Nat /\ n <= SegLen * N
    BY SegmentsOf
<1> HIDE DEF k, N
<1>4. k <= N
    BY <1>1, <1>2, <1>3, SMTT(30)
<1>5. SegLen * (k - 1) \in Nat /\ SegLen * k \in Nat
    BY <1>1, <1>2
<1> DEFINE A == SegLen * (k - 1)
           B == SegLen * k
<1>6. i - A \in 1..(Least(B, n) - A)
  <2>1. A \in Nat /\ B \in Nat /\ A < i /\ i <= B
      BY <1>2, <1>5
  <2> HIDE DEF A, B
  <2> QED
      BY <1>1, <2>1 DEF Least
<1> QED
    BY <1>2, <1>3, <1>4, <1>6 DEF N

-----------------------------------------------------------------------------
(* Opening of segments                                                      *)

\* Segments, for which there are enough bytes, follow each other.
LEMMA ReadyIs ==
    ASSUME NEW X, NEW content \in Seq(X), NEW chunk \in Seq(X),
           NEW ind \in 1..NumOfSegs(Len(content))
    PROVE  LET ready == Ready(content, ind, chunk)
               next == ind + Cardinality(ready)
           IN /\ next \in ind..(NumOfSegs(Len(content)) + 1)
              /\ ready = ind..(next - 1)
<1> DEFINE N == NumOfSegs(Len(content))
           ready == Ready(content, ind, chunk)
           next == ind + Cardinality(ready)
           L == Len(content)
<1>1. L \in Nat /\ Len(chunk) \in Nat /\ N \in Nat /\ ind \in 1..N
  <2>1. L \in Nat /\ Len(chunk) \in Nat /\ ind \in 1..N
      OBVIOUS
  <2> QED
      BY <2>1, SegmentsOf
<1>2. \A k \in ind..N : k \in ready <=>
          Len(chunk) >= Least(SegLen * k, L) - SegLen * (ind - 1)
    BY DEF Ready
<1>3. ready \in SUBSET (1..N) /\ ready \subseteq ind..N
    BY <1>1 DEF Ready
<1>4. ASSUME NEW k \in ready, NEW j \in ind..k
      PROVE  j \in ready
  <2>1. /\ j \in ind..N /\ k \in ind..N /\ j <= k
        /\ SegLen \in Nat /\ SegLen > 0
      BY <1>1, <1>3, <1>4, SegLenAssumption
  <2>2. SegLen * j <= SegLen * k /\ SegLen * j \in Nat /\ SegLen * k \in Nat
        /\ SegLen * (ind - 1) \in Nat
      BY <1>1, <2>1, SMTT(30)
  <2> DEFINE A == SegLen * j
             B == SegLen * k
             C == SegLen * (ind - 1)
  <2>3. Len(chunk) >= Least(B, L) - C
      BY <1>2, <2>1
  <2>4. Len(chunk) >= Least(A, L) - C
    <3>1. A <= B /\ A \in Nat /\ B \in Nat /\ C \in Nat
        BY <2>2
    <3> HIDE DEF A, B, C, L
    <3> QED
        BY <1>1, <2>3, <3>1 DEF Least
  <2> QED
      BY <1>2, <2>1, <2>4
<1> HIDE DEF ready, N
<1>5. CASE ready = {}
  <2>1. Cardinality(ready) = 0
      BY <1>5, FS_EmptySet
  <2> QED
      BY <1>1, <1>5, <2>1 DEF ready, N
<1>6. CASE ready # {}
  <2> DEFINE m == Max(ready)
  <2>1. m \in ready
      BY <1>1, <1>3, <1>6, SubsetMax
  <2>2. \A k \in ready : k <= m
      BY <1>1, <1>3, <1>6, SubsetMax
  <2>3. m \in ind..N
      BY <1>3, <2>1
  <2>4. ready = ind..m
    <3>1. ASSUME NEW k \in ready
          PROVE  k \in ind..m
        BY <1>1, <1>3, <2>2, <2>3
    <3>2. ind..m \subseteq ready
        BY <1>4, <2>1
    <3> HIDE DEF m
    <3> QED
        BY <3>1, <3>2
  <2>5. Cardinality(ready) = m - ind + 1
      BY <1>1, <2>3, <2>4, FS_Interval
  <2>6. next = m + 1
      BY <1>1, <2>3, <2>5
  <2> QED
      BY <1>1, <2>3, <2>4, <2>6 DEF ready, N
<1> QED
    BY <1>5, <1>6

\* All bytes of a content are different.
Distinct(content) ==
    \A i, j \in 1..Len(content) : content[i] = content[j] => i = j

\* What a decrypting source has taken, starts with byte b, and makes no whole segment.
Stuck(content, d, b) ==
    /\ d.ind \in 1..NumOfSegs(Len(content))
    /\ Len(d.segBuf) < SegSize(content, d.ind)
    /\ IF d.ind = 1 THEN d.segBuf # <<>> /\ d.segBuf[1] = b ELSE content[1] = b

\* Decrypting sources with bytes from a set.
Sources(X, sts, data) == [st : sts, ind : Nat, segBuf : Seq(X), data : data]

\* When there are no whole segments, new bytes are only kept.
LEMMA NothingReady ==
    ASSUME NEW X, NEW content \in Seq(X), NEW out \in Seq(X), NEW sts, NEW data,
           NEW d \in Sources(X, sts, data), d.ind \in 1..NumOfSegs(Len(content)),
           Ready(content, d.ind, d.segBuf \o out) = {}
    PROVE  LET o == OpenSegments(content, d, out)
           IN /\ o.st = "reading" /\ o.ind = d.ind
              /\ o.segBuf = d.segBuf \o out
              /\ Len(o.segBuf) < SegSize(content, d.ind)
<1> DEFINE all == d.segBuf \o out
           N == NumOfSegs(Len(content))
           L == Len(content)
           A == SegLen * (d.ind - 1)
           used == Least(SegLen * ((d.ind + Cardinality(Ready(content, d.ind, all))) - 1), L) - A
           data2(first) == d.data \o SubSeq(all, first, used)
           o == OpenSegments(content, d, out)
<1>1. L \in Nat /\ N \in Nat /\ d.ind \in 1..N /\ d.segBuf \in Seq(X) /\ all \in Seq(X)
  <2>1. L \in Nat /\ d.ind \in 1..N /\ d.segBuf \in Seq(X)
      BY DEF Sources
  <2> QED
      BY <2>1, SegmentsOf
<1>2. A \in Nat /\ A < L
    BY <1>1, SegmentBounds
<1>3. Cardinality(Ready(content, d.ind, all)) = 0
    BY FS_EmptySet
<1>4. used = 0
  <2>1. (d.ind + Cardinality(Ready(content, d.ind, all))) - 1 = d.ind - 1
      BY <1>1, <1>3
  <2>2. Least(A, L) = A
      BY <1>1, <1>2 DEF Least
  <2> QED
      BY <1>2, <2>1, <2>2
<1>5. d.ind + Cardinality(Ready(content, d.ind, all)) = d.ind /\ ~(d.ind > N)
    BY <1>1, <1>3
<1>6. \E first : o = [d EXCEPT !.st = "reading", !.ind = d.ind, !.data = data2(first),
                               !.segBuf = SubSeq(all, used + 1, Len(all))]
  <2>1. ~\E k \in Ready(content, d.ind, all) :
            ~Opens(content, k, SubSeq(all, SegLen * (k - d.ind) + 1, SegLen * (k - d.ind) + SegSize(content, k)))
      OBVIOUS
  <2> HIDE DEF A, L
  <2> QED
      BY <1>5, <2>1 DEF OpenSegments, A, L, N
<1>7. SubSeq(all, used + 1, Len(all)) = all
  <2>1. SubSeq(all, 1, Len(all)) = all
      BY <1>1
  <2>2. used + 1 = 1
      BY <1>4
  <2> HIDE DEF used, all
  <2> QED
      BY <2>1, <2>2
<1>8. o.st = "reading" /\ o.ind = d.ind /\ o.segBuf = all
  <2> HIDE DEF data2, used, all, o
  <2> QED
      BY <1>6, <1>7 DEF Sources
<1>9. Len(all) < SegSize(content, d.ind)
  <2>1. /\ SegSize(content, d.ind) = Least(SegLen * d.ind, L) - A
        /\ SegSize(content, d.ind) \in Nat
      BY <1>1, SegmentBytes
  <2>2. ~(Len(all) >= Least(SegLen * d.ind, L) - A)
      BY <1>1 DEF Ready
  <2>3. Len(all) \in Nat
      BY <1>1
  <2> HIDE DEF all, L, A
  <2> QED
      BY <2>1, <2>2, <2>3
<1> QED
    BY <1>8, <1>9

\* Bytes, that come once more from the start, do not open a next segment.
LEMMA StuckStays ==
    ASSUME NEW X, NEW content \in Seq(X), NEW out \in Seq(X), NEW sts, NEW data,
           NEW d \in Sources(X, sts, data), NEW b,
           Distinct(content), Stuck(content, d, b), out # <<>>, out[1] = b
    PROVE  LET o == OpenSegments(content, d, out)
           IN \/ o.st = "failed"
              \/ o.st = "reading" /\ o.segBuf \in Seq(X) /\ Stuck(content, o, b)
<1> DEFINE all == d.segBuf \o out
           N == NumOfSegs(Len(content))
           A == SegLen * (d.ind - 1)
           ready == Ready(content, d.ind, all)
           o == OpenSegments(content, d, out)
<1>1. d.ind \in 1..N /\ d.segBuf \in Seq(X) /\ all \in Seq(X)
    BY DEF Sources, Stuck
<1>2. CASE ready = {}
  <2>1. /\ o.st = "reading" /\ o.ind = d.ind /\ o.segBuf = all
        /\ Len(o.segBuf) < SegSize(content, d.ind)
      BY <1>1, <1>2, NothingReady
  <2>2. d.segBuf # <<>> => all # <<>> /\ all[1] = d.segBuf[1]
      BY <1>1
  <2>3. /\ d.ind \in 1..N
        /\ IF d.ind = 1 THEN d.segBuf # <<>> /\ d.segBuf[1] = b ELSE content[1] = b
      BY DEF Stuck
  <2> HIDE DEF o, all, N
  <2>4. /\ o.ind \in 1..N /\ Len(o.segBuf) < SegSize(content, o.ind)
        /\ IF o.ind = 1 THEN o.segBuf # <<>> /\ o.segBuf[1] = b ELSE content[1] = b
      BY <2>1, <2>2, <2>3
  <2>5. Stuck(content, o, b)
      BY <2>4 DEF Stuck, N
  <2> QED
      BY <1>1, <2>1, <2>5 DEF o
<1>3. CASE ready # {}
  <2>1. d.ind \in ready
    <3>1. LET next == d.ind + Cardinality(ready)
          IN next \in d.ind..(N + 1) /\ ready = d.ind..(next - 1)
        BY <1>1, ReadyIs
    <3> QED
        BY <1>1, <1>3, <3>1
  <2> DEFINE n == SegSize(content, d.ind)
             seg == SubSeq(all, SegLen * (d.ind - d.ind) + 1, SegLen * (d.ind - d.ind) + n)
             j == Len(d.segBuf) + 1
  <2>2. /\ n \in Nat /\ n > 0
        /\ \A i \in 1..n : /\ A + i \in 1..Len(content)
                           /\ SegmentOf(content, d.ind)[i] = content[A + i]
      BY <1>1, SegmentBytes
  <2>3. SegLen * (d.ind - d.ind) = 0
      BY <1>1, SegLenAssumption
  <2>4. j \in 1..n /\ all[j] = b
      BY <1>1, <2>2 DEF Stuck
  <2>5. A \in Nat /\ (d.ind = 1 => A = 0) /\ (d.ind # 1 => A > 0)
      BY <1>1, SegLenAssumption
  <2>6. Len(all) >= n
    <3>1. /\ d.ind \in d.ind..N
          /\ Len(all) >= Least(SegLen * d.ind, Len(content)) - SegLen * (d.ind - 1)
        BY <1>1, <2>1 DEF Ready
    <3> QED
        BY <1>1, <3>1, SegmentBytes
  <2>7. \A i \in 1..n : seg[i] = all[i]
    <3>1. seg = SubSeq(all, 1, n)
      <4>1. SegLen * (d.ind - d.ind) + 1 = 1 /\ SegLen * (d.ind - d.ind) + n = n
          BY <2>2, <2>3
      <4> QED
          BY <4>1, Zenon
    <3>2. Len(all) \in Nat
        BY <1>1
    <3> HIDE DEF seg, n, all
    <3> QED
        BY <1>1, <2>2, <2>6, <3>1, <3>2
  <2>8. ~Opens(content, d.ind, seg)
    <3> SUFFICES ASSUME seg = SegmentOf(content, d.ind)
                 PROVE  FALSE
        BY DEF Opens
    <3>1. \A i \in 1..n : all[i] = content[A + i] /\ A + i \in 1..Len(content)
        BY <2>2, <2>7
    <3>2. content[A + j] = b /\ A + j \in 1..Len(content)
        BY <2>4, <3>1
    <3>3. CASE d.ind = 1
      <4>1. j > 1 /\ all[1] = b /\ A = 0
          BY <1>1, <2>5, <3>3 DEF Stuck
      <4>2. content[1] = b /\ 1 \in 1..Len(content)
          BY <2>2, <3>1, <4>1
      <4> QED
          BY <2>4, <3>2, <4>1, <4>2 DEF Distinct
    <3>4. CASE d.ind # 1
      <4>1. content[1] = b /\ A > 0
          BY <2>5, <3>4 DEF Stuck
      <4>2. 1 \in 1..Len(content) /\ A + j # 1
          BY <2>4, <2>5, <3>2, <4>1
      <4> QED
          BY <3>2, <4>1, <4>2 DEF Distinct
    <3> QED
        BY <3>3, <3>4
  <2>9. o = [d EXCEPT !.st = "failed"]
      BY <2>1, <2>8 DEF OpenSegments
  <2> QED
      BY <2>9 DEF Sources
<1> QED
    BY <1>2, <1>3

\* Bytes, all segments of which open, are the content.
LEMMA OpenedIsContent ==
    ASSUME NEW X, NEW content \in Seq(X), NEW all \in Seq(X), Len(all) >= Len(content),
           \A k \in 1..NumOfSegs(Len(content)) :
              Opens(content, k, SubSeq(all, SegLen * (k - 1) + 1,
                                            SegLen * (k - 1) + SegSize(content, k)))
    PROVE  SubSeq(all, 1, Len(content)) = content
<1> DEFINE L == Len(content)
           N == NumOfSegs(L)
<1>1. L \in Nat /\ N \in Nat /\ Len(all) \in Nat
  <2>1. L \in Nat /\ Len(all) \in Nat
      OBVIOUS
  <2> QED
      BY <2>1, SegmentsOf
<1>2. ASSUME NEW i \in 1..L
      PROVE  all[i] = content[i]
  <2>1. PICK k \in 1..N : i - SegLen * (k - 1) \in 1..(Least(SegLen * k, L) - SegLen * (k - 1))
      BY <1>1, ByteInSegment
  <2> DEFINE A == SegLen * (k - 1)
             n == SegSize(content, k)
             j == i - A
  <2>2. /\ n \in Nat /\ j \in 1..n
        /\ \A l \in 1..n : A + l \in 1..L /\ SegmentOf(content, k)[l] = content[A + l]
      BY <1>1, <2>1, SegmentBytes
  <2>3. A \in Nat /\ A + n <= Len(all)
    <3>1. A \in Nat
        BY <1>1, SegmentBounds
    <3>2. n > 0 /\ A + n \in 1..L
        BY <2>2
    <3> QED
        BY <1>1, <3>1, <3>2
  <2>4. SubSeq(all, A + 1, A + n)[j] = all[A + j]
    <3> HIDE DEF A, n, j
    <3> QED
        BY <1>1, <2>2, <2>3
  <2>5. SubSeq(all, A + 1, A + n) = SegmentOf(content, k)
      BY DEF Opens
  <2>6. A + j = i
      BY <2>3
  <2> QED
      BY <2>2, <2>4, <2>5, <2>6
<1>3. SubSeq(all, 1, L) \in Seq(X) /\ Len(SubSeq(all, 1, L)) = L
      /\ \A i \in 1..L : SubSeq(all, 1, L)[i] = all[i]
    BY <1>1
<1>4. content = [i \in 1..L |-> content[i]] /\ SubSeq(all, 1, L) = [i \in 1..L |-> SubSeq(all, 1, L)[i]]
    BY <1>3
<1> QED
    BY <1>2, <1>3, <1>4

\* What opens at once, is the content; what does not, gets stuck.
LEMMA FreshOpens ==
    ASSUME NEW X, NEW content \in Seq(X), NEW out \in Seq(X), NEW sts, NEW data,
           NEW d \in Sources(X, sts, data), d.ind = 1, d.segBuf = <<>>, d.data = <<>>,
           content # <<>>, out # <<>>
    PROVE  LET o == OpenSegments(content, d, out)
           IN \/ o.st = "failed"
              \/ o.st = "done" /\ o.data = content
              \/ o.st = "reading" /\ o.segBuf \in Seq(X) /\ Stuck(content, o, out[1])
<1> DEFINE all == d.segBuf \o out
           L == Len(content)
           N == NumOfSegs(L)
           ready == Ready(content, d.ind, all)
           next == d.ind + Cardinality(ready)
           seg(k) == SubSeq(all, SegLen * (k - d.ind) + 1,
                                 SegLen * (k - d.ind) + SegSize(content, k))
           used == Least(SegLen * (next - 1), L) - SegLen * (d.ind - 1)
           o == OpenSegments(content, d, out)
<1>1. all = out
    OBVIOUS
<1>2. L \in Nat /\ L > 0 /\ N \in Nat /\ N > 0 /\ Len(out) \in Nat
  <2>1. L \in Nat /\ L # 0 /\ Len(out) \in Nat
      OBVIOUS
  <2>2. N \in Nat /\ (N = 0 <=> L = 0)
      BY <2>1, SegmentsOf
  <2> QED
      BY <2>1, <2>2
<1>3. next \in 1..(N + 1) /\ ready = 1..(next - 1)
    BY <1>1, <1>2, ReadyIs
<1>4. SegLen * (d.ind - 1) = 0
    BY SegLenAssumption
<1>5. CASE \E k \in ready : ~Opens(content, k, seg(k))
  <2>1. o = [d EXCEPT !.st = "failed"]
      BY <1>5 DEF OpenSegments
  <2> QED
      BY <2>1 DEF Sources
<1>6. CASE \A k \in ready : Opens(content, k, seg(k))
  <2>1. o = [d EXCEPT !.st = IF next > N THEN "done" ELSE "reading",
                      !.ind = next, !.data = d.data \o SubSeq(all, 1, used),
                      !.segBuf = SubSeq(all, used + 1, Len(all))]
      BY <1>6 DEF OpenSegments
  <2>2. CASE next > N
    <3>1. next = N + 1 /\ ready = 1..N
        BY <1>2, <1>3, <2>2
    <3>2. Least(SegLen * (next - 1), L) = L
      <4>1. L <= SegLen * N
          BY <1>2, SegmentsOf
      <4>2. SegLen * N \in Nat
          BY <1>2, SegLenAssumption
      <4>3. next - 1 = N
        <5> HIDE DEF next, N
        <5> QED
            BY <1>2, <3>1
      <4> HIDE DEF next, N, L
      <4> QED
          BY <1>2, <4>1, <4>2, <4>3 DEF Least
    <3>3. used = L
        BY <1>2, <1>4, <3>2
    <3>4. Len(all) >= L
      <4>1. N \in ready
          BY <1>2, <3>1
      <4>2. Len(all) >= Least(SegLen * N, L) - SegLen * (d.ind - 1)
          BY <4>1 DEF Ready
      <4>3. Least(SegLen * N, L) = L
          BY <3>1, <3>2, <1>2
      <4> QED
          BY <1>2, <1>4, <4>2, <4>3
    <3>5. \A k \in 1..N : Opens(content, k, SubSeq(all, SegLen * (k - 1) + 1,
                                            SegLen * (k - 1) + SegSize(content, k)))
        BY <1>6, <3>1
    <3>6. SubSeq(all, 1, L) = content
        BY <1>1, <3>4, <3>5, OpenedIsContent
    <3>7. d.data \o SubSeq(all, 1, used) = content
        BY <3>3, <3>6
    <3>8. o.st = "done" /\ o.data = d.data \o SubSeq(all, 1, used)
      <4> HIDE DEF all, used, next, N, o
      <4> QED
          BY <2>1, <2>2 DEF Sources
    <3> QED
        BY <3>7, <3>8
  <2>3. CASE ~(next > N)
    <3>1. next \in 1..N /\ next \notin ready
        BY <1>2, <1>3, <2>3
    <3> DEFINE A == SegLen * (next - 1)
               B == Least(SegLen * next, L)
    <3>2. A \in Nat /\ A < L /\ B \in Nat /\ A < B /\ SegSize(content, next) = B - A
        BY <1>2, <3>1, SegmentBounds, SegmentBytes
    <3>3. used = A
        BY <1>2, <1>4, <3>2 DEF Least
    <3>4. Len(all) < B
      <4>1. ~(Len(all) >= Least(SegLen * next, L) - SegLen * (d.ind - 1))
          BY <3>1 DEF Ready
      <4> QED
          BY <1>1, <1>2, <1>4, <3>2, <4>1
    <3>5. o.st = "reading" /\ o.ind = next /\ o.segBuf = SubSeq(all, used + 1, Len(all))
      <4> HIDE DEF all, used, next, N, o
      <4> QED
          BY <2>1, <2>3 DEF Sources
    <3>6. A <= Len(all)
      <4>1. CASE next = 1
          BY <4>1, <1>1, <1>2, SegLenAssumption
      <4>2. CASE next # 1
        <5>1. next - 1 \in ready /\ next - 1 \in 1..N /\ next - 1 < N
            BY <1>2, <1>3, <3>1, <4>2
        <5>2. Len(all) >= Least(SegLen * (next - 1), L) - SegLen * (d.ind - 1)
            BY <5>1 DEF Ready
        <5> QED
            BY <1>1, <1>2, <1>4, <3>2, <5>2 DEF Least
      <4> QED
          BY <4>1, <4>2
    <3>7. o.segBuf \in Seq(X) /\ Len(o.segBuf) = Len(all) - A
      <4>1. SubSeq(all, A + 1, Len(all)) \in Seq(X) /\ Len(SubSeq(all, A + 1, Len(all))) = Len(all) - A
          BY <1>1, <1>2, <3>2, <3>6
      <4> QED
          BY <3>3, <3>5, <4>1
    <3>8. Len(o.segBuf) < SegSize(content, next)
        BY <1>1, <1>2, <3>2, <3>4, <3>7
    <3>9. next = 1 => o.segBuf # <<>> /\ o.segBuf[1] = out[1]
      <4> SUFFICES ASSUME next = 1
                   PROVE  o.segBuf # <<>> /\ o.segBuf[1] = out[1]
          OBVIOUS
      <4>1. A = 0
          BY SegLenAssumption
      <4>2. o.segBuf = SubSeq(out, 1, Len(out))
          BY <1>1, <3>3, <3>5, <4>1
      <4> QED
          BY <4>2
    <3>10. next # 1 => content[1] = out[1]
      <4> SUFFICES ASSUME next # 1
                   PROVE  content[1] = out[1]
          OBVIOUS
      <4>1. 1 \in ready /\ 1 \in 1..N
          BY <1>2, <1>3, <3>1
      <4>2. SubSeq(all, SegLen * (1 - d.ind) + 1, SegLen * (1 - d.ind) + SegSize(content, 1))
                = SegmentOf(content, 1)
          BY <1>6, <4>1 DEF Opens
      <4>3. SegLen * (1 - d.ind) = 0 /\ SegLen * (1 - 1) = 0
          BY SegLenAssumption
      <4> DEFINE n == SegSize(content, 1)
      <4>4. n \in Nat /\ n > 0 /\ SegmentOf(content, 1)[1] = content[1]
            /\ n = Least(SegLen * 1, L) - SegLen * (1 - 1)
          BY <4>1, <4>3, SegmentBytes
      <4>5. SubSeq(out, 1, n) = SegmentOf(content, 1)
        <5>1. SegLen * (1 - d.ind) + 1 = 1 /\ SegLen * (1 - d.ind) + n = n
            BY <4>3, <4>4
        <5> QED
            BY <1>1, <4>2, <5>1
      <4>6. n <= Len(out)
        <5>1. Len(all) >= Least(SegLen * 1, L) - SegLen * (d.ind - 1)
            BY <4>1 DEF Ready
        <5> QED
            BY <1>1, <1>4, <4>3, <4>4, <5>1
      <4>7. SubSeq(out, 1, n)[1] = out[1]
        <5> HIDE DEF n
        <5> QED
            BY <4>4, <4>6
      <4> QED
          BY <4>4, <4>5, <4>7
    <3>11. Stuck(content, o, out[1])
      <4> HIDE DEF o, next, N
      <4>1. o.ind \in 1..N /\ Len(o.segBuf) < SegSize(content, o.ind)
            /\ IF o.ind = 1 THEN o.segBuf # <<>> /\ o.segBuf[1] = out[1] ELSE content[1] = out[1]
          BY <3>1, <3>5, <3>8, <3>9, <3>10
      <4> QED
          BY <4>1 DEF Stuck, N
    <3> QED
        BY <3>5, <3>7, <3>11
  <2> QED
      BY <2>2, <2>3
<1> QED
    BY <1>5, <1>6

-----------------------------------------------------------------------------
(* Packing of a content into a pipe                                         *)

\* Pipes, that are being filled, and which nobody reads.
Pipes(X) == [buf : [queue : Seq(Seq(X)), len : Nat], complete : {FALSE}, wants : {None},
             settled : {FALSE}, total : {None}, collected : Nat]

\* What a pipe q is, when bytes are added to a pipe p.
Fills(X, p, chunk, q) ==
    /\ q \in Pipes(X)
    /\ q.buf = [queue |-> Append(p.buf.queue, chunk), len |-> p.buf.len + Len(chunk)]
    /\ q.collected = p.collected + Len(chunk)

LEMMA Swallowed ==
    ASSUME NEW X, NEW p \in Pipes(X), NEW chunk \in Seq(X), chunk # <<>>
    PROVE  Fills(X, p, chunk, SwallowBytes(p, chunk).pipe)
<1> DEFINE q == [p EXCEPT !.buf = [queue |-> Append(p.buf.queue, chunk),
                                   len |-> p.buf.len + Len(chunk)],
                          !.collected = p.collected + Len(chunk)]
<1>1. q \in Pipes(X)
  <2>1. /\ Append(p.buf.queue, chunk) \in Seq(Seq(X)) /\ p.buf.len + Len(chunk) \in Nat
        /\ p.collected + Len(chunk) \in Nat
      BY DEF Pipes
  <2>2. [queue |-> Append(p.buf.queue, chunk), len |-> p.buf.len + Len(chunk)]
            \in [queue : Seq(Seq(X)), len : Nat]
      BY <2>1
  <2> QED
      BY <2>1, <2>2 DEF Pipes
<1>2. q.wants = None
    BY DEF Pipes
<1>3. SwallowBytes(p, chunk) = Notify(q)
    BY DEF SwallowBytes, PushBytes
<1>4. Notify(q) = [out |-> None, pipe |-> q]
  <2> HIDE DEF q
  <2> QED
      BY <1>2 DEF Notify, Resolves
<1>5. SwallowBytes(p, chunk).pipe = q
  <2> HIDE DEF q
  <2> QED
      BY <1>3, <1>4
<1>6. /\ q.buf = [queue |-> Append(p.buf.queue, chunk), len |-> p.buf.len + Len(chunk)]
      /\ q.collected = p.collected + Len(chunk)
    BY DEF Pipes
<1> QED
    BY <1>1, <1>5, <1>6 DEF Fills

\* What FoldLeft in PackedPipe is defined by.
Numbers(n) == [i \in 1..n |-> i]
Packing(content, n, f) ==
    f = [t \in SUBSET DOMAIN Numbers(n) |->
            IF t = {} THEN EmptyPipe
            ELSE SwallowBytes(f[t \ {Max(t)}], SegmentOf(content, Numbers(n)[Max(t)])).pipe]
LEMMA PackedIs ==
    ASSUME NEW content, \E f : Packing(content, NumOfSegs(Len(content)), f)
    PROVE  \E f : /\ Packing(content, NumOfSegs(Len(content)), f)
                  /\ PackedPipe(content)
                        = SwallowEnd(f[DOMAIN Numbers(NumOfSegs(Len(content)))]).pipe
BY Zenon DEF PackedPipe, FoldLeft, MapThenFoldSet, Packing, Numbers

LEMMA PackingExists ==
    ASSUME NEW X, NEW content \in Seq(X)
    PROVE  \E f : Packing(content, NumOfSegs(Len(content)), f)
<1> DEFINE n == NumOfSegs(Len(content))
           H == [x \in Pipes(X) \X (1..n) |-> SwallowBytes(x[1], SegmentOf(content, x[2])).pipe]
<1>1. n \in Nat
    BY SegmentsOf
<1>2. ASSUME NEW k \in 1..n
      PROVE  SegmentOf(content, k) \in Seq(X) /\ SegmentOf(content, k) # <<>>
    BY SegmentBytes
<1>3. ASSUME NEW p \in Pipes(X), NEW k \in 1..n
      PROVE  SwallowBytes(p, SegmentOf(content, k)).pipe \in Pipes(X)
    BY <1>2, Swallowed DEF Fills
<1>4. H \in [Pipes(X) \X (1..n) -> Pipes(X)]
    BY <1>3
<1>5. EmptyPipe \in Pipes(X)
    BY DEF EmptyPipe, EmptyBuffer, Pipes
<1>6. PICK f \in [SUBSET (1..n) -> Pipes(X)] : Folding(H, EmptyPipe, n, f)
  <2> HIDE DEF H, n
  <2> QED
      BY <1>1, <1>4, <1>5, FoldExists
<1>7. ASSUME NEW t \in SUBSET (1..n), t # {}
      PROVE  H[<<f[t \ {Max(t)}], Max(t)>>] =
                SwallowBytes(f[t \ {Max(t)}], SegmentOf(content, Numbers(n)[Max(t)])).pipe
  <2>1. Max(t) \in 1..n
      BY <1>1, <1>7, SubsetMax
  <2>2. f[t \ {Max(t)}] \in Pipes(X)
      BY <1>6
  <2>3. Numbers(n)[Max(t)] = Max(t)
      BY <2>1 DEF Numbers
  <2> HIDE DEF n
  <2> QED
      BY <2>1, <2>2, <2>3
<1>8. DOMAIN Numbers(n) = 1..n
    BY DEF Numbers
<1>9. f = [t \in SUBSET (1..n) |->
              IF t = {} THEN EmptyPipe
              ELSE SwallowBytes(f[t \ {Max(t)}], SegmentOf(content, Numbers(n)[Max(t)])).pipe]
  <2> HIDE DEF H, n
  <2> QED
      BY <1>6, <1>7 DEF Folding
<1> HIDE DEF n
<1>10. Packing(content, n, f)
    BY <1>8, <1>9 DEF Packing
<1> QED
    BY <1>10 DEF n

\* Segments of a content, up to one with a given number.
Segments(content, k) == [i \in 1..k |-> SegmentOf(content, i)]

\* A pipe gets all segments, and knows the sum of their lengths.
LEMMA PackedPipeIs ==
    ASSUME NEW X, NEW content \in Seq(X)
    PROVE  /\ PackedPipe(content).buf.queue = Segments(content, NumOfSegs(Len(content)))
           /\ PackedPipe(content).buf.len = Len(content)
           /\ PackedPipe(content).total = Len(content)
           /\ "buf" \in DOMAIN PackedPipe(content)
<1> DEFINE L == Len(content)
           n == NumOfSegs(L)
<1>1. L \in Nat /\ n \in Nat
  <2>1. L \in Nat
      OBVIOUS
  <2> QED
      BY <2>1, SegmentsOf
<1>2. PICK f : /\ Packing(content, n, f)
               /\ PackedPipe(content) = SwallowEnd(f[DOMAIN Numbers(n)]).pipe
    BY PackingExists, PackedIs
<1>3. DOMAIN Numbers(n) = 1..n /\ \A i \in 1..n : Numbers(n)[i] = i
    BY DEF Numbers
<1> DEFINE size(k) == IF k = 0 THEN 0 ELSE Least(SegLen * k, L)
           Good(k) == /\ f[1..k] \in Pipes(X)
                      /\ f[1..k].buf = [queue |-> Segments(content, k), len |-> size(k)]
                      /\ f[1..k].collected = size(k)
           S == {k \in Nat : k <= n => Good(k)}
<1>4. 0 \in S
  <2>1. 1..0 = {} /\ {} \in SUBSET (1..n)
      OBVIOUS
  <2>2. f[{}] = EmptyPipe
      BY <1>2, <1>3 DEF Packing
  <2>3. f[1..0] = EmptyPipe
      BY <2>1, <2>2
  <2>4. Segments(content, 0) = <<>>
      BY DEF Segments
  <2>5. EmptyPipe \in Pipes(X)
      BY DEF EmptyPipe, EmptyBuffer, Pipes
  <2>6. EmptyPipe.buf = [queue |-> <<>>, len |-> 0] /\ EmptyPipe.collected = 0
      BY DEF EmptyPipe, EmptyBuffer
  <2>7. Good(0)
      BY <2>3, <2>4, <2>5, <2>6
  <2> HIDE DEF Good
  <2> QED
      BY <2>7
<1>5. ASSUME NEW k \in Nat, k \in S
      PROVE  k + 1 \in S
  <2> SUFFICES ASSUME k + 1 <= n
               PROVE  Good(k + 1)
      OBVIOUS
  <2> DEFINE seg == SegmentOf(content, k + 1)
  <2>1. k + 1 \in 1..n /\ (k + 1) - 1 = k /\ Good(k)
      BY <1>1, <1>5
  <2>2. f[1..(k + 1)] = SwallowBytes(f[1..k], seg).pipe
    <3>1. /\ 1..(k + 1) \in SUBSET (1..n) /\ 1..(k + 1) # {}
          /\ Max(1..(k + 1)) = k + 1 /\ (1..(k + 1)) \ {k + 1} = 1..k
        BY <1>1, <2>1, LastIndex
    <3> HIDE DEF n
    <3>2. f[1..(k + 1)] = SwallowBytes(f[(1..(k + 1)) \ {Max(1..(k + 1))}],
                            SegmentOf(content, Numbers(n)[Max(1..(k + 1))])).pipe
        BY <1>2, <1>3, <3>1 DEF Packing
    <3> QED
        BY <1>3, <2>1, <3>1, <3>2
  <2>3. /\ seg \in Seq(X) /\ seg # <<>>
        /\ Len(seg) = Least(SegLen * (k + 1), L) - SegLen * k
      BY <2>1, SegmentBytes
  <2>4. size(k) + Len(seg) = size(k + 1)
    <3>1. size(k) = SegLen * k /\ SegLen * k \in Nat
      <4>1. CASE k = 0
          BY <4>1, SegLenAssumption
      <4>2. CASE k # 0
        <5>1. k \in 1..n /\ k < n
            BY <1>1, <2>1, <4>2
        <5>2. Least(SegLen * k, L) = SegLen * k
            BY <1>1, <5>1, SegmentBounds
        <5> QED
            BY <4>2, <5>2, SegLenAssumption
      <4> QED
          BY <4>1, <4>2
    <3>2. size(k + 1) = Least(SegLen * (k + 1), L) /\ Least(SegLen * (k + 1), L) \in Nat
        BY <1>1, <2>1, SegmentBounds
    <3> QED
        BY <2>3, <3>1, <3>2
  <2>5. Append(Segments(content, k), seg) = Segments(content, k + 1)
    <3>1. \A i \in 1..k : SegmentOf(content, i) \in Seq(X)
        BY <1>1, <2>1, SegmentBytes
    <3>2. Segments(content, k) \in Seq(Seq(X)) /\ Len(Segments(content, k)) = k
        BY <3>1 DEF Segments
    <3> HIDE DEF seg
    <3>3. /\ Append(Segments(content, k), seg) \in Seq(Seq(X))
          /\ Len(Append(Segments(content, k), seg)) = k + 1
          /\ \A i \in 1..k : Append(Segments(content, k), seg)[i] = SegmentOf(content, i)
          /\ Append(Segments(content, k), seg)[k + 1] = seg
        BY <2>3, <3>2 DEF Segments
    <3>4. \A i \in 1..(k + 1) : Append(Segments(content, k), seg)[i] = SegmentOf(content, i)
        BY <3>3 DEF seg
    <3> QED
        BY <3>3, <3>4 DEF Segments
  <2> DEFINE p == f[1..k]
             q == f[1..(k + 1)]
  <2>6. p \in Pipes(X) /\ p.buf = [queue |-> Segments(content, k), len |-> size(k)] /\ p.collected = size(k)
      BY <2>1
  <2>7. q = SwallowBytes(p, seg).pipe
      BY <2>2
  <2> HIDE DEF p, q, seg, size
  <2>8. /\ q \in Pipes(X)
        /\ q.buf = [queue |-> Append(p.buf.queue, seg), len |-> p.buf.len + Len(seg)]
        /\ q.collected = p.collected + Len(seg)
    <3>1. Fills(X, p, seg, q)
        BY <2>3, <2>6, <2>7, Swallowed
    <3> QED
        BY <3>1 DEF Fills
  <2>9. q.buf = [queue |-> Segments(content, k + 1), len |-> size(k + 1)]
        /\ q.collected = size(k + 1)
      BY <2>4, <2>5, <2>6, <2>8
  <2> QED
      BY <2>8, <2>9 DEF q
<1>6. Nat \subseteq S
  <2> HIDE DEF S
  <2> QED
      BY <1>4, <1>5, Induction
<1>7. Good(n)
    BY <1>1, <1>6
<1>8. size(n) = L
  <2>1. n # 0 => Least(SegLen * n, L) = L
      BY <1>1, SegmentBounds
  <2>2. n = 0 <=> L = 0
      BY <1>1, SegmentsOf
  <2> QED
      BY <2>1, <2>2
<1> DEFINE p == f[1..n]
           e == [p EXCEPT !.complete = TRUE, !.total = p.collected]
<1>9. p \in Pipes(X) /\ p.buf = [queue |-> Segments(content, n), len |-> L] /\ p.collected = L
    BY <1>7, <1>8
<1>10. PackedPipe(content) = SwallowEnd(p).pipe
    BY <1>2, <1>3
<1> HIDE DEF p, n, L, S, Good, size
<1>11. SwallowEnd(p).pipe = e
  <2>1. e.wants = None
      BY <1>9 DEF Pipes
  <2> HIDE DEF e
  <2>2. SwallowEnd(p) = Notify(e)
      BY DEF SwallowEnd, e
  <2> QED
      BY <2>1, <2>2 DEF Notify, Resolves
<1>12. e.buf = p.buf /\ e.total = p.collected /\ "buf" \in DOMAIN e
    BY <1>9 DEF Pipes
<1> QED
    BY <1>9, <1>10, <1>11, <1>12 DEF n, L

-----------------------------------------------------------------------------
(* What comes out of a buffer                                               *)

IsSeq(s) == \E Y : s \in Seq(Y)

LEMMA SubSeqIs ==
    ASSUME NEW s, NEW m \in Int, NEW n \in Int
    PROVE  IsSeq(SubSeq(s, m, n))
<1> DEFINE l == IF 1 + n - m >= 0 THEN 1 + n - m ELSE 0
           t == SubSeq(s, m, n)
           e(i) == s[i + m - 1]
           Y == {e(i) : i \in 1..l}
<1>1. l \in Nat /\ t = [i \in 1..l |-> e(i)]
    OBVIOUS
<1>2. \A i \in 1..l : e(i) \in Y
    OBVIOUS
<1>3. t \in Seq(Y)
  <2> HIDE DEF t, l, e, Y
  <2> QED
      BY <1>1, <1>2
<1> QED
    BY <1>3 DEF IsSeq

LEMMA LeftIs ==
    ASSUME NEW Y, NEW q \in Seq(Y)
    PROVE  Left(q) \in Seq(Y)
<1> DEFINE l == Len(q)
           h == l \div 2
<1>1. l \in Nat
    OBVIOUS
<1>2. h \in 0..l
  <2> HIDE DEF l
  <2> QED
      BY <1>1
<1> HIDE DEF h
<1>3. SubSeq(q, 1, h) \in Seq(Y)
    BY <1>2
<1> QED
    BY <1>3 DEF Left, h

LEMMA SeqIs ==
    ASSUME NEW S, NEW n \in Nat, NEW f, f = [i \in 1..n |-> f[i]],
           \A i \in 1..n : f[i] \in S
    PROVE  f \in Seq(S)
    OBVIOUS

\* A first chunk may be cut.
LEMMA FirstIsCut ==
    ASSUME NEW X, NEW rest \in Seq(Seq(X)), NEW m \in Int
    PROVE  \E Y : [rest EXCEPT ![1] = SubSeq(rest[1], m, Len(rest[1]))] \in Seq(Seq(Y))
<1> DEFINE c == SubSeq(rest[1], m, Len(rest[1]))
<1>1. CASE rest = <<>>
  <2>1. [rest EXCEPT ![1] = c] = rest
    <3> HIDE DEF c
    <3> QED
        BY <1>1
  <2> QED
      BY <2>1
<1>2. CASE rest # <<>>
  <2>1. rest[1] \in Seq(X)
      BY <1>2
  <2>2. IsSeq(c)
      BY <2>1, SubSeqIs
  <2> HIDE DEF c
  <2>3. PICK Z : c \in Seq(Z)
      BY <2>2 DEF IsSeq
  <2> DEFINE W == Seq(X) \cup Seq(Z)
  <2>4. c \in W /\ \A i \in DOMAIN rest : rest[i] \in W
      BY <2>3
  <2>5. W \subseteq Seq(X \cup Z)
      OBVIOUS
  <2>6. c \in Seq(X \cup Z) /\ \A i \in DOMAIN rest : rest[i] \in Seq(X \cup Z)
      BY <2>4, <2>5
  <2> HIDE DEF W
  <2>7. \A S : c \in S /\ (\A i \in DOMAIN rest : rest[i] \in S)
               => [rest EXCEPT ![1] = c] \in Seq(S)
    <3> SUFFICES ASSUME NEW S, c \in S, \A i \in DOMAIN rest : rest[i] \in S
                 PROVE  [rest EXCEPT ![1] = c] \in Seq(S)
        OBVIOUS
    <3>1. rest = [i \in 1..Len(rest) |-> rest[i]] /\ Len(rest) \in Nat
        OBVIOUS
    <3> DEFINE f == [rest EXCEPT ![1] = c]
    <3>2. f = [i \in 1..Len(rest) |-> f[i]] /\ \A i \in 1..Len(rest) : f[i] \in S
        BY <3>1
    <3> HIDE DEF f
    <3>3. f \in Seq(S)
        BY <3>1, <3>2, SeqIs
    <3> QED
        BY <3>3 DEF f
  <2>8. [rest EXCEPT ![1] = c] \in Seq(Seq(X \cup Z))
      BY <2>6, <2>7, Zenon
  <2> QED
      BY <2>8, Zenon DEF c
<1> QED
    BY <1>1, <1>2

LEMMA RestIs ==
    ASSUME NEW S, NEW q \in Seq(S), NEW w \in 0..Len(q)
    PROVE  /\ SubSeq(q, w + 1, Len(q)) \in Seq(S)
           /\ SubSeq(q, 1, w) \in Seq(S)
    OBVIOUS

\* A sender's buffer gives out bytes, and still has chunks of bytes.
LEMMA SenderGets ==
    ASSUME NEW X, NEW b, b.queue \in Seq(Seq(X)), NEW min, NEW n \in Nat
    PROVE  LET g == GetBytes(b, min, n)
           IN /\ \E Y : g.buf.queue \in Seq(Seq(Y))
              /\ g.out # None => IsSeq(g.out)
<1> DEFINE q == b.queue
           g == GetBytes(b, min, n)
<1>1. CASE g = [out |-> None, buf |-> b]
    BY <1>1
<1>2. CASE g = ExtractAll(b)
  <2>1. Left(q) \in Seq(Seq(X))
    BY LeftIs
  <2>2. IsSeq(FlattenSeq(q))
      BY FlattenType DEF IsSeq
  <2>3. g.out = FlattenSeq(q) /\ g.buf.queue = Left(q)
      BY <1>2 DEF ExtractAll
  <2> QED
      BY <2>1, <2>2, <2>3
<1>3. CASE g = ExtractSome(b, n)
  <2> DEFINE end(i) == Len(FlattenSeq(SubSeq(q, 1, i)))
             T == {i \in DOMAIN q : end(i) <= n}
             whole == Cardinality(T)
             rest == SubSeq(q, whole + 1, Len(q))
             m == n - end(whole) + 1
             cut == [rest EXCEPT ![1] = SubSeq(rest[1], m, Len(rest[1]))]
  <2>1. Len(q) \in Nat /\ T \subseteq 1..Len(q)
      OBVIOUS
  <2>2. whole \in 0..Len(q)
    <3>1. IsFiniteSet(1..Len(q)) /\ Cardinality(1..Len(q)) = Len(q)
        BY <2>1, FS_Interval
    <3>2. whole \in Nat /\ whole <= Cardinality(1..Len(q))
        BY <2>1, <3>1, FS_Subset, FS_CardinalityType
    <3> QED
        BY <3>1, <3>2
  <2>3. g.out = SubSeq(FlattenSeq(q), 1, n) /\ g.buf.queue = cut
    <3>1. g = [out |-> SubSeq(FlattenSeq(q), 1, n), buf |-> [queue |-> cut, len |-> b.len - n]]
        BY <1>3, Zenon DEF ExtractSome
    <3> HIDE DEF g, cut
    <3> QED
        BY <3>1
  <2>4. m \in Int
    <3>1. SubSeq(q, 1, whole) \in Seq(Seq(X))
      <4> HIDE DEF whole
      <4> QED
          BY <2>2, RestIs
    <3>2. FlattenSeq(SubSeq(q, 1, whole)) \in Seq(X)
        BY <3>1, FlattenType
    <3>3. end(whole) \in Nat
        BY <3>2
    <3> HIDE DEF end, whole
    <3> QED
        BY <3>3
  <2>5. \E Y : cut \in Seq(Seq(Y))
    <3>1. rest \in Seq(Seq(X))
      <4> HIDE DEF whole
      <4> QED
          BY <2>2, RestIs
    <3> HIDE DEF rest, m
    <3> QED
        BY <2>4, <3>1, FirstIsCut
  <2>6. IsSeq(SubSeq(FlattenSeq(q), 1, n))
      BY SubSeqIs
  <2>7. \E Y : g.buf.queue \in Seq(Seq(Y))
    <3> HIDE DEF cut, g
    <3> QED
        BY <2>3, <2>5
  <2>8. IsSeq(g.out)
    <3> HIDE DEF cut, g
    <3> QED
        BY <2>3, <2>6
  <2> QED
      BY <2>7, <2>8
<1> QED
    BY <1>1, <1>2, <1>3 DEF GetBytes

-----------------------------------------------------------------------------
(* A reader's pipe, into which the same bytes come                          *)

ReadPipes(chunk) ==
    [buf : [queue : Seq({chunk}), len : Int], complete : BOOLEAN, wants : Int \cup {None},
     settled : BOOLEAN, total : Int \cup {None}, collected : Int]

\* What is given out of such a pipe.
Starts(X, out, chunk) ==
    \/ out = None
    \/ out \in Seq(X) /\ out # <<>> /\ out[1] = chunk[1]

\* Bytes are not empty, when they are in a pipe.
Filled(p, chunk) == p \in ReadPipes(chunk) /\ (p.buf.queue # <<>> => chunk # <<>>)

LEMMA ReaderGets ==
    ASSUME NEW X, NEW chunk \in Seq(X), NEW p, Filled(p, chunk), NEW min
    PROVE  LET g == GetBytes(p.buf, min, None)
           IN /\ [p EXCEPT !.buf = g.buf] \in ReadPipes(chunk)
              /\ g.buf.queue # <<>> => chunk # <<>>
              /\ Starts(X, g.out, chunk)
<1> DEFINE b == p.buf
           q == b.queue
           g == GetBytes(b, min, None)
<1>1. b \in [queue : Seq({chunk}), len : Int] /\ q \in Seq({chunk}) /\ b.len \in Int
    BY DEF Filled, ReadPipes
<1>2. CASE g = [out |-> None, buf |-> b]
  <2>1. [p EXCEPT !.buf = b] \in ReadPipes(chunk)
      BY DEF Filled, ReadPipes
  <2> QED
      BY <1>2, <2>1 DEF Filled, Starts
<1>3. CASE q # <<>> /\ g = ExtractAll(b)
  <2>1. q \in Seq(Seq(X)) /\ q[1] = chunk /\ chunk # <<>>
      BY <1>1, <1>3 DEF Filled
  <2>2. /\ FlattenSeq(q) \in Seq(X) /\ FlattenSeq(q) # <<>>
        /\ FlattenSeq(q)[1] = chunk[1]
      BY <1>3, <2>1, FlattenFirst
  <2>3. Left(q) \in Seq({chunk})
      BY <1>1, LeftIs
  <2>4. g.out = FlattenSeq(q) /\ g.buf = [queue |-> Left(q), len |-> b.len - Len(FlattenSeq(q))]
      BY <1>3 DEF ExtractAll
  <2>5. g.buf \in [queue : Seq({chunk}), len : Int]
      BY <1>1, <2>2, <2>3, <2>4
  <2>6. [p EXCEPT !.buf = g.buf] \in ReadPipes(chunk)
    <3> HIDE DEF g
    <3> QED
        BY <2>5 DEF Filled, ReadPipes
  <2> QED
      BY <2>1, <2>2, <2>4, <2>6 DEF Starts
<1> QED
    BY <1>2, <1>3 DEF GetBytes

LEMMA Notified ==
    ASSUME NEW X, NEW chunk \in Seq(X), NEW p, Filled(p, chunk)
    PROVE  Filled(Notify(p).pipe, chunk) /\ Starts(X, Notify(p).out, chunk)
<1> DEFINE g == GetBytes(p.buf, IF p.complete THEN 0 ELSE p.wants, None)
           r == [p EXCEPT !.buf = g.buf,
                          !.settled = @ \/ p.complete \/ g.out # None]
<1>1. CASE ~Resolves(p)
    BY <1>1 DEF Notify, Starts
<1>2. CASE Resolves(p)
  <2>1. /\ [p EXCEPT !.buf = g.buf] \in ReadPipes(chunk)
        /\ g.buf.queue # <<>> => chunk # <<>>
        /\ Starts(X, g.out, chunk)
      BY ReaderGets
  <2>2. Notify(p) = [out |-> IF p.settled THEN None ELSE g.out, pipe |-> r]
      BY <1>2 DEF Notify
  <2> HIDE DEF g
  <2>3. r \in ReadPipes(chunk) /\ r.buf = g.buf
      BY <2>1 DEF Filled, ReadPipes
  <2>4. Starts(X, IF p.settled THEN None ELSE g.out, chunk)
      BY <2>1 DEF Starts
  <2> HIDE DEF r
  <2> QED
      BY <2>1, <2>2, <2>3, <2>4 DEF Filled
<1> QED
    BY <1>1, <1>2

\* Coming of bytes, or of an end, and reading, keep a pipe.
LEMMA PipeSteps ==
    ASSUME NEW X, NEW chunk \in Seq(X), NEW p, Filled(p, chunk)
    PROVE  /\ chunk # <<>> => /\ Filled(SwallowBytes(p, chunk).pipe, chunk)
                              /\ Starts(X, SwallowBytes(p, chunk).out, chunk)
           /\ Filled(SwallowEnd(p).pipe, chunk) /\ Starts(X, SwallowEnd(p).out, chunk)
           /\ \A min \in Int : /\ Filled(ReadBytes(p, min).pipe, chunk)
                               /\ Starts(X, ReadBytes(p, min).out, chunk)
<1>1. ASSUME chunk # <<>>
      PROVE  /\ Filled(SwallowBytes(p, chunk).pipe, chunk)
             /\ Starts(X, SwallowBytes(p, chunk).out, chunk)
  <2> DEFINE q == [p EXCEPT !.buf = PushBytes(@, chunk), !.collected = @ + Len(chunk)]
  <2>1. /\ Append(p.buf.queue, chunk) \in Seq({chunk}) /\ p.buf.len + Len(chunk) \in Int
        /\ p.collected + Len(chunk) \in Int
      BY DEF Filled, ReadPipes
  <2>2. PushBytes(p.buf, chunk) \in [queue : Seq({chunk}), len : Int]
      BY <2>1 DEF PushBytes
  <2>3. q \in ReadPipes(chunk)
      BY <2>1, <2>2 DEF Filled, ReadPipes
  <2>4. Filled(q, chunk)
    <3> HIDE DEF q
    <3> QED
        BY <1>1, <2>3 DEF Filled
  <2>5. SwallowBytes(p, chunk) = Notify(q)
      BY <1>1 DEF SwallowBytes
  <2> HIDE DEF q
  <2> QED
      BY <2>4, <2>5, Notified
<1>2. Filled(SwallowEnd(p).pipe, chunk) /\ Starts(X, SwallowEnd(p).out, chunk)
  <2> DEFINE q == [p EXCEPT !.complete = TRUE, !.total = p.collected]
  <2>1. q \in ReadPipes(chunk) /\ q.buf = p.buf
      BY DEF Filled, ReadPipes
  <2>2. SwallowEnd(p) = Notify(q)
      BY DEF SwallowEnd
  <2> HIDE DEF q
  <2>3. Filled(q, chunk)
      BY <2>1 DEF Filled
  <2> QED
      BY <2>2, <2>3, Notified
<1>3. ASSUME NEW min \in Int
      PROVE  /\ Filled(ReadBytes(p, min).pipe, chunk)
             /\ Starts(X, ReadBytes(p, min).out, chunk)
  <2> DEFINE g == GetBytes(p.buf, IF p.complete THEN 0 ELSE min, None)
             r == [p EXCEPT !.buf = g.buf]
  <2>1. /\ r \in ReadPipes(chunk)
        /\ g.buf.queue # <<>> => chunk # <<>>
        /\ Starts(X, g.out, chunk)
      BY ReaderGets
  <2>2. CASE p.complete \/ g.out # None
    <3>1. ReadBytes(p, min).out = g.out /\ ReadBytes(p, min).pipe = r
        BY <2>2 DEF ReadBytes
    <3> HIDE DEF g
    <3>2. r.buf = g.buf
        BY DEF Filled, ReadPipes
    <3> HIDE DEF r
    <3> QED
        BY <2>1, <3>1, <3>2 DEF Filled
  <2>3. CASE ~(p.complete \/ g.out # None)
    <3>1. ReadBytes(p, min).out = None /\ ReadBytes(p, min).pipe = [p EXCEPT !.wants = min]
        BY <2>3 DEF ReadBytes
    <3>2. Filled([p EXCEPT !.wants = min], chunk)
        BY DEF Filled, ReadPipes
    <3> QED
        BY <3>1, <3>2 DEF Starts
  <2> QED
      BY <2>2, <2>3
<1> QED
    BY <1>1, <1>2, <1>3

-----------------------------------------------------------------------------
(* Server's pump                                                            *)

\* What FoldLeft in Pump is defined by.
NoWrites == [buf |-> 0, writes |-> <<>>]
Pumping(pieces, f) ==
    f = [t \in SUBSET DOMAIN pieces |->
            IF t = {} THEN NoWrites
            ELSE PumpStep(f[t \ {Max(t)}], pieces[Max(t)], Total(pieces))]
LEMMA PumpIs ==
    ASSUME NEW pieces, \E f : Pumping(pieces, f)
    PROVE  \E f : Pumping(pieces, f) /\ Pump(pieces) = f[DOMAIN pieces]
BY Zenon DEF Pump, FoldLeft, MapThenFoldSet, Pumping, NoWrites

Pumps == [buf : Nat, writes : Seq(Nat)]

LEMMA PumpStepType ==
    ASSUME NEW p \in Pumps, NEW n \in Nat, NEW total
    PROVE  PumpStep(p, n, total) \in Pumps
<1>1. p.buf + n \in Nat /\ Append(p.writes, p.buf + n) \in Seq(Nat)
    BY DEF Pumps
<1>2. [p EXCEPT !.buf = p.buf + n] \in Pumps
    BY <1>1 DEF Pumps
<1>3. [buf |-> 0, writes |-> Append(p.writes, p.buf + n)] \in Pumps
    BY <1>1 DEF Pumps
<1> QED
    BY <1>2, <1>3 DEF PumpStep

LEMMA PumpingExists ==
    ASSUME NEW pieces \in Seq(Nat)
    PROVE  \E f \in [SUBSET DOMAIN pieces -> Pumps] : Pumping(pieces, f)
<1> DEFINE n == Len(pieces)
           step(p, i) == PumpStep(p, pieces[i], Total(pieces))
           H == [x \in Pumps \X (1..n) |-> step(x[1], x[2])]
<1>1. n \in Nat /\ DOMAIN pieces = 1..n /\ \A i \in 1..n : pieces[i] \in Nat
    OBVIOUS
<1>2. ASSUME NEW p \in Pumps, NEW i \in 1..n
      PROVE  step(p, i) \in Pumps
    BY <1>1, PumpStepType
<1> HIDE DEF step
<1>3. H \in [Pumps \X (1..n) -> Pumps]
    BY <1>2
<1>4. NoWrites \in Pumps
    BY DEF Pumps, NoWrites
<1>5. PICK f \in [SUBSET (1..n) -> Pumps] : Folding(H, NoWrites, n, f)
  <2> HIDE DEF H, n
  <2> QED
      BY <1>1, <1>3, <1>4, FoldExists
<1>6. ASSUME NEW t \in SUBSET (1..n), t # {}
      PROVE  H[<<f[t \ {Max(t)}], Max(t)>>] = step(f[t \ {Max(t)}], Max(t))
  <2>1. Max(t) \in 1..n
      BY <1>1, <1>6, SubsetMax
  <2>2. f[t \ {Max(t)}] \in Pumps
      BY <1>5
  <2> HIDE DEF n
  <2> QED
      BY <2>1, <2>2
<1>7. f = [t \in SUBSET (1..n) |->
              IF t = {} THEN NoWrites ELSE step(f[t \ {Max(t)}], Max(t))]
  <2> HIDE DEF H, n
  <2> QED
      BY <1>5, <1>6 DEF Folding
<1> QED
    BY <1>1, <1>5, <1>7 DEF Pumping, step

\* Pieces go through a buffer one by one.
LEMMA PumpSteps ==
    ASSUME NEW pieces \in Seq(Nat)
    PROVE  \E a : /\ a[0] = NoWrites
                  /\ \A k \in 1..Len(pieces) : a[k] = PumpStep(a[k - 1], pieces[k], Total(pieces))
                  /\ Pump(pieces) = a[Len(pieces)]
<1> DEFINE n == Len(pieces)
<1>1. n \in Nat /\ DOMAIN pieces = 1..n
    OBVIOUS
<1>2. PICK f : Pumping(pieces, f) /\ Pump(pieces) = f[DOMAIN pieces]
    BY PumpingExists, PumpIs
<1> DEFINE a == [k \in 0..n |-> f[1..k]]
<1>3. a[0] = NoWrites
  <2>1. 1..0 = {} /\ {} \in SUBSET (1..n)
      OBVIOUS
  <2>2. f[{}] = NoWrites
      BY <1>1, <1>2 DEF Pumping
  <2> QED
      BY <2>1, <2>2, <1>1
<1>4. ASSUME NEW k \in 1..n
      PROVE  a[k] = PumpStep(a[k - 1], pieces[k], Total(pieces))
  <2>1. /\ 1..k \in SUBSET (1..n) /\ 1..k # {}
        /\ Max(1..k) = k /\ (1..k) \ {k} = 1..(k - 1)
      BY <1>1, LastIndex
  <2>2. f[1..k] = PumpStep(f[1..(k - 1)], pieces[k], Total(pieces))
      BY <1>1, <1>2, <2>1 DEF Pumping
  <2>3. a[k] = f[1..k] /\ a[k - 1] = f[1..(k - 1)]
      BY <1>1
  <2> QED
      BY <2>2, <2>3
<1>5. Pump(pieces) = a[n]
    BY <1>1, <1>2
<1> QED
    BY <1>3, <1>4, <1>5

\* Lengths of writes are natural numbers.
LEMMA PumpType ==
    ASSUME NEW pieces \in Seq(Nat)
    PROVE  Pump(pieces).writes \in Seq(Nat)
<1>1. PICK a : /\ a[0] = NoWrites
               /\ \A k \in 1..Len(pieces) : a[k] = PumpStep(a[k - 1], pieces[k], Total(pieces))
               /\ Pump(pieces) = a[Len(pieces)]
    BY PumpSteps
<1> DEFINE S == {k \in Nat : k <= Len(pieces) => a[k] \in Pumps}
<1> NoWrites \in Pumps
    BY DEF Pumps, NoWrites
<1>2. 0 \in S
    BY <1>1
<1>3. ASSUME NEW k \in Nat, k \in S
      PROVE  k + 1 \in S
  <2> SUFFICES ASSUME k + 1 <= Len(pieces)
               PROVE  a[k + 1] \in Pumps
      OBVIOUS
  <2>1. k + 1 \in 1..Len(pieces) /\ (k + 1) - 1 = k /\ a[k] \in Pumps /\ pieces[k + 1] \in Nat
      BY <1>3
  <2>2. a[k + 1] = PumpStep(a[k], pieces[k + 1], Total(pieces))
      BY <1>1, <2>1
  <2> QED
      BY <2>1, <2>2, PumpStepType
<1>4. Nat \subseteq S
  <2> HIDE DEF S
  <2> QED
      BY <1>2, <1>3, Induction
<1>5. Pump(pieces) \in Pumps
    BY <1>1, <1>4
<1> QED
    BY <1>5 DEF Pumps

-----------------------------------------------------------------------------
(* Writing of a body into a file                                            *)

Chunk(body, writes, i) ==
    SubSeq(body, Total(SubSeq(writes, 1, i - 1)) + 1,
                 Total(SubSeq(writes, 1, i - 1)) + writes[i])

\* What FoldLeft in Written is defined by.
Indices(writes) == [i \in DOMAIN writes |-> i]
Writing(file, body, writes, f) ==
    f = [t \in SUBSET DOMAIN Indices(writes) |->
            IF t = {} THEN file
            ELSE Write(f[t \ {Max(t)}], Chunk(body, writes, Indices(writes)[Max(t)]))]
LEMMA WrittenIs ==
    ASSUME NEW file, NEW body, NEW writes, \E f : Writing(file, body, writes, f)
    PROVE  \E f : /\ Writing(file, body, writes, f)
                  /\ Written(file, body, writes) = f[DOMAIN Indices(writes)]
BY Zenon DEF Written, FoldLeft, MapThenFoldSet, Writing, Indices, Chunk

LEMMA WritingExists ==
    ASSUME NEW D, NEW file, file = [i \in D |-> file[i]], NEW body, NEW writes \in Seq(Nat)
    PROVE  \E f : Writing(file, body, writes, f)
<1> DEFINE n == Len(writes)
           chunk(i) == Chunk(body, writes, i)
           X == {file[i] : i \in D} \cup {chunk(j)[i] : i \in D, j \in 1..n}
           H == [x \in [D -> X] \X (1..n) |-> Write(x[1], chunk(x[2]))]
<1>1. n \in Nat /\ DOMAIN writes = 1..n /\ DOMAIN Indices(writes) = 1..n
    BY DEF Indices
<1>2. ASSUME NEW p \in [D -> X], NEW j \in 1..n
      PROVE  Write(p, chunk(j)) \in [D -> X]
  <2>1. \A i \in D : chunk(j)[i] \in X /\ p[i] \in X
      OBVIOUS
  <2> HIDE DEF X, chunk
  <2>2. Write(p, chunk(j)) = [i \in D |-> IF i <= Len(chunk(j)) THEN chunk(j)[i] ELSE p[i]]
      BY DEF Write
  <2> QED
      BY <2>1, <2>2
<1>3. file \in [D -> X]
  <2>1. \A i \in D : file[i] \in X
      OBVIOUS
  <2> HIDE DEF X
  <2> QED
      BY <2>1
<1> HIDE DEF X, chunk, n
<1>4. H \in [[D -> X] \X (1..n) -> [D -> X]]
    BY <1>2
<1>5. PICK f \in [SUBSET (1..n) -> [D -> X]] : Folding(H, file, n, f)
  <2> HIDE DEF H
  <2> QED
      BY <1>1, <1>3, <1>4, FoldExists
<1>6. ASSUME NEW t \in SUBSET (1..n), t # {}
      PROVE  H[<<f[t \ {Max(t)}], Max(t)>>] = Write(f[t \ {Max(t)}], chunk(Indices(writes)[Max(t)]))
  <2>1. Max(t) \in 1..n
      BY <1>1, <1>6, SubsetMax
  <2>2. f[t \ {Max(t)}] \in [D -> X]
      BY <1>5
  <2>3. Indices(writes)[Max(t)] = Max(t)
      BY <1>1, <2>1 DEF Indices
  <2> QED
      BY <2>1, <2>2, <2>3
<1>7. f = [t \in SUBSET (1..n) |->
              IF t = {} THEN file
              ELSE Write(f[t \ {Max(t)}], chunk(Indices(writes)[Max(t)]))]
  <2> HIDE DEF H
  <2> QED
      BY <1>5, <1>6 DEF Folding
<1> QED
    BY <1>1, <1>7 DEF Writing, chunk

\* Chunks are written one after another.
LEMMA WrittenSteps ==
    ASSUME NEW D, NEW file, file = [i \in D |-> file[i]], NEW body, NEW writes \in Seq(Nat)
    PROVE  \E a : /\ a[0] = file
                  /\ \A k \in 1..Len(writes) : a[k] = Write(a[k - 1], Chunk(body, writes, k))
                  /\ Written(file, body, writes) = a[Len(writes)]
<1> DEFINE n == Len(writes)
<1>1. n \in Nat /\ DOMAIN Indices(writes) = 1..n
    BY DEF Indices
<1>2. PICK f : /\ Writing(file, body, writes, f)
               /\ Written(file, body, writes) = f[DOMAIN Indices(writes)]
    BY WritingExists, WrittenIs
<1> HIDE DEF n
<1> DEFINE a == [k \in 0..n |-> f[1..k]]
<1>3. a[0] = file
  <2>1. 1..0 = {} /\ {} \in SUBSET (1..n)
      OBVIOUS
  <2>2. f[{}] = file
      BY <1>1, <1>2 DEF Writing
  <2> QED
      BY <2>1, <2>2, <1>1
<1>4. ASSUME NEW k \in 1..n
      PROVE  a[k] = Write(a[k - 1], Chunk(body, writes, k))
  <2>1. /\ 1..k \in SUBSET (1..n) /\ 1..k # {}
        /\ Max(1..k) = k /\ (1..k) \ {k} = 1..(k - 1)
      BY <1>1, LastIndex
  <2>2. Indices(writes)[k] = k
      BY <1>1 DEF Indices
  <2>3. f[1..k] = Write(f[1..(k - 1)], Chunk(body, writes, k))
      BY <1>1, <1>2, <2>1, <2>2 DEF Writing
  <2>4. a[k] = f[1..k] /\ a[k - 1] = f[1..(k - 1)]
      BY <1>1
  <2> QED
      BY <2>3, <2>4
<1>5. Written(file, body, writes) = a[n]
    BY <1>1, <1>2
<1> QED
    BY <1>3, <1>4, <1>5 DEF n

\* Writing keeps a length of a file.
LEMMA WrittenType ==
    ASSUME NEW D, NEW file, file = [i \in D |-> file[i]], NEW body, NEW writes \in Seq(Nat)
    PROVE  LET w == Written(file, body, writes) IN w = [i \in D |-> w[i]]
<1>1. PICK a : /\ a[0] = file
               /\ \A k \in 1..Len(writes) : a[k] = Write(a[k - 1], Chunk(body, writes, k))
               /\ Written(file, body, writes) = a[Len(writes)]
    BY WrittenSteps
<1> DEFINE S == {k \in Nat : k <= Len(writes) => a[k] = [i \in D |-> a[k][i]]}
<1>2. 0 \in S
    BY <1>1
<1>3. ASSUME NEW k \in Nat, k \in S
      PROVE  k + 1 \in S
  <2> SUFFICES ASSUME k + 1 <= Len(writes)
               PROVE  a[k + 1] = [i \in D |-> a[k + 1][i]]
      OBVIOUS
  <2>1. k + 1 \in 1..Len(writes) /\ (k + 1) - 1 = k /\ a[k] = [i \in D |-> a[k][i]]
      BY <1>3
  <2>2. a[k + 1] = Write(a[k], Chunk(body, writes, k + 1))
      BY <1>1, <2>1
  <2> QED
      BY <2>1, <2>2 DEF Write
<1>4. Nat \subseteq S
  <2> HIDE DEF S
  <2> QED
      BY <1>2, <1>3, Induction
<1> QED
    BY <1>1, <1>4

-----------------------------------------------------------------------------
(* Saving and storing                                                       *)

\* Bytes of one save are all different.
LEMMA ContentIs ==
    ASSUME saves \in Seq(Seq(Nat)), NEW k \in 1..Len(saves)
    PROVE  /\ Content(k) \in Seq({k} \X Nat) /\ Len(Content(k)) = Total(saves[k])
           /\ Distinct(Content(k))
<1>1. saves[k] \in Seq(Nat)
    OBVIOUS
<1>2. Total(saves[k]) \in Nat
    BY <1>1, TotalType
<1>3. Content(k) \in Seq({k} \X Nat) /\ Len(Content(k)) = Total(saves[k])
  <2> DEFINE n == Total(saves[k])
             c == Content(k)
  <2>1. n \in Nat /\ c = [i \in 1..n |-> c[i]] /\ \A i \in 1..n : c[i] \in {k} \X Nat
      BY <1>2 DEF Content
  <2> HIDE DEF c, n
  <2>2. c \in Seq({k} \X Nat)
      BY <2>1, SeqIs
  <2>3. Len(c) = n
      BY <2>1
  <2> QED
      BY <2>2, <2>3 DEF c, n
<1> QED
    BY <1>2, <1>3 DEF Content, Distinct

\* Shapes of what is on its way to a server.
Sending ==
    /\ save.st \in {"idle", "header", "sending", "sent", "hung"}
    /\ save.st # "idle" => saves # <<>>
    /\ save.st = "sent" => IsSeq(save.body)
    /\ \A f \in {"st", "src", "body", "sent", "whole"} : f \in DOMAIN save
    /\ "buf" \in DOMAIN save.src
    /\ \E Y : save.src.buf.queue \in Seq(Seq(Y))

\* Every version is made by some save, and is a sequence of bytes.
Stored ==
    /\ IsSeq(draft) /\ IsSeq(objs)
    /\ \A v \in DOMAIN objs : objs[v].id \in 1..Len(saves) /\ IsSeq(objs[v].segs)

SavesInv == saves \in Seq(Seq(Nat)) /\ Sending /\ Stored

\* Saves and versions are only added.
Extends(s, t) == IsSeq(t) /\ Len(s) <= Len(t) /\ \A i \in 1..Len(s) : t[i] = s[i]

LEMMA EmptyIsSeq == IsSeq(<<>>)
<1>1. <<>> \in Seq({})
    OBVIOUS
<1> QED
    BY <1>1 DEF IsSeq

LEMMA AppendIs ==
    ASSUME NEW s, IsSeq(s), NEW e
    PROVE  /\ IsSeq(Append(s, e)) /\ Extends(s, Append(s, e)) /\ Extends(s, s)
           /\ Len(Append(s, e)) = Len(s) + 1 /\ Append(s, e)[Len(s) + 1] = e
           /\ Len(s) \in Nat /\ DOMAIN s = 1..Len(s)
           /\ DOMAIN Append(s, e) = 1..(Len(s) + 1)
<1>1. PICK Y : s \in Seq(Y)
    BY DEF IsSeq
<1>2. s \in Seq(Y \cup {e}) /\ Append(s, e) \in Seq(Y \cup {e})
    BY <1>1
<1>3. IsSeq(s) /\ IsSeq(Append(s, e))
    BY <1>2 DEF IsSeq
<1> QED
    BY <1>1, <1>3 DEF Extends

LEMMA InitSaves == BytesInit => SavesInv
<1> SUFFICES ASSUME BytesInit
             PROVE  SavesInv
    OBVIOUS
<1>1. saves \in Seq(Seq(Nat)) /\ objs = <<>> /\ draft = <<>>
    BY DEF BytesInit
<1>2. Sending
  <2>1. save.src.buf.queue = <<>>
      BY DEF BytesInit, EmptyPipe, EmptyBuffer
  <2>2. <<>> \in Seq(Seq({}))
      OBVIOUS
  <2> QED
      BY <2>1, <2>2 DEF BytesInit, Sending, EmptyPipe
<1>3. Stored
    BY <1>1, EmptyIsSeq DEF Stored
<1> QED
    BY <1>1, <1>2, <1>3 DEF SavesInv

\* A packed pipe has chunks of bytes.
LEMMA PackedPipeType ==
    ASSUME NEW X, NEW content \in Seq(X)
    PROVE  /\ "buf" \in DOMAIN PackedPipe(content)
           /\ PackedPipe(content).buf.queue \in Seq(Seq(X))
           /\ PackedPipe(content).total = Len(content)
<1> DEFINE n == NumOfSegs(Len(content))
<1>1. n \in Nat
    BY SegmentsOf
<1>2. \A k \in 1..n : SegmentOf(content, k) \in Seq(X)
    BY SegmentBytes
<1> HIDE DEF n
<1>3. Segments(content, n) \in Seq(Seq(X))
    BY <1>1, <1>2 DEF Segments
<1>4. PackedPipe(content).buf.queue = Segments(content, n)
    BY PackedPipeIs DEF n
<1> QED
    BY <1>3, <1>4, PackedPipeIs

\* A body, that comes, changes only bytes of a draft.
LEMMA BodyKeeps ==
    ASSUME SavesInv, save.st = "sent", NEW pieces \in Seq(Nat), BodyComes(pieces)
    PROVE  SavesInv'
<1>1. PICK Y : draft \in Seq(Y)
    BY DEF SavesInv, Stored, IsSeq
<1>2. Len(draft) \in Nat /\ draft = [i \in 1..Len(draft) |-> draft[i]]
    BY <1>1
<1>3. Pump(pieces).writes \in Seq(Nat)
    BY PumpType
<1>4. draft' = Written(draft, save.body, Pump(pieces).writes)
    BY DEF BodyComes, SaveObjChunk
<1>5. draft' = [i \in 1..Len(draft) |-> draft'[i]]
  <2> DEFINE w == Written(draft, save.body, Pump(pieces).writes)
             D == 1..Len(draft)
  <2>1. draft = [i \in D |-> draft[i]]
      BY <1>2
  <2> HIDE DEF D
  <2>2. w = [i \in D |-> w[i]]
      BY <1>3, <2>1, WrittenType
  <2> QED
      BY <1>4, <2>2 DEF D
<1>6. IsSeq(draft')
  <2>1. \A i \in 1..Len(draft) : draft'[i] \in {draft'[j] : j \in 1..Len(draft)}
      OBVIOUS
  <2>2. draft' \in Seq({draft'[j] : j \in 1..Len(draft)})
      BY <1>2, <1>5, <2>1, SeqIs
  <2> QED
      BY <2>2 DEF IsSeq
<1>7. Stored'
    BY <1>6 DEF BodyComes, SavesInv, Stored
<1>8. Sending'
  <2>1. /\ save'.st \in {"sending", "hung"} /\ save'.src = save.src /\ saves' = saves
        /\ DOMAIN save' = DOMAIN save
      BY DEF BodyComes, SavesInv, Sending
  <2> QED
      BY <2>1 DEF SavesInv, Sending
<1> QED
    BY <1>7, <1>8 DEF BodyComes, SavesInv

\* A body comes in one piece, or in two.
LEMMA BodyPieces ==
    ASSUME SavesInv, BodyInOne \/ BodyInTwo
    PROVE  save.st = "sent" /\ \E pieces \in Seq(Nat) : BodyComes(pieces)
<1>1. save.st = "sent" /\ Len(save.body) \in Nat
  <2>1. save.st = "sent"
      BY DEF BodyInOne, BodyInTwo
  <2>2. PICK Y : save.body \in Seq(Y)
      BY <2>1 DEF SavesInv, Sending, IsSeq
  <2> QED
      BY <2>1, <2>2
<1>2. PICK pieces \in Seq(Nat) : BodyComes(pieces)
  <2>1. CASE BodyInOne
    <3>1. <<Len(save.body)>> \in Seq(Nat)
        BY <1>1
    <3> QED
        BY <2>1, <3>1 DEF BodyInOne
  <2>2. CASE BodyInTwo
    <3>1. PICK n \in Cuts : n < Len(save.body) /\ BodyComes(<<n, Len(save.body) - n>>)
        BY <2>2 DEF BodyInTwo
    <3>2. n \in Nat /\ Len(save.body) - n \in Nat
        BY <1>1, <3>1, ArraysAssumption
    <3>3. <<n, Len(save.body) - n>> \in Seq(Nat)
        BY <3>2
    <3> QED
        BY <3>1, <3>3
  <2> QED
      BY <2>1, <2>2
<1> QED
    BY <1>1, <1>2

\* Every step, and what it does with saves and versions.
LEMMA SavesSteps ==
    ASSUME SavesInv, [BytesNext]_bytesVars
    PROVE  SavesInv' /\ Extends(saves, saves') /\ Extends(objs, objs')
<1>1. IsSeq(saves) /\ IsSeq(objs) /\ IsSeq(draft)
    BY DEF SavesInv, Stored, IsSeq
<1>2. Extends(saves, saves) /\ Extends(objs, objs)
    BY <1>1, AppendIs
<1>3. ASSUME NEW arrs \in Arrays, Save(arrs)
      PROVE  SavesInv' /\ Extends(saves, saves') /\ Extends(objs, objs')
  <2> DEFINE k == Len(saves) + 1
             content == [i \in 1..Total(arrs) |-> <<k, i>>]
             src == PackedPipe(content)
  <2>1. arrs \in Seq(Nat) /\ saves' = Append(saves, arrs) /\ objs' = objs
      BY <1>3, ArraysAssumption DEF Save
  <2>2. saves' \in Seq(Seq(Nat)) /\ saves' # <<>>
      BY <2>1 DEF SavesInv
  <2>3. Total(arrs) \in Nat
      BY <2>1, TotalType
  <2>4. content \in Seq({k} \X Nat)
    <3> DEFINE n == Total(arrs)
    <3>1. n \in Nat /\ k \in {k} /\ content = [i \in 1..n |-> content[i]]
          /\ \A i \in 1..n : content[i] \in {k} \X Nat
        BY <2>3
    <3> HIDE DEF content, n
    <3> QED
        BY <3>1, SeqIs
  <2>5. save' = [st |-> "header", src |-> src, body |-> None, sent |-> 0, whole |-> TRUE]
        /\ draft' = [i \in 1..src.total |-> Zero]
      BY <1>3 DEF Save
  <2> HIDE DEF content
  <2>6. /\ "buf" \in DOMAIN src /\ src.buf.queue \in Seq(Seq({k} \X Nat))
        /\ src.total = Len(content) /\ Len(content) \in Nat
      BY <2>4, PackedPipeType
  <2> HIDE DEF src
  <2>7. Sending'
      BY <2>2, <2>5, <2>6 DEF Sending
  <2>8. draft' \in Seq({Zero})
    <3> DEFINE n == src.total
    <3>1. n \in Nat /\ draft' = [i \in 1..n |-> Zero]
        BY <2>5, <2>6
    <3> HIDE DEF n
    <3> QED
        BY <3>1
  <2>9. Extends(saves, saves') /\ Len(saves') = Len(saves) + 1 /\ Len(saves) \in Nat
      BY <1>1, <2>1, AppendIs
  <2>10. Stored'
    <3>1. IsSeq(draft')
        BY <2>8 DEF IsSeq
    <3>2. \A v \in DOMAIN objs : objs[v].id \in 1..Len(saves') /\ IsSeq(objs[v].segs)
      <4>1. \A v \in DOMAIN objs : objs[v].id \in 1..Len(saves) /\ IsSeq(objs[v].segs)
          BY DEF SavesInv, Stored
      <4>2. 1..Len(saves) \subseteq 1..Len(saves')
          BY <2>9
      <4> QED
          BY <4>1, <4>2
    <3> QED
        BY <1>1, <2>1, <3>1, <3>2 DEF Stored
  <2> QED
      BY <1>2, <2>1, <2>2, <2>7, <2>9, <2>10 DEF SavesInv
<1>4. ASSUME HeaderSaved \/ SendFails
      PROVE  SavesInv' /\ Extends(saves, saves') /\ Extends(objs, objs')
  <2>1. /\ save'.st \in {"idle", "sending"} /\ save'.src = save.src
        /\ DOMAIN save' = DOMAIN save /\ UNCHANGED <<saves, draft, objs>>
        /\ save.st # "idle"
      BY <1>4 DEF HeaderSaved, SendFails, SavesInv, Sending
  <2>2. Sending' /\ Stored'
      BY <2>1 DEF SavesInv, Sending, Stored
  <2> QED
      BY <1>2, <2>1, <2>2 DEF SavesInv
<1>5. ASSUME SendChunkOfSegments
      PROVE  SavesInv' /\ Extends(saves, saves') /\ Extends(objs, objs')
  <2> DEFINE g == GetBytes(save.src.buf, 0, SendChunk)
  <2>1. PICK Y : save.src.buf.queue \in Seq(Seq(Y))
      BY DEF SavesInv, Sending
  <2>2. (\E Z : g.buf.queue \in Seq(Seq(Z))) /\ (g.out # None => IsSeq(g.out))
      BY <2>1, SenderGets, ChunksAssumption
  <2>3. /\ save.st = "sending" /\ g.out # None /\ UNCHANGED <<saves, draft, objs>>
        /\ save' = [save EXCEPT !.st = "sent", !.body = g.out, !.src.buf = g.buf,
                                !.sent = @ + Len(g.out)]
      BY <1>5 DEF SendChunkOfSegments
  <2> HIDE DEF g
  <2>4. /\ save'.st = "sent" /\ save'.body = g.out /\ save'.src.buf = g.buf
        /\ DOMAIN save' = DOMAIN save /\ "buf" \in DOMAIN save'.src
    <3>1. /\ "st" \in DOMAIN save /\ "body" \in DOMAIN save /\ "src" \in DOMAIN save
          /\ "buf" \in DOMAIN save.src
        BY DEF SavesInv, Sending
    <3>2. save'.src = [save.src EXCEPT !.buf = g.buf]
        BY <2>3, <3>1
    <3> QED
        BY <2>3, <3>1, <3>2
  <2>5. Sending'
      BY <2>2, <2>3, <2>4 DEF SavesInv, Sending
  <2>6. Stored'
      BY <2>3 DEF SavesInv, Stored
  <2> QED
      BY <1>2, <2>3, <2>5, <2>6 DEF SavesInv
<1>6. ASSUME Finalize
      PROVE  SavesInv' /\ Extends(saves, saves') /\ Extends(objs, objs')
  <2> DEFINE o == [id |-> Len(saves), segs |-> draft, whole |-> save.whole]
  <2>1. /\ objs' = Append(objs, o) /\ UNCHANGED <<saves, draft>>
        /\ save' = [save EXCEPT !.st = "idle"] /\ save.st = "sending"
      BY <1>6 DEF Finalize
  <2>2. Sending'
      BY <2>1 DEF SavesInv, Sending
  <2>3. o.id \in 1..Len(saves) /\ IsSeq(o.segs)
    <3>1. saves # <<>>
        BY <2>1 DEF SavesInv, Sending
    <3>2. Len(saves) \in 1..Len(saves)
        BY <3>1 DEF SavesInv
    <3> QED
        BY <1>1, <3>2
  <2> HIDE DEF o
  <2>4. /\ IsSeq(objs') /\ Extends(objs, objs') /\ DOMAIN objs' = 1..(Len(objs) + 1)
        /\ objs'[Len(objs) + 1] = o /\ DOMAIN objs = 1..Len(objs) /\ Len(objs) \in Nat
      BY <1>1, <2>1, AppendIs
  <2>5. ASSUME NEW v \in DOMAIN objs'
        PROVE  objs'[v].id \in 1..Len(saves) /\ IsSeq(objs'[v].segs)
    <3>1. v \in 1..Len(objs) \/ v = Len(objs) + 1
        BY <2>4
    <3>2. CASE v \in 1..Len(objs)
        BY <2>4, <3>2 DEF SavesInv, Stored, Extends
    <3>3. CASE v = Len(objs) + 1
        BY <2>3, <2>4, <3>3
    <3> QED
        BY <3>1, <3>2, <3>3
  <2>6. Stored'
      BY <1>1, <2>1, <2>4, <2>5 DEF Stored
  <2> QED
      BY <1>2, <2>1, <2>2, <2>4, <2>6 DEF SavesInv
<1>7. ASSUME BodyInOne \/ BodyInTwo
      PROVE  SavesInv' /\ Extends(saves, saves') /\ Extends(objs, objs')
  <2>1. save.st = "sent" /\ \E pieces \in Seq(Nat) : BodyComes(pieces)
      BY <1>7, BodyPieces
  <2>2. PICK pieces \in Seq(Nat) : BodyComes(pieces)
      BY <2>1
  <2>3. SavesInv'
      BY <2>1, <2>2, BodyKeeps
  <2> QED
      BY <1>2, <2>2, <2>3 DEF BodyComes
<1>8. ASSUME UNCHANGED saveVars
      PROVE  SavesInv' /\ Extends(saves, saves') /\ Extends(objs, objs')
    BY <1>2, <1>8 DEF saveVars, SavesInv, Sending, Stored
<1> QED
    BY <1>3, <1>4, <1>5, <1>6, <1>7, <1>8
    DEF BytesNext, bytesVars, Open, HeaderComes, SegmentsCome, GetFails, Read, ReadSegments

-----------------------------------------------------------------------------
(* Reading                                                                  *)

Shape(d) == d = [st |-> d.st, ind |-> d.ind, segBuf |-> d.segBuf, data |-> d.data]
Fresh(d) == d.ind = 1 /\ d.segBuf = <<>> /\ d.data = <<>>
Kept(content, d, b) == IsSeq(d.segBuf) /\ Stuck(content, d, b)

\* What opening of segments may end with.
Result(content, o, b) ==
    \/ o.st = "failed"
    \/ o.st = "done" /\ o.data = content
    \/ o.st = "reading" /\ Kept(content, o, b)

LEMMA OpenedShape ==
    ASSUME NEW content, NEW out, NEW d, Shape(d)
    PROVE  Shape(OpenSegments(content, d, out))
<1> DEFINE o == OpenSegments(content, d, out)
<1>1. \E st, ind, segBuf, data :
         \/ o = [d EXCEPT !.st = "failed"]
         \/ o = [d EXCEPT !.st = st, !.ind = ind, !.data = data, !.segBuf = segBuf]
    BY Zenon DEF OpenSegments
<1> HIDE DEF o
<1>2. Shape(o)
    BY <1>1 DEF Shape
<1> QED
    BY <1>2 DEF o

\* A source is either fresh, or has bytes, after which nothing opens.
LEMMA Opening ==
    ASSUME NEW C, NEW content \in Seq(C), Distinct(content), content # <<>>,
           NEW Z, NEW chunk, NEW out, Starts(Z, out, chunk), out # None,
           NEW d, Shape(d), Fresh(d) \/ Kept(content, d, chunk[1])
    PROVE  /\ Shape(OpenSegments(content, d, out))
           /\ Result(content, OpenSegments(content, d, out), chunk[1])
<1>1. \E Y : d.segBuf \in Seq(Y)
  <2>1. <<>> \in Seq({})
      OBVIOUS
  <2> QED
      BY <2>1 DEF Fresh, Kept, IsSeq
<1>2. PICK Y : d.segBuf \in Seq(Y)
    BY <1>1
<1> DEFINE X == C \cup Z \cup Y
<1>3. content \in Seq(X) /\ out \in Seq(X) /\ d.segBuf \in Seq(X)
      /\ out # <<>> /\ out[1] = chunk[1]
    BY <1>2 DEF Starts
<1> HIDE DEF X
<1>4. d.ind \in Nat
    BY DEF Fresh, Kept, Stuck
<1>5. d \in Sources(X, {d.st}, {d.data})
  <2> DEFINE st == d.st
             ind == d.ind
             segBuf == d.segBuf
             data == d.data
  <2>1. d = [st |-> st, ind |-> ind, segBuf |-> segBuf, data |-> data]
      BY DEF Shape
  <2>2. ind \in Nat /\ segBuf \in Seq(X)
      BY <1>3, <1>4
  <2> HIDE DEF st, ind, segBuf, data
  <2>3. d \in Sources(X, {st}, {data})
      BY <2>1, <2>2 DEF Sources
  <2> QED
      BY <2>3 DEF st, data
<1> DEFINE o == OpenSegments(content, d, out)
<1>6. CASE Fresh(d)
  <2>1. \/ o.st = "failed"
        \/ o.st = "done" /\ o.data = content
        \/ o.st = "reading" /\ o.segBuf \in Seq(X) /\ Stuck(content, o, out[1])
      BY <1>3, <1>5, <1>6, FreshOpens DEF Fresh
  <2> HIDE DEF o
  <2>2. Result(content, o, chunk[1])
      BY <1>3, <2>1 DEF Result, Kept, IsSeq
  <2> QED
      BY <2>2, OpenedShape DEF o
<1>7. CASE Kept(content, d, chunk[1])
  <2>1. \/ o.st = "failed"
        \/ o.st = "reading" /\ o.segBuf \in Seq(X) /\ Stuck(content, o, chunk[1])
      BY <1>3, <1>5, <1>7, StuckStays DEF Kept
  <2> HIDE DEF o
  <2>2. Result(content, o, chunk[1])
      BY <2>1 DEF Result, Kept, IsSeq
  <2> QED
      BY <2>2, OpenedShape DEF o
<1> QED
    BY <1>6, <1>7

\* A version was chosen by a header, and only its bytes come to a pipe.
Chosen ==
    /\ get.ver \in get.since..Len(objs) /\ get.obj = objs[get.ver].id
    /\ Filled(segs, StoredBytes(get.ver))

\* A header has not come.
Expected == get.obj = None /\ Fresh(dec) /\ dec.st \in {"none", "opened", "asked"}

Getting ==
    /\ get.at \in {"none", "header", "segs", "end", "dead"}
    /\ \A f \in {"at", "ver", "obj", "asked", "count", "since", "met"} : f \in DOMAIN get
    /\ get.at # "none" => get.since \in 1..Len(objs)
    /\ get.at \in {"none", "header"} => segs = EmptyPipe /\ Expected
    /\ get.at \in {"segs", "end"} => Chosen
    /\ get.at = "dead" => Expected \/ Chosen

\* Bytes, that are kept for later, are of no use; a read, that is fulfilled, has
\* everything.
Decrypting ==
    /\ Shape(dec)
    /\ dec.st \in {"none", "opened", "asked", "waits", "done", "failed"}
    /\ dec.st \in {"none", "opened"} => Fresh(dec)
    /\ dec.st \in {"asked", "waits"} =>
          \/ Fresh(dec)
          \/ Chosen /\ Kept(Content(get.obj), dec, StoredBytes(get.ver)[1])
    /\ dec.st = "waits" => Chosen /\ Content(get.obj) # <<>>
    /\ dec.st = "done" => Chosen /\ dec.data = Content(get.obj)

ReadInv == SavesInv /\ Getting /\ Decrypting

LEMMA InitRead == BytesInit => ReadInv
<1> SUFFICES ASSUME BytesInit
             PROVE  ReadInv
    OBVIOUS
<1>1. SavesInv
    BY InitSaves
<1>2. Getting
    BY DEF BytesInit, Getting, Expected, Fresh
<1>3. Decrypting
    BY DEF BytesInit, Decrypting, Shape, Fresh
<1> QED
    BY <1>1, <1>2, <1>3 DEF ReadInv

\* What is saved and stored stays.
LEMMA VersionStays ==
    ASSUME SavesInv, Extends(saves, saves'), Extends(objs, objs'),
           NEW v \in 1..Len(objs)
    PROVE  /\ v \in 1..Len(objs') /\ objs'[v] = objs[v] /\ Len(objs) <= Len(objs')
           /\ Len(objs) \in Nat /\ Len(objs') \in Nat
           /\ objs[v].id \in 1..Len(saves) /\ IsSeq(objs[v].segs)
           /\ StoredBytes(v)' = StoredBytes(v)
           /\ \A k \in 1..Len(saves) : Content(k)' = Content(k)
<1>1. IsSeq(objs) /\ IsSeq(objs')
    BY DEF SavesInv, Stored, Extends
<1>2. Len(objs) \in Nat /\ Len(objs') \in Nat /\ DOMAIN objs = 1..Len(objs)
    BY <1>1 DEF IsSeq
<1>3. v \in 1..Len(objs') /\ objs'[v] = objs[v] /\ Len(objs) <= Len(objs')
    BY <1>2 DEF Extends
<1>4. objs[v].id \in 1..Len(saves) /\ IsSeq(objs[v].segs)
    BY <1>2 DEF SavesInv, Stored
<1>5. StoredBytes(v)' = StoredBytes(v)
    BY <1>3 DEF StoredBytes
<1>6. ASSUME NEW k \in 1..Len(saves)
      PROVE  Content(k)' = Content(k)
  <2>1. saves'[k] = saves[k]
      BY DEF Extends
  <2> QED
      BY <2>1 DEF Content
<1> QED
    BY <1>2, <1>3, <1>4, <1>5, <1>6

SameVersionRead == get'.ver = get.ver /\ get'.obj = get.obj /\ get'.since = get.since

\* A choice, content, and bytes, to which it leads, stay.
LEMMA ChosenStays ==
    ASSUME SavesInv, Chosen, get.since \in 1..Len(objs),
           Extends(saves, saves'), Extends(objs, objs'), SameVersionRead
    PROVE  /\ get'.ver \in get'.since..Len(objs') /\ get'.obj = objs'[get'.ver].id
           /\ StoredBytes(get.ver)' = StoredBytes(get.ver)
           /\ Content(get.obj)' = Content(get.obj)
           /\ \E Y : StoredBytes(get.ver) \in Seq(Y)
           /\ Content(get.obj) \in Seq({get.obj} \X Nat) /\ Distinct(Content(get.obj))
<1>1. PICK v \in 1..Len(objs) : v = get.ver
    BY DEF Chosen, SavesInv, Stored, IsSeq
<1>2. /\ v \in 1..Len(objs') /\ objs'[v] = objs[v] /\ Len(objs) <= Len(objs')
      /\ Len(objs) \in Nat /\ Len(objs') \in Nat
      /\ objs[v].id \in 1..Len(saves) /\ IsSeq(objs[v].segs)
      /\ StoredBytes(v)' = StoredBytes(v)
      /\ \A k \in 1..Len(saves) : Content(k)' = Content(k)
    BY VersionStays
<1>3. PICK k \in 1..Len(saves) : k = get.obj
    BY <1>1, <1>2 DEF Chosen
<1>4. Content(k) \in Seq({k} \X Nat) /\ Distinct(Content(k))
    BY ContentIs DEF SavesInv
<1>5. get'.ver \in get'.since..Len(objs') /\ get'.obj = objs'[get'.ver].id
    BY <1>1, <1>2 DEF Chosen, SameVersionRead
<1>6. StoredBytes(get.ver)' = StoredBytes(v)' /\ Content(get.obj)' = Content(k)'
  <2>1. get'.ver = v /\ get'.obj = k
      BY <1>1, <1>3 DEF SameVersionRead
  <2> QED
      BY <2>1 DEF StoredBytes, Content
<1>7. IsSeq(StoredBytes(v))
  <2>1. Least(GetChunk, Len(objs[v].segs)) \in Int
      BY <1>2, ChunksAssumption DEF Least, IsSeq
  <2> QED
      BY <2>1, SubSeqIs DEF StoredBytes
<1> QED
    BY <1>1, <1>2, <1>3, <1>4, <1>5, <1>6, <1>7 DEF IsSeq

\* Saving, and anything else, that does not touch a pipe and a source.
LEMMA OthersKeep ==
    ASSUME ReadInv, SavesInv', Extends(saves, saves'), Extends(objs, objs'),
           segs' = segs, dec' = dec, SameVersionRead, DOMAIN get' = DOMAIN get,
           \/ get'.at = get.at
           \/ get'.at = "dead" /\ get.at \in {"header", "segs"}
    PROVE  ReadInv'
<1> USE DEF ReadInv
<1>1. ASSUME Chosen, get.at # "none"
      PROVE  /\ Chosen' /\ Content(get.obj)' = Content(get.obj)
             /\ StoredBytes(get.ver)' = StoredBytes(get.ver)
  <2>1. get.since \in 1..Len(objs)
      BY <1>1 DEF Getting
  <2>2. /\ get'.ver \in get'.since..Len(objs') /\ get'.obj = objs'[get'.ver].id
        /\ StoredBytes(get.ver)' = StoredBytes(get.ver)
        /\ Content(get.obj)' = Content(get.obj)
      BY <1>1, <2>1, ChosenStays
  <2>3. Filled(segs, StoredBytes(get.ver))'
      BY <1>1, <2>2 DEF Chosen, Filled, ReadPipes
  <2> QED
      BY <2>2, <2>3 DEF Chosen
<1>2. Expected => Expected'
    BY DEF Expected, SameVersionRead, Fresh
<1>3. Getting'
  <2>1. get.at # "none" => get'.since \in 1..Len(objs')
    <3>1. Len(objs) \in Nat /\ Len(objs') \in Nat /\ Len(objs) <= Len(objs')
        BY DEF SavesInv, Stored, IsSeq, Extends
    <3> QED
        BY <3>1 DEF Getting, SameVersionRead
  <2> QED
      BY <1>1, <1>2, <2>1 DEF Getting
<1>4. Decrypting'
  <2>1. CASE Expected
      BY <2>1 DEF Expected, Decrypting, Shape, Fresh
  <2>2. CASE ~Expected
    <3>1. Chosen /\ get.at # "none"
        BY <2>2 DEF Getting
    <3> QED
        BY <1>1, <3>1 DEF Decrypting, Shape, Fresh, Kept, Stuck
  <2> QED
      BY <2>1, <2>2
<1> QED
    BY <1>3, <1>4

\* A header chooses a version, that is current, when it comes.
LEMMA HeaderChooses ==
    ASSUME ReadInv, HeaderComes, SavesInv'
    PROVE  ReadInv'
<1> USE DEF ReadInv
<1>1. /\ get.at = "header" /\ Expected /\ segs = EmptyPipe /\ get.since \in 1..Len(objs)
      /\ get' = [get EXCEPT !.at = "segs", !.ver = Len(objs), !.obj = objs[Len(objs)].id]
      /\ UNCHANGED <<saves, objs, segs, dec>>
    BY DEF HeaderComes, Getting, saveVars
<1>2. /\ get'.at = "segs" /\ get'.ver = Len(objs) /\ get'.obj = objs[Len(objs)].id
      /\ get'.since = get.since /\ DOMAIN get' = DOMAIN get
    BY <1>1 DEF Getting
<1>3. Filled(EmptyPipe, StoredBytes(get.ver)')
    BY DEF Filled, ReadPipes, EmptyPipe, EmptyBuffer
<1>4. Chosen'
    BY <1>1, <1>2, <1>3 DEF Chosen
<1>5. Getting'
    BY <1>1, <1>2, <1>4 DEF Getting
<1>6. Decrypting'
    BY <1>1 DEF Expected, Decrypting, Shape, Fresh
<1> QED
    BY <1>5, <1>6

LEMMA OpenKeeps ==
    ASSUME ReadInv, Open, SavesInv'
    PROVE  ReadInv'
<1> USE DEF ReadInv
<1>1. /\ get.at = "none" /\ Expected /\ segs = EmptyPipe
      /\ get' = [get EXCEPT !.at = "header", !.since = Len(objs)]
      /\ dec' = [dec EXCEPT !.st = "opened"] /\ objs # <<>>
      /\ UNCHANGED <<saves, objs, segs>>
    BY DEF Open, Getting, saveVars
<1>2. get'.at = "header" /\ get'.since = Len(objs) /\ get'.obj = get.obj /\ DOMAIN get' = DOMAIN get
    BY <1>1 DEF Getting
<1>3. Shape(dec') /\ dec'.st = "opened" /\ Fresh(dec')
    BY <1>1 DEF Decrypting, Shape, Expected, Fresh
<1>4. Len(objs) \in 1..Len(objs)
    BY <1>1 DEF SavesInv, Stored, IsSeq
<1>5. Getting'
    BY <1>1, <1>2, <1>3, <1>4 DEF Getting, Expected
<1>6. Decrypting'
    BY <1>3 DEF Decrypting
<1> QED
    BY <1>5, <1>6

LEMMA ReadKeeps ==
    ASSUME ReadInv, Read, SavesInv'
    PROVE  ReadInv'
<1> USE DEF ReadInv
<1>1. /\ Fresh(dec) /\ dec' = [dec EXCEPT !.st = "asked"] /\ dec.st = "opened"
      /\ UNCHANGED <<saves, objs, segs, get>>
    BY DEF Read, Decrypting, saveVars
<1>2. Shape(dec') /\ dec'.st = "asked" /\ Fresh(dec')
    BY <1>1 DEF Decrypting, Shape, Fresh
<1>3. Decrypting'
    BY <1>2 DEF Decrypting
<1>4. Getting'
  <2>1. Expected => Expected'
      BY <1>1, <1>2 DEF Expected
  <2>2. Chosen => Chosen'
      BY <1>1 DEF Chosen, StoredBytes
  <2> QED
      BY <1>1, <2>1, <2>2 DEF Getting
<1> QED
    BY <1>3, <1>4

\* Bytes of a chosen version, that come, may be of use only to a fresh source.
LEMMA SegmentsKeep ==
    ASSUME ReadInv, SegmentsCome, SavesInv', Extends(saves, saves'), Extends(objs, objs')
    PROVE  ReadInv'
<1> USE DEF ReadInv
<1> DEFINE chunk == StoredBytes(Asked)
           s == SwallowBytes(segs, chunk)
           e == SwallowEnd(s.pipe)
           last == Len(chunk) < GetChunk
           out == IF last /\ s.out = None THEN e.out ELSE s.out
           content == Content(get.obj)
<1>1. /\ get.at = "segs" /\ Chosen /\ get.since \in 1..Len(objs)
      /\ UNCHANGED <<saves, objs>>
    BY DEF SegmentsCome, Getting, saveVars
<1>2. CASE RepliedVersion(Asked) = None \/ ~SameVersion(Asked)
  <2>1. get' = [get EXCEPT !.at = "dead"] /\ UNCHANGED <<segs, dec>>
      BY <1>2 DEF SegmentsCome
  <2>2. SameVersionRead /\ get'.at = "dead" /\ DOMAIN get' = DOMAIN get
      BY <2>1 DEF SameVersionRead, Getting
  <2> QED
      BY <1>1, <2>1, <2>2, OthersKeep
<1>3. CASE ~(RepliedVersion(Asked) = None \/ ~SameVersion(Asked))
  <2>1. /\ get' = [get EXCEPT !.at = IF last THEN "end" ELSE "segs",
                              !.asked = Asked, !.count = @ + 1]
        /\ segs' = IF last THEN e.pipe ELSE s.pipe
        /\ HandOver(out)
      BY <1>3 DEF SegmentsCome
  <2>2. SameVersionRead /\ get'.at \in {"segs", "end"} /\ DOMAIN get' = DOMAIN get
      BY <2>1 DEF SameVersionRead, Getting
  <2>3. chunk = StoredBytes(get.ver) /\ chunk # <<>>
      BY <1>3 DEF RepliedVersion, SameVersion
  <2>4. /\ get'.ver \in get'.since..Len(objs') /\ get'.obj = objs'[get'.ver].id
        /\ StoredBytes(get.ver)' = StoredBytes(get.ver)
        /\ Content(get.obj)' = Content(get.obj)
        /\ \E Y : StoredBytes(get.ver) \in Seq(Y)
        /\ content \in Seq({get.obj} \X Nat) /\ Distinct(content)
      BY <1>1, <2>2, ChosenStays
  <2>5. PICK Y : chunk \in Seq(Y)
      BY <2>3, <2>4
  <2>6. Filled(segs, chunk)
      BY <1>1, <2>3 DEF Chosen
  <2>7. Filled(segs', chunk) /\ Starts(Y, out, chunk)
    <3>1. Filled(s.pipe, chunk) /\ Starts(Y, s.out, chunk)
      <4> HIDE DEF chunk
      <4> QED
          BY <2>3, <2>5, <2>6, PipeSteps
    <3>2. Filled(e.pipe, chunk) /\ Starts(Y, e.out, chunk)
      <4> HIDE DEF chunk, s
      <4> QED
          BY <2>5, <3>1, PipeSteps
    <3> HIDE DEF chunk, s, e
    <3> QED
        BY <2>1, <3>1, <3>2
  <2>8. Chosen'
    <3>1. Filled(segs', StoredBytes(get.ver)')
        BY <2>3, <2>4, <2>7
    <3> QED
        BY <2>4, <3>1 DEF Chosen
  <2>9. Getting'
      BY <1>1, <2>2, <2>8 DEF Getting, SameVersionRead
  <2>10. Decrypting'
    <3> HIDE DEF chunk, out, s, e, last
    <3>1. CASE dec.st = "waits" /\ out # None
      <4> DEFINE o == OpenSegments(content, dec, out)
      <4>1. dec' = [o EXCEPT !.st = IF @ = "reading" THEN "asked" ELSE @]
          BY <2>1, <3>1 DEF HandOver
      <4>2. Shape(o) /\ Result(content, o, chunk[1])
        <5>1. /\ content # <<>> /\ Shape(dec)
              /\ Fresh(dec) \/ Kept(content, dec, chunk[1])
            BY <2>3, <3>1 DEF Decrypting
        <5> HIDE DEF content
        <5> QED
            BY <2>4, <2>7, <3>1, <5>1, Opening
      <4> HIDE DEF o, content
      <4>3. Shape(dec')
          BY <4>1, <4>2 DEF Shape
      <4>4. \/ dec'.st = "failed"
            \/ dec'.st = "done" /\ dec'.data = content
            \/ dec'.st = "asked" /\ Kept(content, dec', chunk[1])
          BY <4>1, <4>2 DEF Shape, Result, Kept, Stuck
      <4> QED
          BY <2>3, <2>4, <2>8, <4>3, <4>4 DEF Decrypting, content
    <3>2. CASE ~(dec.st = "waits" /\ out # None)
      <4>1. dec' = dec
          BY <2>1, <3>2 DEF HandOver
      <4> QED
          BY <1>1, <2>4, <2>8, <4>1 DEF Decrypting, Shape, Fresh, Kept, Stuck
    <3> QED
        BY <3>1, <3>2
  <2> QED
      BY <2>9, <2>10
<1> QED
    BY <1>2, <1>3

\* A source takes all from a pipe, and waits, or is done, or fails.
LEMMA ReadSegmentsKeep ==
    ASSUME ReadInv, ReadSegments, SavesInv', Extends(saves, saves'), Extends(objs, objs')
    PROVE  ReadInv'
<1> USE DEF ReadInv
<1> DEFINE chunk == StoredBytes(get.ver)
           content == Content(get.obj)
           need == SegSize(content, dec.ind) - Len(dec.segBuf)
           r == ReadBytes(segs, need)
           o == OpenSegments(content, dec, r.out)
<1>1. dec.st = "asked" /\ get.obj # None /\ UNCHANGED <<saves, objs, get>>
    BY DEF ReadSegments, saveVars
<1>2. Chosen /\ get.at # "none" /\ get.since \in 1..Len(objs) /\ SameVersionRead
    BY <1>1 DEF Getting, Expected, SameVersionRead
<1>3. /\ get'.ver \in get'.since..Len(objs') /\ get'.obj = objs'[get'.ver].id
      /\ StoredBytes(get.ver)' = chunk /\ Content(get.obj)' = content
      /\ \E Y : chunk \in Seq(Y)
      /\ content \in Seq({get.obj} \X Nat) /\ Distinct(content)
    BY <1>2, ChosenStays
<1>4. PICK Y : chunk \in Seq(Y)
    BY <1>3
<1>5. Filled(segs, chunk) /\ Shape(dec)
    BY <1>2 DEF Chosen, Decrypting
<1>6. Fresh(dec) \/ Kept(content, dec, chunk[1])
    BY <1>1 DEF Decrypting
<1>7. ASSUME Filled(segs', chunk)
      PROVE  Chosen' /\ Getting'
  <2>1. Filled(segs', StoredBytes(get.ver)')
      BY <1>3, <1>7
  <2>2. Chosen'
      BY <1>3, <2>1 DEF Chosen
  <2>3. ~Expected \/ get.at \in {"segs", "end", "dead"}
      BY <1>1 DEF Getting, Expected
  <2>4. get.at \in {"segs", "end", "dead"}
      BY <1>1, <2>3 DEF Getting, Expected
  <2> QED
      BY <1>1, <2>2, <2>4 DEF Getting
<1>8. CASE content = <<>>
  <2>1. dec' = [dec EXCEPT !.st = "done"] /\ segs' = segs
      BY <1>8 DEF ReadSegments
  <2>2. Chosen' /\ Getting'
      BY <1>5, <1>7, <2>1
  <2>3. Fresh(dec)
    <3>1. ~Stuck(content, dec, chunk[1])
      <4>1. NumOfSegs(Len(content)) = 0
        <5>1. Len(content) = 0
            BY <1>8
        <5> QED
            BY <5>1, SegmentsOf
      <4> HIDE DEF content
      <4> QED
          BY <4>1 DEF Stuck
    <3> QED
        BY <1>6, <3>1 DEF Kept
  <2>4. Shape(dec') /\ dec'.st = "done" /\ dec'.data = <<>>
      BY <1>5, <2>1, <2>3 DEF Shape, Fresh
  <2>5. Decrypting'
      BY <1>3, <1>8, <2>2, <2>4 DEF Decrypting
  <2> QED
      BY <2>2, <2>5
<1>9. CASE content # <<>> /\ ReadThrows(segs)
  <2>1. dec' = [dec EXCEPT !.st = "failed"] /\ segs' = segs
      BY <1>9 DEF ReadSegments
  <2>2. Chosen' /\ Getting'
      BY <1>5, <1>7, <2>1
  <2>3. Shape(dec') /\ dec'.st = "failed"
      BY <1>5, <2>1 DEF Shape
  <2>4. Decrypting'
      BY <2>3 DEF Decrypting
  <2> QED
      BY <2>2, <2>4
<1>10. CASE content # <<>> /\ ~ReadThrows(segs)
  <2>1. /\ segs' = r.pipe
        /\ dec' = IF r.waits THEN [dec EXCEPT !.st = "waits"]
                  ELSE IF r.out = None THEN [dec EXCEPT !.st = "failed"]
                  ELSE IF o.st = "reading" THEN [o EXCEPT !.st = "asked"] ELSE o
      BY <1>10 DEF ReadSegments
  <2>2. need \in Int
    <3>1. SegSize(content, dec.ind) \in Nat
      <4>1. Len(content) \in Nat /\ Len(content) # 0
          BY <1>3, <1>10
      <4>2. dec.ind \in 1..NumOfSegs(Len(content))
        <5>1. NumOfSegs(Len(content)) \in Nat /\ NumOfSegs(Len(content)) # 0
            BY <4>1, SegmentsOf
        <5> HIDE DEF content
        <5> QED
            BY <1>6, <5>1 DEF Fresh, Kept, Stuck
      <4> HIDE DEF content
      <4> QED
          BY <1>3, <4>2, SegmentBytes
    <3>2. Len(dec.segBuf) \in Nat
        BY <1>6 DEF Fresh, Kept, IsSeq
    <3> HIDE DEF content
    <3> QED
        BY <3>1, <3>2
  <2>3. Filled(r.pipe, chunk) /\ Starts(Y, r.out, chunk)
    <3> HIDE DEF chunk, need
    <3> QED
        BY <1>4, <1>5, <2>2, PipeSteps
  <2>4. Chosen' /\ Getting'
      BY <1>7, <2>1, <2>3
  <2>5. r.out # None => Shape(o) /\ Result(content, o, chunk[1])
    <3> HIDE DEF content, chunk, r
    <3> QED
        BY <1>3, <1>5, <1>6, <1>10, <2>3, Opening
  <2>6. Shape(dec')
    <3> HIDE DEF o, r
    <3> QED
        BY <1>5, <2>1, <2>5 DEF Shape
  <2>7. \/ dec'.st = "waits" /\ dec'.ind = dec.ind /\ dec'.segBuf = dec.segBuf /\ dec'.data = dec.data
        \/ dec'.st = "failed"
        \/ dec'.st = "done" /\ dec'.data = content
        \/ dec'.st = "asked" /\ Kept(content, dec', chunk[1])
    <3> HIDE DEF o, r, content, chunk
    <3> QED
        BY <1>5, <2>1, <2>5 DEF Shape, Result, Kept, Stuck
  <2>8. Decrypting'
    <3>1. CASE dec'.st = "waits" /\ dec'.ind = dec.ind /\ dec'.segBuf = dec.segBuf /\ dec'.data = dec.data
      <4>1. Fresh(dec') \/ Kept(content, dec', chunk[1])
        <5> HIDE DEF content, chunk
        <5> QED
            BY <1>6, <3>1 DEF Fresh, Kept, Stuck
      <4> QED
          BY <1>3, <1>10, <2>4, <2>6, <3>1, <4>1 DEF Decrypting
    <3>2. CASE ~(dec'.st = "waits" /\ dec'.ind = dec.ind /\ dec'.segBuf = dec.segBuf /\ dec'.data = dec.data)
        BY <1>3, <2>4, <2>6, <2>7, <3>2 DEF Decrypting
    <3> QED
        BY <3>1, <3>2
  <2> QED
      BY <2>4, <2>8
<1> QED
    BY <1>8, <1>9, <1>10

LEMMA ReadInvSteps == ReadInv /\ [BytesNext]_bytesVars => ReadInv'
<1> SUFFICES ASSUME ReadInv, [BytesNext]_bytesVars
             PROVE  ReadInv'
    OBVIOUS
<1>1. SavesInv' /\ Extends(saves, saves') /\ Extends(objs, objs')
    BY SavesSteps DEF ReadInv
<1>2. CASE Open
    BY <1>1, <1>2, OpenKeeps
<1>3. CASE HeaderComes
    BY <1>1, <1>3, HeaderChooses
<1>4. CASE SegmentsCome
    BY <1>1, <1>4, SegmentsKeep
<1>5. CASE Read
    BY <1>1, <1>5, ReadKeeps
<1>6. CASE ReadSegments
    BY <1>1, <1>6, ReadSegmentsKeep
<1>7. ASSUME \/ \E arrs \in Arrays : Save(arrs)
             \/ HeaderSaved \/ SendChunkOfSegments \/ SendFails
             \/ BodyInOne \/ BodyInTwo \/ GetFails \/ Finalize \/ UNCHANGED bytesVars
      PROVE  ReadInv'
  <2>1. segs' = segs /\ dec' = dec
      BY <1>7 DEF Save, HeaderSaved, SendChunkOfSegments, SendFails, BodyInOne, BodyInTwo,
                  BodyComes, GetFails, Finalize, readVars, bytesVars
  <2>2. \/ get' = get
        \/ get' = [get EXCEPT !.met = TRUE]
        \/ get' = [get EXCEPT !.at = "dead", !.met = TRUE] /\ get.at \in {"header", "segs"}
      BY <1>7 DEF Save, HeaderSaved, SendChunkOfSegments, SendFails, BodyInOne, BodyInTwo,
                  BodyComes, GetFails, Finalize, readVars, bytesVars
  <2>3. /\ SameVersionRead /\ DOMAIN get' = DOMAIN get
        /\ \/ get'.at = get.at
           \/ get'.at = "dead" /\ get.at \in {"header", "segs"}
      BY <2>2 DEF ReadInv, Getting, SameVersionRead
  <2> QED
      BY <1>1, <2>1, <2>3, OthersKeep
<1> QED
    BY <1>2, <1>3, <1>4, <1>5, <1>6, <1>7 DEF BytesNext

\* ObjBytes.ReadIsSaved, for any arrays, sizes of chunks and segments, and ways to
\* cut bodies.
THEOREM ReadIsSavedHolds == BytesSpec => []ReadIsSaved
<1>1. ReadInv => ReadIsSaved
    BY DEF ReadInv, Decrypting, Chosen, ReadIsSaved
<1> QED
    BY <1>1, InitRead, ReadInvSteps, PTL DEF BytesSpec

-----------------------------------------------------------------------------
(* An object of one sent chunk                                              *)

\* Content, that is in the first m segments.
Prefix(content, m) == SubSeq(content, 1, Least(SegLen * m, Len(content)))

LEMMA PrefixIs ==
    ASSUME NEW X, NEW content \in Seq(X), NEW m \in 0..NumOfSegs(Len(content))
    PROVE  /\ Prefix(content, m) \in Seq(X)
           /\ Len(Prefix(content, m)) = Least(SegLen * m, Len(content))
           /\ Len(Prefix(content, m)) \in 0..Len(content)
           /\ \A i \in 1..Len(Prefix(content, m)) : Prefix(content, m)[i] = content[i]
           /\ m = NumOfSegs(Len(content)) => Prefix(content, m) = content
<1> DEFINE L == Len(content)
           N == NumOfSegs(L)
           l == Least(SegLen * m, L)
<1>1. L \in Nat /\ N \in Nat /\ m \in 0..N
  <2>1. L \in Nat
      OBVIOUS
  <2> QED
      BY <2>1, SegmentsOf
<1>2. l \in 0..L /\ (m = N => l = L)
  <2>1. CASE m = 0
    <3>1. SegLen * m = 0 /\ l = 0
        BY <1>1, <2>1, SegLenAssumption DEF Least
    <3>2. N = 0 => L = 0
        BY <1>1, SegmentsOf
    <3> QED
        BY <1>1, <2>1, <3>1, <3>2
  <2>2. CASE m # 0
    <3>1. m \in 1..N
        BY <1>1, <2>2
    <3>2. l \in Nat /\ SegLen * (m - 1) < l /\ (m = N => l = L) /\ SegLen * m \in Nat
        BY <1>1, <3>1, SegmentBounds, SegLenAssumption
    <3> QED
        BY <1>1, <3>2 DEF Least
  <2> QED
      BY <2>1, <2>2
<1> HIDE DEF l
<1>3. SubSeq(content, 1, l) \in Seq(X) /\ Len(SubSeq(content, 1, l)) = l
      /\ \A i \in 1..l : SubSeq(content, 1, l)[i] = content[i]
    BY <1>1, <1>2
<1>4. SubSeq(content, 1, L) = content
    OBVIOUS
<1> HIDE DEF L
<1>5. m = N => SubSeq(content, 1, l) = content
    BY <1>2, <1>4
<1> QED
    BY <1>2, <1>3, <1>5 DEF Prefix, l, L, N

LEMMA ConcatIs ==
    ASSUME NEW X, NEW p \in Seq(X), NEW s \in Seq(X)
    PROVE  /\ p \o s \in Seq(X) /\ Len(p \o s) = Len(p) + Len(s)
           /\ \A i \in 1..(Len(p) + Len(s)) :
                 (p \o s)[i] = IF i <= Len(p) THEN p[i] ELSE s[i - Len(p)]
    OBVIOUS

LEMMA SameSeq ==
    ASSUME NEW X, NEW p \in Seq(X), NEW q \in Seq(X), Len(p) = Len(q),
           \A i \in 1..Len(p) : p[i] = q[i]
    PROVE  p = q
<1>1. p = [i \in 1..Len(p) |-> p[i]]
    OBVIOUS
<1>2. q = [i \in 1..Len(q) |-> q[i]]
    OBVIOUS
<1> QED
    BY <1>1, <1>2

\* A next segment is put after previous ones.
LEMMA PrefixNext ==
    ASSUME NEW X, NEW content \in Seq(X), NEW k \in 1..NumOfSegs(Len(content))
    PROVE  Prefix(content, k - 1) \o SegmentOf(content, k) = Prefix(content, k)
<1> DEFINE L == Len(content)
           N == NumOfSegs(L)
           A == SegLen * (k - 1)
           B == Least(SegLen * k, L)
           p == Prefix(content, k - 1)
           seg == SegmentOf(content, k)
           q == Prefix(content, k)
<1>1. L \in Nat /\ N \in Nat /\ k \in 1..N
  <2>1. L \in Nat
      OBVIOUS
  <2> QED
      BY <2>1, SegmentsOf
<1>2. A \in Nat /\ B \in Nat /\ A < B /\ A < L
    BY <1>1, SegmentBounds
<1>3. p \in Seq(X) /\ Len(p) = A /\ \A i \in 1..A : p[i] = content[i]
  <2>1. k - 1 \in 0..N
      BY <1>1
  <2>2. Least(SegLen * (k - 1), L) = A
      BY <1>1, <1>2 DEF Least
  <2> QED
      BY <2>1, <2>2, PrefixIs
<1>4. seg \in Seq(X) /\ Len(seg) = B - A /\ \A i \in 1..(B - A) : seg[i] = content[A + i]
    BY <1>1, SegmentBytes
<1>5. q \in Seq(X) /\ Len(q) = B /\ \A i \in 1..B : q[i] = content[i]
  <2>1. k \in 0..N
      BY <1>1
  <2> QED
      BY <2>1, PrefixIs
<1> HIDE DEF A, B, p, q, seg
<1>6. p \o seg \in Seq(X) /\ Len(p \o seg) = B
      /\ \A i \in 1..B : (p \o seg)[i] = IF i <= A THEN p[i] ELSE seg[i - A]
  <2>1. Len(p) + Len(seg) = B
      BY <1>2, <1>3, <1>4
  <2> QED
      BY <1>3, <1>4, <2>1, ConcatIs
<1>7. ASSUME NEW i \in 1..B
      PROVE  (p \o seg)[i] = q[i]
  <2>1. CASE i <= A
    <3>1. i \in 1..A
        BY <1>2, <2>1
    <3>2. (p \o seg)[i] = p[i]
        BY <1>6, <2>1, Zenon
    <3>3. p[i] = content[i] /\ q[i] = content[i]
        BY <1>3, <1>5, <3>1, Zenon
    <3> QED
        BY <3>2, <3>3, Zenon
  <2>2. CASE ~(i <= A)
    <3>1. i - A \in 1..(B - A) /\ A + (i - A) = i
        BY <1>2, <2>2
    <3>2. (p \o seg)[i] = seg[i - A]
        BY <1>6, <2>2, Zenon
    <3>3. seg[i - A] = content[A + (i - A)] /\ q[i] = content[i]
        BY <1>4, <1>5, <3>1, Zenon
    <3> QED
        BY <3>1, <3>2, <3>3, Zenon
  <2> QED
      BY <2>1, <2>2
<1>8. p \o seg = q
  <2> DEFINE ps == p \o seg
  <2>1. ps \in Seq(X) /\ Len(ps) = Len(q) /\ \A i \in 1..Len(ps) : ps[i] = q[i]
      BY <1>5, <1>6, <1>7
  <2> HIDE DEF ps
  <2>2. ps = q
      BY <1>5, <2>1, SameSeq
  <2> QED
      BY <2>2 DEF ps
<1> QED
    BY <1>8 DEF p, seg, q

LEMMA FlattenSegments ==
    ASSUME NEW X, NEW content \in Seq(X), NEW m \in 1..NumOfSegs(Len(content))
    PROVE  /\ Segments(content, m) \in Seq(Seq(X)) /\ Segments(content, m) # <<>>
           /\ FlattenSeq(Segments(content, m)) = Prefix(content, m)
<1> DEFINE L == Len(content)
           N == NumOfSegs(L)
           q == Segments(content, m)
<1>1. L \in Nat /\ N \in Nat /\ m \in 1..N
  <2>1. L \in Nat
      OBVIOUS
  <2> QED
      BY <2>1, SegmentsOf
<1>2. /\ q \in Seq(Seq(X)) /\ q # <<>> /\ Len(q) = m
      /\ \A k \in 1..m : q[k] = SegmentOf(content, k)
  <2>1. \A k \in 1..m : SegmentOf(content, k) \in Seq(X)
      BY <1>1, SegmentBytes
  <2>2. m \in Nat /\ q = [k \in 1..m |-> q[k]] /\ \A k \in 1..m : q[k] = SegmentOf(content, k)
      BY <1>1 DEF Segments
  <2> HIDE DEF q
  <2>3. q \in Seq(Seq(X))
      BY <2>1, <2>2, SeqIs
  <2>4. Len(q) = m /\ q # <<>>
      BY <1>1, <2>2
  <2> QED
      BY <2>2, <2>3, <2>4
<1>3. PICK f : /\ f[1] = q[1] /\ \A k \in 2..Len(q) : f[k] = f[k - 1] \o q[k]
               /\ FlattenSeq(q) = f[Len(q)]
    BY <1>2, FlattenSteps
<1> HIDE DEF q
<1> DEFINE S == {k \in Nat : k + 1 <= m => f[k + 1] = Prefix(content, k + 1)}
<1>4. 0 \in S
  <2>1. Prefix(content, 0) = <<>>
      <3>1. SegLen * 0 = 0 /\ Least(SegLen * 0, L) = 0
          BY <1>1, SegLenAssumption DEF Least
      <3> QED
          BY <3>1 DEF Prefix
  <2>2. SegmentOf(content, 1) \in Seq(X) /\ 1 \in 1..N /\ 1 - 1 = 0
      BY <1>1, SegmentBytes
  <2>3. <<>> \o SegmentOf(content, 1) = SegmentOf(content, 1)
      BY <2>2
  <2>4. Prefix(content, 1) = SegmentOf(content, 1)
      BY <2>1, <2>2, <2>3, PrefixNext
  <2>5. f[1] = SegmentOf(content, 1)
      BY <1>1, <1>2, <1>3
  <2> QED
      BY <2>4, <2>5
<1>5. ASSUME NEW k \in Nat, k \in S
      PROVE  k + 1 \in S
  <2> SUFFICES ASSUME (k + 1) + 1 <= m
               PROVE  f[(k + 1) + 1] = Prefix(content, (k + 1) + 1)
      OBVIOUS
  <2> DEFINE j == (k + 1) + 1
  <2>1. j \in 1..N /\ j \in 2..m /\ j - 1 = k + 1 /\ j \in 1..m /\ f[k + 1] = Prefix(content, k + 1)
      BY <1>1, <1>5
  <2> HIDE DEF j
  <2>2. f[j] = f[j - 1] \o q[j]
      BY <1>2, <1>3, <2>1
  <2>3. q[j] = SegmentOf(content, j)
      BY <1>2, <2>1
  <2>4. Prefix(content, j - 1) \o SegmentOf(content, j) = Prefix(content, j)
      BY <2>1, PrefixNext
  <2>5. f[j] = Prefix(content, j)
      BY <2>1, <2>2, <2>3, <2>4
  <2> QED
      BY <2>5 DEF j
<1>6. Nat \subseteq S
  <2> HIDE DEF S
  <2> QED
      BY <1>4, <1>5, Induction
<1>7. f[m] = Prefix(content, m)
  <2>1. m - 1 \in S /\ (m - 1) + 1 = m
      BY <1>1, <1>6
  <2> QED
      BY <2>1
<1> QED
    BY <1>2, <1>3, <1>7 DEF q

LEMMA LeftSegments ==
    ASSUME NEW content, NEW m \in Nat
    PROVE  m \div 2 \in 0..m /\ Left(Segments(content, m)) = Segments(content, m \div 2)
<1> DEFINE h == m \div 2
           q == Segments(content, m)
<1>1. h \in 0..m
    OBVIOUS
<1>2. Len(q) = m /\ \A i \in 1..m : q[i] = SegmentOf(content, i)
    BY DEF Segments
<1> HIDE DEF h, q
<1>3. SubSeq(q, 1, h) = [i \in 1..h |-> q[i]]
    BY <1>1, <1>2
<1>4. Left(q) = SubSeq(q, 1, h)
    BY <1>2 DEF Left, h
<1>5. [i \in 1..h |-> q[i]] = [i \in 1..h |-> SegmentOf(content, i)]
    BY <1>1, <1>2
<1> QED
    BY <1>1, <1>3, <1>4, <1>5 DEF h, q, Segments

\* A sender of an object of one chunk takes everything, that its buffer has.
LEMMA SenderTakes ==
    ASSUME NEW X, NEW content \in Seq(X), NEW m \in 0..NumOfSegs(Len(content)),
           NEW b, b.queue = Segments(content, m), b.len \in Int, b.len <= SendChunk
    PROVE  LET g == GetBytes(b, 0, SendChunk)
           IN \/ (b.len < 0 \/ m = 0) /\ g.out = None
              \/ /\ b.len >= 0 /\ m > 0
                 /\ g.out = Prefix(content, m) /\ g.buf.queue = Segments(content, m \div 2)
                 /\ g.buf.len = b.len - Len(Prefix(content, m)) /\ m \div 2 \in 0..m
<1> DEFINE g == GetBytes(b, 0, SendChunk)
<1>1. m \in Nat /\ (m > 0 => m \in 1..NumOfSegs(Len(content)))
  <2>1. NumOfSegs(Len(content)) \in Nat
      BY SegmentsOf
  <2> QED
      BY <2>1
<1>2. CASE b.len < 0 \/ m = 0
  <2>1. m = 0 => b.queue = <<>>
      BY DEF Segments
  <2>2. g = [out |-> None, buf |-> b]
      BY <1>2, <2>1 DEF GetBytes
  <2>3. g.out = None
      BY <2>2
  <2> QED
      BY <1>2, <2>3
<1>3. CASE ~(b.len < 0 \/ m = 0)
  <2>1. b.len >= 0 /\ m > 0
      BY <1>1, <1>3
  <2>2. b.queue # <<>> /\ FlattenSeq(b.queue) = Prefix(content, m)
      BY <1>1, <2>1, FlattenSegments
  <2>3. g = ExtractAll(b)
      BY <2>1, <2>2 DEF GetBytes
  <2>4. g = [out |-> FlattenSeq(b.queue),
             buf |-> [queue |-> Left(b.queue), len |-> b.len - Len(FlattenSeq(b.queue))]]
      BY <2>3, Zenon DEF ExtractAll
  <2> HIDE DEF g
  <2>5. /\ g.out = Prefix(content, m) /\ g.buf.queue = Segments(content, m \div 2)
        /\ g.buf.len = b.len - Len(Prefix(content, m)) /\ m \div 2 \in 0..m
      BY <1>1, <2>2, <2>4, LeftSegments
  <2> QED
      BY <2>1, <2>5 DEF g
<1> QED
    BY <1>2, <1>3

LEMMA SeqElem ==
    ASSUME NEW S, NEW w \in Seq(S), NEW i \in 1..Len(w)
    PROVE  w[i] \in S
    OBVIOUS

LEMMA OneIs ==
    ASSUME NEW w \in Seq(Nat), Len(w) = 1
    PROVE  w[1] \in Nat /\ w = <<w[1]>>
<1>1. w[1] \in Nat
  <2>1. 1 \in 1..Len(w)
      OBVIOUS
  <2> QED
      BY <2>1, SeqElem, Zenon
<1>2. <<w[1]>> \in Seq(Nat) /\ Len(<<w[1]>>) = 1 /\ <<w[1]>>[1] = w[1]
    BY <1>1
<1> QED
    BY <1>1, <1>2, SameSeq

LEMMA OneChunk ==
    ASSUME NEW D, NEW file, file = [i \in D |-> file[i]], NEW body, NEW n \in Nat
    PROVE  Written(file, body, <<n>>) = Write(file, SubSeq(body, 1, n))
<1> DEFINE writes == <<n>>
<1>1. Len(writes) = 1 /\ writes[1] = n /\ SubSeq(writes, 1, 0) = <<>>
    OBVIOUS
<1>5. writes \in Seq(Nat)
    OBVIOUS
<1> HIDE DEF writes
<1>2. PICK a : /\ a[0] = file
               /\ \A k \in 1..Len(writes) : a[k] = Write(a[k - 1], Chunk(body, writes, k))
               /\ Written(file, body, writes) = a[Len(writes)]
    BY <1>5, WrittenSteps
<1>3. Written(file, body, writes) = Write(file, Chunk(body, writes, 1))
    BY <1>1, <1>2
<1>4. Chunk(body, writes, 1) = SubSeq(body, 1, n)
  <2>1. 1 - 1 = 0 /\ 0 + 1 = 1 /\ 0 + n = n
      OBVIOUS
  <2>2. Total(SubSeq(writes, 1, 1 - 1)) = 0
      BY <1>1, <2>1, TotalOfFew
  <2> QED
      BY <1>1, <2>1, <2>2 DEF Chunk
<1> QED
    BY <1>3, <1>4 DEF writes

\* A body, all bytes of which come in one write, is put at a start of a file.
LEMMA OneWrite ==
    ASSUME NEW Y, NEW file \in Seq(Y), NEW body, IsSeq(body),
           NEW writes \in Seq(Nat), Len(writes) = 1, Total(writes) = Len(body)
    PROVE  Written(file, body, writes) = Write(file, body)
<1>1. PICK n \in Nat : writes = <<n>>
    BY OneIs
<1>2. n = Len(body)
    BY <1>1, TotalOfFew
<1>3. file = [i \in 1..Len(file) |-> file[i]]
    OBVIOUS
<1>4. Written(file, body, <<n>>) = Write(file, SubSeq(body, 1, n))
  <2> DEFINE D == 1..Len(file)
  <2>1. file = [i \in D |-> file[i]]
      BY <1>3
  <2> HIDE DEF D
  <2> QED
      BY <2>1, OneChunk
<1>5. SubSeq(body, 1, Len(body)) = body
    BY DEF IsSeq
<1> QED
    BY <1>1, <1>2, <1>4, <1>5

\* A content, or a part of it, that is put at a start.
LEMMA WriteContent ==
    ASSUME NEW X, NEW content \in Seq(X), NEW Y, NEW file \in Seq(Y), Len(file) = Len(content)
    PROVE  /\ Write(file, content) = content
           /\ \A m \in 0..NumOfSegs(Len(content)) : Write(content, Prefix(content, m)) = content
<1>1. /\ content = [i \in 1..Len(content) |-> content[i]] /\ Len(content) \in Nat
      /\ DOMAIN content = 1..Len(content) /\ DOMAIN file = 1..Len(content)
    OBVIOUS
<1>2. Write(file, content) = content
    BY <1>1 DEF Write
<1>3. ASSUME NEW m \in 0..NumOfSegs(Len(content))
      PROVE  Write(content, Prefix(content, m)) = content
  <2> DEFINE p == Prefix(content, m)
  <2>1. Len(p) \in 0..Len(content) /\ \A i \in 1..Len(p) : p[i] = content[i]
      BY PrefixIs
  <2> HIDE DEF p
  <2>2. Write(content, p) = content
      BY <1>1, <2>1 DEF Write
  <2> QED
      BY <2>2 DEF p
<1> QED
    BY <1>2, <1>3

\* A save, that may end with an object, stored as a whole.
ToBeWhole ==
    /\ save.st \in {"header", "sending", "sent"} /\ save.whole
    /\ Len(Content(Len(saves))) <= SendChunk

\* Nothing is sent, or the first body has everything, or everything is in a file
\* already, and next bodies only repeat a start of it.
SentAtOnce(content) ==
    /\ save.src.buf.len \in Int /\ save.src.buf.len <= SendChunk
    /\ Len(draft) = Len(content)
    /\ \E m \in 0..NumOfSegs(Len(content)) :
          /\ save.src.buf.queue = Segments(content, m)
          /\ \/ /\ save.st # "sent" /\ m = NumOfSegs(Len(content))
                /\ save.src.buf.len = Len(content)
             \/ save.st = "sent" /\ save.body = content
             \/ save.st # "sent" /\ draft = content
             \/ /\ save.st = "sent" /\ draft = content
                /\ \E j \in 0..NumOfSegs(Len(content)) : save.body = Prefix(content, j)

WholeInv == SavesInv /\ (ToBeWhole => SentAtOnce(Content(Len(saves)))) /\ StoredIsWhole

\* Stored versions stay, whatever else is done.
LEMMA StoredStays ==
    ASSUME SavesInv, StoredIsWhole, Extends(saves, saves'), Extends(objs, objs'), objs' = objs
    PROVE  StoredIsWhole'
<1>1. ASSUME NEW v \in DOMAIN objs
      PROVE  Content(objs[v].id)' = Content(objs[v].id)
  <2>1. v \in 1..Len(objs)
      BY DEF SavesInv, Stored, IsSeq
  <2>2. /\ objs[v].id \in 1..Len(saves) /\ \A k \in 1..Len(saves) : Content(k)' = Content(k)
      BY <2>1, VersionStays
  <2>3. PICK k \in 1..Len(saves) : k = objs[v].id
      BY <2>2
  <2>4. Content(k)' = Content(k)
      BY <2>2
  <2>5. Content(objs[v].id)' = Content(k)'
      BY <2>3 DEF Content
  <2> QED
      BY <2>3, <2>4, <2>5
<1> QED
    BY <1>1 DEF StoredIsWhole

\* Content of the current save.
LEMMA LastContent ==
    ASSUME SavesInv, save.st # "idle"
    PROVE  /\ Content(Len(saves)) \in Seq(Nat \X Nat)
           /\ Len(saves) \in 1..Len(saves)
<1>1. Len(saves) \in 1..Len(saves)
    BY DEF SavesInv, Sending
<1>2. PICK k \in 1..Len(saves) : k = Len(saves)
    BY <1>1
<1>3. Content(k) \in Seq({k} \X Nat)
    BY ContentIs DEF SavesInv
<1>4. {k} \X Nat \subseteq Nat \X Nat
    OBVIOUS
<1> DEFINE A == {k} \X Nat
           B == Nat \X Nat
<1>5. Content(k) \in Seq(A) /\ A \subseteq B
    BY <1>3, <1>4
<1> HIDE DEF A, B
<1>6. Content(k) \in Seq(B)
    BY <1>5
<1> QED
    BY <1>1, <1>2, <1>6 DEF B

\* Content of the current save may be named, to be spoken of in a next state.
LEMMA NextWhole ==
    ASSUME SavesInv', NEW c, Content(Len(saves))' = c, ToBeWhole' => SentAtOnce(c)',
           StoredIsWhole'
    PROVE  WholeInv'
<1>1. ASSUME ToBeWhole'
      PROVE  SentAtOnce(Content(Len(saves)))'
  <2>1. SentAtOnce(c)'
      BY <1>1
  <2> QED
      BY <2>1 DEF SentAtOnce
<1> QED
    BY <1>1 DEF WholeInv

LEMMA SaveIsWhole ==
    ASSUME WholeInv, NEW arrs \in Arrays, Save(arrs), SavesInv',
           Extends(saves, saves'), Extends(objs, objs')
    PROVE  WholeInv'
<1> DEFINE k == Len(saves) + 1
<1>0. PICK content : content = [i \in 1..Total(arrs) |-> <<k, i>>]
    OBVIOUS
<1> DEFINE src == PackedPipe(content)
<1>1. /\ saves' = Append(saves, arrs) /\ objs' = objs
      /\ save' = [st |-> "header", src |-> src, body |-> None, sent |-> 0, whole |-> TRUE]
      /\ draft' = [i \in 1..src.total |-> Zero]
    BY <1>0 DEF Save
<1>2. Content(Len(saves))' = content
  <2>1. Len(saves') = k /\ saves'[k] = arrs
    <3>1. IsSeq(saves)
        BY DEF WholeInv, SavesInv, IsSeq
    <3> QED
        BY <1>1, <3>1, AppendIs
  <2> QED
      BY <1>0, <2>1 DEF Content
<1>3. content \in Seq(Nat \X Nat)
  <2>1. save'.st # "idle"
      BY <1>1
  <2>2. (Content(Len(saves)) \in Seq(Nat \X Nat))'
    <3>1. (SavesInv /\ save.st # "idle" => Content(Len(saves)) \in Seq(Nat \X Nat))'
        BY LastContent, PTL
    <3> QED
        BY <2>1, <3>1
  <2> QED
      BY <1>2, <2>2
<1>4. /\ src.buf.queue = Segments(content, NumOfSegs(Len(content)))
      /\ src.buf.len = Len(content) /\ src.total = Len(content)
      /\ Len(content) \in Nat /\ NumOfSegs(Len(content)) \in Nat
    BY <1>3, PackedPipeIs, SegmentsOf
<1> HIDE DEF src
<1>5. Len(draft') = Len(content)
  <2> DEFINE n == src.total
  <2>1. n \in Nat /\ n = Len(content) /\ draft' = [i \in 1..n |-> Zero]
      BY <1>1, <1>4
  <2> HIDE DEF n
  <2> QED
      BY <2>1
<1>6. ToBeWhole' => SentAtOnce(content)'
  <2> SUFFICES ASSUME ToBeWhole'
               PROVE  SentAtOnce(content)'
      OBVIOUS
  <2>1. Len(content) <= SendChunk
      BY <1>2 DEF ToBeWhole
  <2>2. save'.st = "header" /\ save'.src = src
      BY <1>1
  <2> QED
      BY <1>4, <1>5, <2>1, <2>2 DEF SentAtOnce
<1>7. StoredIsWhole'
    BY <1>1, StoredStays DEF WholeInv
<1> QED
    BY <1>2, <1>6, <1>7, NextWhole

\* A current save goes on, with the same content.
LEMMA SameContent ==
    ASSUME WholeInv, save.st # "idle", saves' = saves, NEW c, c = Content(Len(saves))
    PROVE  /\ Content(Len(saves))' = c /\ c \in Seq(Nat \X Nat)
           /\ Len(c) \in Nat /\ NumOfSegs(Len(c)) \in Nat
           /\ (save.whole /\ save.st # "hung" /\ Len(c) <= SendChunk => SentAtOnce(c))
<1>1. Content(Len(saves))' = c
    BY DEF Content
<1>2. c \in Seq(Nat \X Nat)
    BY LastContent DEF WholeInv
<1>3. Len(c) \in Nat
    BY <1>2
<1>4. NumOfSegs(Len(c)) \in Nat
    BY <1>3, SegmentsOf
<1>5. save.whole /\ save.st # "hung" /\ Len(c) <= SendChunk => SentAtOnce(c)
    BY DEF WholeInv, ToBeWhole, SavesInv, Sending
<1> QED
    BY <1>1, <1>2, <1>3, <1>4, <1>5

LEMMA ReplyIsWhole ==
    ASSUME WholeInv, HeaderSaved \/ SendFails, SavesInv',
           Extends(saves, saves'), Extends(objs, objs')
    PROVE  WholeInv'
<1>1. /\ save.st # "idle" /\ UNCHANGED <<saves, draft, objs>>
      /\ \/ save' = [save EXCEPT !.st = "sending"] /\ save.st = "header"
         \/ save' = [save EXCEPT !.st = "idle"]
    BY DEF HeaderSaved, SendFails
<1>2. /\ \A f \in {"src", "body", "whole"} : save'[f] = save[f]
      /\ \/ save'.st = "sending" /\ save.st = "header"
         \/ save'.st = "idle"
    BY <1>1 DEF WholeInv, SavesInv, Sending
<1>3. PICK c : c = Content(Len(saves))
    OBVIOUS
<1>4. /\ Content(Len(saves))' = c
      /\ (save.whole /\ save.st # "hung" /\ Len(c) <= SendChunk => SentAtOnce(c))
    BY <1>1, <1>3, SameContent
<1>5. ToBeWhole' => SentAtOnce(c)'
  <2> SUFFICES ASSUME ToBeWhole'
               PROVE  SentAtOnce(c)'
      OBVIOUS
  <2>1. save'.st = "sending" /\ save.st = "header" /\ save.whole /\ Len(c) <= SendChunk
      BY <1>2, <1>4 DEF ToBeWhole
  <2>2. SentAtOnce(c)
      BY <1>4, <2>1
  <2> QED
      BY <1>1, <1>2, <2>1, <2>2 DEF SentAtOnce
<1>6. StoredIsWhole'
    BY <1>1, StoredStays DEF WholeInv
<1> QED
    BY <1>4, <1>5, <1>6, NextWhole

LEMMA SendIsWhole ==
    ASSUME WholeInv, SendChunkOfSegments, SavesInv',
           Extends(saves, saves'), Extends(objs, objs')
    PROVE  WholeInv'
<1> DEFINE g == GetBytes(save.src.buf, 0, SendChunk)
<1>1. /\ save.st = "sending" /\ UNCHANGED <<saves, draft, objs>> /\ g.out # None
      /\ save' = [save EXCEPT !.st = "sent", !.body = g.out, !.src.buf = g.buf,
                              !.sent = @ + Len(g.out)]
    BY DEF SendChunkOfSegments
<1>2. /\ save'.st = "sent" /\ save'.body = g.out /\ save'.src.buf = g.buf
      /\ save'.whole = save.whole
  <2> HIDE DEF g
  <2>1. save'.src = [save.src EXCEPT !.buf = g.buf]
      BY <1>1 DEF WholeInv, SavesInv, Sending
  <2> QED
      BY <1>1, <2>1 DEF WholeInv, SavesInv, Sending
<1>3. PICK c : c = Content(Len(saves))
    OBVIOUS
<1>4. /\ Content(Len(saves))' = c /\ c \in Seq(Nat \X Nat)
      /\ Len(c) \in Nat /\ NumOfSegs(Len(c)) \in Nat
      /\ (save.whole /\ save.st # "hung" /\ Len(c) <= SendChunk => SentAtOnce(c))
    BY <1>1, <1>3, SameContent
<1>5. ToBeWhole' => SentAtOnce(c)'
  <2> SUFFICES ASSUME ToBeWhole'
               PROVE  SentAtOnce(c)'
      OBVIOUS
  <2> DEFINE b == save.src.buf
             N == NumOfSegs(Len(c))
  <2>1. SentAtOnce(c)
      BY <1>1, <1>2, <1>4 DEF ToBeWhole
  <2>2. b.len \in Int /\ b.len <= SendChunk /\ Len(draft) = Len(c)
      BY <2>1 DEF SentAtOnce
  <2>3. PICK m \in 0..N :
            /\ b.queue = Segments(c, m)
            /\ \/ m = N /\ b.len = Len(c)
               \/ draft = c
      BY <1>1, <2>1 DEF SentAtOnce
  <2>4. /\ b.len >= 0 /\ m > 0
        /\ g.out = Prefix(c, m) /\ g.buf.queue = Segments(c, m \div 2)
        /\ g.buf.len = b.len - Len(Prefix(c, m)) /\ m \div 2 \in 0..m
    <3> HIDE DEF b
    <3> QED
        BY <1>1, <1>4, <2>2, <2>3, SenderTakes DEF b
  <2>5. Len(Prefix(c, m)) \in 0..Len(c) /\ (m = N => Prefix(c, m) = c)
      BY <1>4, <2>3, PrefixIs
  <2> HIDE DEF g, b, N
  <2>6. g.buf.len \in Int /\ g.buf.len <= SendChunk
    <3>1. \A x \in Int, y \in Nat : x <= SendChunk => x - y \in Int /\ x - y <= SendChunk
        BY ChunksAssumption
    <3>2. Len(Prefix(c, m)) \in Nat
        BY <1>4, <2>5
    <3> QED
        BY <2>2, <2>4, <3>1, <3>2
  <2>7. m \div 2 \in 0..N
      BY <1>4, <2>3, <2>4 DEF N
  <2>8. \/ save'.body = c
        \/ draft' = c /\ save'.body = Prefix(c, m)
      BY <1>1, <1>2, <2>3, <2>4, <2>5
  <2>9. /\ (save.src.buf.len)' = g.buf.len /\ (save.src.buf.queue)' = Segments(c, m \div 2)
        /\ Len(draft') = Len(c)
      BY <1>1, <1>2, <2>2, <2>4
  <2> DEFINE h == m \div 2
  <2>10. h \in 0..N /\ (save.src.buf.queue)' = Segments(c, h)
      BY <2>7, <2>9
  <2> HIDE DEF h
  <2> QED
      BY <1>2, <2>3, <2>6, <2>8, <2>9, <2>10 DEF SentAtOnce, N
<1>6. StoredIsWhole'
    BY <1>1, StoredStays DEF WholeInv
<1> QED
    BY <1>4, <1>5, <1>6, NextWhole

\* When nothing is left to send, everything is in a file.
LEMMA FinalizeIsWhole ==
    ASSUME WholeInv, Finalize, SavesInv', Extends(saves, saves'), Extends(objs, objs')
    PROVE  WholeInv'
<1> DEFINE g == GetBytes(save.src.buf, 0, SendChunk)
           o == [id |-> Len(saves), segs |-> draft, whole |-> save.whole]
<1>1. /\ save.st = "sending" /\ UNCHANGED <<saves, draft>> /\ g.out = None
      /\ objs' = Append(objs, o) /\ save' = [save EXCEPT !.st = "idle"]
    BY DEF Finalize
<1>2. save'.st = "idle"
    BY <1>1 DEF WholeInv, SavesInv, Sending
<1>3. PICK c : c = Content(Len(saves))
    OBVIOUS
<1>4. /\ Content(Len(saves))' = c /\ c \in Seq(Nat \X Nat)
      /\ Len(c) \in Nat /\ NumOfSegs(Len(c)) \in Nat
      /\ (save.whole /\ save.st # "hung" /\ Len(c) <= SendChunk => SentAtOnce(c))
    BY <1>1, <1>3, SameContent
<1>5. ASSUME save.whole, Len(c) <= SendChunk
      PROVE  draft = c
  <2> DEFINE b == save.src.buf
             N == NumOfSegs(Len(c))
  <2>1. SentAtOnce(c)
      BY <1>1, <1>4, <1>5
  <2>2. b.len \in Int /\ b.len <= SendChunk /\ Len(draft) = Len(c)
      BY <2>1 DEF SentAtOnce
  <2>3. PICK m \in 0..N :
            /\ b.queue = Segments(c, m)
            /\ \/ m = N /\ b.len = Len(c)
               \/ draft = c
      BY <1>1, <2>1 DEF SentAtOnce
  <2>4. CASE m = N /\ b.len = Len(c)
    <3>1. \/ b.len < 0 \/ m = 0
          \/ g.out = Prefix(c, m)
      <4> HIDE DEF b
      <4> QED
          BY <1>4, <2>2, <2>3, SenderTakes DEF b
    <3>2. Prefix(c, m) = c
        BY <1>4, <2>3, <2>4, PrefixIs
    <3>3. g.out # c
        BY <1>1, <1>4, NoneAssumption
    <3>4. N = 0
        BY <1>4, <2>4, <3>1, <3>2, <3>3
    <3>5. Len(c) = 0
        BY <1>4, <3>4, SegmentsOf
    <3>6. c = <<>>
        BY <1>4, <3>5
    <3>7. draft = <<>>
      <4>1. PICK Y : draft \in Seq(Y)
          BY DEF WholeInv, SavesInv, Stored, IsSeq
      <4> QED
          BY <2>2, <3>5, <4>1
    <3> QED
        BY <3>6, <3>7
  <2> QED
      BY <2>3, <2>4
<1>6. StoredIsWhole'
  <2> HIDE DEF o
  <2>1. /\ DOMAIN objs' = 1..(Len(objs) + 1) /\ objs'[Len(objs) + 1] = o
        /\ DOMAIN objs = 1..Len(objs) /\ Len(objs) \in Nat
    <3>1. IsSeq(objs)
        BY DEF WholeInv, SavesInv, Stored
    <3> QED
        BY <1>1, <3>1, AppendIs
  <2> SUFFICES ASSUME NEW v \in DOMAIN objs', objs'[v].whole,
                      Len(Content(objs[v].id)') <= SendChunk
               PROVE  objs'[v].segs = Content(objs[v].id)'
      BY DEF StoredIsWhole
  <2>2. CASE v \in 1..Len(objs)
    <3>1. /\ objs'[v] = objs[v] /\ objs[v].id \in 1..Len(saves)
          /\ \A k \in 1..Len(saves) : Content(k)' = Content(k)
        BY <2>2, VersionStays DEF WholeInv
    <3>2. PICK k \in 1..Len(saves) : k = objs[v].id
        BY <3>1
    <3>3. Content(objs[v].id)' = Content(k)
        BY <1>1, <3>1, <3>2 DEF Content
    <3> QED
        BY <2>1, <2>2, <3>1, <3>2, <3>3 DEF WholeInv, StoredIsWhole
  <2>3. CASE v = Len(objs) + 1
    <3>0. objs'[v] = o
        BY <2>1, <2>3
    <3>1. objs'[v].id = Len(saves) /\ objs'[v].segs = draft /\ objs'[v].whole = save.whole
      <4>1. o.id = Len(saves) /\ o.segs = draft /\ o.whole = save.whole
          BY DEF o
      <4> QED
          BY <3>0, <4>1
    <3>2. Content(objs[v].id)' = c
        BY <1>1, <1>3, <3>1 DEF Content
    <3> QED
        BY <1>5, <3>1, <3>2
  <2> QED
      BY <2>1, <2>2, <2>3
<1>7. ~ToBeWhole'
    BY <1>2 DEF ToBeWhole
<1> QED
    BY <1>4, <1>6, <1>7, NextWhole

\* The first body of a chunk, written at once, makes a file whole; next ones keep it.
LEMMA BodyIsWhole ==
    ASSUME WholeInv, save.st = "sent", NEW pieces \in Seq(Nat), BodyComes(pieces), SavesInv',
           Extends(saves, saves'), Extends(objs, objs')
    PROVE  WholeInv'
<1> DEFINE writes == Pump(pieces).writes
<1>1. /\ UNCHANGED <<saves, objs>> /\ draft' = Written(draft, save.body, writes)
      /\ Total(pieces) = Len(save.body)
      /\ save' = [save EXCEPT
                    !.st = IF Total(writes) = Total(pieces) THEN "sending" ELSE "hung",
                    !.whole = @ /\ Len(writes) = 1]
    BY DEF BodyComes, SaveObjChunk
<1>2. /\ save'.st = IF Total(writes) = Total(pieces) THEN "sending" ELSE "hung"
      /\ save'.whole = (save.whole /\ Len(writes) = 1) /\ save'.src = save.src
  <2> HIDE DEF writes
  <2> QED
      BY <1>1 DEF WholeInv, SavesInv, Sending
<1>3. PICK c : c = Content(Len(saves))
    OBVIOUS
<1>4. /\ Content(Len(saves))' = c /\ c \in Seq(Nat \X Nat)
      /\ Len(c) \in Nat /\ NumOfSegs(Len(c)) \in Nat
      /\ (save.whole /\ save.st # "hung" /\ Len(c) <= SendChunk => SentAtOnce(c))
    BY <1>1, <1>3, SameContent
<1>5. ToBeWhole' => SentAtOnce(c)'
  <2> SUFFICES ASSUME ToBeWhole'
               PROVE  SentAtOnce(c)'
      OBVIOUS
  <2> DEFINE N == NumOfSegs(Len(c))
  <2>1. /\ Len(writes) = 1 /\ Total(writes) = Len(save.body) /\ save'.st = "sending"
        /\ save.whole /\ Len(c) <= SendChunk
    <3> HIDE DEF writes
    <3>1. save'.st # "hung" /\ Len(c) <= SendChunk
        BY <1>4 DEF ToBeWhole
    <3>2. save'.whole
        BY Zenon DEF ToBeWhole
    <3>3. save.whole /\ Len(writes) = 1
        BY <1>2, <3>2, Zenon
    <3>4. Total(writes) = Total(pieces) /\ save'.st = "sending"
        BY <1>2, <3>1
    <3> QED
        BY <1>1, <3>1, <3>3, <3>4
  <2>2. SentAtOnce(c)
      BY <1>4, <2>1
  <2>3. PICK m \in 0..N :
            /\ save.src.buf.queue = Segments(c, m)
            /\ \/ save.body = c
               \/ draft = c /\ \E j \in 0..N : save.body = Prefix(c, j)
      BY <2>2 DEF SentAtOnce
  <2>4. PICK Y : draft \in Seq(Y)
      BY DEF WholeInv, SavesInv, Stored, IsSeq
  <2>5. writes \in Seq(Nat) /\ IsSeq(save.body)
      BY PumpType DEF WholeInv, SavesInv, Sending
  <2>6. Written(draft, save.body, writes) = Write(draft, save.body)
    <3> HIDE DEF writes
    <3> QED
        BY <2>1, <2>4, <2>5, OneWrite
  <2>7. Len(draft) = Len(c)
      BY <2>2 DEF SentAtOnce
  <2>8. draft' = c
    <3>1. Write(draft, c) = c /\ \A j \in 0..N : Write(c, Prefix(c, j)) = c
        BY <1>4, <2>4, <2>7, WriteContent
    <3> HIDE DEF N, writes
    <3> QED
        BY <1>1, <2>3, <2>6, <3>1
  <2> HIDE DEF writes
  <2> QED
      BY <1>2, <2>1, <2>2, <2>3, <2>8 DEF SentAtOnce
<1>6. StoredIsWhole'
    BY <1>1, StoredStays DEF WholeInv
<1> QED
    BY <1>4, <1>5, <1>6, NextWhole

LEMMA WholeSteps == WholeInv /\ [BytesNext]_bytesVars => WholeInv'
<1> SUFFICES ASSUME WholeInv, [BytesNext]_bytesVars
             PROVE  WholeInv'
    OBVIOUS
<1>1. SavesInv' /\ Extends(saves, saves') /\ Extends(objs, objs')
    BY SavesSteps DEF WholeInv
<1>2. ASSUME NEW arrs \in Arrays, Save(arrs)
      PROVE  WholeInv'
    BY <1>1, <1>2, SaveIsWhole
<1>3. CASE HeaderSaved \/ SendFails
    BY <1>1, <1>3, ReplyIsWhole
<1>4. CASE SendChunkOfSegments
    BY <1>1, <1>4, SendIsWhole
<1>5. CASE Finalize
    BY <1>1, <1>5, FinalizeIsWhole
<1>6. CASE BodyInOne \/ BodyInTwo
  <2>1. save.st = "sent" /\ \E pieces \in Seq(Nat) : BodyComes(pieces)
      BY <1>6, BodyPieces DEF WholeInv
  <2> QED
      BY <1>1, <2>1, BodyIsWhole
<1>7. CASE UNCHANGED saveVars
  <2>1. PICK c : c = Content(Len(saves))
      OBVIOUS
  <2>2. Content(Len(saves))' = c
      BY <1>7, <2>1 DEF saveVars, Content
  <2>3. ToBeWhole' => SentAtOnce(c)'
      BY <1>7, <2>1 DEF saveVars, WholeInv, ToBeWhole, SentAtOnce, Content
  <2>4. StoredIsWhole'
      BY <1>1, <1>7, StoredStays DEF saveVars, WholeInv
  <2> QED
      BY <1>1, <2>2, <2>3, <2>4, NextWhole
<1> QED
    BY <1>2, <1>3, <1>4, <1>5, <1>6, <1>7
    DEF BytesNext, bytesVars, Open, HeaderComes, SegmentsCome, GetFails, Read, ReadSegments

\* ObjBytes.StoredIsWhole, for the same.
THEOREM StoredIsWholeHolds == BytesSpec => []StoredIsWhole
<1>1. BytesInit => WholeInv
    BY InitSaves DEF BytesInit, WholeInv, ToBeWhole, StoredIsWhole
<1>2. WholeInv => StoredIsWhole
    BY DEF WholeInv
<1> QED
    BY <1>1, <1>2, WholeSteps, PTL DEF BytesSpec
====

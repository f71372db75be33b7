--------------------------- MODULE FsSavingProofs ---------------------------
(***************************************************************************)
(* Proofs about FsSaving for any files, changes, and number of failures:   *)
(* types, that no content is forgotten, and that content on the server     *)
(* never goes back.                                                        *)
(***************************************************************************)
EXTENDS FsSaving, SequenceTheorems, TLAPS

\* The queue has no repetitions, and has only objects with tasks.
QueueOK ==
    /\ \A i \in 1..Len(ordered) : InQueue(ordered[i])
    /\ \A i, j \in 1..Len(ordered) : ordered[i] = ordered[j] => i = j

\* A task in the queue always has the latest content.
Tasks == \A o \in Obj : InQueue(o) => byId[o].obj = o /\ byId[o].content = mem[o]

\* The folder lists files, and there is nothing of those that it does not list.
Uncreated ==
    /\ mem[Dir] \subseteq File
    /\ \A f \in File \ mem[Dir] : ~InQueue(f) /\ mem[f] = {}

\* While bytes are sent, transaction of this saveObj is the only one.
Process ==
    /\ stage \in {"start", "put", "cancel"} <=> cur # NoTask
    /\ stage \in {"put", "cancel"} => cur.obj \in locked /\ ~InFinals(cur.obj)

\* A finalization on its way holds the object.
Finalizing ==
    \A r \in finals : /\ r.obj \in locked
                      /\ \A q \in finals : q.obj = r.obj => q = r

\* Contents of an object grow from the server back to the application.
Grows ==
    /\ \A o \in Obj : stored[o] \subseteq mem[o]
    /\ cur # NoTask => /\ stored[cur.obj] \subseteq cur.content
                       /\ cur.content \subseteq mem[cur.obj]
    /\ \A r \in finals :
          /\ stored[r.obj] \subseteq r.content
          /\ r.content \subseteq mem[r.obj]
          /\ InSaving(r.obj) => r.content \subseteq cur.content

\* The inductive invariant.
IInv ==
    /\ TypeOK
    /\ QueueOK
    /\ Tasks
    /\ Uncreated
    /\ Process
    /\ Finalizing
    /\ Grows
    /\ NothingForgotten

-----------------------------------------------------------------------------
(* The queue                                                                *)

\* A merged task is new, when the one before it was, and is the later one in
\* everything else.
LEMMA MergedType ==
    ASSUME NEW old \in Task \cup {NoTask}, NEW task \in Task
    PROVE  /\ Merged(old, task) \in Task
           /\ Merged(old, task).obj = task.obj
           /\ Merged(old, task).content = task.content
BY DEF Merged, Task

\* An object gets in the queue once.
LEMMA QueuedKeeps ==
    ASSUME NEW queue \in Seq(Obj), NEW task \in Task, NEW Ids \in SUBSET Obj,
           task.obj \in Ids <=> InQueue(task.obj),
           \A i \in 1..Len(queue) : queue[i] \in Ids,
           \A i, j \in 1..Len(queue) : queue[i] = queue[j] => i = j
    PROVE  /\ Queued(task, queue) \in Seq(Obj)
           /\ \A i \in 1..Len(Queued(task, queue)) :
                 Queued(task, queue)[i] \in Ids \cup {task.obj}
           /\ \A i, j \in 1..Len(Queued(task, queue)) :
                 Queued(task, queue)[i] = Queued(task, queue)[j] => i = j
<1>1. CASE byId[task.obj] = NoTask
  <2>1. Queued(task, queue) = Append(queue, task.obj) /\ task.obj \notin Ids
    BY <1>1 DEF Queued, InQueue
  <2>2. task.obj \in Obj
    BY DEF Task
  <2>3. /\ Append(queue, task.obj) \in Seq(Obj)
        /\ Len(Append(queue, task.obj)) = Len(queue) + 1
        /\ \A i \in 1..Len(queue) : Append(queue, task.obj)[i] = queue[i]
        /\ Append(queue, task.obj)[Len(queue) + 1] = task.obj
    BY <2>2, AppendProperties
  <2>4. Len(queue) \in Nat
    BY LenProperties
  <2>5. \A i \in 1..(Len(queue) + 1) : i \in 1..Len(queue) \/ i = Len(queue) + 1
    BY <2>4
  <2> QED
    BY <2>1, <2>3, <2>4, <2>5
<1>2. CASE byId[task.obj] # NoTask
  BY <1>2 DEF Queued, InQueue
<1> QED
  BY <1>1, <1>2

\* What a step of doSavingIteratively does to the queue.
Taken(h) ==
    /\ InQueue(h) /\ byId[h].obj = h /\ byId[h].content = mem[h]
    /\ byId' = [byId EXCEPT ![h] = NoTask]
    /\ \/ cur' = byId[h] /\ stage' = "start" /\ failed' = failed
       \/ cur' = NoTask /\ stage' = "idle" /\ failed' = failed \cup {h}

LEMMA TakeTaskKeeps ==
    ASSUME IInv, TakeTask
    PROVE  /\ ordered' \in Seq(Obj)
           /\ byId' \in [Obj -> Task \cup {NoTask}]
           /\ stage' \in {"idle", "start"}
           /\ cur' \in Task \cup {NoTask}
           /\ failed' \subseteq Obj /\ failed \subseteq failed'
           /\ QueueOK'
           /\ \/ byId' = byId /\ cur' = NoTask /\ stage' = "idle" /\ failed' = failed
              \/ \E h \in Obj : Taken(h)
<1>1. CASE ordered = <<>>
  <2>1. /\ ordered' = ordered /\ byId' = byId /\ cur' = NoTask /\ stage' = "idle"
        /\ failed' = failed
    BY <1>1 DEF TakeTask
  <2> QED
    BY <2>1 DEF IInv, TypeOK, QueueOK, InQueue
<1>2. CASE ordered # <<>>
  <2> DEFINE h == Head(ordered)
  <2>1. ordered \in Seq(Obj) /\ Len(ordered) \in Nat /\ Len(ordered) # 0
    BY <1>2, EmptySeq, LenProperties DEF IInv, TypeOK
  <2>2. /\ Tail(ordered) \in Seq(Obj)
        /\ Len(Tail(ordered)) = Len(ordered) - 1
        /\ \A i \in 1..Len(Tail(ordered)) : Tail(ordered)[i] = ordered[i + 1]
    BY <1>2, <2>1, HeadTailProperties
  <2>3. h = ordered[1] /\ h \in Obj /\ InQueue(h)
    BY <1>2, <2>1, HeadTailProperties DEF IInv, QueueOK
  <2>4. byId[h] \in Task /\ byId[h].obj = h /\ byId[h].content = mem[h]
    BY <2>3 DEF IInv, TypeOK, Tasks, InQueue
  <2>5. ordered' = Tail(ordered) /\ byId' = [byId EXCEPT ![h] = NoTask]
    BY <1>2 DEF TakeTask, Shift
  <2>6. \A i \in 1..Len(ordered') : i + 1 \in 1..Len(ordered) /\ ordered'[i] = ordered[i + 1]
    BY <2>1, <2>2, <2>5
  <2>7. \A i \in 1..Len(ordered') : ordered'[i] \in Obj /\ ordered'[i] # h
    <3> SUFFICES ASSUME NEW i \in 1..Len(ordered')
                 PROVE  ordered'[i] \in Obj /\ ordered'[i] # h
      OBVIOUS
    <3>1. i + 1 \in 1..Len(ordered) /\ 1 \in 1..Len(ordered) /\ i + 1 # 1 /\ i \in Int
      BY <2>1, <2>2, <2>5
    <3>2. ordered[i + 1] # ordered[1]
      BY <3>1 DEF IInv, QueueOK
    <3>3. ordered[i + 1] \in Obj
      BY <2>1, <3>1, ElementOfSeq
    <3> QED
      BY <2>3, <2>6, <3>2, <3>3
  <2>8. QueueOK'
    <3>1. ASSUME NEW i \in 1..Len(ordered') PROVE byId'[ordered'[i]] # NoTask
      <4>1. byId[ordered'[i]] # NoTask
        BY <2>6 DEF IInv, QueueOK, InQueue
      <4>2. byId'[ordered'[i]] = byId[ordered'[i]]
        BY <2>5, <2>7 DEF IInv, TypeOK
      <4> QED
        BY <4>1, <4>2
    <3>2. ASSUME NEW i \in 1..Len(ordered'), NEW j \in 1..Len(ordered'), ordered'[i] = ordered'[j]
          PROVE  i = j
      <4>1. i + 1 = j + 1
        BY <2>6, <3>2 DEF IInv, QueueOK
      <4> QED
        BY <4>1, <2>1, <2>2, <2>5
    <3> QED
      BY <3>1, <3>2 DEF QueueOK, InQueue
  <2>9. \/ cur' = byId[h] /\ stage' = "start" /\ failed' = failed
        \/ cur' = NoTask /\ stage' = "idle" /\ failed' = failed \cup {h}
    BY <1>2 DEF TakeTask
  <2>10. Taken(h)
    BY <2>3, <2>4, <2>5, <2>9 DEF Taken
  <2>11. byId' \in [Obj -> Task \cup {NoTask}]
    BY <2>5 DEF IInv, TypeOK
  <2> QED
    BY <2>2, <2>3, <2>4, <2>5, <2>8, <2>9, <2>10, <2>11 DEF IInv, TypeOK
<1> QED
  BY <1>1, <1>2

-----------------------------------------------------------------------------
(* Calls of an application                                                  *)

LEMMA CreateFileKeeps ==
    ASSUME IInv, NEW f \in File, CreateFile(f)
    PROVE  IInv'
<1> DEFINE listing == mem[Dir] \cup {f}
           file    == NewTask(f, {}, TRUE, NoCall)
           folder  == NewTask(Dir, listing, FALSE, NoCall)
<1>1. /\ mem' = [mem EXCEPT ![Dir] = listing]
      /\ ordered' = Queued(folder, Queued(file, ordered))
      /\ byId' = [byId EXCEPT ![f] = file, ![Dir] = Merged(byId[Dir], folder)]
      /\ f \notin mem[Dir]
  <2>1. f # Dir
    BY NamesAssumption
  <2> QED
    BY <2>1 DEF CreateFile, IInv, TypeOK, Obj
<1>2. UNCHANGED <<told, cur, closing, serverVars, faults, failed>> /\ stage' = Flushed
  BY DEF CreateFile
<1>3. f \in Obj /\ Dir \in Obj /\ f # Dir
  BY NamesAssumption DEF Obj
<1>4. listing \in Content /\ {} \in Content /\ mem[Dir] \in Content
  BY <1>3 DEF IInv, TypeOK, Content
<1>5. /\ file \in Task /\ file.obj = f /\ file.content = {}
      /\ folder \in Task /\ folder.obj = Dir /\ folder.content = listing
  BY <1>3, <1>4 DEF NewTask, Task
<1>6. /\ Merged(byId[Dir], folder) \in Task
      /\ Merged(byId[Dir], folder).obj = Dir
      /\ Merged(byId[Dir], folder).content = listing
  <2>1. byId[Dir] \in Task \cup {NoTask}
    BY <1>3 DEF IInv, TypeOK
  <2> HIDE DEF folder
  <2> QED
    BY <1>5, <2>1, MergedType
<1>7. ~InQueue(f) /\ mem[f] = {}
  BY <1>1 DEF IInv, Uncreated
<1>8. /\ byId'[f] = file /\ byId'[Dir] = Merged(byId[Dir], folder)
      /\ \A o \in Obj \ {f, Dir} : byId'[o] = byId[o]
      /\ byId' \in [Obj -> Task \cup {NoTask}]
  BY <1>1, <1>3, <1>5, <1>6 DEF IInv, TypeOK
<1>9. /\ mem'[Dir] = listing /\ \A o \in Obj \ {Dir} : mem'[o] = mem[o]
      /\ mem' \in [Obj -> Content]
  BY <1>1, <1>3, <1>4 DEF IInv, TypeOK
<1>10. stage' \in {"idle", "next", "start", "put", "cancel"}
       /\ (stage' \in {"start", "put", "cancel"} <=> stage \in {"start", "put", "cancel"})
       /\ (stage' \in {"put", "cancel"} <=> stage \in {"put", "cancel"})
  BY <1>2 DEF Flushed, IInv, TypeOK
<1>11. ordered' \in Seq(Obj) /\ QueueOK'
  <2> DEFINE Ids == {o \in Obj : InQueue(o)}
             q   == Queued(file, ordered)
  <2>1. /\ \A i \in 1..Len(ordered) : ordered[i] \in Ids
        /\ \A i, j \in 1..Len(ordered) : ordered[i] = ordered[j] => i = j
        /\ ordered \in Seq(Obj)
    BY ElementOfSeq DEF IInv, TypeOK, QueueOK
  <2>2. /\ q \in Seq(Obj)
        /\ \A i \in 1..Len(q) : q[i] \in Ids \cup {f}
        /\ \A i, j \in 1..Len(q) : q[i] = q[j] => i = j
    <3>1. file.obj \in Ids <=> InQueue(file.obj)
      BY <1>3, <1>5
    <3> HIDE DEF q, Ids, file
    <3> QED
      BY <1>5, <2>1, <3>1, QueuedKeeps, Ids \in SUBSET Obj DEF q, Ids
  <2>3. /\ ordered' \in Seq(Obj)
        /\ \A i \in 1..Len(ordered') : ordered'[i] \in Ids \cup {f, Dir}
        /\ \A i, j \in 1..Len(ordered') : ordered'[i] = ordered'[j] => i = j
    <3>1. Ids \cup {f} \in SUBSET Obj /\ (folder.obj \in Ids \cup {f} <=> InQueue(folder.obj))
      BY <1>3, <1>5
    <3> DEFINE I == Ids \cup {f}
    <3>2. I \in SUBSET Obj /\ (folder.obj \in I <=> InQueue(folder.obj))
          /\ \A i \in 1..Len(q) : q[i] \in I
      BY <2>2, <3>1
    <3> HIDE DEF q, Ids, folder, I
    <3>3. /\ Queued(folder, q) \in Seq(Obj)
          /\ \A i \in 1..Len(Queued(folder, q)) : Queued(folder, q)[i] \in I \cup {folder.obj}
          /\ \A i, j \in 1..Len(Queued(folder, q)) :
                Queued(folder, q)[i] = Queued(folder, q)[j] => i = j
      BY <1>5, <2>2, <3>2, QueuedKeeps
    <3>4. ordered' = Queued(folder, q)
      BY <1>1 DEF q
    <3> QED
      BY <1>5, <3>3, <3>4 DEF I
  <2>4. \A o \in Ids \cup {f, Dir} : byId'[o] # NoTask
    BY <1>5, <1>6, <1>8, NoTaskAssumption DEF InQueue
  <2> QED
    BY <2>3, <2>4 DEF QueueOK, InQueue
<1>12. TypeOK'
  BY <1>2, <1>8, <1>9, <1>10, <1>11 DEF IInv, TypeOK, serverVars
<1>13. Tasks'
  BY <1>5, <1>6, <1>7, <1>8, <1>9 DEF IInv, Tasks, InQueue
<1>14. Uncreated'
  BY <1>3, <1>8, <1>9, NamesAssumption DEF IInv, Uncreated, InQueue, Obj
<1>15. Process' /\ Finalizing'
  BY <1>2, <1>10 DEF IInv, Process, Finalizing, InFinals, serverVars
<1>16. Grows'
  <2>1. \A o \in Obj : mem[o] \subseteq mem'[o]
    BY <1>9
  <2>2. UNCHANGED <<cur, stored, finals>>
    BY <1>2 DEF serverVars
  <2>3. \A r \in finals : r.obj \in Obj
    BY DEF IInv, TypeOK
  <2>4. cur # NoTask => cur.obj \in Obj
    BY DEF IInv, TypeOK, Task
  <2> QED
    BY <2>1, <2>2, <2>3, <2>4 DEF IInv, Grows, InSaving
<1>17. NothingForgotten'
  <2> SUFFICES ASSUME NEW o \in Created' \ failed'
               PROVE  LastIs(o, mem[o])'
    BY DEF NothingForgotten
  <2>1. o \in (Created \cup {f}) \ failed /\ o \in Obj
    BY <1>2, <1>3, <1>9 DEF Created, Uncreated, Obj, IInv
  <2>2. CASE o \in {f, Dir}
    <3>1. byId'[o] \in Task /\ byId'[o].content = mem'[o]
      <4>1. CASE o = f
        <5> HIDE DEF file, folder
        <5> QED
          BY <1>3, <1>5, <1>7, <1>8, <1>9, <4>1
      <4>2. CASE o = Dir
        <5> HIDE DEF file, folder, listing
        <5> QED
          BY <1>6, <1>8, <1>9, <4>2
      <4> QED
        BY <2>2, <4>1, <4>2
    <3> QED
      BY <3>1, NoTaskAssumption DEF LastIs, InQueue
  <2>3. CASE o \notin {f, Dir}
    <3>1. LastIs(o, mem[o])
      BY <2>1, <2>3 DEF IInv, NothingForgotten
    <3> QED
      BY <1>2, <1>8, <1>9, <2>1, <2>3, <3>1
        DEF LastIs, InQueue, InSaving, InFinals, serverVars
  <2> QED
    BY <2>2, <2>3
<1> QED
  BY <1>11, <1>12, <1>13, <1>14, <1>15, <1>16, <1>17 DEF IInv

LEMMA SaveFileKeeps ==
    ASSUME IInv, NEW f \in File, NEW c \in Change, SaveFile(f, c)
    PROVE  IInv'
<1> DEFINE task == NewTask(f, mem[f] \cup {c}, FALSE, c)
<1>1. f \in Obj /\ mem[f] \in Content /\ mem[f] \cup {c} \in Content
  BY DEF IInv, TypeOK, Obj, Content
<1>2. task \in Task /\ task.obj = f /\ task.content = mem[f] \cup {c}
  BY <1>1 DEF NewTask, Task
<1>3. /\ Merged(byId[f], task) \in Task
      /\ Merged(byId[f], task).obj = f
      /\ Merged(byId[f], task).content = mem[f] \cup {c}
  BY <1>1, <1>2, MergedType DEF IInv, TypeOK
<1>4. /\ mem' = [mem EXCEPT ![f] = mem[f] \cup {c}]
      /\ ordered' = Queued(task, ordered)
      /\ byId' = [byId EXCEPT ![f] = Merged(byId[f], task)]
      /\ f \in mem[Dir]
  BY <1>1, <1>2 DEF SaveFile, IInv, TypeOK
<1>5. UNCHANGED <<cur, closing, serverVars, faults, failed>> /\ stage' = Flushed
      /\ told' \in [Change -> {"none", "waiting", "resolved", "rejected"}]
  BY DEF SaveFile, IInv, TypeOK
<1>6. /\ byId'[f] = Merged(byId[f], task)
      /\ \A o \in Obj \ {f} : byId'[o] = byId[o]
      /\ byId' \in [Obj -> Task \cup {NoTask}]
  BY <1>1, <1>3, <1>4 DEF IInv, TypeOK
<1>7. /\ mem'[f] = mem[f] \cup {c} /\ \A o \in Obj \ {f} : mem'[o] = mem[o]
      /\ mem' \in [Obj -> Content] /\ mem'[Dir] = mem[Dir]
  BY <1>1, <1>4, NamesAssumption DEF IInv, TypeOK, Obj
<1>8. stage' \in {"idle", "next", "start", "put", "cancel"}
       /\ (stage' \in {"start", "put", "cancel"} <=> stage \in {"start", "put", "cancel"})
       /\ (stage' \in {"put", "cancel"} <=> stage \in {"put", "cancel"})
  BY <1>5 DEF Flushed, IInv, TypeOK
<1>9. ordered' \in Seq(Obj) /\ QueueOK'
  <2> DEFINE Ids == {o \in Obj : InQueue(o)}
  <2>1. /\ \A i \in 1..Len(ordered) : ordered[i] \in Ids
        /\ \A i, j \in 1..Len(ordered) : ordered[i] = ordered[j] => i = j
        /\ ordered \in Seq(Obj)
    BY ElementOfSeq DEF IInv, TypeOK, QueueOK
  <2>2. Ids \in SUBSET Obj /\ (task.obj \in Ids <=> InQueue(task.obj))
    BY <1>1, <1>2
  <2>3. /\ ordered' \in Seq(Obj)
        /\ \A i \in 1..Len(ordered') : ordered'[i] \in Ids \cup {f}
        /\ \A i, j \in 1..Len(ordered') : ordered'[i] = ordered'[j] => i = j
    <3>1. ordered' = Queued(task, ordered)
      BY <1>4
    <3> HIDE DEF task, Ids
    <3> QED
      BY <1>2, <2>1, <2>2, <3>1, QueuedKeeps
  <2>4. \A o \in Ids \cup {f} : byId'[o] # NoTask
    BY <1>3, <1>6, NoTaskAssumption DEF InQueue
  <2> QED
    BY <2>3, <2>4 DEF QueueOK, InQueue
<1>10. TypeOK'
  BY <1>5, <1>6, <1>7, <1>8, <1>9 DEF IInv, TypeOK, serverVars
<1>11. Tasks' /\ Uncreated'
  BY <1>3, <1>4, <1>6, <1>7 DEF IInv, Tasks, Uncreated, InQueue, Obj
<1>12. Process' /\ Finalizing'
  BY <1>5, <1>8 DEF IInv, Process, Finalizing, InFinals, serverVars
<1>13. Grows'
  <2>1. \A o \in Obj : mem[o] \subseteq mem'[o]
    BY <1>7
  <2>2. UNCHANGED <<cur, stored, finals>>
    BY <1>5 DEF serverVars
  <2>3. \A r \in finals : r.obj \in Obj
    BY DEF IInv, TypeOK
  <2>4. cur # NoTask => cur.obj \in Obj
    BY DEF IInv, TypeOK, Task
  <2> QED
    BY <2>1, <2>2, <2>3, <2>4 DEF IInv, Grows, InSaving
<1>14. NothingForgotten'
  <2> SUFFICES ASSUME NEW o \in Created' \ failed'
               PROVE  LastIs(o, mem[o])'
    BY DEF NothingForgotten
  <2>1. o \in Created \ failed
    BY <1>5, <1>7 DEF Created
  <2>2. CASE o = f
    BY <1>3, <1>6, <1>7, <2>2, NoTaskAssumption DEF LastIs, InQueue
  <2>3. CASE o # f
    <3>1. LastIs(o, mem[o]) /\ o \in Obj \ {f}
      BY <2>1, <2>3 DEF IInv, NothingForgotten, Created, Uncreated, Obj
    <3> QED
      BY <1>5, <1>6, <1>7, <3>1
        DEF LastIs, InQueue, InSaving, InFinals, serverVars
  <2> QED
    BY <2>2, <2>3
<1> QED
  BY <1>9, <1>10, <1>11, <1>12, <1>13, <1>14 DEF IInv

-----------------------------------------------------------------------------
(* Saving process                                                           *)

LEMMA ToldType ==
    ASSUME IInv, NEW answer \in {"resolved", "rejected"}, Told(answer)
    PROVE  told' \in [Change -> {"none", "waiting", "resolved", "rejected"}]
BY DEF IInv, TypeOK, Told

LEMMA BeginKeeps ==
    ASSUME IInv, Begin
    PROVE  IInv'
<1>1. UNCHANGED <<appVars, closing, serverVars, faults>> /\ TakeTask /\ cur = NoTask
  BY DEF Begin, IInv, Process
<1>2. /\ ordered' \in Seq(Obj)
      /\ byId' \in [Obj -> Task \cup {NoTask}]
      /\ stage' \in {"idle", "start"}
      /\ cur' \in Task \cup {NoTask}
      /\ failed' \subseteq Obj /\ failed \subseteq failed'
      /\ QueueOK'
      /\ \/ byId' = byId /\ cur' = NoTask /\ stage' = "idle" /\ failed' = failed
         \/ \E h \in Obj : Taken(h)
  BY <1>1, TakeTaskKeeps
<1>3. TypeOK'
  BY <1>1, <1>2 DEF IInv, TypeOK, appVars, serverVars
<1>4. CASE byId' = byId /\ cur' = NoTask /\ stage' = "idle" /\ failed' = failed
  BY <1>1, <1>2, <1>3, <1>4
    DEF IInv, Tasks, Uncreated, Process, Finalizing, Grows, NothingForgotten, Created,
        LastIs, InQueue, InSaving, InFinals, appVars, serverVars
<1>5. ASSUME NEW h \in Obj, Taken(h) PROVE IInv'
  <2>1. /\ byId'[h] = NoTask /\ \A o \in Obj \ {h} : byId'[o] = byId[o]
        /\ byId[h] \in Task /\ byId[h].obj = h /\ byId[h].content = mem[h]
    BY <1>5 DEF Taken, InQueue, IInv, TypeOK
  <2>2. Tasks' /\ Uncreated'
    BY <1>1, <2>1 DEF IInv, Tasks, Uncreated, InQueue, appVars, Obj
  <2>3. Process'
    BY <1>5, <2>1, NoTaskAssumption DEF Taken, Process
  <2>4. Finalizing'
    BY <1>1 DEF IInv, Finalizing, serverVars
  <2>5. Grows'
    <3>1. UNCHANGED <<mem, stored, finals>>
      BY <1>1 DEF appVars, serverVars
    <3>2. cur' # NoTask => cur'.obj = h /\ cur'.content = mem[h]
      BY <1>5, <2>1 DEF Taken
    <3> QED
      BY <3>1, <3>2 DEF IInv, Grows, InSaving
  <2>6. NothingForgotten'
    <3> SUFFICES ASSUME NEW o \in Created' \ failed' PROVE LastIs(o, mem[o])'
      BY DEF NothingForgotten
    <3>1. o \in Created \ failed /\ o \in Obj /\ mem' = mem
      BY <1>1, <1>2 DEF Created, IInv, Uncreated, Obj, appVars
    <3>2. LastIs(o, mem[o])
      BY <3>1 DEF IInv, NothingForgotten
    <3>3. CASE o = h
      <4>1. cur' = byId[h]
        BY <1>5, <3>3 DEF Taken
      <4> QED
        BY <2>1, <3>1, <3>3, <4>1, NoTaskAssumption DEF LastIs, InQueue, InSaving
    <3>4. CASE o # h
      <4>1. (InQueue(o)' <=> InQueue(o)) /\ byId'[o] = byId[o]
        BY <2>1, <3>1, <3>4 DEF InQueue
      <4>2. ~InSaving(o) /\ ~InSaving(o)'
        BY <1>1, <1>5, <2>1, <3>4 DEF InSaving, Taken
      <4>3. UNCHANGED <<finals, saved, stored>>
        BY <1>1 DEF serverVars
      <4> QED
        BY <3>1, <3>2, <4>1, <4>2, <4>3 DEF LastIs, InFinals
    <3> QED
      BY <3>3, <3>4
  <2> QED
    BY <1>2, <1>3, <2>2, <2>3, <2>4, <2>5, <2>6 DEF IInv
<1> QED
  BY <1>2, <1>4, <1>5

\* Any failure of saveObj: lock of no finalization is taken away.
LEMMA TaskFailsKeeps ==
    ASSUME IInv, cur # NoTask, TaskFails,
           UNCHANGED <<saved, stored, finals, sess>>,
           exists' \subseteq Obj, locked' \subseteq Obj, faults' \in 0..MaxFaults,
           \A r \in finals : r.obj \in locked'
    PROVE  IInv'
<1>1. /\ UNCHANGED <<mem, ordered, byId>>
      /\ stage' = "idle" /\ cur' = NoTask /\ failed' = failed \cup {cur.obj}
      /\ closing' \in {closing, "failed"}
  BY DEF TaskFails
<1>2. cur \in Task /\ cur.obj \in Obj
  BY DEF IInv, TypeOK, Task
<1>3. told' \in [Change -> {"none", "waiting", "resolved", "rejected"}]
  BY ToldType DEF TaskFails
<1>4. TypeOK'
  BY <1>1, <1>2, <1>3 DEF IInv, TypeOK
<1>5. QueueOK' /\ Tasks' /\ Uncreated' /\ Process' /\ Finalizing' /\ Grows'
  BY <1>1 DEF IInv, QueueOK, Tasks, Uncreated, Process, Finalizing, Grows,
              InQueue, InSaving, InFinals
<1>6. NothingForgotten'
  <2> SUFFICES ASSUME NEW o \in Created' \ failed' PROVE LastIs(o, mem[o])'
    BY DEF NothingForgotten
  <2>1. o \in Created \ failed /\ o # cur.obj
    BY <1>1 DEF Created
  <2>2. LastIs(o, mem[o])
    BY <2>1 DEF IInv, NothingForgotten
  <2> QED
    BY <1>1, <2>1, <2>2 DEF LastIs, InQueue, InSaving, InFinals
<1> QED
  BY <1>4, <1>5, <1>6 DEF IInv

LEMMA StartKeeps ==
    ASSUME IInv, StartTransaction \/ StartRefused \/ StartFails \/ StartLost
    PROVE  IInv'
<1>1. stage = "start" /\ cur # NoTask
  BY DEF IInv, Process, StartTransaction, StartRefused, StartFails, StartLost
<1>2. cur \in Task /\ cur.obj \in Obj
  BY <1>1 DEF IInv, TypeOK, Task
<1>3. \A r \in finals : r.obj \in locked
  BY DEF IInv, Finalizing
<1>4. CASE StartTransaction
  <2>1. /\ UNCHANGED <<appVars, ordered, byId, cur, closing, sess, saved, stored,
                       finals, faults, failed>>
        /\ locked' = locked \cup {cur.obj} /\ exists' = exists \cup {cur.obj}
        /\ stage' = "put" /\ cur.obj \notin locked
    BY <1>4 DEF StartTransaction, CanLock
  <2>2. TypeOK'
    BY <1>2, <2>1 DEF IInv, TypeOK, appVars
  <2>3. ~InFinals(cur.obj)
    BY <1>3, <2>1 DEF InFinals
  <2>4. Process' /\ Finalizing'
    BY <1>1, <2>1, <2>3 DEF IInv, Process, Finalizing, InFinals
  <2>5. QueueOK' /\ Tasks' /\ Uncreated' /\ Grows' /\ NothingForgotten'
    BY <2>1 DEF IInv, QueueOK, Tasks, Uncreated, Grows, NothingForgotten, Created,
                LastIs, InQueue, InSaving, InFinals, appVars
  <2> QED
    BY <2>2, <2>4, <2>5 DEF IInv
<1>5. CASE StartRefused
  <2>1. TaskFails /\ UNCHANGED <<serverVars, faults>>
    BY <1>5 DEF StartRefused
  <2>2. /\ UNCHANGED <<saved, stored, finals, sess>>
        /\ exists' \subseteq Obj /\ locked' \subseteq Obj /\ faults' \in 0..MaxFaults
        /\ \A r \in finals : r.obj \in locked'
    BY <1>3, <2>1 DEF serverVars, IInv, TypeOK
  <2> QED
    BY <1>1, <2>1, <2>2, TaskFailsKeeps
<1>6. CASE StartFails
  <2>1. TaskFails /\ UNCHANGED <<sess, exists, saved, stored, finals, faults>>
        /\ locked' = locked \cup {cur.obj}
    BY <1>6 DEF StartFails
  <2>2. /\ UNCHANGED <<saved, stored, finals, sess>>
        /\ exists' \subseteq Obj /\ locked' \subseteq Obj /\ faults' \in 0..MaxFaults
        /\ \A r \in finals : r.obj \in locked'
    BY <1>2, <1>3, <2>1 DEF IInv, TypeOK
  <2> QED
    BY <1>1, <2>1, <2>2, TaskFailsKeeps
<1>7. CASE StartLost
  <2>1. TaskFails /\ UNCHANGED <<sess, saved, stored, finals>> /\ Fault
        /\ (locked' = locked \/ locked' = locked \cup {cur.obj})
        /\ exists' \subseteq exists \cup {cur.obj}
    BY <1>7 DEF StartLost
  <2>2. /\ UNCHANGED <<saved, stored, finals, sess>>
        /\ exists' \subseteq Obj /\ locked' \subseteq Obj
        /\ \A r \in finals : r.obj \in locked'
    BY <1>2, <1>3, <2>1 DEF IInv, TypeOK
  <2>3. faults' \in 0..MaxFaults
    BY <2>1, FaultsAssumption DEF Fault, IInv, TypeOK
  <2> QED
    BY <1>1, <2>1, <2>2, <2>3, TaskFailsKeeps
<1> QED
  BY <1>4, <1>5, <1>6, <1>7

\* Finalization is sent, and the next task is taken.
LEMMA BytesSentKeeps ==
    ASSUME IInv, BytesSent
    PROVE  IInv'
<1> DEFINE r == [obj |-> cur.obj, content |-> cur.content]
<1>1. /\ stage = "put" /\ cur # NoTask /\ finals' = finals \cup {r}
      /\ UNCHANGED <<mem, closing, sess, exists, saved, stored, locked, faults>>
      /\ TakeTask /\ Told("resolved")
  BY DEF BytesSent, IInv, Process
<1>2. /\ ordered' \in Seq(Obj)
      /\ byId' \in [Obj -> Task \cup {NoTask}]
      /\ stage' \in {"idle", "start"}
      /\ cur' \in Task \cup {NoTask}
      /\ failed' \subseteq Obj /\ failed \subseteq failed'
      /\ QueueOK'
      /\ \/ byId' = byId /\ cur' = NoTask /\ stage' = "idle" /\ failed' = failed
         \/ \E h \in Obj : Taken(h)
  BY <1>1, TakeTaskKeeps
<1>3. /\ cur \in Task /\ cur.obj \in Obj /\ cur.content \in Content
      /\ r \in [obj : Obj, content : Content] /\ r.obj = cur.obj /\ r.content = cur.content
  BY <1>1 DEF IInv, TypeOK, Task
<1>4. cur.obj \in locked /\ \A q \in finals : q.obj # cur.obj
  BY <1>1 DEF IInv, Process, InFinals
<1>5. TypeOK'
  <2>1. told' \in [Change -> {"none", "waiting", "resolved", "rejected"}]
    BY <1>1, ToldType
  <2> HIDE DEF r
  <2> QED
    BY <1>1, <1>2, <1>3, <2>1 DEF IInv, TypeOK
<1>6. Finalizing'
  <2> HIDE DEF r
  <2> QED
    BY <1>1, <1>3, <1>4 DEF IInv, Finalizing
<1>7. /\ \A o \in Obj : stored[o] \subseteq mem[o]
      /\ \A q \in finals' : /\ q.obj \in Obj
                            /\ stored[q.obj] \subseteq q.content
                            /\ q.content \subseteq mem[q.obj]
  <2>1. \A q \in finals : q.obj \in Obj
    BY DEF IInv, TypeOK
  <2> HIDE DEF r
  <2> QED
    BY <1>1, <1>3, <2>1 DEF IInv, Grows
<1>8. CASE byId' = byId /\ cur' = NoTask /\ stage' = "idle" /\ failed' = failed
  <2>1. Tasks' /\ Uncreated' /\ Process' /\ Grows'
    BY <1>1, <1>2, <1>7, <1>8 DEF IInv, Tasks, Uncreated, Process, Grows, InQueue, InSaving
  <2>2. NothingForgotten'
    <3> SUFFICES ASSUME NEW o \in Created' \ failed' PROVE LastIs(o, mem[o])'
      BY DEF NothingForgotten
    <3>1. LastIs(o, mem[o]) /\ mem' = mem
      BY <1>1, <1>8 DEF IInv, NothingForgotten, Created
    <3>2. (InQueue(o)' <=> InQueue(o)) /\ byId' = byId /\ ~InSaving(o)'
      BY <1>8 DEF InQueue, InSaving
    <3>3. CASE o = cur.obj
      <4>1. InFinals(o)' /\ (\A q \in finals' : q.obj = o => q.content = cur.content)
        <5> HIDE DEF r
        <5> QED
          BY <1>1, <1>3, <1>4, <3>3 DEF InFinals
      <4>2. InSaving(o)
        BY <1>1, <3>3 DEF InSaving
      <4> QED
        BY <3>1, <3>2, <4>1, <4>2 DEF LastIs
    <3>4. CASE o # cur.obj
      <4>1. /\ InFinals(o)' <=> InFinals(o)
            /\ \A q \in finals' : q.obj = o => q \in finals
        <5> HIDE DEF r
        <5> QED
          BY <1>1, <1>3, <3>4 DEF InFinals
      <4>2. ~InSaving(o)
        BY <3>4 DEF InSaving
      <4> QED
        BY <1>1, <3>1, <3>2, <4>1, <4>2 DEF LastIs
    <3> QED
      BY <3>3, <3>4
  <2> QED
    BY <1>2, <1>5, <1>6, <2>1, <2>2 DEF IInv
<1>9. ASSUME NEW h \in Obj, Taken(h) PROVE IInv'
  <2>1. /\ byId'[h] = NoTask /\ \A o \in Obj \ {h} : byId'[o] = byId[o]
        /\ byId[h] \in Task /\ byId[h].obj = h /\ byId[h].content = mem[h]
        /\ InQueue(h)
        /\ cur' # NoTask => cur'.obj = h /\ cur'.content = mem[h]
    BY <1>9 DEF Taken, InQueue, IInv, TypeOK
  <2>2. Tasks' /\ Uncreated'
    BY <1>1, <2>1 DEF IInv, Tasks, Uncreated, InQueue, Obj
  <2>3. Process'
    BY <1>9, <2>1, NoTaskAssumption DEF Taken, Process
  <2>4. Grows'
    BY <1>1, <1>7, <2>1 DEF Grows, InSaving
  <2>5. NothingForgotten'
    <3> SUFFICES ASSUME NEW o \in Created' \ failed' PROVE LastIs(o, mem[o])'
      BY DEF NothingForgotten
    <3>1. o \in Created \ failed /\ o \in Obj /\ mem' = mem
      BY <1>1, <1>2 DEF Created, IInv, Uncreated, Obj
    <3>2. LastIs(o, mem[o])
      BY <3>1 DEF IInv, NothingForgotten
    <3>3. CASE o = h
      <4>1. cur' = byId[h]
        BY <1>9, <3>3 DEF Taken
      <4> QED
        BY <2>1, <3>1, <3>3, <4>1, NoTaskAssumption DEF LastIs, InQueue, InSaving
    <3>4. CASE o # h
      <4>1. (InQueue(o)' <=> InQueue(o)) /\ byId'[o] = byId[o] /\ ~InSaving(o)'
        BY <2>1, <3>1, <3>4 DEF InQueue, InSaving
      <4>2. CASE o = cur.obj
        <5>1. InFinals(o)' /\ (\A q \in finals' : q.obj = o => q.content = cur.content)
          <6> HIDE DEF r
          <6> QED
            BY <1>1, <1>3, <1>4, <4>2 DEF InFinals
        <5>2. InSaving(o)
          BY <1>1, <4>2 DEF InSaving
        <5> QED
          BY <3>1, <3>2, <4>1, <5>1, <5>2 DEF LastIs
      <4>3. CASE o # cur.obj
        <5>1. /\ InFinals(o)' <=> InFinals(o)
              /\ \A q \in finals' : q.obj = o => q \in finals
          <6> HIDE DEF r
          <6> QED
            BY <1>1, <1>3, <4>3 DEF InFinals
        <5>2. ~InSaving(o)
          BY <4>3 DEF InSaving
        <5> QED
          BY <1>1, <3>1, <3>2, <4>1, <5>1, <5>2 DEF LastIs
      <4> QED
        BY <4>2, <4>3
    <3> QED
      BY <3>3, <3>4
  <2> QED
    BY <1>2, <1>5, <1>6, <2>2, <2>3, <2>4, <2>5 DEF IInv
<1> QED
  BY <1>2, <1>8, <1>9

LEMMA CancelKeeps ==
    ASSUME IInv, BytesLost \/ CancelTransaction \/ CancelLost
    PROVE  IInv'
<1>1. \A r \in finals : r.obj \in locked
  BY DEF IInv, Finalizing
<1>2. faults' \in 0..MaxFaults
  BY FaultsAssumption DEF BytesLost, CancelTransaction, CancelLost, Fault, NoFault, IInv, TypeOK
<1>3. CASE BytesLost
  <2>1. /\ UNCHANGED <<appVars, ordered, byId, cur, closing, serverVars, failed>>
        /\ stage = "put" /\ stage' = "cancel"
    BY <1>3 DEF BytesLost
  <2>2. TypeOK'
    BY <1>2, <2>1 DEF IInv, TypeOK, appVars, serverVars
  <2>3. Process'
    BY <2>1 DEF IInv, Process, InFinals, serverVars
  <2>4. QueueOK' /\ Tasks' /\ Uncreated' /\ Finalizing' /\ Grows' /\ NothingForgotten'
    BY <2>1 DEF IInv, QueueOK, Tasks, Uncreated, Finalizing, Grows, NothingForgotten, Created,
                LastIs, InQueue, InSaving, InFinals, appVars, serverVars
  <2> QED
    BY <2>2, <2>3, <2>4 DEF IInv
<1>4. CASE CancelTransaction
  <2>1. /\ TaskFails /\ UNCHANGED <<sess, saved, stored, finals>>
        /\ stage = "cancel" /\ locked' = locked \ {cur.obj} /\ exists' \subseteq exists
    BY <1>4 DEF CancelTransaction
  <2>2. cur # NoTask /\ \A r \in finals : r.obj # cur.obj
    BY <2>1 DEF IInv, Process, InFinals
  <2>3. /\ exists' \subseteq Obj /\ locked' \subseteq Obj
        /\ \A r \in finals : r.obj \in locked'
    BY <1>1, <2>1, <2>2 DEF IInv, TypeOK
  <2> QED
    BY <1>2, <2>1, <2>2, <2>3, TaskFailsKeeps
<1>5. CASE CancelLost
  <2>1. TaskFails /\ UNCHANGED serverVars /\ stage = "cancel"
    BY <1>5 DEF CancelLost
  <2>2. /\ cur # NoTask /\ UNCHANGED <<saved, stored, finals, sess>>
        /\ exists' \subseteq Obj /\ locked' \subseteq Obj
        /\ \A r \in finals : r.obj \in locked'
    BY <1>1, <2>1 DEF IInv, Process, TypeOK, serverVars
  <2> QED
    BY <1>2, <2>1, <2>2, TaskFailsKeeps
<1> QED
  BY <1>3, <1>4, <1>5

-----------------------------------------------------------------------------
(* Steps of a server, and closing                                           *)

LEMMA FinalizeKeeps ==
    ASSUME IInv, NEW r \in finals, FinalizeTransaction(r) \/ FinalizeLost(r)
    PROVE  IInv'
<1>1. /\ r.obj \in Obj /\ r.content \in Content
      /\ \A q \in finals : q.obj = r.obj => q = r
      /\ stored[r.obj] \subseteq r.content /\ r.content \subseteq mem[r.obj]
      /\ InSaving(r.obj) => r.content \subseteq cur.content
  BY DEF IInv, TypeOK, Finalizing, Grows
<1>2. /\ UNCHANGED <<appVars, queueVars, closing, sess, exists>>
      /\ finals' = finals \ {r}
      /\ faults' \in 0..MaxFaults
      /\ failed \subseteq failed' /\ failed' \subseteq Obj
  BY <1>1, FaultsAssumption DEF FinalizeTransaction, FinalizeLost, Fault, NoFault, IInv, TypeOK
<1>3. \/ /\ locked' = locked \ {r.obj} /\ saved' = saved \cup {r.obj}
         /\ stored' = [stored EXCEPT ![r.obj] = r.content]
      \/ UNCHANGED <<locked, saved, stored>> /\ r.obj \in failed'
  BY DEF FinalizeTransaction, FinalizeLost
<1>4. /\ \A o \in Obj \ {r.obj} : stored'[o] = stored[o] /\ (o \in saved' <=> o \in saved)
      /\ stored'[r.obj] \in {stored[r.obj], r.content}
      /\ stored' \in [Obj -> Content]
  BY <1>1, <1>3 DEF IInv, TypeOK
<1>5. TypeOK'
  BY <1>1, <1>2, <1>3, <1>4 DEF IInv, TypeOK, appVars, queueVars
<1>6. QueueOK' /\ Tasks' /\ Uncreated'
  BY <1>2 DEF IInv, QueueOK, Tasks, Uncreated, InQueue, appVars, queueVars
<1>7. Process'
  <2>1. stage \in {"put", "cancel"} => cur.obj # r.obj
    BY DEF IInv, Process, InFinals
  <2>2. stage \in {"put", "cancel"} => cur.obj \in locked'
    BY <1>3, <2>1 DEF IInv, Process
  <2> QED
    BY <1>2, <2>2 DEF IInv, Process, InFinals, queueVars
<1>8. Finalizing'
  <2>1. \A q \in finals' : q \in finals /\ q.obj # r.obj
    BY <1>1, <1>2
  <2> QED
    BY <1>2, <1>3, <2>1 DEF IInv, Finalizing
<1>9. Grows'
  <2>1. \A q \in finals' : q \in finals /\ q.obj # r.obj /\ q.obj \in Obj
    BY <1>1, <1>2 DEF IInv, TypeOK
  <2>2. UNCHANGED <<mem, cur>>
    BY <1>2 DEF appVars, queueVars
  <2>3. \A o \in Obj : stored'[o] \subseteq mem[o]
    BY <1>1, <1>4 DEF IInv, Grows
  <2>4. cur # NoTask => stored'[cur.obj] \subseteq cur.content
    <3>1. cur # NoTask => cur.obj \in Obj
      BY DEF IInv, TypeOK, Task
    <3> QED
      BY <1>1, <1>4, <3>1 DEF IInv, Grows, InSaving
  <2> QED
    BY <1>4, <2>1, <2>2, <2>3, <2>4 DEF IInv, Grows, InSaving
<1>10. NothingForgotten'
  <2> SUFFICES ASSUME NEW o \in Created' \ failed' PROVE LastIs(o, mem[o])'
    BY DEF NothingForgotten
  <2>1. /\ o \in Created \ failed /\ o \in Obj /\ mem' = mem
        /\ (InQueue(o)' <=> InQueue(o)) /\ byId' = byId
        /\ (InSaving(o)' <=> InSaving(o)) /\ cur' = cur
    BY <1>2 DEF Created, IInv, Uncreated, Obj, appVars, queueVars, InQueue, InSaving
  <2>2. LastIs(o, mem[o])
    BY <2>1 DEF IInv, NothingForgotten
  <2>3. CASE o = r.obj
    <3>1. o \in saved' /\ stored'[o] = r.content
      BY <1>1, <1>3, <2>3 DEF IInv, TypeOK
    <3>2. ~InFinals(o)'
      BY <1>1, <1>2, <2>3 DEF InFinals
    <3> QED
      BY <2>1, <2>2, <2>3, <3>1, <3>2 DEF LastIs, InFinals
  <2>4. CASE o # r.obj
    <3>1. (InFinals(o)' <=> InFinals(o)) /\ finals' \subseteq finals
      BY <1>2, <2>4 DEF InFinals
    <3> QED
      BY <1>4, <2>1, <2>2, <2>4, <3>1 DEF LastIs
  <2> QED
    BY <2>3, <2>4
<1> QED
  BY <1>5, <1>6, <1>7, <1>8, <1>9, <1>10 DEF IInv

LEMMA ClosingKeeps ==
    ASSUME IInv, Expire \/ Close \/ Logout
    PROVE  IInv'
<1>1. /\ UNCHANGED <<appVars, ordered, byId, cur, exists, saved, stored, locked, finals,
                     failed>>
      /\ \/ stage' = stage
         \/ stage = "idle" /\ stage' = "next"
  BY DEF Expire, Close, Logout, Flushed, queueVars, serverVars
<1>2. closing' \in {"no", "drain", "parallel", "failed", "closed", "gone"}
  <2>1. closing \in {"no", "drain", "parallel", "failed", "closed", "gone"}
    BY DEF IInv, TypeOK
  <2>2. \/ closing' = closing
        \/ closing' \in {"drain", "parallel", "closed", "gone"}
    BY DEF Expire, Close, Logout
  <2> QED
    BY <2>1, <2>2
<1>2a. sess' \in BOOLEAN
  <2>1. sess \in BOOLEAN
    BY DEF IInv, TypeOK
  <2>2. sess' = sess \/ sess' = FALSE
    BY DEF Expire, Close, Logout, serverVars
  <2> QED
    BY <2>1, <2>2
<1>2b. faults' \in 0..MaxFaults
  <2>1. faults \in 0..MaxFaults
    BY DEF IInv, TypeOK
  <2>2. faults' = faults \/ (faults < MaxFaults /\ faults' = faults + 1)
    BY DEF Expire, Close, Logout, Fault, NoFault
  <2> QED
    BY <2>1, <2>2, FaultsAssumption
<1>3. TypeOK'
  BY <1>1, <1>2, <1>2a, <1>2b DEF IInv, TypeOK, appVars
<1>4. Process'
  BY <1>1 DEF IInv, Process, InFinals
<1>5. QueueOK' /\ Tasks' /\ Uncreated' /\ Finalizing' /\ Grows' /\ NothingForgotten'
  BY <1>1 DEF IInv, QueueOK, Tasks, Uncreated, Finalizing, Grows, NothingForgotten, Created,
              LastIs, InQueue, InSaving, InFinals, appVars
<1> QED
  BY <1>3, <1>4, <1>5 DEF IInv

-----------------------------------------------------------------------------
(* The invariant and theorems                                               *)

LEMMA InitInv ==
    ASSUME Init
    PROVE  IInv
<1>1. Dir \in Obj /\ {} \in Content /\ \A f \in File : f # Dir /\ f \in Obj
  BY NamesAssumption DEF Obj, Content
<1> DEFINE task == NewTask(Dir, {}, TRUE, NoCall)
<1>2. task \in Task /\ task.obj = Dir /\ task.content = {}
  BY <1>1 DEF NewTask, Task
<1>3. /\ mem = [o \in Obj |-> {}] /\ stored = [o \in Obj |-> {}]
      /\ cur = NoTask /\ finals = {} /\ locked = {} /\ failed = {}
      /\ stage \in {"idle", "next"}
  BY DEF Init
<1>4. \/ ordered = <<>> /\ byId = [o \in Obj |-> NoTask] /\ Dir \in saved
      \/ ordered = <<Dir>> /\ byId = [o \in Obj |-> IF o = Dir THEN task ELSE NoTask]
  BY DEF Init
<1>5. TypeOK
  <2>1. ordered \in Seq(Obj)
    <3>1. <<>> \in Seq(Obj) /\ <<Dir>> \in Seq(Obj)
      BY <1>1, EmptySeq
    <3> QED
      BY <1>4, <3>1
  <2>2. byId \in [Obj -> Task \cup {NoTask}]
    <3> HIDE DEF task
    <3> QED
      BY <1>2, <1>4
  <2>3. mem \in [Obj -> Content] /\ stored \in [Obj -> Content]
    BY <1>1, <1>3
  <2>4. told \in [Change -> {"none", "waiting", "resolved", "rejected"}]
    BY DEF Init
  <2>5. closing = "no" /\ sess \in BOOLEAN
    BY DEF Init
  <2>6. exists \subseteq Obj /\ saved \subseteq Obj
    BY <1>1 DEF Init
  <2>7. faults \in 0..MaxFaults
    BY FaultsAssumption DEF Init
  <2>8. /\ stage \in {"idle", "next", "start", "put", "cancel"}
        /\ cur \in Task \cup {NoTask} /\ locked \subseteq Obj /\ failed \subseteq Obj
        /\ finals \subseteq [obj : Obj, content : Content]
    BY <1>3
  <2> QED
    BY <2>1, <2>2, <2>3, <2>4, <2>5, <2>6, <2>7, <2>8 DEF TypeOK
<1>6. QueueOK
  <2>1. CASE ordered = <<>>
    BY <2>1 DEF QueueOK
  <2>2. CASE ordered = <<Dir>>
    <3>1. Len(ordered) = 1 /\ ordered[1] = Dir
      BY <2>2
    <3>2. byId[Dir] # NoTask
      <4> HIDE DEF task
      <4> QED
        BY <1>1, <1>2, <1>4, <2>2, NoTaskAssumption
    <3> QED
      BY <3>1, <3>2 DEF QueueOK, InQueue
  <2> QED
    BY <1>4, <2>1, <2>2
<1>7. Tasks /\ Uncreated
  <2> HIDE DEF task
  <2> QED
    BY <1>1, <1>2, <1>3, <1>4 DEF Tasks, Uncreated, InQueue
<1>8. Process /\ Finalizing /\ Grows
  BY <1>3 DEF Process, Finalizing, Grows
<1>9. NothingForgotten
  <2>1. Created = {Dir}
    BY <1>1, <1>3 DEF Created
  <2>2. LastIs(Dir, {})
    <3> HIDE DEF task
    <3> QED
      BY <1>1, <1>2, <1>3, <1>4, NoTaskAssumption DEF LastIs, InQueue, InSaving, InFinals
  <2> QED
    BY <1>1, <1>3, <2>1, <2>2 DEF NothingForgotten
<1> QED
  BY <1>5, <1>6, <1>7, <1>8, <1>9 DEF IInv

LEMMA InvStep ==
    ASSUME IInv, [Next]_vars
    PROVE  IInv'
<1>1. CASE UNCHANGED vars
  BY <1>1 DEF vars, appVars, queueVars, serverVars, IInv, TypeOK, QueueOK, Tasks, Uncreated,
              Process, Finalizing, Grows, NothingForgotten, Created, LastIs, InQueue,
              InSaving, InFinals
<1>2. ASSUME NEW f \in File, CreateFile(f) \/ \E c \in Change : SaveFile(f, c)
      PROVE  IInv'
  BY <1>2, CreateFileKeeps, SaveFileKeeps
<1>3. CASE SavingSteps
  BY <1>3, BeginKeeps, StartKeeps, BytesSentKeeps, CancelKeeps DEF SavingSteps
<1>4. CASE ServerSteps
  BY <1>4, FinalizeKeeps DEF ServerSteps
<1>5. CASE Expire \/ Close \/ Logout
  BY <1>5, ClosingKeeps
<1> QED
  BY <1>1, <1>2, <1>3, <1>4, <1>5 DEF Next

LEMMA Invariance == Spec => []IInv
<1>1. Init => IInv
  BY InitInv
<1>2. IInv /\ [Next]_vars => IInv'
  BY InvStep
<1> QED
  BY <1>1, <1>2, PTL DEF Spec

\* Types of all variables, for any files, changes and number of failures.
THEOREM TypeCorrect == Spec => []TypeOK
<1>1. IInv => TypeOK
  BY DEF IInv
<1> QED
  BY <1>1, Invariance, PTL

\* The latest content of every object is never lost between an application and
\* the server, unless a request with it has failed: the merging of tasks in
\* addSavingTask, and finalizations that are not waited for lose nothing.
THEOREM NothingForgottenHolds == Spec => []NothingForgotten
<1>1. IInv => NothingForgotten
  BY DEF IInv
<1> QED
  BY <1>1, Invariance, PTL

\* Contents of an object on the server only grow, whatever the order, in which
\* finalizations are processed, fail, or get lost.
THEOREM NeverBackHolds == Spec => NeverBack
<1>1. ASSUME IInv, [Next]_vars
      PROVE  [/\ saved \subseteq saved'
              /\ \A o \in Obj : stored[o] \subseteq stored'[o]]_vars
  <2>1. CASE UNCHANGED <<saved, stored>>
    BY <2>1
  <2>2. ASSUME NEW r \in finals, FinalizeTransaction(r)
        PROVE  saved \subseteq saved' /\ \A o \in Obj : stored[o] \subseteq stored'[o]
    <3>1. r.obj \in Obj /\ stored[r.obj] \subseteq r.content /\ stored \in [Obj -> Content]
      BY <1>1 DEF IInv, TypeOK, Grows
    <3> QED
      BY <2>2, <3>1 DEF FinalizeTransaction
  <2>3. CASE UNCHANGED vars
    BY <2>3
  <2>4. CASE Next
    <3>1. UNCHANGED <<saved, stored>> \/ \E r \in finals : FinalizeTransaction(r)
      BY <2>4 DEF Next, CreateFile, SaveFile, SavingSteps, Begin, StartTransaction,
        StartRefused, StartFails, StartLost, BytesSent, BytesLost, CancelTransaction,
        CancelLost, ServerSteps, FinalizeLost, Expire, Close, Logout, serverVars
    <3> QED
      BY <2>1, <2>2, <3>1
  <2> QED
    BY <1>1, <2>3, <2>4
<1> QED
  BY <1>1, Invariance, PTL DEF Spec, NeverBack

=============================================================================

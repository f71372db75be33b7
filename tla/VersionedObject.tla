--------------------------- MODULE VersionedObject ---------------------------
(***************************************************************************)
(* What a store promises about one object: a sequence of versions, each of *)
(* which appears at once, with header and segments of one transaction,     *)
(* follows the previous one, and is never changed or removed afterwards.   *)
(***************************************************************************)
EXTENDS Naturals

CONSTANTS Trans, Part

VARIABLES
    version,    \* current version, 0 when there is none, yet
    content     \* files of all versions: [ver, part, from], from is a writer

Init == version = 0 /\ content = {}

Commit(t) ==
    /\ \A f \in content : f.from # t
    /\ version' = version + 1
    /\ content' = content \cup
         {[ver |-> version + 1, part |-> p, from |-> t] : p \in Part}

Next == \E t \in Trans : Commit(t)

Spec == Init /\ [][Next]_<<version, content>>

=============================================================================

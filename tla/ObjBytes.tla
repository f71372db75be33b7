------------------------------ MODULE ObjBytes ------------------------------
(***************************************************************************)
(* Bytes of one 3NStorage object on their way from arrays of a saving      *)
(* client, through encrypting, sending in bodies of requests, a pump into  *)
(* a file of a server, getting from the server, to a decrypting reader of  *)
(* a client.  Module ByteSource has operators of client's sources.         *)
(*                                                                         *)
(* One client saves, and one reads.  Transactions are in ObjTransaction;   *)
(* here a finished transaction is the next version.  A byte of an attempt  *)
(* to save is <<attempt, position>>.  A header names a content, for which  *)
(* it was made, and is always sent and got in one short body.              *)
(***************************************************************************)
EXTENDS ByteSource, FiniteSets

CONSTANTS
    Arrays,         \* sequences of lengths of arrays, given to save
    Cuts,           \* sizes of the first of two pieces, in which a body may come
    SendChunk,      \* limit of a sent body
    GetChunk,       \* limit of a requested body
    BufSize,        \* server's file writing buffer
    MaxSaves, MaxGets, MaxLost      \* bounds of the model

ASSUME ChunksAssumption == {SendChunk, GetChunk, BufSize} \subseteq Nat \ {0}
ASSUME ArraysAssumption == Arrays \subseteq Seq(Nat) /\ Cuts \subseteq Nat \ {0}
ASSUME NoneAssumption == None \notin Seq(Nat \X Nat)    \* null is no array

VARIABLES
    saves,      \* arrays, given to attempts to save, so far
    save,       \* the current one: its progress, source, and body in flight
    draft,      \* file of segments in a transaction
    objs,       \* versions of the object: attempt, and file of segments
    get,        \* getting of the object by a reader
    segs,       \* reader's pipe of segments
    dec,        \* decrypting source
    lost        \* number of lost requests

saveVars == <<saves, save, draft, objs>>
readVars == <<get, segs, dec>>
bytesVars == <<saveVars, readVars, lost>>

Total(lens) == FoldLeft(LAMBDA a, b : a + b, 0, lens)
Content(k) == [i \in 1..Total(saves[k]) |-> <<k, i>>]
Zero == <<0, 0>>        \* byte, that nobody wrote

BytesInit ==
    /\ saves = <<>> /\ draft = <<>> /\ objs = <<>> /\ lost = 0
    /\ save = [st |-> "idle", src |-> EmptyPipe, body |-> None, sent |-> 0,
               whole |-> TRUE]
    /\ get = [at |-> "none", ver |-> None, obj |-> None, asked |-> None,
              count |-> 0, since |-> 0, met |-> FALSE]
    /\ segs = EmptyPipe
    /\ dec = [st |-> "none", ind |-> 1, segBuf |-> <<>>, data |-> <<>>]

-----------------------------------------------------------------------------
(* Saving: FileCrypto.pack, FolderCrypto.pack, StorageOwner.saveObj         *)

\* A call, which arrays do not pack, throws, and does nothing.
Save(arrs) ==
    /\ save.st = "idle" /\ Len(saves) < MaxSaves
    /\ Packs(arrs)
    /\ saves' = Append(saves, arrs)
    /\ LET src == PackedPipe([i \in 1..Total(arrs) |-> <<Len(saves) + 1, i>>])
       IN /\ save' = [st |-> "header", src |-> src, body |-> None, sent |-> 0,
                      whole |-> TRUE]
          /\ draft' = [i \in 1..src.total |-> Zero]     \* started transaction
    /\ UNCHANGED <<objs, readVars, lost>>

\* Reply to a header's body lets segments to be sent.
HeaderSaved ==
    /\ save.st = "header"
    /\ save' = [save EXCEPT !.st = "sending"]
    /\ UNCHANGED <<saves, draft, objs, readVars, lost>>

\* sendAllBytesNonAppending.
SendChunkOfSegments ==
    /\ save.st = "sending"
    /\ LET g == GetBytes(save.src.buf, 0, SendChunk) IN
        /\ g.out # None
        /\ save' = [save EXCEPT !.st = "sent", !.body = g.out, !.src.buf = g.buf,
                                !.sent = @ + Len(g.out)]
    /\ UNCHANGED <<saves, draft, objs, readVars, lost>>

\* Bytes are no more, and transaction is completed.
Finalize ==
    /\ save.st = "sending"
    /\ GetBytes(save.src.buf, 0, SendChunk).out = None
    /\ objs' = Append(objs, [id |-> Len(saves), segs |-> draft,
                             whole |-> save.whole])
    /\ save' = [save EXCEPT !.st = "idle"]
    /\ get' = IF get.at = "segs" THEN [get EXCEPT !.met = TRUE] ELSE get
    /\ UNCHANGED <<saves, draft, segs, dec, lost>>

\* A failed request leads to cancelling.
SendFails ==
    /\ save.st \in {"header", "sent"} /\ lost < MaxLost
    /\ lost' = lost + 1
    /\ save' = [save EXCEPT !.st = "idle"]
    /\ UNCHANGED <<saves, draft, objs, readVars>>

-----------------------------------------------------------------------------
(* Server's pump: streamToExistingFile                                      *)

\* Length of a piece comes to a buffer, or goes with it to a file.
PumpStep(p, n, total) ==
    IF p.buf + n < BufSize /\ p.buf + n < total
    THEN [p EXCEPT !.buf = @ + n]
    ELSE [buf |-> 0, writes |-> Append(p.writes, p.buf + n)]
Pump(pieces) ==
    FoldLeft(LAMBDA p, n : PumpStep(p, n, Total(pieces)),
             [buf |-> 0, writes |-> <<>>], pieces)

\* Offset is not passed, and every write is at a file's start.
Write(file, bytes) ==
    [i \in DOMAIN file |-> IF i <= Len(bytes) THEN bytes[i] ELSE file[i]]

Written(file, body, writes) ==
    LET at(i) == Total(SubSeq(writes, 1, i - 1))
        write(f, i) == Write(f, SubSeq(body, at(i) + 1, at(i) + writes[i]))
    IN FoldLeft(write, file, [i \in DOMAIN writes |-> i])

\* Bytes go to a file of a transaction, as a route gives neither append, nor an
\* offset.
SaveObjChunk(writes) == draft' = Written(draft, save.body, writes)

\* Reply is sent, when as many bytes are written, as the body has.
BodyComes(pieces) ==
    /\ Total(pieces) = Len(save.body)
    /\ LET writes == Pump(pieces).writes IN
        /\ SaveObjChunk(writes)
        /\ save' = [save EXCEPT
                      !.st = IF Total(writes) = Total(pieces) THEN "sending" ELSE "hung",
                      !.whole = @ /\ Len(writes) = 1]
    /\ UNCHANGED <<saves, objs, readVars, lost>>

BodyInOne == save.st = "sent" /\ BodyComes(<<Len(save.body)>>)
BodyInTwo ==
    /\ save.st = "sent"
    /\ \E n \in Cuts : /\ n < Len(save.body)
                      /\ BodyComes(<<n, Len(save.body) - n>>)

-----------------------------------------------------------------------------
(* Getting: StorageOwner.getObj, getAllBytesSequentially, Store.getObj      *)

\* Source is returned at once, and a decryptor starts to wait for a header.
Open ==
    /\ get.at = "none" /\ objs # <<>>
    /\ get' = [get EXCEPT !.at = "header", !.since = Len(objs)]
    /\ dec' = [dec EXCEPT !.st = "opened"]
    /\ UNCHANGED <<saveVars, segs, lost>>

HeaderComes ==
    /\ get.at = "header"
    /\ get' = [get EXCEPT !.at = "segs", !.ver = Len(objs), !.obj = objs[Len(objs)].id]
    /\ UNCHANGED <<saveVars, segs, dec, lost>>

\* setObjVersion, and a check of a reply to a request for a version.
WrongSameVersion(v) == TRUE
SameVersion(v) == v = get.ver

\* The first request is for the current version, and next ones are for the
\* version in the first reply, from the same offset.
Asked == IF get.asked = None THEN Len(objs) ELSE get.asked

\* What a pending read gets is handed over by a callback.
HandOver(out) ==
    dec' = IF dec.st = "waits" /\ out # None
           THEN [OpenSegments(Content(get.obj), dec, out) EXCEPT
                    !.st = IF @ = "reading" THEN "asked" ELSE @]
           ELSE dec

\* Store.getObj, with offset zero, and with a maximum length.
StoredBytes(v) == SubSeq(objs[v].segs, 1, Least(GetChunk, Len(objs[v].segs)))

\* An empty reply has no version, and is rejected as a malformed one.
RepliedVersion(v) == IF StoredBytes(v) = <<>> THEN None ELSE v

SegmentsCome ==
    /\ get.at = "segs" /\ get.count < MaxGets
    /\ LET bytes == StoredBytes(Asked)
           s == SwallowBytes(segs, bytes)
           e == SwallowEnd(s.pipe)
           last == Len(bytes) < GetChunk
       IN IF RepliedVersion(Asked) = None \/ ~SameVersion(Asked)
          THEN /\ get' = [get EXCEPT !.at = "dead"]
               /\ UNCHANGED <<segs, dec>>
          ELSE /\ get' = [get EXCEPT !.at = IF last THEN "end" ELSE "segs",
                                     !.asked = Asked, !.count = @ + 1]
               /\ segs' = IF last THEN e.pipe ELSE s.pipe
               /\ HandOver(IF last /\ s.out = None THEN e.out ELSE s.out)
    /\ UNCHANGED <<saveVars, lost>>

\* A rejection goes to done(), and not to a pipe.
GetFails ==
    /\ get.at \in {"header", "segs"} /\ lost < MaxLost
    /\ lost' = lost + 1
    /\ get' = [get EXCEPT !.at = "dead", !.met = TRUE]
    /\ UNCHANGED <<saveVars, segs, dec>>

-----------------------------------------------------------------------------
(* Reading of decrypted bytes to the end                                    *)

Read ==
    /\ dec.st = "opened"
    /\ dec' = [dec EXCEPT !.st = "asked"]
    /\ UNCHANGED <<saveVars, get, segs, lost>>

\* One turn of readRecursively, after a header has come.
ReadSegments ==
    /\ dec.st = "asked" /\ get.obj # None
    /\ LET content == Content(get.obj)
           r == ReadBytes(segs, SegSize(content, dec.ind) - Len(dec.segBuf))
           d == OpenSegments(content, dec, r.out)
       IN IF content = <<>>
          THEN /\ dec' = [dec EXCEPT !.st = "done"]
               /\ UNCHANGED segs
          ELSE IF ReadThrows(segs)
          THEN /\ dec' = [dec EXCEPT !.st = "failed"]
               /\ UNCHANGED segs
          ELSE /\ segs' = r.pipe
               /\ dec' = IF r.waits THEN [dec EXCEPT !.st = "waits"]
                         ELSE IF r.out = None THEN [dec EXCEPT !.st = "failed"]
                         ELSE IF d.st = "reading" THEN [d EXCEPT !.st = "asked"] ELSE d
    /\ UNCHANGED <<saveVars, get, lost>>

BytesNext ==
    \/ \E arrs \in Arrays : Save(arrs)
    \/ HeaderSaved \/ SendChunkOfSegments \/ Finalize \/ SendFails
    \/ BodyInOne \/ BodyInTwo
    \/ Open \/ HeaderComes \/ SegmentsCome \/ GetFails
    \/ Read \/ ReadSegments

\* Requests are answered, callbacks are called, and an application, that has
\* opened an object, reads it.
Fairness == WF_bytesVars(HeaderComes) /\ WF_bytesVars(SegmentsCome)
            /\ WF_bytesVars(Read) /\ WF_bytesVars(ReadSegments)

BytesSpec == BytesInit /\ [][BytesNext]_bytesVars /\ Fairness

-----------------------------------------------------------------------------
(* Properties                                                               *)

BytesTypeOK ==
    /\ saves \in Seq(Arrays) /\ Len(saves) <= MaxSaves
    /\ save.st \in {"idle", "header", "sending", "sent", "hung"}
    /\ Len(save.src.buf.queue) <= NumOfSegs(Len(draft))
    /\ save.sent \in Nat /\ save.whole \in BOOLEAN
    /\ \A i \in DOMAIN draft : draft[i] = Zero \/ draft[i][1] = Len(saves)
    /\ \A v \in DOMAIN objs : /\ objs[v].id \in 1..Len(saves)
                              /\ Len(objs[v].segs) = Total(saves[objs[v].id])
    /\ get.at \in {"none", "header", "segs", "end", "dead"}
    /\ get.ver \in DOMAIN objs \cup {None} /\ get.asked \in {None, get.ver}
    /\ get.count \in 0..MaxGets /\ get.since \in 0..Len(objs)
    /\ dec.st \in {"none", "opened", "asked", "waits", "done", "failed"}
    /\ dec.ind \in Nat \ {0} /\ lost \in 0..MaxLost

\* A read, that is fulfilled, gives all bytes, and nothing but bytes, of one
\* save, whose transaction was completed, and which was not replaced before
\* an object was opened: whatever is saved between requests for a header and
\* for segments, whatever a pump and a repeated reply have done with bytes,
\* and whichever of bytes are given out by buffers twice.
ReadIsSaved ==
    dec.st = "done" =>
        \E v \in get.since..Len(objs) : dec.data = Content(objs[v].id)

\* Offset of a body is lost on its way to a file, and client's buffer gives
\* some bytes out twice, yet, an object, that is not longer than one sent
\* chunk, and every body of which goes to a file in one write, is stored as
\* it was packed.
StoredIsWhole ==
    \A v \in DOMAIN objs :
        LET content == Content(objs[v].id) IN
        objs[v].whole /\ Len(content) <= SendChunk => objs[v].segs = content

\* A read of an object, that is stored whole, is fulfilled, when no request is
\* lost, and no other version is completed after a reply with a header and
\* before the last reply with segments, no matter how early or late an
\* application starts to read.
Disturbed ==
    \/ get.met
    \/ \E v \in DOMAIN objs : /\ objs[v].id = get.obj
                              /\ objs[v].segs # Content(get.obj)
ReadCompletes == dec.st = "asked" ~> (dec.st = "done" \/ Disturbed)

\* Source gives to a sender as many bytes as its total size says ("@return
\* total number of bytes that come from this byte source.").
SentIsTotal == save.sent <= Len(draft)
=============================================================================

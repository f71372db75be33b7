----------------------------- MODULE ByteSource -----------------------------
(***************************************************************************)
(* Byte sources and sinks of client libraries, as operators: a FIFO buffer *)
(* of chunks, a pipe between a sink and a source, packing of arrays into   *)
(* segments, and opening of segments (src/src/lib-client/byte-source.ts).  *)
(*                                                                         *)
(* Bytes are members of any set, and arrays of bytes are sequences.  An    *)
(* operator, that takes something out, returns a record with what is out,  *)
(* and with what it leaves.  Definitions Wrong... are broken variants of   *)
(* definitions, that follow them.                                          *)
(***************************************************************************)
EXTENDS Integers, Sequences, SequencesExt

CONSTANTS None,         \* null of the code
          SegLen        \* number of bytes of content in a whole segment

ASSUME SegLenAssumption == SegLen \in Nat \ {0}

Least(a, b) == IF a < b THEN a ELSE b

-----------------------------------------------------------------------------
(* BytesFIFOBuffer                                                          *)

EmptyBuffer == [queue |-> <<>>, len |-> 0]

PushBytes(b, bytes) == [queue |-> Append(b.queue, bytes),
                        len |-> b.len + Len(bytes)]

\* A loop, that pops chunks, compares its counter with a shrinking length, and
\* removes the last chunks only, while bytes of the rest are given out, too.
WrongLeft(queue) == SubSeq(queue, 1 + (Len(queue) + 1) \div 2, Len(queue))
Left(queue) == SubSeq(queue, 1, Len(queue) \div 2)

ExtractAll(b) ==
    LET out == FlattenSeq(b.queue)
    IN [out |-> out, buf |-> [queue |-> Left(b.queue), len |-> b.len - Len(out)]]

\* Chunks, that are given out whole, are shifted, and the next one is cut.
ExtractSome(b, n) ==
    LET end(i) == Len(FlattenSeq(SubSeq(b.queue, 1, i)))
        whole == Cardinality({i \in DOMAIN b.queue : end(i) <= n})
        rest == SubSeq(b.queue, whole + 1, Len(b.queue))
    IN [out |-> SubSeq(FlattenSeq(b.queue), 1, n),
        buf |-> [queue |-> [rest EXCEPT ![1] = SubSeq(@, n - end(whole) + 1, Len(@))],
                 len |-> b.len - n]]

GetBytes(b, min, max) ==
    IF b.queue = <<>> \/ b.len < min THEN [out |-> None, buf |-> b]
    ELSE IF max = None \/ b.len <= max THEN ExtractAll(b) ELSE ExtractSome(b, max)

-----------------------------------------------------------------------------
(* SinkBackedByteSource, of which nobody sets a total size.  Field wants is *)
(* a minimum of a read, that was deferred; it is never set back to null.    *)

EmptyPipe == [buf |-> EmptyBuffer, complete |-> FALSE, wants |-> None,
              settled |-> FALSE, total |-> None, collected |-> 0]

WrongResolves(p) == p.wants # None /\ p.buf.len > p.wants    \* not at the end
Resolves(p) == p.wants # None

\* A deferred read takes bytes out, even when it is already resolved.
Notify(p) ==
    IF ~Resolves(p) THEN [out |-> None, pipe |-> p]
    ELSE LET g == GetBytes(p.buf, IF p.complete THEN 0 ELSE p.wants, None)
         IN [out |-> IF p.settled THEN None ELSE g.out,
             pipe |-> [p EXCEPT !.buf = g.buf,
                                !.settled = @ \/ p.complete \/ g.out # None]]

SwallowBytes(p, bytes) ==
    IF bytes = <<>> THEN [out |-> None, pipe |-> p]
    ELSE Notify([p EXCEPT !.buf = PushBytes(@, bytes),
                          !.collected = @ + Len(bytes)])

SwallowEnd(p) ==
    Notify([p EXCEPT !.complete = TRUE, !.total = p.collected])

\* "there is already pending read" is said of a settled read as well.
ReadThrows(p) == ~p.complete /\ p.wants # None

\* A read with no maximum, and not to the source's end.
ReadBytes(p, min) ==
    LET g == GetBytes(p.buf, IF p.complete THEN 0 ELSE min, None)
    IN IF p.complete \/ g.out # None
       THEN [out |-> g.out, pipe |-> [p EXCEPT !.buf = g.buf], waits |-> FALSE]
       ELSE [out |-> None, pipe |-> [p EXCEPT !.wants = min], waits |-> TRUE]

-----------------------------------------------------------------------------
(* packAndSink to an object's end, and makeObjByteSourceFromArrays          *)

\* What is left in a buffer after the next array.  When a joint of the buffer
\* and of a part of the next array has to be packed, null is given to the
\* packer, and it throws.
Broken == -1
PackStep(left, n) ==
    IF left = Broken THEN Broken
    ELSE IF left # 0 /\ left + n > SegLen THEN Broken
    ELSE (left + n) % SegLen
Packs(lens) == FoldLeft(PackStep, 0, lens) # Broken

\* Each segment is swallowed as a chunk of its own.
NumOfSegs(n) == (n + SegLen - 1) \div SegLen
SegmentOf(content, i) ==
    SubSeq(content, SegLen * (i - 1) + 1, Least(SegLen * i, Len(content)))
PackedPipe(content) ==
    LET push(p, i) == SwallowBytes(p, SegmentOf(content, i)).pipe
    IN SwallowEnd(FoldLeft(push, EmptyPipe,
                           [i \in 1..NumOfSegs(Len(content)) |-> i])).pipe

-----------------------------------------------------------------------------
(* DecryptingByteSource, read to its end.  Content is what a header is for: *)
(* a segment opens only under a header of the same content, by its index.   *)

WrongOpens(content, i, seg) == Len(seg) = Len(SegmentOf(content, i))
Opens(content, i, seg) == seg = SegmentOf(content, i)

SegSize(content, i) == Len(SegmentOf(content, i))

\* Segments, that bytes are enough for, after ones before ind.
Ready(content, ind, bytes) ==
    {k \in ind..NumOfSegs(Len(content)) :
        Len(bytes) >= Least(SegLen * k, Len(content)) - SegLen * (ind - 1)}

\* New bytes are put after what is left of previous ones.  Content of a segment,
\* that is merged from both, is not kept, unless this is the last segment.
OpenSegments(content, d, bytes) ==
    LET all == d.segBuf \o bytes
        ready == Ready(content, d.ind, all)
        from(k) == SegLen * (k - d.ind)
        seg(k) == SubSeq(all, from(k) + 1, from(k) + SegSize(content, k))
        next == d.ind + Cardinality(ready)
        used == Least(SegLen * (next - 1), Len(content)) - SegLen * (d.ind - 1)
        merged == d.segBuf # <<>> /\ d.ind \in ready /\ d.ind < NumOfSegs(Len(content))
        first == IF merged THEN SegLen + 1 ELSE 1
    IN IF \E k \in ready : ~Opens(content, k, seg(k))
       THEN [d EXCEPT !.st = "failed"]
       ELSE [d EXCEPT !.st = IF next > NumOfSegs(Len(content))
                             THEN "done" ELSE "reading",
                      !.ind = next, !.data = @ \o SubSeq(all, first, used),
                      !.segBuf = SubSeq(all, used + 1, Len(all))]
=============================================================================

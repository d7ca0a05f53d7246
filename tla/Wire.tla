-------------------------------- MODULE Wire --------------------------------
(***************************************************************************)
(* The wire format: the Builder of builder.go, the zero-copy readers of    *)
(* zap.go and the typed layer of v1/.                                      *)
(*                                                                         *)
(* A builder is a buffer, a write cursor and the root offset.  The machine *)
(* builds messages one Set call at a time, each in two builders: `pooled`, *)
(* which is reset and used again for the next message (PutBuilder, then    *)
(* GetBuilder), and `fresh`, made for this message alone.  A finished      *)
(* message is read back; a reader may also meet it with any of its pointer *)
(* or length words overwritten, those of the objects it points to included.*)
(*                                                                         *)
(* Byte p of a Go slice is element p + 1 of a sequence.  Positions stay    *)
(* far below Huge, and every word at or above it compares as Huge does.    *)
(***************************************************************************)
EXTENDS WireLayouts, SequencesExt

CONSTANTS Messages,     \* the layouts built
          Patterns,     \* the ways a message's fields are filled
          FlagChoices,  \* <<>> for Finish, two bytes for FinishWithFlags
          Capacity,     \* the capacity given to NewBuilder
          Words,        \* what an overwritten 4-byte word may hold
          Rounds        \* messages built with one pooled builder

VARIABLES lay, pattern, flags, round, phase,
          next,         \* fields already set
          start,        \* startPos of the root object, per builder
          builder,      \* "pooled" and "fresh"
          out           \* the finished bytes, per builder

vars == <<lay, pattern, flags, round, phase, next, start, builder, out>>

HeaderSize == 16

Alignment == 8

Magic == <<90, 65, 80, 0>>

Huge == 2^29

Zeros(n) == [i \in 1..n |-> 0]

Put(buf, p, bytes) ==
    SubSeq(buf, 1, p) \o bytes \o SubSeq(buf, p + Len(bytes) + 1, Len(buf))

Slice(data, from, to) == SubSeq(data, from + 1, to)

\* PutUint32 and PutUint16 of a possibly negative number, in two's complement.
LE(n, width) == [i \in 1..width |-> (n \div (256^(i - 1))) % 256]

\* Uint32, where what is at least Huge is as good as Huge.
Word(data, p) ==
    IF data[p + 4] >= 32 THEN Huge
    ELSE data[p + 1] + 256 * data[p + 2] + 65536 * data[p + 3]
            + 16777216 * data[p + 4]

\* int32(Uint32).
SignedWord(data, p) ==
    CASE data[p + 4] \in 32..127  -> Huge
      [] data[p + 4] \in 128..223 -> -Huge
      [] OTHER -> data[p + 1] + 256 * data[p + 2] + 65536 * data[p + 3]
                    + 16777216 * (IF data[p + 4] > 223 THEN data[p + 4] - 256
                                                       ELSE data[p + 4])

(***************************************************************************)
(* The builder.                                                            *)
(***************************************************************************)
newBuilder(capacity) ==
    LET size == IF capacity < HeaderSize THEN 256 ELSE capacity
    IN  [buf  |-> Put(Zeros(size), 0, Magic \o LE(2, 2)),
         pos  |-> HeaderSize,
         root |-> 0]

Reset(b) == [b EXCEPT !.pos = HeaderSize, !.root = 0]

grow(b, n) ==
    IF b.pos + n <= Len(b.buf) THEN b
    ELSE LET doubled == 2 * Len(b.buf)
             newCap  == IF doubled < b.pos + n THEN b.pos + n ELSE doubled
         IN  [b EXCEPT !.buf = SubSeq(b.buf, 1, b.pos) \o Zeros(newCap - b.pos)]

\* Bytes at the cursor, which moves past them: the tail SetBytes appends, and
\* the zeros of align and ensureField.
Emit(b, bytes) ==
    LET g == grow(b, Len(bytes))
    IN  [g EXCEPT !.buf = Put(g.buf, g.pos, bytes), !.pos = g.pos + Len(bytes)]

align(b) ==
    Emit(b, Zeros((Alignment - (b.pos % Alignment)) % Alignment))

\* MUTANT of ensureField: the cursor moves over whatever the buffer held.
ensureDirty(b, s, end) ==
    IF s + end > b.pos THEN [grow(b, s + end - b.pos) EXCEPT !.pos = s + end]
    ELSE b

ensureField(b, s, end) ==
    IF s + end > b.pos THEN Emit(b, Zeros(s + end - b.pos)) ELSE b

\* StartObject returns the builder it leaves and the object's startPos.
StartObject(b, size) ==
    LET a == align(b)
    IN  [b |-> ensureField(a, a.pos, size), s |-> a.pos]

SetFixed(b, s, at, v) ==
    LET e == ensureField(b, s, at + Len(v))
    IN  [e EXCEPT !.buf = Put(e.buf, s + at, v)]

SetBytesFixed(b, s, at, v) == IF v = <<>> THEN b ELSE SetFixed(b, s, at, v)

\* MUTANT of SetBytes: the pointer is taken from the object, not its field.
SetBytesFromObject(b, s, at, v) ==
    IF v = <<>> THEN [b EXCEPT !.buf = Put(b.buf, s + at, Zeros(8))]
    ELSE LET a == Emit(b, v)
         IN  [a EXCEPT !.buf = Put(a.buf, s + at, LE(b.pos - s, 4)
                                                    \o LE(Len(v), 4))]

SetBytes(b, s, at, v) ==
    IF v = <<>> THEN [b EXCEPT !.buf = Put(b.buf, s + at, Zeros(8))]
    ELSE LET a == Emit(b, v)
         IN  [a EXCEPT !.buf = Put(a.buf, s + at, LE(b.pos - (s + at), 4)
                                                    \o LE(Len(v), 4))]

SetObject(b, s, at, target) ==
    LET e == ensureField(b, s, at + 4)
        rel == IF target = 0 THEN 0 ELSE target - (s + at)
    IN  [e EXCEPT !.buf = Put(e.buf, s + at, LE(rel, 4))]

SetList(b, s, at, target, n) ==
    LET e == ensureField(b, s, at + 8)
        cell == IF target = 0 \/ n = 0 THEN Zeros(8)
                ELSE LE(target - (s + at), 4) \o LE(n, 4)
    IN  [e EXCEPT !.buf = Put(e.buf, s + at, cell)]

AddObjectPtr(b, target) ==
    Emit(b, LE(IF target = 0 THEN 0 ELSE target - b.pos, 4))

FinishAsRoot(b, s) == [b EXCEPT !.root = s]

Finish(b) == [b EXCEPT !.buf = Put(b.buf, 8, LE(b.root, 4) \o LE(b.pos, 4))]

FinishWithFlags(b, fl) == Finish([b EXCEPT !.buf = Put(b.buf, 6, fl)])

(***************************************************************************)
(* The typed writers of v1/.  A field of a schema is written whole: the    *)
(* elements of a list or the object behind a pointer included.             *)
(***************************************************************************)
Write(b, s, f, v) ==
    IF f.kind = "bytes" THEN SetBytes(b, s, f.at, v)
    ELSE SetBytesFixed(b, s, f.at, v)

WriteAll(b, s, elem, vs) ==
    FoldLeft(LAMBDA acc, i : Write(acc, s, elem.fields[i], vs[i]), b,
             [i \in 1..Len(vs) |-> i])

\* An element of a list, or the object behind a pointer: where it starts.
AppendElem(acc, elem, vs) ==
    LET o == StartObject(acc.b, elem.size)
    IN  [b  |-> WriteAll(o.b, o.s, elem, vs),
         at |-> Append(acc.at, o.s)]

Appended(b, elem, vss) ==
    FoldLeft(LAMBDA acc, vs : AppendElem(acc, elem, vs), [b |-> b, at |-> <<>>], vss)

WriteNested(b, s, size, f, vs) ==
    IF vs = <<>> THEN b
    ELSE LET o == AppendElem([b |-> ensureField(b, s, size), at |-> <<>>], f.elem, vs)
         IN  SetObject(o.b, s, f.at, o.at[1])

WriteList(b, s, size, f, vss) ==
    LET es == Appended(ensureField(b, s, size), f.elem, vss)
    IN  SetList(es.b, s, f.at, IF vss = <<>> THEN 0 ELSE es.at[1], Len(vss))

WriteListNested(b, s, size, f, vss) ==
    LET es == Appended(ensureField(b, s, size), f.elem, vss)
        lb == align(es.b)
    IN  IF vss = <<>> THEN SetList(es.b, s, f.at, 0, 0)
        ELSE SetList(FoldLeft(AddObjectPtr, lb, es.at), s, f.at, lb.pos, Len(vss))

WriteField(b, s, size, f, v) ==
    CASE f.kind = "nested"     -> WriteNested(b, s, size, f, v)
      [] f.kind = "list"       -> WriteList(b, s, size, f, v)
      [] f.kind = "listNested" -> WriteListNested(b, s, size, f, v)
      [] OTHER                 -> Write(b, s, f, v)

(***************************************************************************)
(* The readers.  <<>> is Go's nil, the offset 0 its null object.           *)
(***************************************************************************)
Parse(data) ==
    IF \/ Len(data) < HeaderSize
       \/ Slice(data, 0, 4) # Magic
       \/ Slice(data, 4, 6) \notin {LE(1, 2), LE(2, 2)}
       \/ Word(data, 12) \notin HeaderSize..Len(data)
    THEN <<>>
    ELSE Slice(data, 0, Word(data, 12))

Root(data) == Word(data, 8)

\* The span of an inline field, <<>> where the reader returns the zero value.
FixedSpan(data, o, at, n) ==
    IF o + at + n > Len(data) THEN <<>> ELSE <<o + at, o + at + n>>

BytesFixedSlice(data, o, at, n) ==
    LET span == FixedSpan(data, o, at, n)
    IN  IF span = <<>> THEN Zeros(n) ELSE Slice(data, span[1], span[2])

\* MUTANT of Bytes: the relative offset is read as a signed number.
BytesSigned(data, o, at) ==
    LET pos == o + at
        from == pos + SignedWord(data, pos)
        to == from + Word(data, pos + 4)
    IN  IF \/ pos + 8 > Len(data) \/ from = pos
           \/ from < HeaderSize \/ to > Len(data)
        THEN <<>> ELSE <<from, to>>

\* The span a byte field names.
Bytes(data, o, at) ==
    LET pos == o + at
        from == pos + Word(data, pos)
        to == from + Word(data, pos + 4)
    IN  IF \/ pos + 8 > Len(data) \/ from = pos
           \/ from < HeaderSize \/ to > Len(data)
        THEN <<>> ELSE <<from, to>>

\* Object and ObjectPtr, and their copies in NestedAt and ListNested.At.
Object(data, pos) ==
    LET to == pos + SignedWord(data, pos)
    IN  IF pos + 4 > Len(data) \/ to = pos \/ to < HeaderSize \/ to >= Len(data)
        THEN 0 ELSE to

\* Where a list starts and how many elements it has.
ListStride(data, pos, stride) ==
    LET from == pos + SignedWord(data, pos)
        n == Word(data, pos + 4)
    IN  IF \/ pos + 8 > Len(data) \/ from = pos
           \/ from < HeaderSize \/ from >= Len(data)
           \/ n > (Len(data) - from) \div stride
        THEN <<>> ELSE <<from, n>>

\* The object of this size at o, if all of it is inside the message.
viewAt(data, o, size) == IF o = 0 \/ o + size > Len(data) THEN 0 ELSE o

Elements(data, o, f) ==
    LET l == ListStride(data, o + f.at,
                        IF f.kind = "list" THEN f.elem.size ELSE 4)
    IN  IF l = <<>> THEN <<>>
        ELSE [i \in 1..l[2] |->
                viewAt(data, IF f.kind = "list" THEN l[1] + (i - 1) * f.elem.size
                             ELSE Object(data, l[1] + (i - 1) * 4),
                       f.elem.size)]

NestedAt(data, o, f) == viewAt(data, Object(data, o + f.at), f.elem.size)

\* The objects a pointer or list field hands out.
Pointed(data, o, f) ==
    CASE f.kind = "nested" -> {NestedAt(data, o, f)} \ {0}
      [] f.kind \in {"list", "listNested"} -> ToSet(Elements(data, o, f)) \ {0}
      [] OTHER -> {}

Read(data, o, f) ==
    CASE f.kind = "fixed" -> BytesFixedSlice(data, o, f.at, f.width)
      [] f.kind = "bool"  -> IF BytesFixedSlice(data, o, f.at, 1) = <<0>>
                             THEN <<0>> ELSE <<1>>
      [] f.kind = "bytes" -> LET span == Bytes(data, o, f.at)
                             IN  IF span = <<>> THEN <<>>
                                 ELSE Slice(data, span[1], span[2])

ReadAll(data, o, elem) ==
    IF o = 0 THEN <<>>
    ELSE [i \in 1..Len(elem.fields) |-> Read(data, o, elem.fields[i])]

ReadField(data, o, f) ==
    CASE f.kind = "nested" -> ReadAll(data, NestedAt(data, o, f), f.elem)
      [] f.kind \in {"list", "listNested"} ->
            LET es == Elements(data, o, f)
            IN  [i \in 1..Len(es) |-> ReadAll(data, es[i], f.elem)]
      [] OTHER -> Read(data, o, f)

(***************************************************************************)
(* What the messages carry.  Field i of a message filled with a pattern:   *)
(* "zero" is every zero value, "ones" the largest bytes and the shortest   *)
(* non-empty tails, "mixed" bytes that tell every field and place apart.   *)
(***************************************************************************)
LeafValue(f, i, p) ==
    CASE f.kind = "bool"  -> IF p = "zero" THEN <<0>> ELSE <<1>>
      [] f.kind = "fixed" -> [j \in 1..f.width |->
                                CASE p = "zero" -> 0 [] p = "ones" -> 255
                                  [] OTHER -> (37 * i + j) % 256]
      [] f.kind = "bytes" -> CASE p = "zero" -> <<>> [] p = "ones" -> <<255>>
                               [] OTHER -> [j \in 1..i + 2 |-> (41 * i + j) % 256]

ElemValue(elem, k, p) ==
    [i \in 1..Len(elem.fields) |-> LeafValue(elem.fields[i], i + 3 * k, p)]

FieldValue(f, i, p) ==
    CASE f.kind = "nested" -> IF p = "zero" THEN <<>> ELSE ElemValue(f.elem, i, p)
      [] f.kind \in {"list", "listNested"} ->
            [k \in 1..(CASE p = "zero" -> 0 [] p = "ones" -> 1 [] OTHER -> 3) |->
                ElemValue(f.elem, k, p)]
      [] OTHER -> LeafValue(f, i, p)

maxNodeIDLen == 60

\* The name a node gives: none, one that is too long, one that fits.
NodeID(p) ==
    [j \in 1..(CASE p = "zero" -> 0 [] p = "ones" -> 64 [] OTHER -> 7) |-> 64 + j]

Cut(s, n) == SubSeq(s, 1, IF Len(s) > n THEN n ELSE Len(s))

EncodeNodeID(id) ==
    LET name == Cut(id, maxNodeIDLen)
    IN  <<name \o Zeros(maxNodeIDLen - Len(name)), LE(Len(name), 4)>>

DecodeNodeID(vs) ==
    LET n == Word(vs[2], 0)
    IN  IF n \in 1..maxNodeIDLen THEN SubSeq(vs[1], 1, n) ELSE <<>>

\* The hops of a route: as many market ids as the count says.
RouteHops(p) == CASE p = "zero" -> 0 [] p = "ones" -> 1 [] OTHER -> 2

\* The values the caller hands to the builder, field by field.
Values(l, p) ==
    LET plain == [i \in 1..Len(l.fields) |-> FieldValue(l.fields[i], i, p)]
    IN  CASE l = NodeIDHandshake -> EncodeNodeID(NodeID(p))
          [] l = RouteRequest ->
                [plain EXCEPT ![3] = LE(RouteHops(p), 4),
                              ![13] = [j \in 1..32 * RouteHops(p) |-> 100 + j]]
          [] l = RouteStatus /\ p = "mixed" -> [plain EXCEPT ![1] = <<2>>]
          [] OTHER -> plain

\* readRouteRequest: the hop count is bounded by the bytes of the path.
readRouteRequest(vs) ==
    LET hops == {Word(vs[3], 0), Len(vs[13]) \div 32}
        n == CHOOSE h \in hops : \A g \in hops : h <= g
    IN  [vs EXCEPT ![3] = LE(n, 4), ![13] = SubSeq(vs[13], 1, 32 * n)]

\* readRouteStatus: committed is 2, refunded 3; no other phase has a pointer.
readRouteStatus(vs) ==
    IF vs[1] \in {<<2>>, <<3>>} THEN vs
    ELSE [vs EXCEPT ![4] = Zeros(4), ![8] = Zeros(32), ![9] = Zeros(32)]

Decoded(l, data) ==
    LET vs == [i \in 1..Len(l.fields) |->
                 ReadField(data, Root(data), l.fields[i])]
    IN  CASE l = RouteRequest -> readRouteRequest(vs)
          [] l = RouteStatus  -> readRouteStatus(vs)
          [] OTHER            -> vs

(***************************************************************************)
(* The machine.                                                            *)
(***************************************************************************)
Chosen == [lay : Messages, pattern : Patterns, flags : FlagChoices]

Begin(c, r) ==
    /\ lay' = c.lay /\ pattern' = c.pattern /\ flags' = c.flags
    /\ round' = r /\ phase' = "start" /\ next' = 0
    /\ start' = [k \in {"pooled", "fresh"} |-> 0]
    /\ out' = [k \in {"pooled", "fresh"} |-> <<>>]

Init ==
    /\ \E c \in Chosen : lay = c.lay /\ pattern = c.pattern /\ flags = c.flags
    /\ round = 1 /\ phase = "start" /\ next = 0
    /\ start = [k \in {"pooled", "fresh"} |-> 0]
    /\ builder = [k \in {"pooled", "fresh"} |-> newBuilder(Capacity)]
    /\ out = [k \in {"pooled", "fresh"} |-> <<>>]

\* b.StartObject(size), the first call of every build function.
BuildStart ==
    /\ phase = "start"
    /\ LET o == [k \in DOMAIN builder |-> StartObject(builder[k], lay.size)]
       IN  /\ builder' = [k \in DOMAIN o |-> o[k].b]
           /\ start' = [k \in DOMAIN o |-> o[k].s]
    /\ phase' = "set"
    /\ UNCHANGED <<lay, pattern, flags, round, next, out>>

\* The next Set call.
BuildSet ==
    /\ phase = "set" /\ next < Len(lay.fields)
    /\ next' = next + 1
    /\ builder' = [k \in DOMAIN builder |->
                     WriteField(builder[k], start[k], lay.size,
                                lay.fields[next + 1],
                                Values(lay, pattern)[next + 1])]
    /\ UNCHANGED <<lay, pattern, flags, round, phase, start, out>>

\* FinishAsRoot, then Finish or FinishWithFlags.
BuildFinish ==
    /\ phase = "set" /\ next = Len(lay.fields)
    /\ builder' = [k \in DOMAIN builder |->
                     LET b == FinishAsRoot(builder[k], start[k])
                     IN  IF flags = <<>> THEN Finish(b)
                         ELSE FinishWithFlags(b, flags)]
    /\ out' = [k \in DOMAIN builder |->
                 SubSeq(builder'[k].buf, 1, builder'[k].pos)]
    /\ phase' = "sent"
    /\ UNCHANGED <<lay, pattern, flags, round, next, start>>

\* PutBuilder, then GetBuilder for the next message.
Reuse(c) ==
    /\ phase = "sent" /\ round < Rounds
    /\ Begin(c, round + 1)
    /\ builder' = [pooled |-> Reset(builder.pooled),
                   fresh  |-> newBuilder(Capacity)]

\* The pointer and length words of the object at o.
Cells(o, fields) ==
    UNION {{o + f.at} \cup (IF f.kind = "nested" THEN {} ELSE {o + f.at + 4}) :
             f \in {g \in ToSet(fields) : g.kind \notin {"fixed", "bool"}}}

\* The slots of a list of pointers.
Slots(data, o, f) ==
    LET l == ListStride(data, o + f.at, 4)
    IN  IF f.kind # "listNested" \/ l = <<>> THEN {}
        ELSE {l[1] + 4 * i : i \in 0..l[2] - 1}

\* The pointer and length words of the finished message: of its header, of its
\* root object and of what that points to.
WordsAt ==
    LET data == out.fresh
        o == start.fresh
    IN  {8, 12} \cup Cells(o, lay.fields)
          \cup UNION {Slots(data, o, f)
                         \cup UNION {Cells(e, f.elem.fields) : e \in Pointed(data, o, f)} :
                       f \in {g \in ToSet(lay.fields) :
                                g.kind \in {"nested", "list", "listNested"}}}

\* The bytes arrive with one of those words holding something else.
Overwrite(p, w) ==
    /\ phase = "sent" /\ round = 1
    /\ phase' = "overwritten"
    /\ out' = [out EXCEPT !.fresh = Put(out.fresh, p, w)]
    /\ UNCHANGED <<lay, pattern, flags, round, next, start, builder>>

Next ==
    \/ BuildStart
    \/ BuildSet
    \/ BuildFinish
    \/ \E c \in Chosen : Reuse(c)
    \/ \E p \in WordsAt, w \in Words : Overwrite(p, w)

Spec == Init /\ [][Next]_vars

(***************************************************************************)
(* Properties.                                                             *)
(***************************************************************************)

\* The cursor is never behind the header nor past the buffer.
TypeOK ==
    /\ phase \in {"start", "set", "sent", "overwritten"}
    /\ round \in 1..Rounds /\ next \in 0..Len(lay.fields)
    /\ \A k \in DOMAIN builder :
         builder[k].pos \in HeaderSize..Len(builder[k].buf)

\* A finished message parses, and every field the builder was given is what
\* its reader returns: no field overlaps another, no tail, list or nested
\* object lands on a field set later, and a buffer that grew in the middle
\* kept what it held.  The two readers that give back less do so only where
\* they say: readRouteStatus keeps the export pointer for a terminal phase,
\* EncodeNodeIDHandshake cuts a name to sixty bytes.
ReadsBack ==
    phase = "sent" =>
        LET data == Parse(out.pooled)
            vs == Values(lay, pattern)
        IN  /\ data = out.pooled
            /\ CASE lay = RouteStatus /\ pattern # "mixed" ->
                        /\ Decoded(lay, data) = [vs EXCEPT ![4] = Zeros(4),
                                                           ![8] = Zeros(32),
                                                           ![9] = Zeros(32)]
                 [] lay = NodeIDHandshake ->
                        DecodeNodeID(Decoded(lay, data))
                            = Cut(NodeID(pattern), maxNodeIDLen)
                 [] OTHER -> Decoded(lay, data) = vs

\* What an earlier message left in a pooled builder's buffer never shows in
\* a later one: padding, unset fields and tails are the bytes a new builder
\* emits.  The flag word is the exception: Reset leaves it, and Finish
\* writes none.
ReuseInvisible ==
    phase = "sent" =>
        /\ Slice(out.pooled, 0, 6) = Slice(out.fresh, 0, 6)
        /\ Slice(out.pooled, 8, Len(out.pooled)) = Slice(out.fresh, 8, Len(out.fresh))
        /\ flags # <<>> => out.pooled = out.fresh

\* What a reader of field f of the object at o hands out is in the message, and
\* a byte field's bytes lie behind its own cell and behind the header.
LeafInside(data, o, f) ==
    LET span == CASE f.kind = "fixed" -> FixedSpan(data, o, f.at, f.width)
                  [] f.kind = "bool"  -> FixedSpan(data, o, f.at, 1)
                  [] f.kind = "bytes" -> Bytes(data, o, f.at)
    IN  span # <<>> =>
          /\ span[1] <= span[2] /\ span[2] <= Len(data)
          /\ f.kind = "bytes" => span[1] >= HeaderSize /\ span[1] > o + f.at

\* Whatever one pointer or length word holds, of the message or of an object in
\* it, no reader hands out bytes outside the message; and what is reached by
\* following a pointer, nested objects and list elements with their own fields
\* and tails included, lies whole behind the header.  The root is not reached
\* that way: Root and Wrap take the header's word for it, so the inline fields
\* of a message whose root word is below HeaderSize read the header, although
\* v1/view.go counts "header-alias safety" among what Parse validates.
StaysInside ==
    phase = "overwritten" =>
        LET data == Parse(out.fresh)
            o == Root(data)
        IN  data # <<>> =>
              \A f \in ToSet(lay.fields) :
                /\ f.kind \in {"fixed", "bool", "bytes"} => LeafInside(data, o, f)
                /\ \A e \in Pointed(data, o, f) :
                     /\ HeaderSize <= e /\ e + f.elem.size <= Len(data)
                     /\ \A g \in ToSet(f.elem.fields) : LeafInside(data, e, g)

\* v1/list.go:48-49: "every element in a homogeneous list occupies exactly
\* that many bytes", so that the element At(i) returns is the one appended
\* as the i-th.
ElementsReadBack ==
    phase = "sent" =>
        \A i \in DOMAIN lay.fields :
            lay.fields[i].kind = "list" =>
                ReadField(out.fresh, Root(out.fresh), lay.fields[i])
                    = Values(lay, pattern)[i]
=============================================================================

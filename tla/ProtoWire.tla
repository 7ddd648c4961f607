----------------------------- MODULE ProtoWire -----------------------------
(***************************************************************************)
(* The wire format of the messages between the chain, the engine and the   *)
(* sandboxes (pb/protogo/dockervm_message.pb.go): what every generated     *)
(* Marshal, Size and Unmarshal does with a field of a given kind.          *)
(*                                                                         *)
(* A string or a []byte is a sequence of bytes.  An integer of 64 bits is  *)
(* the sequence of its 7-bit groups, the lowest one first, without leading *)
(* zeros, so 0 is <<>> and -1 has ten groups.  Nil and empty are the same. *)
(* The errors of Unmarshal are all one, Err.                               *)
(***************************************************************************)
EXTENDS Naturals, Sequences, FiniteSetsExt, SequencesExt

Err == [ok |-> FALSE, i |-> 0]

\* The 7-bit groups without leading zeros.
Trim(d) == SubSeq(d, 1, Max({0} \cup {k \in 1 .. Len(d) : d[k] # 0}))

\* The groups of a small number, a length.
Groups(n) == Trim(<<n % 128, (n \div 128) % 128, n \div 16384>>)

-----------------------------------------------------------------------------
(* Writing.  The code fills the buffer from its end, field by field from   *)
(* the last to the first.                                                  *)

encodeVarint(d) ==
    IF d = <<>> THEN <<0>>
    ELSE [k \in 1 .. Len(d) |-> d[k] + IF k < Len(d) THEN 128 ELSE 0]

\* A field of wire type 2: tag, length, content.
PutBytes(n, bs) == <<8 * n + 2>> \o encodeVarint(Groups(Len(bs))) \o bs

\* The operators below return the sequence of the fields they write.
PutVarint(n, d) == IF d = <<>> THEN <<>> ELSE << <<8 * n>> \o encodeVarint(d) >>

PutString(n, s) == IF s = <<>> THEN <<>> ELSE <<PutBytes(n, s)>>

\* Repeated fields, and a message that is not nil.
PutAll(n, ss) == [k \in 1 .. Len(ss) |-> PutBytes(n, ss[k])]

\* One entry per key, in the order in which the range over the map gives them.
PutMap(n, f, order) ==
    LET keys == SelectSeq(order, LAMBDA k : k \in DOMAIN f)
    IN [e \in 1 .. Len(keys) |->
            PutBytes(n, PutBytes(1, keys[e]) \o FlattenSeq(PutString(2, f[keys[e]])))]

-----------------------------------------------------------------------------
(* Sizes.                                                                  *)

\* (Len64(x | 1) + 6) / 7
sov(d) == Max({1, Len(d)})

SizeVarint(d) == IF d = <<>> THEN 0 ELSE 1 + sov(d)

SizeBytes(l) == 1 + l + sov(Groups(l))

SizeString(s) == IF s = <<>> THEN 0 ELSE SizeBytes(Len(s))

\* Mutant: the value of an entry is counted when it is empty, too.
SizeEntry_Empty(k, v) == SizeBytes(SizeBytes(Len(k)) + SizeBytes(Len(v)))

SizeEntry(k, v) == SizeBytes(SizeBytes(Len(k)) + SizeString(v))

SizeMap(f) == MapThenSumSet(LAMBDA k : SizeEntry(k, f[k]), DOMAIN f)

\* Repeated fields of the given lengths.
SizeAll(lens) == FoldLeft(LAMBDA n, l : n + SizeBytes(l), 0, lens)

-----------------------------------------------------------------------------
(* Reading, from index i on.                                               *)

\* F of what was read, unless that was an error.
Then(r, F(_)) == IF r.ok THEN F(r) ELSE Err

\* The groups of bs[i .. e].
ReadGroups(bs, i, e) ==
    [ok |-> TRUE, i |-> e + 1, d |-> [k \in 1 .. e - i + 1 |-> bs[i + k - 1] % 128]]

\* At most ten bytes, of which the last is below 0x80.
Varint(bs, i) ==
    LET ends == {j \in i .. Min({i + 9, Len(bs)}) : bs[j] < 128}
    IN IF ends = {} THEN Err ELSE ReadGroups(bs, i, Min(ends))

\* What is kept of the groups in 64 and in 32 bits.
Uint64(d) == Trim([k \in DOMAIN d |-> IF k = 10 THEN d[k] % 2 ELSE d[k]])

Uint32(d) ==
    Trim([k \in 1 .. Min({5, Len(d)}) |-> IF k = 5 THEN d[k] % 16 ELSE d[k]])

Int32(d) ==
    LET u == Uint32(d)
    IN IF Len(u) = 5 /\ u[5] >= 8
       THEN SubSeq(u, 1, 4) \o <<u[5] + 112, 127, 127, 127, 127, 1>>
       ELSE u

\* The number of a field: int32(wire >> 3), 0 for a negative one.
FieldNum(d) ==
    LET g == [k \in 1 .. 5 |-> IF k <= Len(d) THEN d[k] ELSE 0]
    IN IF g[5] >= 64 THEN 0
       ELSE g[1] \div 8 + 16 * g[2] + 2048 * g[3] + 262144 * g[4] + 33554432 * g[5]

\* The n bytes from index i on.
Slice(bs, i, n) ==
    IF i + n - 1 > Len(bs) THEN Err
    ELSE [ok |-> TRUE, i |-> i + n, s |-> SubSeq(bs, i, i + n - 1)]

\* A length and that many bytes.  A length of more than three groups is negative
\* or goes past the end.
Content(bs, i) ==
    Then(Varint(bs, i), LAMBDA v :
        IF Len(Trim(v.d)) > 3 THEN Err
        ELSE Slice(bs, v.i, FoldRight(LAMBDA g, n : g + 128 * n, Trim(v.d), 0)))

\* skipDockervmMessage: the index after the field at i, groups included.
RECURSIVE Skipped(_, _, _)
Skipped(bs, i, depth) ==
    Then(Varint(bs, i), LAMBDA tag :
        LET wireType == tag.d[1] % 8
            Leave(r, inner) ==
                Then(r, LAMBDA x : IF inner = 0 THEN x ELSE Skipped(bs, x.i, inner))
        IN CASE wireType = 0 -> Leave(Varint(bs, tag.i), depth)
             [] wireType = 1 -> Leave([ok |-> TRUE, i |-> tag.i + 8], depth)
             [] wireType = 2 -> Leave(Content(bs, tag.i), depth)
             [] wireType = 3 -> Leave(tag, depth + 1)
             [] wireType = 4 /\ depth > 0 -> Leave(tag, depth - 1)
             [] wireType = 5 -> Leave([ok |-> TRUE, i |-> tag.i + 4], depth)
             [] OTHER -> Err)

\* Mutant: a field may go on after the end of the message.
skip_PastEnd(bs, i) == Skipped(bs, i, 0)

skip(bs, i) == Then(Skipped(bs, i, 0), LAMBDA s : IF s.i > Len(bs) + 1 THEN Err ELSE s)

\* The entry of a map in bs[i .. post - 1]; a key or a value is only checked
\* against the end of the message.
RECURSIVE Entry(_, _, _, _, _)
Entry(bs, i, post, k, v) ==
    IF i >= post THEN [ok |-> TRUE, i |-> post, k |-> k, v |-> v]
    ELSE Then(Varint(bs, i), LAMBDA tag :
        LET num == FieldNum(tag.d)
        IN CASE num = 1 -> Then(Content(bs, tag.i), LAMBDA c : Entry(bs, c.i, post, c.s, v))
             [] num = 2 -> Then(Content(bs, tag.i), LAMBDA c : Entry(bs, c.i, post, k, c.s))
             [] OTHER -> Then(skip(bs, i), LAMBDA s :
                            IF s.i > post THEN Err ELSE Entry(bs, s.i, post, k, v)))

-----------------------------------------------------------------------------
(* What Unmarshal does with a field f: its number, its wire type, the      *)
(* bytes of the message, where it begins and where its content begins.     *)
(* The result is the message with the field set and the next index.        *)

FieldAt(bs, i, tag) ==
    [num |-> FieldNum(tag.d), wireType |-> tag.d[1] % 8, bs |-> bs, pre |-> i, i |-> tag.i]

Result(m, i) == [ok |-> TRUE, i |-> i, m |-> m]

GetVarint(f, Set(_)) ==
    IF f.wireType # 0 THEN Err
    ELSE Then(Varint(f.bs, f.i), LAMBDA v : Result(Set(v.d), v.i))

GetBytes(f, Set(_)) ==
    IF f.wireType # 2 THEN Err
    ELSE Then(Content(f.bs, f.i), LAMBDA c : Result(Set(c.s), c.i))

GetMap(f, old, Set(_)) ==
    IF f.wireType # 2 THEN Err
    ELSE Then(Content(f.bs, f.i), LAMBDA c :
            Then(Entry(f.bs, c.i - Len(c.s), c.i, <<>>, <<>>), LAMBDA e :
                Result(Set([k \in DOMAIN old \cup {e.k} |-> IF k = e.k THEN e.v ELSE old[k]]),
                       e.i)))

\* The message inside, read into the one there is.
GetMessage(f, Read(_), Set(_)) ==
    IF f.wireType # 2 THEN Err
    ELSE Then(Content(f.bs, f.i), LAMBDA c :
            Then(Read(c.s), LAMBDA r : Result(Set(r.m), c.i)))

\* default: the field is not known.
SkipField(f, m) == Then(skip(f.bs, f.pre), LAMBDA s : Result(m, s.i))

=============================================================================

--------------------------- MODULE TypeSerializer ---------------------------
(***************************************************************************)
(* The serialize plugin's conversion of a datatype to one without pointers *)
(* nor unused memory, and the copies of data to and from that form         *)
(* (serialize_type, serialize_copy and deserialize_copy).                  *)
(***************************************************************************)
EXTENDS Datatypes

RECURSIVE SerializeType(_), SerializeCopy(_, _, _), DeserializeCopy(_, _, _)

(* The size of a serialized record: padded at the end with the greatest
   alignment of its members; there is no minimum size. *)
SerializedSize(types) ==
    AlignUp(Laid(types).end, Max({Alignment(types[i]) : i \in DOMAIN types}))

SerializeRecord(d) ==
    LET ts == [i \in DOMAIN d.members |-> SerializeType(d.members[i].type)]
    IN  Record([i \in DOMAIN ts |-> Member(Laid(ts).offsets[i], ts[i], d.members[i].name)], SerializedSize(ts))

SerializeTuple(d) ==
    LET ts == [i \in DOMAIN d.members |-> SerializeType(d.members[i].type)]
    IN  Tuple([i \in DOMAIN ts |-> Element(Laid(ts).offsets[i], ts[i])], SerializedSize(ts))

SerializeType(d) ==
    CASE d.t = "scalar"  -> d
      [] d.t = "array"   -> Array(SerializeType(d.sub), d.subsize, 0, d.subsize)
      [] d.t = "record"  -> SerializeRecord(d)
      [] d.t = "pointer" -> SerializeType(d.sub)
      [] d.t = "tuple"   -> SerializeTuple(d)

(* What a copy did: the bytes moved and their count *)
Moved(moves, bytes) == [moves |-> moves, bytes |-> bytes]

(* The elements are laid one after the other by the count of copied bytes *)
SerializeCopyArray(d, to, from) ==
    LET step  == Buffersize(d.sub)
        first == Aligned(to, Alignment(SerializeType(d.sub)))
    IN  FoldLeft(LAMBDA acc, i :
                     LET c == SerializeCopy(d.sub, Plus(first, acc.bytes), Plus(from, (d.start + i) * step))
                     IN  Moved(acc.moves \union c.moves, acc.bytes + c.bytes),
                 Moved({}, 0), [i \in 1 .. d.subsize |-> i - 1])

SerializeCopyRecord(d, to, from) ==
    LET ser == SerializeType(d).members
    IN  FoldLeft(LAMBDA acc, i :
                     LET c == SerializeCopy(d.members[i].type, Plus(to, ser[i].disp), Plus(from, d.members[i].disp))
                     IN  Moved(acc.moves \union c.moves, acc.bytes + c.bytes),
                 Moved({}, 0), [i \in DOMAIN ser |-> i])

SerializeCopyTuple(d, to, from) == SerializeCopyRecord(d, to, from)

SerializeCopy(d, to, from) ==
    CASE d.t = "scalar"  -> Moved(Bytes(to, from, d.size), d.size)
      [] d.t = "array"   -> SerializeCopyArray(d, to, from)
      [] d.t = "record"  -> SerializeCopyRecord(d, to, from)
      [] d.t = "pointer" -> SerializeCopy(d.sub, to, Pointee(from))
      [] d.t = "tuple"   -> SerializeCopyTuple(d, to, from)

(* Faulty: the elements are written from the start of the buffer *)
DeserializeCopyArrayUnshifted(d, to, from) ==
    FoldLeft(LAMBDA acc, i :
                 LET c == DeserializeCopy(d.sub, Plus(to, i * Buffersize(d.sub)), Plus(from, acc.bytes))
                 IN  Moved(acc.moves \union c.moves, acc.bytes + c.bytes),
             Moved({}, 0), [i \in 1 .. d.subsize |-> i - 1])

DeserializeCopyArray(d, to, from) ==
    FoldLeft(LAMBDA acc, i :
                 LET c == DeserializeCopy(d.sub, Plus(to, (d.start + i) * Buffersize(d.sub)), Plus(from, acc.bytes))
                 IN  Moved(acc.moves \union c.moves, acc.bytes + c.bytes),
             Moved({}, 0), [i \in 1 .. d.subsize |-> i - 1])

DeserializeCopyRecord(d, to, from) ==
    LET ser == SerializeType(d).members
    IN  FoldLeft(LAMBDA acc, i :
                     LET c == DeserializeCopy(d.members[i].type, Plus(to, d.members[i].disp), Plus(from, ser[i].disp))
                     IN  Moved(acc.moves \union c.moves, acc.bytes + c.bytes),
                 Moved({}, 0), [i \in DOMAIN ser |-> i])

DeserializeCopyTuple(d, to, from) == DeserializeCopyRecord(d, to, from)

DeserializeCopy(d, to, from) ==
    CASE d.t = "scalar"  -> Moved(Bytes(to, from, d.size), d.size)
      [] d.t = "array"   -> DeserializeCopyArray(d, to, from)
      [] d.t = "record"  -> DeserializeCopyRecord(d, to, from)
      [] d.t = "pointer" -> DeserializeCopy(d.sub, Pointee(to), from)
      [] d.t = "tuple"   -> DeserializeCopyTuple(d, to, from)

=============================================================================

----------------------------- MODULE Datatypes -----------------------------
(***************************************************************************)
(* The datatypes of PDI: the memory layout of a data (scalar_datatype,     *)
(* array_datatype, record_datatype, tuple_datatype and pointer_datatype),  *)
(* its dense form, the access to its parts and the copies to and from the  *)
(* dense form.  A datatype is a record whose field t names its class; the  *)
(* kind of a scalar, the names' spelling and the attributes are left out.  *)
(*                                                                         *)
(* An address is a block and an offset in it; the pointer stored at <<b,o>>*)
(* points to the start of the block Append(b, o).  A copy is the set of    *)
(* the pairs <<to, from>> of the bytes it moves, so that where a byte came *)
(* from can be read off the copy.                                          *)
(***************************************************************************)
EXTENDS Integers, Sequences, FiniteSets, SequencesExt, FiniteSetsExt

CONSTANTS
    PointerSize,        \* sizeof(void*)
    SizeValues          \* the number of values of a size_t

ASSUME PointerSizeAssumption == PointerSize \in Nat \ {0}
ASSUME SizeValuesAssumption == SizeValues \in Nat \ {0}

Scalar(size, dense, align, managed) ==
    [t |-> "scalar", size |-> size, dense |-> dense, align |-> align, managed |-> managed]

Array(sub, size, start, subsize) ==
    [t |-> "array", sub |-> sub, size |-> size, start |-> start, subsize |-> subsize]

Member(disp, type, name) == [disp |-> disp, type |-> type, name |-> name]

Record(members, buffersize) == [t |-> "record", members |-> members, buffersize |-> buffersize]

Element(disp, type) == [disp |-> disp, type |-> type]

Tuple(elements, buffersize) == [t |-> "tuple", members |-> elements, buffersize |-> buffersize]

Pointer(sub, managed) == [t |-> "pointer", sub |-> sub, managed |-> managed]

\* The result of an access that the datatype does not support (Type_error) or
\* that is out of its range (Value_error).
TypeError  == [t |-> "Type_error"]
ValueError == [t |-> "Value_error"]

\* The result of an access that reads beyond the elements of the type.
Undefined == [t |-> "undefined"]

Max2(a, b) == IF a > b THEN a ELSE b

(* The first multiple of align that is not below n *)
AlignUp(n, align) == n + ((align - (n % align)) % align)

Plus(a, n) == <<a[1], a[2] + n>>

Aligned(a, align) == <<a[1], AlignUp(a[2], align)>>

Pointee(a) == <<Append(a[1], a[2]), 0>>

-----------------------------------------------------------------------------
(* Sizes, alignment, density                                               *)

RECURSIVE Alignment(_), Buffersize(_), Datasize(_), Simple(_), Dense(_), Densify(_)

Types(members) == [i \in DOMAIN members |-> members[i].type]

RecordAlignment(members) == Max({1} \union {Alignment(members[i].type) : i \in DOMAIN members})

Alignment(d) ==
    CASE d.t = "scalar"  -> d.align
      [] d.t = "array"   -> Alignment(d.sub)
      [] d.t = "pointer" -> PointerSize
      [] OTHER           -> RecordAlignment(d.members)

ArrayBuffersize(d) == d.size * Buffersize(d.sub)

Buffersize(d) ==
    CASE d.t = "scalar"  -> d.dense
      [] d.t = "array"   -> ArrayBuffersize(d)
      [] d.t = "pointer" -> PointerSize
      [] OTHER           -> d.buffersize

Datasize(d) ==
    CASE d.t = "scalar"  -> d.size
      [] d.t = "array"   -> d.subsize * Datasize(d.sub)
      [] d.t = "pointer" -> PointerSize
      [] OTHER           -> FoldLeft(LAMBDA n, m : n + Datasize(m.type), 0, d.members)

Simple(d) ==
    CASE d.t \in {"scalar", "pointer"} -> ~d.managed
      [] d.t = "array"                 -> Simple(d.sub)
      [] OTHER                         -> \A i \in DOMAIN d.members : Simple(d.members[i].type)

(* The offsets of a sequence of types laid one after the other, each aligned,
   and the offset after the last one *)
Laid(types) ==
    FoldLeft(LAMBDA acc, type :
                 LET o == AlignUp(acc.end, Alignment(type))
                 IN  [offsets |-> Append(acc.offsets, o), end |-> o + Buffersize(type)],
             [offsets |-> <<>>, end |-> 0], types)

(* The size of a record with these types: padded at the end, one byte at least *)
Padded(types, align) == Max2(1, AlignUp(Laid(types).end, align))

RecordDensify(d) ==
    LET ts == [i \in DOMAIN d.members |-> Densify(d.members[i].type)]
    IN  Record([i \in DOMAIN ts |-> Member(Laid(ts).offsets[i], ts[i], d.members[i].name)],
               Padded(ts, Alignment(d)))

(* Faulty: no padding at the end of the tuple *)
TupleDensifyUnpadded(d) ==
    LET ts == [i \in DOMAIN d.members |-> Densify(d.members[i].type)]
    IN  Tuple([i \in DOMAIN ts |-> Element(Laid(ts).offsets[i], ts[i])], Max2(1, Laid(ts).end))

TupleDensify(d) ==
    LET ts == [i \in DOMAIN d.members |-> Densify(d.members[i].type)]
    IN  Tuple([i \in DOMAIN ts |-> Element(Laid(ts).offsets[i], ts[i])], Padded(ts, Alignment(d)))

ArrayDensify(d) == Array(Densify(d.sub), d.subsize, 0, d.subsize)

Densify(d) ==
    CASE d.t = "scalar"  -> Scalar(d.dense, d.dense, d.align, d.managed)
      [] d.t = "array"   -> ArrayDensify(d)
      [] d.t = "pointer" -> Pointer(Densify(d.sub), d.managed)
      [] d.t = "record"  -> RecordDensify(d)
      [] d.t = "tuple"   -> TupleDensify(d)

RecordDense(d) ==
    LET ts == Types(d.members)
    IN  /\ \A i \in DOMAIN ts : Dense(ts[i]) /\ d.members[i].disp <= Laid(ts).offsets[i]
        /\ d.buffersize <= Padded(ts, Alignment(d))

TupleDense(d) == RecordDense(d)

Dense(d) ==
    CASE d.t = "scalar"  -> d.dense = d.size
      [] d.t = "pointer" -> TRUE
      [] d.t = "array"   -> d.size = d.subsize /\ Dense(d.sub)
      [] d.t = "record"  -> RecordDense(d)
      [] d.t = "tuple"   -> TupleDense(d)

-----------------------------------------------------------------------------
(* Access to the parts: the type of the part and its address               *)

RECURSIVE Index(_, _, _), Slice(_, _, _, _), MemberOf(_, _, _)

ArrayIndex(d, i, at) ==
    IF i < d.subsize
    THEN [at |-> Plus(at, Buffersize(d.sub) * (d.start + i)), type |-> d.sub]
    ELSE [at |-> at, type |-> ValueError]

TupleIndex(d, i, at) ==
    IF i < Len(d.members)
    THEN [at |-> Plus(at, d.members[i + 1].disp), type |-> d.members[i + 1].type]
    ELSE [at |-> at, type |-> ValueError]

Index(d, i, at) ==
    CASE d.t = "array"   -> ArrayIndex(d, i, at)
      [] d.t = "tuple"   -> TupleIndex(d, i, at)
      [] d.t = "pointer" -> Index(d.sub, i, Pointee(at))
      [] OTHER           -> [at |-> at, type |-> TypeError]

(* The start is compared with nothing: after the end, the size wraps around *)
ArraySlice(d, from, to, at) ==
    LET size == (to - from) % SizeValues
    IN  [at   |-> Plus(at, Buffersize(d.sub) * (d.start + from)),
         type |-> IF to <= d.subsize THEN Array(d.sub, size, 0, size) ELSE ValueError]

(* The size of a slice that stops before the last element is read from the
   element after the one that follows the slice *)
TupleSliceSize(d, from, to) ==
    IF to = Len(d.members) THEN d.buffersize - d.members[from + 1].disp
    ELSE (d.members[to + 2].disp - d.members[from + 1].disp) % SizeValues

(* The elements read are the first of the slice and, unless the slice goes to
   the end, the second after it *)
TupleSlice(d, from, to, at) ==
    LET n == Len(d.members)
    IN  CASE to > n -> [at |-> at, type |-> ValueError]
          [] from >= n \/ to + 1 = n -> [at |-> at, type |-> Undefined]
          [] OTHER ->
                [at   |-> Plus(at, d.members[from + 1].disp),
                 type |-> Tuple([i \in 1 .. to - from |->
                                    Element(d.members[from + i].disp - d.members[from + 1].disp, d.members[from + i].type)],
                                TupleSliceSize(d, from, to))]

Slice(d, from, to, at) ==
    CASE d.t = "array"   -> ArraySlice(d, from, to, at)
      [] d.t = "tuple"   -> TupleSlice(d, from, to, at)
      [] d.t = "pointer" -> Slice(d.sub, from, to, Pointee(at))
      [] OTHER           -> [at |-> at, type |-> TypeError]

RecordMember(d, name, at) ==
    IF \E i \in DOMAIN d.members : d.members[i].name = name
    THEN LET m == d.members[Min({i \in DOMAIN d.members : d.members[i].name = name})]
         IN  [at |-> Plus(at, m.disp), type |-> m.type]
    ELSE [at |-> at, type |-> ValueError]

MemberOf(d, name, at) ==
    CASE d.t = "record"  -> RecordMember(d, name, at)
      [] d.t = "pointer" -> MemberOf(d.sub, name, Pointee(at))
      [] OTHER           -> [at |-> at, type |-> TypeError]

Dereference(d, at) ==
    IF d.t = "pointer" THEN [at |-> Pointee(at), type |-> d.sub] ELSE [at |-> at, type |-> TypeError]

-----------------------------------------------------------------------------
(* Copies                                                                  *)

Bytes(to, from, n) == {<<Plus(to, i), Plus(from, i)>> : i \in 0 .. n - 1}

(* What a copy did: the bytes moved, the addresses where a copy function built
   an object, and the pointers it goes on with *)
Progress(to, from, moves, built) == [to |-> to, from |-> from, moves |-> moves, built |-> built]

After(done, next) ==
    Progress(next.to, next.from, done.moves \union next.moves, done.built \union next.built)

Memcpy(to, from, n) == Progress(Plus(to, n), Plus(from, n), Bytes(to, from, n), {})

RECURSIVE ToDense(_, _, _), FromDense(_, _, _), Destroy(_, _)

ScalarToDense(d, to, from) ==
    LET copy == Memcpy(to, from, Datasize(d))
    IN  IF d.managed THEN [copy EXCEPT !.built = {to}] ELSE copy

PointerToDense(d, to, from) == ScalarToDense(d, to, from)

(* Faulty: the whole buffer is copied, not only the selected elements *)
ArrayToDenseWhole(d, to, from) == Memcpy(to, from, Buffersize(d))

ArrayToDense(d, to, from) ==
    LET step  == Buffersize(d.sub)
        first == Plus(from, d.start * step)
    IN  IF Simple(d.sub) /\ Dense(d.sub)
        THEN Memcpy(to, first, Datasize(d))
        ELSE FoldLeft(LAMBDA acc, i :
                          After(acc, ToDense(d.sub, Aligned(acc.to, Alignment(d.sub)), Plus(first, i * step))),
                      Progress(to, from, {}, {}), [i \in 1 .. d.subsize |-> i - 1])

RecordToDense(d, to, from) ==
    IF Simple(d) /\ Dense(d)
    THEN Memcpy(to, from, d.buffersize)
    ELSE FoldLeft(LAMBDA acc, m :
                      After(acc, ToDense(m.type, Aligned(acc.to, Alignment(m.type)), Plus(from, m.disp))),
                  Progress(to, from, {}, {}), d.members)

TupleToDense(d, to, from) == RecordToDense(d, to, from)

ToDense(d, to, from) ==
    CASE d.t = "scalar"  -> ScalarToDense(d, to, from)
      [] d.t = "pointer" -> PointerToDense(d, to, from)
      [] d.t = "array"   -> ArrayToDense(d, to, from)
      [] d.t = "record"  -> RecordToDense(d, to, from)
      [] d.t = "tuple"   -> TupleToDense(d, to, from)

ArrayFromDense(d, to, from) ==
    LET first == Plus(to, d.start * Buffersize(d.sub))
        done  == IF Simple(d.sub) /\ Dense(d.sub)
                 THEN Memcpy(first, from, Datasize(d))
                 ELSE FoldLeft(LAMBDA acc, i :
                                   LET f == Aligned(acc.from, Alignment(d.sub))
                                       c == FromDense(d.sub, Aligned(acc.to, Alignment(d.sub)), f)
                                   IN  After(acc, [c EXCEPT !.from = Plus(f, Datasize(d.sub))]),
                               Progress(first, from, {}, {}), [i \in 1 .. d.subsize |-> i])
    IN  [done EXCEPT !.to = Plus(to, Buffersize(d))]

(* Faulty: the displacement of the members in the data is ignored *)
RecordFromDensePacked(d, to, from) ==
    FoldLeft(LAMBDA acc, m :
                 LET f == Aligned(acc.from, Alignment(m.type))
                     c == FromDense(m.type, Plus(to, f[2] - from[2]), f)
                 IN  After(acc, [c EXCEPT !.from = Plus(f, Datasize(m.type))]),
             Progress(to, from, {}, {}), d.members)

RecordFromDense(d, to, from) ==
    LET done == IF Simple(d) /\ Dense(d)
                THEN Memcpy(to, from, d.buffersize)
                ELSE FoldLeft(LAMBDA acc, m :
                                  LET f == Aligned(acc.from, Alignment(m.type))
                                      c == FromDense(m.type, Plus(to, m.disp), f)
                                  IN  After(acc, [c EXCEPT !.from = Plus(f, Datasize(m.type))]),
                              Progress(to, from, {}, {}), d.members)
    IN  [done EXCEPT !.to = Plus(to, d.buffersize)]

TupleFromDense(d, to, from) == RecordFromDense(d, to, from)

FromDense(d, to, from) ==
    CASE d.t \in {"scalar", "pointer"} -> ScalarToDense(d, to, from)
      [] d.t = "array"                 -> ArrayFromDense(d, to, from)
      [] d.t = "record"                -> RecordFromDense(d, to, from)
      [] d.t = "tuple"                 -> TupleFromDense(d, to, from)

ArrayDestroy(d, at) ==
    IF Simple(d.sub) THEN {}
    ELSE UNION {Destroy(d.sub, Plus(at, i * Buffersize(d.sub))) : i \in d.start .. d.start + d.subsize - 1}

RecordDestroy(d, at) ==
    UNION {Destroy(d.members[i].type, Plus(at, d.members[i].disp)) : i \in DOMAIN d.members}

TupleDestroy(d, at) == RecordDestroy(d, at)

(* The addresses the destroy function is called on *)
Destroy(d, at) ==
    CASE d.t \in {"scalar", "pointer"} -> IF d.managed THEN {at} ELSE {}
      [] d.t = "array"                 -> ArrayDestroy(d, at)
      [] d.t = "record"                -> RecordDestroy(d, at)
      [] d.t = "tuple"                 -> TupleDestroy(d, at)

=============================================================================

-------------------------- MODULE TypedExpressions --------------------------
(***************************************************************************)
(* The expressions of whole nodes of the specification tree: a text, a     *)
(* list of nodes or a map of nodes.  A list is evaluated as an array when  *)
(* its items have one type and as a tuple otherwise, a map as a record; in *)
(* a type imposed by the caller (set_value) the value is copied into it    *)
(* part by part (copy_value of each kind of expression).                   *)
(***************************************************************************)
EXTENDS Expressions

CONSTANTS
    ReadOnly,               \* the data that are shared without the right to write
    TrueWords, FalseWords   \* the characters of the words for the Boolean values

-----------------------------------------------------------------------------
(* Types, with the layout their literals are given                         *)

ScalarType(kind, bytes) == [node |-> "scalar", kind |-> kind, bytes |-> bytes]
ArrayType(of, size)     == [node |-> "array", of |-> of, size |-> size]
TupleType(elements)     == [node |-> "tuple", elements |-> elements]
RecordType(names, ts)   == [node |-> "record", names |-> names, elements |-> ts]

CharType  == ScalarType("uint", 1)
UndefType == ScalarType("unknown", 0)       \* of a null reference, of alignment 0

RECURSIVE Alignment(_), Bytes(_), TypeOf(_)

Alignment(type) ==
    CASE type.node = "scalar" -> type.bytes
      [] type.node = "array"  -> Alignment(type.of)
      [] OTHER -> Max({1} \union {Alignment(type.elements[i]) : i \in DOMAIN type.elements})

Align(at, alignment) == at + ((alignment - (at % alignment)) % alignment)

(* The buffersize: each part is aligned, and so is the end *)
Bytes(type) ==
    CASE type.node = "scalar" -> type.bytes
      [] type.node = "array"  -> type.size * Bytes(type.of)
      [] OTHER -> Align(FoldLeft(LAMBDA at, t : Align(at, Alignment(t)) + Bytes(t), 0, type.elements), Alignment(type))

Array(vs)         == [kind |-> "array", elems |-> vs]
Tuple(vs)         == [kind |-> "tuple", elems |-> vs]
Record(names, vs) == [kind |-> "record", names |-> names,
                      members |-> [x \in Range(names) |-> vs[CHOOSE i \in DOMAIN names : names[i] = x]]]
Text(chars)       == [kind |-> "text", chars |-> chars]
Uninitialised     == [kind |-> "uninitialised"]
Raw               == [kind |-> "raw"]       \* the bytes of a value of another type

TypeOf(v) ==
    CASE IsScalar(v)        -> ScalarType(v.kind, v.bytes)
      [] v = Array(<<>>)    -> UndefType
      [] v.kind = "array"   -> ArrayType(TypeOf(v.elems[1]), Len(v.elems))
      [] v.kind = "text"    -> ArrayType(CharType, Len(v.chars) + 1)
      [] v.kind = "tuple"   -> TupleType([i \in DOMAIN v.elems |-> TypeOf(v.elems[i])])
      [] v.kind = "record"  -> RecordType(v.names, [i \in DOMAIN v.names |-> TypeOf(v.members[v.names[i]])])

-----------------------------------------------------------------------------
(* Nodes of the tree: [node, text], [node, items] or [node, names, items]  *)

(* The first item that does not parse throws, or else the node is built *)
Built(node, items) ==
    LET bad == {i \in DOMAIN items : items[i].node \in {"error", "overrun"}}
    IN  IF bad # {} THEN items[Min(bad)] ELSE node

Sequence(items)       == Built([node |-> "list", items |-> items], items)
Mapping(names, items) == Built([node |-> "map", names |-> names, items |-> items], items)

RECURSIVE ParseTree(_)

(* Impl::parse(PC_tree_t) *)
ParseTree(tree) ==
    CASE tree.node = "scalar" -> ParseText(tree.text)
      [] tree.node = "list"   -> Sequence([i \in DOMAIN tree.items |-> ParseTree(tree.items[i])])
      [] tree.node = "map"    -> Mapping(tree.names, [i \in DOMAIN tree.items |-> ParseTree(tree.items[i])])

(* The first bad value of a sequence, or else v *)
FirstBad(vs, v) ==
    LET bad == {i \in DOMAIN vs : IsBad(vs[i])} IN IF bad = {} THEN v ELSE vs[Min(bad)]

-----------------------------------------------------------------------------
(* Texts                                                                   *)

Character(c) == [char |-> c]

(* A number is written as an integer if it is one *)
Written(v) == IF v.n % v.d = 0 THEN [n |-> v.n \div v.d] ELSE [n |-> v.n, d |-> v.d]

ArrayCharacters(v, of) ==
    IF of.node # "scalar" THEN Error
    ELSE IF of.bytes = 1 /\ of.kind \in {"int", "uint"} THEN Text(v.elems)
    ELSE Text(<<>>)

Characters(v) ==
    IF IsScalar(v) THEN Text(<<Written(v)>>)
    ELSE IF v.kind # "array" THEN Error
    ELSE ArrayCharacters(v, TypeOf(v).of)

(* The to_string of a reference; the same for a literal and an operation,
   which are scalars *)
PieceString(piece, store) ==
    IF piece.node = "character" THEN Text(<<Character(piece.char)>>)
    ELSE LET v == Value(piece, store) IN IF IsBad(v) THEN v ELSE Characters(v)

(* The pieces of a string literal are put together *)
StringOf(ast, store) ==
    FoldLeft(LAMBDA acc, piece : IF IsBad(acc) THEN acc
                                 ELSE LET s == PieceString(piece, store)
                                      IN  IF IsBad(s) THEN s ELSE Text(acc.chars \o s.chars),
             Text(<<>>), ast.pieces)

(* The text of a node: a list is the texts of its items, a map has none *)
Joined(texts) == FirstBad(texts, Text(FlattenSeq([i \in DOMAIN texts |-> texts[i].chars])))

RECURSIVE NodeString(_, _)

NodeString(ast, store) ==
    CASE ast.node = "map"    -> Error
      [] ast.node = "string" -> StringOf(ast, store)
      [] ast.node = "list"   -> Joined([i \in DOMAIN ast.items |-> NodeString(ast.items[i], store)])
      [] OTHER -> PieceString(ast, store)

-----------------------------------------------------------------------------
(* Numbers                                                                 *)

(* A scalar value in a scalar type *)
Convert(v, type) ==
    IF type.kind = "float" THEN [v EXCEPT !.kind = "float", !.bytes = type.bytes]
    ELSE Whole(type.kind, type.bytes, Quotient(v.n, v.d))

Number(v, type) == IF IsBad(v) THEN v ELSE IF IsScalar(v) THEN Convert(v, type) ELSE Error

(* The words for the Boolean values are numbers as well *)
StringNumber(text) ==
    IF IsBad(text) THEN text
    ELSE IF text.chars \in TrueWords THEN Long(1) ELSE IF text.chars \in FalseWords THEN Long(0) ELSE Error

LongOf(ast, store) ==
    CASE ast.node \in {"list", "map"} -> Error
      [] ast.node = "string"          -> StringNumber(StringOf(ast, store))
      [] OTHER                        -> Number(Value(ast, store), ScalarType("int", LongSize))

DoubleOf(ast, store) ==
    CASE ast.node \in {"list", "map"} -> Error
      [] ast.node = "string"          -> FirstBad(<<StringOf(ast, store)>>, Error)
      [] OTHER                        -> Number(Value(ast, store), ScalarType("float", LongSize))

-----------------------------------------------------------------------------
(* Copies into a type                                                      *)

(* An integer literal goes into an integer, a floating point one into a float *)
CopyInt(v, type) ==
    IF type.node = "scalar" /\ type.kind \in {"int", "uint"} THEN Convert(v, type) ELSE Error

CopyFloat(v, type) ==
    IF type.node = "scalar" /\ type.kind = "float" THEN Convert(v, type) ELSE Error

CopyOperation(v, type) ==
    IF IsBad(v) THEN v ELSE IF type.node = "scalar" THEN Convert(v, type) ELSE Error

(* A reference to a whole data is copied byte by byte when the sizes agree,
   whatever the types; one to a part of a data must be a scalar *)
CopyReference(ast, v, type) ==
    IF IsBad(v) THEN v
    ELSE IF ast.accessors # <<>> THEN IF type.node = "scalar" /\ IsScalar(v) THEN Convert(v, type) ELSE Error
    ELSE IF Bytes(TypeOf(v)) # Bytes(type) THEN Error ELSE IF TypeOf(v) = type THEN v ELSE Raw

(* A string and its final null are copied without regard for the array's size *)
CopyString(v, type) ==
    IF ~(type.node = "array" /\ type.of.node = "scalar" /\ type.of.bytes = 1) THEN Error
    ELSE IF IsBad(v) THEN v
    ELSE IF Len(v.chars) + 1 > type.size THEN Trap ELSE v

RECURSIVE CopyValue(_, _, _)

(* The length of a list is compared with that of the array after the copy *)
FilledArray(vs, size) ==
    FirstBad(vs, CASE Len(vs) > size -> Trap
                   [] Len(vs) < size -> Error
                   [] OTHER -> Array(vs))

CopyToArray(items, type, store) ==
    FilledArray([i \in 1 .. Min({Len(items), type.size + 1}) |-> CopyValue(items[i], type.of, store)], type.size)

(* That of a tuple of n elements never is *)
FilledTuple(vs, overrun, n) ==
    FirstBad(vs, IF overrun THEN Trap
                 ELSE Tuple([i \in 1 .. n |-> IF i \in DOMAIN vs THEN vs[i] ELSE Uninitialised]))

CopyToTuple(items, type, store) ==
    LET n == Len(type.elements)
    IN  FilledTuple([i \in 1 .. Min({Len(items), n}) |-> CopyValue(items[i], type.elements[i], store)],
                    Len(items) > n, n)

(* The members the map does not name keep what the memory held *)
FilledRecord(vs, names, type) ==
    LET named(i) == CHOOSE j \in DOMAIN names : names[j] = type.names[i]
    IN  FirstBad(vs, Record(type.names, [i \in DOMAIN type.names |->
                        IF type.names[i] \in Range(names) THEN vs[named(i)] ELSE Uninitialised]))

CopyToRecord(names, items, type, store) ==
    LET at(x) == CHOOSE i \in DOMAIN type.names : type.names[i] = x
    IN  FilledRecord([i \in DOMAIN items |-> IF names[i] \notin Range(type.names) THEN Error
                                             ELSE CopyValue(items[i], type.elements[at(names[i])], store)],
                     names, type)

(* copy_value of each kind of expression *)
CopyValue(ast, type, store) ==
    CASE ast.node = "literal"   ->
            IF ast.value.kind = "float" THEN CopyFloat(ast.value, type) ELSE CopyInt(ast.value, type)
      [] ast.node = "operation" -> CopyOperation(Value(ast, store), type)
      [] ast.node = "reference" -> CopyReference(ast, Value(ast, store), type)
      [] ast.node = "string"    -> CopyString(StringOf(ast, store), type)
      [] ast.node = "list" ->
            IF type.node = "array" THEN CopyToArray(ast.items, type, store)
            ELSE IF type.node = "tuple" THEN CopyToTuple(ast.items, type, store) ELSE Error
      [] ast.node = "map" ->
            IF type.node = "record" THEN CopyToRecord(ast.names, ast.items, type, store) ELSE Error

(* Impl::to_ref(ctx, type): no memory is allocated with the alignment 0 *)
EvaluatedIn(ast, type, store) == IF Alignment(type) = 0 THEN Error ELSE CopyValue(ast, type, store)

-----------------------------------------------------------------------------
(* Evaluation without a type                                               *)

(* Faulty: the items are compared with their neighbour at the front only *)
AllSameFront(types) == Len(types) > 1 => types[1] = types[2]

AllSame(types) == \A i \in DOMAIN types : types[i] = types[1]

(* What to_ref grants write access to: operations are read only *)
Writable(ast) == ast.node # "operation" /\ (ast.node = "reference" => ast.name \notin ReadOnly)

(* The literal of a list: the type is deduced from those of the items, each of
   which is then evaluated again into it *)
ListValue(ast, types, store) ==
    IF types = <<>> THEN Array(<<>>)
    ELSE IF ~AllSame(types) /\ UndefType \in Range(types) THEN Trap
    ELSE EvaluatedIn(ast, IF AllSame(types) THEN ArrayType(types[1], Len(types)) ELSE TupleType(types), store)

(* The literal of a map asks each item for write access to know its type; the
   null reference it gets otherwise has the alignment 0, by which it divides *)
Taken(item, v) ==
    IF IsBad(v) \/ (Writable(item) /\ TypeOf(v) # UndefType) THEN v ELSE Trap

MapValue(ast, vs, store) ==
    FirstBad([i \in DOMAIN vs |-> Taken(ast.items[i], vs[i])],
             EvaluatedIn(ast, RecordType(ast.names, [i \in DOMAIN vs |-> TypeOf(vs[i])]), store))

(* The value of a list or a map from the values of its items *)
LiteralValue(ast, vs, store) ==
    IF ast.node = "list" THEN FirstBad(vs, ListValue(ast, [i \in DOMAIN vs |-> TypeOf(vs[i])], store))
    ELSE MapValue(ast, vs, store)

RECURSIVE Evaluated(_, _)

Evaluated(ast, store) ==
    CASE ast.node = "string" -> StringOf(ast, store)
      [] ast.node \in {"list", "map"} -> LiteralValue(ast, [i \in DOMAIN ast.items |-> Evaluated(ast.items[i], store)], store)
      [] OTHER -> Value(ast, store)

=============================================================================

--------------------------- MODULE ExpressionEval ---------------------------
(***************************************************************************)
(* A node of the specification tree in the life of a simulation: it is     *)
(* parsed when the tree is loaded and evaluated later, in the store of     *)
(* that time, as often as it is needed, with its own type or in a type the *)
(* caller imposes.  Compared with the grammar and the precedence order the *)
(* documentation gives, and with the shape of the node.                    *)
(***************************************************************************)
EXTENDS TypedExpressions

CONSTANTS Trees, Types, Stores

VARIABLES
    tree,   \* the node
    ast,    \* the Expression built from it
    store,  \* the value of each data that is shared
    as,     \* the type imposed on the last evaluation
    value   \* its result

vars == <<tree, ast, store, as, value>>

NoAst   == [node |-> "none"]
NoType  == [node |-> "none"]
NoValue == [kind |-> "none"]

ToLongType   == [node |-> "long", type |-> ScalarType("int", LongSize)]
ToDoubleType == [node |-> "double", type |-> ScalarType("float", LongSize)]
ToStringType == [node |-> "string"]

Init ==
    /\ tree \in Trees
    /\ ast = NoAst
    /\ store = <<>>
    /\ as = NoType
    /\ value = NoValue

LoadExpression ==
    /\ ast = NoAst
    /\ ast' = ParseTree(tree)
    /\ UNCHANGED <<tree, store, as, value>>

Loaded == ast.node \notin {"none", "error", "overrun"}

(* Expression::to_ref *)
Evaluate ==
    /\ Loaded
    /\ value = NoValue
    /\ value' = Evaluated(ast, store)
    /\ UNCHANGED <<tree, ast, store, as>>

(* Expression::to_ref in a type *)
EvaluateTyped ==
    /\ Loaded
    /\ value = NoValue
    /\ \E type \in Types :
        /\ as' = type
        /\ value' = EvaluatedIn(ast, type, store)
    /\ UNCHANGED <<tree, ast, store>>

(* Expression::to_long, to_double and to_string *)
EvaluateAs ==
    /\ Loaded
    /\ value = NoValue
    /\ \/ as' = ToLongType /\ value' = LongOf(ast, store)
       \/ as' = ToDoubleType /\ value' = DoubleOf(ast, store)
       \/ as' = ToStringType /\ value' = NodeString(ast, store)
    /\ UNCHANGED <<tree, ast, store>>

(* The simulation shares other values before the next evaluation *)
ChangeStore ==
    /\ Loaded
    /\ store' \in Stores
    /\ as' = NoType
    /\ value' = NoValue
    /\ UNCHANGED <<tree, ast>>

Next == LoadExpression \/ Evaluate \/ EvaluateTyped \/ EvaluateAs \/ ChangeStore

Spec == Init /\ [][Next]_vars

-----------------------------------------------------------------------------
(* The documented grammar: the value of a text is that of its last operator
   of the lowest precedence outside of parentheses, applied to the values of
   the two parts.  In one point this is wider than expression_grammar.in.txt,
   where a literal is `INT_LITERAL ~= (0x)? [0-9]+': here it may have a sign and
   a fraction, as the tests of the repository use it (PDI_expression.cxx:764 and
   :785) and strtol and strtod read it. *)

Precedence == <<{"|"}, {"&"}, {"="}, {"<", ">"}, {"+", "-"}, {"*", "/", "%"}>>

Level(token) == SumSet({l \in DOMAIN Precedence : token \in Precedence[l]})

Openers == {"(", "["} \union Curly
Closers == {")", "]", "}"}

Depth(s, k) == Cardinality({j \in 1 .. k : s[j] \in Openers}) - Cardinality({j \in 1 .. k : s[j] \in Closers})

(* The binary operators outside of parentheses: a sign follows an operator *)
Operators(s) ==
    {k \in 2 .. Len(s) - 1 : Level(s[k]) > 0 /\ Depth(s, k) = 0 /\ Level(s[k - 1]) = 0 /\ s[k - 1] \notin Openers}

NotAnOperation == [kind |-> "not an operation"]

RECURSIVE Documented(_, _), DocumentedAccess(_, _, _)

IsLiteral(s) ==
    \/ Len(s) = 1 /\ s[1] \in DOMAIN Literals
    \/ Len(s) = 2 /\ s[1] \in {"+", "-"} /\ s[2] \in DOMAIN Literals

DocumentedLiteral(s) ==
    LET v == Literals[s[Len(s)]]
        sign == IF s[1] = "-" THEN -1 ELSE 1
    IN  IF s[Len(s)] \in Dotted THEN Float(sign * v.n, v.d) ELSE Long(sign * v.n)

(* The value of a part after the accessors in s *)
DocumentedAccess(v, s, st) ==
    IF s = <<>> THEN v
    ELSE IF s[1] \in DOMAIN Members
         THEN DocumentedAccess(IF IsBad(v) THEN v ELSE MemberOf(v, Members[s[1]]), Tail(s), st)
    ELSE IF s[1] = "["
         THEN LET ends == {k \in 2 .. Len(s) : Depth(s, k) = 0}
              IN  IF ends = {} \/ s[Min(ends)] # "]" THEN NotAnOperation
                  ELSE LET i    == Documented(SubSeq(s, 2, Min(ends) - 1), st)
                           rest == SubSeq(s, Min(ends) + 1, Len(s))
                       IN  IF i = NotAnOperation THEN i
                           ELSE DocumentedAccess(IF IsBad(v) THEN v
                                                 ELSE IF IsScalar(i) THEN Element(v, ToLong(i))
                                                 ELSE IF IsBad(i) THEN i ELSE Error, rest, st)
    ELSE NotAnOperation

DocumentedTerm(s, st) ==
    IF s = <<>> THEN NotAnOperation
    ELSE IF IsLiteral(s) THEN DocumentedLiteral(s)
    ELSE IF s[1] = "(" /\ s[Len(s)] = ")" /\ \A k \in 1 .. Len(s) - 1 : Depth(s, k) > 0
         THEN Documented(SubSeq(s, 2, Len(s) - 1), st)
    ELSE IF s[1] \in Curly /\ (s[Len(s)] # "}" \/ \E k \in 1 .. Len(s) - 1 : Depth(s, k) = 0) THEN NotAnOperation
    ELSE IF s[1] \in DOMAIN References
         THEN LET name == References[s[1]]
              IN  DocumentedAccess(IF name \in DOMAIN st THEN st[name] ELSE Error,
                                   IF s[1] \in Curly THEN SubSeq(s, 2, Len(s) - 1) ELSE Tail(s), st)
    ELSE NotAnOperation

Documented(s, st) ==
    IF Operators(s) = {} THEN DocumentedTerm(s, st)
    ELSE LET low == Min({Level(s[k]) : k \in Operators(s)})
             cut == Max({k \in Operators(s) : Level(s[k]) = low})
             x == Documented(SubSeq(s, 1, cut - 1), st)
             y == Documented(SubSeq(s, cut + 1, Len(s)), st)
         IN  IF NotAnOperation \in {x, y} THEN NotAnOperation ELSE Apply(x, s[cut], y)

Same(x, y) ==
    IF IsScalar(x) /\ IsScalar(y)
    THEN x.kind = y.kind /\ x.bytes = y.bytes /\ x.n * y.d = y.n * x.d ELSE x = y

-----------------------------------------------------------------------------
(* The value a node stands for                                             *)

RECURSIVE Reads(_, _, _), Refused(_, _), CopyOf(_, _, _, _)

(* v has the shape of the node and the values of its parts *)
Reads(v, a, st) ==
    CASE a.node = "list" ->
            /\ v.kind \in {"array", "tuple"} /\ DOMAIN v.elems = DOMAIN a.items
            /\ \A i \in DOMAIN a.items : Reads(v.elems[i], a.items[i], st)
      [] a.node = "map" ->
            /\ v.kind = "record" /\ DOMAIN v.members = Range(a.names)
            /\ \A i \in DOMAIN a.items : Reads(v.members[a.names[i]], a.items[i], st)
      [] OTHER -> Same(v, Evaluated(a, st))

(* The parts a literal cannot have: an empty list, a part of a data that is
   not a scalar and, in a map, what may not be written *)
NoPartOf(a, item, v) ==
    \/ item.node \notin {"list", "map"} /\ IsBad(v)
    \/ item.node = "list" /\ item.items = <<>>
    \/ item.node = "reference" /\ item.accessors # <<>> /\ ~IsScalar(v)
    \/ a.node = "map" /\ ~Writable(item)

Refused(a, st) ==
    IF a.node \in {"list", "map"}
    THEN \E i \in DOMAIN a.items : Refused(a.items[i], st) \/ NoPartOf(a, a.items[i], Evaluated(a.items[i], st))
    ELSE IsBad(Evaluated(a, st))

(* The value e of a text converted to the type; a whole data may be copied as
   raw bytes *)
CopyOfText(v, a, e, type) ==
    IF a.node = "string" THEN v = e /\ Bytes(TypeOf(v)) <= Bytes(type)
    ELSE IF v = Raw THEN a.node = "reference" /\ a.accessors = <<>> /\ TypeOf(e) # type
    ELSE TypeOf(v) = type /\ v = IF type.node = "scalar" THEN Convert(e, type) ELSE e

(* v is the value of the node converted to the type, its parts in the places
   the type has for them *)
CopyOf(v, a, type, st) ==
    CASE a.node = "list" /\ type.node = "array" ->
            /\ Len(a.items) = type.size /\ Len(v.elems) = type.size
            /\ \A i \in DOMAIN a.items : CopyOf(v.elems[i], a.items[i], type.of, st)
      [] a.node = "list" /\ type.node # "array" ->
            /\ type.node = "tuple" /\ Len(a.items) <= Len(type.elements)
            /\ \A i \in DOMAIN a.items : CopyOf(v.elems[i], a.items[i], type.elements[i], st)
      [] a.node = "map" ->
            /\ type.node = "record"
            /\ \A i \in DOMAIN a.items : \E j \in DOMAIN type.names :
                  /\ type.names[j] = a.names[i]
                  /\ CopyOf(v.members[a.names[i]], a.items[i], type.elements[j], st)
      [] OTHER -> CopyOfText(v, a, Evaluated(a, st), type)

-----------------------------------------------------------------------------
(* Properties                                                              *)

IsOperation == ast.node \in {"literal", "reference", "operation"}

HasFormat(s) == \E i \in DOMAIN s : s[i] = ":"

(* The descent of Operation::parse over the levels of precedence accepts the
   texts of the documented grammar, and no other but those with a signed or
   fractional literal, which that grammar has not; what to_ref, to_long and
   to_double compute in the store of the moment is the value the precedence
   order gives, for the texts without a dot. *)
EvaluatesByPrecedence ==
    (tree.node = "scalar" /\ ast # NoAst /\ ~HasFormat(tree.text)) =>
        LET documented == Documented(tree.text, store)
        IN  /\ IsOperation <=> documented # NotAnOperation
            /\ (IsOperation /\ value # NoValue /\ ~ReadsDouble(tree.text, 1))
                   => /\ as = NoType => Same(value, documented)
                      /\ as.node \in {"long", "double"} => value = Number(documented, as.type)

(* The type that Sequence and Mapping::to_ref deduce from one evaluation of the
   parts holds the values that copy_value writes in a second one: no part that
   can be evaluated is lost, converted or refused but the ones a literal cannot
   have; in an imposed type a copy that does not throw is that of every part. *)
CopiesWhatItReads ==
    value # NoValue =>
        /\ as = NoType => (IsBad(value) <=> Refused(ast, store))
        /\ (as = NoType /\ ~IsBad(value)) => Reads(value, ast, store)
        /\ (as \in Types /\ ~IsBad(value)) => CopyOf(value, ast, as, store)

=============================================================================

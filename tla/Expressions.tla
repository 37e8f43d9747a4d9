---------------------------- MODULE Expressions ----------------------------
(***************************************************************************)
(* The $-expressions of the specification tree: the text of a scalar node  *)
(* is parsed as an operation, or as a string when that fails, and is       *)
(* evaluated each time its value is needed (expression.cxx, impl.cxx and   *)
(* expression/impl/).  A text is a sequence of tokens, the spaces dropped; *)
(* a token is an operator, a parenthesis, a bracket, a literal, "$x" for   *)
(* the start of a reference, "${x" for one in braces, ".m" for a member    *)
(* access, ":" for a format, or other text.                                *)
(*                                                                         *)
(* A scalar is [kind, bytes, n, d]: the integer n (d = 1), which wraps at  *)
(* its size, or the double n/d.  An array is [kind, elems], a record is    *)
(* [kind, members], and a bad value is an exception or undefined.          *)
(***************************************************************************)
EXTENDS Integers, Sequences, SequencesExt, FiniteSetsExt

CONSTANTS
    ByteBits,   \* the bits of a byte
    IntSize,    \* the bytes of an int
    LongSize,   \* the bytes of a long and of a double
    Literals,   \* the value of each literal token
    References, \* the name of the data in each token that starts a reference
    Curly,      \* the tokens that start one in braces
    Members,    \* the name in each member token
    Dotted,     \* the tokens that contain the character '.'
    Spelling    \* the characters of each token of more than one

(* n in an integer type of the given size *)
Wrap(kind, bytes, n) ==
    LET m == 2^(ByteBits * bytes)
    IN  IF kind = "uint" \/ n % m < m \div 2 THEN n % m ELSE (n % m) - m

Whole(kind, bytes, n) == [kind |-> kind, bytes |-> bytes, n |-> Wrap(kind, bytes, n), d |-> 1]
Long(n)      == Whole("int", LongSize, n)
Unsigned(n)  == Whole("uint", LongSize, n)
Float(n, d)  == [kind |-> "float", bytes |-> LongSize, n |-> n, d |-> d]
Bool(p)      == Whole("uint", 1, IF p THEN 1 ELSE 0)
Error        == [kind |-> "error"]      \* an exception
Trap         == [kind |-> "trap"]       \* an integer division by zero or a bad access
Unknown      == [kind |-> "unknown"]    \* computed from an infinity: not followed
IsScalar(v)  == v.kind \in {"int", "uint", "float"}
IsBad(v)     == v.kind \in {"error", "trap", "unknown"}

-----------------------------------------------------------------------------
(* Parsing                                                                 *)

op_level(token) ==
    CASE token = "|" -> 1
      [] token = "&" -> 2
      [] token = "=" -> 3
      [] token \in {">", "<"} -> 4
      [] token \in {"+", "-"} -> 5
      [] token \in {"*", "/", "%"} -> 6
      [] OTHER -> 0

Fail == [ok |-> FALSE]
Parsed(ast, next) == [ok |-> TRUE, ast |-> ast, next |-> next]

Literal(v)           == [node |-> "literal", value |-> v]
Reference(name, acc) == [node |-> "reference", name |-> name, accessors |-> acc]
Operation(first, os) == [node |-> "operation", first |-> first, operands |-> os]

(* The token at a position, "" at the end of the text *)
At(s, i) == IF i <= Len(s) THEN s[i] ELSE ""

(* The rest of the text has a dot somewhere: the literal is read as a double *)
ReadsDouble(s, i) == \E j \in i .. Len(s) : s[j] \in Dotted

(* strtol or strtod: a literal, with a sign or without *)
ParseLiteral(s, i) ==
    LET signed == At(s, i) \in {"+", "-"}
        at     == IF signed THEN i + 1 ELSE i
        sign   == IF At(s, i) = "-" THEN -1 ELSE 1
    IN  IF At(s, at) \in DOMAIN Literals
        THEN LET v == Literals[s[at]]
             IN  Parsed(Literal(IF ReadsDouble(s, i) THEN Float(sign * v.n, v.d) ELSE Long(sign * v.n)), at + 1)
        ELSE Fail

RECURSIVE Parse(_, _, _), ParseAccessors(_, _, _), ParseOperands(_, _, _, _), ParseOperandsRight(_, _, _, _)

(* The accessors that follow the name of a reference *)
ParseAccessors(s, i, acc) ==
    CASE At(s, i) = "[" ->
            LET r == Parse(s, i + 1, 1)
            IN  IF r.ok /\ At(s, r.next) = "]" THEN ParseAccessors(s, r.next + 1, Append(acc, r.ast)) ELSE Fail
      [] At(s, i) \in DOMAIN Members ->
            ParseAccessors(s, i + 1, Append(acc, [node |-> "member", name |-> Members[s[i]]]))
      [] OTHER -> [ok |-> TRUE, accessors |-> acc, next |-> i]

(* A format lasts until the brace that closes the reference, or to the end *)
AfterFormat(s, i) ==
    IF At(s, i) # ":" THEN i ELSE Min({j \in i .. Len(s) : s[j] = "}"} \union {Len(s) + 1})

ParseReference(s, i) ==
    LET r    == ParseAccessors(s, i + 1, <<>>)
        next == IF r.ok THEN AfterFormat(s, r.next) ELSE i
    IN  IF ~r.ok \/ (s[i] \in Curly /\ At(s, next) # "}") THEN Fail
        ELSE Parsed(Reference(References[s[i]], r.accessors), IF s[i] \in Curly THEN next + 1 ELSE next)

ParseTerm(s, i) ==
    CASE At(s, i) = "(" ->
            LET r == Parse(s, i + 1, 1)
            IN  IF r.ok /\ At(s, r.next) = ")" THEN Parsed(r.ast, r.next + 1) ELSE Fail
      [] At(s, i) \in DOMAIN References -> ParseReference(s, i)
      [] OTHER -> ParseLiteral(s, i)

(* Faulty: the rest of the level is one operand, as if it associated to the right *)
ParseOperandsRight(s, i, level, operands) ==
    IF op_level(At(s, i)) # level THEN [ok |-> TRUE, operands |-> operands, next |-> i]
    ELSE LET r == Parse(s, i + 1, level)
         IN  IF r.ok THEN ParseOperandsRight(s, r.next, level, Append(operands, <<s[i], r.ast>>)) ELSE Fail

(* The operators of one level and the operands after them *)
ParseOperands(s, i, level, operands) ==
    IF op_level(At(s, i)) # level THEN [ok |-> TRUE, operands |-> operands, next |-> i]
    ELSE LET r == Parse(s, i + 1, level + 1)
         IN  IF r.ok THEN ParseOperands(s, r.next, level, Append(operands, <<s[i], r.ast>>)) ELSE Fail

(* Operation::parse: level 7 is a term; an operation is built only if needed *)
Parse(s, i, level) ==
    IF level = 7 THEN ParseTerm(s, i)
    ELSE LET first == Parse(s, i, level + 1)
             rest  == IF first.ok THEN ParseOperands(s, first.next, level, <<>>) ELSE Fail
         IN  IF ~first.ok \/ ~rest.ok THEN Fail
             ELSE IF rest.operands = <<>> THEN first
             ELSE Parsed(Operation(first.ast, rest.operands), rest.next)

(* The characters of a token that are left after the first n *)
CharactersAfter(token, n) ==
    LET chars == IF token \in DOMAIN Spelling THEN Spelling[token] ELSE <<token>>
    IN  [k \in 1 .. Len(chars) - n |-> [node |-> "character", char |-> chars[k + n]]]

(* String_literal::parse cuts the text at the references and the $( ), whose
   errors are thrown; a backslash stands for itself and drops one character,
   and is followed past the end of the text when it is the last character *)
RECURSIVE ParsePieces(_, _, _)

ParsePieces(s, i, pieces) ==
    LET r == IF s[i] = "$" THEN IF At(s, i + 1) = "(" THEN ParseTerm(s, i + 1) ELSE Fail ELSE ParseReference(s, i)
    IN  CASE i = Len(s) + 1 -> [node |-> "string", pieces |-> pieces]
          [] At(s, i) = "\\" ->
                IF i = Len(s) THEN [node |-> "overrun"]
                ELSE ParsePieces(s, i + 2, pieces \o CharactersAfter("\\", 0) \o CharactersAfter(s[i + 1], 1))
          [] At(s, i) \in DOMAIN References \union {"$"} ->
                IF r.ok THEN ParsePieces(s, r.next, Append(pieces, r.ast)) ELSE [node |-> "error"]
          [] OTHER -> ParsePieces(s, i + 1, pieces \o CharactersAfter(s[i], 0))

(* Impl::parse: an operation if the whole text is one, a string otherwise *)
ParseText(s) ==
    LET r == Parse(s, 1, 1)
    IN  IF r.ok /\ r.next = Len(s) + 1 THEN r.ast ELSE ParsePieces(s, 1, <<>>)

-----------------------------------------------------------------------------
(* Evaluation                                                              *)

Sign(n) == IF n < 0 THEN -1 ELSE 1
Abs(n)  == Sign(n) * n

(* Division and remainder truncate towards zero *)
Quotient(a, b)  == Sign(a) * Sign(b) * (Abs(a) \div Abs(b))
Remainder(a, b) == a - b * Quotient(a, b)

(* The usual arithmetic conversions: what is smaller than an int becomes one,
   the larger type wins, the unsigned one of the same size *)
Common(x, y) ==
    LET bytes == Max({x.bytes, y.bytes, IntSize})
        uint  == \E v \in {x, y} : v.kind = "uint" /\ v.bytes = bytes
    IN  IF "float" \in {x.kind, y.kind} THEN Float(0, 1) ELSE Whole(IF uint THEN "uint" ELSE "int", bytes, 0)

Cross(x, y) == x.n * y.d - y.n * x.d      \* the sign of x - y

EvalFloat(x, op, y) ==
    CASE op = "+" -> Float(x.n * y.d + y.n * x.d, x.d * y.d)
      [] op = "-" -> Float(Cross(x, y), x.d * y.d)
      [] op = "*" -> Float(x.n * y.n, x.d * y.d)
      [] op = "/" -> IF y.n = 0 THEN Unknown ELSE Float(Sign(y.n) * x.n * y.d, x.d * Abs(y.n))
      [] op = "%" -> Error

EvalWhole(type, a, op, b) ==
    LET result(n) == Whole(type.kind, type.bytes, n)
    IN  CASE op = "+" -> result(a + b)
          [] op = "-" -> result(a - b)
          [] op = "*" -> result(a * b)
          [] op = "/" -> IF b = 0 THEN Trap ELSE result(Quotient(a, b))
          [] op = "%" -> IF b = 0 THEN Trap ELSE result(Remainder(a, b))

(* Operation::eval: the operands converted, then the operator *)
EvalIn(type, x, op, y) ==
    LET a    == Wrap(type.kind, type.bytes, x.n)
        b    == Wrap(type.kind, type.bytes, y.n)
        diff == IF type.kind = "float" THEN Cross(x, y) ELSE a - b
    IN  CASE op = "&" -> Bool(x.n # 0 /\ y.n # 0)
          [] op = "|" -> Bool(x.n # 0 \/ y.n # 0)
          [] op = "=" -> Bool(diff = 0)
          [] op = ">" -> Bool(diff > 0)
          [] op = "<" -> Bool(diff < 0)
          [] OTHER    -> IF type.kind = "float" THEN EvalFloat(x, op, y) ELSE EvalWhole(type, a, op, b)

Eval(x, op, y) == EvalIn(Common(x, y), x, op, y)

(* Operation::to_ref and evalp: the computed value must be a scalar before the
   operand is evaluated, the operand before the operator is applied *)
Apply(x, op, y) ==
    IF IsBad(x) THEN x
    ELSE IF ~IsScalar(x) THEN Error
    ELSE IF IsBad(y) THEN y
    ELSE IF ~IsScalar(y) THEN Error
    ELSE Eval(x, op, y)

(* Ref::scalar_value: a scalar as a long; doubles are truncated *)
ToLong(v) == Wrap("int", LongSize, Quotient(v.n, v.d))

(* A part of a data of the store: an element or a member, which must exist *)
Element(v, i) ==
    IF v.kind = "array" /\ i \in 0 .. Len(v.elems) - 1 THEN v.elems[i + 1] ELSE Error

MemberOf(v, name) ==
    IF v.kind = "record" /\ name \in DOMAIN v.members THEN v.members[name] ELSE Error

RECURSIVE Value(_, _), Access(_, _, _)

(* Reference_expression::to_ref: the accessors are applied in order, the index
   of an element is itself an expression *)
Access(v, acc, store) ==
    IF acc = <<>> \/ IsBad(v) THEN v
    ELSE LET h == Head(acc)
             i == IF h.node = "member" THEN Long(0) ELSE Value(h, store)
         IN  Access(CASE h.node = "member" -> MemberOf(v, h.name)
                      [] IsBad(i)          -> i
                      [] ~IsScalar(i)      -> Error
                      [] OTHER             -> Element(v, ToLong(i)),
                    Tail(acc), store)

Value(ast, store) ==
    CASE ast.node = "literal"   -> ast.value
      [] ast.node = "reference" ->
            IF ast.name \in DOMAIN store THEN Access(store[ast.name], ast.accessors, store) ELSE Error
      [] ast.node = "operation" ->
            FoldLeft(LAMBDA acc, o : Apply(acc, o[1], Value(o[2], store)), Value(ast.first, store), ast.operands)

=============================================================================

-------------------------- MODULE MCExpressionEval --------------------------
(* The texts of fewer than MaxTokens tokens; those of MaxTokens tokens with  *)
(* parentheses or with brackets; operations of three operands and some       *)
(* longer texts; lists of up to three items, maps, and lists and maps in a   *)
(* list.  The store holds an integer, an unsigned integer, an array and a    *)
(* record, or some of them.                                                  *)
EXTENDS ExpressionEval

CONSTANT MaxTokens

MCLiterals == ("2" :> Long(2)) @@ ("7" :> Long(7)) @@ ("1.5" :> Float(3, 2))
MCReferences == ("$a" :> "a") @@ ("$u" :> "u") @@ ("${a" :> "a")
MCMembers == (".m" :> "m")
MCSpelling == ("$a" :> <<"$", "a">>) @@ ("$u" :> <<"$", "u">>) @@ ("${a" :> <<"$", "{", "a">>) @@ (".m" :> <<".", "m">>)
              @@ ("1.5" :> <<"1", ".", "5">>)

MCTrueWords == {<<Character("y")>>}
MCFalseWords == {<<Character("n")>>}

Tokens == {"2", "1.5", "$a", "$u", ".m", "+", "/", "&", "(", ")", "${a", "}", "%", "[", "]", "$", "text", "y", "\\"}
GroupTokens == {"2", "1.5", "$a", ".m", "+", "<", "(", ")"}
IndexTokens == {"2", "$a", "${a", "}", "-", "[", "]", "$"}
Signs == {"|", "&", "=", "<", ">", "+", "-", "*", "/", "%"}

Upto(S, n) == UNION {[1 .. k -> S] : k \in 1 .. n}

Chains == {<<a, o, b, p, c>> : a \in {"7", "1.5", "$a"}, b \in {"2", "$u"}, c \in {"2", "7", "$a"}, o \in Signs, p \in Signs}

Longer == {<<"7", "-", "2", "*", "$a", "+", "7">>, <<"7", "/", "2", "*", "2", ">", "-", "7">>,
           <<"(", "7", "-", "2", ")", "*", "$a", "[", "2", "-", "2", "]">>,
           <<"2", "=", "2", "|", "7", "&", "$a", "-", "$a">>, <<"$a", "[", "$a", "[", "2", "]", "]", "%", "7">>,
           <<"7", "/", "2", "+", "$a", ".m">>, <<"-", "7", "%", "2", "<", "$u", "-", "7">>,
           <<"${a", "[", "7", "-", "7", "]", "}", "*", "2">>, <<"${a", ":", "text", "}", "+", "2">>, <<"$u", ":", "text">>, <<"n">>,
           <<"$", "(", "2", "+", "7", ")", "text", "$a">>, <<"$", "(", "2", "+", ")", "text">>}

Scalar(s) == [node |-> "scalar", text |-> s]
List(items) == [node |-> "list", items |-> items]
Map(names, items) == [node |-> "map", names |-> names, items |-> items]

Items == {Scalar(s) : s \in {<<"2">>, <<"1.5">>, <<"$a">>, <<"$u">>, <<"$a", "[", "2", "]">>, <<"2", "<", "7">>,
                              <<"7", "-", "$u">>, <<"text">>, <<"text", "$u">>}}
Nested == {List(<<>>), List(<<Scalar(<<"2">>), Scalar(<<"7">>)>>), List(<<Scalar(<<"2">>), Scalar(<<"text">>)>>),
           Map(<<"m">>, <<Scalar(<<"7">>)>>), Map(<<"m", "n">>, <<Scalar(<<"text">>), Scalar(<<"1.5">>)>>)}

MCTrees ==
    {Scalar(s) : s \in Upto(Tokens, MaxTokens - 1) \union [1 .. MaxTokens -> GroupTokens]
                       \union [1 .. MaxTokens -> IndexTokens] \union Chains \union Longer}
    \union {List(items) : items \in Upto(Items \union Nested, 3)}
    \union {Map(<<"m">>, items) : items \in [1 .. 1 -> Items \union Nested]}
    \union {Map(<<"m", "n">>, items) : items \in [1 .. 2 -> Items \union Nested]}
    \union Nested

Vector == Array(<<Long(2), Long(0), Long(1)>>)
Struct == Record(<<"m">>, <<Long(2)>>)

MCStores == {("a" :> Vector) @@ ("u" :> Unsigned(3)), ("a" :> Struct) @@ ("u" :> Unsigned(0)), ("a" :> Long(-3))}

LongType == ScalarType("int", LongSize)
MCTypes == {LongType, CharType, ScalarType("float", LongSize), ArrayType(LongType, 2), ArrayType(CharType, 2),
            TupleType(<<LongType, ScalarType("int", IntSize)>>), RecordType(<<"m", "n">>, <<CharType, LongType>>),
            RecordType(<<"m">>, <<LongType>>)}
=============================================================================

---------------------------- MODULE MCTypedData ----------------------------
(* Nodes of depth two and three: scalars of one and two bytes, with and      *)
(* without a copy function, whole, partial and wrongly described arrays, and *)
(* records, structs, tuples and pointers over them.                          *)
EXTENDS TypedData

NodeScalar(n, m) == [type |-> "scalar", size |-> n, managed |-> m]
NodeArray(sub, size, start, subsize) ==
    [type |-> "array", subtype |-> sub, size |-> size, start |-> start, subsize |-> subsize]
NodeMember(name, disp, node) == [name |-> name, disp |-> disp, node |-> node]
NodePointer(sub) == [type |-> "pointer", subtype |-> sub]
NodeUser(name) == [type |-> name]
NodeFortran(kind) == [type |-> "fortran", kind |-> kind]

MCUserTypes == [pair |-> [type |-> "struct",
                          members |-> <<NodeMember("a", NoValue, NodeScalar(2, FALSE)),
                                        NodeMember("b", NoValue, NodeScalar(1, FALSE))>>]]

Scalars == {NodeScalar(1, FALSE), NodeScalar(2, FALSE), NodeScalar(2, TRUE)}

ArraysOf(S) ==
         {NodeArray(s, <<3>>, <<1>>, <<2>>) : s \in S}
  \union {NodeArray(s, <<2>>, <<>>, <<>>) : s \in S}

WrongArrays ==
    LET s == NodeScalar(1, FALSE)
    IN  {NodeArray(s, <<>>, <<>>, <<>>), NodeArray(s, <<2>>, <<1>>, <<>>),
         NodeArray(s, <<2, 2>>, <<>>, <<1>>), NodeArray(s, <<2, 2>>, <<0>>, <<1, 1>>),
         NodeArray(NoNode, <<2>>, <<>>, <<>>), NodeArray(NodeUser("unknown"), <<2>>, <<>>, <<>>)}

MembersOf(S) ==
    {<<NodeMember("a", NoValue, s), NodeMember("b", NoValue, r)>> : s \in S, r \in S}

PlacedOf(S, o) == {<<NodeMember("a", 0, s), NodeMember("b", o, r)>> : s \in S, r \in S}

StructsOf(S) == {[type |-> "struct", members |-> ms] : ms \in MembersOf(S)}
TuplesOf(S)  == {[type |-> "tuple", members |-> ms, buffersize |-> NoValue] : ms \in MembersOf(S)}
Sparse(kind, S, o, n) == {[type |-> kind, members |-> ms, buffersize |-> n] : ms \in PlacedOf(S, o)}

Triple(a, b, c) ==
    [type |-> "tuple", buffersize |-> NoValue,
     members |-> <<NodeMember("a", NoValue, a), NodeMember("b", NoValue, b), NodeMember("c", NoValue, c)>>]

WrongTuples == {[type |-> "tuple", buffersize |-> n, members |-> ms] :
                   n \in {NoValue, 8},
                   ms \in {<<NodeMember("a", 0, NodeScalar(1, FALSE)), NodeMember("b", NoValue, NodeScalar(1, FALSE))>>,
                           <<NodeMember("a", NoValue, NodeScalar(1, FALSE))>>,
                           <<>>}}

WrongRecords == {[type |-> "record", buffersize |-> n, members |-> <<NodeMember("a", o, NodeScalar(1, FALSE))>>] :
                    n \in {NoValue, 8}, o \in {NoValue, 0}}

Level1 == Scalars \union ArraysOf(Scalars) \union StructsOf(Scalars) \union TuplesOf(Scalars)
          \union Sparse("record", Scalars, 4, 8) \union Sparse("tuple", Scalars, 4, 8)

Some == {NodeScalar(1, FALSE), NodeScalar(2, TRUE), NodeUser("pair"),
         NodeArray(NodeScalar(2, FALSE), <<3>>, <<1>>, <<2>>), NodePointer(NodeScalar(2, FALSE)),
         NodePointer(NodeArray(NodeScalar(1, FALSE), <<3>>, <<1>>, <<1>>))}

MCNodes ==
         Level1 \union WrongArrays \union WrongTuples \union WrongRecords
  \union {NodePointer(n) : n \in Level1}
  \union ArraysOf(Level1 \union Some)
  \union StructsOf(Some) \union TuplesOf(Some) \union Sparse("record", Some, 12, 24)
  \union {Triple(a, b, c) : a \in Some, b \in Some, c \in {NodeScalar(1, FALSE), NodeUser("pair")}}
  \union {NodeArray(NodeScalar(2, FALSE), <<2, 3>>, <<1, 1>>, <<1, 2>>),
          NodeArray([type |-> "struct",
                     members |-> <<NodeMember("a", NoValue, NodeScalar(1, FALSE)),
                                   NodeMember("b", NoValue, NodeArray(NodeScalar(2, FALSE), <<2>>, <<>>, <<>>))>>],
                    <<2>>, <<>>, <<>>),
          NodeFortran(0), NodeFortran(-1), NodeArray(NodeFortran(2), <<2>>, <<>>, <<>>),
          NodePointer(NodeScalar(3, FALSE)), [type |-> "struct", members |-> <<>>], NodePointer(NoNode),
          [type |-> "record", buffersize |-> 1, members |-> <<>>]}
=============================================================================

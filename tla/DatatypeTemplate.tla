-------------------------- MODULE DatatypeTemplate --------------------------
(***************************************************************************)
(* From the specification tree to a datatype: Context::datatype parses a   *)
(* node into a template (datatype_template.cxx) and evaluate() turns the   *)
(* template into a datatype.  A node is a record whose field type is the   *)
(* name under "type"; a key that is absent is NoValue, <<>> or NoNode, and *)
(* the integers stand for the expressions that evaluate to them.           *)
(***************************************************************************)
EXTENDS Datatypes

CONSTANT UserTypes          \* the nodes of the "types" section, by name

NoValue == -1

DefaultKind == 4            \* of a Fortran type
NoNode  == [type |-> "absent"]

Spectree_error == [type |-> "Spectree_error"]

IsTemplate(tree) == tree.type # "Spectree_error"

-----------------------------------------------------------------------------
(* Parsing                                                                 *)

RECURSIVE Datatype(_)

(* validate_array: start and subsize get their default values *)
Start(node)   == IF node.start = <<>> THEN [i \in DOMAIN node.size |-> 0] ELSE node.start
Subsize(node) == IF node.subsize = <<>> THEN node.size ELSE node.subsize

Validate(node) ==
    /\ node.size # <<>>
    /\ node.start # <<>> => node.subsize # <<>>
    /\ Len(node.size) = Len(Subsize(node))
    /\ Len(node.size) = Len(Start(node))

(* One array template per dimension, the last dimension innermost *)
ToArray(node) ==
    IF Validate(node) /\ node.subtype # NoNode /\ IsTemplate(Datatype(node.subtype))
    THEN FoldRight(LAMBDA i, sub : [type |-> "array", subtype |-> sub, size |-> node.size[i],
                                    start |-> Start(node)[i], subsize |-> Subsize(node)[i]],
                   [i \in DOMAIN node.size |-> i], Datatype(node.subtype))
    ELSE Spectree_error

AllParse(members) == \A i \in DOMAIN members : IsTemplate(Datatype(members[i].node))

Displaced(members) == {i \in DOMAIN members : members[i].disp # NoValue}

(* None or all of the elements have a displacement, and all of them exactly
   when the size of the buffer is given *)
TupleElementsAgree(node) ==
    /\ Displaced(node.members) \in {{}, DOMAIN node.members}
    /\ (node.buffersize # NoValue) = (Displaced(node.members) # {})

Parsed(members) == [i \in DOMAIN members |-> [members[i] EXCEPT !.node = Datatype(members[i].node)]]

ToTuple(node) ==
    IF AllParse(node.members) /\ TupleElementsAgree(node)
    THEN [node EXCEPT !.members = Parsed(node.members)]
    ELSE Spectree_error

ToRecord(node) ==
    IF node.buffersize # NoValue /\ Displaced(node.members) = DOMAIN node.members /\ AllParse(node.members)
    THEN [node EXCEPT !.members = Parsed(node.members)]
    ELSE Spectree_error

ToStruct(node) ==
    IF AllParse(node.members) THEN [node EXCEPT !.members = Parsed(node.members)] ELSE Spectree_error

ToPointer(node) ==
    IF node.subtype # NoNode /\ IsTemplate(Datatype(node.subtype))
    THEN [node EXCEPT !.subtype = Datatype(node.subtype)]
    ELSE Spectree_error

(* A C type stands for a scalar of its size, a Fortran type for one of its
   kind, by default or when the kind is 0 that of the compiler *)
ToScalar(node) == [type |-> "scalar", size |-> node.size, managed |-> node.managed]

ToFortran(node) ==
    IF node.kind < 0 THEN Spectree_error
    ELSE [type |-> "scalar", size |-> IF node.kind = 0 THEN DefaultKind ELSE node.kind, managed |-> FALSE]

ToUserType(node) == Datatype(UserTypes[node.type])

Datatype(node) ==
    CASE node.type = "scalar"  -> ToScalar(node)
      [] node.type = "fortran" -> ToFortran(node)
      [] node.type = "array"   -> ToArray(node)
      [] node.type = "tuple"   -> ToTuple(node)
      [] node.type = "record"  -> ToRecord(node)
      [] node.type = "struct"  -> ToStruct(node)
      [] node.type = "pointer" -> ToPointer(node)
      [] node.type \in DOMAIN UserTypes -> ToUserType(node)
      [] OTHER -> Spectree_error

-----------------------------------------------------------------------------
(* Evaluation                                                              *)

RECURSIVE Evaluate(_)

EvaluateScalar(tm) == Scalar(tm.size, tm.size, tm.size, tm.managed)

EvaluateArray(tm) == Array(Evaluate(tm.subtype), tm.size, tm.start, tm.subsize)

EvaluateRecord(tm) ==
    Record([i \in DOMAIN tm.members |->
               Member(tm.members[i].disp, Evaluate(tm.members[i].node), tm.members[i].name)], tm.buffersize)

Evaluated(members) == [i \in DOMAIN members |-> Evaluate(members[i].node)]

(* The greatest alignment of the members, 0 when there is none *)
MaxAlignment(types) == Max({0} \union {Alignment(types[i]) : i \in DOMAIN types})

EvaluateStruct(tm) ==
    LET ts == Evaluated(tm.members)
    IN  Record([i \in DOMAIN ts |-> Member(Laid(ts).offsets[i], ts[i], tm.members[i].name)],
               Padded(ts, MaxAlignment(ts)))

EvaluateTuple(tm) ==
    LET ts == Evaluated(tm.members)
        displaced == tm.members[1].disp # NoValue
    IN  IF displaced
        THEN Tuple([i \in DOMAIN ts |-> Element(tm.members[i].disp, ts[i])], tm.buffersize)
        ELSE Tuple([i \in DOMAIN ts |-> Element(Laid(ts).offsets[i], ts[i])], Padded(ts, MaxAlignment(ts)))

Evaluate(tm) ==
    CASE tm.type = "scalar"  -> EvaluateScalar(tm)
      [] tm.type = "array"   -> EvaluateArray(tm)
      [] tm.type = "record"  -> EvaluateRecord(tm)
      [] tm.type = "struct"  -> EvaluateStruct(tm)
      [] tm.type = "tuple"   -> EvaluateTuple(tm)
      [] tm.type = "pointer" -> Pointer(Evaluate(tm.subtype), FALSE)

RECURSIVE Subtrees(_)

Subtrees(tm) == {tm} \union
    CASE tm.type \in {"array", "pointer"} -> Subtrees(tm.subtype)
      [] tm.type = "scalar"               -> {}
      [] OTHER                            -> UNION {Subtrees(tm.members[i].node) : i \in DOMAIN tm.members}

(* The constructor of a scalar throws unless its alignment is a power of two,
   or it is the undefined type of size 0 *)
EvaluateThrows(tm) == \E s \in Subtrees(tm) : s.type = "scalar" /\ s.size \notin {0} \union {2^k : k \in 0 .. 6}

(* A struct or a tuple without members: the padding is computed modulo 0, or
   the first element of none is read *)
EvaluateTraps(tm) == \E s \in Subtrees(tm) : s.type \in {"struct", "tuple"} /\ s.members = <<>>

=============================================================================

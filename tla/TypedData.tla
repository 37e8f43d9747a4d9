----------------------------- MODULE TypedData -----------------------------
(***************************************************************************)
(* One data, from the description of its type to the copies made of it: a  *)
(* node is parsed and evaluated; the data of that type is then accessed    *)
(* part by part, copied to dense memory (Reference_base::do_copy) and back *)
(* or destroyed, or serialized and deserialized by the serialize plugin.   *)
(* The original data starts at Source, a copy at Target, both aligned.     *)
(***************************************************************************)
EXTENDS DatatypeTemplate, TypeSerializer

CONSTANT Nodes              \* the nodes the specification tree may give

VARIABLES
    phase,   \* where the data is in its life
    tree,    \* the node, then the template it is parsed to
    type,    \* the datatype, once evaluated
    part,    \* the part reached by the accesses made so far
    ordered, \* the bounds of every slice so far were in order
    moves,   \* the bytes of the copy, with where they come from
    back,    \* the bytes copied back
    built,   \* where the copy built objects that need a destructor
    gone     \* the addresses the destructor ran on

vars == <<phase, tree, type, part, ordered, moves, back, built, gone>>

NoType == [t |-> "none"]
Source == <<<<>>, 0>>
Target == <<<<"copy">>, 0>>

Init ==
    /\ phase = "node"
    /\ tree \in Nodes
    /\ type = NoType
    /\ part = [at |-> Source, type |-> NoType]
    /\ ordered = TRUE
    /\ moves = {} /\ back = {} /\ built = {} /\ gone = {}

Parse ==
    /\ phase = "node"
    /\ tree' = Datatype(tree)
    /\ phase' = IF IsTemplate(Datatype(tree)) THEN "template" ELSE "error"
    /\ UNCHANGED <<type, part, ordered, moves, back, built, gone>>

EvaluateTemplate ==
    /\ phase = "template"
    /\ IF EvaluateThrows(tree) \/ EvaluateTraps(tree)
       THEN phase' = (IF EvaluateThrows(tree) THEN "error" ELSE "trap") /\ UNCHANGED <<type, part>>
       ELSE /\ phase' = "typed"
            /\ type' = Evaluate(tree)
            /\ part' = [at |-> Source, type |-> Evaluate(tree)]
    /\ UNCHANGED <<tree, ordered, moves, back, built, gone>>

Arguments == 0 .. 3
Names == {"a", "b"}

(* Reached by one more access: index, slice, member or dereference *)
Accesses ==
         {Index(part.type, i, part.at) : i \in Arguments}
  \union {MemberOf(part.type, n, part.at) : n \in Names}
  \union {Dereference(part.type, part.at)}

(* Reached by a slice from b[1] to b[2] *)
Slices ==
    LET base == IF part.type.t = "pointer" THEN part.type.sub ELSE part.type
        n    == CASE base.t = "array" -> base.subsize
                  [] base.t = "tuple" -> Len(base.members)
                  [] OTHER -> 0
        \* not backwards; of a tuple, with an element and not up to the last but one
        InOrder(b) == b[1] <= b[2] /\ (base.t = "tuple" => b[1] < n /\ b[2] # n - 1)
    IN  {[part |-> Slice(part.type, b[1], b[2], part.at), ordered |-> InOrder(b)] : b \in (0 .. n + 1) \X (0 .. n + 1)}

(* Nothing is told of what comes after a slice out of order *)
Access ==
    /\ phase = "typed"
    /\ ordered
    /\ \/ part' \in Accesses /\ UNCHANGED ordered
       \/ \E s \in Slices : part' = s.part /\ ordered' = s.ordered
    /\ part'.type \notin {TypeError, ValueError}
    /\ UNCHANGED <<phase, tree, type, moves, back, built, gone>>

(* Reference_base::do_copy: no copy of data that needs no memory *)
DoCopy ==
    /\ phase = "typed"
    /\ part.at = Source /\ part.type = type
    /\ IF Buffersize(Densify(type)) = 0
       THEN phase' = "null" /\ UNCHANGED <<moves, built>>
       ELSE LET c == ToDense(type, Target, Source)
            IN  phase' = "dense" /\ moves' = c.moves /\ built' = c.built
    /\ UNCHANGED <<tree, type, part, ordered, back, gone>>

CopyBack ==
    /\ phase = "dense"
    /\ back' = FromDense(type, Source, Target).moves
    /\ phase' = "back"
    /\ UNCHANGED <<tree, type, part, ordered, moves, built, gone>>

(* The last reference to the copy is reset *)
DestroyData ==
    /\ phase = "dense"
    /\ gone' = Destroy(Densify(type), Target)
    /\ phase' = "destroyed"
    /\ UNCHANGED <<tree, type, part, ordered, moves, back, built>>

RECURSIVE HasEmptyRecord(_)

(* A record or a tuple without members: its padding is computed modulo 0 *)
HasEmptyRecord(d) ==
    CASE d.t \in {"array", "pointer"} -> HasEmptyRecord(d.sub)
      [] d.t \in {"record", "tuple"}  -> d.members = <<>> \/ \E i \in DOMAIN d.members : HasEmptyRecord(d.members[i].type)
      [] OTHER                        -> FALSE

(* share_serialized: the copy, then the check of the number of bytes copied *)
SerializeData ==
    /\ phase = "typed"
    /\ part.at = Source /\ part.type = type
    /\ IF HasEmptyRecord(type)
       THEN phase' = "trap" /\ UNCHANGED moves
       ELSE LET c == SerializeCopy(type, Target, Source)
            IN  /\ moves' = c.moves
                /\ phase' = IF c.bytes = Datasize(SerializeType(type)) THEN "serialized" ELSE "error"
    /\ UNCHANGED <<tree, type, part, ordered, back, built, gone>>

DeserializeData ==
    /\ phase = "serialized"
    /\ back' = DeserializeCopy(type, Source, Target).moves
    /\ phase' = "restored"
    /\ UNCHANGED <<tree, type, part, ordered, moves, built, gone>>

Next ==
    \/ Parse \/ EvaluateTemplate \/ Access
    \/ DoCopy \/ CopyBack \/ DestroyData
    \/ SerializeData \/ DeserializeData

Spec == Init /\ [][Next]_vars

-----------------------------------------------------------------------------
(* Reference definitions                                                   *)

RECURSIVE SameLeaves(_, _, _, _), NeedsPadding(_), Extents(_, _), LayoutSound(_)

(* The leaves of a data of type d at address a, each with the place of the
   leaf that the same accesses reach in a data of type e at address b *)
SameLeaves(d, a, e, b) ==
    CASE d.t = "pointer" /\ e.t # "pointer" -> SameLeaves(d.sub, Pointee(a), e, b)
      [] d.t \in {"scalar", "pointer"} -> {<<b, a, Datasize(d)>>}
      [] d.t = "array"  -> UNION {LET p == Index(d, i, a) q == Index(e, i, b)
                                  IN  SameLeaves(p.type, p.at, q.type, q.at) : i \in 0 .. d.subsize - 1}
      [] d.t = "tuple"  -> UNION {LET p == Index(d, i, a) q == Index(e, i, b)
                                  IN  SameLeaves(p.type, p.at, q.type, q.at) : i \in 0 .. Len(d.members) - 1}
      [] d.t = "record" -> UNION {LET p == MemberOf(d, d.members[i].name, a) q == MemberOf(e, d.members[i].name, b)
                                  IN  SameLeaves(p.type, p.at, q.type, q.at) : i \in DOMAIN d.members}

(* The bytes of a faithful copy of a data of type d to type e *)
Faithful(d, e) == UNION {Bytes(l[1], l[2], l[3]) : l \in SameLeaves(d, Source, e, Target)}

(* A dense type with bytes that belong to no leaf *)
NeedsPadding(e) ==
    CASE e.t = "array" -> NeedsPadding(e.sub)
      [] e.t \in {"record", "tuple"} ->
            Datasize(e) # e.buffersize \/ \E i \in DOMAIN e.members : NeedsPadding(e.members[i].type)
      [] OTHER -> FALSE

(* The blocks of memory of a data of type d at address a, with their sizes *)
Extents(d, a) ==
    CASE d.t = "pointer" -> {<<a, PointerSize>>} \union Extents(d.sub, Pointee(a))
      [] d.t = "array"   -> {<<a, Buffersize(d)>>} \union
                            UNION {Extents(d.sub, Plus(a, i * Buffersize(d.sub))) : i \in 0 .. d.size - 1}
      [] d.t \in {"record", "tuple"} ->
            {<<a, d.buffersize>>} \union
            UNION {Extents(d.members[i].type, Plus(a, d.members[i].disp)) : i \in DOMAIN d.members}
      [] OTHER           -> {<<a, Buffersize(d)>>}

Inside(at, n) ==
    \E x \in Extents(type, Source) :
        x[1][1] = at[1] /\ x[1][2] <= at[2] /\ at[2] + n <= x[1][2] + x[2]

(* Members aligned, one after the other, inside; the size repeats the alignment *)
LayoutSound(d) ==
    CASE d.t \in {"array", "pointer"} -> LayoutSound(d.sub)
      [] d.t \in {"record", "tuple"}  ->
            /\ d.buffersize % Alignment(d) = 0
            /\ \A i \in DOMAIN d.members :
                   LET m == d.members[i]
                   IN  /\ LayoutSound(m.type)
                       /\ m.disp % Alignment(m.type) = 0
                       /\ m.disp + Buffersize(m.type) <=
                              IF i = Len(d.members) THEN d.buffersize ELSE d.members[i + 1].disp
      [] OTHER -> TRUE

-----------------------------------------------------------------------------
(* Properties                                                              *)

(* Any sequence of index, slice, member and dereference on data of any type
   ends on memory that belongs to the data and reads no element that the type
   has not, as long as every slice starts at or before its end and, of a tuple,
   starts at an element and does not end just before the last one: these are
   the slices that Array_datatype::slice and Tuple_datatype::slice do not
   refuse and cannot compute.  data_to_dense_copy reads only memory of the data
   and writes only to the memory do_copy allocated from the dense type. *)
StaysInside ==
    /\ (phase = "typed" /\ ordered) => part.type # Undefined /\ Inside(part.at, Buffersize(part.type))
    /\ phase = "dense" => \A mv \in moves : mv[1][2] < Buffersize(Densify(type)) /\ Inside(mv[2], 1)

(* densify() gives, for every type a template evaluates to, a dense type that
   it leaves alone, that holds as much data, and whose parts are aligned, do
   not overlap and lie inside: the copy allocated from its buffersize has room
   for every member. *)
DensifyIsDense ==
    type # NoType =>
        LET e == Densify(type)
        IN  Dense(e) /\ Densify(e) = e /\ Datasize(e) = Datasize(type) /\ LayoutSound(e)

(* Every leaf of the data comes back to its place *)
RoundTrip ==
    \A l \in SameLeaves(type, Source, Densify(type), Target) : \A i \in 0 .. l[3] - 1 :
        \E mv \in moves : mv[2] = Plus(l[2], i) /\ <<Plus(l[2], i), mv[1]>> \in back

(* When the dense type needs no padding, data_to_dense_copy puts each leaf
   where the accessors of the dense type find it, data_from_dense_copy brings
   it back where it was, and destroy_data runs exactly where a copy function
   built an object. *)
CopyKeepsData ==
    (type # NoType /\ ~NeedsPadding(Densify(type))) =>
        /\ phase = "dense" => Faithful(type, Densify(type)) \subseteq moves
        /\ phase = "back" => RoundTrip
        /\ phase = "destroyed" => gone = built

(* When the type from serialize_type needs no padding, serialize_copy lays the
   data out as that type says, the pointers followed, and what is written back
   on the release of the serialized data (deserialize_copy) goes where it was
   read, through the pointers and skipping the unused elements. *)
SerializeKeepsData ==
    (phase \in {"serialized", "restored"} /\ ~NeedsPadding(SerializeType(type))) =>
        /\ moves = Faithful(type, SerializeType(type))
        /\ phase = "restored" => back = {<<mv[2], mv[1]>> : mv \in moves}

=============================================================================

------------------------------ MODULE DeclHdf5 ------------------------------
(***************************************************************************)
(* The HDF5 plugin (plugins/decl_hdf5): the reads and writes declared in   *)
(* the specification tree are done when a data is shared or an event is    *)
(* triggered.  Each step of File_op::execute is an action; an exception    *)
(* closes the file, ends the handler and drops the operations that remain. *)
(*                                                                         *)
(* An item of a description is the transfer of one data: of a dataset, of  *)
(* an attribute or of the size of a dataset.  A policy is a set of flags.  *)
(* Sequential HDF5 only: no communicator, no subfiling.                    *)
(***************************************************************************)
EXTENDS Dataspaces, FiniteSets, TLC

CONSTANTS
    Trees,    \* the sequence of the file descriptions of the tree
    Names, Files, Events,
    Offers,   \* what may be shared under each name: [type, value, rights]
    MaxCalls  \* bounds the calls of the simulation

VARIABLES
    store,    \* what is shared under each name, or None
    files,    \* the files on disk: datasets and attributes
    queue,    \* the File_ops the handler has still to execute
    todo,     \* the operations that remain in the open file
    open,     \* the open file, or None
    outcome,  \* how the last handler ended
    calls,
    wrote     \* history: the last transfer to each dataset

vars == <<store, files, queue, todo, open, outcome, calls, wrote>>

None  == [none |-> TRUE]
Fill  == 0      \* the value of a cell nobody wrote
Empty == <<>>   \* no dataset, no attribute

Restricted(f, S) == [x \in S |-> f[x]]

-----------------------------------------------------------------------------
(* The operations of a file description.  A mapping of the tree is a function
   on the keys that are there; a section is a list [names |-> ...] of names
   <<n>> and attribute paths <<object, n>>, or a mapping [each |-> ...] of
   <<name, configurations>>. *)

Get(tree, key, default) == IF key \in DOMAIN tree THEN tree[key] ELSE default

to_collision_policy(name) ==
    CASE name = "skip"                -> {"SKIP"}
      [] name = "skip_and_warn"       -> {"SKIP", "WARNING"}
      [] name = "replace"             -> {"REPLACE"}
      [] name = "replace_and_warn"    -> {"REPLACE", "WARNING"}
      [] name = "write_into"          -> {"WRITE_INTO"}
      [] name = "write_into_and_warn" -> {"WRITE_INTO", "WARNING"}
      [] name = "error"               -> {"ERROR"}

Policy(tree, default) ==
    IF "collision_policy" \in DOMAIN tree THEN to_collision_policy(tree.collision_policy) ELSE default

Selection(tree) == [size |-> Get(tree, "size", <<>>), start |-> Get(tree, "start", <<>>)]

Attribute_op(dir, data, object, name, when) ==
    [kind |-> "attribute", dir |-> dir, data |-> data, object |-> object, target |-> name, when |-> when]

(* The attributes that come with a dataset are on the dataset, always *)
Dataset_op(dir, name, when, policy, tree) ==
    LET target == Get(tree, "dataset", name)
        attrs  == Get(tree, "attributes", <<>>)
    IN  [kind |-> "dataset", dir |-> dir, data |-> name, target |-> target, when |-> Get(tree, "when", when),
         policy |-> Policy(tree, policy),
         memory |-> Selection(Get(tree, "memory_selection", <<>>)),
         selection |-> Selection(Get(tree, "dataset_selection", <<>>)),
         attributes |-> [i \in DOMAIN attrs |-> Attribute_op(dir, attrs[i][2], target, attrs[i][1], <<>>)]]

Size_op(name, dataset) == [kind |-> "size", dir |-> "READ", data |-> name, target |-> dataset]

NamedOp(dir, path, when, policy) ==
    IF Len(path) = 1 THEN Dataset_op(dir, path[1], when, policy, <<>>)
    ELSE Attribute_op(dir, path[2], path[1], path[2], when)

(* The write section looks for `attribute' in what the name maps to before it
   knows whether this is one configuration or a list: one that is in a list of
   several is refused, so a name has one attribute here *)
ConfiguredOp(dir, name, when, policy, tree) ==
    IF "attribute" \in DOMAIN tree
    THEN Attribute_op(dir, name, tree.attribute[1], IF Len(tree.attribute) = 1 THEN name ELSE tree.attribute[2], Get(tree, "when", when))
    ELSE IF dir = "READ" /\ "size_of" \in DOMAIN tree THEN Size_op(name, tree.size_of)
    ELSE Dataset_op(dir, name, when, policy, tree)

Section(tree, key, dir, policy) ==
    LET node == Get(tree, key, [names |-> <<>>])
        when == Get(tree, "when", <<>>)
    IN  IF "names" \in DOMAIN node THEN [i \in DOMAIN node.names |-> NamedOp(dir, node.names[i], when, policy)]
        ELSE FlattenSeq([i \in DOMAIN node.each |->
                [j \in DOMAIN node.each[i][2] |-> ConfiguredOp(dir, node.each[i][1], when, policy, node.each[i][2][j])]])

Kind(ops, kind) == SelectSeq(ops, LAMBDA o : o.kind = kind)

(* The sizes to read: the first for each name *)
FirstOfName(sizes) ==
    FoldLeft(LAMBDA acc, o : IF \E k \in DOMAIN acc : acc[k].data = o.data THEN acc ELSE Append(acc, o), <<>>, sizes)

(* A copy of the operation of the tree, with the given transfers *)
File_op(tree, policy, ops) ==
    [file |-> tree.file, policy |-> policy, datasets |-> Get(tree, "datasets", {}), ops |-> ops,
     trigger |-> IF "on_event" \in DOMAIN tree THEN {} ELSE {ops[1].data}]

(* The final pass: one operation on the file per event, or one for each data *)
FileOps(tree, policy, all) ==
    IF "on_event" \in DOMAIN tree THEN <<File_op(tree, policy, all)>>
    ELSE [i \in DOMAIN all |-> File_op(tree, policy, <<all[i]>>)]

File_op_parse(tree) ==
    LET policy == Policy(tree, {"WRITE_INTO"})
        ops    == Section(tree, "read", "READ", {"WRITE_INTO"}) \o Section(tree, "write", "WRITE", policy)
    IN  FileOps(tree, policy, Kind(ops, "dataset") \o Kind(ops, "attribute") \o FirstOfName(Kind(ops, "size")))

(* What the constructor of the plugin registers for a data and for an event *)
m_data(name) ==
    FlattenSeq([i \in DOMAIN Trees |->
        IF "on_event" \in DOMAIN Trees[i] THEN <<>>
        ELSE SelectSeq(File_op_parse(Trees[i]), LAMBDA op : op.ops[1].data = name)])

m_events(event) ==
    FlattenSeq([i \in DOMAIN Trees |->
        IF event \in Range(Get(Trees[i], "on_event", <<>>)) THEN File_op_parse(Trees[i]) ELSE <<>>])

-----------------------------------------------------------------------------

\* Memory that is overrun is undefined behaviour: the model stops.
Idle == queue = <<>> /\ open = None /\ outcome # "overrun"

Init ==
    /\ store = [n \in Names |-> None]
    /\ files = [f \in Files |-> None]
    /\ queue = <<>>
    /\ todo = <<>>
    /\ open = None
    /\ outcome = "none"
    /\ calls = 0
    /\ wrote = <<>>

(* The simulation shares a data, which triggers the plugin, or reclaims one *)
Share(n, offer) ==
    /\ Idle
    /\ calls < MaxCalls
    /\ store' = [store EXCEPT ![n] =
          [type |-> offer.type, rights |-> offer.rights,
           cells |-> [c \in Box(space(offer.type, FALSE).extent) |-> offer.value + FoldLeft(LAMBDA a, x : 3 * a + x, 0, c)]]]
    /\ queue' = m_data(n)
    /\ calls' = calls + 1
    /\ outcome' = "done"
    /\ UNCHANGED <<files, todo, open, wrote>>

Reclaim(n) ==
    /\ Idle
    /\ store[n] # None
    /\ store' = [store EXCEPT ![n] = None]
    /\ UNCHANGED <<files, queue, todo, open, outcome, calls, wrote>>

Event(e) ==
    /\ Idle
    /\ calls < MaxCalls
    /\ queue' = m_events(e)
    /\ calls' = calls + 1
    /\ outcome' = "done"
    /\ UNCHANGED <<store, files, todo, open, wrote>>

(* An exception: the file is closed, nothing more is done and PDI takes back
   the data whose share has triggered the operation *)
Throw ==
    /\ LET op == IF open = None THEN Head(queue) ELSE open
       IN  store' = [n \in Names |-> IF n \in op.trigger THEN None ELSE store[n]]
    /\ queue' = <<>>
    /\ todo' = <<>>
    /\ open' = None
    /\ outcome' = "error"

-----------------------------------------------------------------------------
(* Opening the file                                                        *)

Shared(n)   == store[n] # None
Readable(n) == Shared(n) /\ "r" \in store[n].rights
Writable(n) == Shared(n) /\ "w" \in store[n].rights

(* The condition of an operation: one on what is not shared is a Value_error,
   which is caught, and false; one on what may not be read or is no scalar is
   another error, which is not caught *)
Illegal(op) == \E i \in DOMAIN op.when : Shared(op.when[i]) /\ ~(Readable(op.when[i]) /\ store[op.when[i]].type = <<>>)

When(op) == \A i \in DOMAIN op.when : Shared(op.when[i]) /\ store[op.when[i]].cells[<<>>] # 0

Selected(op, kind, dir) == SelectSeq(op.ops, LAMBDA o : o.kind = kind /\ (kind = "size" \/ (o.dir = dir /\ When(o))))

(* Writes before reads, datasets before attributes, the sizes last and in any
   order *)
Gathered(op, sizes) ==
    Selected(op, "dataset", "WRITE") \o Selected(op, "dataset", "READ")
    \o Selected(op, "attribute", "WRITE") \o Selected(op, "attribute", "READ") \o sizes

SizeOrders(op) == SetToSeqs(Range(Selected(op, "size", "READ")))

Writes(ops) == \E i \in DOMAIN ops : ops[i].kind # "size" /\ ops[i].dir = "WRITE"
Reads(ops)  == \E i \in DOMAIN ops : ops[i].kind # "size" /\ ops[i].dir = "READ"

NewFile == [sets |-> Empty, attrs |-> Empty]

Opens(op, ops, content) ==
    /\ files' = [files EXCEPT ![op.file] = content]
    /\ open' = op
    /\ todo' = ops
    /\ queue' = Tail(queue)
    /\ wrote' = IF content = NewFile THEN [x \in {y \in DOMAIN wrote : y[1] # op.file} |-> wrote[x]] ELSE wrote
    /\ UNCHANGED <<store, outcome, calls>>

Skips == queue' = Tail(queue) /\ UNCHANGED <<store, files, todo, open, outcome, calls, wrote>>

Refused == Throw /\ UNCHANGED <<files, calls, wrote>>

UnevaluableWhen(op) == \E i \in DOMAIN op.ops : op.ops[i].kind # "size" /\ Illegal(op.ops[i])

WhenThrows ==
    /\ open = None
    /\ queue # <<>> /\ UnevaluableWhen(Head(queue))
    /\ Refused

(* A file to write only is created; one that exists is a collision.  A file to
   read, or to read and write, must exist and there is no collision. *)
OpenFile ==
    /\ open = None
    /\ queue # <<>> /\ ~UnevaluableWhen(Head(queue))
    /\ \E sizes \in SizeOrders(Head(queue)) :
       LET op == Head(queue)
           ops == Gathered(op, sizes)
           exists == files[op.file] # None
       IN  CASE ops = <<>> -> Skips
             [] ops # <<>> /\ (Reads(ops) \/ ~Writes(ops)) ->
                    IF exists THEN Opens(op, ops, files[op.file]) ELSE Refused
             [] OTHER ->
                    CASE ~exists               -> Opens(op, ops, NewFile)
                      [] exists /\ "SKIP" \in op.policy -> Skips
                      [] exists /\ "SKIP" \notin op.policy /\ "REPLACE" \in op.policy -> Opens(op, ops, NewFile)
                      [] exists /\ op.policy \intersect {"SKIP", "REPLACE"} = {} /\ "ERROR" \in op.policy -> Refused
                      [] OTHER                 -> Opens(op, ops, files[op.file])

CloseFile ==
    /\ open # None
    /\ todo = <<>>
    /\ open' = None
    /\ UNCHANGED <<store, files, queue, todo, outcome, calls, wrote>>

-----------------------------------------------------------------------------
(* The operations                                                          *)

Doing(kind, dir) == todo # <<>> /\ Head(todo).kind = kind /\ (kind = "size" \/ Head(todo).dir = dir)

Proceed == todo' = Tail(todo) /\ UNCHANGED <<queue, open, outcome, calls>>
PassOver == Proceed /\ UNCHANGED <<store, files, wrote>>

Content == files[open.file]

MemorySpace(op) == Selection_apply(op.memory, space(store[op.data].type, FALSE), <<>>)

(* The explicit types whose pattern matches the name of the dataset *)
Matching(op) == {d \in open.datasets : op.target \in d.names}

(* The dataspace of the dataset to write: the explicit type with its selection,
   or the dense type of the data *)
FileSpace(op, mem) ==
    IF Matching(op) # {}
    THEN Selection_apply(op.selection, space((CHOOSE d \in Matching(op) : TRUE).type, FALSE), <<mem>>)
    ELSE IF op.selection.size # <<>> THEN Invalid
    ELSE space(store[op.data].type, TRUE)

(* What the history keeps of a transfer *)
Transferred(op) ==
    [op |-> op, memory |-> store[op.data],
     explicit |-> IF Matching(op) = {} THEN <<>> ELSE (CHOOSE d \in Matching(op) : TRUE).type]

NewSet(sp) == [extent |-> sp.extent, cells |-> [c \in Box(sp.extent) |-> Fill]]


(* What becomes of the dataset when it exists already *)
Collision(policy) ==
    IF "SKIP" \in policy THEN "skip"
    ELSE IF policy = {"REPLACE"} THEN "replace"
    ELSE IF policy = {"ERROR"} THEN "error"
    ELSE "write"

(* Dataset_op::do_write, up to the transfer *)
WriteDecision(op) ==
    IF ~Shared(op.data) THEN "throw"
    ELSE IF ~Readable(op.data) THEN "pass"
    ELSE LET mem == MemorySpace(op)
             file == IF mem = Invalid THEN Invalid ELSE FileSpace(op, mem)
         IN  IF Cardinality(Matching(op)) > 1 \/ file = Invalid \/ ~validate_dataspaces(mem, file) THEN "throw"
             ELSE IF op.target \notin DOMAIN Content.sets THEN "create"
             ELSE Collision(op.policy)

(* The attributes that go with a dataset follow its transfer *)
ProceedWith(attributes) == todo' = attributes \o Tail(todo) /\ UNCHANGED <<queue, open, outcome, calls>>

WithSet(name, set) == [Content EXCEPT !.sets = (name :> set) @@ @]

(* H5Ldelete takes the attributes of the dataset with it *)
Deleted(name) ==
    [sets  |-> Restricted(Content.sets, DOMAIN Content.sets \ {name}),
     attrs |-> Restricted(Content.attrs, {k \in DOMAIN Content.attrs : k[1] # name})]

(* The dataset is created, again after it was deleted; that may fail *)
CreateDataset(op, decision, file, mem) ==
    LET before == IF decision = "replace" THEN Deleted(op.target) ELSE Content
        fits   == Inside(mem) /\ Inside(file)
        blank  == NewSet(file)
        set    == IF fits THEN [blank EXCEPT !.cells = Transfer(@, file, store[op.data].cells, mem)] ELSE blank
        forget == Restricted(wrote, DOMAIN wrote \ {<<open.file, op.target>>})
    IN  \/ /\ files' = [files EXCEPT ![open.file] = before]
           /\ wrote' = forget
           /\ Throw
           /\ UNCHANGED calls
        \/ /\ files' = [files EXCEPT ![open.file] = [before EXCEPT !.sets = (op.target :> set) @@ @]]
           /\ wrote' = IF fits THEN (<<open.file, op.target>> :> Transferred(op)) @@ forget ELSE forget
           /\ IF fits THEN ProceedWith(op.attributes) /\ UNCHANGED store ELSE Throw /\ UNCHANGED calls

(* H5Dwrite into the dataset that exists; it fails if the extents differ *)
WriteInto(op, file, mem) ==
    LET set == Content.sets[op.target]
    IN  IF Inside(mem) /\ Inside(file) /\ set.extent = file.extent
        THEN /\ files' = [files EXCEPT ![open.file] =
                    WithSet(op.target, [set EXCEPT !.cells = Transfer(@, file, store[op.data].cells, mem)])]
             /\ wrote' = (<<open.file, op.target>> :> Transferred(op)) @@ wrote
             /\ ProceedWith(op.attributes)
             /\ UNCHANGED store
        ELSE Refused

WriteDataset ==
    /\ Doing("dataset", "WRITE")
    /\ LET op == Head(todo)
           decision == WriteDecision(op)
           mem  == MemorySpace(op)
           file == FileSpace(op, mem)
       IN  CASE decision \in {"throw", "error"}    -> Refused
             [] decision \in {"pass", "skip"}      -> PassOver
             [] decision \in {"create", "replace"} -> CreateDataset(op, decision, file, mem)
             [] decision = "write"                 -> WriteInto(op, file, mem)

(* Dataset_op::do_read: the selection applies to the extent of the dataset *)
ReadSpace(op, mem) ==
    LET extent == Content.sets[op.target].extent
    IN  Selection_apply(op.selection, Dataspace(extent, [d \in DOMAIN extent |-> 0], extent), <<mem>>)

ReadDecision(op) ==
    IF ~Shared(op.data) THEN "throw"
    ELSE IF ~Writable(op.data) THEN "pass"
    ELSE LET mem  == MemorySpace(op)
             file == IF mem = Invalid \/ op.target \notin DOMAIN Content.sets THEN Invalid ELSE ReadSpace(op, mem)
         IN  IF file = Invalid \/ ~validate_dataspaces(mem, file) \/ ~Inside(mem) \/ ~Inside(file) THEN "throw" ELSE "read"

ReadDataset ==
    /\ Doing("dataset", "READ")
    /\ LET op == Head(todo)
           decision == ReadDecision(op)
       IN  CASE decision = "throw" -> Refused
             [] decision = "pass"  -> PassOver
             [] decision = "read"  ->
                    /\ store' = [store EXCEPT ![op.data].cells =
                          Transfer(@, MemorySpace(op), Content.sets[op.target].cells, ReadSpace(op, MemorySpace(op)))]
                    /\ ProceedWith(op.attributes)
                    /\ UNCHANGED <<files, wrote>>

(* The attribute is created or overwritten on a group or dataset that exists *)
Holder(op) == op.object = "/" \/ op.object \in DOMAIN Content.sets

WriteAttribute ==
    /\ Doing("attribute", "WRITE")
    /\ LET op == Head(todo)
       IN  \/ /\ Shared(op.data) /\ ~Readable(op.data)
              /\ PassOver
           \/ /\ ~Shared(op.data) \/ (Readable(op.data) /\ ~Holder(op))
              /\ Refused
           \/ /\ Readable(op.data) /\ Holder(op)
              /\ files' = [files EXCEPT ![open.file].attrs = (<<op.object, op.target>> :> store[op.data].cells) @@ @]
              /\ Proceed
              /\ UNCHANGED <<store, wrote>>

ReadAttribute ==
    /\ Doing("attribute", "READ")
    /\ LET op == Head(todo)
           at == <<op.object, op.target>>
       IN  \/ /\ Shared(op.data) /\ ~Writable(op.data)
              /\ PassOver
           \/ /\ ~Shared(op.data) \/ (Writable(op.data) /\ at \notin DOMAIN Content.attrs)
              /\ Refused
           \/ /\ Writable(op.data) /\ at \in DOMAIN Content.attrs
              /\ store' = [store EXCEPT ![op.data].cells = Content.attrs[at]]
              /\ Proceed
              /\ UNCHANGED <<files, wrote>>

(* The size of a dataset; a data that cannot be written ends the whole file.
   A data with fewer cells than the dataset has dimensions is overrun. *)
ReadSize ==
    /\ Doing("size", "READ")
    /\ LET op == Head(todo)
           extent == Content.sets[op.target].extent
           index(c) == IF c = <<>> THEN 0 ELSE c[1]
       IN  \/ /\ Shared(op.data) /\ ~Writable(op.data)
              /\ todo' = <<>>
              /\ UNCHANGED <<store, files, queue, open, outcome, calls, wrote>>
           \/ /\ ~Shared(op.data) \/ (Writable(op.data) /\ op.target \notin DOMAIN Content.sets)
              /\ Refused
           \/ /\ Writable(op.data) /\ op.target \in DOMAIN Content.sets
              /\ Len(extent) > Cardinality(DOMAIN store[op.data].cells)
              /\ queue' = <<>> /\ todo' = <<>> /\ open' = None /\ outcome' = "overrun"
              /\ UNCHANGED <<store, files, calls, wrote>>
           \/ /\ Writable(op.data) /\ op.target \in DOMAIN Content.sets
              /\ Len(extent) <= Cardinality(DOMAIN store[op.data].cells)
              /\ store' = [store EXCEPT ![op.data].cells =
                    [c \in DOMAIN @ |-> IF index(c) < Len(extent) THEN extent[index(c) + 1] ELSE @[c]]]
              /\ Proceed
              /\ UNCHANGED <<files, wrote>>

Next ==
    \/ \E n \in Names : \E offer \in Offers[n] : Share(n, offer)
    \/ \E n \in Names : Reclaim(n)
    \/ \E e \in Events : Event(e)
    \/ WhenThrows \/ OpenFile \/ CloseFile
    \/ WriteDataset \/ ReadDataset \/ WriteAttribute \/ ReadAttribute \/ ReadSize

Spec == Init /\ [][Next]_vars

-----------------------------------------------------------------------------
(* Properties                                                              *)

Starts(type) == [d \in DOMAIN type |-> type[d].start]
Shape(type)  == [d \in DOMAIN type |-> type[d].subsize]

(* Where a selection begins, and how far it goes, coordinate by coordinate *)
Begin(sel, base)  == IF sel.start = <<>> THEN base ELSE [d \in DOMAIN base |-> base[d] + sel.start[d]]
Extent(sel, base) == IF sel.size = <<>> THEN base ELSE sel.size

Minus(c, d) == [i \in DOMAIN c |-> c[i] - d[i]]
Plus(c, d)  == [i \in DOMAIN c |-> c[i] + d[i]]

(* A dataset that is read gives back what the last transfer to it stored, each
   point where the selections of the two operations put it, whatever the start
   and the size of the types and of the selections on either side (space,
   Selection::apply, Dataset_op::do_write and do_read). *)
ReadsWhatWasWritten ==
    [][LET op  == Head(todo)
           key == <<open.file, op.target>>
       IN  (Doing("dataset", "READ") /\ store' # store /\ outcome' = outcome /\ key \in DOMAIN wrote) =>
           LET w     == wrote[key]
               into  == Begin(op.memory, Starts(store[op.data].type))
               at    == Begin(op.selection, [d \in DOMAIN into |-> 0])
               wfrom == Begin(w.op.memory, Starts(w.memory.type))
               wat   == Begin(w.op.selection, IF w.explicit = <<>> THEN [d \in DOMAIN wfrom |-> 0] ELSE Starts(w.explicit))
               count == Extent(op.memory, Shape(store[op.data].type))
               wide  == Extent(w.op.memory, Shape(w.memory.type))
           IN  \A c \in DOMAIN store[op.data].cells :
                  LET q == Minus(Plus(Minus(c, into), at), wat)
                  IN  (Minus(c, into) \in Box(count) /\ q \in Box(wide))
                         => store'[op.data].cells[c] = w.memory.cells[Plus(wfrom, q)]]_vars

(* This step takes d away, or changes what a transfer to d does not reach *)
Loses(f, d) ==
    LET op   == Head(todo)
        file == FileSpace(op, MemorySpace(op))
    IN  \/ d \notin DOMAIN files'[f].sets
        \/ \E c \in DOMAIN files[f].sets[d].cells :
               files'[f].sets[d].cells[c] # files[f].sets[d].cells[c] /\ Minus(c, file.start) \notin Box(file.count)


=============================================================================

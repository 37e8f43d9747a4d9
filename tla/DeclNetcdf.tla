----------------------------- MODULE DeclNetcdf -----------------------------
(***************************************************************************)
(* The NetCDF plugin (plugins/decl_netcdf): each file description of the   *)
(* tree is a Dnc_file_context that opens its file, defines groups,         *)
(* variables and dimensions, and transfers data when an event is triggered *)
(* or a data is shared.  A handler is the sequence of its steps in todo;   *)
(* an exception closes the file and drops the rest of the handler, not the *)
(* handlers of the other contexts.                                         *)
(*                                                                         *)
(* A path is the sequence of the names of its groups and its own name.  A  *)
(* type is [elem, sizes, dense]: an element type, the sizes of the         *)
(* dimensions, none for a scalar, and whether all of the memory is data.   *)
(* The memory of a data is the sequence of its cells.  Cells are moved     *)
(* without conversion: between elements of different sizes they are Raw.   *)
(***************************************************************************)
EXTENDS Dataspaces, FiniteSets, FiniteSetsExt, TLC

CONSTANTS
    Trees,    \* the file descriptions of the specification tree
    Names, Files, Events,
    Offers,   \* what may be shared under each name: [type, value, rights]
    MaxCalls  \* bounds the calls of the simulation

VARIABLES
    store,    \* what is shared under each name, or None
    files,    \* the files on disk
    types,    \* Dnc_variable::m_type of the declared variables, or None
    nc,       \* the open file, or None: [mode, groups, variables, listed, at]
    queue,    \* the contexts whose callback has still to run: [ctx, data]
    todo,     \* the steps that remain
    outcome,  \* how the last handler ended
    calls,
    last      \* the event that was handled last, or None

vars == <<store, files, types, nc, queue, todo, outcome, calls, last>>

None    == [none |-> TRUE]
NewFile == [groups |-> {<<>>}, dims |-> <<>>, vars |-> <<>>, attrs |-> <<>>, compounds |-> {}]
Fill    == 0
Raw     == -1000

-----------------------------------------------------------------------------
(* The configuration.  A mapping of the tree is a function on the keys that
   are there, the attributes a sequence of [name, data]; a list of names, or a
   single name, is [names |-> sequence]; a description has a file node, or it
   is refused. *)

Get(tree, key, default) == IF key \in DOMAIN tree THEN tree[key] ELSE default

Dnc_io(tree) ==
    LET selection == Get(tree, "variable_selection", <<>>)
    IN  [path    |-> Get(tree, "variable", Get(tree, "size_of", <<>>)),
         start   |-> Get(selection, "start", <<>>),
         subsize |-> Get(selection, "subsize", <<>>),
         when    |-> Get(tree, "when", <<>>)]

Dnc_group(tree) == Get(tree, "attributes", <<>>)

Dnc_variable(tree) ==
    [type |-> Get(tree, "type", None), dims |-> Get(tree, "dimensions", <<>>), attrs |-> Get(tree, "attributes", <<>>)]

(* The nodes of the read or of the write section, by data *)
IoNodes(tree, section) ==
    LET node == Get(tree, section, <<>>)
    IN  IF "names" \in DOMAIN node THEN [n \in Range(node.names) |-> <<>>] ELSE node

Dnc_file_context(tree) ==
    LET reads  == IoNodes(tree, "read")
        writes == IoNodes(tree, "write")
        sized  == {n \in DOMAIN reads : "size_of" \in DOMAIN reads[n]}
        groups == Get(tree, "groups", <<>>)
        declared  == Get(tree, "variables", <<>>)
    IN  [file      |-> tree.file,
         events    |-> Range(Get(tree, "on_event", <<>>)),
         when      |-> Get(tree, "when", <<>>),
         groups    |-> [g \in DOMAIN groups |-> Dnc_group(groups[g])],
         variables |-> [v \in DOMAIN declared |-> Dnc_variable(declared[v])],
         read      |-> [n \in DOMAIN reads \ sized |-> Dnc_io(reads[n])],
         sizeof    |-> [n \in sized |-> Dnc_io(reads[n])],
         write     |-> [n \in DOMAIN writes |-> Dnc_io(writes[n])]]

Config == [c \in DOMAIN Trees |-> Dnc_file_context(Trees[c])]

-----------------------------------------------------------------------------
Contexts == DOMAIN Config
Idle     == queue = <<>> /\ todo = <<>> /\ nc = None /\ outcome \notin {"overrun", "undefined"}

Init ==
    /\ store = [n \in Names |-> None]
    /\ files = [f \in Files |-> None]
    /\ types = [c \in Contexts |-> [p \in DOMAIN Config[c].variables |-> Config[c].variables[p].type]]
    /\ nc = None
    /\ queue = <<>>
    /\ todo = <<>>
    /\ outcome = "none"
    /\ calls = 0
    /\ last = None

-----------------------------------------------------------------------------
(* The calls of the simulation and what they trigger                       *)

Ios(c) == DOMAIN Config[c].read \union DOMAIN Config[c].write \union DOMAIN Config[c].sizeof

(* The callbacks of the file contexts cs, in the order of their registration *)
Callbacks(cs, data) ==
    SetToSortSeq({[ctx |-> c, data |-> data] : c \in cs}, LAMBDA x, y : x.ctx < y.ctx)

(* A data that is shared again has been reclaimed before *)
Share(n, offer) ==
    /\ Idle
    /\ calls < MaxCalls
    /\ store' = [store EXCEPT ![n] = [type |-> offer.type, rights |-> offer.rights,
                                      cells |-> [i \in 1 .. Product(offer.type.sizes) |-> offer.value + i]]]
    /\ queue' = Callbacks({c \in Contexts : Config[c].events = {} /\ n \in Ios(c)}, <<n>>) \o <<[ctx |-> 0, data |-> <<n>>]>>
    /\ calls' = calls + 1
    /\ outcome' = "done"
    /\ last' = None
    /\ UNCHANGED <<files, types, nc, todo>>

(* When all callbacks have been called, PDI takes the data back if one failed *)
EndShare ==
    /\ queue # <<>> /\ Head(queue).ctx = 0
    /\ store' = IF outcome = "error" THEN [store EXCEPT ![Head(queue).data[1]] = None] ELSE store
    /\ queue' = Tail(queue)
    /\ UNCHANGED <<files, types, nc, todo, outcome, calls, last>>

Event(e) ==
    /\ Idle
    /\ calls < MaxCalls
    /\ queue' = Callbacks({c \in Contexts : e \in Config[c].events}, <<>>)
    /\ calls' = calls + 1
    /\ outcome' = "done"
    /\ last' = [event |-> e]
    /\ UNCHANGED <<store, files, types, nc, todo>>

(* An exception ends the handler; PDI still calls those of the other contexts *)
Throw ==
    /\ nc' = None
    /\ queue' = Tail(queue)
    /\ todo' = <<>>
    /\ outcome' = "error"
    /\ UNCHANGED <<calls, last>>

(* Nothing is defined after an access beyond the memory of a data or a vector *)
Break(how) ==
    /\ nc' = None
    /\ queue' = <<>>
    /\ todo' = <<>>
    /\ outcome' = how
    /\ UNCHANGED <<calls, last>>

Proceed == todo' = Tail(todo) /\ UNCHANGED <<queue, outcome, calls, last>>

Shared(n)   == store[n] # None
Readable(n) == Shared(n) /\ "r" \in store[n].rights
Writable(n) == Shared(n) /\ "w" \in store[n].rights

(* A condition; one on what may not be read or is no scalar throws *)
IsScalar(type)  == type.sizes = <<>> /\ type.elem.kind # "RECORD"
Evaluable(when) == \A i \in DOMAIN when : Readable(when[i]) /\ IsScalar(store[when[i]].type)
Holds(when)     == \A i \in DOMAIN when : store[when[i]].cells[1] # 0

-----------------------------------------------------------------------------
(* Dnc_file_context::execute                                               *)

Step(kind, arg) == [kind |-> kind, arg |-> arg]
Steps(kind, args) == [i \in DOMAIN args |-> Step(kind, args[i])]

Groups(c) == SetToSeq(DOMAIN Config[c].groups)

(* An order in which the loops of a handler go through an unordered map *)
Orders(S) == SetToSeqs(S)

(* The steps for one shared data: a write, then a read, then a size, each with
   a file of its own *)
DataSteps(n) == <<Step("write", n), Step("read", n), Step("sizeof", n)>>

WriteSteps(c, n) ==
    <<Step("open", "WRITE")>> \o Steps("define_group", Groups(c))
    \o <<Step("define_variable", n), Step("enddef", n), Step("put_variable", n), Step("close", n)>>

ReadSteps(c, n) ==
    <<Step("open", "NOWRITE")>> \o Steps("read_group", Groups(c))
    \o <<Step("read_variable", n), Step("get_variable", n), Step("close", n)>>

SizeSteps(n) == <<Step("open", "NOWRITE"), Step("get_sizeof", n), Step("close", n)>>

(* Faulty: the second loop goes through the data in another order than the first *)
EventStepsReordered(c, writes, reads, sizes) ==
    (IF writes = <<>>
     THEN <<Step("open", "NOWRITE")>> \o Steps("read_group", Groups(c))
          \o Steps("read_variable", reads) \o Steps("get_sizeof", sizes)
     ELSE <<Step("open", "WRITE")>> \o Steps("define_group", Groups(c))
          \o Steps("define_variable", writes) \o <<Step("enddef", writes[1])>> \o Steps("put_variable", Reverse(writes)))
    \o Steps("get_variable", Reverse(reads)) \o <<Step("close", "")>>

(* The steps for an event, which looks at no condition of a single data.  The
   variables to read are looked up only when there is nothing to write. *)
EventSteps(c, writes, reads, sizes) ==
    (IF writes = <<>>
     THEN <<Step("open", "NOWRITE")>> \o Steps("read_group", Groups(c))
          \o Steps("read_variable", reads) \o Steps("get_sizeof", sizes)
     ELSE <<Step("open", "WRITE")>> \o Steps("define_group", Groups(c))
          \o Steps("define_variable", writes) \o <<Step("enddef", writes[1])>> \o Steps("put_variable", writes))
    \o Steps("get_variable", reads) \o <<Step("close", "")>>

Ctx == Head(queue).ctx

Execute ==
    /\ queue # <<>> /\ todo = <<>> /\ Head(queue).ctx # 0
    /\ UNCHANGED <<store, files, types>>
    /\ LET c == Config[Ctx]
       IN  CASE ~Evaluable(c.when) -> Throw
             [] Evaluable(c.when) /\ ~Holds(c.when) ->
                    queue' = Tail(queue) /\ UNCHANGED <<nc, todo, outcome, calls, last>>
             [] OTHER ->
                    /\ IF Head(queue).data # <<>> THEN todo' = DataSteps(Head(queue).data[1]) \o <<Step("end", "")>>
                       ELSE \E w \in Orders(DOMAIN c.write), r \in Orders(DOMAIN c.read), s \in Orders(DOMAIN c.sizeof) :
                               todo' = EventSteps(Ctx, w, r, s) \o <<Step("end", "")>>
                    /\ UNCHANGED <<nc, queue, outcome, calls, last>>

Doing(kind) == todo # <<>> /\ Head(todo).kind = kind
Arg         == Head(todo).arg

EndExecute ==
    /\ Doing("end")
    /\ queue' = Tail(queue)
    /\ todo' = Tail(todo)
    /\ UNCHANGED <<store, files, types, nc, outcome, calls, last>>

(* The part of a data-triggered handler that does this kind of transfer *)
Begin(kind, ios, steps) ==
    /\ Doing(kind)
    /\ UNCHANGED <<store, files, types>>
    /\ CASE Arg \in DOMAIN ios /\ ~Evaluable(ios[Arg].when) -> Throw
         [] Arg \in DOMAIN ios /\ Evaluable(ios[Arg].when) /\ Holds(ios[Arg].when) ->
                todo' = steps \o Tail(todo) /\ UNCHANGED <<nc, queue, outcome, calls, last>>
         [] OTHER -> Proceed /\ UNCHANGED nc

BeginTransfer ==
    \/ Begin("write", Config[Ctx].write, WriteSteps(Ctx, Arg))
    \/ Begin("read", Config[Ctx].read, ReadSteps(Ctx, Arg))
    \/ Begin("sizeof", Config[Ctx].sizeof, SizeSteps(Arg))

-----------------------------------------------------------------------------
(* Dnc_netcdf_file                                                         *)

File == Config[Ctx].file
Disk == files[File]

(* A file that cannot be opened is created, to be read as well *)
Open ==
    /\ Doing("open")
    /\ files' = [files EXCEPT ![File] = IF @ = None THEN NewFile ELSE @]
    /\ nc' = [mode |-> Arg, groups |-> {<<>>}, variables |-> {}, listed |-> <<>>, at |-> 1]
    /\ Proceed
    /\ UNCHANGED <<store, types>>

Close ==
    /\ Doing("close") \/ Doing("enddef")
    /\ nc' = IF Doing("close") THEN None ELSE nc
    /\ Proceed
    /\ UNCHANGED <<store, files, types>>

(* The group a variable is in, and a group with those that contain it *)
GroupOf(p)       == Front(p)
Enclosing(group) == Prefixes(group)

(* The NetCDF type of a scalar; some have none *)
nc_scalar_type(elem) ==
    CASE elem.kind = "SIGNED" /\ elem.bytes \in {1, 2, 4, 8} ->
            <<"NC_CHAR", "NC_SHORT", "", "NC_INT", "", "", "", "NC_INT64">>[elem.bytes]
      [] elem.kind = "UNSIGNED" /\ elem.bytes = 1 -> "NC_CHAR"
      [] elem.kind = "FLOAT" /\ elem.bytes \in {4, 8} -> <<"", "", "", "NC_FLOAT", "", "", "", "NC_DOUBLE">>[elem.bytes]
      [] OTHER -> "none"

(* The memory of a data, as far as bytes go, after cells have been copied to it *)
Copied(cells, bytes, data) ==
    [i \in DOMAIN data.cells |->
        CASE bytes = data.type.elem.bytes -> IF i <= Len(cells) THEN cells[i] ELSE data.cells[i]
          [] OTHER -> IF (i - 1) * data.type.elem.bytes < Len(cells) * bytes THEN Raw ELSE data.cells[i]]

Overruns(number, bytes, data) == number * bytes > Len(data.cells) * data.type.elem.bytes

(* An attribute is a scalar or a dense array of scalars *)
Attributable(type) == type.elem.kind # "RECORD" /\ (type.sizes = <<>> \/ (Len(type.sizes) = 1 /\ type.dense))

(* The old attribute is deleted, the new one put if it may be read.  The loops
   over the attributes of a group or variable end at the first that throws. *)
PutAttribute(acc, path, attr) ==
    LET key  == <<path, attr.name>>
        gone == [acc.file EXCEPT !.attrs = [k \in DOMAIN @ \ {key} |-> @[k]]]
        data == store[attr.data]
    IN  CASE acc.how # "done" -> acc
          [] acc.how = "done" /\ (~Shared(attr.data) \/ (Readable(attr.data) /\ ~(Attributable(data.type) /\ nc_scalar_type(data.type.elem) # "none"))) ->
                [file |-> gone, how |-> "error"]
          [] acc.how = "done" /\ Shared(attr.data) /\ ~Readable(attr.data) -> [acc EXCEPT !.file = gone]
          [] OTHER -> [acc EXCEPT !.file = [gone EXCEPT !.attrs = (key :> [bytes |-> data.type.elem.bytes, cells |-> data.cells]) @@ @]]

PutAttributes(f, path, attrs) ==
    FoldLeft(LAMBDA acc, attr : PutAttribute(acc, path, attr), [file |-> f, how |-> "done"], attrs)

(* The attribute is read if the data may be written, whatever its type in the file *)
GetAttribute(acc, path, attr) ==
    LET key == <<path, attr.name>>
        n   == attr.data
        read == Disk.attrs[key]
    IN  CASE acc.how # "done" -> acc
          [] acc.how = "done" /\ (~Shared(n) \/ (Writable(n) /\ ~(Attributable(store[n].type) /\ key \in DOMAIN Disk.attrs))) ->
                [acc EXCEPT !.how = "error"]
          [] acc.how = "done" /\ Shared(n) /\ ~Writable(n) -> acc
          [] OTHER -> IF Overruns(Len(read.cells), read.bytes, store[n]) THEN [acc EXCEPT !.how = "overrun"]
                      ELSE [acc EXCEPT !.store[n].cells = Copied(read.cells, read.bytes, acc.store[n])]

GetAttributes(path, attrs) ==
    FoldLeft(LAMBDA acc, attr : GetAttribute(acc, path, attr), [store |-> store, how |-> "done"], attrs)

Meets(groups)  == [nc EXCEPT !.groups = @ \union groups]
Fails(how)     == IF how = "error" THEN Throw ELSE Break(how)

DefineGroup ==
    /\ Doing("define_group")
    /\ LET put == PutAttributes([Disk EXCEPT !.groups = @ \union Enclosing(Arg)], Arg, Config[Ctx].groups[Arg])
       IN  /\ files' = [files EXCEPT ![File] = put.file]
           /\ IF put.how = "done" THEN Proceed /\ nc' = Meets(Enclosing(Arg)) ELSE Throw
    /\ UNCHANGED <<store, types>>

(* Faulty: a group that is missing is defined *)
ReadGroupDefining ==
    /\ Doing("read_group")
    /\ LET got == GetAttributes(Arg, Config[Ctx].groups[Arg])
       IN  /\ store' = got.store
           /\ IF got.how = "done" THEN Proceed /\ nc' = Meets(Enclosing(Arg)) ELSE Fails(got.how)
    /\ files' = [files EXCEPT ![File].groups = @ \union Enclosing(Arg)]
    /\ UNCHANGED types

ReadGroup ==
    /\ Doing("read_group")
    /\ LET got == GetAttributes(Arg, Config[Ctx].groups[Arg])
       IN  IF Arg \notin Disk.groups THEN Throw /\ UNCHANGED store
           ELSE /\ store' = got.store
                /\ IF got.how = "done" THEN Proceed /\ nc' = Meets(Enclosing(Arg)) ELSE Fails(got.how)
    /\ UNCHANGED <<files, types>>

(* Dnc_file_context::variable: the declared variable of that path, or of the
   name of the data, or else a new one *)
Variable(n, io) ==
    IF io.path \in DOMAIN Config[Ctx].variables THEN io.path
    ELSE IF <<n>> \in DOMAIN Config[Ctx].variables \/ io.path = <<>> THEN <<n>>
    ELSE io.path

Declared(p) == p \in DOMAIN Config[Ctx].variables
DimensionsOf(p) == IF Declared(p) THEN Config[Ctx].variables[p].dims ELSE <<>>
AttributesOf(p) == IF Declared(p) THEN Config[Ctx].variables[p].attrs ELSE <<>>

(* A variable without a type takes that of the data, a declared one for good *)
TypeOf(p, n) == IF Declared(p) /\ types[Ctx][p] # None THEN types[Ctx][p] ELSE store[n].type

KeepType(p, n) == types' = IF Declared(p) THEN [types EXCEPT ![Ctx][p] = TypeOf(p, n)] ELSE types

(* The type of the elements of a variable: a scalar, or a compound that has a name *)
ElementType(elem) == IF elem.kind = "RECORD" THEN elem.name ELSE nc_scalar_type(elem)

(* The dimension of that name in the group or in one that contains it, whatever
   its length, or else a new one; a length of 0 stands for unlimited *)
Seen(f, group, name) == {g \in Enclosing(group) : <<g, name>> \in DOMAIN f.dims}

DimensionKey(f, group, name) ==
    <<IF Seen(f, group, name) = {} THEN group ELSE CHOOSE g \in Seen(f, group, name) : \A h \in Seen(f, group, name) : Len(h) <= Len(g), name>>

(* The names of the dimensions: <<n, 0>> is declared as n, <<v, i>> made up *)
DimensionNames(p, type) ==
    IF DimensionsOf(p) # <<>> THEN DimensionsOf(p) ELSE [i \in DOMAIN type.sizes |-> <<Last(p), i>>]

Typed(f, type) == [f EXCEPT !.compounds = IF type.elem.kind = "RECORD" THEN @ \union {type.elem.name} ELSE @]

Defined(f, p, type) ==
    LET group == GroupOf(p)
        names == DimensionNames(p, type)
        keys  == [i \in DOMAIN names |-> DimensionKey(f, group, names[i])]
        fresh == {i \in DOMAIN keys : keys[i] \notin DOMAIN f.dims}
        dims  == f.dims @@ [k \in {keys[i] : i \in fresh} |->
                               LET i == Min({j \in fresh : keys[j] = k})
                               IN  [len |-> type.sizes[i], unlimited |-> type.sizes[i] = 0]]
    IN  [f EXCEPT !.dims = dims,
                  !.vars = (p :> [type |-> ElementType(type.elem), bytes |-> type.elem.bytes, dims |-> keys, cells |-> <<>>]) @@ @]

(* The variable, put in the list of those to transfer *)
Listed(p, n) == [nc EXCEPT !.listed = Append(@, [path |-> p, type |-> TypeOf(p, n)])]

Defining(p, n) ==
    [Listed(p, n) EXCEPT !.groups = @ \union Enclosing(GroupOf(p)), !.variables = @ \union {p}]

HasType(p, n) == (Declared(p) /\ types[Ctx][p] # None) \/ Shared(n)

DimensionsAgree(p, type) == DimensionsOf(p) = <<>> \/ Len(DimensionsOf(p)) = Len(type.sizes)

(* A type is checked, and used, only for a variable that is not in the file *)
DefineVariable ==
    /\ Doing("define_variable")
    /\ LET p     == Variable(Arg, Config[Ctx].write[Arg])
           type  == TypeOf(p, Arg)
           grown == [Disk EXCEPT !.groups = @ \union Enclosing(GroupOf(p))]
           new   == p \notin DOMAIN Disk.vars
           typed == type.dense /\ ElementType(type.elem) # "none"
           put   == PutAttributes(IF new THEN Defined(Typed(grown, type), p, type) ELSE grown, p, AttributesOf(p))
       IN  IF ~HasType(p, Arg) THEN Throw /\ UNCHANGED <<files, types>>
           ELSE /\ KeepType(p, Arg)
                /\ CASE p \in nc.variables -> Proceed /\ nc' = Listed(p, Arg) /\ UNCHANGED files
                     [] p \notin nc.variables /\ new /\ ~(typed /\ DimensionsAgree(p, type)) ->
                            Throw /\ files' = [files EXCEPT ![File] = IF typed THEN Typed(grown, type) ELSE grown]
                     [] OTHER ->
                            /\ files' = [files EXCEPT ![File] = put.file]
                            /\ IF put.how = "done" THEN Proceed /\ nc' = Defining(p, Arg) ELSE Throw
    /\ UNCHANGED store

ReadVariable ==
    /\ Doing("read_variable")
    /\ LET p   == Variable(Arg, Config[Ctx].read[Arg])
           got == GetAttributes(p, AttributesOf(p))
       IN  IF ~HasType(p, Arg) THEN Throw /\ UNCHANGED <<store, types>>
           ELSE /\ KeepType(p, Arg)
                /\ CASE p \in nc.variables -> Proceed /\ nc' = Listed(p, Arg) /\ UNCHANGED store
                     [] p \notin nc.variables /\ p \notin DOMAIN Disk.vars -> Throw /\ UNCHANGED store
                     [] OTHER ->
                            /\ store' = got.store
                            /\ IF got.how = "done" THEN Proceed /\ nc' = Defining(p, Arg) ELSE Fails(got.how)
    /\ UNCHANGED files

(* The hyperslab of a transfer: by default the whole of the variable's type *)
DimsStart(io, sizes) == IF io.start = <<>> THEN [d \in DOMAIN sizes |-> 0] ELSE io.start
DimsCount(io, sizes) == IF io.subsize = <<>> THEN sizes ELSE io.subsize

Lengths(f, p) == [d \in DOMAIN f.vars[p].dims |-> f.dims[f.vars[p].dims[d]].len]

(* Only the first entries of start and count are looked at, as many as the
   variable in the file has dimensions; a scalar is put and got as a whole *)
Slab(p, io, type) ==
    LET lens == Lengths(Disk, p)
    IN  IF type.sizes = <<>> THEN Dataspace(lens, [d \in DOMAIN lens |-> 0], lens)
        ELSE Dataspace(lens, SubSeq(DimsStart(io, type.sizes), 1, Len(lens)), SubSeq(DimsCount(io, type.sizes), 1, Len(lens)))

TooFewEntries(p, type) == type.sizes # <<>> /\ Len(type.sizes) < Len(Disk.vars[p].dims)

RanksAgree(io, type) ==
    /\ io.start = <<>> \/ Len(io.start) = Len(type.sizes)
    /\ io.subsize = <<>> \/ Len(io.subsize) = Len(type.sizes)

(* A write may grow the unlimited dimensions of the variable *)
Grown(f, p, slab) ==
    [f EXCEPT !.dims = [k \in DOMAIN @ |->
        IF @[k].unlimited /\ \E d \in DOMAIN f.vars[p].dims : f.vars[p].dims[d] = k
        THEN LET d == CHOOSE d \in DOMAIN f.vars[p].dims : f.vars[p].dims[d] = k
             IN  [@[k] EXCEPT !.len = Max({@, slab.start[d] + slab.count[d]})]
        ELSE @[k]]]

InBounds(f, p, slab) ==
    \A d \in DOMAIN slab.extent : f.dims[f.vars[p].dims[d]].unlimited \/ slab.start[d] + slab.count[d] <= slab.extent[d]

(* The variables are paired with the data by a counter: the n-th of the list *)
Transferred == nc' = [nc EXCEPT !.at = @ + 1]

PutVariable ==
    /\ Doing("put_variable")
    /\ LET io   == Config[Ctx].write[Arg]
           v    == nc.listed[nc.at]
           var  == Disk.vars[v.path]
           slab == Slab(v.path, io, v.type)
           data == store[Arg]
           put  == [k \in 0 .. Points(slab) - 1 |-> Point(slab, k)]
           cells == [c \in Range(put) |->
                        IF var.bytes = data.type.elem.bytes THEN data.cells[1 + CHOOSE k \in DOMAIN put : put[k] = c] ELSE Raw]
       IN  IF ~Readable(Arg) \/ ~RanksAgree(io, v.type) THEN Throw /\ UNCHANGED files
           ELSE CASE TooFewEntries(v.path, v.type) -> Break("undefined") /\ UNCHANGED files
                  [] ~TooFewEntries(v.path, v.type) /\ ~InBounds(Disk, v.path, slab) -> Throw /\ UNCHANGED files
                  [] ~TooFewEntries(v.path, v.type) /\ InBounds(Disk, v.path, slab) /\ Overruns(Points(slab), var.bytes, data) ->
                         Break("overrun") /\ UNCHANGED files
                  [] OTHER ->
                         /\ files' = [files EXCEPT ![File] = [Grown(Disk, v.path, slab) EXCEPT !.vars[v.path].cells = cells @@ @]]
                         /\ Proceed
                         /\ Transferred
    /\ UNCHANGED <<store, types>>

(* The type check of a read, for a scalar in memory only *)
Compatible(memory, var) ==
    \/ ~IsScalar(memory)
    \/ memory.elem.kind = "FLOAT" /\ memory.elem.bytes = var.bytes
    \/ memory.elem.kind = "SIGNED" /\ var.type \in {"NC_BYTE", "NC_SHORT", "NC_INT", "NC_INT64"} /\ memory.elem.bytes = var.bytes
    \/ memory.elem.kind = "UNSIGNED" /\ var.type \in {"NC_UBYTE", "NC_USHORT", "NC_UINT", "NC_UINT64"} /\ memory.elem.bytes = var.bytes

(* An event that writes has looked up no variable to read: what follows is not
   defined by the language *)
GetVariable ==
    /\ Doing("get_variable")
    /\ LET io   == Config[Ctx].read[Arg]
           v    == nc.listed[nc.at]
           var  == Disk.vars[v.path]
           slab == Slab(v.path, io, v.type)
           got  == [k \in 1 .. Points(slab) |->
                       LET c == Point(slab, k - 1) IN IF c \in DOMAIN var.cells THEN var.cells[c] ELSE Fill]
       IN  IF nc.mode = "WRITE" THEN Break("undefined") /\ UNCHANGED store
           ELSE IF ~Writable(Arg) \/ ~RanksAgree(io, v.type) \/ ~Compatible(store[Arg].type, var) THEN Throw /\ UNCHANGED store
           ELSE CASE TooFewEntries(v.path, v.type) -> Break("undefined") /\ UNCHANGED store
                  [] ~TooFewEntries(v.path, v.type) /\ ~Inside(slab) -> Throw /\ UNCHANGED store
                  [] ~TooFewEntries(v.path, v.type) /\ Inside(slab) /\ Overruns(Points(slab), var.bytes, store[Arg]) ->
                         Break("overrun") /\ UNCHANGED store
                  [] OTHER ->
                         /\ store' = [store EXCEPT ![Arg].cells = Copied(got, var.bytes, store[Arg])]
                         /\ Proceed
                         /\ Transferred
    /\ UNCHANGED <<files, types>>

(* A scalar holds the length of one dimension, an array of scalars those of as
   many dimensions as its outer array has elements *)
HoldsSizes(type, rank) ==
    \/ IsScalar(type) /\ rank = 1
    \/ type.sizes # <<>> /\ type.sizes[1] = rank /\ Len(type.sizes) = 1 /\ type.elem.kind # "RECORD"

(* The size of a variable; its group must have been met in this file *)
GetSizeof ==
    /\ Doing("get_sizeof")
    /\ LET p    == Config[Ctx].sizeof[Arg].path
           lens == Lengths(Disk, p)
       IN  IF Writable(Arg) /\ GroupOf(p) \in nc.groups /\ p \in DOMAIN Disk.vars /\ HoldsSizes(store[Arg].type, Len(lens))
           THEN /\ store' = [store EXCEPT ![Arg].cells = lens]
                /\ Proceed
                /\ UNCHANGED nc
           ELSE Throw /\ UNCHANGED store
    /\ UNCHANGED <<files, types>>

Next ==
    \/ \E n \in Names : \E offer \in Offers[n] : Share(n, offer)
    \/ \E e \in Events : Event(e)
    \/ EndShare \/ Execute \/ EndExecute \/ BeginTransfer \/ Open \/ Close
    \/ DefineGroup \/ ReadGroup \/ DefineVariable \/ ReadVariable
    \/ PutVariable \/ GetVariable \/ GetSizeof

Spec == Init /\ [][Next]_vars

-----------------------------------------------------------------------------
(* Properties                                                              *)

(* The variable a data is transferred to or from: the one the tree names for it
   or, where that one is not declared and one of the data's name is, that one *)
Meant(c, n, io) ==
    LET declared == DOMAIN Config[c].variables
        named    == IF io.path = <<>> THEN <<n>> ELSE io.path
    IN  IF named \notin declared /\ <<n>> \in declared THEN <<n>> ELSE named

(* The cells of a data at the coordinates of its selection in the file *)
Placed(n, io) ==
    LET count == IF io.subsize = <<>> THEN store[n].type.sizes ELSE io.subsize
        start == [d \in DOMAIN count |-> IF io.start = <<>> THEN 0 ELSE io.start[d]]
        index(o) == FoldLeft(LAMBDA a, d : a * count[d] + o[d], 0, [d \in DOMAIN count |-> d])
    IN  {<<[d \in DOMAIN o |-> start[d] + o[d]], store[n].cells[index(o) + 1]>> : o \in Box(count)}

CellAt(var, c) == IF c \in DOMAIN var.cells THEN var.cells[c] ELSE Fill

(* Data without padding, of elements of the size of those of the variable *)
Alike(n, var) == store[n].type.dense /\ store[n].type.elem.bytes = var.bytes

(* When an event has been handled without an error, memory and file agree: each
   data the context reads or writes is found in the variable meant for it and
   in no other's place, at the coordinates of its selection, whatever the order
   in which the unordered maps are gone through and whatever was in the file
   before; where two of them overlap one is found (Dnc_file_context::execute,
   define_variable, put_variable, get_variable). *)
EventTransfersAll ==
    (Idle /\ outcome = "done" /\ last # None) =>
        \A c \in Contexts : (last.event \in Config[c].events /\ Config[c].when = <<>>) =>
            LET ios  == IF DOMAIN Config[c].write = {} THEN Config[c].read ELSE Config[c].write
                f    == files[Config[c].file]
                p(n) == Meant(c, n, ios[n])
            IN  \A n \in DOMAIN ios :
                   /\ p(n) \in DOMAIN f.vars
                   /\ Alike(n, f.vars[p(n)]) =>
                         \A x \in Placed(n, ios[n]) : \E m \in DOMAIN ios :
                            p(m) = p(n) /\ <<x[1], CellAt(f.vars[p(n)], x[1])>> \in Placed(m, ios[m])

(* Reading never changes a file that exists: no group, variable, dimension or
   attribute is added by a handler that only reads (read_group, read_variable). *)
ReadLeavesFile ==
    [][(nc # None /\ nc.mode = "NOWRITE") => files' = files]_vars

=============================================================================

----------------------------- MODULE Dataspaces -----------------------------
(***************************************************************************)
(* The dataspaces of the HDF5 plugin: how the array type of a data becomes *)
(* a dataspace with a selection, how the selections of the configuration   *)
(* are applied to it, and how a transfer pairs the points of two           *)
(* selections (hdf5_wrapper.cxx, selection.cxx, dataset_op.cxx).           *)
(*                                                                         *)
(* A type is the sequence of its dimensions [size, start, subsize], empty  *)
(* for a scalar.  A dataspace is [extent, start, count], three sequences   *)
(* of its rank: the extent and the selected hyperslab.                     *)
(***************************************************************************)
EXTENDS Integers, Sequences, SequencesExt

Invalid == [invalid |-> TRUE]

Dataspace(extent, start, count) == [extent |-> extent, start |-> start, count |-> count]

Rank(sp) == Len(sp.extent)

Product(s) == FoldLeft(LAMBDA a, n : a * n, 1, s)

(* The coordinates of an extent *)
Box(extent) == {c \in [DOMAIN extent -> 0 .. FoldLeft(LAMBDA a, n : a + n, 0, extent)] : \A d \in DOMAIN extent : c[d] < extent[d]}

(* The dataspace of a type; a dense one has no more than what is selected *)
space(type, dense) ==
    LET subsizes == [d \in DOMAIN type |-> type[d].subsize]
    IN  IF dense THEN Dataspace(subsizes, [d \in DOMAIN type |-> 0], subsizes)
        ELSE Dataspace([d \in DOMAIN type |-> type[d].size], [d \in DOMAIN type |-> type[d].start], subsizes)

(* The number of selected points *)
Points(sp) == Product(sp.count)

(* The k-th point of a selection, in the order of a transfer *)
Point(sp, k) ==
    [d \in DOMAIN sp.extent |->
        sp.start[d] + ((k \div Product(SubSeq(sp.count, d + 1, Rank(sp)))) % sp.count[d])]

(* Faulty: the start of the configuration replaces that of the type *)
SelectedStartAbsolute(sel, sp) == IF sel.start = <<>> THEN sp.start ELSE sel.start

(* A selection [size, start] of the configuration, empty where not given, starts
   from what is already selected *)
SelectedStart(sel, sp) ==
    IF sel.start = <<>> THEN sp.start ELSE [d \in DOMAIN sp.start |-> sp.start[d] + sel.start[d]]

(* Without a size that of the default space is taken, if the ranks agree *)
SelectedCount(sel, sp, dflt) ==
    IF sel.size # <<>> THEN sel.size
    ELSE IF dflt # <<>> /\ Rank(dflt[1]) = Rank(sp) THEN dflt[1].count
    ELSE sp.count

Selection_apply(sel, sp, dflt) ==
    IF Rank(sp) = 0 THEN sp
    ELSE IF \/ sel.size # <<>> /\ Len(sel.size) # Rank(sp)
            \/ sel.size = <<>> /\ dflt # <<>> /\ Rank(dflt[1]) # Rank(sp) /\ Points(dflt[1]) # Points(sp)
            \/ sel.start # <<>> /\ Len(sel.start) # Rank(sp)
         THEN Invalid
    ELSE Dataspace(sp.extent, SelectedStart(sel, sp), SelectedCount(sel, sp, dflt))

(* The two selections have as many points *)
validate_dataspaces(mem, file) == Points(mem) = Points(file)

(* A transfer fails when a selection leaves its extent *)
Inside(sp) == \A d \in DOMAIN sp.extent : sp.start[d] + sp.count[d] <= sp.extent[d]

(* The cells of the target after the selected points of the source have been
   transferred to those of the target, in order *)
Transfer(target, to, source, from) ==
    [c \in DOMAIN target |->
        IF \E k \in 0 .. Points(to) - 1 : Point(to, k) = c
        THEN source[Point(from, CHOOSE k \in 0 .. Points(to) - 1 : Point(to, k) = c)]
        ELSE target[c]]

=============================================================================

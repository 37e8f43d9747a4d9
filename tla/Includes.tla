------------------------------ MODULE Includes ------------------------------
(***************************************************************************)
(* get_includes (pdi/src/global_context.cxx): the depth-first walk of the  *)
(* files that a specification tree includes.  Each call of the recursive   *)
(* function is a frame of `walk'.  A path is a file and a subtree of it;   *)
(* reading the file may fail (Paraconf and the file system are external).  *)
(***************************************************************************)
EXTENDS Naturals, Sequences

CONSTANTS
    Paths,     \* the Include_paths
    Root,      \* the tree given to PDI_init, which has no path
    Graphs     \* the inclusions to consider: functions from Paths and Root to Seq(Paths)

ASSUME IncludesAssumption ==
    /\ Root \notin Paths
    /\ Graphs \subseteq [Paths \cup {Root} -> Seq(Paths)]

VARIABLES
    includes,      \* the `include' list of each file
    walk,          \* the calls of get_includes in progress, the innermost last
    parents,       \* the paths in the include chain
    result_path,   \* the paths of the files already in confs
    confs,         \* the files gathered, each after the files it includes
    outcome        \* "walking", "done", or the error thrown: "circular", "unreadable"

includeVars == <<includes, walk, parents, result_path, confs, outcome>>

Call(p, list) == [conf |-> p, todo |-> list]

InitIncludes ==
    /\ includes \in Graphs
    /\ walk = <<Call(Root, includes[Root])>>
    /\ parents = {} /\ result_path = {} /\ confs = <<>>
    /\ outcome = "walking"

Top == walk[Len(walk)]

Directive == Head(Top.todo)

\* Faulty variant: the same directive is read again.
NotAdvanced == walk

\* The walk once the innermost call has dealt with its first directive.
Advanced == [walk EXCEPT ![Len(walk)].todo = Tail(@)]

AlreadyIncluded(p) == p \in result_path

\* Faulty variant: the chain of includes does not shrink.
ChainKept(p) == parents

ChainWithout(p) == parents \ {p}

Walking == outcome = "walking" /\ walk # <<>>

IncludeCircular ==
    /\ Walking /\ Top.todo # <<>> /\ Directive \in parents
    /\ outcome' = "circular"
    /\ UNCHANGED <<includes, walk, parents, result_path, confs>>

IncludeAgain ==
    /\ Walking /\ Top.todo # <<>> /\ Directive \notin parents /\ AlreadyIncluded(Directive)
    /\ walk' = Advanced
    /\ UNCHANGED <<includes, parents, result_path, confs, outcome>>

IncludeEnter ==
    /\ Walking /\ Top.todo # <<>> /\ Directive \notin parents /\ ~AlreadyIncluded(Directive)
    /\ parents' = parents \cup {Directive}
    /\ \/ /\ walk' = Append(Advanced, Call(Directive, includes[Directive]))
          /\ UNCHANGED outcome
       \/ outcome' = "unreadable" /\ UNCHANGED walk
    /\ UNCHANGED <<includes, result_path, confs>>

IncludeLeave ==
    /\ Walking /\ Top.todo = <<>>
    /\ confs' = Append(confs, Top.conf)
    /\ walk' = SubSeq(walk, 1, Len(walk) - 1)
    /\ IF Len(walk) = 1
       THEN outcome' = "done" /\ UNCHANGED <<parents, result_path>>
       ELSE /\ parents' = ChainWithout(Top.conf)
            /\ result_path' = result_path \cup {Top.conf}
            /\ UNCHANGED outcome
    /\ UNCHANGED includes

WalkIncludes == IncludeCircular \/ IncludeAgain \/ IncludeEnter \/ IncludeLeave

-----------------------------------------------------------------------------
Included(p) == {includes[p][i] : i \in DOMAIN includes[p]}

Closed(S) == \A p \in S : Included(p) \subseteq S

\* The paths that p includes, directly or not.
Reachable(p) == {q \in Paths : \A S \in SUBSET Paths : Included(p) \subseteq S /\ Closed(S) => q \in S}

(***************************************************************************)
(* get_includes rejects exactly the circular inclusions; otherwise it      *)
(* gathers every included file once, after the files it includes, the tree *)
(* of the user last.                                                       *)
(***************************************************************************)
IncludesAreOrdered ==
    /\ outcome = "circular" => \E p \in Reachable(Root) : p \in Reachable(p)
    /\ outcome = "done" =>
        /\ \A p \in Reachable(Root) : p \notin Reachable(p)
        /\ {confs[i] : i \in DOMAIN confs} = Reachable(Root) \cup {Root}
        /\ confs[Len(confs)] = Root
        /\ \A i, j \in DOMAIN confs :
            /\ i # j => confs[i] # confs[j]
            /\ confs[j] \in Included(confs[i]) => j < i
=============================================================================

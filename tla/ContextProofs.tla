--------------------------- MODULE ContextProofs ---------------------------
(***************************************************************************)
(* Theorems about a Global_context and its plugins, for any graph of       *)
(* included files, any triggers and any failures.                          *)
(***************************************************************************)
EXTENDS ContextPlugins, FiniteSetTheorems, FunctionTheorems, SequenceTheorems, TLAPS

-----------------------------------------------------------------------------
(* The included files *)

Confs == {confs[i] : i \in DOMAIN confs}

IncludesTypeOK ==
    /\ includes \in [Paths \cup {Root} -> Seq(Paths)]
    /\ walk \in Seq([conf : Paths \cup {Root}, todo : Seq(Paths)])
    /\ parents \subseteq Paths
    /\ result_path \subseteq Paths
    /\ confs \in Seq(Paths \cup {Root})

\* The files of the list c: each once, after those it includes.
Ordered(c) ==
    /\ \A i, j \in DOMAIN c : i # j => c[i] # c[j]
    /\ \A i \in DOMAIN c : \A q \in Included(c[i]) : \E j \in DOMAIN c : j < i /\ c[j] = q

\* The calls in progress are a chain of inclusions from the root; the parents
\* are its paths, the results are the files gathered, and nothing is both.
ChainOK ==
    /\ walk # <<>> /\ walk[1].conf = Root
    /\ \A i \in DOMAIN walk : i > 1 => walk[i].conf \in Paths
    /\ parents = {walk[i].conf : i \in DOMAIN walk \ {1}}
    /\ \A i, j \in DOMAIN walk : i # j => walk[i].conf # walk[j].conf
    /\ result_path = Confs
    /\ \A i \in DOMAIN walk : walk[i].conf \notin Confs
    /\ \A i, j \in DOMAIN walk : i < j => walk[j].conf \in Reachable(walk[i].conf)

\* Of the directives of a file that includes `included', those of `left'
\* are still to be dealt with; the others are gathered, or being gathered by
\* the calls for `above'.
Passed(left, included, gathered, above) ==
    /\ \A k \in DOMAIN left : left[k] \in included
    /\ \A q \in included :
          q \in gathered \cup above \/ \E k \in DOMAIN left : left[k] = q

\* The file that the call number i is gathering at the moment.
Above(i) == {walk[j].conf : j \in DOMAIN walk \cap {i + 1}}

DirectivesOK ==
    \A i \in DOMAIN walk : Passed(walk[i].todo, Included(walk[i].conf), Confs, Above(i))

Gathered == Confs \subseteq Reachable(Root)

WalkInv == Ordered(confs) /\ ChainOK /\ DirectivesOK /\ Gathered

IncludesInv ==
    /\ IncludesTypeOK
    /\ outcome = "walking" => WalkInv
    /\ IncludesAreOrdered

-----------------------------------------------------------------------------
(* What is reachable *)

LEMMA ReachesIncluded ==
    ASSUME NEW p, NEW q \in Paths, q \in Included(p)
    PROVE  q \in Reachable(p)
  BY DEF Reachable

LEMMA ReachesFurther ==
    ASSUME NEW p, NEW q \in Reachable(p), NEW r \in Paths, r \in Included(q)
    PROVE  r \in Reachable(p)
  BY DEF Reachable, Closed

\* A closed set that has what p includes has all that p reaches.
LEMMA ReachesWithin ==
    ASSUME NEW p, NEW S \in SUBSET Paths, Included(p) \subseteq S, Closed(S)
    PROVE  Reachable(p) \subseteq S
  BY DEF Reachable

LEMMA IncludedPaths ==
    ASSUME IncludesTypeOK, NEW p \in Paths \cup {Root}
    PROVE  Included(p) \subseteq Paths
  BY DEF IncludesTypeOK, Included

\* What is included in files gathered in order comes before them, and no file
\* reaches itself.
LEMMA OrderedIsAcyclic ==
    ASSUME NEW c, DOMAIN c \subseteq Nat, Ordered(c), NEW n \in DOMAIN c,
           \A j \in DOMAIN c : j < n => c[j] \in Paths
    PROVE  /\ Reachable(c[n]) \subseteq {c[j] : j \in {k \in DOMAIN c : k < n}}
           /\ c[n] \notin Reachable(c[n])
<1> DEFINE S == {c[j] : j \in {k \in DOMAIN c : k < n}}
<1>1. S \in SUBSET Paths
  OBVIOUS
<1>2. Included(c[n]) \subseteq S
  BY DEF Ordered
<1>3. Closed(S)
  <2> SUFFICES ASSUME NEW i \in DOMAIN c, i < n, NEW q \in Included(c[i])
               PROVE  q \in S
    BY DEF Closed
  <2>1. PICK j \in DOMAIN c : j < i /\ c[j] = q
    BY DEF Ordered
  <2>2. j < n
    BY <2>1
  <2> QED BY <2>1, <2>2
<1>4. Reachable(c[n]) \subseteq S
  <2> HIDE DEF S
  <2> QED BY <1>1, <1>2, <1>3, ReachesWithin
<1>5. c[n] \notin S
  BY DEF Ordered
<1> QED BY <1>4, <1>5

-----------------------------------------------------------------------------
(* The steps of get_includes *)

LEMMA SameReach ==
    ASSUME UNCHANGED includes
    PROVE  /\ \A p : Included(p)' = Included(p)
           /\ \A p : Reachable(p)' = Reachable(p)
<1>1. \A p : Included(p)' = Included(p)
  BY DEF Included
<1> QED BY <1>1 DEF Reachable, Closed

LEMMA IncludesInit == InitIncludes => IncludesInv
<1> SUFFICES ASSUME InitIncludes PROVE IncludesInv
  OBVIOUS
<1> USE DEF InitIncludes
<1>1. includes \in [Paths \cup {Root} -> Seq(Paths)] /\ includes[Root] \in Seq(Paths)
  BY IncludesAssumption
<1>2. /\ walk \in Seq([conf : Paths \cup {Root}, todo : Seq(Paths)])
      /\ Len(walk) = 1 /\ DOMAIN walk = {1} /\ walk # <<>>
      /\ walk[1].conf = Root /\ walk[1].todo = includes[Root]
  <2>1. Call(Root, includes[Root]) \in [conf : Paths \cup {Root}, todo : Seq(Paths)]
    BY <1>1 DEF Call
  <2>2. walk = <<Call(Root, includes[Root])>>
    OBVIOUS
  <2>3. Call(Root, includes[Root]).conf = Root /\ Call(Root, includes[Root]).todo = includes[Root]
    BY DEF Call
  <2> HIDE DEF InitIncludes
  <2> QED BY <2>1, <2>2, <2>3
<1>3. IncludesTypeOK
  BY <1>1, <1>2 DEF IncludesTypeOK
<1>4. Confs = {}
  BY DEF Confs
<1>5. Ordered(confs) /\ Gathered
  BY <1>4 DEF Ordered, Gathered
<1>6. ChainOK
  BY <1>2, <1>4 DEF ChainOK
<1>7. DirectivesOK
  BY <1>1, <1>2 DEF DirectivesOK, Passed, Included
<1> QED BY <1>3, <1>5, <1>6, <1>7 DEF IncludesInv, WalkInv, IncludesAreOrdered

\* The innermost call and its first directive.
LEMMA WalkTop ==
    ASSUME IncludesInv, Walking
    PROVE  /\ WalkInv
           /\ Len(walk) \in Nat \ {0} /\ DOMAIN walk = 1 .. Len(walk)
           /\ Len(walk) \in DOMAIN walk /\ 1 \in DOMAIN walk
           /\ Top \in [conf : Paths \cup {Root}, todo : Seq(Paths)]
           /\ Top = walk[Len(walk)]
           /\ \A i \in DOMAIN walk : /\ walk[i] \in [conf : Paths \cup {Root}, todo : Seq(Paths)]
                                     /\ Included(walk[i].conf) \subseteq Paths
<1>1. WalkInv /\ IncludesTypeOK /\ walk # <<>>
  BY DEF IncludesInv, Walking
<1>2. /\ Len(walk) \in Nat \ {0} /\ DOMAIN walk = 1 .. Len(walk)
      /\ Len(walk) \in DOMAIN walk /\ 1 \in DOMAIN walk
  BY <1>1 DEF IncludesTypeOK
<1>3. \A i \in DOMAIN walk : walk[i] \in [conf : Paths \cup {Root}, todo : Seq(Paths)]
  <2> DEFINE F == [conf : Paths \cup {Root}, todo : Seq(Paths)]
  <2>1. walk \in Seq(F)
    BY <1>1 DEF IncludesTypeOK
  <2> HIDE DEF F
  <2>2. \A i \in DOMAIN walk : walk[i] \in F
    BY <2>1
  <2> QED BY <2>2 DEF F
<1>4. \A i \in DOMAIN walk : walk[i].conf \in Paths \cup {Root}
  BY <1>3
<1> QED BY <1>1, <1>2, <1>3, <1>4, IncludedPaths DEF Top

LEMMA WalkDirective ==
    ASSUME IncludesInv, Walking, Top.todo # <<>>
    PROVE  /\ Directive \in Included(Top.conf) /\ Directive \in Paths
           /\ Tail(Top.todo) \in Seq(Paths)
           /\ \A k \in DOMAIN Tail(Top.todo) : Tail(Top.todo)[k] \in Included(Top.conf)
           /\ \A q : (\E k \in DOMAIN Top.todo : Top.todo[k] = q)
                        => q = Directive \/ \E k \in DOMAIN Tail(Top.todo) : Tail(Top.todo)[k] = q
<1> DEFINE t == Top.todo
<1>1. t \in Seq(Paths) /\ t # <<>>
  BY WalkTop
<1>2. \A k \in DOMAIN t : t[k] \in Included(Top.conf)
  BY WalkTop DEF WalkInv, DirectivesOK, Passed
<1>3. Directive = t[1]
  BY DEF Directive
<1> HIDE DEF t
<1>4. 1 \in DOMAIN t /\ DOMAIN t = 1 .. Len(t) /\ Len(t) \in Nat \ {0}
  BY <1>1
<1>5. /\ Tail(t) \in Seq(Paths) /\ DOMAIN Tail(t) = 1 .. (Len(t) - 1)
      /\ \A k \in 1 .. (Len(t) - 1) : Tail(t)[k] = t[k + 1]
  BY <1>1
<1>6. \A k \in DOMAIN Tail(t) : Tail(t)[k] \in Included(Top.conf)
  BY <1>2, <1>4, <1>5
<1>7. ASSUME NEW q, NEW k \in DOMAIN t, t[k] = q
      PROVE  q = t[1] \/ \E m \in DOMAIN Tail(t) : Tail(t)[m] = q
  <2>1. CASE k = 1
    BY <2>1, <1>7
  <2>2. CASE k # 1
    <3>1. k - 1 \in 1 .. (Len(t) - 1) /\ (k - 1) + 1 = k
      BY <2>2, <1>4
    <3> QED BY <3>1, <1>5, <1>7
  <2> QED BY <2>1, <2>2
<1>8. Directive \in Included(Top.conf)
  BY <1>2, <1>3, <1>4
<1> QED BY <1>3, <1>5, <1>6, <1>7, <1>8, <1>1, <1>4 DEF t

LEMMA IncludeCircularStep ==
    ASSUME IncludesInv, IncludeCircular
    PROVE  IncludesInv'
<1> USE DEF IncludeCircular
<1>1. WalkInv /\ Directive \in Included(Top.conf) /\ Directive \in Paths /\ Directive \in parents
  BY WalkTop, WalkDirective
<1>2. PICK k \in DOMAIN walk \ {1} : walk[k].conf = Directive
  BY <1>1 DEF WalkInv, ChainOK
<1>3. Directive \in Reachable(Root)
  <2>1. 1 < k /\ 1 \in DOMAIN walk /\ walk[1].conf = Root
    BY WalkTop, <1>2 DEF WalkInv, ChainOK
  <2> QED BY <2>1, <1>1, <1>2 DEF WalkInv, ChainOK
<1>4. Directive \in Reachable(Directive)
  <2>1. CASE k = Len(walk)
    BY <2>1, <1>1, <1>2, ReachesIncluded, WalkTop
  <2>2. CASE k # Len(walk)
    <3>1. k < Len(walk) /\ Len(walk) \in DOMAIN walk /\ Top = walk[Len(walk)]
      BY <2>2, <1>2, WalkTop
    <3>2. Top.conf \in Reachable(Directive)
      BY <3>1, <1>1, <1>2 DEF WalkInv, ChainOK
    <3> QED BY <3>2, <1>1, ReachesFurther
  <2> QED BY <2>1, <2>2
<1>5. IncludesTypeOK'
  BY DEF IncludesInv, IncludesTypeOK
<1>6. IncludesAreOrdered'
  <2>1. \E p \in Reachable(Root) : p \in Reachable(p)
    BY <1>3, <1>4
  <2>2. (\E p \in Reachable(Root) : p \in Reachable(p))'
    BY <2>1, SameReach
  <2> QED BY <2>2 DEF IncludesAreOrdered
<1> QED BY <1>5, <1>6 DEF IncludesInv

LEMMA AdvancedWalk ==
    ASSUME IncludesInv, Walking, Top.todo # <<>>
    PROVE  /\ Advanced \in Seq([conf : Paths \cup {Root}, todo : Seq(Paths)])
           /\ Len(Advanced) = Len(walk) /\ DOMAIN Advanced = DOMAIN walk
           /\ \A i \in DOMAIN walk : /\ Advanced[i].conf = walk[i].conf
                                     /\ i # Len(walk) => Advanced[i] = walk[i]
           /\ Advanced[Len(walk)].todo = Tail(Top.todo)
<1> DEFINE F == [conf : Paths \cup {Root}, todo : Seq(Paths)]
           g == [Top EXCEPT !.todo = Tail(Top.todo)]
<1>1. g \in F /\ g.conf = Top.conf /\ g.todo = Tail(Top.todo)
  BY WalkTop, WalkDirective
<1>2. Advanced = [walk EXCEPT ![Len(walk)] = g]
  BY DEF Advanced, Top
<1>3. walk \in Seq(F) /\ Len(walk) \in DOMAIN walk /\ Top = walk[Len(walk)]
  BY WalkTop DEF IncludesInv, IncludesTypeOK
<1> HIDE DEF F, g
<1>4. /\ Advanced \in Seq(F) /\ Len(Advanced) = Len(walk) /\ DOMAIN Advanced = DOMAIN walk
      /\ \A i \in DOMAIN walk : i # Len(walk) => Advanced[i] = walk[i]
      /\ Advanced[Len(walk)] = g
  BY <1>1, <1>2, <1>3
<1> QED BY <1>1, <1>3, <1>4 DEF F

\* The call passes a directive: it is gathered, or the call above gathers it.
LEMMA IncludeAgainStep ==
    ASSUME IncludesInv, IncludeAgain
    PROVE  IncludesInv'
<1> USE DEF IncludeAgain
<1>1. WalkInv /\ Walking /\ Top.todo # <<>> /\ Directive \in result_path
  BY WalkTop DEF AlreadyIncluded
<1>2. IncludesTypeOK'
  BY AdvancedWalk, <1>1 DEF IncludesInv, IncludesTypeOK
<1>3. Confs' = Confs /\ UNCHANGED <<includes, confs, parents, result_path>>
  BY DEF Confs
<1>4. /\ \A p : Included(p)' = Included(p)
      /\ \A p : Reachable(p)' = Reachable(p)
  BY SameReach
<1>5. Ordered(confs)' /\ Gathered'
  BY <1>1, <1>3, <1>4 DEF WalkInv, Ordered, Gathered
<1>6. /\ Len(walk') = Len(walk) /\ DOMAIN walk' = DOMAIN walk /\ Len(walk) \in DOMAIN walk
      /\ DOMAIN walk = 1 .. Len(walk) /\ Len(walk) \in Nat
      /\ \A i \in DOMAIN walk : /\ walk'[i].conf = walk[i].conf
                                /\ i # Len(walk) => walk'[i].todo = walk[i].todo
      /\ walk'[Len(walk)].todo = Tail(Top.todo) /\ walk[Len(walk)] = Top
  BY AdvancedWalk, <1>1, WalkTop
<1>7. ChainOK'
  <2>1. walk' # <<>> /\ 1 \in DOMAIN walk
    BY <1>2, <1>6 DEF IncludesTypeOK
  <2>2. ChainOK
    BY <1>1 DEF WalkInv
  <2>3. {walk'[i].conf : i \in DOMAIN walk' \ {1}} = {walk[i].conf : i \in DOMAIN walk \ {1}}
    BY <1>6
  <2> QED BY <2>1, <2>2, <2>3, <1>3, <1>4, <1>6 DEF ChainOK
<1>8. DirectivesOK'
  <2>1. DirectivesOK /\ Directive \in Confs
    BY <1>1 DEF WalkInv, ChainOK
  <2>2. \A i \in DOMAIN walk : Above(i)' = Above(i)
    BY <1>6 DEF Above
  <2>3. \A i \in DOMAIN walk : Included(walk[i].conf)' = Included(walk[i].conf)
    BY <1>4, <1>6
  <2> SUFFICES ASSUME NEW i \in DOMAIN walk
               PROVE  Passed(walk'[i].todo, Included(walk[i].conf), Confs, Above(i))
    BY <1>3, <1>6, <2>2, <2>3 DEF DirectivesOK
  <2>4. CASE i = Len(walk)
    BY <2>1, <2>4, <1>1, <1>6, WalkDirective DEF DirectivesOK, Passed
  <2>5. CASE i # Len(walk)
    BY <2>1, <2>5, <1>6 DEF DirectivesOK
  <2> QED BY <2>4, <2>5
<1>9. IncludesAreOrdered'
  BY <1>1 DEF Walking, IncludesAreOrdered
<1> QED BY <1>2, <1>5, <1>7, <1>8, <1>9 DEF IncludesInv, WalkInv

LEMMA IncludeEnterStep ==
    ASSUME IncludesInv, IncludeEnter
    PROVE  IncludesInv'
<1> USE DEF IncludeEnter
<1> DEFINE F == [conf : Paths \cup {Root}, todo : Seq(Paths)]
           new == Call(Directive, includes[Directive])
           n == Len(walk) + 1
<1>1. /\ WalkInv /\ Walking /\ Top.todo # <<>> /\ Directive \notin parents /\ Directive \notin result_path
      /\ Directive \in Included(Top.conf) /\ Directive \in Paths
  BY WalkTop, WalkDirective DEF AlreadyIncluded
<1>2. Confs' = Confs /\ UNCHANGED <<includes, confs, result_path>> /\ parents' = parents \cup {Directive}
  BY DEF Confs
<1>3. /\ \A p : Included(p)' = Included(p)
      /\ \A p : Reachable(p)' = Reachable(p)
  BY SameReach
<1>4. new \in F /\ new.conf = Directive /\ new.todo = includes[Directive]
  BY <1>1 DEF IncludesInv, IncludesTypeOK, Call
<1>5. CASE UNCHANGED walk /\ outcome' = "unreadable"
  BY <1>1, <1>2, <1>5 DEF IncludesInv, IncludesTypeOK, IncludesAreOrdered
<1>6. CASE walk' = Append(Advanced, new) /\ UNCHANGED outcome
  <2>1. /\ Advanced \in Seq(F) /\ Len(Advanced) = Len(walk) /\ DOMAIN Advanced = DOMAIN walk
        /\ \A i \in DOMAIN walk : /\ Advanced[i].conf = walk[i].conf
                                  /\ i # Len(walk) => Advanced[i] = walk[i]
        /\ Advanced[Len(walk)].todo = Tail(Top.todo)
    BY AdvancedWalk, <1>1
  <2>2. /\ Len(walk) \in Nat \ {0} /\ DOMAIN walk = 1 .. Len(walk) /\ walk[Len(walk)] = Top
        /\ n \in Nat /\ n > 1 /\ n \notin DOMAIN walk /\ Len(walk) \in DOMAIN walk
    BY WalkTop, <1>1
  <2> HIDE DEF F, new
  <2>3. /\ walk' \in Seq(F) /\ Len(walk') = n /\ DOMAIN walk' = DOMAIN walk \cup {n} /\ walk' # <<>>
        /\ \A i \in DOMAIN walk : walk'[i] = Advanced[i]
        /\ walk'[n] = new
    <3> HIDE DEF n, IncludeEnter
    <3>1. Len(Advanced) + 1 = n
      BY <2>1 DEF n
    <3>2. walk' \in Seq(F) /\ Len(walk') = Len(Advanced) + 1 /\ walk'[Len(Advanced) + 1] = new
      BY <1>4, <1>6, <2>1, AppendProperties
    <3>3. \A i \in 1 .. Len(Advanced) : walk'[i] = Advanced[i]
      BY <1>4, <1>6, <2>1, AppendProperties
    <3>4. DOMAIN walk' = 1 .. n
      BY <3>1, <3>2
    <3>5. 1 .. n = DOMAIN walk \cup {n}
      BY <2>2 DEF n
    <3>6. walk' # <<>>
      BY <3>1, <3>2, <2>2
    <3> QED BY <2>1, <2>2, <3>1, <3>2, <3>3, <3>4, <3>5, <3>6
  <2> HIDE DEF n
  <2>4. IncludesTypeOK'
    BY <1>1, <1>2, <2>3 DEF IncludesInv, IncludesTypeOK, F
  <2>5. Ordered(confs)' /\ Gathered'
    BY <1>1, <1>2, <1>3 DEF WalkInv, Ordered, Gathered
  <2>6. \A i \in DOMAIN walk : walk'[i].conf = walk[i].conf
    BY <2>1, <2>3
  <2>7. walk'[n].conf = Directive
    BY <1>4, <2>3
  <2>8. \A i \in DOMAIN walk : walk[i].conf # Directive
    <3>1. ChainOK /\ Directive # Root
      BY <1>1, IncludesAssumption DEF WalkInv
    <3> QED BY <1>1, <3>1 DEF ChainOK
  <2>9. \A i \in DOMAIN walk : Directive \in Reachable(walk[i].conf)
    <3> SUFFICES ASSUME NEW i \in DOMAIN walk PROVE Directive \in Reachable(walk[i].conf)
      OBVIOUS
    <3>1. CASE i = Len(walk)
      BY <3>1, <1>1, <2>2, ReachesIncluded
    <3>2. CASE i # Len(walk)
      <4>1. Top.conf \in Reachable(walk[i].conf)
        BY <3>2, <2>2, <1>1 DEF WalkInv, ChainOK
      <4> QED BY <4>1, <1>1, ReachesFurther
    <3> QED BY <3>1, <3>2
  <2>10. ChainOK'
    <3>1. ChainOK
      BY <1>1 DEF WalkInv
    <3>2. walk'[1].conf = Root
      BY <2>2, <2>6, <3>1 DEF ChainOK
    <3>3. \A i \in DOMAIN walk' : i > 1 => walk'[i].conf \in Paths
      BY <1>1, <2>3, <2>6, <2>7, <3>1 DEF ChainOK
    <3>4. parents' = {walk'[i].conf : i \in DOMAIN walk' \ {1}}
      <4>1. DOMAIN walk' \ {1} = (DOMAIN walk \ {1}) \cup {n}
        BY <2>2, <2>3
      <4>2. {walk'[i].conf : i \in DOMAIN walk' \ {1}} = {walk[i].conf : i \in DOMAIN walk \ {1}} \cup {Directive}
        BY <4>1, <2>6, <2>7
      <4> QED BY <4>2, <3>1, <1>2 DEF ChainOK
    <3>5. \A i, j \in DOMAIN walk' : i # j => walk'[i].conf # walk'[j].conf
      BY <2>3, <2>6, <2>7, <2>8, <3>1 DEF ChainOK
    <3>6. result_path' = Confs' /\ \A i \in DOMAIN walk' : walk'[i].conf \notin Confs'
      BY <1>1, <1>2, <2>3, <2>6, <2>7, <3>1 DEF ChainOK
    <3>7. \A i, j \in DOMAIN walk' : i < j => walk'[j].conf \in Reachable(walk'[i].conf)
      <4> SUFFICES ASSUME NEW i \in DOMAIN walk', NEW j \in DOMAIN walk', i < j
                   PROVE  walk'[j].conf \in Reachable(walk'[i].conf)
        OBVIOUS
      <4>1. i \in DOMAIN walk
        BY <2>2, <2>3 DEF n
      <4>2. CASE j = n
        BY <4>1, <4>2, <2>6, <2>7, <2>9
      <4>3. CASE j \in DOMAIN walk
        BY <4>1, <4>3, <2>6, <3>1 DEF ChainOK
      <4> QED BY <4>2, <4>3, <2>3
    <3>8. \A i \in DOMAIN walk' : Reachable(walk[i].conf)' = Reachable(walk'[i].conf)
      BY <1>3
    <3> QED BY <2>3, <3>2, <3>3, <3>4, <3>5, <3>6, <3>7, <3>8 DEF ChainOK
  <2>11. DirectivesOK'
    <3>1. DirectivesOK
      BY <1>1 DEF WalkInv
    <3>2. \A i \in DOMAIN walk' : Included(walk[i].conf)' = Included(walk'[i].conf)
      BY <1>3
    <3> SUFFICES ASSUME NEW i \in DOMAIN walk'
                 PROVE  Passed(walk'[i].todo, Included(walk'[i].conf), Confs, Above(i)')
      BY <1>2, <3>2 DEF DirectivesOK
    <3>3. CASE i = n
      <4>1. walk'[i].todo = includes[Directive] /\ walk'[i].conf = Directive
        BY <3>3, <2>3, <2>7, <1>4
      <4> QED BY <4>1 DEF Passed, Included
    <3>4. CASE i = Len(walk)
      <4>1. Above(i)' = {Directive}
        <5>1. DOMAIN walk' \cap {i + 1} = {n}
          BY <3>4, <2>2, <2>3 DEF n
        <5> QED BY <5>1, <2>7 DEF Above
      <4>2. walk'[i].todo = Tail(Top.todo) /\ walk'[i].conf = Top.conf
        BY <3>4, <2>1, <2>2, <2>3
      <4>3. Above(i) = {}
        BY <3>4, <2>2 DEF Above
      <4>4. Passed(Top.todo, Included(Top.conf), Confs, {})
        BY <3>1, <3>4, <2>2, <4>3 DEF DirectivesOK
      <4> QED BY <4>1, <4>2, <4>4, <1>1, WalkDirective DEF Passed
    <3>5. CASE i \in DOMAIN walk /\ i # Len(walk)
      <4>1. Above(i)' = Above(i)
        <5>1. DOMAIN walk' \cap {i + 1} = DOMAIN walk \cap {i + 1}
          BY <3>5, <2>2, <2>3 DEF n
        <5> QED BY <5>1, <2>6 DEF Above
      <4>2. walk'[i] = walk[i]
        BY <3>5, <2>1, <2>3
      <4> QED BY <3>1, <3>5, <4>1, <4>2 DEF DirectivesOK
    <3> QED BY <3>3, <3>4, <3>5, <2>3
  <2>12. IncludesAreOrdered'
    BY <1>1, <1>6 DEF Walking, IncludesAreOrdered
  <2> QED BY <2>4, <2>5, <2>10, <2>11, <2>12 DEF IncludesInv, WalkInv
<1> QED BY <1>5, <1>6

\* A file is gathered when all it includes is.
LEMMA GatheredNext ==
    ASSUME IncludesInv, IncludeLeave
    PROVE  /\ Len(confs) \in Nat /\ DOMAIN confs = 1 .. Len(confs)
           /\ confs' \in Seq(Paths \cup {Root}) /\ DOMAIN confs' = 1 .. (Len(confs) + 1)
           /\ Len(confs') = Len(confs) + 1
           /\ \A i \in DOMAIN confs : confs'[i] = confs[i]
           /\ confs'[Len(confs) + 1] = Top.conf
           /\ Top.conf \notin Confs
           /\ Confs' = Confs \cup {Top.conf}
           /\ Ordered(confs')
<1>1. WalkInv /\ Walking /\ Top.conf \in Paths \cup {Root}
  BY WalkTop DEF IncludeLeave
<1>2. Top.conf \notin Confs
  BY <1>1, WalkTop DEF WalkInv, ChainOK
<1>3. Included(Top.conf) \subseteq Confs
  <2>1. Above(Len(walk)) = {}
    BY <1>1, WalkTop DEF Above
  <2>2. Passed(Top.todo, Included(Top.conf), Confs, {}) /\ Top.todo = <<>>
    BY <2>1, <1>1, WalkTop DEF WalkInv, DirectivesOK, IncludeLeave
  <2> QED BY <2>2 DEF Passed
<1>4. confs \in Seq(Paths \cup {Root}) /\ confs' = Append(confs, Top.conf)
  BY DEF IncludesInv, IncludesTypeOK, IncludeLeave
<1>5. /\ Len(confs) \in Nat /\ DOMAIN confs = 1 .. Len(confs)
      /\ confs' \in Seq(Paths \cup {Root}) /\ DOMAIN confs' = 1 .. (Len(confs) + 1)
      /\ Len(confs') = Len(confs) + 1
      /\ \A i \in DOMAIN confs : confs'[i] = confs[i]
      /\ confs'[Len(confs) + 1] = Top.conf
  BY <1>1, <1>4
<1>6. DOMAIN confs' = DOMAIN confs \cup {Len(confs) + 1} /\ Len(confs) + 1 \notin DOMAIN confs
  BY <1>5
<1>7. Confs' = Confs \cup {Top.conf}
  BY <1>5, <1>6 DEF Confs
<1>8. Ordered(confs)
  BY <1>1 DEF WalkInv
<1>9. \A i, j \in DOMAIN confs' : i # j => confs'[i] # confs'[j]
  BY <1>2, <1>5, <1>6, <1>8 DEF Ordered, Confs
<1>10. ASSUME NEW i \in DOMAIN confs', NEW q \in Included(confs'[i])
       PROVE  \E j \in DOMAIN confs' : j < i /\ confs'[j] = q
  <2>1. CASE i \in DOMAIN confs
    <3>1. PICK j \in DOMAIN confs : j < i /\ confs[j] = q
      BY <2>1, <1>5, <1>8, <1>10 DEF Ordered
    <3> QED BY <3>1, <1>5, <1>6
  <2>2. CASE i = Len(confs) + 1
    <3>1. PICK j \in DOMAIN confs : confs[j] = q
      BY <2>2, <1>3, <1>5, <1>10 DEF Confs
    <3>2. j < i
      BY <2>2, <1>5
    <3> QED BY <3>1, <3>2, <1>5, <1>6
  <2> QED BY <2>1, <2>2, <1>6
<1>11. Ordered(confs')
  BY <1>9, <1>10 DEF Ordered
<1> QED BY <1>2, <1>5, <1>7, <1>11

LEMMA LeaveWalk ==
    ASSUME IncludesInv, IncludeLeave
    PROVE  /\ walk' \in Seq([conf : Paths \cup {Root}, todo : Seq(Paths)])
           /\ Len(walk') = Len(walk) - 1 /\ DOMAIN walk' = 1 .. (Len(walk) - 1)
           /\ \A i \in DOMAIN walk' : i \in DOMAIN walk /\ walk'[i] = walk[i]
<1> DEFINE F == [conf : Paths \cup {Root}, todo : Seq(Paths)]
<1>1. walk \in Seq(F) /\ walk' = SubSeq(walk, 1, Len(walk) - 1) /\ Len(walk) \in Nat \ {0}
      /\ DOMAIN walk = 1 .. Len(walk)
  BY WalkTop DEF IncludeLeave, IncludesInv, IncludesTypeOK
<1> HIDE DEF F
<1>2. /\ walk' \in Seq(F)
      /\ Len(walk') = Len(walk) - 1 /\ DOMAIN walk' = 1 .. (Len(walk) - 1)
      /\ \A i \in 1 .. (Len(walk) - 1) : walk'[i] = walk[i]
  BY <1>1
<1>3. \A i \in 1 .. (Len(walk) - 1) : i \in DOMAIN walk
  BY <1>1
<1> QED BY <1>2, <1>3 DEF F

\* The tree of the user is gathered last.
LEMMA IncludeDone ==
    ASSUME IncludesInv, IncludeLeave, Len(walk) = 1
    PROVE  IncludesAreOrdered'
<1> DEFINE m == Len(confs) + 1
           S == {confs'[j] : j \in {k \in DOMAIN confs' : k < m}}
<1>1. outcome' = "done" /\ Walking
  BY DEF IncludeLeave
<1>2. Top.conf = Root /\ Gathered /\ result_path = Confs /\ result_path \subseteq Paths
  BY <1>1, WalkTop DEF WalkInv, ChainOK, IncludesInv, IncludesTypeOK
<1>3. /\ Len(confs) \in Nat /\ DOMAIN confs = 1 .. Len(confs)
      /\ DOMAIN confs' = 1 .. m /\ Len(confs') = m
      /\ \A i \in DOMAIN confs : confs'[i] = confs[i]
      /\ confs'[m] = Root
      /\ Confs' = Confs \cup {Root}
      /\ Ordered(confs')
  BY GatheredNext, <1>2
<1>4. S = Confs /\ DOMAIN confs' \subseteq Nat /\ m \in DOMAIN confs'
  <2>1. {k \in DOMAIN confs' : k < m} = DOMAIN confs
    BY <1>3
  <2> QED BY <2>1, <1>3 DEF Confs
<1>5. \A j \in DOMAIN confs' : j < m => confs'[j] \in Paths
  <2>1. \A j \in DOMAIN confs' : j < m => confs'[j] \in S
    OBVIOUS
  <2> QED BY <2>1, <1>2, <1>4
<1> HIDE DEF m
<1>6. Reachable(Root) = Confs
  <2>1. Reachable(confs'[m]) \subseteq S
    BY <1>3, <1>4, <1>5, OrderedIsAcyclic
  <2> QED BY <2>1, <1>2, <1>3, <1>4 DEF Gathered
<1>7. \A p \in Reachable(Root) : p \notin Reachable(p)
  <2> SUFFICES ASSUME NEW i \in DOMAIN confs', i < m
               PROVE  confs'[i] \notin Reachable(confs'[i])
    BY <1>4, <1>6
  <2>1. \A j \in DOMAIN confs' : j < i => confs'[j] \in Paths
    BY <1>4, <1>5
  <2> QED BY <2>1, <1>3, <1>4, OrderedIsAcyclic
<1>8. Confs' = Reachable(Root) \cup {Root}
  BY <1>3, <1>6
<1>9. \A i, j \in DOMAIN confs' :
         /\ i # j => confs'[i] # confs'[j]
         /\ confs'[j] \in Included(confs'[i]) => j < i
  BY <1>3 DEF Ordered
<1>10. /\ \A p : Included(p)' = Included(p)
       /\ \A p : Reachable(p)' = Reachable(p)
  BY SameReach DEF IncludeLeave
<1>11. /\ (\A p \in Reachable(Root) : p \notin Reachable(p))'
       /\ ({confs[i] : i \in DOMAIN confs} = Reachable(Root) \cup {Root})'
       /\ (confs[Len(confs)] = Root)'
       /\ (\A i, j \in DOMAIN confs :
            /\ i # j => confs[i] # confs[j]
            /\ confs[j] \in Included(confs[i]) => j < i)'
  BY <1>3, <1>7, <1>8, <1>9, <1>10 DEF Confs
<1> QED BY <1>1, <1>11 DEF IncludesAreOrdered

LEMMA IncludeLeaveStep ==
    ASSUME IncludesInv, IncludeLeave
    PROVE  IncludesInv'
<1>1. WalkInv /\ Walking /\ UNCHANGED includes
  BY WalkTop DEF IncludeLeave
<1>2. /\ \A p : Included(p)' = Included(p)
      /\ \A p : Reachable(p)' = Reachable(p)
  BY <1>1, SameReach
<1>3. CASE Len(walk) = 1
  <2>1. outcome' # "walking"
    BY <1>3 DEF IncludeLeave
  <2>2. IncludesTypeOK'
    BY <1>3, LeaveWalk, GatheredNext DEF IncludesInv, IncludesTypeOK, IncludeLeave
  <2> QED BY <2>1, <2>2, <1>3, IncludeDone DEF IncludesInv
<1>4. CASE Len(walk) # 1
  <2> DEFINE n == Len(walk)
             c == Top.conf
  <2>1. /\ n \in Nat /\ n > 1 /\ DOMAIN walk = 1 .. n /\ Top = walk[n]
        /\ n \in DOMAIN walk /\ 1 \in DOMAIN walk
    BY <1>1, <1>4, WalkTop
  <2>2. /\ walk' \in Seq([conf : Paths \cup {Root}, todo : Seq(Paths)])
        /\ Len(walk') = n - 1 /\ DOMAIN walk' = 1 .. (n - 1)
        /\ \A i \in DOMAIN walk' : i \in DOMAIN walk /\ walk'[i] = walk[i]
    BY LeaveWalk
  <2>3. /\ parents' = parents \ {c} /\ result_path' = result_path \cup {c}
        /\ outcome' = outcome /\ Confs' = Confs \cup {c} /\ c \notin Confs
        /\ Ordered(confs')
    BY <1>4, GatheredNext DEF IncludeLeave, ChainWithout
  <2>4. ChainOK /\ DirectivesOK /\ Gathered
    BY <1>1 DEF WalkInv
  <2>5. c \in Paths /\ c \in Reachable(Root)
    BY <2>1, <2>4 DEF ChainOK
  <2> HIDE DEF c
  <2>6. IncludesTypeOK'
    BY <1>1, <2>2, <2>3, <2>5, GatheredNext DEF IncludesInv, IncludesTypeOK
  <2>7. Ordered(confs)' /\ Gathered'
    <3>1. Ordered(confs)'
      BY <1>2, <2>3 DEF Ordered
    <3>2. Gathered'
      BY <1>2, <2>3, <2>4, <2>5 DEF Gathered
    <3> QED BY <3>1, <3>2
  <2>8. ChainOK'
    <3>1. walk' # <<>> /\ 1 \in DOMAIN walk' /\ walk'[1].conf = Root
      BY <2>1, <2>2, <2>4 DEF ChainOK
    <3>2. \A i \in DOMAIN walk' : i > 1 => walk'[i].conf \in Paths
      BY <2>2, <2>4 DEF ChainOK
    <3>3. \A i, j \in DOMAIN walk' : i # j => walk'[i].conf # walk'[j].conf
      BY <2>2, <2>4 DEF ChainOK
    <3>4. \A i \in DOMAIN walk' : walk'[i].conf # c /\ i # n
      BY <2>1, <2>2, <2>4 DEF ChainOK, c
    <3>5. parents' = {walk'[i].conf : i \in DOMAIN walk' \ {1}}
      <4>1. DOMAIN walk \ {1} = (DOMAIN walk' \ {1}) \cup {n}
        BY <2>1, <2>2
      <4>2. parents = {walk[i].conf : i \in DOMAIN walk \ {1}} /\ walk[n].conf = c
        BY <2>1, <2>4 DEF ChainOK, c
      <4>3. parents = {walk'[i].conf : i \in DOMAIN walk' \ {1}} \cup {c}
        BY <4>1, <4>2, <2>2
      <4> QED BY <4>3, <2>3, <3>4
    <3>6. result_path' = Confs' /\ \A i \in DOMAIN walk' : walk'[i].conf \notin Confs'
      BY <2>2, <2>3, <2>4, <3>4 DEF ChainOK
    <3>7. \A i, j \in DOMAIN walk' : i < j => walk'[j].conf \in Reachable(walk'[i].conf)
      BY <2>2, <2>4 DEF ChainOK
    <3>8. \A i \in DOMAIN walk' : Reachable(walk[i].conf)' = Reachable(walk'[i].conf)
      BY <1>2
    <3> QED BY <3>1, <3>2, <3>3, <3>5, <3>6, <3>7, <3>8 DEF ChainOK
  <2>9. DirectivesOK'
    <3>1. \A i \in DOMAIN walk' : Included(walk[i].conf)' = Included(walk'[i].conf)
      BY <1>2
    <3> SUFFICES ASSUME NEW i \in DOMAIN walk'
                 PROVE  Passed(walk'[i].todo, Included(walk'[i].conf), Confs', Above(i)')
      BY <3>1 DEF DirectivesOK
    <3>2. Passed(walk'[i].todo, Included(walk'[i].conf), Confs, Above(i))
      BY <2>2, <2>4 DEF DirectivesOK
    <3>3. Above(i) \subseteq Above(i)' \cup {c}
      <4> SUFFICES ASSUME i + 1 \in DOMAIN walk, i + 1 # n
                   PROVE  walk[i + 1].conf \in Above(i)'
        BY <2>1 DEF Above, c
      <4>1. i + 1 \in DOMAIN walk'
        BY <2>1, <2>2
      <4> QED BY <4>1, <2>2 DEF Above
    <3> QED BY <2>3, <3>2, <3>3 DEF Passed
  <2>10. IncludesAreOrdered'
    BY <1>1, <2>3 DEF Walking, IncludesAreOrdered
  <2> QED BY <2>6, <2>7, <2>8, <2>9, <2>10 DEF IncludesInv, WalkInv
<1> QED BY <1>3, <1>4

\* Unchanged, or forgotten once the context is built.
LEMMA IncludesStep ==
    ASSUME IncludesInv, [Next]_vars
    PROVE  IncludesInv'
<1>1. CASE UNCHANGED includeVars
  <2>1. UNCHANGED <<includes, walk, parents, result_path, confs, outcome>>
    BY <1>1 DEF includeVars
  <2>2. /\ \A p : Included(p)' = Included(p)
        /\ \A p : Reachable(p)' = Reachable(p)
    BY <2>1, SameReach
  <2>3. IncludesTypeOK' = IncludesTypeOK
    BY <2>1 DEF IncludesTypeOK
  <2>4. IncludesAreOrdered' = IncludesAreOrdered
    BY <2>1, <2>2 DEF IncludesAreOrdered
  <2>5. Confs' = Confs /\ \A i : Above(i)' = Above(i)
    BY <2>1 DEF Confs, Above
  <2>6. WalkInv' = WalkInv
    BY <2>1, <2>2, <2>5 DEF WalkInv, Ordered, ChainOK, DirectivesOK, Gathered
  <2> QED BY <2>1, <2>3, <2>4, <2>6 DEF IncludesInv
<1>2. CASE WalkIncludes
  BY <1>2, IncludeCircularStep, IncludeAgainStep, IncludeEnterStep, IncludeLeaveStep DEF WalkIncludes
<1>3. CASE /\ includes' = [p \in DOMAIN includes |-> <<>>] /\ UNCHANGED <<walk, parents>>
           /\ confs' = <<>> /\ result_path' = {} /\ outcome' = "loaded"
  BY <1>3 DEF IncludesInv, IncludesTypeOK, IncludesAreOrdered
<1>4. CASE UNCHANGED vars
  BY <1>1, <1>4 DEF vars
<1>5. CASE Next
  <2>1. UNCHANGED includeVars \/ GetIncludes
    BY <1>5 DEF Next, PDI_init, Work, LoadTypes, LoadPlugins, LoadData, includeVars
  <2>2. CASE GetIncludes
    BY <2>2, <1>1, <1>2, <1>3 DEF GetIncludes
  <2> QED BY <2>1, <2>2, <1>1
<1> QED BY <1>4, <1>5

\* get_includes rejects exactly the circular inclusions, whatever the graph,
\* and gathers each file once, after the files it includes.
THEOREM IncludesOrdered == Spec => []IncludesAreOrdered
<1>1. Init => IncludesInv
  BY IncludesInit DEF Init
<1>2. IncludesInv /\ [Next]_vars => IncludesInv'
  BY IncludesStep
<1>3. IncludesInv => IncludesAreOrdered
  BY DEF IncludesInv
<1> QED BY <1>1, <1>2, <1>3, PTL DEF Spec

-----------------------------------------------------------------------------
(* The calls in progress *)

IsFrame(f) == f = [type |-> f.type, name |-> f.name, todo |-> f.todo, failed |-> f.failed]

\* What a frame holds beside its type and name is of no importance here.
IsStack(s) == s \in Seq(Range(s)) /\ \A i \in DOMAIN s : IsFrame(s[i])

\* The frames of s are those of t at the same places, up to what they still
\* have to do.
Prefix(s, t) ==
    /\ IsStack(s) /\ IsStack(t) /\ Len(s) <= Len(t)
    /\ \A i \in DOMAIN s : s[i].type = t[i].type /\ s[i].name = t[i].name

Bases == {"init", "api", "dtor"}

\* A base frame, which catches exceptions, is below all others; notify_init
\* is only there.
BaseOK(s) ==
    /\ s # <<>> => s[1].type \in Bases
    /\ \A i \in DOMAIN s : i # 1 => s[i].type # "init"

ContextInv ==
    /\ shared \in [Data -> Nat] /\ kept \in [Data -> Int]
    /\ IsStack(stack) /\ BaseOK(stack)
    /\ phase \in {"none", "including", "types", "plugins", "data", "terminated"} => stack = <<>>
    /\ StoreIsBalanced

LEMMA StackSeq ==
    ASSUME NEW S, NEW s \in Seq(S), \A i \in DOMAIN s : IsFrame(s[i])
    PROVE  IsStack(s)
<1>1. s \in Seq(Range(s))
  BY DEF Range
<1> QED BY <1>1 DEF IsStack

LEMMA StackFacts ==
    ASSUME NEW s, IsStack(s)
    PROVE  /\ Len(s) \in Nat /\ DOMAIN s = 1 .. Len(s)
           /\ s # <<>> <=> Len(s) > 0
           /\ \A i \in DOMAIN s : IsFrame(s[i])
           /\ s \in Seq(Range(s))
  BY DEF IsStack

LEMMA IsFrameFrame ==
    ASSUME NEW type, NEW name, NEW todo
    PROVE  /\ IsFrame(Frame(type, name, todo))
           /\ Frame(type, name, todo).type = type /\ Frame(type, name, todo).name = name
           /\ Frame(type, name, todo).todo = todo
  BY DEF IsFrame, Frame

LEMMA IsFrameTodo ==
    ASSUME NEW f, IsFrame(f), NEW x
    PROVE  /\ IsFrame([f EXCEPT !.todo = x])
           /\ [f EXCEPT !.todo = x].type = f.type /\ [f EXCEPT !.todo = x].name = f.name
           /\ [f EXCEPT !.todo = x].todo = x
  BY DEF IsFrame

LEMMA IsFrameFailed ==
    ASSUME NEW f, IsFrame(f), NEW x
    PROVE  /\ IsFrame([f EXCEPT !.failed = x])
           /\ [f EXCEPT !.failed = x].type = f.type /\ [f EXCEPT !.failed = x].name = f.name
  BY DEF IsFrame

LEMMA StackAppend ==
    ASSUME NEW s, IsStack(s), NEW f, IsFrame(f)
    PROVE  /\ IsStack(Append(s, f)) /\ Len(Append(s, f)) = Len(s) + 1 /\ Append(s, f) # <<>>
           /\ \A i \in DOMAIN s : Append(s, f)[i] = s[i]
           /\ Append(s, f)[Len(s) + 1] = f
<1> DEFINE S == Range(s) \cup {f}
<1>1. s \in Seq(S) /\ f \in S /\ Len(s) \in Nat /\ DOMAIN s = 1 .. Len(s)
  <2>1. s \in Seq(Range(s))
    BY DEF IsStack
  <2> QED BY <2>1
<1> HIDE DEF S
<1>2. /\ Append(s, f) \in Seq(S) /\ Len(Append(s, f)) = Len(s) + 1 /\ Append(s, f) # <<>>
      /\ \A i \in DOMAIN s : Append(s, f)[i] = s[i]
      /\ Append(s, f)[Len(s) + 1] = f
  BY <1>1
<1>3. DOMAIN Append(s, f) = DOMAIN s \cup {Len(s) + 1}
  BY <1>1, <1>2
<1>4. \A i \in DOMAIN Append(s, f) : IsFrame(Append(s, f)[i])
  BY <1>2, <1>3 DEF IsStack
<1> QED BY <1>2, <1>4, StackSeq

LEMMA StackFront ==
    ASSUME NEW s, IsStack(s), NEW n \in 0 .. Len(s)
    PROVE  /\ IsStack(SubSeq(s, 1, n)) /\ Len(SubSeq(s, 1, n)) = n
           /\ \A i \in 1 .. n : SubSeq(s, 1, n)[i] = s[i]
<1> DEFINE S == Range(s)
<1>1. s \in Seq(S) /\ Len(s) \in Nat /\ DOMAIN s = 1 .. Len(s)
  BY StackFacts
<1> HIDE DEF S
<1>2. /\ SubSeq(s, 1, n) \in Seq(S) /\ Len(SubSeq(s, 1, n)) = n /\ DOMAIN SubSeq(s, 1, n) = 1 .. n
      /\ \A i \in 1 .. n : SubSeq(s, 1, n)[i] = s[i]
  BY <1>1
<1>3. \A i \in DOMAIN SubSeq(s, 1, n) : IsFrame(SubSeq(s, 1, n)[i])
  BY <1>1, <1>2 DEF IsStack
<1> QED BY <1>2, <1>3, StackSeq

LEMMA StackExcept ==
    ASSUME NEW s, IsStack(s), NEW k \in DOMAIN s, NEW f, IsFrame(f)
    PROVE  /\ IsStack([s EXCEPT ![k] = f]) /\ Len([s EXCEPT ![k] = f]) = Len(s)
           /\ DOMAIN [s EXCEPT ![k] = f] = DOMAIN s
           /\ [s EXCEPT ![k] = f][k] = f
           /\ \A i \in DOMAIN s : i # k => [s EXCEPT ![k] = f][i] = s[i]
<1> DEFINE S == Range(s) \cup {f}
           t == [s EXCEPT ![k] = f]
<1>1. s \in Seq(S) /\ f \in S /\ Len(s) \in Nat /\ DOMAIN s = 1 .. Len(s)
  <2>1. s \in Seq(Range(s))
    BY DEF IsStack
  <2> QED BY <2>1
<1> HIDE DEF S
<1>2. /\ t \in Seq(S) /\ Len(t) = Len(s) /\ DOMAIN t = DOMAIN s
      /\ t[k] = f /\ \A i \in DOMAIN s : i # k => t[i] = s[i]
  BY <1>1
<1> HIDE DEF t
<1>3. \A i \in DOMAIN t : IsFrame(t[i])
  BY <1>2 DEF IsStack
<1>4. IsStack(t)
  BY <1>2, <1>3, StackSeq
<1> QED BY <1>2, <1>4 DEF t

-----------------------------------------------------------------------------
(* The frame that catches an exception *)

LEMMA MaxOfInterval ==
    ASSUME NEW n \in Nat, NEW S \in SUBSET (1 .. n), S # {}
    PROVE  Max(S) \in S /\ \A i \in S : i <= Max(S)
<1> DEFINE R == OpToRel(<, Nat)
           T == {n - i : i \in S}
<1>1. IsWellFoundedOn(R, Nat)
  BY NatLessThanWellFounded
<1>2. T \subseteq Nat /\ T # {}
  <2>1. \A i \in S : i \in 1 .. n /\ n - i \in Nat
    OBVIOUS
  <2> QED BY <2>1
<1>3. PICK x \in T : \A y \in T : <<y, x>> \notin R
  <2> HIDE DEF R, T
  <2> QED BY <1>1, <1>2, WFMin
<1>4. PICK m \in S : x = n - m
  OBVIOUS
<1>5. \A i \in S : i <= m
  <2> SUFFICES ASSUME NEW i \in S, m < i PROVE FALSE
    OBVIOUS
  <2>1. n - i \in T /\ n - i \in Nat /\ x \in Nat /\ n - i < x
    BY <1>2, <1>4
  <2>2. <<n - i, x>> \in R
    BY <2>1 DEF OpToRel
  <2> QED BY <2>1, <2>2, <1>3
<1>6. \E k \in S : \A i \in S : k >= i
  BY <1>5
<1>7. Max(S) \in S /\ \A i \in S : Max(S) >= i
  BY <1>6 DEF Max
<1> QED BY <1>7

CatcherTypes == {"notify", "init", "api", "dtor", "scope", "function"}

LEMMA LastCatcher ==
    ASSUME NEW s, IsStack(s), s # <<>>, s[1].type \in Bases
    PROVE  LET k == Max(Catchers(s))
           IN  /\ k \in DOMAIN s /\ s[k].type \in CatcherTypes
               /\ \A i \in DOMAIN s : i > k => s[i].type \notin CatcherTypes
<1>1. Len(s) \in Nat /\ Len(s) > 0 /\ DOMAIN s = 1 .. Len(s)
  BY StackFacts
<1>2. Catchers(s) \in SUBSET (1 .. Len(s)) /\ 1 \in Catchers(s)
  BY <1>1 DEF Catchers, Bases
<1>3. Max(Catchers(s)) \in Catchers(s) /\ \A i \in Catchers(s) : i <= Max(Catchers(s))
  BY <1>1, <1>2, MaxOfInterval
<1> DEFINE k == Max(Catchers(s))
<1> HIDE DEF k
<1>4. k \in Catchers(s) /\ \A i \in Catchers(s) : i <= k
  BY <1>3 DEF k
<1>5. /\ k \in DOMAIN s /\ s[k].type \in CatcherTypes
      /\ \A i \in DOMAIN s : i > k => s[i].type \notin CatcherTypes
  BY <1>1, <1>4 DEF Catchers, CatcherTypes
<1> QED BY <1>5 DEF k

-----------------------------------------------------------------------------
(* The shares in progress *)

Sharing(s, d) == {i \in DOMAIN s : s[i].type = "share" /\ s[i].name = d}

LEMMA UndoneIsNat ==
    ASSUME NEW s, IsStack(s), NEW d
    PROVE  /\ IsFiniteSet(Sharing(s, d))
           /\ Undone(s, d) = Cardinality(Sharing(s, d)) /\ Undone(s, d) \in Nat
<1>1. Sharing(s, d) \in SUBSET (1 .. Len(s)) /\ Len(s) \in Nat
  BY StackFacts DEF Sharing
<1>2. IsFiniteSet(1 .. Len(s))
  BY <1>1, FS_Interval
<1>3. IsFiniteSet(Sharing(s, d))
  BY <1>1, <1>2, FS_Subset
<1> QED BY <1>3, FS_CardinalityType DEF Undone, Sharing

LEMMA UndoneEmpty ==
    ASSUME NEW d
    PROVE  Undone(<<>>, d) = 0
<1>1. {i \in DOMAIN <<>> : <<>>[i].type = "share" /\ <<>>[i].name = d} = {}
  OBVIOUS
<1> QED BY <1>1, FS_EmptySet DEF Undone

\* Frames that are at the same places count the same.
LEMMA UndoneSame ==
    ASSUME NEW s, NEW t, Prefix(s, t), Len(s) = Len(t), NEW d
    PROVE  Undone(s, d) = Undone(t, d)
<1>1. DOMAIN s = DOMAIN t
  BY StackFacts DEF Prefix
<1>2. Sharing(s, d) = Sharing(t, d)
  BY <1>1 DEF Sharing, Prefix
<1> QED BY <1>2, UndoneIsNat DEF Prefix

LEMMA UndoneAppend ==
    ASSUME NEW s, IsStack(s), NEW f, IsFrame(f), NEW d
    PROVE  Undone(Append(s, f), d) = Undone(s, d) + (IF f.type = "share" /\ f.name = d THEN 1 ELSE 0)
<1> DEFINE t == Append(s, f)
           n == Len(s) + 1
<1>1. /\ IsStack(t) /\ Len(t) = n /\ t[n] = f
      /\ \A i \in DOMAIN s : t[i] = s[i]
  BY StackAppend
<1>2. Len(s) \in Nat /\ DOMAIN s = 1 .. Len(s) /\ DOMAIN t = 1 .. Len(t)
  BY <1>1, StackFacts
<1> HIDE DEF t
<1>3. DOMAIN t = DOMAIN s \cup {n} /\ n \notin DOMAIN s
  BY <1>1, <1>2
<1> HIDE DEF n
<1>4. n \notin Sharing(s, d)
  BY <1>3 DEF Sharing
<1>5. IsFiniteSet(Sharing(s, d)) /\ Undone(s, d) = Cardinality(Sharing(s, d))
  BY UndoneIsNat
<1>6. Undone(t, d) = Cardinality(Sharing(t, d))
  BY <1>1, UndoneIsNat
<1>7. CASE f.type = "share" /\ f.name = d
  <2>1. Sharing(t, d) = Sharing(s, d) \cup {n}
    BY <1>7, <1>1, <1>3 DEF Sharing
  <2> QED BY <2>1, <1>4, <1>5, <1>6, <1>7, FS_AddElement DEF t
<1>8. CASE ~(f.type = "share" /\ f.name = d)
  <2>1. Sharing(t, d) = Sharing(s, d)
    BY <1>8, <1>1, <1>3 DEF Sharing
  <2>2. Undone(s, d) \in Nat
    BY UndoneIsNat
  <2> QED BY <2>1, <2>2, <1>5, <1>6, <1>8 DEF t
<1> QED BY <1>7, <1>8

\* The shares in the two parts of a stack.
LEMMA UndoneSplit ==
    ASSUME NEW s, IsStack(s), NEW k \in 0 .. Len(s), NEW d
    PROVE  Undone(s, d) = Undone(SubSeq(s, 1, k), d) + Undone(SubSeq(s, k + 1, Len(s)), d)
<1> DEFINE S == Range(s)
           low == SubSeq(s, 1, k)
           high == SubSeq(s, k + 1, Len(s))
           A == Sharing(low, d)
           B == {i \in Sharing(s, d) : i > k}
           f == [i \in Sharing(high, d) |-> k + i]
<1>1. s \in Seq(S) /\ Len(s) \in Nat /\ DOMAIN s = 1 .. Len(s) /\ k \in Nat /\ k <= Len(s)
  BY StackFacts
<1>2. /\ IsStack(low) /\ DOMAIN low = 1 .. k /\ \A i \in 1 .. k : low[i] = s[i]
  BY StackFront, StackFacts
<1>3. /\ high \in Seq(S) /\ DOMAIN high = 1 .. (Len(s) - k)
      /\ \A i \in 1 .. (Len(s) - k) : high[i] = s[k + i]
  <2> HIDE DEF S
  <2>1. high \in Seq(S)
    BY <1>1
  <2>2. DOMAIN high = 1 .. (Len(s) - k)
    BY <1>1
  <2>3. \A i \in 1 .. (Len(s) - k) : high[i] = s[k + i]
    BY <1>1
  <2> QED BY <2>1, <2>2, <2>3
<1>4. IsStack(high)
  <2>1. \A i \in DOMAIN high : k + i \in DOMAIN s
    BY <1>1, <1>3
  <2>2. \A i \in DOMAIN high : IsFrame(high[i])
    BY <2>1, <1>3, StackFacts
  <2> QED BY <2>2, <1>3, StackSeq
<1> HIDE DEF low, high
<1>5. Sharing(s, d) = A \cup B /\ A \cap B = {}
  BY <1>1, <1>2 DEF Sharing
<1>6. IsFiniteSet(Sharing(s, d)) /\ Undone(s, d) = Cardinality(Sharing(s, d))
  BY UndoneIsNat
<1>7. IsFiniteSet(A) /\ Undone(low, d) = Cardinality(A) /\ Cardinality(A) \in Nat
  BY <1>2, UndoneIsNat
<1>8. IsFiniteSet(Sharing(high, d)) /\ Undone(high, d) = Cardinality(Sharing(high, d))
  BY <1>4, UndoneIsNat
<1>9. f \in Bijection(Sharing(high, d), B)
  <2>1. \A i \in Sharing(high, d) : i \in Nat /\ k + i \in B
    BY <1>1, <1>3 DEF Sharing
  <2>2. f \in [Sharing(high, d) -> B]
    BY <2>1
  <2>3. \A i, j \in Sharing(high, d) : f[i] = f[j] => i = j
    BY <1>1, <2>1
  <2>4. \A b \in B : \E i \in Sharing(high, d) : f[i] = b
    <3> SUFFICES ASSUME NEW b \in B PROVE b - k \in Sharing(high, d) /\ k + (b - k) = b
      OBVIOUS
    <3>1. b \in 1 .. Len(s) /\ b > k /\ s[b].type = "share" /\ s[b].name = d
      BY <1>1 DEF Sharing
    <3>2. b - k \in 1 .. (Len(s) - k) /\ k + (b - k) = b
      BY <3>1, <1>1
    <3> QED BY <3>1, <3>2, <1>3 DEF Sharing
  <2> DEFINE H == Sharing(high, d)
  <2>5. /\ f \in [H -> B] /\ (\A i, j \in H : f[i] = f[j] => i = j)
        /\ \A b \in B : \E i \in H : f[i] = b
    BY <2>2, <2>3, <2>4
  <2> HIDE DEF f, B, H
  <2>6. f \in Bijection(H, B)
    BY <2>5, Fun_IsBij, Zenon
  <2> QED BY <2>6 DEF H
<1>10. Cardinality(B) = Cardinality(Sharing(high, d)) /\ IsFiniteSet(B)
  BY <1>8, <1>9, FS_Bijection DEF ExistsBijection
<1>11. Cardinality(A \cup B) = Cardinality(A) + Cardinality(B)
  <2> HIDE DEF A, B
  <2>1. Cardinality(B) \in Nat
    BY <1>10, FS_CardinalityType
  <2>2. Cardinality(A \cup B) = Cardinality(A) + Cardinality(B) - Cardinality(A \cap B)
    BY <1>7, <1>10, FS_Union
  <2>3. Cardinality(A \cap B) = 0
    BY <1>5, FS_EmptySet
  <2> QED BY <2>1, <2>2, <2>3, <1>7
<1> QED BY <1>5, <1>6, <1>7, <1>8, <1>10, <1>11 DEF low, high

-----------------------------------------------------------------------------
(* What the steps do to the stack *)

\* What NotifyCallsAll says of a step.
CallsAll ==
    \A i \in DOMAIN stack :
        stack[i].type = "notify" /\ i > Len(stack') /\ phase' # "terminated" => stack[i].todo = <<>>

StepOK == ContextInv' /\ CallsAll

LEMMA BelowFacts ==
    ASSUME ContextInv, stack # <<>>
    PROVE  /\ Len(stack) \in Nat \ {0} /\ DOMAIN stack = 1 .. Len(stack)
           /\ IsStack(Below) /\ Len(Below) = Len(stack) - 1 /\ DOMAIN Below = 1 .. (Len(stack) - 1)
           /\ \A i \in DOMAIN Below : Below[i] = stack[i]
           /\ Inner = stack[Len(stack)] /\ IsFrame(Inner)
           /\ \A d : Undone(stack, d) = Undone(Below, d) + (IF Inner.type = "share" /\ Inner.name = d THEN 1 ELSE 0)
           /\ BaseOK(Below) /\ stack[1].type \in Bases
<1>1. /\ IsStack(stack) /\ Len(stack) \in Nat \ {0} /\ DOMAIN stack = 1 .. Len(stack)
      /\ \A i \in DOMAIN stack : IsFrame(stack[i])
  BY StackFacts DEF ContextInv
<1>2. Below = SubSeq(stack, 1, Len(stack) - 1) /\ Inner = stack[Len(stack)] /\ Len(stack) - 1 \in 0 .. Len(stack)
  BY <1>1 DEF Below, Front, Inner
<1>3. IsStack(Below) /\ Len(Below) = Len(stack) - 1 /\ \A i \in 1 .. (Len(stack) - 1) : Below[i] = stack[i]
  BY <1>1, <1>2, StackFront
<1>4. DOMAIN Below = 1 .. (Len(stack) - 1)
  BY <1>3, StackFacts
<1>5. IsFrame(Inner)
  BY <1>1, <1>2
<1>6. ASSUME NEW d
      PROVE  Undone(stack, d) = Undone(Below, d) + (IF Inner.type = "share" /\ Inner.name = d THEN 1 ELSE 0)
  <2> DEFINE t == Append(Below, Inner)
  <2>1. /\ IsStack(t) /\ Len(t) = Len(stack)
        /\ \A i \in DOMAIN Below : t[i] = Below[i]
        /\ t[Len(stack)] = Inner
    <3>1. Len(Below) + 1 = Len(stack)
      BY <1>1, <1>3
    <3>2. /\ IsStack(t) /\ Len(t) = Len(Below) + 1
          /\ \A i \in DOMAIN Below : t[i] = Below[i]
          /\ t[Len(Below) + 1] = Inner
      BY <1>3, <1>5, StackAppend
    <3> HIDE DEF t
    <3> QED BY <3>1, <3>2
  <2>2. DOMAIN t = 1 .. Len(stack)
    BY <2>1, StackFacts
  <2> HIDE DEF t
  <2>3. \A i \in DOMAIN t : t[i] = stack[i]
    <3> SUFFICES ASSUME NEW i \in DOMAIN t PROVE t[i] = stack[i]
      OBVIOUS
    <3>1. CASE i = Len(stack)
      BY <3>1, <2>1, <1>2
    <3>2. CASE i # Len(stack)
      <4>1. i \in 1 .. (Len(stack) - 1)
        BY <3>2, <2>2, <1>1
      <4> QED BY <4>1, <2>1, <1>3, <1>4
    <3> QED BY <3>1, <3>2
  <2>4. Prefix(t, stack)
    BY <2>1, <2>3, <1>1 DEF Prefix
  <2>5. Undone(t, d) = Undone(stack, d)
    BY <2>1, <2>4, UndoneSame
  <2>6. Undone(t, d) = Undone(Below, d) + (IF Inner.type = "share" /\ Inner.name = d THEN 1 ELSE 0)
    BY <1>3, <1>5, UndoneAppend DEF t
  <2> QED BY <2>5, <2>6
<1>7. BaseOK(stack) /\ stack[1].type \in Bases
  BY DEF ContextInv, BaseOK
<1>8. BaseOK(Below)
  <2>1. Below # <<>> => 1 \in DOMAIN Below
    BY <1>3, <1>4, StackFacts
  <2>2. DOMAIN Below \subseteq DOMAIN stack
    BY <1>1, <1>4
  <2> QED BY <2>1, <2>2, <1>3, <1>4, <1>7 DEF BaseOK
<1> QED BY <1>1, <1>2, <1>3, <1>4, <1>5, <1>6, <1>7, <1>8

\* An exception that goes through no share of a data removed already.
Unwinds(s) ==
    LET i == Max(Catchers(s))
        above == SubSeq(s, i + 1, Len(s))
    IN  /\ \A d \in Data : ~(shared[d] < Undone(above, d))
        /\ shared' = [d \in Data |-> shared[d] - Undone(above, d)]
        /\ stack' = Unwound(s, i)
        /\ UNCHANGED phase

LEMMA ThrowCases ==
    ASSUME NEW s, Throw(s)
    PROVE  \/ stack' = <<>> /\ phase' = "terminated" /\ UNCHANGED shared
           \/ Unwinds(s)
  BY DEF Throw, Unwinds

\* It unwinds to the innermost frame that catches, and undoes the shares
\* above it.
LEMMA ThrowUnwinds ==
    ASSUME NEW s, IsStack(s), s # <<>>, s[1].type \in Bases, shared \in [Data -> Nat], Unwinds(s)
    PROVE  /\ Prefix(stack', s) /\ stack' # <<>>
           /\ \A i \in DOMAIN s : i > Len(stack') => s[i].type \notin CatcherTypes
           /\ shared' \in [Data -> Nat]
           /\ \A d \in Data : shared'[d] = shared[d] - (Undone(s, d) - Undone(stack', d))
<1> DEFINE k == Max(Catchers(s))
           low == SubSeq(s, 1, k)
           x == IF s[k].type \in {"notify", "scope"} THEN low[k].todo ELSE <<>>
           g == [[low[k] EXCEPT !.failed = TRUE] EXCEPT !.todo = x]
<1>1. /\ k \in DOMAIN s
      /\ \A i \in DOMAIN s : i > k => s[i].type \notin CatcherTypes
  BY LastCatcher
<1>2. Len(s) \in Nat /\ DOMAIN s = 1 .. Len(s)
  BY StackFacts
<1>3. /\ shared' = [d \in Data |-> shared[d] - Undone(SubSeq(s, k + 1, Len(s)), d)]
      /\ \A d \in Data : ~(shared[d] < Undone(SubSeq(s, k + 1, Len(s)), d))
      /\ stack' = [low EXCEPT ![k].failed = TRUE,
                              ![k].todo = IF s[k].type \in {"notify", "scope"} THEN @ ELSE <<>>]
  BY DEF Unwinds, Unwound
<1> HIDE DEF k
<1>4. k \in 0 .. Len(s) /\ k \in Nat /\ k > 0
  BY <1>1, <1>2
<1>5. IsStack(low) /\ Len(low) = k /\ \A i \in 1 .. k : low[i] = s[i]
  BY <1>4, StackFront
<1>6. k \in DOMAIN low /\ DOMAIN low = 1 .. k /\ IsFrame(low[k])
  BY <1>4, <1>5, StackFacts
<1> HIDE DEF low
<1>7. IsFrame(g) /\ g.type = low[k].type /\ g.name = low[k].name
  <2> DEFINE h == [low[k] EXCEPT !.failed = TRUE]
  <2>1. IsFrame(h) /\ h.type = low[k].type /\ h.name = low[k].name
    BY <1>6, IsFrameFailed
  <2> HIDE DEF h, x
  <2>2. IsFrame([h EXCEPT !.todo = x]) /\ [h EXCEPT !.todo = x].type = h.type /\ [h EXCEPT !.todo = x].name = h.name
    BY <2>1, IsFrameTodo
  <2> QED BY <2>1, <2>2 DEF h
<1>8. stack' = [low EXCEPT ![k] = g]
  BY <1>3, <1>5, <1>6 DEF IsFrame
<1> HIDE DEF g
<1>9. /\ IsStack(stack') /\ Len(stack') = k /\ DOMAIN stack' = 1 .. k
      /\ stack'[k] = g /\ \A i \in 1 .. k : i # k => stack'[i] = low[i]
  BY <1>5, <1>6, <1>7, <1>8, StackExcept
<1>10. Prefix(stack', low)
  BY <1>5, <1>6, <1>7, <1>9 DEF Prefix
<1>11. Prefix(stack', s) /\ stack' # <<>>
  BY <1>4, <1>5, <1>9, <1>10, StackFacts DEF Prefix
<1>12. ASSUME NEW d \in Data
       PROVE  /\ shared'[d] \in Nat
              /\ shared'[d] = shared[d] - (Undone(s, d) - Undone(stack', d))
  <2> DEFINE high == Undone(SubSeq(s, k + 1, Len(s)), d)
  <2>1. Undone(stack', d) = Undone(low, d)
    BY <1>5, <1>9, <1>10, UndoneSame
  <2>2. Undone(s, d) = Undone(low, d) + high
    BY <1>4, UndoneSplit DEF low
  <2>3. Undone(s, d) \in Nat /\ Undone(low, d) \in Nat /\ shared[d] \in Nat
    BY <1>5, UndoneIsNat
  <2>4. shared'[d] = shared[d] - high /\ ~(shared[d] < high)
    BY <1>3
  <2>5. high \in Nat
    <3>1. high = Cardinality(Sharing(SubSeq(s, k + 1, Len(s)), d))
      BY DEF Undone, Sharing
    <3>2. Sharing(SubSeq(s, k + 1, Len(s)), d) \in SUBSET (1 .. (Len(s) - k))
      <4>1. s \in Seq(Range(s)) /\ DOMAIN SubSeq(s, k + 1, Len(s)) = 1 .. (Len(s) - k)
        BY <1>2, <1>4, StackFacts
      <4> QED BY <4>1 DEF Sharing
    <3>3. IsFiniteSet(1 .. (Len(s) - k))
      BY <1>2, <1>4, FS_Interval
    <3> QED BY <3>1, <3>2, <3>3, FS_Subset, FS_CardinalityType
  <2> HIDE DEF high
  <2> QED BY <2>1, <2>2, <2>3, <2>4, <2>5
<1>13. shared' \in [Data -> Nat]
  BY <1>3, <1>12
<1> QED BY <1>1, <1>9, <1>11, <1>12, <1>13

Idle == {"none", "including", "types", "plugins", "data", "terminated"}

\* The program ends.
LEMMA TerminateStep ==
    ASSUME shared' \in [Data -> Nat], kept' \in [Data -> Int], stack' = <<>>, phase' = "terminated"
    PROVE  StepOK
<1>1. IsStack(<<>>) /\ BaseOK(<<>>)
  BY DEF IsStack, BaseOK, Range
<1>2. StoreIsBalanced'
  BY DEF StoreIsBalanced
<1> QED BY <1>1, <1>2 DEF StepOK, CallsAll, ContextInv

\* A call throws: the innermost frame is not a share.
LEMMA ThrowStep ==
    ASSUME ContextInv, stack # <<>>, Inner.type \notin Bases \cup {"share"},
           Inner.type = "notify" => Inner.todo = <<>>,
           Throw(Below), UNCHANGED kept
    PROVE  StepOK
<1>0. CASE stack' = <<>> /\ phase' = "terminated" /\ UNCHANGED shared
  <2>1. shared' \in [Data -> Nat] /\ kept' \in [Data -> Int]
    BY <1>0 DEF ContextInv
  <2> QED BY <1>0, <2>1, TerminateStep
<1> SUFFICES ASSUME Unwinds(Below) PROVE StepOK
  BY <1>0, ThrowCases, Zenon
<1>1. /\ Len(stack) \in Nat \ {0} /\ DOMAIN stack = 1 .. Len(stack)
      /\ IsStack(Below) /\ Len(Below) = Len(stack) - 1 /\ DOMAIN Below = 1 .. (Len(stack) - 1)
      /\ \A i \in DOMAIN Below : Below[i] = stack[i]
      /\ Inner = stack[Len(stack)]
      /\ \A d : Undone(stack, d) = Undone(Below, d) + (IF Inner.type = "share" /\ Inner.name = d THEN 1 ELSE 0)
      /\ BaseOK(Below) /\ stack[1].type \in Bases
  BY BelowFacts
<1>2. Len(stack) # 1
  BY <1>1
<1>3. Below # <<>> /\ Below[1].type \in Bases
  <2>1. 1 \in DOMAIN Below
    BY <1>1, <1>2
  <2> QED BY <2>1, <1>1
<1>4. shared \in [Data -> Nat] /\ kept \in [Data -> Int]
  BY DEF ContextInv
<1>5. /\ Prefix(stack', Below) /\ stack' # <<>>
      /\ \A i \in DOMAIN Below : i > Len(stack') => Below[i].type \notin CatcherTypes
      /\ shared' \in [Data -> Nat]
      /\ \A d \in Data : shared'[d] = shared[d] - (Undone(Below, d) - Undone(stack', d))
  BY <1>1, <1>3, <1>4, ThrowUnwinds
<1>6. IsStack(stack') /\ Len(stack') \in Nat /\ Len(stack') > 0 /\ DOMAIN stack' = 1 .. Len(stack') /\ Len(stack') <= Len(Below)
  BY <1>5, StackFacts DEF Prefix
<1>7. BaseOK(stack')
  <2>1. DOMAIN stack' \subseteq DOMAIN Below /\ 1 \in DOMAIN stack'
    BY <1>1, <1>6
  <2> QED BY <2>1, <1>1, <1>3, <1>5 DEF BaseOK, Prefix
<1>8. UNCHANGED phase /\ phase' \notin Idle
  BY DEF ContextInv, Idle, Unwinds
<1>9. StoreIsBalanced'
  <2> SUFFICES ASSUME NEW d \in Data PROVE shared'[d] = kept'[d] + Undone(stack', d)
    BY DEF StoreIsBalanced, Undone
  <2>1. shared[d] = kept[d] + Undone(stack, d) /\ shared[d] \in Nat /\ kept[d] \in Int
    BY <1>4, <1>8 DEF ContextInv, StoreIsBalanced, Idle
  <2>2. Undone(stack, d) = Undone(Below, d) /\ Undone(Below, d) \in Nat /\ Undone(stack', d) \in Nat
    BY <1>1, <1>6, UndoneIsNat
  <2>3. shared'[d] = shared[d] - (Undone(Below, d) - Undone(stack', d)) /\ kept'[d] = kept[d]
    BY <1>5
  <2> QED BY <2>1, <2>2, <2>3
<1>10. CallsAll
  <2> SUFFICES ASSUME NEW i \in DOMAIN stack, stack[i].type = "notify", i > Len(stack')
               PROVE  stack[i].todo = <<>>
    BY DEF CallsAll
  <2>1. CASE i = Len(stack)
    BY <2>1, <1>1
  <2>2. CASE i # Len(stack)
    <3>1. i \in DOMAIN Below
      BY <2>2, <1>1
    <3> QED BY <3>1, <1>1, <1>5 DEF CatcherTypes
  <2> QED BY <2>1, <2>2
<1> QED BY <1>4, <1>5, <1>6, <1>7, <1>8, <1>9, <1>10 DEF StepOK, ContextInv, Idle

\* A call returns.
LEMMA ReturnStep ==
    ASSUME ContextInv, stack # <<>>, stack' = Below,
           Inner.type = "notify" => Inner.todo = <<>>,
           phase' \in {phase, "destroy"},
           shared' \in [Data -> Nat], kept' \in [Data -> Int],
           \A d \in Data : shared'[d] - kept'[d] = shared[d] - kept[d] - (IF Inner.type = "share" /\ Inner.name = d THEN 1 ELSE 0)
    PROVE  StepOK
<1>1. /\ Len(stack) \in Nat \ {0} /\ DOMAIN stack = 1 .. Len(stack)
      /\ IsStack(Below) /\ Len(Below) = Len(stack) - 1
      /\ Inner = stack[Len(stack)]
      /\ \A d : Undone(stack, d) = Undone(Below, d) + (IF Inner.type = "share" /\ Inner.name = d THEN 1 ELSE 0)
      /\ BaseOK(Below)
  BY BelowFacts
<1>2. phase \notin Idle /\ phase' \notin Idle
  BY DEF ContextInv, Idle
<1>3. StoreIsBalanced'
  <2> SUFFICES ASSUME NEW d \in Data PROVE shared'[d] = kept'[d] + Undone(stack', d)
    BY DEF StoreIsBalanced, Undone
  <2> DEFINE one == IF Inner.type = "share" /\ Inner.name = d THEN 1 ELSE 0
  <2>1. /\ shared[d] = kept[d] + Undone(stack, d) /\ shared[d] \in Nat /\ kept[d] \in Int
        /\ shared'[d] \in Nat /\ kept'[d] \in Int
    BY <1>2 DEF ContextInv, StoreIsBalanced, Idle
  <2>2. Undone(stack, d) = Undone(Below, d) + one /\ Undone(Below, d) \in Nat /\ one \in Nat
    BY <1>1, UndoneIsNat
  <2>3. shared'[d] - kept'[d] = shared[d] - kept[d] - one /\ Undone(stack', d) = Undone(Below, d)
    OBVIOUS
  <2> HIDE DEF one
  <2> QED BY <2>1, <2>2, <2>3
<1>4. CallsAll
  BY <1>1 DEF CallsAll
<1> QED BY <1>1, <1>2, <1>3, <1>4 DEF StepOK, ContextInv, Idle

\* Frames are added, none of them a share.
Pushed(s, t) == Prefix(s, t) /\ \A i \in DOMAIN t \ DOMAIN s : t[i].type \notin {"init", "share"}

LEMMA PushedAppend ==
    ASSUME NEW s, NEW t, Pushed(s, t), NEW f, IsFrame(f), f.type \notin {"init", "share"}
    PROVE  Pushed(s, Append(t, f))
<1> DEFINE u == Append(t, f)
<1>1. IsStack(s) /\ IsStack(t) /\ Len(s) <= Len(t)
  BY DEF Pushed, Prefix
<1>2. /\ Len(s) \in Nat /\ DOMAIN s = 1 .. Len(s)
      /\ Len(t) \in Nat /\ DOMAIN t = 1 .. Len(t)
  BY <1>1, StackFacts
<1>3. /\ IsStack(u) /\ Len(u) = Len(t) + 1
      /\ \A i \in DOMAIN t : u[i] = t[i]
      /\ u[Len(t) + 1] = f
  BY <1>1, StackAppend
<1> HIDE DEF u
<1>4. DOMAIN u = DOMAIN t \cup {Len(t) + 1}
  BY <1>2, <1>3, StackFacts
<1>5. DOMAIN s \subseteq DOMAIN t
  BY <1>1, <1>2
<1>6. Prefix(s, u)
  <2>1. Len(s) <= Len(u)
    BY <1>1, <1>2, <1>3
  <2> QED BY <2>1, <1>1, <1>3, <1>5 DEF Prefix, Pushed
<1>7. \A i \in DOMAIN u \ DOMAIN s : u[i].type \notin {"init", "share"}
  BY <1>3, <1>4 DEF Pushed
<1> QED BY <1>6, <1>7 DEF Pushed, u

LEMMA UndonePushed ==
    ASSUME NEW s, NEW t, Pushed(s, t), NEW d
    PROVE  Undone(t, d) = Undone(s, d)
<1>1. IsStack(s) /\ IsStack(t)
  BY DEF Pushed, Prefix
<1>2. DOMAIN s \subseteq DOMAIN t
  BY <1>1, StackFacts DEF Pushed, Prefix
<1>3. Sharing(t, d) = Sharing(s, d)
  BY <1>2 DEF Sharing, Pushed, Prefix
<1> QED BY <1>1, <1>3, UndoneIsNat

LEMMA PushStep ==
    ASSUME ContextInv, stack # <<>>, Pushed(stack, stack'), UNCHANGED <<phase, shared, kept>>
    PROVE  StepOK
<1>1. IsStack(stack) /\ IsStack(stack') /\ Len(stack) <= Len(stack')
  BY DEF Pushed, Prefix
<1>2. /\ Len(stack) \in Nat /\ DOMAIN stack = 1 .. Len(stack) /\ Len(stack) > 0
      /\ Len(stack') \in Nat /\ DOMAIN stack' = 1 .. Len(stack')
  BY <1>1, StackFacts
<1>3. BaseOK(stack')
  <2>1. DOMAIN stack \subseteq DOMAIN stack' /\ 1 \in DOMAIN stack
    BY <1>1, <1>2
  <2> QED BY <2>1 DEF ContextInv, BaseOK, Pushed, Prefix
<1>4. phase \notin Idle
  BY DEF ContextInv, Idle
<1>5. StoreIsBalanced'
  <2> SUFFICES ASSUME NEW d \in Data PROVE shared[d] = kept[d] + Undone(stack', d)
    BY DEF StoreIsBalanced, Undone
  <2> QED BY <1>4, UndonePushed DEF ContextInv, StoreIsBalanced, Idle
<1>6. CallsAll
  BY <1>1, <1>2 DEF CallsAll
<1> QED BY <1>1, <1>3, <1>4, <1>5, <1>6 DEF StepOK, ContextInv, Idle

LEMMA ConcatAppend ==
    ASSUME NEW t, IsStack(t), NEW f, NEW g
    PROVE  /\ t \o <<f>> = Append(t, f)
           /\ t \o <<f, g>> = Append(Append(t, f), g)
<1> DEFINE S == Range(t) \cup {f, g}
<1>1. t \in Seq(S) /\ f \in S /\ g \in S
  <2>1. t \in Seq(Range(t))
    BY DEF IsStack
  <2> QED BY <2>1
<1> HIDE DEF S
<1>2. t \o <<f>> = Append(t, f)
  BY <1>1
<1>3. t \o <<f, g>> = Append(Append(t, f), g)
  BY <1>1
<1> QED BY <1>2, <1>3

\* The innermost frame is past its first operation or callback.
LEMMA PassFirst ==
    ASSUME ContextInv, stack # <<>>
    PROVE  /\ Pushed(stack, Append(Below, [Inner EXCEPT !.todo = Tail(@)]))
           /\ Len(Append(Below, [Inner EXCEPT !.todo = Tail(@)])) = Len(stack)
<1> DEFINE f == [Inner EXCEPT !.todo = Tail(@)]
           t == Append(Below, f)
<1>1. /\ IsStack(stack) /\ Len(stack) \in Nat \ {0} /\ DOMAIN stack = 1 .. Len(stack)
      /\ IsStack(Below) /\ Len(Below) = Len(stack) - 1 /\ DOMAIN Below = 1 .. (Len(stack) - 1)
      /\ \A i \in DOMAIN Below : Below[i] = stack[i]
      /\ Inner = stack[Len(stack)] /\ IsFrame(Inner)
  BY BelowFacts DEF ContextInv
<1>2. IsFrame(f) /\ f.type = Inner.type /\ f.name = Inner.name
  BY <1>1, IsFrameTodo
<1> HIDE DEF f
<1>3. /\ IsStack(t) /\ Len(t) = Len(Below) + 1
      /\ \A i \in DOMAIN Below : t[i] = Below[i]
      /\ t[Len(Below) + 1] = f
  <2>1. IsStack(Below) /\ IsFrame(f)
    BY <1>1, <1>2
  <2> QED BY ONLY <2>1, StackAppend
<1> HIDE DEF t
<1>4. Len(Below) + 1 = Len(stack)
  BY <1>1
<1>5. DOMAIN t = DOMAIN stack /\ Len(t) = Len(stack)
  BY <1>1, <1>3, <1>4, StackFacts
<1>6. ASSUME NEW i \in DOMAIN stack
      PROVE  stack[i].type = t[i].type /\ stack[i].name = t[i].name
  <2>1. CASE i = Len(stack)
    BY <2>1, <1>1, <1>2, <1>3, <1>4
  <2>2. CASE i # Len(stack)
    <3>1. i \in DOMAIN Below
      BY <2>2, <1>1
    <3> QED BY <3>1, <1>1, <1>3
  <2> QED BY <2>1, <2>2
<1>7. Pushed(stack, t)
  BY <1>1, <1>3, <1>5, <1>6 DEF Pushed, Prefix
<1> QED BY <1>5, <1>7 DEF t, f

LEMMA RestFacts ==
    ASSUME ContextInv, stack # <<>>
    PROVE  Pushed(stack, Rest) /\ IsStack(Rest) /\ Len(Rest) = Len(stack)
  BY PassFirst DEF Rest, Pushed, Prefix

LEMMA RunningFacts ==
    ASSUME NEW type, Running(type)
    PROVE  stack # <<>> /\ Inner.type = type
  BY DEF Running

LEMMA DoFacts ==
    ASSUME NEW what, Do(what)
    PROVE  stack # <<>> /\ Inner.type = "body"
  BY DEF Do, Running

\* A notification through a list that is destroyed ends the program.
LEMMA NotifyCases ==
    ASSUME NEW s, NEW kind, NEW name, Notify(s, kind, name)
    PROVE  \/ stack' = <<>> /\ phase' = "terminated"
           \/ /\ UNCHANGED phase
              /\ \E todo : stack' = Append(s, Frame("notify", name, todo))
  BY Zenon DEF Notify

\* notify_* is called below no share.
LEMMA NotifyStep ==
    ASSUME ContextInv, stack # <<>>, NEW s, Pushed(stack, s),
           NEW kind, NEW name, Notify(s, kind, name), UNCHANGED <<shared, kept>>
    PROVE  StepOK
<1>1. CASE stack' = <<>> /\ phase' = "terminated"
  <2>1. shared' \in [Data -> Nat] /\ kept' \in [Data -> Int]
    BY DEF ContextInv
  <2> QED BY <1>1, <2>1, TerminateStep
<1>2. ASSUME UNCHANGED phase, NEW todo, stack' = Append(s, Frame("notify", name, todo))
      PROVE  StepOK
  <2>1. IsFrame(Frame("notify", name, todo)) /\ Frame("notify", name, todo).type = "notify"
    BY IsFrameFrame
  <2>2. Pushed(stack, stack')
    BY <1>2, <2>1, PushedAppend
  <2> QED BY <1>2, <2>2, PushStep
<1> QED BY <1>1, <1>2, NotifyCases

\* One frame more, or two.
LEMMA PushFrame ==
    ASSUME ContextInv, stack # <<>>, NEW s, Pushed(stack, s),
           NEW type \in {"body", "dtor", "api", "scope", "function", "ref", "release"}, NEW name, NEW todo
    PROVE  /\ Pushed(stack, Append(s, Frame(type, name, todo)))
           /\ s \o <<Frame(type, name, todo)>> = Append(s, Frame(type, name, todo))
           /\ \A f : s \o <<Frame(type, name, todo), f>> = Append(Append(s, Frame(type, name, todo)), f)
<1>1. IsFrame(Frame(type, name, todo)) /\ Frame(type, name, todo).type = type
  BY IsFrameFrame
<1>2. IsStack(s)
  BY DEF Pushed, Prefix
<1>3. Pushed(stack, Append(s, Frame(type, name, todo)))
  BY <1>1, PushedAppend
<1> QED BY <1>2, <1>3, ConcatAppend

-----------------------------------------------------------------------------
(* The steps of the notifications and of the operations *)

LEMMA SameStore ==
    ASSUME ContextInv, UNCHANGED <<shared, kept>>
    PROVE  shared' \in [Data -> Nat] /\ kept' \in [Data -> Int]
  BY DEF ContextInv

LEMMA CountType ==
    ASSUME NEW c \in [Data -> Int], NEW n
    PROVE  /\ [c EXCEPT ![n] = @ + 1] \in [Data -> Int] /\ [c EXCEPT ![n] = @ - 1] \in [Data -> Int]
           /\ c \in [Data -> Nat] => [c EXCEPT ![n] = @ + 1] \in [Data -> Nat]
           /\ c \in [Data -> Nat] /\ c[n] > 0 => [c EXCEPT ![n] = @ - 1] \in [Data -> Nat]
<1>1. CASE n \in Data
  <2>1. c[n] + 1 \in Int /\ c[n] - 1 \in Int
    BY <1>1
  <2>2. c \in [Data -> Nat] => c[n] + 1 \in Nat /\ (c[n] > 0 => c[n] - 1 \in Nat)
    BY <1>1
  <2> QED BY <1>1, <2>1, <2>2
<1>2. CASE n \notin Data
  <2>1. [c EXCEPT ![n] = @ + 1] = c /\ [c EXCEPT ![n] = @ - 1] = c
    BY <1>2
  <2> QED BY <2>1
<1> QED BY <1>1, <1>2

LEMMA SamePushed ==
    ASSUME ContextInv
    PROVE  Pushed(stack, stack)
  BY DEF ContextInv, Pushed, Prefix

LEMMA NatFunction ==
    ASSUME NEW c \in [Data -> Nat]
    PROVE  c \in [Data -> Int]
  OBVIOUS

\* A call that is not a share returns and leaves the store as it is.
LEMMA PlainReturn ==
    ASSUME ContextInv, stack # <<>>, stack' = Below, Inner.type # "share",
           Inner.type = "notify" => Inner.todo = <<>>,
           phase' \in {phase, "destroy"}, UNCHANGED <<shared, kept>>
    PROVE  StepOK
<1>1. shared' \in [Data -> Nat] /\ kept' \in [Data -> Int]
  BY SameStore
<1>2. \A d \in Data : shared'[d] - kept'[d] = shared[d] - kept[d] - (IF Inner.type = "share" /\ Inner.name = d THEN 1 ELSE 0)
  BY <1>1
<1> QED BY <1>1, <1>2, ReturnStep

LEMMA NotifyNextStep ==
    ASSUME ContextInv, NotifyNext
    PROVE  StepOK
<1>1. stack # <<>>
  BY RunningFacts DEF NotifyNext
<1> DEFINE s == Append(Below, [Inner EXCEPT !.todo = Tail(@)])
           f == Frame("body", Head(Inner.todo).name, Head(Inner.todo).ops)
<1>2. Pushed(stack, s)
  BY <1>1, PassFirst
<1>3. stack' = s \o <<f>> /\ UNCHANGED <<phase, shared, kept>>
  BY DEF NotifyNext
<1> HIDE DEF s
<1>4. Pushed(stack, Append(s, f)) /\ s \o <<f>> = Append(s, f)
  BY <1>1, <1>2, PushFrame
<1> QED BY <1>1, <1>3, <1>4, PushStep

LEMMA NotifyEndStep ==
    ASSUME ContextInv, NotifyEnd
    PROVE  StepOK
<1>1. stack # <<>> /\ Inner.type = "notify" /\ Inner.todo = <<>> /\ UNCHANGED kept
  BY DEF NotifyEnd, Running
<1>2. CASE Throw(Below)
  BY <1>1, <1>2, ThrowStep DEF Bases
<1>3. CASE stack' = Below /\ UNCHANGED <<shared, phase>>
  BY <1>1, <1>3, PlainReturn
<1> QED BY <1>2, <1>3 DEF NotifyEnd

LEMMA ShareBeginStep ==
    ASSUME ContextInv, ShareBegin
    PROVE  StepOK
<1> DEFINE n == Todo.name
           f == Frame("share", n, <<>>)
           s == Append(Rest, f)
<1>1. stack # <<>>
  BY DoFacts DEF ShareBegin
<1>2. Pushed(stack, Rest) /\ IsStack(Rest) /\ Len(Rest) = Len(stack)
  BY <1>1, RestFacts
<1>3. IsFrame(f) /\ f.type = "share" /\ f.name = n
  BY IsFrameFrame
<1>4. shared' = [shared EXCEPT ![n] = @ + 1] /\ Notify(s, "data", n) /\ UNCHANGED kept
  BY DEF ShareBegin
<1>5. shared \in [Data -> Nat] /\ kept \in [Data -> Int] /\ shared' \in [Data -> Nat] /\ kept' \in [Data -> Int]
  <2>1. shared \in [Data -> Nat] /\ kept \in [Data -> Int]
    BY DEF ContextInv
  <2> HIDE DEF n
  <2>2. [shared EXCEPT ![n] = @ + 1] \in [Data -> Nat]
    BY <2>1, NatFunction, CountType
  <2> QED BY <2>1, <2>2, <1>4
<1> HIDE DEF n, f
<1>6. CASE stack' = <<>> /\ phase' = "terminated"
  BY <1>5, <1>6, TerminateStep
<1>7. ASSUME UNCHANGED phase, NEW todo, stack' = Append(s, Frame("notify", n, todo))
      PROVE  StepOK
  <2> DEFINE g == Frame("notify", n, todo)
  <2>1. IsFrame(g) /\ g.type = "notify"
    BY IsFrameFrame
  <2>2. /\ IsStack(s) /\ Len(s) = Len(Rest) + 1
        /\ (\A i \in DOMAIN Rest : s[i] = Rest[i])
        /\ s[Len(Rest) + 1] = f
    BY ONLY <1>2, <1>3, StackAppend
  <2>3. \A d : Undone(s, d) = Undone(Rest, d) + (IF f.type = "share" /\ f.name = d THEN 1 ELSE 0)
    BY ONLY <1>2, <1>3, UndoneAppend
  <2> HIDE DEF s, g
  <2>4. /\ IsStack(stack') /\ Len(stack') = Len(s) + 1
        /\ (\A i \in DOMAIN s : stack'[i] = s[i])
        /\ stack'[Len(s) + 1] = g
    <3>1. stack' = Append(s, g)
      BY <1>7 DEF g
    <3> QED BY ONLY <2>1, <2>2, <3>1, StackAppend
  <2>5. \A d : Undone(stack', d) = Undone(s, d) + (IF g.type = "share" /\ g.name = d THEN 1 ELSE 0)
    <3>1. stack' = Append(s, g)
      BY <1>7 DEF g
    <3> QED BY ONLY <2>1, <2>2, <3>1, UndoneAppend
  <2>6. /\ IsStack(stack) /\ Len(stack) \in Nat \ {0} /\ DOMAIN stack = 1 .. Len(stack)
        /\ stack[1].type \in Bases /\ BaseOK(stack)
    BY <1>1, BelowFacts DEF ContextInv
  <2>7. /\ DOMAIN Rest = DOMAIN stack /\ DOMAIN s = DOMAIN stack \cup {Len(stack) + 1}
        /\ DOMAIN stack' = DOMAIN s \cup {Len(stack) + 2}
    BY <1>2, <2>2, <2>4, <2>6, StackFacts
  <2>8. \A i \in DOMAIN stack : Rest[i].type = stack[i].type
    BY <1>2 DEF Pushed, Prefix
  <2>9. \A i \in DOMAIN stack : stack'[i].type = stack[i].type
    BY <2>2, <2>4, <2>7, <2>8
  <2>10. stack'[Len(stack) + 1].type = "share" /\ stack'[Len(stack) + 2].type = "notify"
    <3>1. stack'[Len(stack) + 1] = f
      BY <1>2, <2>2, <2>4, <2>7
    <3>2. stack'[Len(stack) + 2] = g
      BY <1>2, <2>2, <2>4, <2>6
    <3> QED BY <3>1, <3>2, <1>3, <2>1
  <2>11. BaseOK(stack') /\ stack' # <<>>
    <3>1. 1 \in DOMAIN stack /\ stack' # <<>>
      BY <2>6, <2>2, <2>4, <1>2, StackFacts
    <3> QED BY <3>1, <2>6, <2>7, <2>9, <2>10 DEF BaseOK
  <2>12. phase \notin Idle
    BY <1>1 DEF ContextInv, Idle
  <2>13. StoreIsBalanced'
    <3> SUFFICES ASSUME NEW d \in Data PROVE shared'[d] = kept'[d] + Undone(stack', d)
      BY DEF StoreIsBalanced, Undone
    <3>1. Undone(Rest, d) = Undone(stack, d)
      BY <1>2, UndonePushed
    <3>2. Undone(stack', d) = Undone(stack, d) + (IF n = d THEN 1 ELSE 0) /\ Undone(stack, d) \in Nat
      <4>1. Undone(stack, d) \in Nat
        BY <2>6, UndoneIsNat
      <4> QED BY <4>1, <3>1, <2>3, <2>5, <2>1, <1>3
    <3>3. shared[d] = kept[d] + Undone(stack, d) /\ shared[d] \in Nat /\ kept[d] \in Int
      BY <1>5, <2>12 DEF ContextInv, StoreIsBalanced, Idle
    <3>4. shared'[d] = shared[d] + (IF n = d THEN 1 ELSE 0) /\ kept'[d] = kept[d]
      BY <1>4, <1>5
    <3> QED BY <3>2, <3>3, <3>4
  <2>14. CallsAll
    <3>1. Len(stack') > Len(stack)
      BY <1>2, <2>2, <2>4, <2>6
    <3>2. \A i \in DOMAIN stack : ~(i > Len(stack'))
      BY <3>1, <2>4, <2>6, StackFacts
    <3> QED BY <3>2 DEF CallsAll
  <2> QED BY <1>5, <1>7, <2>4, <2>11, <2>12, <2>13, <2>14 DEF StepOK, ContextInv, Idle
<1> QED BY <1>4, <1>6, <1>7, NotifyCases

LEMMA ShareEndStep ==
    ASSUME ContextInv, ShareEnd
    PROVE  StepOK
<1> DEFINE n == Inner.name
<1>1. stack # <<>> /\ Inner.type = "share"
  BY DEF ShareEnd, Running
<1>2. kept' = [kept EXCEPT ![n] = @ + 1] /\ stack' = Below /\ UNCHANGED <<phase, shared>>
  BY DEF ShareEnd
<1>3. shared \in [Data -> Nat] /\ kept \in [Data -> Int]
  BY DEF ContextInv
<1>4. ASSUME NEW d \in Data
      PROVE  shared'[d] - kept'[d] = shared[d] - kept[d] - (IF Inner.type = "share" /\ Inner.name = d THEN 1 ELSE 0)
  <2>1. kept'[d] = kept[d] + (IF n = d THEN 1 ELSE 0) /\ kept[d] \in Int /\ shared[d] \in Nat
    BY <1>2, <1>3
  <2> QED BY <1>1, <1>2, <2>1
<1>5. shared' \in [Data -> Nat] /\ kept' \in [Data -> Int]
  <2> HIDE DEF n
  <2>1. [kept EXCEPT ![n] = @ + 1] \in [Data -> Int]
    BY <1>3, CountType
  <2> QED BY <1>2, <1>3, <2>1
<1> QED BY <1>1, <1>2, <1>4, <1>5, ReturnStep

LEMMA ReleaseEndStep ==
    ASSUME ContextInv, ReleaseEnd
    PROVE  StepOK
<1> DEFINE n == Inner.name
<1>1. stack # <<>> /\ Inner.type = "release"
  BY DEF ReleaseEnd, Running
<1>2. CASE /\ shared[n] > 0
           /\ shared' = [shared EXCEPT ![n] = @ - 1] /\ kept' = [kept EXCEPT ![n] = @ - 1]
           /\ stack' = Below /\ UNCHANGED phase
  <2>1. shared \in [Data -> Nat] /\ kept \in [Data -> Int]
    BY DEF ContextInv
  <2>2. ASSUME NEW d \in Data
        PROVE  shared'[d] - kept'[d] = shared[d] - kept[d] - (IF Inner.type = "share" /\ Inner.name = d THEN 1 ELSE 0)
    <3>1. /\ shared'[d] = shared[d] - (IF n = d THEN 1 ELSE 0) /\ shared[d] \in Nat
          /\ kept'[d] = kept[d] - (IF n = d THEN 1 ELSE 0) /\ kept[d] \in Int
      BY <1>2, <2>1
    <3> QED BY <1>1, <3>1
  <2>3. shared' \in [Data -> Nat] /\ kept' \in [Data -> Int]
    <3> HIDE DEF n
    <3>1. [shared EXCEPT ![n] = @ - 1] \in [Data -> Nat] /\ [kept EXCEPT ![n] = @ - 1] \in [Data -> Int]
      BY <1>2, <2>1, NatFunction, CountType
    <3> QED BY <1>2, <3>1
  <2> QED BY <1>1, <1>2, <2>2, <2>3, ReturnStep
<1>3. CASE Notify(Append(stack, Frame("ref", n, <<>>)), "missing", n) /\ UNCHANGED <<shared, kept>>
  <2>1. Pushed(stack, stack)
    BY SamePushed
  <2>2. Pushed(stack, Append(stack, Frame("ref", n, <<>>)))
    BY <2>1, <1>1, PushFrame
  <2> QED BY <1>1, <1>3, <2>2, NotifyStep
<1> QED BY <1>2, <1>3 DEF ReleaseEnd

LEMMA OperationStep ==
    ASSUME ContextInv, Operation
    PROVE  StepOK
<1>1. CASE OperationThrows
  <2>1. stack # <<>> /\ Inner.type = "body"
    BY <1>1, DoFacts DEF OperationThrows
  <2>2. Throw(Below) /\ UNCHANGED kept
    BY <1>1 DEF OperationThrows
  <2> QED BY <2>1, <2>2, ThrowStep DEF Bases
<1>2. CASE Observe \/ RegisterTrigger \/ KeepFinalizer
  <2>1. stack # <<>> /\ stack' = Rest /\ UNCHANGED <<phase, shared, kept>>
    BY <1>2, DoFacts DEF Observe, RegisterTrigger, KeepFinalizer
  <2> QED BY <2>1, RestFacts, PushStep
<1>3. CASE ReleaseBegin
  <2>1. stack # <<>> /\ Inner.type = "body"
    BY <1>3, DoFacts DEF ReleaseBegin
  <2>2. CASE Throw(Below) /\ UNCHANGED kept
    BY <2>1, <2>2, ThrowStep DEF Bases
  <2>3. CASE Notify(Append(Rest, Frame("release", Todo.name, <<>>)), "remove", Todo.name) /\ UNCHANGED <<shared, kept>>
    <3>1. Pushed(stack, Append(Rest, Frame("release", Todo.name, <<>>)))
      BY <2>1, RestFacts, PushFrame
    <3> QED BY <2>1, <2>3, <3>1, NotifyStep
  <2> QED BY <1>3, <2>2, <2>3 DEF ReleaseBegin
<1>4. CASE EventBegin
  <2>1. stack # <<>>
    BY <1>4, DoFacts DEF EventBegin
  <2>2. Notify(Rest, "event", Todo.name) /\ UNCHANGED <<shared, kept>>
    BY <1>4 DEF EventBegin
  <2> QED BY <2>1, <2>2, RestFacts, NotifyStep
<1>5. CASE SetBegin
  <2>1. stack # <<>> /\ UNCHANGED <<shared, kept>>
    BY <1>5, DoFacts DEF SetBegin
  <2>2. CASE stack' = Rest /\ UNCHANGED phase
    BY <2>1, <2>2, RestFacts, PushStep
  <2>3. CASE Notify(Append(Rest, Frame("ref", Todo.name, <<>>)), "missing", Todo.name)
    <3>1. Pushed(stack, Append(Rest, Frame("ref", Todo.name, <<>>)))
      BY <2>1, RestFacts, PushFrame
    <3> QED BY <2>1, <2>3, <3>1, NotifyStep
  <2> QED BY <1>5, <2>2, <2>3 DEF SetBegin
<1>6. CASE RefEnd
  <2>1. stack # <<>> /\ Inner.type = "ref" /\ UNCHANGED kept
    BY <1>6, RunningFacts DEF RefEnd
  <2>2. CASE Throw(Below)
    BY <2>1, <2>2, ThrowStep DEF Bases
  <2>3. CASE stack' = Below /\ UNCHANGED <<shared, phase>>
    BY <2>1, <2>3, PlainReturn
  <2> QED BY <1>6, <2>2, <2>3 DEF RefEnd
<1>7. CASE BodyEnd
  <2>1. stack # <<>> /\ Inner.type = "body" /\ stack' = Below /\ UNCHANGED <<phase, shared, kept>>
    BY <1>7, RunningFacts DEF BodyEnd
  <2> QED BY <2>1, PlainReturn
<1>8. CASE StackOverflow
  <2>1. shared' \in [Data -> Nat] /\ kept' \in [Data -> Int] /\ stack' = <<>> /\ phase' = "terminated"
    BY <1>8, SameStore DEF StackOverflow
  <2> QED BY <2>1, TerminateStep
<1> QED BY <1>1, <1>2, <1>3, <1>4, <1>5, <1>6, <1>7, <1>8, ShareBeginStep, ShareEndStep, ReleaseEndStep DEF Operation

\* The destructor of an alias is added to the scope below.
LEMMA AliasExposedStep ==
    ASSUME ContextInv, AliasExposed
    PROVE  StepOK
<1> DEFINE k == Len(stack) - 1
           x == KeepAlias(Rest[k].todo, Todo.name)
           f == [Rest[k] EXCEPT !.todo = x]
<1>1. stack # <<>> /\ UNCHANGED <<phase, shared, kept>>
  BY DoFacts DEF AliasExposed
<1>2. Pushed(stack, Rest) /\ IsStack(Rest) /\ Len(Rest) = Len(stack)
  BY <1>1, RestFacts
<1>3. stack' = [Rest EXCEPT ![k].todo = KeepAlias(@, Todo.name)]
  BY DEF AliasExposed
<1> HIDE DEF k
<1>4. CASE k \notin DOMAIN Rest
  <2>1. stack' = Rest
    <3>1. Rest \in Seq(Range(Rest)) /\ DOMAIN Rest = 1 .. Len(Rest)
      BY <1>2, StackFacts
    <3> QED BY <1>3, <1>4, <3>1
  <2> QED BY <2>1, <1>1, <1>2, PushStep
<1>5. CASE k \in DOMAIN Rest
  <2>1. IsFrame(Rest[k])
    BY <1>2, <1>5, StackFacts
  <2>2. stack' = [Rest EXCEPT ![k] = f]
    BY <1>3
  <2> HIDE DEF x
  <2>3. IsFrame(f) /\ f.type = Rest[k].type /\ f.name = Rest[k].name
    BY <2>1, IsFrameTodo
  <2> HIDE DEF f
  <2>4. /\ IsStack(stack') /\ Len(stack') = Len(Rest) /\ DOMAIN stack' = DOMAIN Rest
        /\ stack'[k] = f
        /\ \A i \in DOMAIN Rest : i # k => stack'[i] = Rest[i]
    BY ONLY <1>2, <1>5, <2>2, <2>3, StackExcept
  <2>5. DOMAIN Rest = DOMAIN stack /\ IsStack(stack)
    BY <1>2, StackFacts DEF ContextInv
  <2>6. Pushed(stack, stack')
    BY <1>2, <2>3, <2>4, <2>5 DEF Pushed, Prefix
  <2> QED BY <2>6, <1>1, PushStep
<1> QED BY <1>4, <1>5

LEMMA CodeStepStep ==
    ASSUME ContextInv, CodeStep
    PROVE  StepOK
<1>1. CASE ScopeBegin
  <2> DEFINE f == Frame("scope", NoName, StopTimer)
             g == Frame("body", NoName, Todo.ops)
  <2>1. stack # <<>> /\ stack' = Rest \o <<f, g>> /\ UNCHANGED <<phase, shared, kept>>
    BY <1>1, DoFacts DEF ScopeBegin
  <2>2. Pushed(stack, Append(Rest, f)) /\ Rest \o <<f, g>> = Append(Append(Rest, f), g)
    BY <2>1, RestFacts, PushFrame
  <2>3. Pushed(stack, Append(Append(Rest, f), g))
    BY <2>1, <2>2, PushFrame
  <2> QED BY <2>1, <2>2, <2>3, PushStep
<1>2. CASE FunctionBegin
  <2> DEFINE f == Frame("function", NoName, <<>>)
             g == Frame("body", NoName, Todo.ops)
  <2>1. PICK when \in BOOLEAN : stack' = Rest \o <<f>> \o (IF when THEN <<g>> ELSE <<>>)
    BY <1>2 DEF FunctionBegin
  <2>2. stack # <<>> /\ UNCHANGED <<phase, shared, kept>>
    BY <1>2, DoFacts DEF FunctionBegin
  <2>3. Pushed(stack, Append(Rest, f)) /\ Rest \o <<f>> = Append(Rest, f)
    BY <2>2, RestFacts, PushFrame
  <2> HIDE DEF f
  <2>4. Pushed(stack, Append(Append(Rest, f), g)) /\ Append(Rest, f) \o <<g>> = Append(Append(Rest, f), g)
    BY <2>2, <2>3, PushFrame
  <2>5. CASE when
    <3>1. stack' = Append(Append(Rest, f), g)
      BY <2>1, <2>3, <2>4, <2>5
    <3> QED BY <3>1, <2>2, <2>4, PushStep
  <2>6. CASE ~when
    <3>1. Append(Rest, f) \o <<>> = Append(Rest, f)
      <4>1. IsStack(Append(Rest, f))
        BY <2>3 DEF Pushed, Prefix
      <4>2. Append(Rest, f) \in Seq(Range(Append(Rest, f)))
        BY <4>1 DEF IsStack
      <4> QED BY ONLY <4>2, ConcatEmptySeq
    <3>2. stack' = Append(Rest, f)
      BY <2>1, <2>3, <2>6, <3>1
    <3> QED BY <3>2, <2>2, <2>3, PushStep
  <2> QED BY <2>5, <2>6
<1>3. CASE FunctionEnd
  <2>1. stack # <<>> /\ Inner.type = "function" /\ stack' = Below /\ UNCHANGED <<phase, shared, kept>>
    BY <1>3, RunningFacts DEF FunctionEnd
  <2> QED BY <2>1, PlainReturn
<1>4. CASE ApiCall
  <2> DEFINE f == Frame("api", NoName, <<>>)
             g == Frame("body", NoName, Todo.ops)
  <2>1. stack # <<>> /\ stack' = Rest \o <<f, g>> /\ UNCHANGED <<phase, shared, kept>>
    BY <1>4, DoFacts DEF ApiCall
  <2>2. Pushed(stack, Append(Rest, f)) /\ Rest \o <<f, g>> = Append(Append(Rest, f), g)
    BY <2>1, RestFacts, PushFrame
  <2>3. Pushed(stack, Append(Append(Rest, f), g))
    BY <2>1, <2>2, PushFrame
  <2> QED BY <2>1, <2>2, <2>3, PushStep
<1>5. CASE ScopeDestructor
  <2> DEFINE s == Append(Below, [Inner EXCEPT !.todo = Tail(@)])
             f == Frame("dtor", NoName, <<>>)
             g == Frame("body", NoName, <<Head(Inner.todo)>>)
  <2>1. stack # <<>> /\ stack' = s \o <<f, g>> /\ UNCHANGED <<phase, shared, kept>>
    BY <1>5, RunningFacts DEF ScopeDestructor
  <2>2. Pushed(stack, s)
    BY <2>1, PassFirst
  <2> HIDE DEF s
  <2>3. Pushed(stack, Append(s, f)) /\ s \o <<f, g>> = Append(Append(s, f), g)
    BY <2>1, <2>2, PushFrame
  <2>4. Pushed(stack, Append(Append(s, f), g))
    BY <2>1, <2>3, PushFrame
  <2> QED BY <2>1, <2>3, <2>4, PushStep
<1>6. CASE ScopeEnd
  <2>1. stack # <<>> /\ Inner.type = "scope" /\ UNCHANGED kept
    BY <1>6, RunningFacts DEF ScopeEnd
  <2>2. CASE Throw(Below)
    BY <2>1, <2>2, ThrowStep DEF Bases
  <2>3. CASE stack' = Below /\ UNCHANGED <<shared, phase>>
    BY <2>1, <2>3, PlainReturn
  <2> QED BY <1>6, <2>2, <2>3 DEF ScopeEnd
<1> QED BY <1>1, <1>2, <1>3, <1>4, <1>5, <1>6, AliasExposedStep DEF CodeStep

-----------------------------------------------------------------------------
(* The life of a context *)

\* A function of the API, or a destructor, is called.
LEMMA BaseFrames ==
    ASSUME NEW f, IsFrame(f), f.type \in Bases
    PROVE  /\ IsStack(<<f>>) /\ BaseOK(<<f>>) /\ \A d : Undone(<<f>>, d) = 0
           /\ \A g : IsFrame(g) /\ g.type = "body" =>
                 /\ IsStack(<<f, g>>) /\ BaseOK(<<f, g>>)
                 /\ \A d : Undone(<<f, g>>, d) = 0
<1>1. IsStack(<<>>) /\ \A d : Undone(<<>>, d) = 0
  BY UndoneEmpty DEF IsStack, Range
<1>2. <<f>> = Append(<<>>, f)
  OBVIOUS
<1>3. IsStack(<<f>>)
  <2>1. IsFrame(f)
    OBVIOUS
  <2>2. IsStack(Append(<<>>, f))
    BY ONLY <1>1, <2>1, StackAppend
  <2> QED BY <1>2, <2>2
<1>4. \A d : Undone(<<f>>, d) = 0
  <2>1. IsFrame(f)
    OBVIOUS
  <2>2. \A d : Undone(Append(<<>>, f), d) = Undone(<<>>, d) + (IF f.type = "share" /\ f.name = d THEN 1 ELSE 0)
    BY ONLY <1>1, <2>1, UndoneAppend
  <2> QED BY <1>1, <1>2, <2>2 DEF Bases
<1>5. ASSUME NEW g, IsFrame(g), g.type = "body"
      PROVE  IsStack(<<f, g>>) /\ BaseOK(<<f, g>>) /\ \A d : Undone(<<f, g>>, d) = 0
  <2>1. <<f, g>> = Append(<<f>>, g)
    OBVIOUS
  <2>2. IsStack(Append(<<f>>, g))
    BY ONLY <1>3, <1>5, StackAppend
  <2>3. \A d : Undone(Append(<<f>>, g), d) = 0
    <3>1. \A d : Undone(Append(<<f>>, g), d) = Undone(<<f>>, d) + (IF g.type = "share" /\ g.name = d THEN 1 ELSE 0)
      BY ONLY <1>3, <1>5, UndoneAppend
    <3> QED BY <3>1, <1>4, <1>5
  <2>4. BaseOK(<<f, g>>)
    BY <1>5 DEF BaseOK, Bases
  <2> QED BY <2>1, <2>2, <2>3, <2>4
<1>6. BaseOK(<<f>>)
  BY DEF BaseOK, Bases
<1> QED BY <1>3, <1>4, <1>5, <1>6

\* The calls in progress are none, or replaced by ones that share nothing.
LEMMA BaseStep ==
    ASSUME ContextInv, shared' \in [Data -> Nat], kept' \in [Data -> Int],
           \A d \in Data : shared'[d] = kept'[d],
           Len(stack) <= 1, stack # <<>> => Inner.type # "notify",
           IsStack(stack'), BaseOK(stack'), phase' \in Idle => stack' = <<>>,
           \A d \in Data : Undone(stack', d) = 0
    PROVE  StepOK
<1>1. StoreIsBalanced'
  BY DEF StoreIsBalanced, Undone
<1>2. CallsAll
  <2> SUFFICES ASSUME NEW i \in DOMAIN stack PROVE stack[i].type # "notify"
    BY DEF CallsAll
  <2>1. Len(stack) \in Nat /\ DOMAIN stack = 1 .. Len(stack) /\ (stack # <<>> <=> Len(stack) > 0)
    BY StackFacts DEF ContextInv
  <2>2. i = Len(stack) /\ stack # <<>>
    BY <2>1
  <2> QED BY <2>2 DEF Inner
<1> QED BY <1>1, <1>2 DEF StepOK, ContextInv, Idle

\* Nothing remains of a context.
LEMMA NoContextStep ==
    ASSUME ContextInv, stack = <<>>, NoContext
    PROVE  StepOK
<1>1. stack' = <<>> /\ shared' = [d \in Data |-> 0] /\ kept' = [d \in Data |-> 0]
  BY DEF NoContext
<1>2. IsStack(stack') /\ BaseOK(stack') /\ \A d \in Data : Undone(stack', d) = 0
  <2>1. IsStack(<<>>) /\ BaseOK(<<>>) /\ \A d : Undone(<<>>, d) = 0
    BY UndoneEmpty DEF IsStack, BaseOK, Range
  <2> QED BY <1>1, <2>1
<1>3. /\ shared' \in [Data -> Nat] /\ kept' \in [Data -> Int]
      /\ \A d \in Data : shared'[d] = kept'[d]
  BY <1>1
<1>4. Len(stack) <= 1
  OBVIOUS
<1> QED BY <1>1, <1>2, <1>3, <1>4, BaseStep

\* No call is in progress: the data shared are the ones kept.
LEMMA EmptyFacts ==
    ASSUME ContextInv, stack = <<>>, phase # "terminated", UNCHANGED <<shared, kept>>
    PROVE  /\ shared' \in [Data -> Nat] /\ kept' \in [Data -> Int]
           /\ \A d \in Data : shared'[d] = kept'[d]
           /\ Len(stack) <= 1
<1>1. \A d \in Data : Undone(stack, d) = 0
  BY UndoneEmpty
<1>2. \A d \in Data : shared[d] = kept[d] + Undone(stack, d) /\ kept[d] \in Int
  BY DEF ContextInv, StoreIsBalanced
<1>3. \A d \in Data : shared[d] = kept[d]
  BY <1>1, <1>2
<1> QED BY <1>3 DEF ContextInv

\* Still no call, in another phase.
LEMMA EmptyStep ==
    ASSUME ContextInv, stack = <<>>, phase # "terminated", UNCHANGED <<shared, kept, stack>>
    PROVE  StepOK
<1>1. IsStack(<<>>) /\ BaseOK(<<>>) /\ \A d : Undone(<<>>, d) = 0
  BY UndoneEmpty DEF IsStack, BaseOK, Range
<1>2. IsStack(stack') /\ BaseOK(stack') /\ \A d \in Data : Undone(stack', d) = 0
  BY <1>1
<1>3. /\ shared' \in [Data -> Nat] /\ kept' \in [Data -> Int]
      /\ \A d \in Data : shared'[d] = kept'[d]
      /\ Len(stack) <= 1
  BY EmptyFacts
<1> QED BY <1>2, <1>3, BaseStep

\* The first call: a base, and what it executes.
LEMMA CallStep ==
    ASSUME ContextInv, stack = <<>>, phase # "terminated", phase' \notin Idle, UNCHANGED <<shared, kept>>,
           NEW type \in Bases, NEW name, NEW todo, NEW ops,
           \/ stack' = <<Frame(type, name, todo)>>
           \/ stack' = <<Frame(type, name, todo), Frame("body", NoName, ops)>>
    PROVE  StepOK
<1> DEFINE f == Frame(type, name, todo)
           g == Frame("body", NoName, ops)
<1>1. IsFrame(f) /\ f.type \in Bases /\ IsFrame(g) /\ g.type = "body"
  BY IsFrameFrame
<1> HIDE DEF f, g
<1>2. /\ IsStack(<<f>>) /\ BaseOK(<<f>>) /\ \A d : Undone(<<f>>, d) = 0
      /\ IsStack(<<f, g>>) /\ BaseOK(<<f, g>>) /\ \A d : Undone(<<f, g>>, d) = 0
  BY <1>1, BaseFrames
<1>3. stack' = <<f>> \/ stack' = <<f, g>>
  BY DEF f, g
<1>4. IsStack(stack') /\ BaseOK(stack') /\ \A d \in Data : Undone(stack', d) = 0
  BY <1>2, <1>3
<1>5. /\ shared' \in [Data -> Nat] /\ kept' \in [Data -> Int]
      /\ \A d \in Data : shared'[d] = kept'[d]
      /\ Len(stack) <= 1
  BY EmptyFacts
<1> QED BY <1>4, <1>5, BaseStep

\* notify_init is the outermost call.
LEMMA InitFacts ==
    ASSUME ContextInv, Running("init"), UNCHANGED <<shared, kept>>
    PROVE  /\ Len(stack) = 1 /\ stack # <<>> /\ phase \notin Idle /\ IsFrame(Inner)
           /\ shared' \in [Data -> Nat] /\ kept' \in [Data -> Int]
           /\ \A d \in Data : shared'[d] = kept'[d]
<1>1. stack # <<>> /\ Inner.type = "init"
  BY DEF Running
<1>2. /\ Len(stack) \in Nat \ {0} /\ DOMAIN stack = 1 .. Len(stack)
      /\ IsStack(Below) /\ Len(Below) = Len(stack) - 1
      /\ Inner = stack[Len(stack)] /\ IsFrame(Inner)
      /\ \A d : Undone(stack, d) = Undone(Below, d) + (IF Inner.type = "share" /\ Inner.name = d THEN 1 ELSE 0)
  BY <1>1, BelowFacts
<1>3. Len(stack) = 1
  BY <1>1, <1>2 DEF ContextInv, BaseOK
<1>4. Below = <<>>
  BY <1>2, <1>3, StackFacts
<1>5. \A d : Undone(stack, d) = 0
  BY <1>1, <1>2, <1>4, UndoneEmpty
<1>6. phase \notin Idle
  BY <1>1 DEF ContextInv, Idle
<1>7. \A d \in Data : shared[d] = kept[d] + Undone(stack, d) /\ kept[d] \in Int
  BY <1>6 DEF ContextInv, StoreIsBalanced, Idle
<1>8. \A d \in Data : shared[d] = kept[d]
  BY <1>5, <1>7
<1> QED BY <1>1, <1>2, <1>3, <1>6, <1>8 DEF ContextInv

LEMMA NotifyInitNextStep ==
    ASSUME ContextInv, NotifyInitNext
    PROVE  StepOK
<1> DEFINE f == [Inner EXCEPT !.todo = Tail(@)]
           g == Frame("body", NoName, Head(Inner.todo).ops)
<1>1. Running("init") /\ stack' = <<f, g>> /\ UNCHANGED <<phase, shared, kept>>
  BY DEF NotifyInitNext
<1>2. /\ Len(stack) = 1 /\ stack # <<>> /\ phase \notin Idle /\ IsFrame(Inner)
      /\ shared' \in [Data -> Nat] /\ kept' \in [Data -> Int]
      /\ \A d \in Data : shared'[d] = kept'[d]
  BY <1>1, InitFacts
<1>3. Inner.type = "init"
  BY <1>1 DEF Running
<1>4. IsFrame(f) /\ f.type \in Bases /\ IsFrame(g) /\ g.type = "body"
  <2>1. IsFrame(g) /\ g.type = "body"
    BY IsFrameFrame
  <2>2. PICK t : t = Tail(Inner.todo)
    OBVIOUS
  <2>3. IsFrame([Inner EXCEPT !.todo = t]) /\ [Inner EXCEPT !.todo = t].type = Inner.type
    BY <1>2, IsFrameTodo
  <2> QED BY <1>3, <2>1, <2>2, <2>3 DEF Bases
<1> HIDE DEF f, g
<1>5. IsStack(<<f, g>>) /\ BaseOK(<<f, g>>) /\ \A d : Undone(<<f, g>>, d) = 0
  BY <1>4, BaseFrames
<1>6. IsStack(stack') /\ BaseOK(stack') /\ \A d \in Data : Undone(stack', d) = 0
  BY <1>1, <1>5
<1> QED BY <1>1, <1>2, <1>3, <1>6, BaseStep

LEMMA NotifyInitEndStep ==
    ASSUME ContextInv, NotifyInitEnd
    PROVE  StepOK
<1>1. Running("init") /\ UNCHANGED <<shared, kept>> /\ phase' \notin Idle
  BY DEF NotifyInitEnd, Idle
<1>2. /\ Len(stack) = 1 /\ stack # <<>> /\ phase \notin Idle
      /\ shared' \in [Data -> Nat] /\ kept' \in [Data -> Int]
      /\ \A d \in Data : shared'[d] = kept'[d]
  BY <1>1, InitFacts
<1>3. Inner.type = "init"
  BY <1>1, RunningFacts
<1> DEFINE f == Frame("api", "init", <<>>)
           g == Frame("body", NoName, <<Op("event", "pdi_start_timer")>>)
<1>4. stack' = <<>> \/ stack' = <<f, g>>
  BY DEF NotifyInitEnd
<1>5. IsFrame(f) /\ f.type \in Bases /\ IsFrame(g) /\ g.type = "body"
  BY IsFrameFrame DEF Bases
<1> HIDE DEF f, g
<1>6. IsStack(<<f, g>>) /\ BaseOK(<<f, g>>) /\ \A d : Undone(<<f, g>>, d) = 0
  BY <1>5, BaseFrames
<1>7. IsStack(<<>>) /\ BaseOK(<<>>) /\ \A d : Undone(<<>>, d) = 0
  BY UndoneEmpty DEF IsStack, BaseOK, Range
<1>8. IsStack(stack') /\ BaseOK(stack') /\ \A d \in Data : Undone(stack', d) = 0
  BY <1>4, <1>6, <1>7
<1> QED BY <1>1, <1>2, <1>3, <1>8, BaseStep

\* PDI_init, up to notify_init.
LEMMA ConstructorStep ==
    ASSUME ContextInv, PDI_init \/ GetIncludes \/ LoadTypes \/ LoadPlugins \/ LoadData
    PROVE  StepOK
<1>1. phase \in Idle \ {"terminated"}
  BY DEF PDI_init, GetIncludes, LoadTypes, LoadPlugins, LoadData, Idle
<1>2. stack = <<>> /\ phase # "terminated"
  BY <1>1 DEF ContextInv, Idle
<1>3. CASE NoContext
  BY <1>2, <1>3, NoContextStep
<1>4. CASE UNCHANGED <<shared, kept, stack>>
  BY <1>2, <1>4, EmptyStep
<1>5. CASE phase' = "init" /\ stack' = <<Frame("init", NoName, OfKind(reg, "init"))>> /\ UNCHANGED <<shared, kept>>
  BY <1>2, <1>5, CallStep DEF Bases, Idle
<1> QED BY <1>3, <1>4, <1>5 DEF PDI_init, GetIncludes, LoadTypes, LoadPlugins, LoadData, contextVars

\* The functions of the API, and the end of the context.
LEMMA ApiStep ==
    ASSUME ContextInv,
           \/ UserCall \/ PDI_finalize \/ ApiReturn \/ DestructorReturn \/ DestroyStore
           \/ \E p \in plugins : DestroyPlugin(p)
    PROVE  StepOK
<1>1. CASE UserCall
  <2>1. stack = <<>> /\ phase = "ready" /\ phase' = "ready" /\ UNCHANGED <<shared, kept>>
    BY <1>1 DEF UserCall
  <2>2. PICK op : stack' = <<Frame("api", NoName, <<>>), Frame("body", NoName, <<op>>)>>
    BY <1>1 DEF UserCall
  <2> QED BY <2>1, <2>2, CallStep DEF Bases, Idle
<1>2. CASE PDI_finalize
  <2>1. stack = <<>> /\ phase = "ready" /\ phase' = "ready" /\ UNCHANGED <<shared, kept>>
    BY <1>2 DEF PDI_finalize
  <2>2. stack' = <<Frame("api", "finalize", <<>>), Frame("body", NoName, <<Op("event", "pdi_stop_timer")>>)>>
    BY <1>2 DEF PDI_finalize
  <2> QED BY <2>1, <2>2, CallStep DEF Bases, Idle
<1>3. CASE ApiReturn
  <2>1. stack # <<>> /\ Inner.type = "api" /\ stack' = Below /\ UNCHANGED <<shared, kept>>
    BY <1>3, RunningFacts DEF ApiReturn
  <2>2. phase' \in {phase, "destroy"}
    BY <1>3 DEF ApiReturn
  <2> QED BY <2>1, <2>2, PlainReturn
<1>4. CASE DestructorReturn
  <2>1. stack # <<>> /\ Inner.type = "dtor" /\ UNCHANGED <<shared, kept>>
    BY <1>4, RunningFacts DEF DestructorReturn
  <2>2. CASE phase' = "terminated" /\ stack' = <<>>
    BY <2>1, <2>2, SameStore, TerminateStep
  <2>3. CASE stack' = Below /\ UNCHANGED phase
    BY <2>1, <2>3, PlainReturn
  <2> QED BY <1>4, <2>2, <2>3 DEF DestructorReturn
<1>5. CASE DestroyStore
  BY <1>5, NoContextStep DEF DestroyStore
<1>6. ASSUME NEW p \in plugins, DestroyPlugin(p)
      PROVE  StepOK
  <2>1. stack = <<>> /\ phase = "destroy" /\ phase' = "destroy" /\ UNCHANGED <<shared, kept>>
    BY <1>6 DEF DestroyPlugin
  <2>2. CASE UNCHANGED stack
    BY <2>1, <2>2, EmptyStep
  <2>3. CASE stack' = <<Frame("dtor", p, <<>>), Frame("body", NoName, finalizers)>>
    BY <2>1, <2>3, CallStep DEF Bases, Idle
  <2> QED BY <1>6, <2>2, <2>3 DEF DestroyPlugin
<1> QED BY <1>1, <1>2, <1>3, <1>4, <1>5, <1>6

LEMMA ContextStep ==
    ASSUME ContextInv, [Next]_vars
    PROVE  ContextInv' /\ [CallsAll]_vars
<1>1. CASE UNCHANGED vars
  <2>1. UNCHANGED <<phase, shared, kept, stack>>
    BY <1>1 DEF vars, contextVars
  <2>2. ContextInv' = ContextInv
    BY <2>1 DEF ContextInv, StoreIsBalanced, Undone, IsStack, BaseOK
  <2> QED BY <1>1, <2>2
<1>2. CASE Next
  <2>1. StepOK
    BY <1>2, ConstructorStep, ApiStep, NotifyNextStep, NotifyEndStep, NotifyInitNextStep,
       NotifyInitEndStep, OperationStep, CodeStepStep DEF Next, Work
  <2> QED BY <2>1 DEF StepOK
<1> QED BY <1>1, <1>2

LEMMA ContextInit == Init => ContextInv
<1> SUFFICES ASSUME Init PROVE ContextInv
  OBVIOUS
<1>1. stack = <<>> /\ shared = [d \in Data |-> 0] /\ kept = [d \in Data |-> 0]
  BY DEF Init
<1>2. IsStack(<<>>) /\ BaseOK(<<>>) /\ \A d : Undone(<<>>, d) = 0
  BY UndoneEmpty DEF IsStack, BaseOK, Range
<1>3. StoreIsBalanced
  <2>1. \A d \in Data : shared[d] = 0 /\ kept[d] = 0 /\ Undone(stack, d) = 0
    BY <1>1, <1>2
  <2> QED BY <2>1 DEF StoreIsBalanced
<1> QED BY <1>1, <1>2, <1>3 DEF ContextInv

\* Every call in progress stands on a base that catches, and the store holds
\* what the calls in progress account for.
THEOREM ContextInvHolds == Spec => []ContextInv
<1>1. Init => ContextInv
  BY ContextInit
<1>2. ContextInv /\ [Next]_vars => ContextInv'
  BY ContextStep
<1> QED BY <1>1, <1>2, PTL DEF Spec

\* Whatever throws, in whatever operations the plugins are configured with and
\* however deep the notifications are nested, share() leaves in the store the
\* data whose share completed and the ones being shared, no more and no less:
\* unless the program ends, as when share() pops what a callback removed and
\* nothing else is there to pop, so a count is never negative.
THEOREM StoreBalanced == Spec => [](StoreIsBalanced /\ shared \in [Data -> Nat])
<1>1. ContextInv => StoreIsBalanced /\ shared \in [Data -> Nat]
  BY DEF ContextInv
<1> QED BY <1>1, ContextInvHolds, PTL

\* A notify_* function is left only once it has called all the callbacks it
\* gathered, unless the program ends: for every configuration and every depth.
THEOREM CallbacksAllCalled == Spec => NotifyCallsAll
<1>1. ContextInv /\ [Next]_vars => [CallsAll]_vars
  BY ContextStep
<1> QED BY <1>1, ContextInvHolds, PTL DEF Spec, NotifyCallsAll, CallsAll

-----------------------------------------------------------------------------
(* The aliases of user_code *)

\* What user_code does to make an alias, and the destructor of one.
Exposures == {Op("share", d) : d \in Data} \cup {Op("exposed", d) : d \in Data}

Releases == {Op("release", d) : d \in Data}

\* What is left of the operations in the scope of a function: an alias that is
\* shared is kept in the scope by the next operation.
InScope(t, good) ==
    /\ t \in Seq(good \cup Exposures)
    /\ \A j \in DOMAIN t :
          /\ t[j].op = "share" /\ t[j].name \in Aliases =>
                j + 1 \in DOMAIN t /\ t[j + 1].op = "exposed" /\ t[j + 1].name = t[j].name
          /\ t[j].op = "exposed" /\ j > 1 => t[j - 1].op = "share" /\ t[j - 1].name = t[j].name

Starts(t, what) == t # <<>> /\ Head(t).op = what

CallbacksOK(t, good) == t \in Seq(Range(t)) /\ \A i \in DOMAIN t : t[i].ops \in Seq(good)

\* All operations, those of the callbacks and functions included, are in `good',
\* and share or release an alias in the scope of a function only, where its
\* destructor does the second.
UsedAsAliases(good) ==
    /\ Aliases \subseteq Data
    /\ \A e \in {"pdi_start_timer", "pdi_stop_timer", "user_code_stop_timer"} : Op("event", e) \in good
    /\ Config \in Seq(good) /\ Callers \subseteq good /\ CallbacksOK(UserTriggers, good) /\ CallbacksOK(Observers, good)
    /\ \A op \in good :
          /\ op.op # "exposed"
          /\ op.op \in {"share", "release"} => op.name \notin Aliases
          /\ IF op.op = "scope"
             THEN InScope(op.ops, good) /\ ~Starts(op.ops, "exposed")
             ELSE op.ops \in Seq(good)

-----------------------------------------------------------------------------
(* The inductive invariant *)

\* A body whose next operation keeps the alias that was shared.
Exposing(f) == f.type = "body" /\ Starts(f.todo, "exposed")

\* The operations of a body or of a scope are a sequence.
Listed(f) == f.type \in {"scope", "body"} => f.todo \in Seq(Range(f.todo))

FrameOK(f, good) ==
    /\ Listed(f)
    /\ f.type \in {"notify", "init"} => CallbacksOK(f.todo, good)
    /\ f.type = "scope" => f.todo \in Seq(good \cup Releases)

\* The operations of a body, by the frame f that it was called from.
BodyOK(f, todo, good) ==
    /\ f.type = "scope" => InScope(todo, good) /\ f.todo # <<>> /\ Last(f.todo).op = "event"
    /\ f.type = "dtor" => todo \in Seq(good \cup Releases)
    /\ f.type \notin {"scope", "dtor"} => todo \in Seq(good)

\* The frame g is directly above f.
AboveOK(f, g, good) ==
    /\ g.type = "body" => BodyOK(f, g.todo, good)
    /\ g.type = "share" /\ g.name \in Aliases => Exposing(f)
    /\ Exposing(f) => g.type = "share" /\ g.name = Head(f.todo).name

\* Only a destructor releases an alias.
ReleaseOK(s, i) ==
    s[i].type = "release" /\ s[i].name \in Aliases =>
        i > 2 /\ s[i - 1].type = "body" /\ s[i - 2].type = "dtor"

\* The releases of an alias that a frame has still to do, the one under way too.
Items(f, a) ==
    {j \in DOMAIN f.todo : f.type \in {"scope", "body"} /\ f.todo[j].op = "release" /\ f.todo[j].name = a}
        \cup {j \in {0} : f.type = "release" /\ f.name = a}

Due(f, a) == Cardinality(Items(f, a))

Places(s, a) == UNION {{<<i, j>> : j \in Items(s[i], a)} : i \in DOMAIN s}

Owed(s, a) == Cardinality(Places(s, a))

StackOK(s, good) ==
    /\ IsStack(s)
    /\ \A i \in DOMAIN s :
          /\ FrameOK(s[i], good) /\ ReleaseOK(s, i)
          /\ i > 1 => AboveOK(s[i - 1], s[i], good)
    /\ \A a \in Aliases : IsFiniteSet(Places(s, a))

\* An alias that was shared is not kept in its scope yet.
Fresh(f, a) == IF Exposing(f) /\ Head(f.todo).name = a THEN 1 ELSE 0

\* A destructor has thrown: the next step ends the program.
Doomed == stack # <<>> /\ Inner.type = "dtor" /\ Inner.failed

Account(s, a) == Owed(s, a) + (IF s = <<>> THEN 0 ELSE Fresh(Last(s), a))

AliasInv(good) ==
    /\ CallbacksOK(reg, good) /\ finalizers \in Seq(good)
    /\ StackOK(stack, good)
    /\ phase # "terminated" /\ ~Doomed => \A a \in Aliases : kept[a] = Account(stack, a)

-----------------------------------------------------------------------------
(* Counting the releases that are due *)

LEMMA PartOfInterval ==
    ASSUME NEW n \in Nat, NEW S \in SUBSET (1 .. n)
    PROVE  IsFiniteSet(S) /\ Cardinality(S) \in Nat
<1>1. IsFiniteSet(1 .. n)
  BY FS_Interval
<1>2. IsFiniteSet(S)
  BY <1>1, FS_Subset
<1> QED BY <1>2, FS_CardinalityType

LEMMA DueIsNat ==
    ASSUME NEW f, Listed(f), NEW a
    PROVE  IsFiniteSet(Items(f, a)) /\ Due(f, a) \in Nat
<1>1. CASE f.type \in {"scope", "body"}
  <2>1. Len(f.todo) \in Nat /\ DOMAIN f.todo = 1 .. Len(f.todo)
    BY <1>1, LenProperties DEF Listed
  <2>2. Items(f, a) \in SUBSET (1 .. Len(f.todo))
    BY <1>1, <2>1 DEF Items
  <2> QED BY <2>1, <2>2, PartOfInterval DEF Due
<1>2. CASE f.type \notin {"scope", "body"}
  <2>1. Items(f, a) \in SUBSET {0}
    BY <1>2 DEF Items
  <2> QED BY <2>1, FS_Singleton, FS_Subset, FS_CardinalityType DEF Due
<1> QED BY <1>1, <1>2

\* Frames of the other types owe nothing.
LEMMA DueNothing ==
    ASSUME NEW f, NEW a, Items(f, a) = {}
    PROVE  Due(f, a) = 0
  BY FS_EmptySet DEF Due

LEMMA DueByType ==
    ASSUME NEW f, f.type \notin {"scope", "body"}, NEW a
    PROVE  Listed(f) /\ Due(f, a) = IF f.type = "release" /\ f.name = a THEN 1 ELSE 0
<1>1. CASE f.type = "release" /\ f.name = a
  <2>1. Items(f, a) = {0}
    BY <1>1 DEF Items
  <2> QED BY <1>1, <2>1, FS_Singleton DEF Due, Listed
<1>2. CASE ~(f.type = "release" /\ f.name = a)
  <2>1. Items(f, a) = {}
    BY <1>2 DEF Items
  <2> QED BY <1>2, <2>1, DueNothing DEF Listed
<1> QED BY <1>1, <1>2

\* One operation less.
IsRelease(op, a) == op.op = "release" /\ op.name = a

LEMMA DueTail ==
    ASSUME NEW f, IsFrame(f), f.type \in {"scope", "body"}, Listed(f), f.todo # <<>>, NEW a
    PROVE  LET g == [f EXCEPT !.todo = Tail(f.todo)]
           IN  /\ Listed(g)
               /\ Due(f, a) = Due(g, a) + (IF IsRelease(Head(f.todo), a) THEN 1 ELSE 0)
<1> DEFINE t == f.todo
           u == Tail(f.todo)
           g == [f EXCEPT !.todo = u]
           A == {j \in DOMAIN t : t[j].op = "release" /\ t[j].name = a}
           B == {j \in DOMAIN u : u[j].op = "release" /\ u[j].name = a}
           C == A \ {1}
           m == [j \in B |-> j + 1]
<1>1. t \in Seq(Range(t)) /\ t # <<>>
  BY DEF Listed
<1>2. /\ Len(t) \in Nat \ {0} /\ DOMAIN t = 1 .. Len(t) /\ Head(t) = t[1]
      /\ u \in Seq(Range(t)) /\ Len(u) = Len(t) - 1 /\ DOMAIN u = 1 .. Len(u)
      /\ \A i \in 1 .. Len(u) : u[i] = t[i + 1]
  BY ONLY <1>1, LenProperties, HeadTailProperties, EmptySeq DEF Range
<1>3. u \in Seq(Range(u))
  BY ONLY <1>2, SeqOfRange
<1>4. g.type = f.type /\ g.todo = u
  BY DEF IsFrame
<1>5. Listed(g)
  BY <1>3, <1>4 DEF Listed
<1>6. Items(f, a) = A /\ Items(g, a) = B
  BY <1>4 DEF Items
<1> HIDE DEF t, u, g
<1>7. IsFiniteSet(A) /\ IsFiniteSet(B) /\ IsFiniteSet(C)
  <2>1. A \in SUBSET (1 .. Len(t)) /\ B \in SUBSET (1 .. Len(u)) /\ C \in SUBSET (1 .. Len(t))
    BY <1>2
  <2>2. Len(t) \in Nat /\ Len(u) \in Nat
    BY <1>2
  <2> HIDE DEF A, B, C
  <2> QED BY <2>1, <2>2, PartOfInterval
<1>8. m \in Bijection(B, C)
  <2>1. \A j \in B : j \in Nat /\ j + 1 \in C
    BY <1>2
  <2>2. m \in [B -> C] /\ \A i, j \in B : m[i] = m[j] => i = j
    BY <2>1
  <2>3. \A c \in C : \E j \in B : m[j] = c
    <3> SUFFICES ASSUME NEW c \in C PROVE c - 1 \in B /\ (c - 1) + 1 = c
      OBVIOUS
    <3>1. c \in 1 .. Len(t) /\ c # 1 /\ t[c].op = "release" /\ t[c].name = a
      BY <1>2
    <3>2. c - 1 \in 1 .. Len(u) /\ (c - 1) + 1 = c
      BY <1>2, <3>1
    <3> QED BY <1>2, <3>1, <3>2
  <2> HIDE DEF m, B, C
  <2> QED BY <2>2, <2>3, Fun_IsBij, Zenon
<1>9. Cardinality(C) = Cardinality(B) /\ Cardinality(B) \in Nat
  BY <1>7, <1>8, FS_Bijection, FS_CardinalityType DEF ExistsBijection
<1>10. 1 \in A <=> IsRelease(Head(t), a)
  BY <1>2 DEF IsRelease
<1>11. Cardinality(C) = IF 1 \in A THEN Cardinality(A) - 1 ELSE Cardinality(A)
  <2> HIDE DEF A
  <2> QED BY <1>7, FS_RemoveElement
<1>12. Cardinality(A) \in Nat
  BY <1>7, FS_CardinalityType
<1>13. Due(f, a) = Due(g, a) + (IF IsRelease(Head(t), a) THEN 1 ELSE 0)
  BY <1>6, <1>9, <1>10, <1>11, <1>12 DEF Due
<1> QED BY <1>5, <1>13 DEF g, u, t

\* A body with one operation.
LEMMA DueOne ==
    ASSUME NEW name, NEW op, NEW a
    PROVE  LET f == Frame("body", name, <<op>>)
           IN  Listed(f) /\ Due(f, a) = IF IsRelease(op, a) THEN 1 ELSE 0
<1> DEFINE f == Frame("body", name, <<op>>)
<1>1. f.type = "body" /\ f.todo = <<op>>
  BY IsFrameFrame
<1>2. <<op>> \in Seq(Range(<<op>>)) /\ DOMAIN <<op>> = {1} /\ <<op>>[1] = op
  <2>1. <<op>> \in Seq({op})
    OBVIOUS
  <2>2. <<op>> \in Seq(Range(<<op>>))
    BY ONLY <2>1, SeqOfRange
  <2> QED BY <2>2
<1>3. Listed(f)
  BY <1>1, <1>2 DEF Listed
<1>4. Items(f, a) = IF IsRelease(op, a) THEN {1} ELSE {}
  BY <1>1, <1>2 DEF Items, IsRelease
<1>5. Due(f, a) = IF IsRelease(op, a) THEN 1 ELSE 0
  BY <1>4, FS_Singleton, FS_EmptySet DEF Due
<1> QED BY <1>3, <1>5

\* The alias is kept before the timer, which is the last in the scope.
LEMMA DueKept ==
    ASSUME NEW f, IsFrame(f), f.type = "scope", Listed(f), f.todo # <<>>, Last(f.todo).op = "event",
           NEW name, NEW a
    PROVE  LET g == [f EXCEPT !.todo = KeepAlias(f.todo, name)]
           IN  /\ Listed(g) /\ g.todo # <<>> /\ Last(g.todo).op = "event"
               /\ Due(g, a) = Due(f, a) + (IF name = a THEN 1 ELSE 0)
               /\ \A S : f.todo \in Seq(S) /\ Op("release", name) \in S /\ Op("event", "user_code_stop_timer") \in S
                            => g.todo \in Seq(S)
<1> DEFINE t == f.todo
           u == KeepAlias(f.todo, name)
           g == [f EXCEPT !.todo = u]
           n == Len(t)
           r == Op("release", name)
           e == Op("event", "user_code_stop_timer")
           A == {j \in DOMAIN t : t[j].op = "release" /\ t[j].name = a}
           B == {j \in DOMAIN u : u[j].op = "release" /\ u[j].name = a}
<1>1. t \in Seq(Range(t)) /\ t # <<>>
  BY DEF Listed
<1>2. n \in Nat \ {0} /\ DOMAIN t = 1 .. n /\ t[n].op = "event"
  <2>1. n \in Nat \ {0} /\ DOMAIN t = 1 .. n
    BY ONLY <1>1, LenProperties, EmptySeq
  <2> QED BY <2>1 DEF Last
<1>3. r.op = "release" /\ r.name = name /\ e.op = "event"
  BY DEF Op
<1>4. g.type = f.type /\ g.todo = u
  BY DEF IsFrame
<1>5. u = SubSeq(t, 1, n - 1) \o <<r>> \o <<e>>
  BY DEF KeepAlias, StopTimer, Front
<1> HIDE DEF t, u, g, r, e
<1>6. ASSUME NEW S, t \in Seq(S), r \in S, e \in S
      PROVE  /\ u \in Seq(S) /\ Len(u) = n + 1
             /\ \A j \in 1 .. n - 1 : u[j] = t[j]
             /\ u[n] = r /\ u[n + 1] = e
  <2> DEFINE x == SubSeq(t, 1, n - 1)
             y == Append(x, r)
  <2>1. x \in Seq(S) /\ Len(x) = n - 1 /\ \A j \in 1 .. n - 1 : x[j] = t[j]
    BY <1>2, <1>6
  <2> HIDE DEF x
  <2>2. x \o <<r>> = y /\ y \in Seq(S) /\ Len(y) = n /\ (\A j \in 1 .. n - 1 : y[j] = x[j]) /\ y[n] = r
    <3>1. /\ y = x \o <<r>> /\ y \in Seq(S) /\ Len(y) = Len(x) + 1
          /\ \A j \in 1 .. Len(x) : y[j] = x[j]
          /\ y[Len(x) + 1] = r
      BY ONLY <1>6, <2>1, AppendIsConcat, AppendProperties
    <3> HIDE DEF y, n
    <3> QED BY <1>2, <2>1, <3>1
  <2> HIDE DEF y
  <2>3. /\ y \o <<e>> = Append(y, e) /\ Append(y, e) \in Seq(S) /\ Len(Append(y, e)) = n + 1
        /\ (\A j \in 1 .. n : Append(y, e)[j] = y[j]) /\ Append(y, e)[n + 1] = e
    <3>1. /\ Append(y, e) = y \o <<e>> /\ Append(y, e) \in Seq(S) /\ Len(Append(y, e)) = Len(y) + 1
          /\ \A j \in 1 .. Len(y) : Append(y, e)[j] = y[j]
          /\ Append(y, e)[Len(y) + 1] = e
      BY ONLY <1>6, <2>2, AppendIsConcat, AppendProperties
    <3> QED BY <1>2, <2>2, <3>1
  <2>4. u = Append(y, e)
    BY <1>5, <2>2, <2>3 DEF x
  <2> HIDE DEF n
  <2>5. n \in 1 .. n /\ \A j \in 1 .. n - 1 : j \in 1 .. n
    BY <1>2
  <2> QED BY <2>1, <2>2, <2>3, <2>4, <2>5
<1> DEFINE R == Range(t) \cup {r, e}
<1>7. t \in Seq(R) /\ r \in R /\ e \in R
  BY <1>1, SeqMonotonic
<1> HIDE DEF R
<1>8. /\ u \in Seq(R) /\ Len(u) = n + 1
      /\ \A j \in 1 .. n - 1 : u[j] = t[j]
      /\ u[n] = r /\ u[n + 1] = e
  BY <1>6, <1>7
<1>9. DOMAIN u = 1 .. n + 1 /\ u # <<>> /\ Last(u) = e /\ u \in Seq(Range(u))
  BY <1>2, <1>8, LenProperties, SeqOfRange DEF Last
<1>10. Listed(g)
  BY <1>4, <1>9 DEF Listed
<1>11. Items(f, a) = A /\ Items(g, a) = B
  BY <1>4 DEF Items, t
<1> HIDE DEF n
<1>12. IsFiniteSet(A) /\ n \notin A /\ Cardinality(A) \in Nat
  <2>1. A \in SUBSET (1 .. n) /\ n \notin A
    BY <1>2
  <2> HIDE DEF A
  <2> QED BY <1>2, <2>1, PartOfInterval
<1>13. B = IF name = a THEN A \cup {n} ELSE A
  <2>1. \A j \in 1 .. n + 1 : j \in 1 .. n - 1 \/ j = n \/ j = n + 1
    BY <1>2
  <2>2. \A j \in 1 .. n - 1 : j # n /\ j # n + 1
    BY <1>2
  <2> QED BY <1>2, <1>3, <1>8, <1>9, <2>1, <2>2
<1>14. Cardinality(B) = Cardinality(A) + (IF name = a THEN 1 ELSE 0)
  <2> HIDE DEF A, B
  <2>1. Cardinality(A \cup {n}) = Cardinality(A) + 1
    BY <1>12, FS_AddElement
  <2> QED BY <1>12, <1>13, <2>1
<1>15. Due(g, a) = Due(f, a) + (IF name = a THEN 1 ELSE 0)
  BY <1>11, <1>14 DEF Due
<1>16. \A S : t \in Seq(S) /\ r \in S /\ e \in S => u \in Seq(S)
  BY <1>6
<1> QED BY <1>3, <1>4, <1>9, <1>10, <1>15, <1>16 DEF g, u, t, r, e

-----------------------------------------------------------------------------
(* The releases due in a stack *)

LEMMA PlacesEmpty ==
    ASSUME NEW a
    PROVE  IsFiniteSet(Places(<<>>, a)) /\ Owed(<<>>, a) = 0
<1>1. Places(<<>>, a) = {}
  BY DEF Places
<1> QED BY <1>1, FS_EmptySet DEF Owed

LEMMA PlaceIn ==
    ASSUME NEW s, NEW a
    PROVE  \A p : p \in Places(s, a) <=> \E i \in DOMAIN s : \E j \in Items(s[i], a) : p = <<i, j>>
  BY DEF Places

LEMMA PlacesSame ==
    ASSUME NEW s, NEW t, DOMAIN t \subseteq DOMAIN s, NEW a,
           \A i \in DOMAIN t : Items(t[i], a) = Items(s[i], a),
           \A i \in DOMAIN s \ DOMAIN t : Items(s[i], a) = {}
    PROVE  Places(t, a) = Places(s, a)
<1>1. \A p : p \in Places(t, a) => p \in Places(s, a)
  <2> SUFFICES ASSUME NEW p, p \in Places(t, a) PROVE p \in Places(s, a)
    OBVIOUS
  <2>1. PICK i \in DOMAIN t : \E j \in Items(t[i], a) : p = <<i, j>>
    BY PlaceIn
  <2> QED BY <2>1, PlaceIn
<1>2. \A p : p \in Places(s, a) => p \in Places(t, a)
  <2> SUFFICES ASSUME NEW p, p \in Places(s, a) PROVE p \in Places(t, a)
    OBVIOUS
  <2>1. PICK i \in DOMAIN s : \E j \in Items(s[i], a) : p = <<i, j>>
    BY PlaceIn
  <2>2. i \in DOMAIN t
    BY <2>1
  <2> QED BY <2>1, <2>2, PlaceIn
<1> QED BY <1>1, <1>2

LEMMA OwedAppend ==
    ASSUME NEW s, IsStack(s), NEW f, IsFrame(f), Listed(f), NEW a, IsFiniteSet(Places(s, a))
    PROVE  /\ IsFiniteSet(Places(Append(s, f), a))
           /\ Owed(Append(s, f), a) = Owed(s, a) + Due(f, a)
           /\ Owed(s, a) \in Nat /\ Due(f, a) \in Nat
<1> DEFINE t == Append(s, f)
           n == Len(s) + 1
           P == Places(s, a)
           D == Items(f, a)
           Q == {<<n, j>> : j \in D}
           m == [j \in D |-> <<n, j>>]
<1>1. /\ IsStack(t) /\ Len(t) = n /\ t[n] = f
      /\ \A i \in DOMAIN s : t[i] = s[i]
  BY StackAppend
<1>2. Len(s) \in Nat /\ DOMAIN s = 1 .. Len(s) /\ DOMAIN t = 1 .. Len(t)
  BY <1>1, StackFacts
<1> HIDE DEF t
<1>3. DOMAIN t = DOMAIN s \cup {n} /\ n \notin DOMAIN s
  BY <1>1, <1>2
<1> HIDE DEF n
<1>4. Places(t, a) = P \cup Q
  <2>1. \A p : p \in Places(t, a) <=> p \in P \/ p \in Q
    <3> TAKE p
    <3>1. p \in Places(t, a) <=> \E i \in DOMAIN t : \E j \in Items(t[i], a) : p = <<i, j>>
      BY PlaceIn
    <3>2. p \in P <=> \E i \in DOMAIN s : \E j \in Items(s[i], a) : p = <<i, j>>
      BY PlaceIn
    <3>3. p \in Q <=> \E j \in Items(t[n], a) : p = <<n, j>>
      BY <1>1
    <3>4. (\E i \in DOMAIN t : \E j \in Items(t[i], a) : p = <<i, j>>)
              <=> \/ \E i \in DOMAIN s : \E j \in Items(t[i], a) : p = <<i, j>>
                  \/ \E j \in Items(t[n], a) : p = <<n, j>>
      BY <1>3, Zenon
    <3>5. (\E i \in DOMAIN s : \E j \in Items(t[i], a) : p = <<i, j>>)
              <=> \E i \in DOMAIN s : \E j \in Items(s[i], a) : p = <<i, j>>
      BY <1>1
    <3> HIDE DEF P, Q
    <3> QED BY <3>1, <3>2, <3>3, <3>4, <3>5
  <2> HIDE DEF P, Q
  <2> QED BY <2>1
<1>5. P \cap Q = {}
  <2> SUFFICES ASSUME NEW p, p \in P, p \in Q PROVE FALSE
    BY Zenon
  <2>1. PICK i \in DOMAIN s : \E j \in Items(s[i], a) : p = <<i, j>>
    BY PlaceIn
  <2> QED BY <2>1, <1>3
<1>6. IsFiniteSet(D) /\ Due(f, a) = Cardinality(D) /\ Due(f, a) \in Nat
  BY DueIsNat DEF Due
<1>7. m \in Bijection(D, Q)
  <2>1. m \in [D -> Q] /\ (\A i, j \in D : m[i] = m[j] => i = j) /\ \A q \in Q : \E j \in D : m[j] = q
    OBVIOUS
  <2> HIDE DEF m, D, Q
  <2> QED BY <2>1, Fun_IsBij, Zenon
<1>8. IsFiniteSet(Q) /\ Cardinality(Q) = Due(f, a)
  <2> HIDE DEF D, Q, m
  <2> QED BY <1>6, <1>7, FS_Bijection DEF ExistsBijection
<1>9. IsFiniteSet(P) /\ Cardinality(P) \in Nat /\ Owed(s, a) = Cardinality(P)
  BY FS_CardinalityType DEF Owed
<1>10. IsFiniteSet(P \cup Q) /\ Cardinality(P \cup Q) = Cardinality(P) + Cardinality(Q)
  <2> HIDE DEF P, Q
  <2>1. /\ IsFiniteSet(P \cup Q)
        /\ Cardinality(P \cup Q) = Cardinality(P) + Cardinality(Q) - Cardinality(P \cap Q)
    BY <1>8, <1>9, FS_Union
  <2>2. Cardinality(P \cap Q) = 0
    BY <1>5, FS_EmptySet
  <2> QED BY <1>6, <1>8, <1>9, <2>1, <2>2
<1>11. Owed(t, a) = Owed(s, a) + Due(f, a) /\ IsFiniteSet(Places(t, a))
  BY <1>4, <1>8, <1>9, <1>10 DEF Owed
<1> QED BY <1>6, <1>9, <1>11 DEF t

-----------------------------------------------------------------------------
(* Frames are pushed and popped *)

\* The frame g may be called by the innermost of s.
MayCall(s, g, good) ==
    /\ IsFrame(g) /\ FrameOK(g, good)
    /\ s # <<>> => AboveOK(s[Len(s)], g, good)
    /\ g.type = "release" /\ g.name \in Aliases =>
          Len(s) > 1 /\ s[Len(s)].type = "body" /\ s[Len(s) - 1].type = "dtor"

LEMMA PushOK ==
    ASSUME NEW good, NEW s, StackOK(s, good), NEW g, MayCall(s, g, good)
    PROVE  /\ StackOK(Append(s, g), good) /\ Append(s, g) # <<>>
           /\ Len(Append(s, g)) = Len(s) + 1
           /\ Append(s, g)[Len(s) + 1] = g
           /\ \A i \in DOMAIN s : Append(s, g)[i] = s[i]
           /\ \A a \in Aliases : /\ Owed(Append(s, g), a) = Owed(s, a) + Due(g, a)
                                 /\ Owed(s, a) \in Nat /\ Due(g, a) \in Nat
<1> DEFINE t == Append(s, g)
           n == Len(s) + 1
<1>1. IsStack(s) /\ IsFrame(g) /\ Listed(g)
  BY DEF StackOK, MayCall, FrameOK
<1>2. /\ IsStack(t) /\ Len(t) = n /\ t[n] = g /\ t # <<>>
      /\ \A i \in DOMAIN s : t[i] = s[i]
  BY <1>1, StackAppend
<1>3. Len(s) \in Nat /\ DOMAIN s = 1 .. Len(s) /\ DOMAIN t = 1 .. Len(t) /\ (s # <<>> <=> Len(s) > 0)
  BY <1>1, <1>2, StackFacts
<1>4. \A a \in Aliases : /\ IsFiniteSet(Places(t, a))
                         /\ Owed(t, a) = Owed(s, a) + Due(g, a)
                         /\ Owed(s, a) \in Nat /\ Due(g, a) \in Nat
  BY <1>1, OwedAppend DEF StackOK
<1> HIDE DEF t
<1>5. ASSUME NEW i \in DOMAIN t
      PROVE  /\ FrameOK(t[i], good) /\ ReleaseOK(t, i)
             /\ i > 1 => AboveOK(t[i - 1], t[i], good)
  <2>1. CASE i = n
    <3>1. t[i] = g /\ FrameOK(g, good)
      BY <1>2, <2>1 DEF MayCall
    <3>2. i > 1 => s # <<>> /\ i - 1 = Len(s) /\ t[i - 1] = s[Len(s)]
      BY <1>2, <1>3, <2>1
    <3>3. i > 1 => AboveOK(t[i - 1], t[i], good)
      BY <3>1, <3>2 DEF MayCall
    <3>4. Len(s) > 1 => i > 2 /\ t[i - 1] = s[Len(s)] /\ t[i - 2] = s[Len(s) - 1]
      <4>1. Len(s) > 1 => i > 2 /\ i - 1 = Len(s) /\ i - 2 = Len(s) - 1 /\ i - 1 \in DOMAIN s /\ i - 2 \in DOMAIN s
        BY <1>3, <2>1
      <4> QED BY <1>2, <4>1
    <3>5. ReleaseOK(t, i)
      BY <3>1, <3>4 DEF ReleaseOK, MayCall
    <3> QED BY <3>1, <3>3, <3>5
  <2>2. CASE i # n
    <3>1. i \in DOMAIN s /\ t[i] = s[i]
      BY <1>2, <1>3, <2>2
    <3>2. /\ i > 1 => t[i - 1] = s[i - 1]
          /\ i > 2 => t[i - 2] = s[i - 2]
      <4>1. (i > 1 => i - 1 \in DOMAIN s) /\ (i > 2 => i - 2 \in DOMAIN s)
        BY <1>3, <3>1
      <4> QED BY <1>2, <4>1
    <3>3. i > 2 => i > 1
      BY <1>3, <3>1
    <3>4. FrameOK(s[i], good) /\ ReleaseOK(s, i) /\ (i > 1 => AboveOK(s[i - 1], s[i], good))
      BY <3>1 DEF StackOK
    <3> QED BY <3>1, <3>2, <3>3, <3>4 DEF ReleaseOK
  <2> QED BY <2>1, <2>2
<1>6. StackOK(t, good)
  BY <1>2, <1>4, <1>5 DEF StackOK
<1> QED BY <1>2, <1>4, <1>6 DEF t

LEMMA PrefixOK ==
    ASSUME NEW good, NEW s, StackOK(s, good), NEW n \in 0 .. Len(s)
    PROVE  /\ StackOK(SubSeq(s, 1, n), good) /\ Len(SubSeq(s, 1, n)) = n
           /\ \A i \in 1 .. n : SubSeq(s, 1, n)[i] = s[i]
           /\ DOMAIN SubSeq(s, 1, n) = 1 .. n
<1> DEFINE t == SubSeq(s, 1, n)
<1>1. IsStack(s)
  BY DEF StackOK
<1>2. IsStack(t) /\ Len(t) = n /\ \A i \in 1 .. n : t[i] = s[i]
  BY <1>1, StackFront
<1>3. Len(s) \in Nat /\ DOMAIN s = 1 .. Len(s) /\ DOMAIN t = 1 .. n
  BY <1>1, <1>2, StackFacts
<1> HIDE DEF t
<1>4. ASSUME NEW i \in DOMAIN t
      PROVE  /\ FrameOK(t[i], good) /\ ReleaseOK(t, i)
             /\ i > 1 => AboveOK(t[i - 1], t[i], good)
  <2>1. i \in DOMAIN s /\ t[i] = s[i] /\ (i > 2 => i > 1)
    BY <1>2, <1>3
  <2>2. /\ i > 1 => t[i - 1] = s[i - 1]
        /\ i > 2 => t[i - 2] = s[i - 2]
    <3>1. (i > 1 => i - 1 \in 1 .. n) /\ (i > 2 => i - 2 \in 1 .. n)
      BY <1>3
    <3> QED BY <1>2, <3>1
  <2>3. FrameOK(s[i], good) /\ ReleaseOK(s, i) /\ (i > 1 => AboveOK(s[i - 1], s[i], good))
    BY <2>1 DEF StackOK
  <2> QED BY <2>1, <2>2, <2>3 DEF ReleaseOK
<1>5. ASSUME NEW a \in Aliases
      PROVE  IsFiniteSet(Places(t, a))
  <2>1. \A p : p \in Places(t, a) => p \in Places(s, a)
    <3> SUFFICES ASSUME NEW p, p \in Places(t, a) PROVE p \in Places(s, a)
      OBVIOUS
    <3>1. PICK i \in DOMAIN t : \E j \in Items(t[i], a) : p = <<i, j>>
      BY PlaceIn
    <3>2. i \in DOMAIN s /\ t[i] = s[i]
      BY <1>2, <1>3
    <3> QED BY <3>1, <3>2, PlaceIn
  <2>2. Places(t, a) \in SUBSET Places(s, a)
    BY <2>1
  <2>3. IsFiniteSet(Places(s, a))
    BY DEF StackOK
  <2> QED BY <2>2, <2>3, FS_Subset
<1>6. StackOK(t, good)
  BY <1>2, <1>4, <1>5 DEF StackOK
<1> QED BY <1>2, <1>3, <1>6 DEF t

LEMMA SameStack ==
    ASSUME NEW s, IsStack(s), NEW t, IsStack(t), Len(s) = Len(t), \A i \in 1 .. Len(s) : s[i] = t[i]
    PROVE  s = t
<1>1. s \in Seq(Range(s)) /\ t \in Seq(Range(t))
  BY StackFacts
<1>2. s \in Seq(Range(s) \cup Range(t)) /\ t \in Seq(Range(s) \cup Range(t))
  BY <1>1, SeqMonotonic
<1> QED BY <1>2, SeqEqual

LEMMA SplitTop ==
    ASSUME NEW good, NEW s, StackOK(s, good), s # <<>>
    PROVE  LET b == SubSeq(s, 1, Len(s) - 1)
               f == s[Len(s)]
           IN  /\ StackOK(b, good) /\ MayCall(b, f, good) /\ s = Append(b, f) /\ Len(s) = Len(b) + 1
               /\ \A i \in DOMAIN b : b[i] = s[i]
               /\ \A a \in Aliases : Owed(s, a) = Owed(b, a) + Due(f, a) /\ Owed(b, a) \in Nat /\ Due(f, a) \in Nat
<1> DEFINE n == Len(s) - 1
           b == SubSeq(s, 1, n)
           f == s[Len(s)]
           t == Append(b, f)
<1>1. Len(s) \in Nat \ {0} /\ DOMAIN s = 1 .. Len(s) /\ IsStack(s)
  BY StackFacts DEF StackOK
<1>2. n \in 0 .. Len(s) /\ n \in Nat
  BY <1>1
<1> HIDE DEF n
<1>3. StackOK(b, good) /\ Len(b) = n /\ DOMAIN b = 1 .. n /\ \A i \in 1 .. n : b[i] = s[i]
  BY <1>2, PrefixOK
<1> HIDE DEF b
<1>4. /\ FrameOK(f, good) /\ IsFrame(f) /\ ReleaseOK(s, Len(s))
      /\ Len(s) > 1 => AboveOK(s[n], f, good)
  <2>1. Len(s) \in DOMAIN s
    BY <1>1
  <2> QED BY <1>1, <2>1, StackFacts DEF StackOK, n
<1>5. b # <<>> => Len(s) > 1 /\ b[Len(b)] = s[n]
  <2>1. b # <<>> => Len(b) > 0
    BY <1>3, StackFacts DEF StackOK
  <2> QED BY <1>1, <1>2, <1>3, <2>1 DEF n
<1>6. Len(s) > 2 => Len(b) > 1 /\ b[Len(b)] = s[Len(s) - 1] /\ b[Len(b) - 1] = s[Len(s) - 2]
  <2>1. Len(s) > 2 => n > 1 /\ n \in 1 .. n /\ n - 1 \in 1 .. n /\ n - 1 = Len(s) - 2 /\ n = Len(s) - 1
    BY <1>1 DEF n
  <2> QED BY <1>3, <2>1
<1>7. MayCall(b, f, good)
  BY <1>4, <1>5, <1>6 DEF MayCall, ReleaseOK
<1>8. /\ StackOK(t, good) /\ Len(t) = Len(b) + 1 /\ t[Len(b) + 1] = f
      /\ \A i \in DOMAIN b : t[i] = b[i]
      /\ \A a \in Aliases : Owed(t, a) = Owed(b, a) + Due(f, a) /\ Owed(b, a) \in Nat /\ Due(f, a) \in Nat
  <2> HIDE DEF f
  <2> QED BY ONLY <1>3, <1>7, PushOK
<1> HIDE DEF t
<1>9. Len(b) + 1 = Len(s)
  BY <1>1, <1>3 DEF n
<1>10. s = t
  <2>1. ASSUME NEW i \in 1 .. Len(s) PROVE s[i] = t[i]
    <3>1. Len(s) \in Nat \ {0} /\ n = Len(s) - 1
      BY <1>1 DEF n
    <3>2. i \in 1 .. n \/ i = Len(s)
      BY ONLY i \in 1 .. Len(s), <3>1
    <3>3. CASE i \in 1 .. n
      BY <1>3, <1>8, <3>3
    <3>4. CASE i = Len(s)
      BY <1>8, <1>9, <3>4
    <3> QED BY <3>2, <3>3, <3>4
  <2>2. IsStack(t) /\ Len(s) = Len(t)
    BY <1>8, <1>9 DEF StackOK
  <2> HIDE DEF f
  <2> QED BY <1>1, <2>1, <2>2, SameStack
<1> QED BY <1>3, <1>7, <1>8, <1>9, <1>10 DEF t, b, n

LEMMA TopOK ==
    ASSUME NEW good, ContextInv, StackOK(stack, good), stack # <<>>
    PROVE  /\ StackOK(Below, good) /\ MayCall(Below, Inner, good)
           /\ \A a \in Aliases : /\ Owed(stack, a) = Owed(Below, a) + Due(Inner, a)
                                 /\ Owed(Below, a) \in Nat /\ Due(Inner, a) \in Nat
<1>1. Below = SubSeq(stack, 1, Len(stack) - 1) /\ Inner = stack[Len(stack)]
  BY DEF Below, Front, Inner
<1> QED BY <1>1, SplitTop

LEMMA AccountTop ==
    ASSUME NEW good, ContextInv, AliasInv(good), stack # <<>>, ~Doomed
    PROVE  \A a \in Aliases : kept[a] = Owed(stack, a) + Fresh(Inner, a)
<1>1. phase # "terminated"
  BY DEF ContextInv
<1>2. Last(stack) = Inner
  BY DEF Last, Inner
<1> QED BY <1>1, <1>2 DEF AliasInv, Account

LEMMA FreshIsNat ==
    ASSUME NEW f, NEW a
    PROVE  Fresh(f, a) \in {0, 1} /\ (~Exposing(f) => Fresh(f, a) = 0)
  BY DEF Fresh

\* A call returns.
LEMMA ReturnAccount ==
    ASSUME NEW good, ContextInv, AliasInv(good), stack # <<>>, ~Doomed, stack' = Below,
           UNCHANGED <<reg, finalizers>>,
           \A a \in Aliases : kept'[a] = kept[a] - Due(Inner, a) - Fresh(Inner, a)
                                + (IF Below = <<>> THEN 0 ELSE Fresh(Below[Len(Below)], a))
    PROVE  AliasInv(good)'
<1>1. /\ StackOK(Below, good)
      /\ \A a \in Aliases : /\ Owed(stack, a) = Owed(Below, a) + Due(Inner, a)
                            /\ Owed(Below, a) \in Nat /\ Due(Inner, a) \in Nat
  BY TopOK DEF AliasInv
<1>2. StackOK(stack', good)
  BY <1>1
<1>3. ASSUME NEW a \in Aliases
      PROVE  kept'[a] = Account(stack', a)
  <2> DEFINE x == IF Below = <<>> THEN 0 ELSE Fresh(Below[Len(Below)], a)
             y == Fresh(Inner, a)
  <2>1. Account(stack', a) = Owed(Below, a) + x
    BY DEF Account, Last
  <2>2. kept[a] = Owed(stack, a) + y
    BY AccountTop
  <2>3. x \in Nat /\ y \in Nat
    BY FreshIsNat
  <2>4. kept'[a] = kept[a] - Due(Inner, a) - y + x
    OBVIOUS
  <2> HIDE DEF x, y
  <2> QED BY <1>1, <2>1, <2>2, <2>3, <2>4
<1>4. CallbacksOK(reg', good) /\ finalizers' \in Seq(good)
  BY DEF AliasInv
<1> QED BY <1>2, <1>3, <1>4 DEF AliasInv

\* Only a share uncovers an alias to be kept.
LEMMA PlainReturnAccount ==
    ASSUME NEW good, ContextInv, AliasInv(good), stack # <<>>, ~Doomed, stack' = Below,
           Inner.type \notin {"share", "release"},
           Inner.type \in {"scope", "body"} => Inner.todo = <<>>,
           UNCHANGED <<reg, finalizers, kept>>
    PROVE  AliasInv(good)'
<1>1. MayCall(Below, Inner, good) /\ StackOK(Below, good)
  BY TopOK DEF AliasInv
<1>2. ~Exposing(Inner)
  BY DEF Exposing, Starts
<1>3. Below # <<>> => ~Exposing(Below[Len(Below)])
  BY <1>1 DEF MayCall, AboveOK
<1>4. ASSUME NEW a \in Aliases
      PROVE  kept'[a] = kept[a] - Due(Inner, a) - Fresh(Inner, a)
                          + (IF Below = <<>> THEN 0 ELSE Fresh(Below[Len(Below)], a))
  <2>1. Due(Inner, a) = 0
    <3>1. CASE Inner.type \in {"scope", "body"}
      <4>1. Items(Inner, a) = {}
        BY <3>1 DEF Items
      <4> QED BY <4>1, DueNothing
    <3>2. CASE Inner.type \notin {"scope", "body"}
      BY <3>2, DueByType
    <3> QED BY <3>1, <3>2
  <2>2. Fresh(Inner, a) = 0 /\ (Below # <<>> => Fresh(Below[Len(Below)], a) = 0)
    BY <1>2, <1>3, FreshIsNat
  <2>3. kept[a] \in Int
    <3>1. kept[a] = Owed(stack, a) + Fresh(Inner, a)
      BY AccountTop
    <3>2. Owed(stack, a) \in Nat
      <4>1. /\ Owed(stack, a) = Owed(Below, a) + Due(Inner, a)
            /\ Owed(Below, a) \in Nat /\ Due(Inner, a) \in Nat
        BY TopOK DEF AliasInv
      <4> QED BY <4>1
    <3> QED BY <2>2, <3>1, <3>2
  <2> QED BY <2>1, <2>2, <2>3
<1> QED BY <1>4, ReturnAccount

\* The calls in progress change, and what they owe does not.
LEMMA SameAccount ==
    ASSUME NEW good, ContextInv, AliasInv(good), stack # <<>>, ~Doomed,
           StackOK(stack', good), stack' # <<>>,
           \A a \in Aliases : Owed(stack', a) + Fresh(stack'[Len(stack')], a) = Owed(stack, a) + Fresh(Inner, a),
           CallbacksOK(reg', good), finalizers' \in Seq(good), UNCHANGED kept
    PROVE  AliasInv(good)'
<1>1. ASSUME NEW a \in Aliases
      PROVE  kept'[a] = Account(stack', a)
  <2>1. kept[a] = Owed(stack, a) + Fresh(Inner, a)
    BY AccountTop
  <2> QED BY <2>1 DEF Account, Last
<1> QED BY <1>1 DEF AliasInv

-----------------------------------------------------------------------------
(* An exception *)

LEMMA ThrowTop ==
    ASSUME NEW s, IsStack(s), s # <<>>, s[1].type \in Bases, Unwinds(s)
    PROVE  \E k, g :
              /\ k \in DOMAIN s /\ s[k].type \in CatcherTypes
              /\ \A i \in DOMAIN s : i > k => s[i].type \notin CatcherTypes
              /\ IsFrame(g) /\ g.type = s[k].type /\ g.name = s[k].name /\ g.failed = TRUE
              /\ g.todo = IF s[k].type \in {"notify", "scope"} THEN s[k].todo ELSE <<>>
              /\ stack' = Append(SubSeq(s, 1, k - 1), g)
<1> DEFINE k == Max(Catchers(s))
           low == SubSeq(s, 1, k)
           front == SubSeq(s, 1, k - 1)
           x == IF s[k].type \in {"notify", "scope"} THEN s[k].todo ELSE <<>>
           g == [type |-> s[k].type, name |-> s[k].name, todo |-> x, failed |-> TRUE]
<1>1. /\ k \in DOMAIN s /\ s[k].type \in CatcherTypes
      /\ \A i \in DOMAIN s : i > k => s[i].type \notin CatcherTypes
  BY LastCatcher
<1>2. Len(s) \in Nat /\ DOMAIN s = 1 .. Len(s) /\ \A i \in DOMAIN s : IsFrame(s[i])
  BY StackFacts
<1>3. stack' = [low EXCEPT ![k].failed = TRUE,
                           ![k].todo = IF s[k].type \in {"notify", "scope"} THEN @ ELSE <<>>]
  BY DEF Unwinds, Unwound
<1> HIDE DEF k
<1>4. k \in 0 .. Len(s) /\ k - 1 \in 0 .. Len(s) /\ k \in Nat /\ k > 0
  BY <1>1, <1>2
<1>5. /\ IsStack(low) /\ Len(low) = k /\ \A i \in 1 .. k : low[i] = s[i]
      /\ IsStack(front) /\ Len(front) = k - 1 /\ \A i \in 1 .. (k - 1) : front[i] = s[i]
  BY <1>4, StackFront
<1>6. /\ k \in DOMAIN low /\ DOMAIN low = 1 .. k /\ low[k] = s[k] /\ IsFrame(s[k])
      /\ DOMAIN front = 1 .. (k - 1)
  BY <1>1, <1>2, <1>4, <1>5, StackFacts
<1> HIDE DEF low, front
<1>7. IsFrame(g) /\ g.type = s[k].type /\ g.name = s[k].name /\ g.failed = TRUE /\ g.todo = x
  BY DEF IsFrame
<1>8. [[s[k] EXCEPT !.failed = TRUE] EXCEPT !.todo = x] = g
  <2> DEFINE f == s[k]
             h == [f EXCEPT !.failed = TRUE]
             e == [h EXCEPT !.todo = x]
  <2> HIDE DEF x, f
  <2>1. IsFrame(h) /\ h.type = f.type /\ h.name = f.name /\ h.failed = TRUE
    <3>1. IsFrame(f)
      BY <1>6 DEF f
    <3>2. IsFrame(h) /\ h.type = f.type /\ h.name = f.name
      BY <3>1, IsFrameFailed
    <3>3. f = [type |-> f.type, name |-> f.name, todo |-> f.todo, failed |-> f.failed]
      BY <3>1 DEF IsFrame
    <3>4. h.failed = TRUE
      BY ONLY <3>3
    <3> QED BY <3>2, <3>4
  <2> HIDE DEF h
  <2>2. IsFrame(e) /\ e.type = f.type /\ e.name = f.name /\ e.failed = TRUE /\ e.todo = x
    BY <2>1, IsFrameTodo DEF IsFrame
  <2> HIDE DEF e
  <2>3. e = g
    <3>1. e = [type |-> e.type, name |-> e.name, todo |-> e.todo, failed |-> e.failed]
      BY <2>2 DEF IsFrame
    <3> QED BY <2>2, <3>1 DEF f
  <2> QED BY <2>3 DEF e, h, f
<1>9. stack' = [low EXCEPT ![k] = g]
  <2>1. stack' = [low EXCEPT ![k] = [[s[k] EXCEPT !.failed = TRUE] EXCEPT !.todo = x]]
    BY <1>3, <1>5, <1>6 DEF IsFrame
  <2> QED BY <1>8, <2>1
<1> HIDE DEF g
<1>10. /\ IsStack(stack') /\ Len(stack') = k
       /\ stack'[k] = g /\ \A i \in 1 .. k : i # k => stack'[i] = low[i]
  BY <1>5, <1>6, <1>7, <1>9, StackExcept
<1>11. stack' = Append(front, g)
  <2> DEFINE t == Append(front, g)
  <2>1. /\ IsStack(t) /\ Len(t) = Len(front) + 1
        /\ \A i \in DOMAIN front : t[i] = front[i]
        /\ t[Len(front) + 1] = g
    BY ONLY <1>5, <1>7, StackAppend
  <2> HIDE DEF t
  <2>2. Len(t) = k /\ t[k] = g
    BY <1>4, <1>5, <2>1
  <2>3. \A i \in 1 .. k : stack'[i] = t[i]
    <3> SUFFICES ASSUME NEW i \in 1 .. k, i # k PROVE stack'[i] = t[i]
      BY <1>10, <2>2
    <3>1. i \in 1 .. (k - 1)
      BY <1>4
    <3> QED BY <1>5, <1>6, <1>10, <2>1, <3>1
  <2>4. stack' \in Seq(Range(stack')) /\ t \in Seq(Range(t))
    BY <1>10, <2>1, StackFacts
  <2>5. stack' \in Seq(Range(stack') \cup Range(t)) /\ t \in Seq(Range(stack') \cup Range(t))
    BY <2>4, SeqMonotonic
  <2>6. stack' = t
    <3>1. PICK u : u = stack'
      OBVIOUS
    <3>2. /\ u \in Seq(Range(u) \cup Range(t)) /\ t \in Seq(Range(u) \cup Range(t))
          /\ Len(u) = Len(t) /\ \A i \in 1 .. Len(u) : u[i] = t[i]
      BY <1>10, <2>2, <2>3, <2>5, <3>1
    <3>3. u = t
      BY ONLY <3>2, SeqEqual
    <3> QED BY <3>1, <3>3
  <2> QED BY <2>6 DEF t
<1> QED BY <1>1, <1>7, <1>11 DEF front

\* Only the destructors release an alias.
LEMMA NothingDue ==
    ASSUME NEW good, UsedAsAliases(good), NEW f, f.type = "body", f.todo \in Seq(good \cup Exposures),
           NEW a \in Aliases
    PROVE  Items(f, a) = {}
<1> SUFFICES ASSUME NEW j \in Items(f, a) PROVE FALSE
  BY Zenon
<1>1. j \in DOMAIN f.todo /\ f.todo[j].op = "release" /\ f.todo[j].name = a
  BY DEF Items
<1>2. f.todo[j] \in good \cup Exposures
  <2>1. DOMAIN f.todo = 1 .. Len(f.todo)
    BY LenProperties
  <2> QED BY <1>1, <2>1, ElementOfSeq
<1>3. f.todo[j] \notin Exposures
  BY <1>1 DEF Exposures, Op
<1> QED BY <1>1, <1>2, <1>3 DEF UsedAsAliases

\* No call is in progress.
LEMMA EmptyOK ==
    ASSUME NEW good
    PROVE  StackOK(<<>>, good) /\ \A a : Account(<<>>, a) = 0
<1>1. IsStack(<<>>)
  BY DEF IsStack, Range
<1>2. \A a : IsFiniteSet(Places(<<>>, a)) /\ Owed(<<>>, a) = 0
  BY PlacesEmpty
<1> QED BY <1>1, <1>2 DEF StackOK, Account

LEMMA ClosedAccount ==
    ASSUME NEW good, stack' = <<>>, CallbacksOK(reg', good), finalizers' \in Seq(good),
           phase' # "terminated" => \A a \in Aliases : kept'[a] = 0
    PROVE  AliasInv(good)'
  BY EmptyOK DEF AliasInv

LEMMA ThrowAccount ==
    ASSUME NEW good, UsedAsAliases(good), ContextInv, AliasInv(good), stack # <<>>,
           Inner.type \in {"notify", "body", "ref", "scope"}, ~Exposing(Inner),
           Inner.type = "scope" => Inner.todo = <<>>,
           Throw(Below), UNCHANGED <<reg, finalizers, kept>>
    PROVE  AliasInv(good)'
<1>0. CASE stack' = <<>> /\ phase' = "terminated"
  <2>1. CallbacksOK(reg', good) /\ finalizers' \in Seq(good)
    BY DEF AliasInv
  <2> QED BY <1>0, <2>1, ClosedAccount
<1> SUFFICES ASSUME Unwinds(Below) PROVE AliasInv(good)'
  BY <1>0, ThrowCases, Zenon
<1>1. /\ Len(stack) \in Nat \ {0} /\ DOMAIN stack = 1 .. Len(stack)
      /\ IsStack(Below) /\ Len(Below) = Len(stack) - 1 /\ DOMAIN Below = 1 .. (Len(stack) - 1)
      /\ \A i \in DOMAIN Below : Below[i] = stack[i]
      /\ Inner = stack[Len(stack)] /\ stack[1].type \in Bases
  BY BelowFacts
<1>2. Len(stack) > 1
  BY <1>1 DEF Bases
<1>3. Below # <<>> /\ Below[1].type \in Bases
  <2>1. 1 \in DOMAIN Below
    BY <1>1, <1>2
  <2> QED BY <2>1, <1>1
<1>4. PICK k, g :
         /\ k \in DOMAIN Below /\ Below[k].type \in CatcherTypes
         /\ \A i \in DOMAIN Below : i > k => Below[i].type \notin CatcherTypes
         /\ IsFrame(g) /\ g.type = Below[k].type /\ g.name = Below[k].name /\ g.failed = TRUE
         /\ g.todo = IF Below[k].type \in {"notify", "scope"} THEN Below[k].todo ELSE <<>>
         /\ stack' = Append(SubSeq(Below, 1, k - 1), g)
  BY <1>1, <1>3, ThrowTop
<1> DEFINE low == SubSeq(Below, 1, k - 1)
<1>5. StackOK(stack, good) /\ StackOK(Below, good)
  BY TopOK DEF AliasInv
<1>6. k \in Nat /\ k > 0 /\ k < Len(stack) /\ k \in DOMAIN stack /\ Below[k] = stack[k] /\ k - 1 \in 0 .. Len(Below)
  <2>1. k \in DOMAIN Below
    BY <1>4
  <2> QED BY <1>1, <2>1
<1>7. /\ StackOK(low, good) /\ Len(low) = k - 1 /\ DOMAIN low = 1 .. (k - 1)
      /\ \A i \in 1 .. (k - 1) : low[i] = Below[i]
  BY <1>5, <1>6, PrefixOK
<1> HIDE DEF low
<1>8. MayCall(low, g, good)
  <2>1. FrameOK(stack[k], good) /\ (k > 1 => AboveOK(stack[k - 1], stack[k], good))
    BY <1>5, <1>6 DEF StackOK
  <2>2. g.type \in CatcherTypes /\ g.type # "body" /\ g.type # "share" /\ g.type # "release"
    BY <1>4 DEF CatcherTypes
  <2>3. FrameOK(g, good)
    <3>1. <<>> \in Seq(Range(<<>>)) /\ DOMAIN <<>> = {}
      BY EmptySeq
    <3>2. CallbacksOK(<<>>, good)
      BY <3>1 DEF CallbacksOK
    <3> QED BY <1>4, <1>6, <2>1, <2>2, <3>2 DEF FrameOK, Listed
  <2>4. low # <<>> => k > 1 /\ low[Len(low)] = stack[k - 1]
    <3>1. low # <<>> => Len(low) > 0
      BY <1>7, StackFacts DEF StackOK
    <3>2. k > 1 => k - 1 \in DOMAIN Below /\ k - 1 \in 1 .. (k - 1)
      BY <1>1, <1>6
    <3>3. low # <<>> => k > 1
      BY <1>6, <1>7, <3>1
    <3> QED BY <1>1, <1>7, <3>2, <3>3
  <2>5. low # <<>> => AboveOK(low[Len(low)], g, good)
    BY <1>4, <1>6, <2>1, <2>2, <2>4 DEF AboveOK
  <2> QED BY <1>4, <2>2, <2>3, <2>5 DEF MayCall
<1>9. /\ StackOK(stack', good) /\ stack' # <<>> /\ Len(stack') = Len(low) + 1
      /\ stack'[Len(low) + 1] = g /\ \A i \in DOMAIN low : stack'[i] = low[i]
  <2>1. stack' = Append(low, g)
    BY <1>4 DEF low
  <2>2. PICK u : u = stack'
    OBVIOUS
  <2>3. /\ StackOK(u, good) /\ u # <<>> /\ Len(u) = Len(low) + 1
        /\ u[Len(low) + 1] = g /\ \A i \in DOMAIN low : u[i] = low[i]
    <3>1. u = Append(low, g)
      BY <2>1, <2>2
    <3> QED BY ONLY <1>7, <1>8, <3>1, PushOK
  <2> QED BY <2>2, <2>3
<1>10. Len(stack') = k /\ stack'[k] = g /\ (\A i \in 1 .. (k - 1) : stack'[i] = stack[i]) /\ DOMAIN stack' = 1 .. k
  <2>1. Len(stack') = k /\ Len(low) + 1 = k
    BY <1>6, <1>7, <1>9
  <2>2. DOMAIN stack' = 1 .. k
    BY <1>9, <2>1, StackFacts DEF StackOK
  <2>3. \A i \in 1 .. (k - 1) : i \in DOMAIN Below
    BY <1>1, <1>6
  <2> QED BY <1>1, <1>7, <1>9, <2>1, <2>2, <2>3
<1>11. CASE g.type = "dtor"
  <2>1. Doomed'
    BY <1>4, <1>9, <1>10, <1>11 DEF Doomed, Inner
  <2> QED BY <1>9, <2>1 DEF AliasInv
<1>12. CASE g.type # "dtor"
  <2>1. ASSUME NEW a \in Aliases, NEW i \in DOMAIN stack, i > k
        PROVE  Items(stack[i], a) = {}
    <3>1. i < Len(stack) => i \in DOMAIN Below /\ stack[i].type \notin CatcherTypes
      BY <1>1, <1>4, <1>6, <2>1
    <3>2. i = Len(stack) => stack[i] = Inner
      BY <1>1
    <3>3. i \in Nat /\ i - 1 \in DOMAIN stack /\ i > 1 /\ i - 1 >= k /\ (i < Len(stack) \/ i = Len(stack))
      BY <1>1, <1>6, <2>1
    <3>4. /\ i - 1 > k => i - 1 \in DOMAIN Below /\ stack[i - 1].type \notin CatcherTypes
          /\ i - 1 > k \/ i - 1 = k
      <4>1. i - 1 > k => i - 1 \in DOMAIN Below
        BY <1>1, <1>6, <3>3
      <4>2. i - 1 > k \/ i - 1 = k
        BY <1>6, <3>3
      <4> QED BY <1>1, <1>4, <4>1, <4>2
    <3>5. stack[i - 1].type # "dtor"
      BY <1>4, <1>6, <1>12, <3>4 DEF CatcherTypes
    <3>6. ReleaseOK(stack, i) /\ AboveOK(stack[i - 1], stack[i], good)
      BY <1>5, <3>3 DEF StackOK
    <3>7. CASE stack[i].type = "body"
      <4>1. BodyOK(stack[i - 1], stack[i].todo, good)
        BY <3>6, <3>7 DEF AboveOK
      <4>2. stack[i].todo \in Seq(good \cup Exposures)
        <5>1. CASE stack[i - 1].type = "scope"
          BY <4>1, <5>1 DEF BodyOK, InScope
        <5>2. CASE stack[i - 1].type # "scope"
          <6>1. stack[i].todo \in Seq(good)
            BY <3>5, <4>1, <5>2 DEF BodyOK
          <6> QED BY <6>1, SeqMonotonic
        <5> QED BY <5>1, <5>2
      <4> QED BY <3>7, <4>2, NothingDue
    <3>8. CASE stack[i].type = "scope"
      <4>1. i = Len(stack) /\ stack[i].todo = <<>>
        BY <3>1, <3>2, <3>3, <3>8 DEF CatcherTypes
      <4> QED BY <3>8, <4>1 DEF Items
    <3>9. CASE stack[i].type \notin {"body", "scope"}
      <4>1. ASSUME stack[i].type = "release", stack[i].name = a PROVE FALSE
        <5>1. i > 2 /\ stack[i - 1].type = "body" /\ stack[i - 2].type = "dtor"
          BY <3>6, <4>1 DEF ReleaseOK
        <5>2. i - 1 # k
          BY <1>4, <1>6, <5>1 DEF CatcherTypes
        <5>3. i - 2 >= k /\ i - 2 \in DOMAIN Below
          BY <1>1, <1>6, <3>3, <3>4, <5>2
        <5>4. i - 2 > k \/ i - 2 = k
          BY <1>6, <5>3, <3>3
        <5> QED BY <1>1, <1>4, <1>6, <1>12, <5>1, <5>3, <5>4 DEF CatcherTypes
      <4> QED BY <3>9, <4>1 DEF Items
    <3> QED BY <3>7, <3>8, <3>9
  <2>2. ASSUME NEW a \in Aliases
        PROVE  Places(stack', a) = Places(stack, a)
    <3>1. Items(g, a) = Items(stack[k], a)
      <4>1. g.type # "body" /\ g.type # "release" /\ g.type = stack[k].type /\ g.name = stack[k].name
            /\ (g.type = "scope" => g.todo = stack[k].todo)
        BY <1>4, <1>6 DEF CatcherTypes
      <4> QED BY <4>1 DEF Items
    <3>2. PICK u : u = stack'
      OBVIOUS
    <3>3. \A i \in DOMAIN u : Items(u[i], a) = Items(stack[i], a)
      <4> SUFFICES ASSUME NEW i \in DOMAIN u PROVE Items(u[i], a) = Items(stack[i], a)
        OBVIOUS
      <4>1. i \in 1 .. (k - 1) \/ i = k
        BY <1>6, <1>10, <3>2
      <4>2. CASE i = k
        <5>1. u[i] = g /\ stack[i] = stack[k]
          BY <1>10, <3>2, <4>2
        <5> QED BY <3>1, <5>1
      <4>3. CASE i \in 1 .. (k - 1)
        <5>1. u[i] = stack[i]
          BY <1>10, <3>2, <4>3
        <5> QED BY <5>1
      <4> QED BY <4>1, <4>2, <4>3
    <3>4. DOMAIN u \subseteq DOMAIN stack /\ \A i \in DOMAIN stack \ DOMAIN u : i > k
      BY <1>1, <1>6, <1>10, <3>2
    <3>5. \A i \in DOMAIN stack \ DOMAIN u : Items(stack[i], a) = {}
      BY <2>1, <3>4
    <3>6. Places(u, a) = Places(stack, a)
      BY ONLY <3>3, <3>4, <3>5, PlacesSame
    <3> QED BY <3>2, <3>6
  <2>3. ~Exposing(g) /\ ~Doomed
    BY <1>4 DEF Exposing, CatcherTypes, Doomed
  <2>4. \A a \in Aliases : Owed(stack', a) + Fresh(stack'[Len(stack')], a) = Owed(stack, a) + Fresh(Inner, a)
    <3> TAKE a \in Aliases
    <3>1. Fresh(g, a) = 0 /\ Fresh(Inner, a) = 0
      BY <2>3, FreshIsNat
    <3>2. stack'[Len(stack')] = g
      BY <1>10
    <3> QED BY <2>2, <3>1, <3>2 DEF Owed
  <2>5. CallbacksOK(reg', good) /\ finalizers' \in Seq(good)
    BY DEF AliasInv
  <2> QED BY <1>9, <2>3, <2>4, <2>5, SameAccount, SMTT(30)
<1> QED BY <1>11, <1>12

-----------------------------------------------------------------------------
(* The operations of a body *)

LEMMA TailInScope ==
    ASSUME NEW good, UsedAsAliases(good), NEW t, InScope(t, good), t # <<>>
    PROVE  /\ InScope(Tail(t), good)
           /\ Starts(Tail(t), "exposed") => Head(t).op = "share" /\ Head(Tail(t)).name = Head(t).name
           /\ Head(t).op = "share" /\ Head(t).name \in Aliases => Starts(Tail(t), "exposed")
<1> DEFINE u == Tail(t)
           S == good \cup Exposures
<1>1. t \in Seq(S)
  BY DEF InScope
<1>2. /\ Len(t) \in Nat \ {0} /\ DOMAIN t = 1 .. Len(t) /\ Head(t) = t[1]
      /\ u \in Seq(S) /\ Len(u) = Len(t) - 1 /\ DOMAIN u = 1 .. Len(u)
      /\ \A i \in 1 .. Len(u) : u[i] = t[i + 1]
      /\ u # <<>> => Head(u) = u[1] /\ Len(u) > 0
      /\ Len(u) > 0 => u # <<>>
  <2> HIDE DEF S
  <2>1. /\ Len(t) \in Nat \ {0} /\ DOMAIN t = 1 .. Len(t) /\ Head(t) = t[1]
        /\ u \in Seq(S) /\ Len(u) = Len(t) - 1
        /\ \A i \in 1 .. Len(u) : u[i] = t[i + 1]
    BY ONLY <1>1, t # <<>>, LenProperties, HeadTailProperties, EmptySeq
  <2> HIDE DEF u
  <2>2. DOMAIN u = 1 .. Len(u) /\ (u # <<>> => Head(u) = u[1] /\ Len(u) > 0) /\ (Len(u) > 0 => u # <<>>)
    BY ONLY <2>1, LenProperties, EmptySeq
  <2> QED BY <2>1, <2>2
<1> HIDE DEF u
<1>3. \A j \in DOMAIN t :
          /\ t[j].op = "share" /\ t[j].name \in Aliases =>
                j + 1 \in DOMAIN t /\ t[j + 1].op = "exposed" /\ t[j + 1].name = t[j].name
          /\ t[j].op = "exposed" /\ j > 1 => t[j - 1].op = "share" /\ t[j - 1].name = t[j].name
  BY DEF InScope
<1>4. ASSUME NEW j \in DOMAIN u
      PROVE  /\ u[j].op = "share" /\ u[j].name \in Aliases =>
                   j + 1 \in DOMAIN u /\ u[j + 1].op = "exposed" /\ u[j + 1].name = u[j].name
             /\ u[j].op = "exposed" /\ j > 1 => u[j - 1].op = "share" /\ u[j - 1].name = u[j].name
  <2>1. j \in Nat /\ j + 1 \in DOMAIN t /\ u[j] = t[j + 1] /\ j + 1 > 1 /\ (j + 1) - 1 = j
    BY <1>2
  <2>2. ASSUME u[j].op = "share", u[j].name \in Aliases
        PROVE  j + 1 \in DOMAIN u /\ u[j + 1].op = "exposed" /\ u[j + 1].name = u[j].name
    <3>1. (j + 1) + 1 \in DOMAIN t /\ t[(j + 1) + 1].op = "exposed" /\ t[(j + 1) + 1].name = t[j + 1].name
      BY <1>3, <2>1, <2>2
    <3>2. j + 1 \in 1 .. Len(u)
      BY <1>2, <2>1, <3>1
    <3> QED BY <1>2, <2>1, <3>1, <3>2
  <2>3. ASSUME u[j].op = "exposed", j > 1
        PROVE  u[j - 1].op = "share" /\ u[j - 1].name = u[j].name
    <3>1. t[j].op = "share" /\ t[j].name = t[j + 1].name
      BY <1>3, <2>1, <2>3
    <3>2. j - 1 \in 1 .. Len(u) /\ (j - 1) + 1 = j
      BY <1>2, <2>1, <2>3
    <3>3. u[j - 1] = t[j]
      BY <1>2, <3>2
    <3> QED BY <2>1, <3>1, <3>3
  <2> QED BY <2>2, <2>3
<1>5. InScope(u, good)
  BY <1>2, <1>4 DEF InScope
<1>6. ASSUME Starts(u, "exposed")
      PROVE  Head(t).op = "share" /\ Head(u).name = Head(t).name
  <2>1. u # <<>> /\ Head(u) = u[1] /\ 1 \in 1 .. Len(u) /\ 2 \in DOMAIN t /\ u[1] = t[2] /\ t[2].op = "exposed"
    <3>1. u # <<>> /\ Head(u).op = "exposed"
      BY <1>6 DEF Starts
    <3>2. 1 \in 1 .. Len(u) /\ 2 \in DOMAIN t /\ 1 + 1 = 2
      BY <1>2, <3>1
    <3>3. u[1] = t[2]
      BY <1>2, <3>2
    <3> QED BY <1>2, <3>1, <3>2, <3>3
  <2>2. t[2 - 1].op = "share" /\ t[2 - 1].name = t[2].name
    BY <1>3, <2>1
  <2>3. 2 - 1 = 1
    OBVIOUS
  <2> QED BY <1>2, <2>1, <2>2, <2>3
<1>7. ASSUME Head(t).op = "share", Head(t).name \in Aliases
      PROVE  Starts(u, "exposed")
  <2>1. 1 \in DOMAIN t /\ 1 + 1 = 2
    BY <1>2
  <2>2. 2 \in DOMAIN t /\ t[2].op = "exposed"
    BY <1>2, <1>3, <1>7, <2>1
  <2>3. 1 \in 1 .. Len(u) /\ Len(u) > 0
    BY <1>2, <2>2
  <2>4. u # <<>> /\ Head(u) = t[2]
    BY <1>2, <2>1, <2>3
  <2> QED BY <2>2, <2>4 DEF Starts
<1> QED BY <1>5, <1>6, <1>7 DEF u

\* The first operation of the innermost body.
LEMMA TodoOK ==
    ASSUME NEW good, UsedAsAliases(good), ContextInv, AliasInv(good), NEW what, Do(what)
    PROVE  LET f == [Inner EXCEPT !.todo = Tail(@)]
           IN  /\ stack # <<>> /\ ~Doomed /\ Todo.op = what
               /\ StackOK(Rest, good) /\ Rest # <<>> /\ Len(Rest) = Len(stack)
               /\ Rest[Len(Rest)] = f /\ f.type = "body" /\ f.todo = Tail(Inner.todo)
               /\ \A i \in DOMAIN Below : Rest[i] = stack[i]
               /\ \A a \in Aliases : Owed(stack, a) = Owed(Rest, a) + (IF IsRelease(Todo, a) THEN 1 ELSE 0)
               /\ \A a \in Aliases : Fresh(Inner, a) = IF what = "exposed" /\ Todo.name = a THEN 1 ELSE 0
               /\ Exposing(f) => what = "share" /\ Head(f.todo).name = Todo.name
               /\ what = "share" /\ Todo.name \in Aliases => Exposing(f)
               /\ what \notin {"share", "exposed", "release"} => Todo \in good
               /\ what = "release" /\ Todo.name \in Aliases =>
                     Len(stack) > 1 /\ stack[Len(stack) - 1].type = "dtor"
               /\ what = "exposed" =>
                     /\ Len(stack) > 1 /\ stack[Len(stack) - 1].type = "scope" /\ Todo \in Exposures
                     /\ stack[Len(stack) - 1].todo # <<>> /\ Last(stack[Len(stack) - 1].todo).op = "event"
<1> DEFINE f == [Inner EXCEPT !.todo = Tail(Inner.todo)]
           b == stack[Len(stack) - 1]
           t == Inner.todo
<1>1. stack # <<>> /\ Inner.type = "body" /\ t # <<>> /\ Head(t).op = what /\ Todo = Head(t)
  BY DEF Do, Running, Todo
<1>2. /\ Len(stack) \in Nat \ {0} /\ DOMAIN stack = 1 .. Len(stack)
      /\ IsStack(Below) /\ Len(Below) = Len(stack) - 1 /\ DOMAIN Below = 1 .. (Len(stack) - 1)
      /\ \A i \in DOMAIN Below : Below[i] = stack[i]
      /\ Inner = stack[Len(stack)] /\ IsFrame(Inner) /\ stack[1].type \in Bases
  BY <1>1, BelowFacts
<1>3. /\ StackOK(Below, good) /\ MayCall(Below, Inner, good)
      /\ \A a \in Aliases : /\ Owed(stack, a) = Owed(Below, a) + Due(Inner, a)
                            /\ Owed(Below, a) \in Nat /\ Due(Inner, a) \in Nat
  BY <1>1, TopOK DEF AliasInv
<1>4. Len(stack) > 1 /\ Below # <<>> /\ Below[Len(Below)] = b
  <2>1. Len(stack) > 1
    BY <1>1, <1>2 DEF Bases
  <2>2. Len(stack) - 1 \in DOMAIN Below
    BY <1>2, <2>1
  <2> QED BY <1>2, <2>1, <2>2
<1>5. BodyOK(b, t, good) /\ (Exposing(b) => FALSE)
  BY <1>1, <1>3, <1>4 DEF MayCall, AboveOK
<1>6. Listed(Inner) /\ t \in Seq(Range(t))
  BY <1>1, <1>3 DEF MayCall, FrameOK, Listed
<1>7. /\ IsFrame(f) /\ f.type = "body" /\ f.name = Inner.name /\ f.todo = Tail(t) /\ Rest = Append(Below, f)
  <2>1. IsFrame(Inner) /\ Inner.type = "body"
    BY <1>1, <1>2
  <2>2. IsFrame(f) /\ f.type = "body" /\ f.name = Inner.name /\ f.todo = Tail(t)
    BY ONLY <2>1, IsFrameTodo
  <2>3. Rest = Append(Below, f)
    BY DEF Rest
  <2> QED BY <2>2, <2>3
<1>8. \A a : Listed(f) /\ Due(Inner, a) = Due(f, a) + (IF IsRelease(Head(t), a) THEN 1 ELSE 0)
  BY <1>1, <1>2, <1>6, DueTail
<1>9. /\ BodyOK(b, Tail(t), good)
      /\ Starts(Tail(t), "exposed") => what = "share" /\ Head(Tail(t)).name = Head(t).name
      /\ what = "share" /\ Head(t).name \in Aliases => Starts(Tail(t), "exposed")
      /\ what \notin {"share", "exposed", "release"} => Head(t) \in good
      /\ what = "release" /\ Head(t).name \in Aliases => b.type = "dtor"
      /\ what = "exposed" => b.type = "scope" /\ Head(t) \in Exposures /\ b.todo # <<>> /\ Last(b.todo).op = "event"
  <2> HIDE DEF t, b
  <2>1. CASE b.type = "scope"
    <3>1. InScope(t, good) /\ b.todo # <<>> /\ Last(b.todo).op = "event"
      BY <1>5, <2>1 DEF BodyOK
    <3>2. /\ InScope(Tail(t), good)
          /\ Starts(Tail(t), "exposed") => Head(t).op = "share" /\ Head(Tail(t)).name = Head(t).name
          /\ Head(t).op = "share" /\ Head(t).name \in Aliases => Starts(Tail(t), "exposed")
      BY <1>1, <3>1, TailInScope
    <3>3. Head(t) \in good \cup Exposures
      BY <1>1, <3>1, HeadTailProperties DEF InScope
    <3>4. Head(t) \in Exposures => what \in {"share", "exposed"}
      BY <1>1 DEF Exposures, Op
    <3>5. Head(t) \in good => what # "exposed" /\ (what = "release" => Head(t).name \notin Aliases)
      BY <1>1 DEF UsedAsAliases
    <3> QED BY <1>1, <2>1, <3>1, <3>2, <3>3, <3>4, <3>5 DEF BodyOK
  <2>2. CASE b.type = "dtor"
    <3>1. t \in Seq(good \cup Releases)
      BY <1>5, <2>2 DEF BodyOK
    <3>2. Head(t) \in good \cup Releases /\ Tail(t) \in Seq(good \cup Releases)
      BY <1>1, <3>1, HeadTailProperties
    <3>3. \A op \in good \cup Releases : op.op # "exposed" /\ (op.op = "share" => op.name \notin Aliases)
      BY DEF UsedAsAliases, Releases, Op
    <3>4. ~Starts(Tail(t), "exposed")
      <4>1. Tail(t) # <<>> => Head(Tail(t)) \in good \cup Releases
        BY <3>2, HeadTailProperties
      <4> QED BY <3>3, <4>1 DEF Starts
    <3>5. Head(t) \in Releases => what = "release"
      <4>1. \A op \in Releases : op.op = "release"
        BY DEF Releases, Op
      <4> QED BY <1>1, <4>1
    <3> QED BY <1>1, <2>2, <3>2, <3>3, <3>4, <3>5 DEF BodyOK
  <2>3. CASE b.type \notin {"scope", "dtor"}
    <3>1. t \in Seq(good)
      BY <1>5, <2>3 DEF BodyOK
    <3>2. Head(t) \in good /\ Tail(t) \in Seq(good)
      BY <1>1, <3>1, HeadTailProperties
    <3>3. \A op \in good : op.op # "exposed" /\ (op.op \in {"share", "release"} => op.name \notin Aliases)
      BY DEF UsedAsAliases
    <3>4. ~Starts(Tail(t), "exposed")
      <4>1. Tail(t) # <<>> => Head(Tail(t)) \in good
        BY <3>2, HeadTailProperties
      <4> QED BY <3>3, <4>1 DEF Starts
    <3> QED BY <1>1, <2>3, <3>2, <3>3, <3>4 DEF BodyOK
  <2> QED BY <2>1, <2>2, <2>3
<1> HIDE DEF f
<1>10. MayCall(Below, f, good)
  <2>1. FrameOK(f, good)
    BY <1>7, <1>8 DEF FrameOK
  <2>2. AboveOK(b, f, good)
    BY <1>5, <1>7, <1>9 DEF AboveOK
  <2> QED BY <1>4, <1>7, <2>1, <2>2 DEF MayCall
<1>11. /\ StackOK(Rest, good) /\ Rest # <<>> /\ Len(Rest) = Len(Below) + 1
       /\ Rest[Len(Below) + 1] = f
       /\ \A i \in DOMAIN Below : Rest[i] = Below[i]
       /\ \A a \in Aliases : Owed(Rest, a) = Owed(Below, a) + Due(f, a) /\ Due(f, a) \in Nat
  <2>1. Rest = Append(Below, f) /\ StackOK(Below, good) /\ MayCall(Below, f, good)
    BY <1>3, <1>7, <1>10
  <2> QED BY ONLY <2>1, PushOK
<1>12. Len(Rest) = Len(stack) /\ Rest[Len(Rest)] = f
  <2>1. Len(Below) + 1 = Len(stack)
    BY <1>2
  <2> QED BY <1>11, <2>1
<1>13. ASSUME NEW a \in Aliases
       PROVE  /\ Owed(stack, a) = Owed(Rest, a) + (IF IsRelease(Todo, a) THEN 1 ELSE 0)
              /\ Fresh(Inner, a) = IF what = "exposed" /\ Todo.name = a THEN 1 ELSE 0
  <2>1. /\ Owed(stack, a) = Owed(Below, a) + Due(Inner, a) /\ Owed(Below, a) \in Nat
        /\ Owed(Rest, a) = Owed(Below, a) + Due(f, a) /\ Due(f, a) \in Nat
        /\ Due(Inner, a) = Due(f, a) + (IF IsRelease(Head(t), a) THEN 1 ELSE 0)
    BY <1>3, <1>8, <1>11
  <2>2. Owed(stack, a) = Owed(Rest, a) + (IF IsRelease(Todo, a) THEN 1 ELSE 0)
    BY <1>1, <2>1
  <2>3. Fresh(Inner, a) = IF what = "exposed" /\ Todo.name = a THEN 1 ELSE 0
    BY <1>1 DEF Fresh, Exposing, Starts
  <2> QED BY <2>2, <2>3
<1>14. Exposing(f) <=> Starts(Tail(t), "exposed")
  BY <1>7 DEF Exposing
<1>15. ~Doomed
  BY <1>1 DEF Doomed
<1> QED BY <1>1, <1>2, <1>4, <1>7, <1>9, <1>11, <1>12, <1>13, <1>14, <1>15, ZenonT(60) DEF f

-----------------------------------------------------------------------------
(* The callbacks that are called *)

\* Each number up to the cardinality of S is the rank of an element of S.
LEMMA PositionIn ==
    ASSUME NEW S \in SUBSET Nat, IsFiniteSet(S)
    PROVE  Cardinality(S) \in Nat /\ \A k \in 1 .. Cardinality(S) : Position(S, k) \in S
<1> DEFINE Up(i) == {j \in S : j <= i}
           n == Cardinality(S)
           rank == [i \in S |-> Cardinality(Up(i))]
<1>1. n \in Nat
  BY FS_CardinalityType
<1>2. ASSUME NEW i \in S PROVE IsFiniteSet(Up(i)) /\ Cardinality(Up(i)) \in 1 .. n
  <2>1. Up(i) \in SUBSET S /\ i \in Up(i)
    OBVIOUS
  <2>2. IsFiniteSet(Up(i)) /\ Cardinality(Up(i)) <= n
    BY <2>1, FS_Subset
  <2>3. Cardinality(Up(i)) \in Nat /\ Cardinality(Up(i)) # 0
    BY <2>1, <2>2, FS_CardinalityType, FS_EmptySet
  <2> QED BY <1>1, <2>2, <2>3
<1>3. ASSUME NEW i \in S, NEW j \in S, i < j PROVE Cardinality(Up(i)) < Cardinality(Up(j))
  <2>1. Up(i) \in SUBSET Up(j)
    <3>1. \A x \in S : x <= i => x <= j
      BY <1>3
    <3> QED BY <3>1
  <2>2. j \in Up(j) /\ j \notin Up(i)
    BY <1>3
  <2>3. Cardinality(Up(i)) <= Cardinality(Up(j)) /\ Cardinality(Up(i)) # Cardinality(Up(j))
    BY <1>2, <2>1, <2>2, FS_Subset
  <2> QED BY <1>2, <2>3
<1>4. rank \in Injection(S, 1 .. n)
  <2>1. rank \in [S -> 1 .. n]
    BY <1>2
  <2>2. ASSUME NEW i \in S, NEW j \in S, rank[i] = rank[j] PROVE i = j
    <3>1. ~(i < j) /\ ~(j < i)
      BY <1>2, <1>3, <2>2
    <3> QED BY <3>1
  <2> QED BY <2>1, <2>2 DEF Injection, IsInjective
<1>5. IsFiniteSet(1 .. n) /\ Cardinality(1 .. n) = n
  BY <1>1, FS_Interval
<1>6. rank \in Surjection(S, 1 .. n)
  BY <1>4, <1>5, FS_Injection
<1>7. ASSUME NEW k \in 1 .. n PROVE Position(S, k) \in S
  <2>1. \E i \in S : Cardinality(Up(i)) = k
    BY <1>6 DEF Surjection
  <2> QED BY <2>1 DEF Position
<1> QED BY <1>1, <1>7

LEMMA AtIn ==
    ASSUME NEW r, r \in Seq(Range(r)), NEW S \in SUBSET DOMAIN r
    PROVE  At(r, S) \in Seq(Range(r))
<1>1. DOMAIN r = 1 .. Len(r) /\ Len(r) \in Nat
  BY LenProperties
<1>2. S \in SUBSET Nat /\ IsFiniteSet(S)
  <2>1. S \in SUBSET (1 .. Len(r)) /\ S \in SUBSET Nat
    BY <1>1
  <2> QED BY <1>1, <2>1, PartOfInterval
<1>3. Cardinality(S) \in Nat /\ \A k \in 1 .. Cardinality(S) : Position(S, k) \in S
  BY <1>2, PositionIn
<1>4. \A k \in 1 .. Cardinality(S) : r[Position(S, k)] \in Range(r)
  <2>1. \A i \in DOMAIN r : r[i] \in Range(r)
    BY DEF Range
  <2> QED BY <1>3, <2>1
<1>5. At(r, S) \in [1 .. Cardinality(S) -> Range(r)]
  BY ONLY <1>4 DEF At
<1> QED BY <1>3, <1>5, SeqDef

LEMMA CallbacksOver ==
    ASSUME NEW good, NEW R, \A c \in R : c.ops \in Seq(good), NEW t \in Seq(R)
    PROVE  CallbacksOK(t, good)
<1>1. t \in Seq(Range(t)) /\ \A i \in DOMAIN t : t[i] \in R
  BY SeqOfRange, LenProperties, ElementOfSeq
<1> QED BY <1>1 DEF CallbacksOK

LEMMA CallbacksIn ==
    ASSUME NEW good, NEW r, CallbacksOK(r, good), NEW t, t \in Seq(Range(r))
    PROVE  CallbacksOK(t, good)
<1>1. \A c \in Range(r) : c.ops \in Seq(good)
  BY DEF CallbacksOK, Range
<1> QED BY <1>1, CallbacksOver

\* The callbacks that a notify_* function or notify_init gathers.
LEMMA GatheredOK ==
    ASSUME NEW good, NEW r, CallbacksOK(r, good), NEW kind, NEW name
    PROVE  CallbacksOK(OfKind(r, kind), good) /\ CallbacksOK(Gather(r, kind, name), good)
<1>1. r \in Seq(Range(r))
  BY DEF CallbacksOK
<1>2. OfKind(r, kind) \in Seq(Range(r))
  BY <1>1, AtIn DEF OfKind
<1>3. \A names : At(r, Where(r, kind, names)) \in Seq(Range(r))
  BY <1>1, AtIn DEF Where
<1>4. Gather(r, kind, name) \in Seq(Range(r))
  BY <1>3, ConcatProperties DEF Gather
<1> QED BY <1>2, <1>4, CallbacksIn

LEMMA NoCallback == ASSUME NEW good PROVE CallbacksOK(<<>>, good)
  BY DEF CallbacksOK, Range

LEMMA OneMore ==
    ASSUME NEW good, NEW r, CallbacksOK(r, good), NEW c, c.ops \in Seq(good)
    PROVE  CallbacksOK(Append(r, c), good)
<1> DEFINE R == Range(r) \cup {c}
<1>1. r \in Seq(R) /\ c \in R
  BY SeqMonotonic DEF CallbacksOK
<1>2. \A x \in R : x.ops \in Seq(good)
  BY DEF CallbacksOK, Range
<1> HIDE DEF R
<1>3. Append(r, c) \in Seq(R)
  BY <1>1, AppendProperties
<1> QED BY <1>2, <1>3, CallbacksOver

LEMMA BothOK ==
    ASSUME NEW good, NEW r, CallbacksOK(r, good), NEW s, CallbacksOK(s, good)
    PROVE  CallbacksOK(r \o s, good)
<1> DEFINE R == Range(r) \cup Range(s)
<1>1. r \in Seq(R) /\ s \in Seq(R)
  BY SeqMonotonic DEF CallbacksOK
<1>2. \A x \in R : x.ops \in Seq(good)
  BY DEF CallbacksOK, Range
<1> HIDE DEF R
<1>3. r \o s \in Seq(R)
  BY <1>1, ConcatProperties
<1> QED BY <1>2, <1>3, CallbacksOver

-----------------------------------------------------------------------------
(* The frames that are pushed *)

LEMMA GoodStart ==
    ASSUME NEW good, UsedAsAliases(good), NEW ops \in Seq(good)
    PROVE  ops \in Seq(good \cup Exposures) /\ ~Starts(ops, "exposed")
<1>1. ops \in Seq(good \cup Exposures)
  BY SeqMonotonic
<1>2. ops # <<>> => Head(ops) \in good
  BY HeadTailProperties
<1>3. \A op \in good : op.op # "exposed"
  BY DEF UsedAsAliases
<1> QED BY <1>1, <1>2, <1>3 DEF Starts

LEMMA NewBody ==
    ASSUME NEW good, UsedAsAliases(good), NEW name, NEW ops \in Seq(good \cup Exposures), ~Starts(ops, "exposed")
    PROVE  LET f == Frame("body", name, ops)
           IN  /\ IsFrame(f) /\ f.type = "body" /\ f.todo = ops /\ FrameOK(f, good) /\ ~Exposing(f)
               /\ \A a \in Aliases : Due(f, a) = 0 /\ Fresh(f, a) = 0
<1> DEFINE f == Frame("body", name, ops)
<1>1. IsFrame(f) /\ f.type = "body" /\ f.todo = ops
  BY IsFrameFrame
<1> HIDE DEF f
<1>2. FrameOK(f, good)
  BY <1>1, SeqOfRange DEF FrameOK, Listed
<1>3. ~Exposing(f)
  BY <1>1 DEF Exposing
<1>4. ASSUME NEW a \in Aliases PROVE Due(f, a) = 0 /\ Fresh(f, a) = 0
  <2>1. Items(f, a) = {}
    BY <1>1, NothingDue
  <2> QED BY <1>3, <2>1, DueNothing, FreshIsNat
<1> QED BY <1>1, <1>2, <1>3, <1>4 DEF f

LEMMA NewFrame ==
    ASSUME NEW good, NEW f, IsFrame(f), f.type \notin {"body", "scope", "init"},
           f.type = "notify" => CallbacksOK(f.todo, good)
    PROVE  /\ FrameOK(f, good) /\ ~Exposing(f)
           /\ \A a : Fresh(f, a) = 0 /\ Due(f, a) = IF f.type = "release" /\ f.name = a THEN 1 ELSE 0
<1>1. FrameOK(f, good) /\ ~Exposing(f)
  BY DEF FrameOK, Listed, Exposing
<1>2. \A a : Fresh(f, a) = 0 /\ Due(f, a) = IF f.type = "release" /\ f.name = a THEN 1 ELSE 0
  BY <1>1, FreshIsNat, DueByType
<1> QED BY <1>1, <1>2

\* The first calls.
LEMMA BaseOpened ==
    ASSUME NEW good, NEW f, IsFrame(f), f.type \in Bases, FrameOK(f, good)
    PROVE  /\ StackOK(<<f>>, good) /\ \A a \in Aliases : Owed(<<f>>, a) = 0 /\ Fresh(f, a) = 0
           /\ <<f>> # <<>> /\ Len(<<f>>) = 1 /\ <<f>>[1] = f /\ ~Exposing(f)
<1>1. MayCall(<<>>, f, good)
  BY DEF MayCall, Bases
<1>2. <<f>> = Append(<<>>, f)
  OBVIOUS
<1>3. ~Exposing(f)
  BY DEF Exposing, Bases
<1>4. \A a : Due(f, a) = 0 /\ Fresh(f, a) = 0
  BY <1>3, FreshIsNat, DueByType DEF Bases
<1>5. StackOK(<<>>, good) /\ \A a : Owed(<<>>, a) = 0
  BY EmptyOK, PlacesEmpty
<1>6. /\ StackOK(<<f>>, good)
      /\ \A a \in Aliases : Owed(<<f>>, a) = Owed(<<>>, a) + Due(f, a)
  <2>1. PICK e : e = <<>>
    OBVIOUS
  <2>2. StackOK(e, good) /\ MayCall(e, f, good)
    BY <1>1, <1>5, <2>1
  <2>3. StackOK(Append(e, f), good) /\ \A a \in Aliases : Owed(Append(e, f), a) = Owed(e, a) + Due(f, a)
    BY ONLY <2>2, PushOK
  <2> QED BY <1>2, <2>1, <2>3, Zenon
<1> QED BY <1>3, <1>4, <1>5, <1>6

LEMMA BodyOpened ==
    ASSUME NEW good, UsedAsAliases(good), NEW f, IsFrame(f), f.type \in Bases, FrameOK(f, good),
           NEW name, NEW ops \in Seq(good)
    PROVE  LET s == <<f, Frame("body", name, ops)>>
           IN  /\ StackOK(s, good) /\ s # <<>>
               /\ \A a \in Aliases : Owed(s, a) = 0 /\ Fresh(s[Len(s)], a) = 0
<1> DEFINE g == Frame("body", name, ops)
           b == <<f>>
           s == <<f, g>>
<1>1. /\ StackOK(b, good) /\ \A a \in Aliases : Owed(b, a) = 0 /\ Fresh(f, a) = 0
      /\ b # <<>> /\ Len(b) = 1 /\ b[1] = f /\ ~Exposing(f)
  BY BaseOpened
<1>2. /\ IsFrame(g) /\ g.type = "body" /\ g.todo = ops /\ FrameOK(g, good) /\ ~Exposing(g)
      /\ \A a \in Aliases : Due(g, a) = 0 /\ Fresh(g, a) = 0
  <2>1. ops \in Seq(good \cup Exposures) /\ ~Starts(ops, "exposed")
    BY GoodStart
  <2> QED BY ONLY UsedAsAliases(good), <2>1, NewBody
<1>3. s = Append(b, g) /\ s # <<>> /\ s[Len(s)] = g
  OBVIOUS
<1> HIDE DEF g, b, s
<1>4. BodyOK(f, ops, good)
  BY SeqMonotonic DEF BodyOK, Bases
<1>5. MayCall(b, g, good)
  BY <1>1, <1>2, <1>4 DEF MayCall, AboveOK
<1>6. StackOK(s, good) /\ \A a \in Aliases : Owed(s, a) = Owed(b, a) + Due(g, a)
  BY <1>1, <1>3, <1>5, PushOK
<1>7. \A a \in Aliases : Owed(s, a) = 0 /\ Fresh(s[Len(s)], a) = 0
  BY <1>1, <1>2, <1>3, <1>6
<1> QED BY <1>3, <1>6, <1>7 DEF s, g

LEMMA OpenedAccount ==
    ASSUME NEW good, AliasInv(good), \A a \in Aliases : kept[a] = 0,
           StackOK(stack', good), stack' # <<>>,
           \A a \in Aliases : Owed(stack', a) = 0 /\ Fresh(stack'[Len(stack')], a) = 0,
           UNCHANGED <<reg, finalizers, kept>>
    PROVE  AliasInv(good)'
<1>1. CallbacksOK(reg', good) /\ finalizers' \in Seq(good)
  BY DEF AliasInv
<1>2. \A a \in Aliases : kept'[a] = Account(stack', a)
  BY DEF Account, Last
<1> QED BY <1>1, <1>2 DEF AliasInv

\* A call in a call.
LEMMA CalledAccount ==
    ASSUME NEW good, ContextInv, AliasInv(good), stack # <<>>, ~Doomed,
           NEW s, StackOK(s, good), NEW g, MayCall(s, g, good), stack' = Append(s, g),
           \A a \in Aliases : Owed(s, a) + Due(g, a) + Fresh(g, a) = Owed(stack, a) + Fresh(Inner, a),
           CallbacksOK(reg', good), finalizers' \in Seq(good), UNCHANGED kept
    PROVE  AliasInv(good)'
<1> DEFINE u == Append(s, g)
<1>1. /\ StackOK(u, good) /\ u # <<>> /\ Len(u) = Len(s) + 1 /\ u[Len(s) + 1] = g
      /\ \A a \in Aliases : Owed(u, a) = Owed(s, a) + Due(g, a)
  BY ONLY StackOK(s, good), MayCall(s, g, good), PushOK
<1>2. stack' = u
  OBVIOUS
<1> HIDE DEF u
<1>3. StackOK(stack', good) /\ stack' # <<>> /\ stack'[Len(stack')] = g
  BY <1>1, <1>2
<1>4. \A a \in Aliases : Owed(stack', a) + Fresh(stack'[Len(stack')], a) = Owed(stack, a) + Fresh(Inner, a)
  BY <1>1, <1>2, <1>3
<1> QED BY <1>3, <1>4, SameAccount

LEMMA NotifyAccount ==
    ASSUME NEW good, ContextInv, AliasInv(good), stack # <<>>, ~Doomed,
           NEW s, StackOK(s, good), s # <<>>, ~Exposing(s[Len(s)]) \/ s[Len(s)].type = "share",
           \A a \in Aliases : Owed(s, a) = Owed(stack, a) + Fresh(Inner, a),
           NEW kind, NEW name, Notify(s, kind, name), UNCHANGED <<reg, finalizers, kept>>
    PROVE  AliasInv(good)'
<1>1. CallbacksOK(reg, good) /\ CallbacksOK(reg', good) /\ finalizers' \in Seq(good)
  BY DEF AliasInv
<1>2. CASE stack' = <<>> /\ phase' = "terminated"
  BY <1>1, <1>2, ClosedAccount
<1>3. CASE ~(stack' = <<>> /\ phase' = "terminated")
  <2> DEFINE todo == IF phase = "destroy" THEN <<>> ELSE Gather(reg, kind, name)
             g == Frame("notify", name, todo)
  <2>1. stack' = Append(s, g)
    BY <1>3 DEF Notify
  <2>2. CallbacksOK(todo, good)
    BY <1>1, GatheredOK, NoCallback
  <2> HIDE DEF todo
  <2>3. /\ IsFrame(g) /\ g.type = "notify" /\ FrameOK(g, good) /\ ~Exposing(g)
        /\ \A a : Fresh(g, a) = 0 /\ Due(g, a) = 0
    <3>1. IsFrame(g) /\ g.type = "notify" /\ g.todo = todo
      BY IsFrameFrame
    <3> HIDE DEF g
    <3> QED BY <2>2, <3>1, NewFrame
  <2> HIDE DEF g
  <2>4. ~Exposing(s[Len(s)])
    BY DEF Exposing
  <2>5. MayCall(s, g, good)
    BY <2>3, <2>4 DEF MayCall, AboveOK
  <2>6. ASSUME NEW a \in Aliases
        PROVE  Owed(s, a) + Due(g, a) + Fresh(g, a) = Owed(stack, a) + Fresh(Inner, a)
    <3>1. Owed(s, a) \in Nat
      BY <2>5, PushOK
    <3> QED BY <2>3, <3>1
  <2> QED BY <1>1, <2>1, <2>5, <2>6, CalledAccount
<1> QED BY <1>2, <1>3

-----------------------------------------------------------------------------
(* The steps of the notifications and of the operations *)

\* The innermost frame calls its next callback.
LEMMA NextCallback ==
    ASSUME NEW good, ContextInv, AliasInv(good), stack # <<>>, Inner.type \in {"notify", "init"}, Inner.todo # <<>>
    PROVE  LET f == [Inner EXCEPT !.todo = Tail(Inner.todo)]
           IN  /\ IsFrame(f) /\ f.type = Inner.type /\ f.name = Inner.name /\ FrameOK(f, good)
               /\ Head(Inner.todo).ops \in Seq(good)
<1> DEFINE t == Inner.todo
           f == [Inner EXCEPT !.todo = Tail(t)]
<1>1. IsFrame(Inner)
  BY BelowFacts
<1>2. IsFrame(f) /\ f.type = Inner.type /\ f.name = Inner.name /\ f.todo = Tail(t)
  BY ONLY <1>1, IsFrameTodo
<1>3. CallbacksOK(t, good)
  BY TopOK DEF AliasInv, MayCall, FrameOK
<1>4. t \in Seq(Range(t)) /\ t # <<>> /\ \A i \in DOMAIN t : t[i].ops \in Seq(good)
  BY <1>3 DEF CallbacksOK
<1> HIDE DEF t, f
<1>5. Tail(t) \in Seq(Range(t)) /\ Head(t) = t[1] /\ 1 \in DOMAIN t
  <2>1. Tail(t) \in Seq(Range(t)) /\ Head(t) = t[1]
    BY ONLY <1>4, HeadTailProperties
  <2>2. Len(t) \in Nat \ {0} /\ DOMAIN t = 1 .. Len(t)
    BY ONLY <1>4, LenProperties, EmptySeq
  <2> QED BY <2>1, <2>2
<1>6. CallbacksOK(Tail(t), good)
  BY <1>3, <1>5, CallbacksIn
<1>7. FrameOK(f, good)
  BY <1>2, <1>6 DEF FrameOK, Listed
<1> QED BY <1>2, <1>4, <1>5, <1>7 DEF f, t

LEMMA NotifyNextAliases ==
    ASSUME NEW good, UsedAsAliases(good), ContextInv, AliasInv(good), NotifyNext
    PROVE  AliasInv(good)'
<1> DEFINE f == [Inner EXCEPT !.todo = Tail(Inner.todo)]
           ops == Head(Inner.todo).ops
           g == Frame("body", Head(Inner.todo).name, ops)
           s == Append(Below, f)
<1>1. /\ stack # <<>> /\ Inner.type = "notify" /\ Inner.todo # <<>> /\ stack' = s \o <<g>>
      /\ UNCHANGED <<reg, finalizers, kept>>
  BY DEF NotifyNext, Running
<1>2. IsFrame(f) /\ f.type = "notify" /\ FrameOK(f, good) /\ ops \in Seq(good)
  BY <1>1, NextCallback
<1>3. /\ StackOK(Below, good) /\ MayCall(Below, Inner, good)
      /\ \A a \in Aliases : Owed(stack, a) = Owed(Below, a) + Due(Inner, a)
  BY <1>1, TopOK DEF AliasInv
<1>4. /\ IsFrame(g) /\ g.type = "body" /\ g.todo = ops /\ FrameOK(g, good) /\ ~Exposing(g)
      /\ \A a \in Aliases : Due(g, a) = 0 /\ Fresh(g, a) = 0
  <2> HIDE DEF ops
  <2>1. ops \in Seq(good \cup Exposures) /\ ~Starts(ops, "exposed")
    BY <1>2, GoodStart
  <2> QED BY ONLY UsedAsAliases(good), <2>1, NewBody
<1> HIDE DEF f, g, ops
<1>5. MayCall(Below, f, good)
  BY <1>1, <1>2, <1>3 DEF MayCall, AboveOK
<1>6. /\ StackOK(s, good) /\ s # <<>> /\ s[Len(s)] = f
      /\ \A a \in Aliases : Owed(s, a) = Owed(Below, a) + Due(f, a) /\ Owed(Below, a) \in Nat
  <2>1. /\ StackOK(s, good) /\ s # <<>> /\ Len(s) = Len(Below) + 1 /\ s[Len(Below) + 1] = f
        /\ \A a \in Aliases : Owed(s, a) = Owed(Below, a) + Due(f, a) /\ Owed(Below, a) \in Nat
    BY ONLY <1>3, <1>5, PushOK
  <2> HIDE DEF s
  <2> QED BY <2>1
<1> HIDE DEF s
<1>7. stack' = Append(s, g)
  BY <1>1, <1>6, ConcatAppend DEF StackOK
<1>8. ~Exposing(f) /\ ~Exposing(Inner) /\ ~Doomed
  BY <1>1, <1>2 DEF Exposing, Doomed
<1>9. MayCall(s, g, good)
  <2>1. BodyOK(f, g.todo, good)
    BY <1>2, <1>4 DEF BodyOK
  <2> QED BY <1>4, <1>6, <1>8, <2>1 DEF MayCall, AboveOK
<1>10. ASSUME NEW a \in Aliases
       PROVE  Owed(s, a) + Due(g, a) + Fresh(g, a) = Owed(stack, a) + Fresh(Inner, a)
  <2>1. Due(f, a) = 0 /\ Due(Inner, a) = 0 /\ Fresh(Inner, a) = 0
    BY <1>1, <1>2, <1>8, DueByType, FreshIsNat
  <2> QED BY <1>3, <1>4, <1>6, <2>1
<1>11. CallbacksOK(reg', good) /\ finalizers' \in Seq(good) /\ UNCHANGED kept
  BY <1>1 DEF AliasInv
<1>12. StackOK(s, good) /\ stack # <<>>
  BY <1>1, <1>6
<1> QED BY ONLY ContextInv, AliasInv(good), <1>7, <1>8, <1>9, <1>10, <1>11, <1>12, CalledAccount

LEMMA NotifyEndAliases ==
    ASSUME NEW good, UsedAsAliases(good), ContextInv, AliasInv(good), NotifyEnd
    PROVE  AliasInv(good)'
<1>1. stack # <<>> /\ Inner.type = "notify" /\ UNCHANGED <<reg, finalizers, kept>>
  BY DEF NotifyEnd, Running
<1>2. ~Exposing(Inner) /\ ~Doomed
  BY <1>1 DEF Exposing, Doomed
<1>3. CASE Inner.failed
  BY <1>1, <1>2, <1>3, ThrowAccount DEF NotifyEnd
<1>4. CASE ~Inner.failed
  BY <1>1, <1>2, <1>4, PlainReturnAccount DEF NotifyEnd
<1> QED BY <1>3, <1>4

LEMMA OperationThrowsAliases ==
    ASSUME NEW good, UsedAsAliases(good), ContextInv, AliasInv(good), OperationThrows
    PROVE  AliasInv(good)'
<1>1. Throw(Below) /\ UNCHANGED <<reg, finalizers, kept>>
  BY DEF OperationThrows
<1>2. stack # <<>> /\ Inner.type = "body" /\ ~Exposing(Inner)
  BY DEF OperationThrows, Do, Running, Exposing, Starts
<1> QED BY <1>1, <1>2, ThrowAccount

\* What the body owes is not changed by an operation that is on no alias.
LEMMA OtherOperation ==
    ASSUME NEW good, UsedAsAliases(good), ContextInv, AliasInv(good),
           NEW what, Do(what), what \notin {"share", "release", "exposed"}
    PROVE  /\ stack # <<>> /\ ~Doomed /\ Todo.op = what /\ Todo \in good
           /\ StackOK(Rest, good) /\ Rest # <<>> /\ Rest[Len(Rest)].type = "body" /\ ~Exposing(Rest[Len(Rest)])
           /\ \A a \in Aliases : Owed(Rest, a) = Owed(stack, a) + Fresh(Inner, a) /\ Owed(Rest, a) \in Nat
<1> DEFINE f == [Inner EXCEPT !.todo = Tail(@)]
<1>1. /\ stack # <<>> /\ ~Doomed /\ Todo.op = what
      /\ StackOK(Rest, good) /\ Rest # <<>> /\ Rest[Len(Rest)] = f /\ f.type = "body"
      /\ \A a \in Aliases : Owed(stack, a) = Owed(Rest, a) + (IF IsRelease(Todo, a) THEN 1 ELSE 0)
      /\ \A a \in Aliases : Fresh(Inner, a) = IF what = "exposed" /\ Todo.name = a THEN 1 ELSE 0
      /\ Exposing(f) => what = "share"
      /\ what \notin {"share", "exposed", "release"} => Todo \in good
  BY TodoOK
<1> HIDE DEF f
<1>2. \A a \in Aliases : Owed(Rest, a) \in Nat
  <2>1. \A a \in Aliases : IsFiniteSet(Places(Rest, a))
    BY <1>1 DEF StackOK
  <2> QED BY <2>1, FS_CardinalityType DEF Owed
<1>3. \A a \in Aliases : ~IsRelease(Todo, a) /\ Fresh(Inner, a) = 0
  BY <1>1 DEF IsRelease
<1>4. \A a \in Aliases : Owed(Rest, a) = Owed(stack, a) + Fresh(Inner, a)
  BY <1>1, <1>2, <1>3
<1> QED BY <1>1, <1>2, <1>4

LEMMA KeepsAliases ==
    ASSUME NEW good, UsedAsAliases(good), ContextInv, AliasInv(good),
           NEW what, Do(what), what \notin {"share", "release", "exposed"}, stack' = Rest,
           CallbacksOK(reg', good), finalizers' \in Seq(good), UNCHANGED kept
    PROVE  AliasInv(good)'
<1>1. /\ stack # <<>> /\ ~Doomed
      /\ StackOK(Rest, good) /\ Rest # <<>> /\ ~Exposing(Rest[Len(Rest)])
      /\ \A a \in Aliases : Owed(Rest, a) = Owed(stack, a) + Fresh(Inner, a) /\ Owed(Rest, a) \in Nat
  BY OtherOperation
<1>2. StackOK(stack', good) /\ stack' # <<>>
  BY <1>1
<1>3. ASSUME NEW a \in Aliases
      PROVE  Owed(stack', a) + Fresh(stack'[Len(stack')], a) = Owed(stack, a) + Fresh(Inner, a)
  <2>1. Fresh(Rest[Len(Rest)], a) = 0
    BY <1>1, FreshIsNat
  <2>2. Owed(stack', a) = Owed(Rest, a) /\ Fresh(stack'[Len(stack')], a) = Fresh(Rest[Len(Rest)], a)
    OBVIOUS
  <2> QED BY <1>1, <2>1, <2>2
<1> QED BY <1>1, <1>2, <1>3, SameAccount

LEMMA PlainOperationAliases ==
    ASSUME NEW good, UsedAsAliases(good), ContextInv, AliasInv(good), Observe \/ RegisterTrigger \/ KeepFinalizer
    PROVE  AliasInv(good)'
<1>1. CallbacksOK(reg, good) /\ finalizers \in Seq(good)
  BY DEF AliasInv
<1>2. CASE Observe
  <2>1. Do("observe") /\ stack' = Rest /\ UNCHANGED <<reg, finalizers, kept>>
    BY <1>2 DEF Observe
  <2> QED BY <1>1, <2>1, KeepsAliases
<1>3. CASE RegisterTrigger
  <2> DEFINE c == Callback(Todo.kind, Todo.name, Todo.ops)
  <2>1. Do("register") /\ stack' = Rest /\ reg' = Append(reg, c) /\ UNCHANGED <<finalizers, kept>>
    BY <1>3 DEF RegisterTrigger, On
  <2>2. Todo.op = "register" /\ Todo \in good
    BY <2>1, OtherOperation
  <2>3. c.ops \in Seq(good)
    BY <2>2 DEF Callback, UsedAsAliases
  <2> HIDE DEF c
  <2>4. CallbacksOK(reg', good)
    BY <1>1, <2>1, <2>3, OneMore
  <2> QED BY <1>1, <2>1, <2>4, KeepsAliases
<1>4. CASE KeepFinalizer
  <2>1. Do("finalizer") /\ stack' = Rest /\ finalizers' = finalizers \o Todo.ops /\ UNCHANGED <<reg, kept>>
    BY <1>4 DEF KeepFinalizer
  <2>2. Todo.op = "finalizer" /\ Todo \in good
    BY <2>1, OtherOperation
  <2>3. Todo.ops \in Seq(good)
    BY <2>2 DEF UsedAsAliases
  <2>4. finalizers' \in Seq(good)
    BY <1>1, <2>1, <2>3, ConcatProperties
  <2> QED BY <1>1, <2>1, <2>4, KeepsAliases
<1> QED BY <1>2, <1>3, <1>4

LEMMA EventBeginAliases ==
    ASSUME NEW good, UsedAsAliases(good), ContextInv, AliasInv(good), EventBegin
    PROVE  AliasInv(good)'
<1>1. Do("event") /\ Notify(Rest, "event", Todo.name) /\ UNCHANGED <<reg, finalizers, kept>>
  BY DEF EventBegin
<1>2. /\ stack # <<>> /\ ~Doomed /\ StackOK(Rest, good) /\ Rest # <<>> /\ ~Exposing(Rest[Len(Rest)])
      /\ \A a \in Aliases : Owed(Rest, a) = Owed(stack, a) + Fresh(Inner, a)
  BY <1>1, OtherOperation
<1> QED BY <1>1, <1>2, NotifyAccount

\* A frame on top of the body, that owes d.
LEMMA OnTop ==
    ASSUME NEW good, NEW s, StackOK(s, good), s # <<>>, NEW g, MayCall(s, g, good)
    PROVE  LET u == Append(s, g)
           IN  /\ StackOK(u, good) /\ u # <<>> /\ u[Len(u)] = g
               /\ \A a \in Aliases : Owed(u, a) = Owed(s, a) + Due(g, a) /\ Owed(s, a) \in Nat
<1> DEFINE u == Append(s, g)
<1>1. /\ StackOK(u, good) /\ u # <<>> /\ Len(u) = Len(s) + 1 /\ u[Len(s) + 1] = g
      /\ \A a \in Aliases : Owed(u, a) = Owed(s, a) + Due(g, a) /\ Owed(s, a) \in Nat
  BY PushOK
<1> HIDE DEF u
<1>2. StackOK(u, good) /\ u # <<>> /\ u[Len(u)] = g
  BY <1>1
<1> QED BY <1>1, <1>2 DEF u

LEMMA SetBeginAliases ==
    ASSUME NEW good, UsedAsAliases(good), ContextInv, AliasInv(good), SetBegin
    PROVE  AliasInv(good)'
<1> DEFINE g == Frame("ref", Todo.name, <<>>)
           u == Append(Rest, g)
<1>1. Do("set") /\ UNCHANGED <<reg, finalizers, kept>>
  BY DEF SetBegin
<1>2. /\ stack # <<>> /\ ~Doomed
      /\ StackOK(Rest, good) /\ Rest # <<>> /\ Rest[Len(Rest)].type = "body" /\ ~Exposing(Rest[Len(Rest)])
      /\ \A a \in Aliases : Owed(Rest, a) = Owed(stack, a) + Fresh(Inner, a) /\ Owed(Rest, a) \in Nat
  BY <1>1, OtherOperation
<1>3. CASE stack' = Rest
  <2>1. CallbacksOK(reg', good) /\ finalizers' \in Seq(good)
    BY <1>1 DEF AliasInv
  <2> QED BY <1>1, <1>3, <2>1, KeepsAliases
<1>4. CASE Notify(u, "missing", Todo.name)
  <2>1. IsFrame(g) /\ g.type = "ref"
    BY IsFrameFrame
  <2> HIDE DEF g
  <2>2. FrameOK(g, good) /\ ~Exposing(g) /\ \A a : Due(g, a) = 0
    BY <2>1, NewFrame
  <2>3. MayCall(Rest, g, good)
    BY <1>2, <2>1, <2>2 DEF MayCall, AboveOK
  <2>4. /\ StackOK(u, good) /\ u # <<>> /\ u[Len(u)] = g
        /\ \A a \in Aliases : Owed(u, a) = Owed(Rest, a) + Due(g, a)
    BY <1>2, <2>3, OnTop
  <2> HIDE DEF u
  <2>5. \A a \in Aliases : Owed(u, a) = Owed(stack, a) + Fresh(Inner, a)
    BY <1>2, <2>2, <2>4
  <2>6. ~Exposing(u[Len(u)])
    BY <2>2, <2>4
  <2> QED BY <1>1, <1>2, <1>4, <2>4, <2>5, <2>6, NotifyAccount
<1> QED BY <1>3, <1>4 DEF SetBegin

LEMMA RefEndAliases ==
    ASSUME NEW good, UsedAsAliases(good), ContextInv, AliasInv(good), RefEnd
    PROVE  AliasInv(good)'
<1>1. stack # <<>> /\ Inner.type = "ref" /\ UNCHANGED <<reg, finalizers, kept>>
  BY DEF RefEnd, Running
<1>2. ~Exposing(Inner) /\ ~Doomed
  BY <1>1 DEF Exposing, Doomed
<1>3. CASE stack' = Below
  BY <1>1, <1>2, <1>3, PlainReturnAccount
<1>4. CASE Throw(Below)
  BY <1>1, <1>2, <1>4, ThrowAccount
<1> QED BY <1>3, <1>4 DEF RefEnd

LEMMA ShareBeginAliases ==
    ASSUME NEW good, UsedAsAliases(good), ContextInv, AliasInv(good), ShareBegin
    PROVE  AliasInv(good)'
<1> DEFINE g == Frame("share", Todo.name, <<>>)
           u == Append(Rest, g)
           f == [Inner EXCEPT !.todo = Tail(@)]
<1>1. Do("share") /\ Notify(u, "data", Todo.name) /\ UNCHANGED <<reg, finalizers, kept>>
  BY DEF ShareBegin
<1>2. /\ stack # <<>> /\ ~Doomed /\ Todo.op = "share"
      /\ StackOK(Rest, good) /\ Rest # <<>> /\ Rest[Len(Rest)] = f /\ f.type = "body"
      /\ \A a \in Aliases : Owed(stack, a) = Owed(Rest, a) + (IF IsRelease(Todo, a) THEN 1 ELSE 0)
      /\ \A a \in Aliases : Fresh(Inner, a) = 0
      /\ Exposing(f) => Head(f.todo).name = Todo.name
      /\ Todo.name \in Aliases => Exposing(f)
  BY <1>1, TodoOK
<1>3. IsFrame(g) /\ g.type = "share" /\ g.name = Todo.name
  BY IsFrameFrame
<1> HIDE DEF f, g
<1>4. FrameOK(g, good) /\ ~Exposing(g) /\ \A a : Due(g, a) = 0
  BY <1>3, NewFrame
<1>5. MayCall(Rest, g, good)
  BY <1>2, <1>3, <1>4 DEF MayCall, AboveOK
<1>6. /\ StackOK(u, good) /\ u # <<>> /\ u[Len(u)] = g
      /\ \A a \in Aliases : Owed(u, a) = Owed(Rest, a) + Due(g, a) /\ Owed(Rest, a) \in Nat
  BY <1>2, <1>5, OnTop
<1> HIDE DEF u
<1>7. \A a \in Aliases : Owed(u, a) = Owed(stack, a) + Fresh(Inner, a)
  <2>1. \A a \in Aliases : ~IsRelease(Todo, a)
    BY <1>2 DEF IsRelease
  <2> QED BY <1>2, <1>4, <1>6, <2>1
<1>8. ~Exposing(u[Len(u)])
  BY <1>4, <1>6
<1> QED BY <1>1, <1>2, <1>6, <1>7, <1>8, NotifyAccount

LEMMA ReleaseBeginAliases ==
    ASSUME NEW good, UsedAsAliases(good), ContextInv, AliasInv(good), ReleaseBegin
    PROVE  AliasInv(good)'
<1> DEFINE g == Frame("release", Todo.name, <<>>)
           u == Append(Rest, g)
           f == [Inner EXCEPT !.todo = Tail(@)]
<1>1. Do("release") /\ UNCHANGED <<reg, finalizers, kept>>
  BY DEF ReleaseBegin
<1>2. CASE Throw(Below)
  <2>1. stack # <<>> /\ Inner.type = "body" /\ ~Exposing(Inner)
    BY <1>1 DEF Do, Running, Exposing, Starts
  <2> QED BY <1>1, <1>2, <2>1, ThrowAccount
<1>3. CASE Notify(u, "remove", Todo.name)
  <2>1. /\ stack # <<>> /\ ~Doomed /\ Todo.op = "release"
        /\ StackOK(Rest, good) /\ Rest # <<>> /\ Len(Rest) = Len(stack)
        /\ Rest[Len(Rest)] = f /\ f.type = "body"
        /\ \A i \in DOMAIN Below : Rest[i] = stack[i]
        /\ \A a \in Aliases : Owed(stack, a) = Owed(Rest, a) + (IF IsRelease(Todo, a) THEN 1 ELSE 0)
        /\ \A a \in Aliases : Fresh(Inner, a) = 0
        /\ ~Exposing(f)
        /\ Todo.name \in Aliases => Len(stack) > 1 /\ stack[Len(stack) - 1].type = "dtor"
    <3>1. PICK what : what = "release"
      OBVIOUS
    <3>2. Do(what)
      BY <1>1, <3>1
    <3>3. /\ stack # <<>> /\ ~Doomed /\ Todo.op = what
          /\ StackOK(Rest, good) /\ Rest # <<>> /\ Len(Rest) = Len(stack)
          /\ Rest[Len(Rest)] = f /\ f.type = "body"
          /\ \A i \in DOMAIN Below : Rest[i] = stack[i]
          /\ \A a \in Aliases : Owed(stack, a) = Owed(Rest, a) + (IF IsRelease(Todo, a) THEN 1 ELSE 0)
          /\ \A a \in Aliases : Fresh(Inner, a) = IF what = "exposed" /\ Todo.name = a THEN 1 ELSE 0
          /\ Exposing(f) => what = "share"
          /\ what = "release" /\ Todo.name \in Aliases => Len(stack) > 1 /\ stack[Len(stack) - 1].type = "dtor"
      BY ONLY UsedAsAliases(good), ContextInv, AliasInv(good), <3>2, TodoOK
    <3> HIDE DEF f
    <3> QED BY <3>1, <3>3
  <2>2. IsFrame(g) /\ g.type = "release" /\ g.name = Todo.name
    BY IsFrameFrame
  <2> HIDE DEF f, g
  <2>3. FrameOK(g, good) /\ ~Exposing(g) /\ \A a : Due(g, a) = IF Todo.name = a THEN 1 ELSE 0
    BY <2>2, NewFrame
  <2>4. Todo.name \in Aliases => Len(Rest) > 1 /\ Rest[Len(Rest) - 1].type = "dtor"
    <3> SUFFICES ASSUME Todo.name \in Aliases PROVE Len(Rest) > 1 /\ Rest[Len(Rest) - 1].type = "dtor"
      OBVIOUS
    <3>1. Len(stack) - 1 \in DOMAIN Below
      <4>1. Len(stack) \in Nat \ {0} /\ DOMAIN Below = 1 .. (Len(stack) - 1)
        BY <2>1, BelowFacts
      <4> QED BY <2>1, <4>1
    <3> QED BY <2>1, <3>1
  <2>5. MayCall(Rest, g, good)
    BY <2>1, <2>2, <2>3, <2>4 DEF MayCall, AboveOK
  <2>6. /\ StackOK(u, good) /\ u # <<>> /\ u[Len(u)] = g
        /\ \A a \in Aliases : Owed(u, a) = Owed(Rest, a) + Due(g, a) /\ Owed(Rest, a) \in Nat
    BY <2>1, <2>5, OnTop
  <2> HIDE DEF u
  <2>7. \A a \in Aliases : Owed(u, a) = Owed(stack, a) + Fresh(Inner, a)
    <3>1. \A a \in Aliases : IsRelease(Todo, a) <=> Todo.name = a
      BY <2>1 DEF IsRelease
    <3> QED BY <2>1, <2>3, <2>6, <3>1
  <2>8. ~Exposing(u[Len(u)])
    BY <2>3, <2>6
  <2> QED BY <1>1, <1>3, <2>1, <2>6, <2>7, <2>8, NotifyAccount
<1> QED BY <1>2, <1>3 DEF ReleaseBegin

\* The share or the release of an alias is over.
LEMMA StoreEndAliases ==
    ASSUME NEW good, UsedAsAliases(good), ContextInv, AliasInv(good), ShareEnd \/ (ReleaseEnd /\ shared[Inner.name] > 0)
    PROVE  AliasInv(good)'
<1> DEFINE f == Below[Len(Below)]
<1>1. stack # <<>> /\ stack' = Below /\ UNCHANGED <<reg, finalizers>> /\ Inner.type \in {"share", "release"}
  BY DEF ShareEnd, ReleaseEnd, Running
<1>2. ~Doomed /\ ~Exposing(Inner)
  BY <1>1 DEF Doomed, Exposing
<1>3. MayCall(Below, Inner, good) /\ IsFrame(Inner)
  BY <1>1, TopOK DEF AliasInv, MayCall
<1>4. Below # <<>>
  <2>1. /\ Len(stack) \in Nat \ {0} /\ Len(Below) = Len(stack) - 1 /\ IsStack(Below)
        /\ Inner = stack[Len(stack)] /\ stack[1].type \in Bases
    BY <1>1, BelowFacts
  <2>2. Len(stack) # 1
    BY <1>1, <2>1 DEF Bases
  <2>3. Len(Below) # 0 /\ Len(<<>>) = 0
    BY <2>1, <2>2
  <2> QED BY <2>3, Zenon
<1>5. AboveOK(f, Inner, good)
  BY <1>3, <1>4 DEF MayCall
<1>6. kept \in [Data -> Int] /\ Aliases \subseteq Data
  BY DEF ContextInv, UsedAsAliases
<1>7. ASSUME NEW a \in Aliases
      PROVE  kept'[a] = kept[a] - Due(Inner, a) - Fresh(Inner, a)
                          + (IF Below = <<>> THEN 0 ELSE Fresh(Below[Len(Below)], a))
  <2>1. Fresh(Inner, a) = 0 /\ Due(Inner, a) = IF Inner.type = "release" /\ Inner.name = a THEN 1 ELSE 0
    BY <1>1, <1>2, FreshIsNat, DueByType
  <2>2. kept[a] \in Int
    BY <1>6
  <2>3. CASE ShareEnd
    <3>1. Inner.type = "share" /\ kept' = [kept EXCEPT ![Inner.name] = @ + 1]
      BY <2>3 DEF ShareEnd, Running
    <3>2. kept'[a] = kept[a] + (IF Inner.name = a THEN 1 ELSE 0)
      BY <1>6, <2>2, <3>1
    <3>3. Fresh(f, a) = IF Inner.name = a THEN 1 ELSE 0
      BY <1>5, <3>1 DEF AboveOK, Fresh
    <3> HIDE DEF f
    <3> QED BY <1>4, <2>1, <2>2, <3>1, <3>2, <3>3 DEF f
  <2>4. CASE ReleaseEnd /\ shared[Inner.name] > 0
    <3>1. Inner.type = "release" /\ kept' = [kept EXCEPT ![Inner.name] = @ - 1]
      BY <2>4 DEF ReleaseEnd, Running
    <3>2. kept'[a] = kept[a] - (IF Inner.name = a THEN 1 ELSE 0)
      BY <1>6, <2>2, <3>1
    <3>3. Fresh(f, a) = 0
      BY <1>5, <3>1, FreshIsNat DEF AboveOK
    <3> HIDE DEF f
    <3> QED BY <1>4, <2>1, <2>2, <3>1, <3>2, <3>3 DEF f
  <2> QED BY <2>3, <2>4
<1> QED BY <1>1, <1>2, <1>7, ReturnAccount

\* A callback removed the data before release() pops it: ref() looks for it.
LEMMA ReleaseLooksAliases ==
    ASSUME NEW good, ContextInv, AliasInv(good), ReleaseEnd, ~(shared[Inner.name] > 0)
    PROVE  AliasInv(good)'
<1> DEFINE g == Frame("ref", Inner.name, <<>>)
           u == Append(stack, g)
<1>1. stack # <<>> /\ Inner.type = "release" /\ Notify(u, "missing", Inner.name) /\ UNCHANGED <<reg, finalizers, kept>>
  BY DEF ReleaseEnd, Running
<1>2. ~Doomed /\ ~Exposing(Inner) /\ StackOK(stack, good) /\ Inner = stack[Len(stack)]
  BY <1>1 DEF Doomed, Exposing, AliasInv, Inner
<1>3. IsFrame(g) /\ g.type = "ref"
  BY IsFrameFrame
<1> HIDE DEF g
<1>4. FrameOK(g, good) /\ ~Exposing(g) /\ \A a : Due(g, a) = 0
  BY <1>3, NewFrame
<1>5. MayCall(stack, g, good)
  BY <1>1, <1>2, <1>3, <1>4 DEF MayCall, AboveOK
<1>6. /\ StackOK(u, good) /\ u # <<>> /\ u[Len(u)] = g
      /\ \A a \in Aliases : Owed(u, a) = Owed(stack, a) + Due(g, a) /\ Owed(stack, a) \in Nat
  BY <1>1, <1>2, <1>5, OnTop
<1> HIDE DEF u
<1>7. \A a \in Aliases : Owed(u, a) = Owed(stack, a) + Fresh(Inner, a)
  <2>1. \A a \in Aliases : Fresh(Inner, a) = 0
    BY <1>2, FreshIsNat
  <2> QED BY <1>4, <1>6, <2>1
<1>8. ~Exposing(u[Len(u)])
  BY <1>4, <1>6
<1> QED BY <1>1, <1>2, <1>6, <1>7, <1>8, NotifyAccount

LEMMA StackOverflowAliases ==
    ASSUME NEW good, AliasInv(good), StackOverflow
    PROVE  AliasInv(good)'
<1>1. CallbacksOK(reg', good) /\ finalizers' \in Seq(good) /\ stack' = <<>> /\ phase' = "terminated"
  BY DEF AliasInv, StackOverflow
<1> QED BY <1>1, ClosedAccount

LEMMA BodyEndAliases ==
    ASSUME NEW good, ContextInv, AliasInv(good), BodyEnd
    PROVE  AliasInv(good)'
<1>1. /\ stack # <<>> /\ Inner.type = "body" /\ Inner.todo = <<>> /\ stack' = Below
      /\ UNCHANGED <<reg, finalizers, kept>>
  BY DEF BodyEnd, Running
<1>2. ~Doomed
  BY <1>1 DEF Doomed
<1> QED BY <1>1, <1>2, PlainReturnAccount

LEMMA OperationAliases ==
    ASSUME NEW good, UsedAsAliases(good), ContextInv, AliasInv(good), Operation
    PROVE  AliasInv(good)'
  BY OperationThrowsAliases, PlainOperationAliases, ShareBeginAliases, StoreEndAliases, ReleaseLooksAliases,
     ReleaseBeginAliases, StackOverflowAliases, EventBeginAliases, SetBeginAliases, RefEndAliases, BodyEndAliases
     DEF Operation

-----------------------------------------------------------------------------
(* The steps of user_code *)

\* A call that executes operations.
LEMMA CalledTwice ==
    ASSUME NEW good, ContextInv, AliasInv(good), stack # <<>>, ~Doomed,
           NEW s, StackOK(s, good), NEW h, MayCall(s, h, good), ~Exposing(h),
           NEW g, IsFrame(g), FrameOK(g, good), g.type = "body", BodyOK(h, g.todo, good),
           stack' = Append(Append(s, h), g),
           \A a \in Aliases : Owed(s, a) + Due(h, a) + Due(g, a) + Fresh(g, a) = Owed(stack, a) + Fresh(Inner, a),
           UNCHANGED <<reg, finalizers, kept>>
    PROVE  AliasInv(good)'
<1> DEFINE u == Append(s, h)
<1>1. /\ StackOK(u, good) /\ u # <<>> /\ Len(u) = Len(s) + 1 /\ u[Len(s) + 1] = h
      /\ \A a \in Aliases : Owed(u, a) = Owed(s, a) + Due(h, a)
  BY ONLY StackOK(s, good), MayCall(s, h, good), PushOK
<1>2. stack' = Append(u, g)
  OBVIOUS
<1> HIDE DEF u
<1>3. u[Len(u)] = h
  BY <1>1
<1>4. MayCall(u, g, good)
  BY <1>3 DEF MayCall, AboveOK
<1>5. \A a \in Aliases : Owed(u, a) + Due(g, a) + Fresh(g, a) = Owed(stack, a) + Fresh(Inner, a)
  BY <1>1
<1>6. CallbacksOK(reg', good) /\ finalizers' \in Seq(good)
  BY DEF AliasInv
<1> QED BY <1>1, <1>2, <1>4, <1>5, <1>6, CalledAccount

\* A body calls something that executes operations.
LEMMA CallInBody ==
    ASSUME NEW good, UsedAsAliases(good), ContextInv, AliasInv(good),
           NEW what, Do(what), what \notin {"share", "release", "exposed"},
           NEW h, IsFrame(h), FrameOK(h, good), h.type \in {"api", "function", "scope"},
           \A a \in Aliases : Due(h, a) = 0,
           NEW ops \in Seq(good \cup Exposures), ~Starts(ops, "exposed"), BodyOK(h, ops, good),
           stack' = Append(Append(Rest, h), Frame("body", NoName, ops)),
           UNCHANGED <<reg, finalizers, kept>>
    PROVE  AliasInv(good)'
<1> DEFINE g == Frame("body", NoName, ops)
<1>1. /\ stack # <<>> /\ ~Doomed /\ StackOK(Rest, good) /\ Rest # <<>> /\ ~Exposing(Rest[Len(Rest)])
      /\ \A a \in Aliases : Owed(Rest, a) = Owed(stack, a) + Fresh(Inner, a) /\ Owed(Rest, a) \in Nat
  BY OtherOperation
<1>2. ~Exposing(h) /\ MayCall(Rest, h, good)
  BY <1>1 DEF MayCall, AboveOK, Exposing
<1>3. /\ IsFrame(g) /\ g.type = "body" /\ g.todo = ops /\ FrameOK(g, good)
      /\ \A a \in Aliases : Due(g, a) = 0 /\ Fresh(g, a) = 0
  BY ONLY UsedAsAliases(good), ops \in Seq(good \cup Exposures), ~Starts(ops, "exposed"), NewBody
<1>4. stack' = Append(Append(Rest, h), g)
  OBVIOUS
<1> HIDE DEF g
<1>5. \A a \in Aliases : Owed(Rest, a) + Due(h, a) + Due(g, a) + Fresh(g, a) = Owed(stack, a) + Fresh(Inner, a)
  BY <1>1, <1>3
<1> QED BY <1>1, <1>2, <1>3, <1>4, <1>5, CalledTwice

LEMMA ScopeBeginAliases ==
    ASSUME NEW good, UsedAsAliases(good), ContextInv, AliasInv(good), ScopeBegin
    PROVE  AliasInv(good)'
<1> DEFINE h == Frame("scope", NoName, StopTimer)
           e == Op("event", "user_code_stop_timer")
           ops == Todo.ops
<1>1. Do("scope") /\ stack' = Rest \o <<h, Frame("body", NoName, ops)>> /\ UNCHANGED <<reg, finalizers, kept>>
  BY DEF ScopeBegin
<1>2. Todo.op = "scope" /\ Todo \in good /\ StackOK(Rest, good)
  BY <1>1, OtherOperation
<1>3. InScope(ops, good) /\ ~Starts(ops, "exposed") /\ ops \in Seq(good \cup Exposures)
  BY <1>2 DEF UsedAsAliases, InScope
<1>4. StopTimer = <<e>> /\ e.op = "event" /\ e \in good
  BY DEF StopTimer, Op, UsedAsAliases
<1>5. IsFrame(h) /\ h.type = "scope" /\ h.todo = StopTimer
  BY IsFrameFrame
<1>6. stack' = Append(Append(Rest, h), Frame("body", NoName, ops))
  BY <1>1, <1>2, ConcatAppend DEF StackOK
<1> HIDE DEF h, e, ops
<1>7. /\ StopTimer \in Seq(good \cup Releases) /\ StopTimer \in Seq(Range(StopTimer))
      /\ StopTimer # <<>> /\ Last(StopTimer) = e /\ DOMAIN StopTimer = {1} /\ StopTimer[1] = e
  <2>1. <<e>> \in Seq(good \cup Releases) /\ <<e>> # <<>> /\ DOMAIN <<e>> = {1} /\ <<e>>[1] = e /\ Len(<<e>>) = 1
    BY <1>4
  <2>2. <<e>> \in Seq(Range(<<e>>))
    BY <2>1, SeqOfRange
  <2> QED BY <1>4, <2>1, <2>2 DEF Last
<1>8. FrameOK(h, good)
  BY <1>5, <1>7 DEF FrameOK, Listed
<1>9. ASSUME NEW a \in Aliases PROVE Due(h, a) = 0
  <2>1. Items(h, a) = {}
    BY <1>4, <1>5, <1>7 DEF Items
  <2> QED BY <2>1, DueNothing
<1>10. BodyOK(h, ops, good)
  BY <1>3, <1>4, <1>5, <1>7 DEF BodyOK
<1>11. Do("scope") /\ UNCHANGED <<reg, finalizers, kept>>
  BY <1>1
<1>12. \E what : what \notin {"share", "release", "exposed"} /\ Do(what)
  BY <1>11
<1>13. h.type \in {"api", "function", "scope"}
  BY <1>5
<1> QED BY ONLY UsedAsAliases(good), ContextInv, AliasInv(good), <1>3, <1>5, <1>6, <1>8, <1>9, <1>10, <1>11, <1>12, <1>13, CallInBody

LEMMA FunctionAliases ==
    ASSUME NEW good, UsedAsAliases(good), ContextInv, AliasInv(good), FunctionBegin \/ ApiCall
    PROVE  AliasInv(good)'
<1> DEFINE type == IF FunctionBegin THEN "function" ELSE "api"
           h == Frame(type, NoName, <<>>)
           ops == Todo.ops
           g == Frame("body", NoName, ops)
<1>1. PICK what : what \in {"function", "api"} /\ Do(what)
  BY DEF FunctionBegin, ApiCall
<1>2. UNCHANGED <<reg, finalizers, kept>> /\ (stack' = Rest \o <<h>> \o <<g>> \/ stack' = Rest \o <<h>> \o <<>> \/ stack' = Rest \o <<h, g>>)
  BY DEF FunctionBegin, ApiCall
<1>3. /\ stack # <<>> /\ ~Doomed /\ Todo.op = what /\ Todo \in good
      /\ StackOK(Rest, good) /\ Rest # <<>> /\ ~Exposing(Rest[Len(Rest)])
      /\ \A a \in Aliases : Owed(Rest, a) = Owed(stack, a) + Fresh(Inner, a) /\ Owed(Rest, a) \in Nat
  BY <1>1, OtherOperation
<1>4. ops \in Seq(good) /\ ops \in Seq(good \cup Exposures) /\ ~Starts(ops, "exposed")
  <2>1. ops \in Seq(good)
    BY <1>1, <1>3 DEF UsedAsAliases
  <2> QED BY <2>1, GoodStart
<1>5. IsFrame(h) /\ h.type \in {"api", "function"}
  BY IsFrameFrame
<1> HIDE DEF h, ops
<1>6. FrameOK(h, good) /\ ~Exposing(h) /\ \A a : Due(h, a) = 0 /\ Fresh(h, a) = 0
  BY <1>5, NewFrame
<1>7. BodyOK(h, ops, good)
  BY <1>4, <1>5 DEF BodyOK
<1>8. MayCall(Rest, h, good)
  BY <1>3, <1>5, <1>6 DEF MayCall, AboveOK
<1>9. /\ IsStack(Rest) /\ IsStack(Append(Rest, h)) /\ Rest \o <<h>> = Append(Rest, h)
      /\ Rest \o <<h, g>> = Append(Append(Rest, h), g)
      /\ Append(Rest, h) \o <<g>> = Append(Append(Rest, h), g)
      /\ Append(Rest, h) \o <<>> = Append(Rest, h)
  <2>1. IsStack(Rest) /\ IsStack(Append(Rest, h))
    BY <1>3, <1>5, StackAppend DEF StackOK
  <2>2. Append(Rest, h) \o <<>> = Append(Rest, h)
    BY <2>1, ConcatEmptySeq DEF IsStack
  <2> QED BY <2>1, <2>2, ConcatAppend
<1>10. CASE stack' = Append(Append(Rest, h), g)
  <2>1. h.type \in {"api", "function", "scope"}
    BY <1>5
  <2> QED BY <1>1, <1>2, <1>4, <1>5, <1>6, <1>7, <1>10, <2>1, CallInBody DEF g
<1>11. CASE stack' = Append(Rest, h)
  <2>1. \A a \in Aliases : Owed(Rest, a) + Due(h, a) + Fresh(h, a) = Owed(stack, a) + Fresh(Inner, a)
    BY <1>3, <1>6
  <2>2. CallbacksOK(reg', good) /\ finalizers' \in Seq(good)
    BY <1>2 DEF AliasInv
  <2> QED BY <1>2, <1>3, <1>8, <1>11, <2>1, <2>2, CalledAccount
<1> QED BY <1>2, <1>9, <1>10, <1>11

LEMMA FunctionEndAliases ==
    ASSUME NEW good, UsedAsAliases(good), ContextInv, AliasInv(good), FunctionEnd \/ ScopeEnd
    PROVE  AliasInv(good)'
<1>1. CASE FunctionEnd
  <2>1. stack # <<>> /\ Inner.type = "function" /\ stack' = Below /\ UNCHANGED <<reg, finalizers, kept>>
    BY <1>1 DEF FunctionEnd, Running
  <2>2. ~Doomed
    BY <2>1 DEF Doomed
  <2> QED BY <2>1, <2>2, PlainReturnAccount
<1>2. CASE ScopeEnd
  <2>1. stack # <<>> /\ Inner.type = "scope" /\ Inner.todo = <<>> /\ UNCHANGED <<reg, finalizers, kept>>
    BY <1>2 DEF ScopeEnd, Running
  <2>2. ~Exposing(Inner) /\ ~Doomed
    BY <2>1 DEF Exposing, Doomed
  <2>3. CASE Throw(Below)
    BY <2>1, <2>2, <2>3, ThrowAccount
  <2>4. CASE stack' = Below
    BY <2>1, <2>2, <2>4, PlainReturnAccount
  <2> QED BY <1>2, <2>3, <2>4 DEF ScopeEnd
<1> QED BY <1>1, <1>2

LEMMA ScopeDestructorAliases ==
    ASSUME NEW good, UsedAsAliases(good), ContextInv, AliasInv(good), ScopeDestructor
    PROVE  AliasInv(good)'
<1> DEFINE t == Inner.todo
           f == [Inner EXCEPT !.todo = Tail(Inner.todo)]
           s == Append(Below, f)
           h == Frame("dtor", NoName, <<>>)
           op == Head(t)
           g == Frame("body", NoName, <<op>>)
<1>1. /\ stack # <<>> /\ Inner.type = "scope" /\ t # <<>> /\ stack' = s \o <<h, g>>
      /\ UNCHANGED <<reg, finalizers, kept>>
  BY DEF ScopeDestructor, Running
<1>2. ~Doomed /\ ~Exposing(Inner)
  BY <1>1 DEF Doomed, Exposing
<1>3. /\ StackOK(Below, good) /\ MayCall(Below, Inner, good)
      /\ \A a \in Aliases : /\ Owed(stack, a) = Owed(Below, a) + Due(Inner, a)
                            /\ Owed(Below, a) \in Nat /\ Due(Inner, a) \in Nat
  BY <1>1, TopOK DEF AliasInv
<1>4. IsFrame(Inner) /\ Listed(Inner) /\ t \in Seq(good \cup Releases)
  BY <1>1, <1>3 DEF MayCall, FrameOK
<1>5. IsFrame(f) /\ f.type = "scope" /\ f.name = Inner.name /\ f.todo = Tail(t)
  <2>1. IsFrame(f) /\ f.type = Inner.type /\ f.name = Inner.name /\ f.todo = Tail(t)
    BY ONLY <1>4, IsFrameTodo
  <2> QED BY <1>1, <2>1
<1>6. Listed(f) /\ \A a \in Aliases : Due(Inner, a) = Due(f, a) + (IF IsRelease(op, a) THEN 1 ELSE 0)
  <2>1. Inner.type \in {"scope", "body"} /\ Inner.todo # <<>>
    BY <1>1
  <2>2. \A a : Listed(f) /\ Due(Inner, a) = Due(f, a) + (IF IsRelease(op, a) THEN 1 ELSE 0)
    BY ONLY <1>4, <2>1, DueTail
  <2> QED BY <2>2
<1>7. op \in good \cup Releases /\ Tail(t) \in Seq(good \cup Releases)
  BY <1>1, <1>4, HeadTailProperties
<1>8. /\ Listed(g) /\ \A a : Due(g, a) = IF IsRelease(op, a) THEN 1 ELSE 0
  <2> HIDE DEF op
  <2> QED BY DueOne
<1>9. IsFrame(g) /\ g.type = "body" /\ g.todo = <<op>> /\ IsFrame(h) /\ h.type = "dtor"
  BY IsFrameFrame
<1> HIDE DEF t, f, h, op, g
<1>10. MayCall(Below, f, good)
  <2>1. FrameOK(f, good)
    BY <1>5, <1>6, <1>7 DEF FrameOK
  <2> QED BY <1>1, <1>3, <1>5, <2>1 DEF MayCall, AboveOK
<1>11. /\ StackOK(s, good) /\ s # <<>> /\ Len(s) = Len(Below) + 1 /\ s[Len(Below) + 1] = f
       /\ \A a \in Aliases : Owed(s, a) = Owed(Below, a) + Due(f, a) /\ Due(f, a) \in Nat
  BY ONLY <1>3, <1>10, PushOK
<1> HIDE DEF s
<1>12. s[Len(s)] = f /\ ~Exposing(f)
  BY <1>5, <1>11 DEF Exposing
<1>13. FrameOK(h, good) /\ ~Exposing(h) /\ \A a : Due(h, a) = 0
  BY <1>9, NewFrame
<1>14. MayCall(s, h, good)
  BY <1>9, <1>12, <1>13 DEF MayCall, AboveOK
<1>15. <<op>> \in Seq(good \cup Releases) /\ op.op # "exposed"
  <2>1. \A x \in Releases : x.op # "exposed"
    BY DEF Releases, Op
  <2>2. \A x \in good : x.op # "exposed"
    BY DEF UsedAsAliases
  <2> QED BY <1>7, <2>1, <2>2
<1>16. FrameOK(g, good) /\ BodyOK(h, g.todo, good)
  BY <1>8, <1>9, <1>15 DEF FrameOK, BodyOK
<1>17. \A a : Fresh(g, a) = 0
  <2>1. ~Starts(<<op>>, "exposed")
    <3>1. Head(<<op>>) = op
      OBVIOUS
    <3> QED BY <1>15, <3>1 DEF Starts
  <2> QED BY <1>9, <2>1, FreshIsNat DEF Exposing
<1>18. stack' = Append(Append(s, h), g)
  BY <1>1, <1>11, ConcatAppend DEF StackOK
<1>19. ASSUME NEW a \in Aliases
       PROVE  Owed(s, a) + Due(h, a) + Due(g, a) + Fresh(g, a) = Owed(stack, a) + Fresh(Inner, a)
  <2>1. Fresh(Inner, a) = 0
    BY <1>2, FreshIsNat
  <2>2. /\ Owed(stack, a) = Owed(Below, a) + Due(Inner, a) /\ Owed(Below, a) \in Nat
        /\ Owed(s, a) = Owed(Below, a) + Due(f, a) /\ Due(f, a) \in Nat
        /\ Due(Inner, a) = Due(f, a) + Due(g, a) /\ Due(g, a) \in {0, 1}
        /\ Due(h, a) = 0 /\ Fresh(g, a) = 0
    BY <1>3, <1>6, <1>8, <1>11, <1>13, <1>17
  <2> QED BY <2>1, <2>2
<1>20. stack # <<>> /\ UNCHANGED <<reg, finalizers, kept>> /\ StackOK(s, good)
  BY <1>1, <1>11
<1> QED BY ONLY ContextInv, AliasInv(good), <1>2, <1>9, <1>13, <1>14, <1>16, <1>18, <1>19, <1>20, CalledTwice

\* The alias that was shared is kept in its scope.
LEMMA AliasExposedAliases ==
    ASSUME NEW good, UsedAsAliases(good), ContextInv, AliasInv(good), AliasExposed
    PROVE  AliasInv(good)'
<1> DEFINE k == Len(stack) - 1
           name == Todo.name
           f == [Inner EXCEPT !.todo = Tail(@)]
           c == stack[k]
           x == KeepAlias(c.todo, name)
           h == [c EXCEPT !.todo = x]
           b == SubSeq(Below, 1, Len(Below) - 1)
           u == Append(b, h)
           v == Append(u, f)
<1>1. /\ Do("exposed") /\ UNCHANGED <<reg, finalizers, kept>>
      /\ stack' = [Rest EXCEPT ![k].todo = KeepAlias(@, name)]
  BY DEF AliasExposed
<1>2. /\ stack # <<>> /\ ~Doomed
      /\ StackOK(Rest, good) /\ Rest # <<>> /\ Len(Rest) = Len(stack)
      /\ Rest[Len(Rest)] = f /\ f.type = "body"
      /\ \A i \in DOMAIN Below : Rest[i] = stack[i]
      /\ \A a \in Aliases : Owed(stack, a) = Owed(Rest, a) + (IF IsRelease(Todo, a) THEN 1 ELSE 0)
      /\ \A a \in Aliases : Fresh(Inner, a) = IF Todo.name = a THEN 1 ELSE 0
      /\ ~Exposing(f) /\ Todo.op = "exposed"
      /\ Len(stack) > 1 /\ c.type = "scope" /\ Todo \in Exposures
      /\ c.todo # <<>> /\ Last(c.todo).op = "event"
  <2>1. PICK what : what = "exposed"
    OBVIOUS
  <2>2. Do(what)
    BY <1>1, <2>1
  <2>3. /\ stack # <<>> /\ ~Doomed /\ Todo.op = what
        /\ StackOK(Rest, good) /\ Rest # <<>> /\ Len(Rest) = Len(stack)
        /\ Rest[Len(Rest)] = f /\ f.type = "body"
        /\ \A i \in DOMAIN Below : Rest[i] = stack[i]
        /\ \A a \in Aliases : Owed(stack, a) = Owed(Rest, a) + (IF IsRelease(Todo, a) THEN 1 ELSE 0)
        /\ \A a \in Aliases : Fresh(Inner, a) = IF what = "exposed" /\ Todo.name = a THEN 1 ELSE 0
        /\ Exposing(f) => what = "share"
        /\ what = "exposed" =>
              /\ Len(stack) > 1 /\ c.type = "scope" /\ Todo \in Exposures
              /\ c.todo # <<>> /\ Last(c.todo).op = "event"
    BY ONLY UsedAsAliases(good), ContextInv, AliasInv(good), <2>2, TodoOK
  <2> HIDE DEF f, c
  <2> QED BY <2>1, <2>3
<1>3. /\ Len(stack) \in Nat \ {0} /\ IsStack(Below) /\ Len(Below) = k /\ DOMAIN Below = 1 .. k
      /\ \A i \in DOMAIN Below : Below[i] = stack[i]
      /\ StackOK(Below, good)
  BY <1>2, BelowFacts, TopOK DEF AliasInv
<1>4. k \in Nat /\ k > 0 /\ k + 1 = Len(stack) /\ k \in DOMAIN Below /\ Below # <<>> /\ Below[Len(Below)] = c
  <2>1. k \in Nat /\ k > 0 /\ k + 1 = Len(stack) /\ k \in 1 .. k
    BY <1>2, <1>3
  <2>2. Below # <<>>
    BY <1>3, <2>1, StackFacts
  <2> QED BY <1>3, <2>1, <2>2
<1>5. Rest = Append(Below, f)
  BY DEF Rest
<1>6. /\ StackOK(b, good) /\ MayCall(b, c, good) /\ Below = Append(b, c) /\ k = Len(b) + 1
      /\ \A i \in DOMAIN b : b[i] = Below[i]
      /\ \A a \in Aliases : Owed(Below, a) = Owed(b, a) + Due(c, a) /\ Owed(b, a) \in Nat /\ Due(c, a) \in Nat
  <2>1. LET d == SubSeq(Below, 1, Len(Below) - 1)
            e == Below[Len(Below)]
        IN  /\ StackOK(d, good) /\ MayCall(d, e, good) /\ Below = Append(d, e) /\ Len(Below) = Len(d) + 1
            /\ \A i \in DOMAIN d : d[i] = Below[i]
            /\ \A a \in Aliases : Owed(Below, a) = Owed(d, a) + Due(e, a) /\ Owed(d, a) \in Nat /\ Due(e, a) \in Nat
    BY ONLY <1>3, <1>4, SplitTop
  <2> QED BY <1>3, <1>4, <2>1
<1> HIDE DEF b
<1>7. IsFrame(c) /\ Listed(c) /\ c.todo \in Seq(good \cup Releases)
  BY <1>2, <1>6 DEF MayCall, FrameOK
<1>8. Op("release", name) \in good \cup Releases /\ Op("event", "user_code_stop_timer") \in good \cup Releases
  <2>1. \A op \in Exposures : op.name \in Data
    BY DEF Exposures, Op
  <2>2. name \in Data
    BY <1>2, <2>1
  <2> QED BY <2>2 DEF Releases, UsedAsAliases
<1>9. /\ Listed(h) /\ h.todo # <<>> /\ Last(h.todo).op = "event"
      /\ \A a : Due(h, a) = Due(c, a) + (IF name = a THEN 1 ELSE 0)
      /\ h.todo \in Seq(good \cup Releases)
  <2> HIDE DEF name, c
  <2>1. c.type = "scope" /\ c.todo # <<>> /\ Last(c.todo).op = "event"
    BY <1>2
  <2>2. ASSUME NEW a
        PROVE  /\ Listed(h) /\ h.todo # <<>> /\ Last(h.todo).op = "event"
               /\ Due(h, a) = Due(c, a) + (IF name = a THEN 1 ELSE 0)
               /\ \A S : c.todo \in Seq(S) /\ Op("release", name) \in S /\ Op("event", "user_code_stop_timer") \in S
                            => h.todo \in Seq(S)
    <3>1. PICK d : d = c
      OBVIOUS
    <3>2. IsFrame(d) /\ d.type = "scope" /\ Listed(d) /\ d.todo # <<>> /\ Last(d.todo).op = "event"
      BY <1>7, <2>1, <3>1
    <3>3. LET e == [d EXCEPT !.todo = KeepAlias(d.todo, name)]
          IN  /\ Listed(e) /\ e.todo # <<>> /\ Last(e.todo).op = "event"
              /\ Due(e, a) = Due(d, a) + (IF name = a THEN 1 ELSE 0)
              /\ \A S : d.todo \in Seq(S) /\ Op("release", name) \in S /\ Op("event", "user_code_stop_timer") \in S
                           => e.todo \in Seq(S)
      BY ONLY <3>2, DueKept, SMTT(30)
    <3> QED BY ONLY <3>1, <3>3, Zenon
  <2> HIDE DEF h
  <2>3. \A S : c.todo \in Seq(S) /\ Op("release", name) \in S /\ Op("event", "user_code_stop_timer") \in S
            => h.todo \in Seq(S)
    BY <2>2
  <2>4. h.todo \in Seq(good \cup Releases)
    BY <1>7, <1>8, <2>3
  <2> QED BY <2>2, <2>4
<1>10. IsFrame(h) /\ h.type = "scope" /\ h.name = c.name
  <2> HIDE DEF x, c
  <2>1. IsFrame(h) /\ h.type = c.type /\ h.name = c.name
    BY ONLY <1>7, IsFrameTodo
  <2> QED BY <1>2, <2>1
<1>11. MayCall(b, h, good)
  <2> HIDE DEF h, c
  <2>1. FrameOK(h, good)
    BY <1>9, <1>10 DEF FrameOK
  <2> QED BY <1>2, <1>6, <1>10, <2>1 DEF MayCall, AboveOK
<1>12. IsFrame(f) /\ FrameOK(f, good) /\ BodyOK(h, f.todo, good)
  <2>1. k + 1 \in DOMAIN Rest /\ k + 1 > 1 /\ (k + 1) - 1 = k /\ Rest[k + 1] = f /\ Rest[k] = c
    <3>1. IsStack(Rest)
      BY <1>2 DEF StackOK
    <3>2. DOMAIN Rest = 1 .. Len(Rest)
      BY <3>1, StackFacts
    <3> QED BY <1>2, <1>3, <1>4, <3>2
  <2> HIDE DEF k, f, c, h
  <2>2. IsFrame(f) /\ FrameOK(f, good) /\ AboveOK(c, f, good)
    BY <1>2, <2>1 DEF StackOK, IsStack
  <2>3. InScope(f.todo, good)
    BY <1>2, <2>2 DEF AboveOK, BodyOK
  <2> QED BY <1>9, <1>10, <2>2, <2>3 DEF BodyOK
<1>13. /\ StackOK(u, good) /\ u # <<>> /\ Len(u) = Len(b) + 1 /\ u[Len(b) + 1] = h
       /\ \A i \in DOMAIN b : u[i] = b[i]
  <2> HIDE DEF h
  <2> QED BY ONLY <1>6, <1>11, PushOK
<1>14. stack' = v
  <2>1. stack' = [Rest EXCEPT ![k] = h]
    <3>1. k \in DOMAIN Rest /\ Rest[k] = c
      <4>1. IsStack(Rest)
        BY <1>2 DEF StackOK
      <4>2. DOMAIN Rest = 1 .. Len(Rest)
        BY <4>1, StackFacts
      <4>3. k \in DOMAIN Rest
        BY <1>2, <1>3, <1>4, <4>2
      <4> QED BY <1>2, <1>4, <4>3
    <3> QED BY <1>1, <3>1
  <2> HIDE DEF k, h, f, u
  <2>2. /\ IsStack(Rest) /\ DOMAIN Rest = 1 .. Len(Rest) /\ Len(Rest) = k + 1
        /\ k \in DOMAIN Rest /\ k + 1 \in DOMAIN Rest /\ k \in Nat
    <3>1. IsStack(Rest)
      BY <1>2 DEF StackOK
    <3>2. DOMAIN Rest = 1 .. Len(Rest) /\ Len(Rest) = k + 1
      BY <1>2, <1>4, <3>1, StackFacts
    <3> QED BY <1>4, <3>1, <3>2
  <2>3. PICK w : w = stack'
    OBVIOUS
  <2>4. /\ IsStack(w) /\ Len(w) = k + 1 /\ w[k] = h
        /\ \A i \in DOMAIN Rest : i # k => w[i] = Rest[i]
    <3>1. w = [Rest EXCEPT ![k] = h]
      BY <2>1, <2>3
    <3>2. /\ IsStack([Rest EXCEPT ![k] = h]) /\ Len([Rest EXCEPT ![k] = h]) = Len(Rest)
          /\ [Rest EXCEPT ![k] = h][k] = h
          /\ \A i \in DOMAIN Rest : i # k => [Rest EXCEPT ![k] = h][i] = Rest[i]
      BY ONLY <1>10, <2>2, StackExcept
    <3> QED BY <2>2, <3>1, <3>2
  <2>5. /\ IsStack(v) /\ Len(v) = Len(u) + 1 /\ v[Len(u) + 1] = f
        /\ \A i \in DOMAIN u : v[i] = u[i]
    <3>1. IsStack(u)
      BY <1>13 DEF StackOK
    <3> QED BY ONLY <1>12, <3>1, StackAppend
  <2> HIDE DEF v
  <2>6. Len(u) = k /\ u[k] = h /\ DOMAIN u = 1 .. k /\ DOMAIN b = 1 .. (k - 1)
    <3>1. IsStack(u) /\ IsStack(b)
      BY <1>6, <1>13 DEF StackOK
    <3>2. Len(u) = k /\ u[k] = h /\ Len(b) = k - 1
      BY <1>6, <1>13, <2>2, <3>1, StackFacts
    <3> QED BY <3>1, <3>2, StackFacts
  <2>7. ASSUME NEW i \in 1 .. k + 1 PROVE w[i] = v[i]
    <3>1. i = k + 1 \/ i = k \/ i \in 1 .. (k - 1)
      BY <2>2
    <3>2. CASE i = k + 1
      <4>1. w[k + 1] = Rest[k + 1] /\ Rest[k + 1] = f
        BY <1>2, <2>2, <2>4
      <4> QED BY <2>5, <2>6, <3>2, <4>1
    <3>3. CASE i = k
      <4>1. k \in DOMAIN u
        BY <1>4, <2>6
      <4> QED BY <2>4, <2>5, <2>6, <3>3, <4>1
    <3>4. CASE i \in 1 .. (k - 1)
      <4>1. i \in DOMAIN u /\ i \in DOMAIN b /\ i # k /\ i \in DOMAIN Rest /\ i \in DOMAIN Below
        BY <1>3, <2>2, <2>6, <3>4 DEF k
      <4>2. v[i] = b[i] /\ b[i] = Below[i]
        BY <1>6, <1>13, <2>5, <4>1
      <4>3. w[i] = Rest[i] /\ Rest[i] = Below[i]
        BY <1>2, <1>3, <2>4, <4>1
      <4> QED BY <4>2, <4>3
    <3> QED BY <3>1, <3>2, <3>3, <3>4
  <2>8. w = v
    <3>1. Len(w) = k + 1 /\ Len(v) = k + 1 /\ \A i \in 1 .. Len(w) : w[i] = v[i]
      BY <2>4, <2>5, <2>6, <2>7
    <3> QED BY <2>4, <2>5, <3>1, SameStack
  <2> QED BY <2>3, <2>8
<1>15. ASSUME NEW a \in Aliases
       PROVE  Owed(b, a) + Due(h, a) + Due(f, a) + Fresh(f, a) = Owed(stack, a) + Fresh(Inner, a)
  <2> HIDE DEF h, f
  <2>1. Owed(Rest, a) = Owed(Below, a) + Due(f, a) /\ Due(f, a) \in Nat
    <3>1. IsFiniteSet(Places(Below, a)) /\ Listed(f) /\ IsStack(Below)
      BY <1>3, <1>12 DEF StackOK, FrameOK
    <3>2. /\ Owed(Append(Below, f), a) = Owed(Below, a) + Due(f, a)
          /\ Due(f, a) \in Nat
      BY ONLY <1>12, <3>1, OwedAppend
    <3> QED BY <1>5, <3>2
  <2>2. ~IsRelease(Todo, a)
    BY <1>2 DEF IsRelease
  <2>3. Owed(stack, a) = Owed(Rest, a) /\ Fresh(Inner, a) = (IF name = a THEN 1 ELSE 0) /\ Fresh(f, a) = 0
    <3>1. Owed(Rest, a) \in Nat
      BY <1>6, <2>1
    <3> QED BY <1>2, <2>2, <3>1, FreshIsNat
  <2> HIDE DEF name, c
  <2>4. /\ Owed(Below, a) = Owed(b, a) + Due(c, a) /\ Owed(b, a) \in Nat /\ Due(c, a) \in Nat
        /\ Due(h, a) = Due(c, a) + (IF name = a THEN 1 ELSE 0)
    BY <1>6, <1>9
  <2> QED BY <2>1, <2>3, <2>4
<1>16. ~Exposing(h)
  BY <1>10 DEF Exposing
<1>17. /\ stack # <<>> /\ ~Doomed /\ StackOK(b, good) /\ f.type = "body" /\ UNCHANGED <<reg, finalizers, kept>>
       /\ stack' = Append(Append(b, h), f)
  BY <1>1, <1>2, <1>6, <1>14
<1> HIDE DEF h, f, v, u
<1> QED BY ONLY ContextInv, AliasInv(good), <1>11, <1>12, <1>15, <1>16, <1>17, CalledTwice

LEMMA CodeAliases ==
    ASSUME NEW good, UsedAsAliases(good), ContextInv, AliasInv(good), CodeStep
    PROVE  AliasInv(good)'
  BY ScopeBeginAliases, FunctionAliases, FunctionEndAliases, ScopeDestructorAliases, AliasExposedAliases DEF CodeStep

-----------------------------------------------------------------------------
(* The life of the aliases *)

\* No call is in progress: no alias is kept.
LEMMA NoAlias ==
    ASSUME NEW good, AliasInv(good), stack = <<>>, phase # "terminated"
    PROVE  \A a \in Aliases : kept[a] = 0
<1>1. ~Doomed
  BY DEF Doomed
<1>2. \A a \in Aliases : kept[a] = Account(<<>>, a)
  BY <1>1 DEF AliasInv
<1> QED BY <1>2, EmptyOK

\* A function of the API or a destructor is called.
LEMMA CallAliases ==
    ASSUME NEW good, UsedAsAliases(good), AliasInv(good), \A a \in Aliases : kept[a] = 0,
           NEW type \in {"api", "dtor"}, NEW name, NEW ops \in Seq(good),
           stack' = <<Frame(type, name, <<>>), Frame("body", NoName, ops)>>, UNCHANGED <<reg, finalizers, kept>>
    PROVE  AliasInv(good)'
<1> DEFINE f == Frame(type, name, <<>>)
           s == <<f, Frame("body", NoName, ops)>>
<1>1. IsFrame(f) /\ f.type = type
  BY IsFrameFrame
<1>2. stack' = s
  OBVIOUS
<1> HIDE DEF f
<1>3. FrameOK(f, good) /\ f.type \in Bases
  BY <1>1, NewFrame DEF Bases
<1>4. StackOK(s, good) /\ s # <<>> /\ \A a \in Aliases : Owed(s, a) = 0 /\ Fresh(s[Len(s)], a) = 0
  BY ONLY UsedAsAliases(good), ops \in Seq(good), <1>1, <1>3, BodyOpened
<1> HIDE DEF s
<1>5. StackOK(stack', good) /\ stack' # <<>> /\ \A a \in Aliases : Owed(stack', a) = 0 /\ Fresh(stack'[Len(stack')], a) = 0
  BY <1>2, <1>4
<1> QED BY <1>5, OpenedAccount

LEMMA NoContextAliases ==
    ASSUME NEW good, UsedAsAliases(good), NoContext
    PROVE  AliasInv(good)'
<1>1. stack' = <<>> /\ reg' = <<>> /\ finalizers' = <<>> /\ \A d \in Data : kept'[d] = 0
  BY DEF NoContext
<1>2. CallbacksOK(reg', good) /\ finalizers' \in Seq(good)
  BY <1>1, NoCallback
<1> QED BY <1>1, <1>2, ClosedAccount DEF UsedAsAliases

\* The context changes, with no call in progress.
LEMMA StillNoAlias ==
    ASSUME NEW good, AliasInv(good), stack = <<>>, phase # "terminated",
           CallbacksOK(reg', good), UNCHANGED <<finalizers, stack, kept>>
    PROVE  AliasInv(good)'
<1>1. \A a \in Aliases : kept'[a] = 0
  BY NoAlias
<1>2. finalizers' \in Seq(good) /\ stack' = <<>>
  BY DEF AliasInv
<1> QED BY <1>1, <1>2, ClosedAccount

LEMMA LoadedCallbacks ==
    ASSUME NEW good, UsedAsAliases(good), LoadPlugins, phase' = "data"
    PROVE  CallbacksOK(reg', good) /\ UNCHANGED <<finalizers, stack, kept>>
<1>1. PICK others \in SUBSET {"observer", "user_code"} :
        reg' = <<Callback("init", NoName, Config)>>
                  \o (IF "observer" \in others THEN Observers ELSE <<>>)
                  \o (IF "user_code" \in others THEN UserTriggers ELSE <<>>)
  BY DEF LoadPlugins, NoContext
<1>2. UNCHANGED <<finalizers, stack, kept>>
  BY DEF LoadPlugins, NoContext
<1> DEFINE c == Callback("init", NoName, Config)
           x == IF "observer" \in others THEN Observers ELSE <<>>
           y == IF "user_code" \in others THEN UserTriggers ELSE <<>>
<1>3. c.ops \in Seq(good)
  BY DEF Callback, UsedAsAliases
<1> HIDE DEF c
<1>5. CallbacksOK(<<c>>, good)
  <2>1. <<c>> \in Seq({c}) /\ \A d \in {c} : d.ops \in Seq(good)
    BY <1>3
  <2> QED BY ONLY <2>1, CallbacksOver
<1>6. CallbacksOK(x, good)
  BY NoCallback DEF UsedAsAliases
<1>7. CallbacksOK(y, good)
  BY NoCallback DEF UsedAsAliases
<1>8. reg' = (<<c>> \o x) \o y
  BY <1>1 DEF c
<1> HIDE DEF x, y
<1>9. CallbacksOK((<<c>> \o x) \o y, good)
  <2>1. CallbacksOK(<<c>> \o x, good)
    BY <1>5, <1>6, BothOK
  <2> QED BY <1>7, <2>1, BothOK
<1> QED BY <1>2, <1>8, <1>9

LEMMA LoadDataAliases ==
    ASSUME NEW good, UsedAsAliases(good), ContextInv, AliasInv(good), LoadData
    PROVE  AliasInv(good)'
<1>1. CASE NoContext
  BY <1>1, NoContextAliases
<1>2. CASE stack' = <<Frame("init", NoName, OfKind(reg, "init"))>> /\ UNCHANGED <<reg, finalizers, kept>>
  <2> DEFINE f == Frame("init", NoName, OfKind(reg, "init"))
  <2>1. IsFrame(f) /\ f.type = "init" /\ f.todo = OfKind(reg, "init") /\ stack' = <<f>>
    BY <1>2, IsFrameFrame
  <2> HIDE DEF f
  <2>2. CallbacksOK(f.todo, good)
    BY <2>1, GatheredOK DEF AliasInv
  <2>3. FrameOK(f, good) /\ f.type \in Bases
    BY <2>1, <2>2 DEF FrameOK, Listed, Bases
  <2>4. /\ StackOK(<<f>>, good) /\ <<f>> # <<>> /\ Len(<<f>>) = 1 /\ <<f>>[1] = f
        /\ \A a \in Aliases : Owed(<<f>>, a) = 0 /\ Fresh(f, a) = 0
    BY <2>1, <2>3, BaseOpened
  <2>5. PICK s : s = <<f>>
    OBVIOUS
  <2>6. StackOK(s, good) /\ s # <<>> /\ \A a \in Aliases : Owed(s, a) = 0 /\ Fresh(s[Len(s)], a) = 0
    BY <2>4, <2>5
  <2>7. StackOK(stack', good) /\ stack' # <<>> /\ \A a \in Aliases : Owed(stack', a) = 0 /\ Fresh(stack'[Len(stack')], a) = 0
    BY <2>1, <2>5, <2>6
  <2>8. \A a \in Aliases : kept[a] = 0
    BY NoAlias DEF LoadData, ContextInv
  <2> QED BY <1>2, <2>7, <2>8, OpenedAccount
<1> QED BY <1>1, <1>2 DEF LoadData

\* PDI_init, up to notify_init.
LEMMA ConstructorAliases ==
    ASSUME NEW good, UsedAsAliases(good), ContextInv, AliasInv(good),
           PDI_init \/ GetIncludes \/ LoadTypes \/ LoadPlugins \/ LoadData
    PROVE  AliasInv(good)'
<1>1. stack = <<>> /\ phase # "terminated"
  BY DEF PDI_init, GetIncludes, LoadTypes, LoadPlugins, LoadData, ContextInv
<1>2. CallbacksOK(reg, good)
  BY DEF AliasInv
<1>3. CASE NoContext
  BY <1>3, NoContextAliases
<1>4. CASE UNCHANGED <<reg, finalizers, stack, kept>>
  BY <1>1, <1>2, <1>4, StillNoAlias
<1>5. CASE LoadPlugins
  <2>1. CASE phase' = "data"
    BY <1>1, <1>5, <2>1, LoadedCallbacks, StillNoAlias
  <2> QED BY <1>3, <1>5, <2>1 DEF LoadPlugins
<1>6. CASE LoadData
  BY <1>6, LoadDataAliases
<1> QED BY <1>3, <1>4, <1>5, <1>6 DEF PDI_init, GetIncludes, LoadTypes, contextVars

LEMMA NotifyInitAliases ==
    ASSUME NEW good, UsedAsAliases(good), ContextInv, AliasInv(good), NotifyInitNext \/ NotifyInitEnd
    PROVE  AliasInv(good)'
<1>1. stack # <<>> /\ Inner.type = "init" /\ UNCHANGED <<reg, finalizers, shared, kept>> /\ Running("init")
  BY DEF NotifyInitNext, NotifyInitEnd, Running
<1>2. ~Doomed /\ ~Exposing(Inner) /\ CallbacksOK(reg', good) /\ finalizers' \in Seq(good)
  BY <1>1 DEF Doomed, Exposing, AliasInv
<1>3. \A a \in Aliases : kept[a] = 0
  <2>1. Below = <<>>
    <3>1. Len(stack) = 1
      BY <1>1, InitFacts
    <3>2. IsStack(Below) /\ Len(Below) = 0
      BY <1>1, <3>1, BelowFacts
    <3> QED BY <3>2, StackFacts
  <2>2. ASSUME NEW a \in Aliases PROVE kept[a] = 0
    <3>1. Owed(stack, a) = Owed(Below, a) + Due(Inner, a)
      BY <1>1, TopOK DEF AliasInv
    <3>2. Owed(Below, a) = 0 /\ Due(Inner, a) = 0 /\ Fresh(Inner, a) = 0
      BY <1>1, <1>2, <2>1, PlacesEmpty, DueByType, FreshIsNat
    <3>3. kept[a] = Owed(stack, a) + Fresh(Inner, a)
      BY <1>1, <1>2, AccountTop
    <3> QED BY <3>1, <3>2, <3>3
  <2> QED BY <2>2
<1>4. CASE NotifyInitNext
  <2> DEFINE f == [Inner EXCEPT !.todo = Tail(Inner.todo)]
             ops == Head(Inner.todo).ops
             s == <<f, Frame("body", NoName, ops)>>
  <2>1. Inner.todo # <<>> /\ stack' = s
    BY <1>4 DEF NotifyInitNext
  <2>2. IsFrame(f) /\ f.type = "init" /\ FrameOK(f, good) /\ ops \in Seq(good)
    BY <1>1, <2>1, NextCallback
  <2> HIDE DEF f, ops
  <2>3. f.type \in Bases
    BY <2>2 DEF Bases
  <2>4. StackOK(s, good) /\ s # <<>> /\ \A a \in Aliases : Owed(s, a) = 0 /\ Fresh(s[Len(s)], a) = 0
    BY ONLY UsedAsAliases(good), <2>2, <2>3, BodyOpened
  <2> HIDE DEF s
  <2>5. StackOK(stack', good) /\ stack' # <<>> /\ \A a \in Aliases : Owed(stack', a) = 0 /\ Fresh(stack'[Len(stack')], a) = 0
    BY <2>1, <2>4
  <2> QED BY <1>1, <1>3, <2>5, OpenedAccount
<1>5. CASE NotifyInitEnd
  <2>1. CASE Inner.failed
    <3>1. stack' = <<>> /\ \A a \in Aliases : kept'[a] = 0
      BY <1>1, <1>3, <1>5, <2>1 DEF NotifyInitEnd
    <3> QED BY <1>2, <3>1, ClosedAccount
  <2>2. CASE ~Inner.failed
    <3> DEFINE ops == <<Op("event", "pdi_start_timer")>>
    <3>1. stack' = <<Frame("api", "init", <<>>), Frame("body", NoName, ops)>>
      BY <1>5, <2>2 DEF NotifyInitEnd
    <3>2. ops \in Seq(good)
      BY DEF UsedAsAliases
    <3> HIDE DEF ops
    <3> QED BY <1>1, <1>3, <3>1, <3>2, CallAliases
  <2> QED BY <2>1, <2>2
<1> QED BY <1>4, <1>5

\* The functions of the API, and the end of the context.
LEMMA ApiAliases ==
    ASSUME NEW good, UsedAsAliases(good), ContextInv, AliasInv(good),
           \/ UserCall \/ PDI_finalize \/ ApiReturn \/ DestructorReturn \/ DestroyStore
           \/ \E p \in plugins : DestroyPlugin(p)
    PROVE  AliasInv(good)'
<1>1. CallbacksOK(reg, good) /\ finalizers \in Seq(good)
  BY DEF AliasInv
<1>2. CASE UserCall
  <2>1. PICK op \in Callers : stack' = <<Frame("api", NoName, <<>>), Frame("body", NoName, <<op>>)>>
    BY <1>2 DEF UserCall
  <2>2. <<op>> \in Seq(good)
    BY DEF UsedAsAliases
  <2>3. \A a \in Aliases : kept[a] = 0
    BY <1>2, NoAlias DEF UserCall
  <2>4. UNCHANGED <<reg, finalizers, kept>>
    BY <1>2 DEF UserCall
  <2> QED BY <2>1, <2>2, <2>3, <2>4, CallAliases
<1>3. CASE PDI_finalize
  <2> DEFINE ops == <<Op("event", "pdi_stop_timer")>>
  <2>1. stack' = <<Frame("api", "finalize", <<>>), Frame("body", NoName, ops)>> /\ UNCHANGED <<reg, finalizers, kept>>
    BY <1>3 DEF PDI_finalize
  <2>2. ops \in Seq(good)
    BY DEF UsedAsAliases
  <2>3. \A a \in Aliases : kept[a] = 0
    BY <1>3, NoAlias DEF PDI_finalize
  <2> HIDE DEF ops
  <2> QED BY <2>1, <2>2, <2>3, CallAliases
<1>4. CASE ApiReturn
  <2>1. stack # <<>> /\ Inner.type = "api" /\ stack' = Below /\ UNCHANGED <<reg, finalizers, kept>>
    BY <1>4 DEF ApiReturn, Running
  <2>2. ~Doomed
    BY <2>1 DEF Doomed
  <2> QED BY <2>1, <2>2, PlainReturnAccount
<1>5. CASE DestructorReturn
  <2>1. stack # <<>> /\ Inner.type = "dtor" /\ UNCHANGED <<reg, finalizers, kept>>
    BY <1>5 DEF DestructorReturn, Running
  <2>2. CASE Inner.failed
    <3>1. stack' = <<>> /\ phase' = "terminated"
      BY <1>5, <2>2 DEF DestructorReturn
    <3> QED BY <1>1, <2>1, <3>1, ClosedAccount
  <2>3. CASE ~Inner.failed
    <3>1. stack' = Below /\ ~Doomed
      BY <1>5, <2>3 DEF DestructorReturn, Doomed
    <3> QED BY <2>1, <3>1, PlainReturnAccount
  <2> QED BY <2>2, <2>3
<1>6. CASE DestroyStore
  BY <1>6, NoContextAliases DEF DestroyStore
<1>7. CASE \E p \in plugins : DestroyPlugin(p)
  <2>1. PICK p \in plugins : DestroyPlugin(p)
    BY <1>7
  <2>2. stack = <<>> /\ phase # "terminated" /\ UNCHANGED <<reg, finalizers, kept>>
    BY <2>1 DEF DestroyPlugin
  <2>3. \A a \in Aliases : kept[a] = 0
    BY <2>2, NoAlias
  <2>4. CASE p = "set_value"
    <3>1. stack' = <<Frame("dtor", p, <<>>), Frame("body", NoName, finalizers)>>
      BY <2>1, <2>4 DEF DestroyPlugin
    <3>2. PICK ops : ops = finalizers
      OBVIOUS
    <3>3. ops \in Seq(good) /\ stack' = <<Frame("dtor", p, <<>>), Frame("body", NoName, ops)>>
      BY <1>1, <3>1, <3>2
    <3> QED BY <2>2, <2>3, <3>3, CallAliases
  <2>5. CASE p # "set_value"
    <3>1. stack' = stack
      BY <2>1, <2>5 DEF DestroyPlugin
    <3> QED BY <1>1, <2>2, <3>1, StillNoAlias
  <2> QED BY <2>4, <2>5
<1> QED BY <1>2, <1>3, <1>4, <1>5, <1>6, <1>7

LEMMA AliasStep ==
    ASSUME NEW good, UsedAsAliases(good), ContextInv, AliasInv(good), [Next]_vars
    PROVE  AliasInv(good)'
<1>1. CASE UNCHANGED vars
  <2>1. UNCHANGED <<phase, reg, finalizers, stack, kept>>
    BY <1>1 DEF vars, contextVars
  <2> QED BY <2>1 DEF AliasInv, Doomed, Inner
<1>2. CASE Next
  BY <1>2, NotifyNextAliases, NotifyEndAliases, NotifyInitAliases, ApiAliases, OperationAliases, CodeAliases,
     ConstructorAliases DEF Next, Work
<1> QED BY <1>1, <1>2

\* Whatever the user's functions, the plugins and the triggers do, whether the
\* calls return, throw or are never made, and however deep they are nested, no
\* alias of user_code is in the store once the API has returned, for every
\* configuration in which the aliases are shared and released by user_code alone.
THEOREM AliasesAllReleased ==
    ASSUME NEW CONSTANT good, UsedAsAliases(good)
    PROVE  Spec => []AliasesReleased
<1>1. Init => AliasInv(good)
  <2> SUFFICES ASSUME Init PROVE AliasInv(good)
    OBVIOUS
  <2>1. stack = <<>> /\ reg = <<>> /\ finalizers = <<>> /\ \A d \in Data : kept[d] = 0
    BY DEF Init
  <2>2. StackOK(stack, good) /\ \A a \in Aliases : kept[a] = Account(stack, a)
    BY <2>1, EmptyOK DEF UsedAsAliases
  <2>3. CallbacksOK(reg, good) /\ finalizers \in Seq(good)
    BY <2>1, NoCallback
  <2> QED BY <2>2, <2>3 DEF AliasInv
<1>2. ContextInv /\ AliasInv(good) /\ [Next]_vars => AliasInv(good)'
  BY AliasStep
<1>3. ContextInv /\ AliasInv(good) => AliasesReleased
  <2> SUFFICES ASSUME ContextInv, AliasInv(good), phase # "terminated", stack = <<>>, NEW a \in Aliases
               PROVE  shared[a] = 0
    BY DEF AliasesReleased
  <2>1. a \in Data /\ kept[a] = 0
    BY NoAlias DEF UsedAsAliases
  <2>2. shared[a] = kept[a] + Undone(<<>>, a)
    BY <2>1 DEF ContextInv, StoreIsBalanced
  <2> QED BY <2>1, <2>2, UndoneEmpty
<1> QED BY <1>1, <1>2, <1>3, ContextInvHolds, PTL DEF Spec

=============================================================================

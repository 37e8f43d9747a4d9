-------------------------- MODULE PluginStoreProofs --------------------------
(***************************************************************************)
(* Theorems about the plugins of a context, for any list of plugins, any   *)
(* dependencies that they report and any of their constructors throwing.   *)
(***************************************************************************)
EXTENDS PluginStore, FiniteSetTheorems, FunctionTheorems, SequenceTheorems,
        WellFoundedInduction, NaturalsInduction, TLAPS

Names == Available \cup {Absent}

TypeOK ==
    /\ phase \in {"preload", "load", "run", "unload"}
    /\ m_plugins \subseteq Available
    /\ stored \subseteq Available
    /\ m_state \in [Available -> {"PRELOADED", "LOADING", "LOADED"}]
    /\ m_dependencies \in [Available -> SUBSET Available]
    /\ constructed \subseteq Available
    /\ required \in [Available -> SUBSET Names]
    /\ before \in [Available -> SUBSET Names]
    /\ loading \in Seq(Frames)
    /\ position \in 0 .. Len(Plugins)
    /\ errors \subseteq [plugin : Available, kind : Kinds]

\* The map and the objects own only objects that exist, and the plugins that
\* run belong to such objects; a plugin owns nothing before it is loaded.
OwnersLive ==
    /\ phase = "preload" => \A p \in Available : m_dependencies[p] = {}
    /\ m_plugins \subseteq stored
    /\ constructed \subseteq stored
    /\ \A p \in stored : m_dependencies[p] \subseteq stored

\* The calls in progress come from the loop of load_plugins(), are for
\* distinct plugins of the map, and are what LOADING stands for.
CallsAreLoading ==
    /\ loading # <<>> => phase = "load" /\ position > 0
    /\ \A i \in DOMAIN loading :
          loading[i].plugin \in m_plugins /\ m_state[loading[i].plugin] = "LOADING"
    /\ \A i, j \in DOMAIN loading : loading[i].plugin = loading[j].plugin => i = j

\* q was loaded for the call number i, or is being loaded by the call that
\* it made.
Served(i, q) ==
    \/ m_state[q] = "LOADED"
    \/ i < Len(loading) /\ loading[i + 1].plugin = q

\* What the two loops of a call have passed is served; of the plugins that
\* must only be loaded before, those that are in the map.
PassedIsServed ==
    \A i \in DOMAIN loading :
        /\ \A q \in required[loading[i].plugin] \ loading[i].required :
              q \in m_plugins /\ Served(i, q)
        /\ \A q \in before[loading[i].plugin] \ loading[i].before :
              q \in m_plugins => Served(i, q)

Inv == TypeOK /\ OwnersLive /\ CallsAreLoading /\ PassedIsServed

-----------------------------------------------------------------------------
(* The calls *)

LEMMA Innermost ==
    ASSUME TypeOK, loading # <<>>
    PROVE  /\ Len(loading) \in Nat /\ Len(loading) > 0
           /\ DOMAIN loading = 1 .. Len(loading)
           /\ Len(loading) \in DOMAIN loading
           /\ Last(loading) = loading[Len(loading)]
           /\ \A i \in DOMAIN loading : loading[i] \in Frames
  BY DEF TypeOK, Last

\* A call goes on: it has passed q, and the other calls are as they were.
LEMMA WaitingCalls ==
    ASSUME TypeOK, loading # <<>>, NEW q
    PROVE  /\ Waiting(q) \in Seq(Frames)
           /\ Len(Waiting(q)) = Len(loading)
           /\ \A i \in DOMAIN loading : Waiting(q)[i].plugin = loading[i].plugin
           /\ \A i \in DOMAIN loading : i # Len(loading) => Waiting(q)[i] = loading[i]
           /\ LET f == Last(loading)
                  g == Waiting(q)[Len(loading)]
              IN  /\ g.required = f.required \ {q}
                  /\ g.before = IF q \in f.required THEN f.before ELSE f.before \ {q}
<1> DEFINE n == Len(loading)
           w == Waiting(q)
<1>1. n \in DOMAIN loading /\ loading[n] \in Frames /\ Last(loading) = loading[n]
  BY Innermost
<1>2. DOMAIN w = DOMAIN loading
  BY DEF Waiting
<1>3. \A i \in DOMAIN loading : i # n => w[i] = loading[i]
  BY <1>1 DEF Waiting
<1>4. w[n] = [plugin |-> loading[n].plugin, required |-> loading[n].required \ {q},
              before |-> IF q \in loading[n].required THEN loading[n].before
                         ELSE loading[n].before \ {q}]
  BY <1>1 DEF Waiting, Frames
<1>5. \A i \in DOMAIN loading : w[i] \in Frames
  <2>1. w[n] \in Frames
    BY <1>1, <1>4 DEF Frames
  <2> QED BY <2>1, <1>3, Innermost
<1>6. w \in Seq(Frames) /\ Len(w) = n
  <2>1. w = [i \in 1 .. n |-> w[i]]
    BY <1>2, Innermost DEF Waiting
  <2>2. n \in Nat /\ \A i \in 1 .. n : w[i] \in Frames
    BY <1>5, Innermost
  <2> HIDE DEF w
  <2> QED BY <2>1, <2>2, IsASeq, LenProperties
<1> HIDE DEF w
<1> QED BY <1>1, <1>3, <1>4, <1>6 DEF w

\* A call that waits has passed one more plugin, which is served if that
\* plugin is LOADED or is the one that the new call, if any, is for.
LEMMA WaitingServed ==
    ASSUME Inv, loading # <<>>, NEW q, Pending(q),
           q \in Last(loading).required => q \in m_plugins
    PROVE  \A i \in DOMAIN loading :
              /\ \A r \in required[loading[i].plugin] \ Waiting(q)[i].required :
                    \/ i = Len(loading) /\ r = q /\ q \in m_plugins
                    \/ r \in m_plugins /\ Served(i, r)
              /\ \A r \in before[loading[i].plugin] \ Waiting(q)[i].before :
                    \/ i = Len(loading) /\ r = q
                    \/ r \in m_plugins => Served(i, r)
<1> USE DEF Inv
<1> SUFFICES ASSUME NEW i \in DOMAIN loading
    PROVE  /\ \A r \in required[loading[i].plugin] \ Waiting(q)[i].required :
                    \/ i = Len(loading) /\ r = q /\ q \in m_plugins
                    \/ r \in m_plugins /\ Served(i, r)
           /\ \A r \in before[loading[i].plugin] \ Waiting(q)[i].before :
                    \/ i = Len(loading) /\ r = q
                    \/ r \in m_plugins => Served(i, r)
  OBVIOUS
<1>0. /\ \A r \in required[loading[i].plugin] \ loading[i].required :
            r \in m_plugins /\ Served(i, r)
      /\ \A r \in before[loading[i].plugin] \ loading[i].before :
            r \in m_plugins => Served(i, r)
  BY DEF PassedIsServed
<1>1. CASE i # Len(loading)
  <2>1. Waiting(q)[i] = loading[i]
    BY <1>1, WaitingCalls
  <2> QED BY <1>0, <2>1
<1>2. CASE i = Len(loading)
  <2>1. /\ Waiting(q)[i].required = loading[i].required \ {q}
        /\ Waiting(q)[i].before = IF q \in loading[i].required THEN loading[i].before
                                  ELSE loading[i].before \ {q}
        /\ Last(loading) = loading[i]
    BY <1>2, WaitingCalls, Innermost
  <2> QED BY <1>0, <1>2, <2>1
<1> QED BY <1>1, <1>2

-----------------------------------------------------------------------------
(* The inductive invariant *)

LEMMA InitInv ==
    ASSUME Init
    PROVE  Inv
<1>1. TypeOK
  BY PluginAssumption DEF Init, TypeOK, Names
<1>2. OwnersLive /\ CallsAreLoading /\ PassedIsServed
  BY DEF Init, OwnersLive, CallsAreLoading, PassedIsServed
<1> QED BY <1>1, <1>2 DEF Inv

\* A call of ensure_loaded() of p from the calls cs, which are those in
\* progress or have just passed p.
LEMMA VisitInv ==
    ASSUME Inv, NEW cs \in Seq(Frames), Len(cs) = Len(loading),
           NEW p \in m_plugins, NEW R \in SUBSET Names, NEW B \in SUBSET Names,
           Visit(p, cs, R, B),
           \A i \in DOMAIN loading : cs[i].plugin = loading[i].plugin,
           \A i \in DOMAIN loading :
              /\ \A r \in required[loading[i].plugin] \ cs[i].required :
                    \/ i = Len(loading) /\ r = p /\ p \in m_plugins
                    \/ r \in m_plugins /\ Served(i, r)
              /\ \A r \in before[loading[i].plugin] \ cs[i].before :
                    \/ i = Len(loading) /\ r = p
                    \/ r \in m_plugins => Served(i, r),
           m_plugins' = m_plugins, phase' = "load", position' > 0
    PROVE  /\ m_state' \in [Available -> {"PRELOADED", "LOADING", "LOADED"}]
           /\ required' \in [Available -> SUBSET Names]
           /\ before' \in [Available -> SUBSET Names]
           /\ loading' \in Seq(Frames)
           /\ CallsAreLoading' /\ PassedIsServed'
<1> DEFINE n == Len(loading)
           f == [plugin |-> p, required |-> R, before |-> B]
<1>1. TypeOK /\ CallsAreLoading /\ PassedIsServed /\ p \in Available /\ f \in Frames
  BY DEF Inv, TypeOK, Frames, Names
<1>2. /\ m_state[p] = "PRELOADED"
      /\ m_state' = [m_state EXCEPT ![p] = "LOADING"]
      /\ required' = [required EXCEPT ![p] = R]
      /\ before' = [before EXCEPT ![p] = B]
      /\ loading' = Append(cs, f)
  BY DEF Visit
<1>3. /\ loading' \in Seq(Frames) /\ Len(loading') = n + 1 /\ n \in Nat
      /\ DOMAIN loading' = 1 .. (n + 1) /\ DOMAIN loading = 1 .. n
      /\ loading'[n + 1] = f
      /\ \A i \in DOMAIN loading : loading'[i] = cs[i]
  BY <1>1, <1>2 DEF TypeOK
<1>4. \A i \in DOMAIN loading :
         /\ loading[i].plugin \in Available /\ loading[i].plugin # p
         /\ loading'[i].plugin = loading[i].plugin
  BY <1>1, <1>2, <1>3 DEF CallsAreLoading, TypeOK
<1>5. /\ m_state' \in [Available -> {"PRELOADED", "LOADING", "LOADED"}]
      /\ required' \in [Available -> SUBSET Names]
      /\ before' \in [Available -> SUBSET Names]
  BY <1>1, <1>2 DEF TypeOK
<1>6. CallsAreLoading'
  <2>1. \A i \in DOMAIN loading' :
           loading'[i].plugin \in m_plugins' /\ m_state'[loading'[i].plugin] = "LOADING"
    BY <1>1, <1>2, <1>3, <1>4 DEF CallsAreLoading, TypeOK
  <2>2. \A i, j \in DOMAIN loading' : loading'[i].plugin = loading'[j].plugin => i = j
    BY <1>1, <1>3, <1>4 DEF CallsAreLoading
  <2> QED BY <2>1, <2>2 DEF CallsAreLoading
<1>7. PassedIsServed'
  <2> SUFFICES ASSUME NEW i \in DOMAIN loading'
               PROVE  /\ \A q \in required'[loading'[i].plugin] \ loading'[i].required :
                            q \in m_plugins' /\ Served(i, q)'
                      /\ \A q \in before'[loading'[i].plugin] \ loading'[i].before :
                            q \in m_plugins' => Served(i, q)'
    BY DEF PassedIsServed
  <2>1. CASE i = n + 1
    BY <2>1, <1>1, <1>2, <1>3 DEF TypeOK
  <2>2. CASE i \in DOMAIN loading
    <3>1. /\ required'[loading'[i].plugin] = required[loading[i].plugin]
          /\ before'[loading'[i].plugin] = before[loading[i].plugin]
          /\ loading'[i] = cs[i]
      BY <2>2, <1>1, <1>2, <1>3, <1>4 DEF TypeOK
    <3>2. \A q : Served(i, q) => Served(i, q)'
      BY <2>2, <1>1, <1>2, <1>3, <1>4 DEF Served, TypeOK
    <3>3. i = n => Served(i, p)'
      BY <1>3 DEF Served
    <3> QED BY <3>1, <3>2, <3>3, <2>2
  <2> QED BY <2>1, <2>2, <1>3
<1> QED BY <1>3, <1>5, <1>6, <1>7

\* An exception empties the calls.
LEMMA ThrowInv ==
    ASSUME TypeOK, CallsAreLoading, loading # <<>>,
           NEW kind \in Kinds, Throw(kind)
    PROVE  /\ loading' \in Seq(Frames) /\ CallsAreLoading' /\ PassedIsServed'
           /\ errors' \subseteq [plugin : Available, kind : Kinds]
<1>1. position \in DOMAIN Plugins
  BY PluginAssumption DEF TypeOK, CallsAreLoading
<1>2. Loading \in Available
  BY <1>1, PluginAssumption DEF Loading
<1> QED BY <1>2 DEF Throw, TypeOK, CallsAreLoading, PassedIsServed

LEMMA PreloadInv ==
    ASSUME Inv, NEW p \in Available, Preload(p)
    PROVE  Inv'
<1> USE DEF Inv
<1>0. OwnersLive'
  BY DEF Preload, OwnersLive, TypeOK
<1>1. TypeOK'
  BY DEF Preload, TypeOK, answers, progress
<1>2. loading = <<>> /\ loading' = <<>>
  BY DEF Preload, CallsAreLoading, progress
<1>3. CallsAreLoading' /\ PassedIsServed'
  BY <1>2 DEF CallsAreLoading, PassedIsServed
<1> QED BY <1>0, <1>1, <1>3

\* The phase alone changes, and no call is in progress.
LEMMA PhaseInv ==
    ASSUME Inv, PreloadFails \/ PreloadEnds \/ LoadEnds \/ Finalize
    PROVE  Inv'
<1> USE DEF Inv
<1>1. /\ phase' \in {"load", "run", "unload"}
      /\ loading = <<>> /\ loading' = <<>> /\ position' = position /\ errors' = errors
      /\ UNCHANGED <<m_plugins, stored, m_state, m_dependencies, constructed, required, before>>
  BY DEF PreloadFails, PreloadEnds, LoadEnds, Finalize, CallsAreLoading, progress, answers
<1>2. TypeOK' /\ OwnersLive'
  BY <1>1 DEF TypeOK, OwnersLive
<1>3. CallsAreLoading' /\ PassedIsServed'
  BY <1>1 DEF CallsAreLoading, PassedIsServed
<1> QED BY <1>2, <1>3

LEMMA LoadNextInv ==
    ASSUME Inv, NEW R \in SUBSET Names, NEW B \in SUBSET Names, LoadNext(R, B)
    PROVE  Inv'
<1> USE DEF Inv
<1> DEFINE p == Plugins[position + 1]
<1>1. /\ phase = "load" /\ loading = <<>> /\ position < Len(Plugins) /\ position' = position + 1
      /\ UNCHANGED <<phase, m_plugins, stored, m_dependencies, constructed>>
  BY DEF LoadNext
<1>2. position' \in 0 .. Len(Plugins) /\ position' > 0 /\ p \in Available
  BY <1>1, PluginAssumption DEF TypeOK
<1>3. OwnersLive'
  BY <1>1 DEF OwnersLive
<1>4. CASE p \notin m_plugins \/ m_state[p] # "PRELOADED"
  <2>1. /\ UNCHANGED <<m_state, answers, loading>>
        /\ errors' = errors \/ errors' = errors \cup {[plugin |-> p, kind |-> "circular"]}
    BY <1>4 DEF LoadNext, Visit
  <2>2. TypeOK'
    BY <1>1, <1>2, <2>1 DEF TypeOK, answers, Kinds
  <2>3. CallsAreLoading' /\ PassedIsServed'
    BY <1>1, <2>1 DEF CallsAreLoading, PassedIsServed
  <2> QED BY <1>3, <2>2, <2>3
<1>5. CASE p \in m_plugins /\ m_state[p] = "PRELOADED"
  <2>1. Visit(p, <<>>, R, B) /\ UNCHANGED errors
    BY <1>5 DEF LoadNext
  <2>2. /\ m_state' \in [Available -> {"PRELOADED", "LOADING", "LOADED"}]
        /\ required' \in [Available -> SUBSET Names]
        /\ before' \in [Available -> SUBSET Names]
        /\ loading' \in Seq(Frames)
        /\ CallsAreLoading' /\ PassedIsServed'
    <3>1. DOMAIN loading = {} /\ <<>> \in Seq(Frames) /\ Len(<<>>) = Len(loading)
      BY <1>1
    <3>2. m_plugins' = m_plugins /\ phase' = "load" /\ position' > 0
      BY <1>1, <1>2
    <3> HIDE DEF p
    <3> QED BY <1>5, <2>1, <3>1, <3>2, VisitInv
  <2>3. TypeOK'
    BY <1>1, <1>2, <2>1, <2>2 DEF TypeOK
  <2> QED BY <1>3, <2>2, <2>3
<1> QED BY <1>2, <1>4, <1>5

\* The plugin of the innermost call owns one more plugin of the map.
LEMMA OwnInv ==
    ASSUME Inv, loading # <<>>, NEW q \in m_plugins, Own(q),
           UNCHANGED <<phase, m_plugins, stored, constructed>>
    PROVE  m_dependencies' \in [Available -> SUBSET Available] /\ OwnersLive'
<1>1. Last(loading).plugin \in m_plugins
  BY Innermost DEF Inv, CallsAreLoading
<1>2. phase' # "preload"
  BY DEF Inv, CallsAreLoading
<1> QED BY <1>1, <1>2 DEF Inv, TypeOK, OwnersLive, Own

LEMMA EnsureDependencyInv ==
    ASSUME Inv, NEW q \in Available, NEW R \in SUBSET Names, NEW B \in SUBSET Names,
           EnsureDependency(q, R, B)
    PROVE  Inv'
<1> USE DEF Inv
<1>1. /\ Pending(q) /\ loading # <<>> /\ q \in m_plugins /\ Own(q) /\ Visit(q, Waiting(q), R, B)
      /\ UNCHANGED <<phase, m_plugins, stored, constructed, position, errors>>
  BY DEF EnsureDependency, Pending
<1>2. m_dependencies' \in [Available -> SUBSET Available] /\ OwnersLive'
  BY <1>1, OwnInv
<1>3. Waiting(q) \in Seq(Frames) /\ Len(Waiting(q)) = Len(loading)
      /\ \A i \in DOMAIN loading : Waiting(q)[i].plugin = loading[i].plugin
  BY <1>1, WaitingCalls
<1>4. phase' = "load" /\ position' > 0
  BY <1>1 DEF CallsAreLoading
<1>5. /\ m_state' \in [Available -> {"PRELOADED", "LOADING", "LOADED"}]
      /\ required' \in [Available -> SUBSET Names]
      /\ before' \in [Available -> SUBSET Names]
      /\ loading' \in Seq(Frames)
      /\ CallsAreLoading' /\ PassedIsServed'
  <2> DEFINE cs == Waiting(q)
  <2>1. m_plugins' = m_plugins /\ cs \in Seq(Frames) /\ Len(cs) = Len(loading) /\ Visit(q, cs, R, B)
        /\ \A i \in DOMAIN loading : cs[i].plugin = loading[i].plugin
    BY <1>1, <1>3
  <2>2. \A i \in DOMAIN loading :
           /\ \A r \in required[loading[i].plugin] \ cs[i].required :
                 \/ i = Len(loading) /\ r = q /\ q \in m_plugins
                 \/ r \in m_plugins /\ Served(i, r)
           /\ \A r \in before[loading[i].plugin] \ cs[i].before :
                 \/ i = Len(loading) /\ r = q
                 \/ r \in m_plugins => Served(i, r)
    BY <1>1, WaitingServed
  <2> HIDE DEF cs
  <2> QED BY <1>1, <1>4, <2>1, <2>2, VisitInv
<1>6. TypeOK'
  BY <1>1, <1>2, <1>5 DEF TypeOK
<1> QED BY <1>2, <1>5, <1>6

\* The innermost call goes on, past a plugin that is LOADED or not in the map.
LEMMA WaitingInv ==
    ASSUME Inv, loading # <<>>, NEW q, Pending(q),
           q \in Last(loading).required => q \in m_plugins,
           q \in m_plugins => m_state[q] = "LOADED",
           loading' = Waiting(q),
           UNCHANGED <<phase, position, m_plugins, m_state, required, before>>
    PROVE  loading' \in Seq(Frames) /\ CallsAreLoading' /\ PassedIsServed'
<1> USE DEF Inv
<1>0. /\ loading' \in Seq(Frames) /\ Len(loading') = Len(loading)
      /\ \A i \in DOMAIN loading : loading'[i].plugin = loading[i].plugin
  <2>1. /\ Waiting(q) \in Seq(Frames) /\ Len(Waiting(q)) = Len(loading)
        /\ \A i \in DOMAIN loading : Waiting(q)[i].plugin = loading[i].plugin
    BY WaitingCalls, Zenon
  <2> QED BY <2>1, Zenon
<1>1. DOMAIN loading' = DOMAIN loading
  BY <1>0 DEF TypeOK
<1>2. CallsAreLoading'
  BY <1>0, <1>1 DEF CallsAreLoading
<1>3. \A i \in DOMAIN loading : \A r : Served(i, r) => Served(i, r)'
  BY <1>0, <1>1 DEF Served, TypeOK
<1>4. \A i \in DOMAIN loading, r \in m_plugins : r = q => Served(i, r)'
  BY DEF Served
<1>5. PassedIsServed'
  <2> SUFFICES ASSUME NEW i \in DOMAIN loading
               PROVE  /\ \A r \in required[loading[i].plugin] \ Waiting(q)[i].required :
                            r \in m_plugins /\ Served(i, r)'
                      /\ \A r \in before[loading[i].plugin] \ Waiting(q)[i].before :
                            r \in m_plugins => Served(i, r)'
    BY <1>0, <1>1 DEF PassedIsServed
  <2> QED BY <1>3, <1>4, WaitingServed
<1> QED BY <1>0, <1>2, <1>5

LEMMA DependencyLoadedInv ==
    ASSUME Inv, NEW q \in Available, DependencyLoaded(q)
    PROVE  Inv'
<1>1. /\ Pending(q) /\ loading # <<>> /\ q \in m_plugins /\ m_state[q] = "LOADED" /\ Own(q)
      /\ loading' = Waiting(q)
      /\ UNCHANGED <<phase, m_plugins, stored, m_state, constructed, required, before, position, errors>>
  BY DEF DependencyLoaded, Pending, answers
<1>2. m_dependencies' \in [Available -> SUBSET Available] /\ OwnersLive'
  BY <1>1, OwnInv
<1>3. loading' \in Seq(Frames) /\ CallsAreLoading' /\ PassedIsServed'
  BY <1>1, WaitingInv
<1>4. TypeOK'
  BY <1>1, <1>2, <1>3 DEF Inv, TypeOK
<1> QED BY <1>2, <1>3, <1>4 DEF Inv

LEMMA DependencyLoadingInv ==
    ASSUME Inv, NEW q \in Available, DependencyLoading(q)
    PROVE  Inv'
<1>1. /\ loading # <<>> /\ q \in m_plugins /\ Own(q) /\ Throw("circular")
      /\ UNCHANGED <<phase, m_plugins, stored, m_state, constructed, required, before, position>>
  BY DEF DependencyLoading, Pending, answers
<1>2. m_dependencies' \in [Available -> SUBSET Available] /\ OwnersLive'
  BY <1>1, OwnInv
<1>3. /\ loading' \in Seq(Frames) /\ CallsAreLoading' /\ PassedIsServed'
      /\ errors' \subseteq [plugin : Available, kind : Kinds]
  BY <1>1, ThrowInv DEF Inv, Kinds
<1>4. TypeOK'
  BY <1>1, <1>2, <1>3 DEF Inv, TypeOK
<1> QED BY <1>2, <1>3, <1>4 DEF Inv

LEMMA DependencyMissingInv ==
    ASSUME Inv, NEW q \in Names, DependencyMissing(q)
    PROVE  Inv'
<1>1. /\ Pending(q) /\ loading # <<>> /\ q \notin m_plugins
      /\ UNCHANGED <<phase, m_plugins, stored, m_state, m_dependencies, constructed, required, before, position>>
  BY DEF DependencyMissing, Pending, answers
<1>2. /\ loading' \in Seq(Frames) /\ CallsAreLoading' /\ PassedIsServed'
      /\ errors' \subseteq [plugin : Available, kind : Kinds]
  <2>1. CASE Last(loading).required # {}
    BY <1>1, <2>1, ThrowInv DEF Inv, Kinds, DependencyMissing
  <2>2. CASE Last(loading).required = {}
    <3>1. loading' = Waiting(q) /\ errors' = errors
      BY <2>2 DEF DependencyMissing
    <3>2. loading' \in Seq(Frames) /\ CallsAreLoading' /\ PassedIsServed'
      BY <1>1, <2>2, <3>1, WaitingInv
    <3> QED BY <3>1, <3>2 DEF Inv, TypeOK
  <2> QED BY <2>1, <2>2
<1>3. TypeOK' /\ OwnersLive'
  BY <1>1, <1>2 DEF Inv, TypeOK, OwnersLive
<1> QED BY <1>2, <1>3 DEF Inv

\* The innermost call returns: it has served the call that made it.
LEMMA ConstructInv ==
    ASSUME Inv, Construct
    PROVE  Inv'
<1> USE DEF Inv
<1> DEFINE n == Len(loading)
           p == Last(loading).plugin
<1>1. /\ loading # <<>>
      /\ m_state' = [m_state EXCEPT ![p] = "LOADED"]
      /\ constructed' = constructed \cup {p}
      /\ loading' = Front(loading)
      /\ UNCHANGED <<phase, m_plugins, stored, m_dependencies, required, before, position, errors>>
  BY DEF Construct, answers
<1>2. /\ n \in Nat /\ n > 0 /\ DOMAIN loading = 1 .. n /\ n \in DOMAIN loading
      /\ p = loading[n].plugin /\ p \in m_plugins /\ p \in Available
  BY <1>1, Innermost DEF CallsAreLoading, TypeOK
<1>3. /\ loading' \in Seq(Frames) /\ Len(loading') = n - 1
      /\ DOMAIN loading' = 1 .. (n - 1)
      /\ \A i \in 1 .. (n - 1) : loading'[i] = loading[i]
  <2>1. loading' = SubSeq(loading, 1, n - 1)
    BY <1>1 DEF Front
  <2> QED BY <1>2, <2>1 DEF TypeOK
<1> HIDE DEF p
<1>4. TypeOK' /\ OwnersLive'
  BY <1>1, <1>2, <1>3 DEF TypeOK, OwnersLive
<1>5. \A i \in 1 .. (n - 1) : loading[i].plugin \in Available /\ loading[i].plugin # p
  BY <1>2 DEF CallsAreLoading, TypeOK
<1>6. CallsAreLoading'
  <2>1. loading' # <<>> => phase' = "load" /\ position' > 0
    BY <1>1 DEF CallsAreLoading
  <2>2. \A i \in 1 .. (n - 1) : loading'[i].plugin \in m_plugins' /\ m_state'[loading'[i].plugin] = "LOADING"
    <3> SUFFICES ASSUME NEW i \in 1 .. (n - 1)
                 PROVE  loading'[i].plugin \in m_plugins' /\ m_state'[loading'[i].plugin] = "LOADING"
      OBVIOUS
    <3>1. loading'[i].plugin = loading[i].plugin /\ i \in DOMAIN loading
      BY <1>2, <1>3
    <3>2. loading[i].plugin \in m_plugins /\ m_state[loading[i].plugin] = "LOADING"
      BY <3>1 DEF CallsAreLoading
    <3>3. m_state'[loading[i].plugin] = m_state[loading[i].plugin]
      BY <1>1, <1>5 DEF TypeOK
    <3> QED BY <1>1, <3>1, <3>2, <3>3
  <2>3. \A i, j \in 1 .. (n - 1) : loading'[i].plugin = loading'[j].plugin => i = j
    BY <1>2, <1>3 DEF CallsAreLoading
  <2> QED BY <1>3, <2>1, <2>2, <2>3 DEF CallsAreLoading
<1>7. \A i \in 1 .. (n - 1) : \A q : Served(i, q) => Served(i, q)'
  <2> SUFFICES ASSUME NEW i \in 1 .. (n - 1), NEW q, Served(i, q)
               PROVE  Served(i, q)'
    OBVIOUS
  <2>1. CASE m_state[q] = "LOADED"
    BY <1>1, <2>1 DEF Served, TypeOK
  <2>2. CASE loading[i + 1].plugin = q /\ i + 1 = n
    BY <1>1, <1>2, <2>2 DEF Served, TypeOK
  <2>3. CASE loading[i + 1].plugin = q /\ i + 1 < n
    <3>1. i + 1 \in 1 .. (n - 1) /\ i < Len(loading')
      BY <1>2, <1>3, <2>3
    <3>2. loading'[i + 1] = loading[i + 1]
      BY <1>3, <3>1
    <3> QED BY <2>3, <3>1, <3>2 DEF Served
  <2>4. m_state[q] = "LOADED" \/ loading[i + 1].plugin = q
    BY DEF Served
  <2>5. i + 1 = n \/ i + 1 < n
    <3> HIDE DEF n, Inv
    <3> QED BY <1>2
  <2> QED BY <2>1, <2>2, <2>3, <2>4, <2>5
<1>8. PassedIsServed'
  BY <1>1, <1>2, <1>3, <1>7 DEF PassedIsServed
<1> QED BY <1>4, <1>6, <1>8

LEMMA ConstructThrowsInv ==
    ASSUME Inv, ConstructThrows
    PROVE  Inv'
<1>1. /\ loading # <<>>
      /\ m_state' = [m_state EXCEPT ![Last(loading).plugin] = "LOADED"]
      /\ Throw("constructor")
      /\ UNCHANGED <<phase, m_plugins, stored, m_dependencies, constructed, required, before, position>>
  BY DEF ConstructThrows, answers
<1>2. /\ loading' \in Seq(Frames) /\ CallsAreLoading' /\ PassedIsServed'
      /\ errors' \subseteq [plugin : Available, kind : Kinds]
  BY <1>1, ThrowInv DEF Inv, Kinds
<1>3. TypeOK' /\ OwnersLive'
  BY <1>1, <1>2 DEF Inv, TypeOK, OwnersLive
<1> QED BY <1>2, <1>3 DEF Inv

LEMMA UnloadInv ==
    ASSUME Inv, NEW p \in Available, Destroy(p) \/ GiveUp(p)
    PROVE  Inv'
<1> USE DEF Inv
<1>1. UNCHANGED <<phase, m_state, m_dependencies, required, before, loading, position, errors>>
  BY DEF Destroy, GiveUp, answers, progress
<1>2. OwnersLive' /\ m_plugins' \subseteq m_plugins /\ stored' \subseteq stored /\ constructed' \subseteq constructed
  BY <1>1 DEF Destroy, GiveUp, Unowned, OwnersLive
<1>3. loading # <<>> => m_plugins' = m_plugins
  BY DEF Destroy, GiveUp, CallsAreLoading
<1>4. TypeOK'
  BY <1>1, <1>2 DEF TypeOK
<1>5. CallsAreLoading' /\ PassedIsServed'
  <2>1. CASE loading = <<>>
    BY <1>1, <2>1 DEF CallsAreLoading, PassedIsServed
  <2>2. CASE loading # <<>>
    BY <1>1, <1>3, <2>2 DEF CallsAreLoading, PassedIsServed, Served
  <2> QED BY <2>1, <2>2
<1> QED BY <1>2, <1>4, <1>5

LEMMA NextInv ==
    ASSUME Inv, [Next]_vars
    PROVE  Inv'
<1>1. CASE \E p \in Available : Preload(p)
  BY <1>1, PreloadInv
<1>2. CASE PreloadFails \/ PreloadEnds \/ LoadEnds \/ Finalize
  BY <1>2, PhaseInv
<1>3. CASE Construct
  BY <1>3, ConstructInv
<1>4. CASE ConstructThrows
  BY <1>4, ConstructThrowsInv
<1>5. CASE \E q \in Available : DependencyLoaded(q) \/ DependencyLoading(q)
  BY <1>5, DependencyLoadedInv, DependencyLoadingInv
<1>6. CASE \E q \in Names : DependencyMissing(q)
  BY <1>6, DependencyMissingInv
<1>7. CASE \E R, B \in SUBSET Names : LoadNext(R, B)
  BY <1>7, LoadNextInv
<1>8. CASE \E R, B \in SUBSET Names : \E q \in Available : EnsureDependency(q, R, B)
  BY <1>8, EnsureDependencyInv
<1>9. CASE Unload
  BY <1>9, UnloadInv DEF Unload
<1>10. CASE UNCHANGED vars
  BY <1>10 DEF vars, answers, progress, Inv, TypeOK, OwnersLive, CallsAreLoading, PassedIsServed,
              Served
<1> QED
  BY <1>1, <1>2, <1>3, <1>4, <1>5, <1>6, <1>7, <1>8, <1>9, <1>10 DEF Next, Load, Names

THEOREM InvHolds == Spec => []Inv
<1>1. Init => Inv
  BY InitInv
<1>2. Inv /\ [Next]_vars => Inv'
  BY NextInv
<1> QED BY <1>1, <1>2, PTL DEF Spec

-----------------------------------------------------------------------------
(* The theorems *)

\* The values of the variables are of their types: the map and the objects
\* hold plugins that can be opened, a call in progress is for one of them.
THEOREM TypeCorrect == Spec => []TypeOK
<1>1. Inv => TypeOK
  BY DEF Inv
<1> QED BY <1>1, InvHolds, PTL

\* A plugin is constructed only when the constructors of all the plugins it
\* requires, and of those it wants before it that are in the map, have run
\* (Stored_plugin::ensure_loaded, plugin_store.cxx).
THEOREM DependenciesFirst == Spec => ConstructedAfterDependencies
<1> DEFINE A == \A p \in constructed' \ constructed :
                   /\ required[p] \subseteq constructed \cup Thrown
                   /\ before[p] \cap m_plugins \subseteq constructed \cup Thrown
<1>1. ASSUME Inv, [Next]_vars
      PROVE  [A]_vars
  <2> SUFFICES ASSUME NEW p \in constructed' \ constructed
               PROVE  /\ required[p] \subseteq constructed \cup Thrown
                      /\ before[p] \cap m_plugins \subseteq constructed \cup Thrown
    OBVIOUS
  <2>1. Construct
    BY <1>1 DEF Next, Load, Unload, vars, Preload, PreloadFails, PreloadEnds, LoadEnds, Finalize,
                ConstructThrows, DependencyLoaded, DependencyLoading, DependencyMissing, LoadNext,
                EnsureDependency, Destroy, GiveUp
  <2>2. /\ loading # <<>> /\ p = Last(loading).plugin
        /\ Last(loading).required = {} /\ Last(loading).before = {}
    BY <2>1 DEF Construct
  <2>3. /\ Len(loading) \in DOMAIN loading /\ Last(loading) = loading[Len(loading)]
        /\ ~(Len(loading) < Len(loading))
    BY <1>1, <2>2, Innermost DEF Inv
  <2>4. /\ \A q \in required[p] : q \in m_plugins /\ m_state[q] = "LOADED"
        /\ \A q \in before[p] : q \in m_plugins => m_state[q] = "LOADED"
    BY <1>1, <2>2, <2>3 DEF Inv, PassedIsServed, Served
  <2> QED BY <2>4 DEF Thrown
<1> QED BY <1>1, InvHolds, PTL DEF Spec, ConstructedAfterDependencies

-----------------------------------------------------------------------------
(* Circles of dependencies *)

LEMMA ReachedWithin ==
    ASSUME NEW deps, NEW p, NEW S \in SUBSET Available,
           deps[p] \subseteq S, \A r \in S : deps[r] \subseteq S
    PROVE  Reached(deps, p) \subseteq S
  BY DEF Reached

LEMMA ReachedNext ==
    ASSUME NEW deps \in [Available -> SUBSET Available], NEW p \in Available, NEW q \in deps[p]
    PROVE  q \in Available /\ q \in Reached(deps, p)
  BY DEF Reached

LEMMA ReachedAgain ==
    ASSUME NEW deps \in [Available -> SUBSET Available], NEW p \in Available, NEW q \in Reached(deps, p)
    PROVE  q \in Available /\ Reached(deps, q) \subseteq Reached(deps, p)
<1>1. q \in Available
  BY DEF Reached
<1>2. ASSUME NEW r \in Reached(deps, q) PROVE r \in Reached(deps, p)
  <2>1. r \in Available
    BY <1>2 DEF Reached
  <2>2. ASSUME NEW S \in SUBSET Available, deps[p] \subseteq S, \A x \in S : deps[x] \subseteq S
        PROVE  r \in S
    <3>1. Reached(deps, p) \subseteq S
      BY <2>2, ReachedWithin
    <3>2. deps[q] \subseteq S
      BY <2>2, <3>1
    <3>3. Reached(deps, q) \subseteq S
      BY <2>2, <3>2, ReachedWithin
    <3> QED BY <1>2, <3>3
  <2> QED BY <2>1, <2>2 DEF Reached
<1> QED BY <1>1, <1>2

LEMMA FiniteAvailable == IsFiniteSet(Available)
<1> DEFINE n == Len(Plugins)
<1>1. Plugins \in Seq(Available) /\ n \in Nat /\ DOMAIN Plugins = 1 .. n
  BY PluginAssumption
<1>2. Available = {Plugins[i] : i \in 1 .. n}
  BY <1>1 DEF Available, Range
<1>3. Plugins \in Surjection(1 .. n, Available)
  <2>1. Plugins \in [1 .. n -> Available]
    BY <1>1
  <2> QED BY <1>2, <2>1 DEF Surjection
<1>4. IsFiniteSet(1 .. n)
  BY <1>1, FS_Interval
<1> HIDE DEF n
<1> QED BY <1>3, <1>4, FS_Surjection

LEMMA Least ==
    ASSUME NEW G, G # {}, NEW m \in [G -> Nat]
    PROVE  \E q \in G : \A r \in G : m[q] <= m[r]
<1> DEFINE R == OpToRel(<, Nat)
           T == {m[q] : q \in G}
<1>1. IsWellFoundedOn(R, Nat)
  BY NatLessThanWellFounded
<1>2. T \subseteq Nat /\ T # {}
  OBVIOUS
<1>3. PICK x \in T : \A y \in T : <<y, x>> \notin R
  <2> HIDE DEF R, T
  <2> QED BY <1>1, <1>2, WFMin
<1>4. PICK q \in G : x = m[q]
  OBVIOUS
<1>5. ASSUME NEW r \in G, m[r] < m[q] PROVE FALSE
  <2>1. m[r] \in T /\ m[r] \in Nat /\ x \in Nat /\ m[r] < x
    BY <1>2, <1>4, <1>5
  <2>2. <<m[r], x>> \in R
    BY <2>1 DEF OpToRel
  <2> QED BY <2>1, <2>2, <1>3
<1>6. \A r \in G : m[r] \in Nat /\ m[q] \in Nat
  OBVIOUS
<1>7. \A r \in G : m[q] <= m[r]
  <2> HIDE DEF R, T
  <2> QED BY <1>5, <1>6
<1> QED BY <1>7

\* Along a dependency that is in no circle, less can be reached.
LEMMA ReachedLess ==
    ASSUME NEW deps \in [Available -> SUBSET Available], NEW p \in Available, NEW q \in deps[p],
           q \notin Reached(deps, q)
    PROVE  Cardinality(Reached(deps, q)) < Cardinality(Reached(deps, p))
<1> DEFINE P == Reached(deps, p)
           Q == Reached(deps, q)
<1>1. Q \subseteq P /\ q \in P /\ q \notin Q
  BY ReachedNext, ReachedAgain
<1>2. IsFiniteSet(P)
  <2>1. P \subseteq Available
    BY DEF Reached
  <2> QED BY <2>1, FiniteAvailable, FS_Subset
<1> HIDE DEF P, Q
<1>3. /\ IsFiniteSet(Q) /\ Cardinality(Q) <= Cardinality(P)
      /\ Cardinality(P) = Cardinality(Q) => P = Q
  BY <1>1, <1>2, FS_Subset
<1>4. Cardinality(Q) \in Nat /\ Cardinality(P) \in Nat
  BY <1>2, <1>3, FS_CardinalityType
<1>5. Cardinality(Q) < Cardinality(P)
  BY <1>1, <1>3, <1>4
<1> QED BY <1>5 DEF P, Q

LEMMA ReachedCount ==
    ASSUME NEW deps, NEW p
    PROVE  /\ Cardinality(Reached(deps, p)) \in Nat /\ Cardinality(Available) \in Nat
           /\ Cardinality(Reached(deps, p)) <= Cardinality(Available)
<1>1. Reached(deps, p) \subseteq Available
  BY DEF Reached
<1> QED BY <1>1, FiniteAvailable, FS_Subset, FS_CardinalityType

\* If each plugin of a set depends on one of the set, or if one of the set
\* depends on each, some plugin of the set is in a circle.
LEMMA CircleBelow ==
    ASSUME NEW deps \in [Available -> SUBSET Available], NEW G \in SUBSET Available, G # {},
           \A p \in G : \E q \in G : q \in deps[p]
    PROVE  \E p \in G : p \in Reached(deps, p)
<1> SUFFICES ASSUME \A p \in G : p \notin Reached(deps, p) PROVE FALSE
  OBVIOUS
<1> DEFINE m == [p \in G |-> Cardinality(Reached(deps, p))]
<1>1. m \in [G -> Nat]
  BY ReachedCount
<1>2. PICK p \in G : \A r \in G : m[p] <= m[r]
  <2> HIDE DEF m
  <2> QED BY <1>1, Least
<1>3. PICK q \in G : q \in deps[p]
  OBVIOUS
<1>4. m[q] < m[p]
  BY <1>3, ReachedLess
<1>5. m[p] \in Nat /\ m[q] \in Nat /\ m[p] <= m[q]
  BY <1>1, <1>2
<1> HIDE DEF m
<1> QED BY <1>4, <1>5

LEMMA CircleAbove ==
    ASSUME NEW deps \in [Available -> SUBSET Available], NEW G \in SUBSET Available, G # {},
           \A q \in G : \E p \in G : q \in deps[p]
    PROVE  \E p \in G : p \in Reached(deps, p)
<1> SUFFICES ASSUME \A p \in G : p \notin Reached(deps, p) PROVE FALSE
  OBVIOUS
<1> DEFINE c(p) == Cardinality(Reached(deps, p))
           n == Cardinality(Available)
           m == [p \in G |-> n - c(p)]
<1>1. n \in Nat /\ \A p \in G : c(p) \in Nat /\ c(p) <= n
  BY ReachedCount
<1>2. \A p, q \in G : q \in deps[p] => c(q) < c(p)
  BY ReachedLess
<1> HIDE DEF c, n
<1>3. m \in [G -> Nat]
  <2>1. \A p \in G : n - c(p) \in Nat
    BY <1>1
  <2> QED BY <2>1
<1>4. PICK q \in G : \A r \in G : m[q] <= m[r]
  <2> HIDE DEF m
  <2> QED BY <1>3, Least
<1>5. PICK p \in G : q \in deps[p]
  OBVIOUS
<1>6. n - c(q) <= n - c(p) /\ c(q) < c(p)
  BY <1>2, <1>4, <1>5
<1>7. c(p) \in Nat /\ c(q) \in Nat
  BY <1>1
<1> QED BY <1>1, <1>6, <1>7

-----------------------------------------------------------------------------
(* What is loaded, and what failed *)

Deps == DependsOn(m_plugins)

\* Before the loop of load_plugins().
Fresh ==
    /\ \A p \in Available : m_state[p] = "PRELOADED"
    /\ constructed = {} /\ position = 0 /\ errors = {}

\* A plugin owns what it said it depends on, and looks for nothing else.
OwnsDeclared ==
    \A p \in Available :
        /\ m_dependencies[p] \subseteq required[p] \cup before[p]
        /\ m_state[p] = "PRELOADED" => m_dependencies[p] = {}

CallsDeclared ==
    \A i \in DOMAIN loading :
        /\ loading[i].required \subseteq required[loading[i].plugin]
        /\ loading[i].before \subseteq before[loading[i].plugin]

Loaded == {p \in Available : m_state[p] = "LOADED"}

\* S holds what p depends on, to any depth, and not p.
Ground(p, S) == p \notin S /\ Deps[p] \subseteq S /\ \A r \in S : Deps[r] \subseteq S

\* What is LOADED has found all that it requires, and is in no circle.
LoadedGrounded ==
    /\ constructed \subseteq Loaded
    /\ \A p \in Loaded :
          p \in m_plugins /\ required[p] \subseteq m_plugins /\ \E S \in SUBSET Loaded : Ground(p, S)

\* Each call was made for a dependency of the one below it, the first by the
\* loop of load_plugins().
CallChain ==
    /\ loading # <<>> => loading[1].plugin = Plugins[position]
    /\ \A i \in DOMAIN loading : i > 1 => loading[i].plugin \in Deps[loading[i - 1].plugin]

\* The plugins that were left by an exception.
Failed == {p \in Available : m_state[p] = "LOADING" /\ \A i \in DOMAIN loading : loading[i].plugin # p}

\* They miss a plugin, or depend on another one that failed, or a constructor
\* threw.
FailedHasCause ==
    Thrown = {} => \A p \in Failed : ~(required[p] \subseteq m_plugins) \/ \E q \in Deps[p] : q \in Failed

\* The errors are about plugins that failed for good.
ErrorsAreFinal ==
    \A e \in errors :
        /\ e.plugin \in m_plugins \ constructed /\ m_state[e.plugin] # "PRELOADED"
        /\ \A i \in DOMAIN loading : loading[i].plugin # e.plugin

\* The loop has loaded or reported what it has passed.
PassedIsReported ==
    \A i \in 1 .. position :
        \/ Plugins[i] \notin m_plugins
        \/ Plugins[i] \in Loaded
        \/ \E e \in errors : e.plugin = Plugins[i]
        \/ loading # <<>> /\ i = position

LoadParts ==
    LoadedGrounded /\ CallChain /\ FailedHasCause /\ ErrorsAreFinal /\ PassedIsReported

LoadInv ==
    /\ OwnsDeclared /\ CallsDeclared
    /\ phase = "preload" => Fresh
    /\ phase \in {"load", "run"} => LoadParts

LEMMA DepsType ==
    ASSUME TypeOK
    PROVE  /\ Deps \in [Available -> SUBSET Available]
           /\ \A p \in Available : Deps[p] = (required[p] \cup before[p]) \cap m_plugins
  BY DEF TypeOK, Deps, DependsOn

\* ensure_loaded() of p is called from the calls cs.
LEMMA VisitParts ==
    ASSUME Inv, LoadInv, phase = "load", UNCHANGED <<phase, m_plugins, constructed, errors>>,
           NEW cs \in Seq(Frames), Len(cs) = Len(loading),
           NEW p \in m_plugins, NEW R \in SUBSET Names, NEW B \in SUBSET Names, Visit(p, cs, R, B),
           \A i \in DOMAIN loading :
              /\ cs[i].plugin = loading[i].plugin
              /\ cs[i].required \subseteq loading[i].required
              /\ cs[i].before \subseteq loading[i].before,
           loading = <<>> => position' = position + 1 /\ p = Plugins[position + 1],
           loading # <<>> => position' = position /\ p \in Deps[loading[Len(loading)].plugin]
    PROVE  LoadParts' /\ CallsDeclared'
<1> DEFINE n == Len(loading)
           f == [plugin |-> p, required |-> R, before |-> B]
<1>1. TypeOK /\ CallsAreLoading /\ LoadParts /\ CallsDeclared /\ p \in Available
  BY DEF Inv, LoadInv, TypeOK
<1>2. /\ m_state[p] = "PRELOADED"
      /\ m_state' = [m_state EXCEPT ![p] = "LOADING"]
      /\ required' = [required EXCEPT ![p] = R]
      /\ before' = [before EXCEPT ![p] = B]
      /\ loading' = Append(cs, f)
  BY DEF Visit
<1>3. /\ Len(loading') = n + 1 /\ n \in Nat
      /\ DOMAIN loading' = 1 .. (n + 1) /\ DOMAIN loading = 1 .. n
      /\ loading'[n + 1] = f /\ loading' # <<>>
      /\ \A i \in DOMAIN loading : loading'[i] = cs[i]
  BY <1>1, <1>2 DEF TypeOK
<1>4. \A i \in DOMAIN loading :
         /\ loading[i].plugin \in Available /\ loading[i].plugin # p
         /\ loading'[i].plugin = loading[i].plugin
  BY <1>1, <1>2, <1>3 DEF CallsAreLoading, TypeOK
<1>5. \A x \in Available : x # p =>
         /\ m_state'[x] = m_state[x] /\ required'[x] = required[x] /\ before'[x] = before[x]
         /\ Deps'[x] = Deps[x]
  BY <1>1, <1>2 DEF TypeOK, Deps, DependsOn
<1>6. m_state'[p] = "LOADING" /\ required'[p] = R /\ before'[p] = B
  BY <1>1, <1>2 DEF TypeOK
<1>7. Loaded' = Loaded /\ p \notin Loaded /\ Thrown' = Thrown
  BY <1>1, <1>2, <1>5, <1>6 DEF Loaded, Thrown, TypeOK
<1>8. CallsDeclared'
  <2> SUFFICES ASSUME NEW i \in DOMAIN loading'
               PROVE  /\ loading'[i].required \subseteq required'[loading'[i].plugin]
                      /\ loading'[i].before \subseteq before'[loading'[i].plugin]
    BY DEF CallsDeclared
  <2>1. CASE i = n + 1
    BY <2>1, <1>3, <1>6
  <2>2. CASE i \in DOMAIN loading
    BY <2>2, <1>1, <1>3, <1>4, <1>5 DEF CallsDeclared
  <2> QED BY <2>1, <2>2, <1>3
<1>9. LoadedGrounded'
  <2> SUFFICES ASSUME NEW q \in Loaded
               PROVE  /\ q \in m_plugins /\ required'[q] \subseteq m_plugins
                      /\ \E S \in SUBSET Loaded : Ground(q, S)'
    BY <1>1, <1>7 DEF LoadedGrounded, LoadParts
  <2>1. q \in m_plugins /\ required[q] \subseteq m_plugins /\ q \in Available /\ q # p
    BY <1>1, <1>7 DEF LoadedGrounded, LoadParts, Loaded
  <2>2. PICK S \in SUBSET Loaded : Ground(q, S)
    BY <1>1 DEF LoadedGrounded, LoadParts
  <2>3. \A r \in S : r \in Available /\ r # p
    BY <1>7 DEF Loaded
  <2>4. Ground(q, S)'
    BY <1>5, <2>1, <2>2, <2>3 DEF Ground
  <2> QED BY <2>1, <2>4, <1>5
<1>10. CallChain'
  <2>1. loading'[1].plugin = Plugins[position']
    <3>1. CASE n = 0
      BY <3>1, <1>1, <1>3 DEF TypeOK
    <3>2. CASE n # 0
      BY <3>2, <1>1, <1>3, <1>4 DEF CallChain, LoadParts
    <3> QED BY <3>1, <3>2
  <2>2. ASSUME NEW i \in DOMAIN loading', i > 1
        PROVE  loading'[i].plugin \in Deps'[loading'[i - 1].plugin]
    <3>1. i - 1 \in DOMAIN loading /\ loading # <<>>
      BY <1>1, <1>3, <2>2 DEF TypeOK
    <3>2. /\ loading'[i - 1].plugin = loading[i - 1].plugin
          /\ Deps'[loading'[i - 1].plugin] = Deps[loading[i - 1].plugin]
      BY <3>1, <1>4, <1>5
    <3>3. CASE i = n + 1
      BY <3>1, <3>2, <3>3, <1>3
    <3>4. CASE i \in DOMAIN loading
      BY <3>2, <3>4, <2>2, <1>1, <1>4 DEF CallChain, LoadParts
    <3> QED BY <3>3, <3>4, <1>3
  <2> QED BY <2>1, <2>2 DEF CallChain
<1>11. Failed' = Failed /\ p \notin Failed
  <2>1. \A x \in Available : x # p =>
           ((\A i \in DOMAIN loading' : loading'[i].plugin # x) <=> (\A i \in DOMAIN loading : loading[i].plugin # x))
    BY <1>3, <1>4
  <2>2. p \notin Failed /\ p \notin Failed'
    BY <1>2, <1>3 DEF Failed
  <2> QED BY <2>1, <2>2, <1>5 DEF Failed
<1>12. FailedHasCause'
  <2>1. \A x \in Failed : x \in Available /\ x # p
    BY <1>11 DEF Failed
  <2> QED BY <2>1, <1>1, <1>5, <1>7, <1>11 DEF FailedHasCause, LoadParts
<1>13. ErrorsAreFinal'
  <2> SUFFICES ASSUME NEW e \in errors
               PROVE  /\ e.plugin \in m_plugins \ constructed /\ m_state'[e.plugin] # "PRELOADED"
                      /\ \A i \in DOMAIN loading' : loading'[i].plugin # e.plugin
    BY DEF ErrorsAreFinal
  <2>1. /\ e.plugin \in m_plugins \ constructed /\ m_state[e.plugin] # "PRELOADED"
        /\ \A i \in DOMAIN loading : loading[i].plugin # e.plugin
        /\ e.plugin \in Available
    BY <1>1 DEF ErrorsAreFinal, LoadParts, TypeOK
  <2> QED BY <2>1, <1>2, <1>3, <1>4, <1>5
<1>14. PassedIsReported'
  <2> SUFFICES ASSUME NEW i \in 1 .. position'
               PROVE  \/ Plugins[i] \notin m_plugins
                      \/ Plugins[i] \in Loaded
                      \/ \E e \in errors : e.plugin = Plugins[i]
                      \/ i = position'
    BY <1>3, <1>7 DEF PassedIsReported
  <2>1. i \in 1 .. position \/ i = position'
    BY <1>1 DEF TypeOK
  <2> QED BY <2>1, <1>1 DEF PassedIsReported, LoadParts
<1> QED BY <1>8, <1>9, <1>10, <1>12, <1>13, <1>14 DEF LoadParts

\* The calls go on.
LEMMA WaitParts ==
    ASSUME TypeOK, LoadParts, CallsDeclared, loading' \in Seq(Frames), Len(loading') = Len(loading),
           \A i \in DOMAIN loading :
              /\ loading'[i].plugin = loading[i].plugin
              /\ loading'[i].required \subseteq loading[i].required
              /\ loading'[i].before \subseteq loading[i].before,
           UNCHANGED <<phase, m_plugins, m_state, constructed, required, before, position, errors>>
    PROVE  LoadParts' /\ CallsDeclared'
<1>1. /\ DOMAIN loading' = DOMAIN loading /\ (loading' # <<>> <=> loading # <<>>)
      /\ DOMAIN loading = 1 .. Len(loading) /\ Len(loading) \in Nat
      /\ loading # <<>> => 1 \in DOMAIN loading
  BY DEF TypeOK
<1>2. Deps' = Deps /\ Loaded' = Loaded /\ Thrown' = Thrown /\ \A p, S : Ground(p, S)' = Ground(p, S)
  BY DEF Deps, DependsOn, Loaded, Thrown, Ground
<1>3. Failed' = Failed
  BY <1>1 DEF Failed
<1>4. CallsDeclared'
  BY <1>1 DEF CallsDeclared
<1>5. LoadedGrounded' /\ FailedHasCause' /\ ErrorsAreFinal' /\ PassedIsReported'
  BY <1>1, <1>2, <1>3 DEF LoadedGrounded, FailedHasCause, ErrorsAreFinal, PassedIsReported, LoadParts
<1>6. CallChain'
  <2>1. \A i \in DOMAIN loading : i > 1 => i - 1 \in DOMAIN loading
    BY <1>1
  <2> QED BY <1>1, <1>2, <2>1 DEF CallChain, LoadParts
<1> QED BY <1>4, <1>5, <1>6 DEF LoadParts

\* An exception leaves the calls: each one fails for the one above it, and the
\* innermost for a plugin that it misses or that is LOADING.
LEMMA ThrowParts ==
    ASSUME Inv, LoadParts, loading # <<>>, NEW kind, Throw(kind),
           UNCHANGED <<phase, m_plugins, m_state, constructed, required, before, position>>,
           LET f == loading[Len(loading)].plugin
           IN  ~(required[f] \subseteq m_plugins) \/ \E q \in Deps[f] : m_state[q] = "LOADING"
    PROVE  LoadParts' /\ CallsDeclared'
<1> DEFINE n == Len(loading)
<1>1. TypeOK /\ CallsAreLoading
  BY DEF Inv
<1>2. n \in Nat /\ n > 0 /\ DOMAIN loading = 1 .. n /\ 1 \in DOMAIN loading
  BY <1>1, Innermost
<1>3. loading' = <<>> /\ errors' = errors \cup {[plugin |-> Plugins[position], kind |-> kind]}
  BY DEF Throw, Loading
<1>4. Deps' = Deps /\ Loaded' = Loaded /\ Thrown' = Thrown /\ \A p, S : Ground(p, S)' = Ground(p, S)
  BY DEF Deps, DependsOn, Loaded, Thrown, Ground
<1>5. CallsDeclared' /\ CallChain'
  BY <1>3 DEF CallsDeclared, CallChain
<1>6. LoadedGrounded'
  BY <1>4 DEF LoadedGrounded, LoadParts
<1>7. FailedHasCause'
  <2>1. Failed' = {p \in Available : m_state[p] = "LOADING"}
    BY <1>3 DEF Failed
  <2>2. Deps \in [Available -> SUBSET Available]
    BY <1>1, DepsType
  <2> SUFFICES ASSUME Thrown = {}, NEW p \in Available, m_state[p] = "LOADING"
               PROVE  ~(required[p] \subseteq m_plugins) \/ \E q \in Deps[p] : q \in Failed'
    BY <1>4, <2>1 DEF FailedHasCause
  <2>3. CASE p \in Failed
    <3>1. Failed \subseteq Failed'
      BY <2>1 DEF Failed
    <3> QED BY <2>3, <3>1 DEF FailedHasCause, LoadParts
  <2>4. ASSUME NEW i \in DOMAIN loading, loading[i].plugin = p, i = n
        PROVE  ~(required[p] \subseteq m_plugins) \/ \E q \in Deps[p] : q \in Failed'
    BY <2>1, <2>2, <2>4
  <2>5. ASSUME NEW i \in DOMAIN loading, loading[i].plugin = p, i # n
        PROVE  \E q \in Deps[p] : q \in Failed'
    <3>1. i + 1 \in DOMAIN loading /\ i + 1 > 1 /\ (i + 1) - 1 = i
      BY <1>2, <2>5
    <3>2. loading[i + 1].plugin \in Deps[p]
      BY <3>1, <2>5 DEF CallChain, LoadParts
    <3>3. m_state[loading[i + 1].plugin] = "LOADING" /\ loading[i + 1].plugin \in Available
      BY <3>1, <1>1 DEF CallsAreLoading, TypeOK
    <3> QED BY <2>1, <3>2, <3>3
  <2> QED BY <2>3, <2>4, <2>5 DEF Failed
<1>8. loading[1].plugin = Plugins[position] /\ Plugins[position] \in m_plugins /\ m_state[Plugins[position]] = "LOADING"
  BY <1>1, <1>2 DEF CallChain, LoadParts, CallsAreLoading
<1>9. ErrorsAreFinal'
  <2>1. Plugins[position] \notin constructed
    BY <1>8 DEF LoadParts, LoadedGrounded, Loaded
  <2> QED BY <1>3, <1>8, <2>1 DEF ErrorsAreFinal, LoadParts
<1>10. PassedIsReported'
  <2> SUFFICES ASSUME NEW i \in 1 .. position
               PROVE  \/ Plugins[i] \notin m_plugins \/ Plugins[i] \in Loaded
                      \/ \E e \in errors' : e.plugin = Plugins[i]
    BY <1>3, <1>4 DEF PassedIsReported
  <2>1. CASE i = position
    <3>1. [plugin |-> Plugins[position], kind |-> kind] \in errors'
      BY <1>3
    <3>2. [plugin |-> Plugins[position], kind |-> kind].plugin = Plugins[i]
      BY <2>1
    <3> QED BY <3>1, <3>2
  <2>2. CASE i # position
    BY <2>2, <1>3 DEF PassedIsReported, LoadParts
  <2> QED BY <2>1, <2>2
<1> QED BY <1>5, <1>6, <1>7, <1>9, <1>10 DEF LoadParts

\* What the innermost call depends on is LOADED when both its loops are over.
LEMMA AllServed ==
    ASSUME Inv, loading # <<>>, Last(loading).required = {}, Last(loading).before = {}
    PROVE  LET f == loading[Len(loading)].plugin
           IN  f \in m_plugins /\ f \in Available /\ m_state[f] = "LOADING"
               /\ required[f] \subseteq m_plugins /\ Deps[f] \subseteq Loaded
<1> DEFINE n == Len(loading)
           f == loading[n].plugin
<1>1. TypeOK /\ n \in DOMAIN loading /\ Last(loading) = loading[n] /\ ~(n < n)
  BY Innermost DEF Inv
<1>2. f \in m_plugins /\ f \in Available /\ m_state[f] = "LOADING"
  BY <1>1 DEF Inv, CallsAreLoading, TypeOK
<1>3. /\ \A q \in required[f] : q \in m_plugins /\ m_state[q] = "LOADED"
      /\ \A q \in before[f] : q \in m_plugins => m_state[q] = "LOADED"
  BY <1>1 DEF Inv, PassedIsServed, Served
<1>4. Deps[f] = (required[f] \cup before[f]) \cap m_plugins
  BY <1>1, <1>2, DepsType
<1>5. Deps[f] \subseteq Loaded
  BY <1>1, <1>3, <1>4 DEF Loaded, TypeOK
<1> QED BY <1>2, <1>3, <1>5

\* One more plugin is LOADED: all that is LOADED grounds it.
LEMMA GroundedMore ==
    ASSUME TypeOK, LoadedGrounded, NEW f \in m_plugins, f \in Available, m_state[f] = "LOADING",
           required[f] \subseteq m_plugins, Deps[f] \subseteq Loaded,
           m_state' = [m_state EXCEPT ![f] = "LOADED"],
           UNCHANGED <<m_plugins, required, before>>,
           constructed' \subseteq constructed \cup {f}
    PROVE  LoadedGrounded' /\ Loaded' = Loaded \cup {f} /\ Deps' = Deps
<1>1. Deps' = Deps /\ \A p, S : Ground(p, S)' = Ground(p, S)
  BY DEF Deps, DependsOn, Ground
<1>2. Loaded' = Loaded \cup {f} /\ f \notin Loaded
  BY DEF Loaded, TypeOK
<1>3. constructed' \subseteq Loaded'
  BY <1>2 DEF LoadedGrounded
<1>4. ASSUME NEW p \in Loaded
      PROVE  p \in m_plugins /\ required[p] \subseteq m_plugins /\ \E S \in SUBSET Loaded' : Ground(p, S)
  BY <1>2 DEF LoadedGrounded
<1>5. \A r \in Loaded : Deps[r] \subseteq Loaded
  BY DEF LoadedGrounded, Ground
<1>6. Ground(f, Loaded)
  BY <1>2, <1>5 DEF Ground
<1>7. \A p \in Loaded' :
         p \in m_plugins /\ required[p] \subseteq m_plugins /\ \E S \in SUBSET Loaded' : Ground(p, S)
  BY <1>2, <1>4, <1>6
<1> QED BY <1>1, <1>2, <1>3, <1>7 DEF LoadedGrounded

LEMMA ConstructParts ==
    ASSUME Inv, LoadParts, CallsDeclared, Construct
    PROVE  LoadParts' /\ CallsDeclared'
<1> DEFINE n == Len(loading)
           f == loading[n].plugin
<1>1. TypeOK /\ CallsAreLoading
  BY DEF Inv
<1>2. /\ loading # <<>> /\ Last(loading).required = {} /\ Last(loading).before = {}
      /\ m_state' = [m_state EXCEPT ![Last(loading).plugin] = "LOADED"]
      /\ constructed' = constructed \cup {Last(loading).plugin}
      /\ loading' = Front(loading)
      /\ UNCHANGED <<phase, m_plugins, required, before, position, errors>>
  BY DEF Construct, answers
<1>3. /\ n \in Nat /\ n > 0 /\ DOMAIN loading = 1 .. n /\ n \in DOMAIN loading /\ 1 \in DOMAIN loading
      /\ Last(loading) = loading[n]
  BY <1>1, <1>2, Innermost
<1>4. m_state' = [m_state EXCEPT ![f] = "LOADED"] /\ constructed' = constructed \cup {f}
  BY <1>2, <1>3
<1>5. /\ Len(loading') = n - 1 /\ DOMAIN loading' = 1 .. (n - 1) /\ (loading' # <<>> => n > 1)
      /\ \A i \in 1 .. (n - 1) : i \in DOMAIN loading /\ loading'[i] = loading[i]
  <2>1. loading' = SubSeq(loading, 1, n - 1)
    BY <1>2 DEF Front
  <2> QED BY <1>1, <1>3, <2>1 DEF TypeOK
<1>6. f \in m_plugins /\ f \in Available /\ m_state[f] = "LOADING"
      /\ required[f] \subseteq m_plugins /\ Deps[f] \subseteq Loaded
  BY <1>2, AllServed
<1> HIDE DEF f
<1>7. LoadedGrounded' /\ Loaded' = Loaded \cup {f} /\ Deps' = Deps
  BY <1>1, <1>2, <1>4, <1>6, GroundedMore DEF LoadParts
<1>8. CallsDeclared'
  BY <1>2, <1>5 DEF CallsDeclared
<1>9. CallChain'
  <2>1. loading' # <<>> => loading'[1] = loading[1]
    BY <1>3, <1>5
  <2>2. \A i \in DOMAIN loading' : i > 1 =>
           i \in DOMAIN loading /\ loading'[i] = loading[i] /\ loading'[i - 1] = loading[i - 1]
    BY <1>3, <1>5
  <2> QED BY <1>2, <1>7, <2>1, <2>2 DEF CallChain, LoadParts
<1>10. \A i \in 1 .. (n - 1) : loading[i].plugin # f
  BY <1>1, <1>3 DEF CallsAreLoading, f
<1>11. Failed' = Failed
  <2>1. f \notin Failed /\ f \notin Failed'
    BY <1>1, <1>3, <1>4, <1>6 DEF Failed, TypeOK, f
  <2>2. \A x \in Available : x # f => m_state'[x] = m_state[x]
    BY <1>1, <1>4 DEF TypeOK
  <2>3. \A x : x # f =>
           ((\A i \in DOMAIN loading' : loading'[i].plugin # x) <=> (\A i \in DOMAIN loading : loading[i].plugin # x))
    <3>1. \A i \in DOMAIN loading : i \in DOMAIN loading' \/ loading[i].plugin = f
      BY <1>3, <1>5 DEF f
    <3>2. \A i \in DOMAIN loading' : i \in DOMAIN loading /\ loading'[i].plugin = loading[i].plugin
      BY <1>5
    <3> QED BY <3>1, <3>2, Zenon
  <2> QED BY <2>1, <2>2, <2>3 DEF Failed
<1>12. FailedHasCause'
  <2>1. Thrown' = Thrown
    <3>1. f \notin Thrown /\ f \notin Thrown'
      BY <1>4, <1>6 DEF Thrown
    <3>2. \A x \in m_plugins : x # f => m_state'[x] = m_state[x]
      BY <1>1, <1>4 DEF TypeOK
    <3> QED BY <3>1, <3>2, <1>2, <1>4 DEF Thrown
  <2> QED BY <1>2, <1>7, <1>11, <2>1 DEF FailedHasCause, LoadParts
<1>13. ErrorsAreFinal'
  <2> SUFFICES ASSUME NEW e \in errors
               PROVE  /\ e.plugin \in m_plugins \ constructed' /\ m_state'[e.plugin] # "PRELOADED"
                      /\ \A i \in DOMAIN loading' : loading'[i].plugin # e.plugin
    BY <1>2 DEF ErrorsAreFinal
  <2>1. /\ e.plugin \in m_plugins \ constructed /\ m_state[e.plugin] # "PRELOADED"
        /\ \A i \in DOMAIN loading : loading[i].plugin # e.plugin
    BY DEF ErrorsAreFinal, LoadParts
  <2>2. e.plugin # f
    BY <2>1, <1>3 DEF f
  <2>3. m_state'[e.plugin] = m_state[e.plugin]
    BY <2>1, <2>2, <1>1, <1>4 DEF TypeOK
  <2> QED BY <2>1, <2>2, <2>3, <1>4, <1>5
<1>14. PassedIsReported'
  <2> SUFFICES ASSUME NEW i \in 1 .. position
               PROVE  \/ Plugins[i] \notin m_plugins \/ Plugins[i] \in Loaded'
                      \/ \E e \in errors : e.plugin = Plugins[i]
                      \/ loading' # <<>> /\ i = position
    BY <1>2 DEF PassedIsReported
  <2>1. CASE i = position /\ loading' = <<>>
    <3>1. n = 1
      <4>1. Len(loading') = 0 /\ Len(loading') = n - 1 /\ n \in Nat
        BY <1>3, <1>5, <2>1
      <4> HIDE DEF n
      <4> QED BY <4>1
    <3>2. Plugins[position] = f
      BY <1>2, <3>1 DEF CallChain, LoadParts, f
    <3> QED BY <2>1, <3>2, <1>7
  <2>2. CASE ~(i = position /\ loading' = <<>>)
    BY <2>2, <1>7 DEF PassedIsReported, LoadParts
  <2> QED BY <2>1, <2>2
<1> QED BY <1>7, <1>8, <1>9, <1>12, <1>13, <1>14 DEF LoadParts

LEMMA ConstructThrowsParts ==
    ASSUME Inv, LoadParts, ConstructThrows
    PROVE  LoadParts' /\ CallsDeclared'
<1> DEFINE n == Len(loading)
           f == loading[n].plugin
           g == Plugins[position]
<1>1. TypeOK /\ CallsAreLoading
  BY DEF Inv
<1>2. /\ loading # <<>> /\ Last(loading).required = {} /\ Last(loading).before = {}
      /\ m_state' = [m_state EXCEPT ![Last(loading).plugin] = "LOADED"]
      /\ loading' = <<>> /\ errors' = errors \cup {[plugin |-> g, kind |-> "constructor"]}
      /\ UNCHANGED <<phase, m_plugins, constructed, required, before, position>>
  BY DEF ConstructThrows, Throw, Loading, answers
<1>3. /\ n \in DOMAIN loading /\ 1 \in DOMAIN loading /\ Last(loading) = loading[n]
  BY <1>1, <1>2, Innermost
<1>4. m_state' = [m_state EXCEPT ![f] = "LOADED"]
  BY <1>2, <1>3
<1>5. f \in m_plugins /\ f \in Available /\ m_state[f] = "LOADING"
      /\ required[f] \subseteq m_plugins /\ Deps[f] \subseteq Loaded
  BY <1>2, AllServed
<1>6. g \in m_plugins /\ m_state[g] = "LOADING"
  BY <1>1, <1>2, <1>3 DEF CallChain, LoadParts, CallsAreLoading
<1> HIDE DEF f, g
<1>7. LoadedGrounded' /\ Loaded' = Loaded \cup {f}
  BY <1>1, <1>2, <1>4, <1>5, GroundedMore DEF LoadParts
<1>8. CallsDeclared' /\ CallChain'
  BY <1>2 DEF CallsDeclared, CallChain
<1>9. f \notin constructed /\ g \notin constructed
  BY <1>5, <1>6 DEF LoadParts, LoadedGrounded, Loaded
<1>10. FailedHasCause'
  <2>1. f \in Thrown'
    BY <1>1, <1>2, <1>4, <1>5, <1>9 DEF Thrown, TypeOK
  <2> QED BY <2>1 DEF FailedHasCause
<1>11. ErrorsAreFinal'
  <2>1. \A x \in m_plugins : m_state[x] # "PRELOADED" => m_state'[x] # "PRELOADED"
    BY <1>1, <1>4 DEF TypeOK
  <2> QED BY <2>1, <1>2, <1>6, <1>9 DEF ErrorsAreFinal, LoadParts
<1>12. PassedIsReported'
  <2> SUFFICES ASSUME NEW i \in 1 .. position
               PROVE  \/ Plugins[i] \notin m_plugins \/ Plugins[i] \in Loaded'
                      \/ \E e \in errors' : e.plugin = Plugins[i]
    BY <1>2 DEF PassedIsReported
  <2>1. CASE i = position
    <3>1. [plugin |-> g, kind |-> "constructor"] \in errors'
      BY <1>2
    <3>2. [plugin |-> g, kind |-> "constructor"].plugin = Plugins[i]
      BY <2>1 DEF g
    <3> QED BY <3>1, <3>2
  <2>2. CASE i # position
    BY <2>2, <1>2, <1>7 DEF PassedIsReported, LoadParts
  <2> QED BY <2>1, <2>2
<1> QED BY <1>7, <1>8, <1>10, <1>11, <1>12 DEF LoadParts

\* The loop of load_plugins() passes a plugin that it does not visit.
LEMMA SkipParts ==
    ASSUME Inv, LoadParts, NEW R, NEW B, LoadNext(R, B),
           Plugins[position + 1] \notin m_plugins \/ m_state[Plugins[position + 1]] # "PRELOADED"
    PROVE  LoadParts' /\ CallsDeclared'
<1> DEFINE p == Plugins[position + 1]
<1>1. TypeOK
  BY DEF Inv
<1>2. /\ loading = <<>> /\ loading' = <<>> /\ position' = position + 1
      /\ UNCHANGED <<phase, m_plugins, m_state, constructed, required, before>>
  BY DEF LoadNext, Visit, answers
<1>3. \/ (p \notin m_plugins \/ m_state[p] = "LOADED") /\ errors' = errors
      \/ /\ p \in m_plugins /\ m_state[p] = "LOADING"
         /\ errors' = errors \cup {[plugin |-> p, kind |-> "circular"]}
  BY DEF LoadNext, Visit
<1>4. position \in Nat
  BY <1>1 DEF TypeOK
<1> HIDE DEF p
<1>5. Deps' = Deps /\ Loaded' = Loaded /\ Thrown' = Thrown /\ Failed' = Failed
      /\ \A q, S : Ground(q, S)' = Ground(q, S)
  BY <1>2 DEF Deps, DependsOn, Loaded, Thrown, Failed, Ground
<1>6. CallsDeclared' /\ CallChain' /\ LoadedGrounded' /\ FailedHasCause'
  BY <1>2, <1>5 DEF CallsDeclared, CallChain, LoadedGrounded, FailedHasCause, LoadParts
<1>7. ErrorsAreFinal'
  <2>1. m_state[p] = "LOADING" => p \notin constructed
    BY DEF LoadParts, LoadedGrounded, Loaded
  <2> QED BY <1>2, <1>3, <2>1 DEF ErrorsAreFinal, LoadParts
<1>8. PassedIsReported'
  <2> SUFFICES ASSUME NEW i \in 1 .. (position + 1)
               PROVE  \/ Plugins[i] \notin m_plugins \/ Plugins[i] \in Loaded
                      \/ \E e \in errors' : e.plugin = Plugins[i]
    BY <1>2, <1>5 DEF PassedIsReported
  <2>1. CASE i = position + 1
    <3>1. Plugins[i] = p /\ (p \in m_plugins => p \in Available)
      BY <2>1, <1>1 DEF p, TypeOK
    <3>2. CASE (p \notin m_plugins \/ m_state[p] = "LOADED")
      BY <3>1, <3>2 DEF Loaded
    <3>3. CASE errors' = errors \cup {[plugin |-> p, kind |-> "circular"]}
      <4>1. [plugin |-> p, kind |-> "circular"] \in errors'
        BY <3>3
      <4>2. [plugin |-> p, kind |-> "circular"].plugin = Plugins[i]
        BY <3>1
      <4> QED BY <4>1, <4>2
    <3> QED BY <1>3, <3>2, <3>3
  <2>2. CASE i # position + 1
    <3>1. i \in 1 .. position
      BY <2>2, <1>4
    <3> QED BY <3>1, <1>2, <1>3 DEF PassedIsReported, LoadParts
  <2> QED BY <2>1, <2>2
<1> QED BY <1>6, <1>7, <1>8 DEF LoadParts

\* q is a dependency that the innermost call declared.
LEMMA PendingDeclared ==
    ASSUME Inv, LoadInv, NEW q, Pending(q)
    PROVE  LET f == loading[Len(loading)].plugin
           IN  /\ loading # <<>> /\ Last(loading).plugin = f /\ phase = "load" /\ LoadParts
               /\ f \in Available /\ m_state[f] = "LOADING"
               /\ q \in required[f] \cup before[f]
               /\ Last(loading).required # {} => q \in required[f]
               /\ q \in m_plugins => q \in Deps[f]
<1> DEFINE n == Len(loading)
           f == loading[n].plugin
<1>1. TypeOK /\ loading # <<>> /\ n \in DOMAIN loading /\ Last(loading) = loading[n]
  BY Innermost DEF Inv, Pending
<1>2. f \in Available /\ m_state[f] = "LOADING" /\ phase = "load"
  BY <1>1 DEF Inv, CallsAreLoading, TypeOK
<1>3. LoadParts
  BY <1>2 DEF LoadInv
<1>4. loading[n].required \subseteq required[f] /\ loading[n].before \subseteq before[f]
  BY <1>1 DEF LoadInv, CallsDeclared
<1>5. q \in required[f] \cup before[f] /\ (Last(loading).required # {} => q \in required[f])
  BY <1>1, <1>4 DEF Pending
<1>6. q \in m_plugins => q \in Deps[f]
  BY <1>1, <1>2, <1>5, DepsType
<1> QED BY <1>1, <1>2, <1>3, <1>5, <1>6

\* The innermost plugin owns one more of the plugins it declared.
LEMMA OwnDeclared ==
    ASSUME Inv, LoadInv, NEW q, Pending(q), Own(q), UNCHANGED <<m_state, required, before>>
    PROVE  OwnsDeclared'
<1> DEFINE f == loading[Len(loading)].plugin
<1>1. Last(loading).plugin = f /\ f \in Available /\ m_state[f] = "LOADING" /\ q \in required[f] \cup before[f]
  BY PendingDeclared
<1>2. m_dependencies' = [m_dependencies EXCEPT ![f] = @ \cup {q}]
  BY <1>1 DEF Own
<1> HIDE DEF f
<1> QED BY <1>1, <1>2 DEF OwnsDeclared, LoadInv, Inv, TypeOK

LEMMA WaitingShorter ==
    ASSUME TypeOK, loading # <<>>, NEW q
    PROVE  /\ Waiting(q) \in Seq(Frames) /\ Len(Waiting(q)) = Len(loading)
           /\ \A i \in DOMAIN loading :
                 /\ Waiting(q)[i].plugin = loading[i].plugin
                 /\ Waiting(q)[i].required \subseteq loading[i].required
                 /\ Waiting(q)[i].before \subseteq loading[i].before
<1>1. /\ Waiting(q) \in Seq(Frames) /\ Len(Waiting(q)) = Len(loading)
      /\ \A i \in DOMAIN loading : Waiting(q)[i].plugin = loading[i].plugin
      /\ \A i \in DOMAIN loading : i # Len(loading) => Waiting(q)[i] = loading[i]
      /\ Waiting(q)[Len(loading)].required = Last(loading).required \ {q}
      /\ Waiting(q)[Len(loading)].before =
            IF q \in Last(loading).required THEN Last(loading).before ELSE Last(loading).before \ {q}
  BY WaitingCalls
<1>2. Last(loading) = loading[Len(loading)]
  BY Innermost
<1> DEFINE w == Waiting(q)
<1> HIDE DEF w
<1>3. \A i \in DOMAIN loading : w[i].required \subseteq loading[i].required /\ w[i].before \subseteq loading[i].before
  BY <1>1, <1>2 DEF w
<1> QED BY <1>1, <1>3 DEF w

LEMMA LoadNextParts ==
    ASSUME Inv, LoadInv, NEW R \in SUBSET Names, NEW B \in SUBSET Names, LoadNext(R, B)
    PROVE  LoadParts' /\ CallsDeclared' /\ OwnsDeclared'
<1> DEFINE p == Plugins[position + 1]
<1>1. /\ phase = "load" /\ loading = <<>> /\ position' = position + 1
      /\ UNCHANGED <<phase, m_plugins, m_dependencies, constructed>>
  BY DEF LoadNext
<1>2. LoadParts
  BY <1>1 DEF LoadInv
<1>3. CASE p \notin m_plugins \/ m_state[p] # "PRELOADED"
  <2>1. UNCHANGED <<m_state, required, before>>
    BY <1>3 DEF LoadNext, Visit, answers
  <2>2. OwnsDeclared'
    BY <1>1, <2>1 DEF OwnsDeclared, LoadInv
  <2> QED BY <1>2, <1>3, <2>2, SkipParts
<1>4. CASE p \in m_plugins /\ m_state[p] = "PRELOADED"
  <2>1. Visit(p, <<>>, R, B) /\ errors' = errors
    BY <1>4 DEF LoadNext
  <2> HIDE DEF p
  <2>2. OwnsDeclared'
    BY <1>1, <1>4, <2>1 DEF OwnsDeclared, LoadInv, Visit, Inv, TypeOK
  <2>3. LoadParts' /\ CallsDeclared'
    <3>1. <<>> \in Seq(Frames) /\ Len(<<>>) = Len(loading) /\ DOMAIN loading = {}
      BY <1>1
    <3>2. p = Plugins[position + 1]
      BY DEF p
    <3> QED BY <1>1, <1>4, <2>1, <3>1, <3>2, VisitParts
  <2> QED BY <2>2, <2>3
<1> QED BY <1>3, <1>4

LEMMA EnsureDependencyParts ==
    ASSUME Inv, LoadInv, NEW q \in Available, NEW R \in SUBSET Names, NEW B \in SUBSET Names,
           EnsureDependency(q, R, B)
    PROVE  LoadParts' /\ CallsDeclared' /\ OwnsDeclared'
<1> DEFINE f == loading[Len(loading)].plugin
           cs == Waiting(q)
<1>1. /\ Pending(q) /\ q \in m_plugins /\ Own(q) /\ Visit(q, cs, R, B)
      /\ UNCHANGED <<phase, m_plugins, constructed, position, errors>>
  BY DEF EnsureDependency
<1>2. /\ loading # <<>> /\ phase = "load" /\ q \in Deps[f]
      /\ Last(loading).plugin = f /\ f \in Available /\ m_state[f] = "LOADING"
      /\ q \in required[f] \cup before[f]
  BY <1>1, PendingDeclared
<1>3. /\ cs \in Seq(Frames) /\ Len(cs) = Len(loading)
      /\ \A i \in DOMAIN loading :
            /\ cs[i].plugin = loading[i].plugin
            /\ cs[i].required \subseteq loading[i].required
            /\ cs[i].before \subseteq loading[i].before
  BY <1>2, WaitingShorter DEF Inv
<1> HIDE DEF cs
<1>4. LoadParts' /\ CallsDeclared'
  BY <1>1, <1>2, <1>3, VisitParts
<1>5. /\ m_dependencies' = [m_dependencies EXCEPT ![f] = @ \cup {q}]
      /\ m_state[q] = "PRELOADED" /\ m_state' = [m_state EXCEPT ![q] = "LOADING"]
      /\ required' = [required EXCEPT ![q] = R] /\ before' = [before EXCEPT ![q] = B]
  BY <1>1, <1>2 DEF Own, Visit
<1>6. OwnsDeclared'
  <2> HIDE DEF f
  <2> SUFFICES ASSUME NEW x \in Available
               PROVE  /\ m_dependencies'[x] \subseteq required'[x] \cup before'[x]
                      /\ m_state'[x] = "PRELOADED" => m_dependencies'[x] = {}
    BY DEF OwnsDeclared
  <2>1. TypeOK /\ m_dependencies[x] \subseteq required[x] \cup before[x]
        /\ (m_state[x] = "PRELOADED" => m_dependencies[x] = {})
    BY DEF Inv, LoadInv, OwnsDeclared
  <2>2. CASE x = q
    BY <2>1, <2>2, <1>2, <1>5 DEF TypeOK
  <2>3. CASE x # q /\ x = f
    BY <2>1, <2>3, <1>2, <1>5 DEF TypeOK
  <2>4. CASE x # q /\ x # f
    BY <2>1, <2>4, <1>2, <1>5 DEF TypeOK
  <2> QED BY <2>2, <2>3, <2>4
<1> QED BY <1>4, <1>6

\* The innermost call passes a plugin, or misses it, or finds it LOADING.
LEMMA DependencyParts ==
    ASSUME Inv, LoadInv, NEW q, DependencyLoaded(q) \/ DependencyLoading(q) \/ DependencyMissing(q)
    PROVE  LoadParts' /\ CallsDeclared' /\ OwnsDeclared'
<1> DEFINE f == loading[Len(loading)].plugin
<1>1. /\ Pending(q)
      /\ UNCHANGED <<phase, m_plugins, m_state, constructed, required, before, position>>
  BY DEF DependencyLoaded, DependencyLoading, DependencyMissing, answers
<1>2. /\ loading # <<>> /\ LoadParts
      /\ Last(loading).required # {} => q \in required[f]
      /\ q \in m_plugins => q \in Deps[f]
  BY <1>1, PendingDeclared
<1>3. OwnsDeclared'
  <2>1. CASE Own(q)
    BY <1>1, <2>1, OwnDeclared
  <2>2. CASE UNCHANGED m_dependencies
    BY <1>1, <2>2 DEF OwnsDeclared, LoadInv
  <2> QED BY <2>1, <2>2 DEF DependencyLoaded, DependencyLoading, DependencyMissing
<1>4. CASE loading' = Waiting(q) /\ errors' = errors
  <2>1. /\ loading' \in Seq(Frames) /\ Len(loading') = Len(loading)
        /\ \A i \in DOMAIN loading :
              /\ loading'[i].plugin = loading[i].plugin
              /\ loading'[i].required \subseteq loading[i].required
              /\ loading'[i].before \subseteq loading[i].before
    BY <1>2, <1>4, WaitingShorter DEF Inv
  <2>2. TypeOK /\ CallsDeclared
    BY DEF Inv, LoadInv
  <2>3. LoadParts' /\ CallsDeclared'
    BY <1>1, <1>2, <1>4, <2>1, <2>2, WaitParts
  <2> QED BY <1>3, <2>3
<1>5. ASSUME NEW kind, Throw(kind),
             (q \notin m_plugins /\ Last(loading).required # {}) \/ (q \in m_plugins /\ m_state[q] = "LOADING")
      PROVE  LoadParts' /\ CallsDeclared' /\ OwnsDeclared'
  <2>1. ~(required[f] \subseteq m_plugins) \/ \E x \in Deps[f] : m_state[x] = "LOADING"
    BY <1>2, <1>5
  <2>2. LoadParts' /\ CallsDeclared'
    BY <1>1, <1>2, <1>5, <2>1, ThrowParts
  <2> QED BY <1>3, <2>2
<1>6. CASE DependencyLoaded(q)
  BY <1>4, <1>6 DEF DependencyLoaded
<1>7. CASE DependencyLoading(q)
  <2>1. Throw("circular") /\ q \in m_plugins /\ m_state[q] = "LOADING"
    BY <1>7 DEF DependencyLoading
  <2> QED BY <2>1, <1>5
<1>8. CASE DependencyMissing(q)
  <2>1. CASE Last(loading).required # {}
    <3>1. Throw("missing") /\ q \notin m_plugins
      BY <1>8, <2>1 DEF DependencyMissing
    <3>2. (q \notin m_plugins /\ Last(loading).required # {}) \/ (q \in m_plugins /\ m_state[q] = "LOADING")
      BY <2>1, <3>1
    <3> QED BY <3>1, <3>2, <1>5, Zenon
  <2>2. CASE Last(loading).required = {}
    BY <1>4, <1>8, <2>2 DEF DependencyMissing
  <2> QED BY <2>1, <2>2
<1> QED BY <1>6, <1>7, <1>8

LEMMA ConstructStep ==
    ASSUME Inv, LoadInv, Construct \/ ConstructThrows
    PROVE  LoadParts' /\ CallsDeclared' /\ OwnsDeclared'
<1>1. loading # <<>> /\ UNCHANGED <<m_dependencies, required, before>>
      /\ m_state' = [m_state EXCEPT ![Last(loading).plugin] = "LOADED"]
  BY DEF Construct, ConstructThrows, answers
<1>2. LoadParts /\ CallsDeclared
  BY <1>1 DEF Inv, LoadInv, CallsAreLoading
<1>3. OwnsDeclared'
  BY <1>1 DEF OwnsDeclared, LoadInv, Inv, TypeOK
<1> QED BY <1>2, <1>3, ConstructParts, ConstructThrowsParts

\* The phase changes, or the objects are destroyed, or one is preloaded.
LEMMA OtherParts ==
    ASSUME Inv, LoadInv,
           \/ \E p \in Available : Preload(p) \/ Destroy(p) \/ GiveUp(p)
           \/ PreloadFails \/ PreloadEnds \/ LoadEnds \/ Finalize \/ UNCHANGED vars
    PROVE  LoadInv'
<1>1. UNCHANGED <<m_state, m_dependencies, required, before, loading, position, errors>>
  BY DEF Preload, Destroy, GiveUp, PreloadFails, PreloadEnds, LoadEnds, Finalize, vars, answers, progress
<1>2. OwnsDeclared' /\ CallsDeclared'
  BY <1>1 DEF OwnsDeclared, CallsDeclared, LoadInv
<1>3. CASE phase' = "preload"
  <2>1. phase = "preload" /\ constructed' \subseteq constructed
    BY <1>3 DEF Preload, Destroy, GiveUp, PreloadFails, PreloadEnds, LoadEnds, Finalize, vars
  <2>2. Fresh'
    BY <1>1, <2>1 DEF Fresh, LoadInv
  <2> QED BY <1>2, <1>3, <2>2 DEF LoadInv
<1>4. CASE phase' = "unload"
  BY <1>2, <1>4 DEF LoadInv
<1>5. CASE phase = "preload" /\ phase' = "load"
  <2>1. PreloadEnds
    BY <1>5 DEF Preload, Destroy, GiveUp, PreloadFails, LoadEnds, Finalize, vars
  <2>2. constructed' = constructed
    BY <2>1 DEF PreloadEnds
  <2>3. Fresh' /\ loading' = <<>>
    BY <1>1, <1>5, <2>2 DEF Fresh, LoadInv, Inv, CallsAreLoading
  <2>4. Loaded' = {} /\ Failed' = {}
    BY <2>3 DEF Fresh, Loaded, Failed
  <2>5. LoadParts'
    <3>1. LoadedGrounded' /\ CallChain' /\ FailedHasCause'
      BY <2>3, <2>4 DEF LoadedGrounded, CallChain, FailedHasCause, Fresh
    <3>2. ErrorsAreFinal' /\ PassedIsReported'
      BY <2>3 DEF ErrorsAreFinal, PassedIsReported, Fresh
    <3> QED BY <3>1, <3>2 DEF LoadParts
  <2> QED BY <1>2, <1>5, <2>5 DEF LoadInv
<1>6. CASE phase \in {"load", "run"} /\ phase' \in {"load", "run"}
  <2>1. LoadParts
    BY <1>6 DEF LoadInv
  <2>2. UNCHANGED <<m_plugins, constructed>>
    <3>1. ASSUME NEW p \in Available, Destroy(p) PROVE UNCHANGED <<m_plugins, constructed>>
      <4>1. p \notin m_plugins /\ constructed' = constructed \ {p} /\ m_plugins' = m_plugins
        BY <3>1 DEF Destroy, Unowned
      <4>2. constructed \subseteq m_plugins
        BY <2>1 DEF LoadParts, LoadedGrounded
      <4> QED BY <4>1, <4>2
    <3> QED BY <1>6, <3>1 DEF Preload, GiveUp, PreloadFails, PreloadEnds, LoadEnds, Finalize, vars
  <2>3. Deps' = Deps /\ Loaded' = Loaded /\ Thrown' = Thrown /\ Failed' = Failed
        /\ \A p, S : Ground(p, S)' = Ground(p, S)
    BY <1>1, <2>2 DEF Deps, DependsOn, Loaded, Thrown, Failed, Ground
  <2>4. LoadedGrounded' /\ CallChain' /\ FailedHasCause' /\ ErrorsAreFinal' /\ PassedIsReported'
    BY <1>1, <2>1, <2>2, <2>3
       DEF LoadedGrounded, CallChain, FailedHasCause, ErrorsAreFinal, PassedIsReported, LoadParts
  <2> QED BY <1>2, <1>6, <2>4 DEF LoadInv, LoadParts
<1>7. /\ phase' \in {"preload", "load", "run", "unload"} /\ phase \in {"preload", "load", "run", "unload"}
      /\ phase = "preload" => phase' # "run"
      /\ phase = "unload" => phase' = "unload"
  BY DEF Inv, TypeOK, Preload, Destroy, GiveUp, PreloadFails, PreloadEnds, LoadEnds, Finalize, vars
<1> QED BY <1>3, <1>4, <1>5, <1>6, <1>7

LEMMA LoadInvStep ==
    ASSUME Inv, LoadInv, [Next]_vars
    PROVE  LoadInv'
<1>1. ASSUME LoadParts' /\ CallsDeclared' /\ OwnsDeclared', phase' = "load"
      PROVE  LoadInv'
  BY <1>1 DEF LoadInv
<1>2. CASE \E R, B \in SUBSET Names : LoadNext(R, B)
  <2>1. phase' = "load"
    BY <1>2 DEF LoadNext
  <2> QED BY <1>1, <1>2, <2>1, LoadNextParts
<1>3. CASE \E R, B \in SUBSET Names : \E q \in Available : EnsureDependency(q, R, B)
  <2>1. phase' = "load"
    BY <1>3 DEF EnsureDependency, Pending, Inv, CallsAreLoading
  <2> QED BY <1>1, <1>3, <2>1, EnsureDependencyParts
<1>4. CASE \E q \in Names : DependencyLoaded(q) \/ DependencyLoading(q) \/ DependencyMissing(q)
  <2>1. phase' = "load"
    BY <1>4 DEF DependencyLoaded, DependencyLoading, DependencyMissing, Pending, Inv, CallsAreLoading
  <2> QED BY <1>1, <1>4, <2>1, DependencyParts
<1>5. CASE Construct \/ ConstructThrows
  <2>1. phase' = "load"
    BY <1>5 DEF Construct, ConstructThrows, Inv, CallsAreLoading
  <2> QED BY <1>1, <1>5, <2>1, ConstructStep
<1>6. CASE \/ \E p \in Available : Preload(p) \/ Destroy(p) \/ GiveUp(p)
           \/ PreloadFails \/ PreloadEnds \/ LoadEnds \/ Finalize \/ UNCHANGED vars
  BY <1>6, OtherParts
<1> QED
  BY <1>2, <1>3, <1>4, <1>5, <1>6 DEF Next, Load, Unload, Names

\* Whatever the plugins depend on: what is loaded is in no circle and misses
\* nothing, and what failed has a cause among its dependencies.
THEOREM LoadInvHolds == Spec => []LoadInv
<1>1. Init => LoadInv
  BY DEF Init, LoadInv, OwnsDeclared, CallsDeclared, Fresh
<1>2. Inv /\ LoadInv /\ [Next]_vars => LoadInv'
  BY LoadInvStep
<1> QED BY <1>1, <1>2, InvHolds, PTL DEF Spec

\* What was found in no circle, and misses nothing, to any depth, is not
\* unloadable.
LEMMA LoadedIsLoadable ==
    ASSUME TypeOK, LoadedGrounded, NEW p \in Loaded
    PROVE  ~Unloadable(p)
<1>1. ASSUME NEW q \in Loaded
      PROVE  /\ Reached(Deps, q) \subseteq Loaded /\ q \notin Reached(Deps, q)
             /\ required[q] \subseteq m_plugins
  <2>1. PICK S \in SUBSET Loaded : Ground(q, S)
    BY <1>1 DEF LoadedGrounded
  <2>2. S \in SUBSET Available
    BY DEF Loaded
  <2>3. Reached(Deps, q) \subseteq S
    BY <2>1, <2>2, ReachedWithin DEF Ground
  <2> QED BY <1>1, <2>1, <2>3 DEF Ground, LoadedGrounded
<1>2. \A q \in {p} \cup Reached(Deps, p) : q \in Loaded
  BY <1>1
<1> QED BY <1>1, <1>2 DEF Unloadable, Deps

\* What failed cannot be loaded: a circle is reached, or a plugin is missing.
LEMMA FailedIsUnloadable ==
    ASSUME TypeOK, FailedHasCause, Thrown = {}, NEW p \in Failed
    PROVE  Unloadable(p)
<1> SUFFICES ASSUME ~Unloadable(p) PROVE FALSE
  OBVIOUS
<1> DEFINE G == {q \in Failed : ~Unloadable(q)}
<1>1. Deps \in [Available -> SUBSET Available]
  BY DepsType
<1>2. G \in SUBSET Available /\ p \in G
  BY DEF Failed
<1>3. ASSUME NEW x \in G PROVE \E y \in G : y \in Deps[x]
  <2>1. x \in Available /\ x \in Failed /\ ~Unloadable(x)
    BY <1>2
  <2>2. required[x] \subseteq m_plugins
    BY <2>1 DEF Unloadable
  <2>3. PICK y \in Deps[x] : y \in Failed
    BY <2>1, <2>2 DEF FailedHasCause
  <2>4. y \in Available /\ y \in Reached(Deps, x) /\ Reached(Deps, y) \subseteq Reached(Deps, x)
    BY <1>1, <2>1, <2>3, ReachedNext, ReachedAgain
  <2>5. ~Unloadable(y)
    BY <2>1, <2>4 DEF Unloadable, Deps
  <2> QED BY <2>3, <2>5
<1>4. PICK x \in G : x \in Reached(Deps, x)
  <2> HIDE DEF G
  <2> QED BY <1>1, <1>2, <1>3, CircleBelow
<1>5. Unloadable(x)
  BY <1>4 DEF Unloadable, Deps
<1> QED BY <1>4, <1>5

\* load_plugins() loads exactly the plugins from which no circle and no missing
\* plugin can be reached, reports exactly the others, and this for any
\* dependencies: unless a constructor throws, nothing that could be loaded is
\* lost to the failure of something else (load_plugins, plugin_store.cxx).
THEOREM LoadsAllLoadable == Spec => []LoadsExactlyLoadable
<1>1. ASSUME Inv, LoadInv PROVE LoadsExactlyLoadable
  <2> SUFFICES ASSUME phase \in {"load", "run"}, position = Len(Plugins), loading = <<>>, Thrown = {}
               PROVE  /\ constructed = {p \in m_plugins : ~Unloadable(p)}
                      /\ {e.plugin : e \in errors} = m_plugins \ constructed
    BY DEF LoadsExactlyLoadable
  <2>1. TypeOK /\ LoadParts
    BY <1>1 DEF Inv, LoadInv
  <2>2. constructed \subseteq Loaded /\ Loaded \subseteq m_plugins
    BY <2>1 DEF LoadParts, LoadedGrounded
  <2>3. Loaded \subseteq constructed
    BY <2>2 DEF Thrown, Loaded
  <2>4. ASSUME NEW e \in errors PROVE e.plugin \in m_plugins \ constructed /\ e.plugin \in Failed
    <3>1. e.plugin \in m_plugins \ constructed /\ m_state[e.plugin] # "PRELOADED"
      BY <2>1 DEF LoadParts, ErrorsAreFinal
    <3>2. e.plugin \in Available /\ m_state[e.plugin] \in {"PRELOADED", "LOADING", "LOADED"}
      BY <2>1, <3>1 DEF TypeOK
    <3>3. m_state[e.plugin] # "LOADED"
      BY <2>3, <3>1, <3>2 DEF Loaded
    <3> QED BY <3>1, <3>2, <3>3 DEF Failed
  <2>5. ASSUME NEW p \in m_plugins \ constructed PROVE \E e \in errors : e.plugin = p
    <3>1. p \in Available
      BY <2>1 DEF TypeOK
    <3>2. PICK i \in DOMAIN Plugins : Plugins[i] = p
      BY <3>1 DEF Available, Range
    <3>3. i \in 1 .. position
      BY <3>2, PluginAssumption
    <3> QED BY <2>1, <2>3, <2>5, <3>2, <3>3 DEF LoadParts, PassedIsReported
  <2>6. \A p \in constructed : ~Unloadable(p)
    BY <2>1, <2>2, LoadedIsLoadable DEF LoadParts
  <2>7. \A p \in m_plugins \ constructed : Unloadable(p)
    BY <2>1, <2>4, <2>5, FailedIsUnloadable DEF LoadParts
  <2>8. constructed \subseteq m_plugins
    BY <2>2
  <2>9. constructed = {p \in m_plugins : ~Unloadable(p)}
    BY <2>6, <2>7, <2>8, Zenon
  <2> QED BY <2>4, <2>5, <2>9
<1> QED BY <1>1, InvHolds, LoadInvHolds, PTL

\* The destruction of a context leaves a plugin only if plugins own each other
\* in a circle (m_dependencies, plugin_store.h).
THEOREM OnlyCirclesLeak == Spec => []NothingLeaked
<1>1. ASSUME Inv, LoadInv PROVE NothingLeaked
  <2> SUFFICES ASSUME m_plugins = {}, Unowned = {}, stored # {}
               PROVE  \E p \in Available : p \in Reached(DependsOn(Available), p)
    BY DEF NothingLeaked
  <2> DEFINE deps == DependsOn(Available)
  <2>1. TypeOK /\ stored \in SUBSET Available
    BY <1>1 DEF Inv, TypeOK
  <2>2. /\ deps \in [Available -> SUBSET Available]
        /\ \A p \in Available : deps[p] = (required[p] \cup before[p]) \cap Available
    BY DEF DependsOn
  <2>3. ASSUME NEW q \in stored PROVE \E p \in stored : q \in deps[p]
    <3>1. PICK p \in stored : q \in m_dependencies[p]
      BY <2>3 DEF Unowned
    <3>2. q \in required[p] \cup before[p]
      BY <1>1, <2>1, <3>1 DEF LoadInv, OwnsDeclared
    <3> QED BY <2>1, <2>2, <3>2
  <2>4. \E p \in stored : p \in Reached(deps, p)
    <3> HIDE DEF deps
    <3> QED BY <2>1, <2>2, <2>3, CircleAbove
  <2> QED BY <2>1, <2>4
<1> QED BY <1>1, InvHolds, LoadInvHolds, PTL

-----------------------------------------------------------------------------
(* What a plugin said it depends on, it owns *)

\* What the two loops of the call number i of cs have looked for.
Looked(cs, i) ==
    (required[cs[i].plugin] \ cs[i].required) \cup (before[cs[i].plugin] \ cs[i].before)

\* Each plugin owns what its loops have looked for and found, and all that it
\* declared once it runs; the map owns every object until it is emptied.
OwnInvariant ==
    /\ phase # "unload" => stored \subseteq m_plugins
    /\ \A i \in DOMAIN loading : Looked(loading, i) \cap stored \subseteq m_dependencies[loading[i].plugin]
    /\ \A p \in constructed : (required[p] \cup before[p]) \cap stored \subseteq m_dependencies[p]

\* The call of ensure_loaded() of a plugin that no call is for and that does
\* not run, from calls cs that own what they have looked for.
LEMMA VisitOwns ==
    ASSUME Inv, LoadInv, phase = "load", NEW p \in Available, NEW R, NEW B,
           NEW cs \in Seq(Frames), Len(cs) = Len(loading),
           \A i \in DOMAIN cs : cs[i].plugin = loading[i].plugin,
           \A i \in DOMAIN cs : Looked(cs, i) \cap stored \subseteq m_dependencies'[cs[i].plugin],
           \A r \in constructed : (required[r] \cup before[r]) \cap stored \subseteq m_dependencies'[r],
           Visit(p, cs, R, B), UNCHANGED <<stored, constructed>>
    PROVE  /\ \A i \in DOMAIN loading' : (Looked(loading, i) \cap stored \subseteq m_dependencies[loading[i].plugin])'
           /\ \A r \in constructed' : ((required[r] \cup before[r]) \cap stored \subseteq m_dependencies[r])'
<1> DEFINE n == Len(cs)
           g == [plugin |-> p, required |-> R, before |-> B]
<1>1. /\ m_state[p] = "PRELOADED" /\ loading' = Append(cs, g)
      /\ required' = [required EXCEPT ![p] = R] /\ before' = [before EXCEPT ![p] = B]
  BY DEF Visit
<1>2. TypeOK /\ constructed \subseteq Available /\ required \in [Available -> SUBSET Names] /\ before \in [Available -> SUBSET Names]
  BY DEF Inv, TypeOK
<1>3. p \notin constructed
  BY <1>1 DEF LoadInv, LoadParts, LoadedGrounded, Loaded
<1>4. n \in Nat /\ DOMAIN cs = 1 .. n /\ DOMAIN loading = 1 .. n /\ \A i \in 1 .. n : cs[i].plugin \in Available
  <2>1. n \in Nat /\ DOMAIN cs = 1 .. n /\ \A i \in 1 .. n : cs[i] \in Frames
    OBVIOUS
  <2>2. loading \in Seq(Frames) /\ DOMAIN loading = 1 .. n
    BY <1>2 DEF TypeOK
  <2> QED BY <2>1, <2>2 DEF Frames
<1>5. \A i \in 1 .. n : cs[i].plugin # p
  BY <1>1, <1>4 DEF Inv, CallsAreLoading
<1>6. /\ DOMAIN loading' = 1 .. n + 1 /\ loading'[n + 1] = g
      /\ \A i \in 1 .. n : loading'[i] = cs[i]
  BY <1>1, <1>4
<1>7. ASSUME NEW i \in 1 .. n
      PROVE  (Looked(loading, i) \cap stored \subseteq m_dependencies[loading[i].plugin])'
  <2>1. required'[cs[i].plugin] = required[cs[i].plugin] /\ before'[cs[i].plugin] = before[cs[i].plugin]
    BY <1>1, <1>2, <1>4, <1>5
  <2>2. Looked(loading, i)' = Looked(cs, i)
    BY <1>6, <2>1 DEF Looked
  <2> QED BY <1>4, <1>6, <2>2
<1>8. Looked(loading, n + 1)' = {}
  BY <1>1, <1>2, <1>4, <1>6 DEF Looked
<1>9. ASSUME NEW r \in constructed
      PROVE  ((required[r] \cup before[r]) \cap stored \subseteq m_dependencies[r])'
  <2>1. required'[r] = required[r] /\ before'[r] = before[r]
    BY <1>1, <1>2, <1>3
  <2> QED BY <2>1
<1>10. \A i \in 1 .. n + 1 : i \in 1 .. n \/ i = n + 1
  BY <1>4
<1>11. \A i \in DOMAIN loading' : (Looked(loading, i) \cap stored \subseteq m_dependencies[loading[i].plugin])'
  BY <1>6, <1>7, <1>8, <1>10
<1> QED BY <1>9, <1>11

\* The innermost call passes q, which its plugin owns now if it is there.
LEMMA WaitingOwns ==
    ASSUME Inv, LoadInv, OwnInvariant, NEW q, Pending(q),
           \/ Own(q)
           \/ q \notin stored /\ m_dependencies' = m_dependencies
    PROVE  /\ \A i \in DOMAIN loading :
                 Looked(Waiting(q), i) \cap stored \subseteq m_dependencies'[loading[i].plugin]
           /\ \A r \in constructed : (required[r] \cup before[r]) \cap stored \subseteq m_dependencies'[r]
<1> DEFINE w == Waiting(q)
           n == Len(loading)
           f == loading[n].plugin
<1>1. /\ TypeOK /\ loading # <<>> /\ n \in DOMAIN loading /\ Last(loading) = loading[n]
      /\ \A i \in DOMAIN loading : loading[i].plugin \in Available
      /\ constructed \subseteq Available /\ m_dependencies \in [Available -> SUBSET Available]
  BY Innermost DEF Inv, Pending, TypeOK, Frames
<1>2. /\ \A i \in DOMAIN loading : w[i].plugin = loading[i].plugin
      /\ \A i \in DOMAIN loading : i # n => w[i] = loading[i]
      /\ w[n].required = loading[n].required \ {q}
      /\ w[n].before = IF q \in loading[n].required THEN loading[n].before ELSE loading[n].before \ {q}
  BY <1>1, WaitingCalls
<1>3. /\ \A p \in Available : m_dependencies[p] \subseteq m_dependencies'[p]
      /\ q \in stored => q \in m_dependencies'[f]
  BY <1>1 DEF Own
<1>4. ASSUME NEW i \in DOMAIN loading
      PROVE  Looked(w, i) \cap stored \subseteq m_dependencies'[loading[i].plugin]
  <2>1. Looked(loading, i) \cap stored \subseteq m_dependencies'[loading[i].plugin]
    BY <1>1, <1>3 DEF OwnInvariant
  <2>2. CASE i # n
    <3>1. Looked(w, i) = Looked(loading, i)
      BY <1>2, <2>2 DEF Looked
    <3> QED BY <2>1, <3>1
  <2>3. CASE i = n
    <3>1. Looked(w, i) \subseteq Looked(loading, i) \cup {q}
      BY <1>2, <2>3 DEF Looked
    <3> QED BY <1>3, <2>1, <2>3, <3>1
  <2> QED BY <2>2, <2>3
<1>5. \A r \in constructed : (required[r] \cup before[r]) \cap stored \subseteq m_dependencies'[r]
  BY <1>1, <1>3 DEF OwnInvariant
<1> QED BY <1>4, <1>5

LEMMA OwnStep ==
    ASSUME Inv, LoadInv, OwnInvariant, [Next]_vars
    PROVE  OwnInvariant'
<1>0. TypeOK /\ loading \in Seq(Frames) /\ Len(loading) \in Nat /\ DOMAIN loading = 1 .. Len(loading)
  BY DEF Inv, TypeOK
<1>1. ASSUME NEW R, NEW B, LoadNext(R, B) PROVE OwnInvariant'
  <2>1. /\ UNCHANGED <<phase, m_plugins, stored, m_dependencies, constructed>>
        /\ phase = "load" /\ loading = <<>>
    BY <1>1 DEF LoadNext
  <2>2. CASE UNCHANGED <<answers, loading>>
    BY <2>1, <2>2 DEF OwnInvariant, Looked, answers
  <2>3. CASE Visit(Plugins[position + 1], <<>>, R, B) /\ Plugins[position + 1] \in m_plugins
    <3> DEFINE p == Plugins[position + 1]
               cs == <<>>
    <3>1. p \in Available /\ cs \in Seq(Frames) /\ Len(cs) = Len(loading) /\ DOMAIN cs = {}
      BY <2>1, <2>3 DEF Inv, TypeOK
    <3>2. \A r \in constructed : (required[r] \cup before[r]) \cap stored \subseteq m_dependencies'[r]
      BY <2>1 DEF OwnInvariant
    <3> HIDE DEF p, cs
    <3>3. Visit(p, cs, R, B)
      BY <2>3 DEF p, cs
    <3>4. /\ \A i \in DOMAIN loading' : (Looked(loading, i) \cap stored \subseteq m_dependencies[loading[i].plugin])'
          /\ \A r \in constructed' : ((required[r] \cup before[r]) \cap stored \subseteq m_dependencies[r])'
      BY <2>1, <3>1, <3>2, <3>3, VisitOwns
    <3> QED BY <2>1, <3>4 DEF OwnInvariant
  <2> QED BY <1>1, <2>2, <2>3 DEF LoadNext
<1>2. ASSUME NEW R, NEW B, NEW q \in Available, EnsureDependency(q, R, B) PROVE OwnInvariant'
  <2>1. /\ Pending(q) /\ Own(q) /\ Visit(q, Waiting(q), R, B)
        /\ UNCHANGED <<phase, m_plugins, stored, constructed>>
    BY <1>2 DEF EnsureDependency
  <2>2. phase = "load" /\ loading # <<>>
    BY <2>1, PendingDeclared
  <2> DEFINE w == Waiting(q)
  <2>3. /\ w \in Seq(Frames) /\ Len(w) = Len(loading)
        /\ \A i \in DOMAIN loading : w[i].plugin = loading[i].plugin
    BY <1>0, <2>2, WaitingCalls
  <2>4. /\ \A i \in DOMAIN loading : Looked(w, i) \cap stored \subseteq m_dependencies'[loading[i].plugin]
        /\ \A r \in constructed : (required[r] \cup before[r]) \cap stored \subseteq m_dependencies'[r]
    BY <2>1, WaitingOwns
  <2>5. Visit(q, w, R, B)
    BY <2>1
  <2> HIDE DEF w
  <2>6. DOMAIN w = DOMAIN loading
    BY <1>0, <2>3
  <2>7. \A i \in DOMAIN w : Looked(w, i) \cap stored \subseteq m_dependencies'[w[i].plugin]
    BY <2>3, <2>4, <2>6
  <2>8. /\ \A i \in DOMAIN loading' : (Looked(loading, i) \cap stored \subseteq m_dependencies[loading[i].plugin])'
        /\ \A r \in constructed' : ((required[r] \cup before[r]) \cap stored \subseteq m_dependencies[r])'
    BY <2>1, <2>2, <2>3, <2>4, <2>5, <2>6, <2>7, VisitOwns
  <2> QED BY <2>1, <2>8 DEF OwnInvariant
<1>3. ASSUME NEW q, Pending(q), loading' = Waiting(q), UNCHANGED <<phase, m_plugins, stored, constructed, answers>>,
             Own(q) \/ (q \notin stored /\ m_dependencies' = m_dependencies)
      PROVE  OwnInvariant'
  <2> DEFINE w == Waiting(q)
  <2>1. /\ \A i \in DOMAIN loading : Looked(w, i) \cap stored \subseteq m_dependencies'[loading[i].plugin]
        /\ \A r \in constructed : (required[r] \cup before[r]) \cap stored \subseteq m_dependencies'[r]
    BY <1>3, WaitingOwns
  <2>2. /\ w \in Seq(Frames) /\ Len(w) = Len(loading)
        /\ \A i \in DOMAIN loading : w[i].plugin = loading[i].plugin
    BY <1>0, <1>3, WaitingCalls DEF Pending
  <2>3. loading' = w
    BY <1>3
  <2> HIDE DEF w
  <2>4. DOMAIN w = DOMAIN loading
    BY <1>0, <2>2
  <2>5. \A i : Looked(loading, i)' = Looked(w, i)
    BY <1>3, <2>3 DEF Looked, answers
  <2>6. \A i \in DOMAIN loading' : (Looked(loading, i) \cap stored \subseteq m_dependencies[loading[i].plugin])'
    BY <1>3, <2>1, <2>2, <2>3, <2>4, <2>5
  <2> QED BY <1>3, <2>1, <2>6 DEF OwnInvariant, answers
<1>4. ASSUME NEW q \in Available, DependencyLoaded(q) PROVE OwnInvariant'
  BY <1>3, <1>4 DEF DependencyLoaded
<1>5. ASSUME loading' = <<>>, UNCHANGED <<phase, m_plugins, stored, constructed, answers>>,
             \A p \in Available : m_dependencies[p] \subseteq m_dependencies'[p]
      PROVE  OwnInvariant'
  BY <1>0, <1>5 DEF OwnInvariant, answers, TypeOK
<1>6. ASSUME NEW q \in Available, DependencyLoading(q) PROVE OwnInvariant'
  <2>1. \A p \in Available : m_dependencies[p] \subseteq m_dependencies'[p]
    BY <1>0, <1>6 DEF DependencyLoading, Own, TypeOK
  <2> QED BY <1>5, <1>6, <2>1 DEF DependencyLoading, Throw
<1>7. ASSUME NEW q \in Names, DependencyMissing(q) PROVE OwnInvariant'
  <2>1. Pending(q) /\ q \notin m_plugins /\ UNCHANGED <<phase, m_plugins, stored, m_dependencies, constructed, answers>>
    BY <1>7 DEF DependencyMissing
  <2>2. q \notin stored
    BY <2>1, PendingDeclared DEF OwnInvariant
  <2>3. loading' = <<>> \/ loading' = Waiting(q)
    BY <1>7 DEF DependencyMissing, Throw
  <2> QED BY <1>3, <1>5, <2>1, <2>2, <2>3
<1>8. CASE Construct
  <2> DEFINE n == Len(loading)
             f == loading[n].plugin
  <2>1. /\ loading # <<>> /\ Last(loading).required = {} /\ Last(loading).before = {}
        /\ constructed' = constructed \cup {Last(loading).plugin} /\ loading' = Front(loading)
        /\ UNCHANGED <<phase, m_plugins, stored, m_dependencies, answers>>
    BY <1>8 DEF Construct
  <2>2. n \in DOMAIN loading /\ Last(loading) = loading[n] /\ n > 0
    BY <1>0, <2>1, Innermost
  <2>3. Looked(loading, n) = required[f] \cup before[f]
    BY <2>1, <2>2 DEF Looked
  <2>4. (required[f] \cup before[f]) \cap stored \subseteq m_dependencies[f]
    BY <2>2, <2>3 DEF OwnInvariant
  <2>5. /\ DOMAIN Front(loading) = 1 .. n - 1
        /\ \A i \in 1 .. n - 1 : Front(loading)[i] = loading[i] /\ i \in DOMAIN loading
    BY <1>0, <2>1, <2>2 DEF Front
  <2>6. \A i \in 1 .. n - 1 : Looked(loading, i)' = Looked(loading, i)
    BY <2>1, <2>5 DEF Looked, answers
  <2> HIDE DEF f
  <2>7. \A i \in DOMAIN loading' : (Looked(loading, i) \cap stored \subseteq m_dependencies[loading[i].plugin])'
    BY <2>1, <2>5, <2>6 DEF OwnInvariant
  <2>8. Last(loading).plugin = f
    BY <2>2 DEF f
  <2> QED BY <2>1, <2>4, <2>7, <2>8 DEF OwnInvariant, answers
<1>9. CASE ConstructThrows
  BY <1>5, <1>9 DEF ConstructThrows, Throw
<1>10. ASSUME NEW p \in Available, Preload(p) PROVE OwnInvariant'
  <2>1. loading = <<>> /\ constructed = {}
    BY <1>10 DEF Preload, Inv, CallsAreLoading, LoadInv, Fresh
  <2> QED BY <1>10, <2>1 DEF Preload, OwnInvariant, progress
<1>11. ASSUME NEW p \in Available, Destroy(p) \/ GiveUp(p) PROVE OwnInvariant'
  BY <1>11 DEF Destroy, GiveUp, OwnInvariant, Looked, answers, progress
<1>12. CASE PreloadFails \/ PreloadEnds \/ LoadEnds \/ Finalize \/ UNCHANGED vars
  BY <1>12 DEF PreloadFails, PreloadEnds, LoadEnds, Finalize, vars, OwnInvariant, Looked, answers, progress
<1> QED
  BY <1>1, <1>2, <1>4, <1>6, <1>7, <1>8, <1>9, <1>10, <1>11, <1>12 DEF Next, Load, Unload, Names

\* Whatever the dependencies are, whatever fails while loading and in
\* whatever order the map gives its elements up, no plugin is destroyed while
\* a plugin runs that declared to depend on it (m_dependencies,
\* plugin_store.cxx:131 and :137).
THEOREM DependenciesOutlive == Spec => OutlivedByDependencies
<1> DEFINE A == \A q \in stored \ stored' : \A p \in constructed' : q \notin required[p] \cup before[p]
<1>1. Init => OwnInvariant
  BY DEF Init, OwnInvariant
<1>2. Inv /\ LoadInv /\ OwnInvariant /\ [Next]_vars => OwnInvariant'
  BY OwnStep
<1>3. ASSUME Inv, OwnInvariant, [Next]_vars PROVE [A]_vars
  <2> SUFFICES ASSUME NEW q \in stored \ stored', NEW p \in constructed',
                      q \in required[p] \cup before[p]
               PROVE  FALSE
    OBVIOUS
  <2>1. Destroy(q)
    BY <1>3 DEF Next, Load, Unload, vars, Preload, PreloadFails, PreloadEnds, LoadEnds, Finalize, Construct,
                ConstructThrows, DependencyLoaded, DependencyLoading, DependencyMissing, LoadNext,
                EnsureDependency, Destroy, GiveUp
  <2>2. q \in stored /\ p \in constructed /\ p \in stored /\ \A r \in stored : q \notin m_dependencies[r]
    BY <1>3, <2>1 DEF Destroy, Unowned, Inv, OwnersLive
  <2> QED BY <1>3, <2>2 DEF OwnInvariant
<1> QED BY <1>1, <1>2, <1>3, InvHolds, LoadInvHolds, PTL DEF Spec, OutlivedByDependencies

=============================================================================

----------------------------- MODULE PluginStore -----------------------------
(***************************************************************************)
(* The plugins of a PDI context (pdi/src/plugin_store.cxx): they are       *)
(* preloaded in the order of the specification tree, then loaded in the    *)
(* order of their names, the dependencies of each one first, and destroyed *)
(* with the context, each one before its dependencies.                     *)
(*                                                                         *)
(* The recursion of ensure_loaded() is the variable `loading', the stack   *)
(* of its calls in progress.                                               *)
(***************************************************************************)
EXTENDS Naturals, SequencesExt

CONSTANTS
    Plugins,       \* the names of plugins that can be opened, as a sequence in
                   \* the order of std::map
    Absent,        \* a name that no plugin has
    MaxDeps        \* bound on the number of dependencies, over all plugins

Available == Range(Plugins)

ASSUME PluginAssumption ==
    /\ Plugins \in Seq(Available)
    /\ \A i, j \in DOMAIN Plugins : Plugins[i] = Plugins[j] => i = j
    /\ Absent \notin Available
    /\ MaxDeps \in Nat

VARIABLES
    phase,           \* "preload", "load", "run", "unload"
    m_plugins,       \* the plugins that the map owns
    stored,          \* the Stored_plugin objects that exist
    m_state,         \* PRELOADED, LOADING or LOADED
    m_dependencies,  \* the Stored_plugins that each one owns
    constructed,     \* the ones whose m_loaded_plugin is set
    required,        \* what m_deps() of each plugin returns,
    before,          \*   once it is called
    loading,         \* the calls of ensure_loaded() in progress, the innermost last
    position,        \* how many plugins the loop of load_plugins() has passed
    errors           \* the errors collected by this loop

answers == <<required, before>>

progress == <<loading, position, errors>>

vars == <<phase, m_plugins, stored, m_state, m_dependencies, constructed, answers, progress>>

Kinds == {"circular", "missing", "constructor"}

\* A call of ensure_loaded(): what is left of its two loops.
Frames ==
    [plugin : Available, required : SUBSET (Available \cup {Absent}),
     before : SUBSET (Available \cup {Absent})]

Init ==
    /\ phase = "preload"
    /\ m_plugins = {} /\ stored = {}
    /\ m_state = [p \in Available |-> "PRELOADED"]
    /\ m_dependencies = [p \in Available |-> {}]
    /\ constructed = {}
    /\ required = [p \in Available |-> {}]
    /\ before = [p \in Available |-> {}]
    /\ loading = <<>>
    /\ position = 0
    /\ errors = {}

-----------------------------------------------------------------------------
(* Preloading *)

\* The next entry of a `plugins' subtree.
Preload(p) ==
    /\ phase = "preload" /\ p \notin m_plugins
    /\ m_plugins' = m_plugins \cup {p}
    /\ stored' = stored \cup {p}
    /\ UNCHANGED <<phase, m_state, m_dependencies, constructed, answers, progress>>

\* A duplicate, or a library or symbol that is not found: load_plugins() throws.
PreloadFails ==
    /\ phase = "preload"
    /\ phase' = "unload"
    /\ UNCHANGED <<m_plugins, stored, m_state, m_dependencies, constructed, answers, progress>>

PreloadEnds ==
    /\ phase = "preload"
    /\ phase' = "load"
    /\ UNCHANGED <<m_plugins, stored, m_state, m_dependencies, constructed, answers, progress>>

-----------------------------------------------------------------------------
(* Loading *)

\* The loop of load_plugins() is at Plugins[position].
Loading == Plugins[position]

Dependencies == {d \in Available \X (Available \cup {Absent}) : d[2] \in required[d[1]] \cup before[d[1]]}

\* Faulty variant: the second set of dependencies is ignored.
VisitRequiredOnly(p, cs, R, B) ==
    /\ m_state[p] = "PRELOADED"
    /\ m_state' = [m_state EXCEPT ![p] = "LOADING"]
    /\ Cardinality(Dependencies) + Cardinality(R) + Cardinality(B) <= MaxDeps
    /\ required' = [required EXCEPT ![p] = R]
    /\ before' = [before EXCEPT ![p] = B]
    /\ loading' = Append(cs, [plugin |-> p, required |-> R, before |-> {}])

\* Call ensure_loaded() of p, from the calls cs; m_deps() returns R and B.
Visit(p, cs, R, B) ==
    /\ m_state[p] = "PRELOADED"
    /\ m_state' = [m_state EXCEPT ![p] = "LOADING"]
    /\ Cardinality(Dependencies) + Cardinality(R) + Cardinality(B) <= MaxDeps
    /\ required' = [required EXCEPT ![p] = R]
    /\ before' = [before EXCEPT ![p] = B]
    /\ loading' = Append(cs, [plugin |-> p, required |-> R, before |-> B])

\* Faulty variant: the exception is dropped.
ThrowSilently(kind) ==
    /\ errors' = errors
    /\ loading' = <<>>

\* An exception leaves all the calls and is collected by the loop.
Throw(kind) ==
    /\ errors' = errors \cup {[plugin |-> Loading, kind |-> kind]}
    /\ loading' = <<>>

\* The loop of load_plugins() goes to the next plugin.
LoadNext(R, B) ==
    LET p == Plugins[position + 1]
    IN  /\ phase = "load" /\ loading = <<>> /\ position < Len(Plugins)
        /\ position' = position + 1
        /\ IF p \notin m_plugins \/ m_state[p] = "LOADED"
           THEN R = {} /\ B = {} /\ UNCHANGED <<m_state, answers, loading, errors>>
           ELSE IF m_state[p] = "LOADING"
           THEN /\ R = {} /\ B = {}
                /\ errors' = errors \cup {[plugin |-> p, kind |-> "circular"]}
                /\ UNCHANGED <<m_state, answers, loading>>
           ELSE Visit(p, <<>>, R, B) /\ UNCHANGED errors
        /\ UNCHANGED <<phase, m_plugins, stored, m_dependencies, constructed>>

\* The innermost call goes on with its dependency q: it is in the loop over
\* the required plugins, then in the one over the plugins to be loaded before.
Pending(q) ==
    LET f == Last(loading)
    IN  /\ loading # <<>>
        /\ q \in IF f.required # {} THEN f.required ELSE f.before

Waiting(q) ==
    [loading EXCEPT ![Len(loading)].required = @ \ {q},
                    ![Len(loading)].before =
                        IF q \in loading[Len(loading)].required THEN @ ELSE @ \ {q}]

\* Faulty variant: the loop over the plugins to be loaded before keeps none.
OwnRequired(q) ==
    m_dependencies' = [m_dependencies EXCEPT ![Last(loading).plugin] = @ \cup ({q} \cap Last(loading).required)]

\* Faulty variant: the plugin owns itself too.
OwnSelf(q) ==
    m_dependencies' = [m_dependencies EXCEPT ![Last(loading).plugin] = @ \cup {q, Last(loading).plugin}]

Own(q) ==
    m_dependencies' = [m_dependencies EXCEPT ![Last(loading).plugin] = @ \cup {q}]

\* The dependency is not loaded yet.
EnsureDependency(q, R, B) ==
    /\ Pending(q) /\ q \in m_plugins
    /\ Own(q)
    /\ Visit(q, Waiting(q), R, B)
    /\ UNCHANGED <<phase, m_plugins, stored, constructed, position, errors>>

\* It is already LOADED.
DependencyLoaded(q) ==
    /\ Pending(q) /\ q \in m_plugins /\ m_state[q] = "LOADED"
    /\ Own(q)
    /\ loading' = Waiting(q)
    /\ UNCHANGED <<phase, m_plugins, stored, m_state, constructed, answers, position, errors>>

\* Faulty variant: a dependency that is LOADING is waited for.
DependencyLoadingWaits(q) ==
    /\ Pending(q) /\ q \in m_plugins /\ m_state[q] = "LOADING"
    /\ Own(q)
    /\ UNCHANGED <<phase, m_plugins, stored, m_state, constructed, answers, progress>>

\* It is LOADING: a circular dependency, or one that failed before.
DependencyLoading(q) ==
    /\ Pending(q) /\ q \in m_plugins /\ m_state[q] = "LOADING"
    /\ Own(q)
    /\ Throw("circular")
    /\ UNCHANGED <<phase, m_plugins, stored, m_state, constructed, answers, position>>

\* It is not in the specification tree.
DependencyMissing(q) ==
    /\ Pending(q) /\ q \notin m_plugins
    /\ IF Last(loading).required # {}
       THEN Throw("missing")
       ELSE loading' = Waiting(q) /\ UNCHANGED errors
    /\ UNCHANGED <<phase, m_plugins, stored, m_state, m_dependencies, constructed, answers, position>>

\* All its dependencies are done: the plugin is LOADED, and constructed.
Construct ==
    LET f == Last(loading)
    IN  /\ loading # <<>> /\ f.required = {} /\ f.before = {}
        /\ m_state' = [m_state EXCEPT ![f.plugin] = "LOADED"]
        /\ constructed' = constructed \cup {f.plugin}
        /\ loading' = Front(loading)
        /\ UNCHANGED <<phase, m_plugins, stored, m_dependencies, answers, position, errors>>

\* Its constructor throws.
ConstructThrows ==
    LET f == Last(loading)
    IN  /\ loading # <<>> /\ f.required = {} /\ f.before = {}
        /\ m_state' = [m_state EXCEPT ![f.plugin] = "LOADED"]
        /\ Throw("constructor")
        /\ UNCHANGED <<phase, m_plugins, stored, m_dependencies, constructed, answers, position>>

\* The loop is over; load_plugins() throws if there was an error.
LoadEnds ==
    /\ phase = "load" /\ loading = <<>> /\ position = Len(Plugins)
    /\ phase' = IF errors = {} THEN "run" ELSE "unload"
    /\ UNCHANGED <<m_plugins, stored, m_state, m_dependencies, constructed, answers, progress>>

-----------------------------------------------------------------------------
(* Destruction *)

\* ~Global_context.
Finalize ==
    /\ phase = "run"
    /\ phase' = "unload"
    /\ UNCHANGED <<m_plugins, stored, m_state, m_dependencies, constructed, answers, progress>>

\* The Stored_plugins that nobody owns any more.
Unowned == {p \in stored \ m_plugins : \A q \in stored : p \notin m_dependencies[q]}

\* ~Stored_plugin: the plugin, then its hold on its dependencies.
Destroy(p) ==
    /\ p \in Unowned
    /\ stored' = stored \ {p}
    /\ constructed' = constructed \ {p}
    /\ UNCHANGED <<phase, m_plugins, m_state, m_dependencies, answers, progress>>

\* ~map gives its elements up in an order of its own; what this destroys is
\* destroyed before the next one.
GiveUp(p) ==
    /\ phase = "unload" /\ p \in m_plugins /\ Unowned = {}
    /\ m_plugins' = m_plugins \ {p}
    /\ UNCHANGED <<phase, stored, m_state, m_dependencies, constructed, answers, progress>>

-----------------------------------------------------------------------------

Load ==
    \/ Construct \/ ConstructThrows
    \/ \E q \in Available : DependencyLoaded(q) \/ DependencyLoading(q)
    \/ \E q \in Available \cup {Absent} : DependencyMissing(q)
    \/ \E R, B \in SUBSET (Available \cup {Absent}) :
          \/ LoadNext(R, B)
          \/ \E q \in Available : EnsureDependency(q, R, B)
    \/ LoadEnds

Unload == \E p \in Available : Destroy(p) \/ GiveUp(p)

Next ==
    \/ \E p \in Available : Preload(p)
    \/ PreloadFails \/ PreloadEnds
    \/ Load
    \/ Finalize
    \/ Unload

Spec == Init /\ [][Next]_vars

\* The specification tree ends; loading and destruction are sequential code
\* of one thread, which goes on.
FairSpec == Spec /\ WF_vars(Unload \/ PreloadEnds \/ PreloadFails \/ Load)

-----------------------------------------------------------------------------
(* Properties *)

\* What the plugins depend on among those of S, by what they say of themselves.
DependsOn(S) == [p \in Available |-> (required[p] \cup before[p]) \cap S]

\* What can be reached from p along deps: the smallest set with what p depends
\* on and, with a plugin, what that one depends on.
Reached(deps, p) ==
    {q \in Available : \A S \in SUBSET Available :
        deps[p] \subseteq S /\ (\A r \in S : deps[r] \subseteq S) => q \in S}

\* p cannot be loaded, by what the plugins say of themselves: a cycle or a
\* required plugin that is not there can be reached from it.
Unloadable(p) ==
    LET deps == DependsOn(m_plugins)
    IN  \E q \in {p} \cup Reached(deps, p) :
            q \in Reached(deps, q) \/ ~(required[q] \subseteq m_plugins)

\* The plugins whose constructor threw.
Thrown == {p \in m_plugins : m_state[p] = "LOADED" /\ p \notin constructed}

\* "plugins that need to be loaded before the plugin, if they are both
\* loaded" (plugin.h:196): a plugin is constructed when the constructors of
\* its dependencies have all run.
ConstructedAfterDependencies ==
    [][\A p \in constructed' \ constructed :
          /\ required[p] \subseteq constructed \cup Thrown
          /\ before[p] \cap m_plugins \subseteq constructed \cup Thrown]_vars

\* "The plugins we depend on to ensure they remain alive as long as we exist"
\* (plugin_store.h:75): whatever the order in which the map gives its
\* elements up and whatever failed before, a plugin and its library stay
\* until no plugin runs that said, by m_deps(), that it requires this one or
\* is to be loaded after it (plugin_store.cxx:131 and :137).
OutlivedByDependencies ==
    [][\A q \in stored \ stored' : \A p \in constructed' : q \notin required[p] \cup before[p]]_vars

\* load_plugins() loads all that can be loaded, whatever fails, and no more;
\* it throws exactly when something cannot be loaded.  (Which plugins a
\* constructor that throws drags along depends on who asked for it first.)
LoadsExactlyLoadable ==
    /\ phase \in {"load", "run"} /\ position = Len(Plugins) /\ loading = <<>>
    /\ Thrown = {}
    =>  /\ constructed = {p \in m_plugins : ~Unloadable(p)}
        /\ {e.plugin : e \in errors} = m_plugins \ constructed

\* At the end every plugin was destroyed, unless a circle of dependencies
\* makes its members own each other.
NothingLeaked ==
    /\ phase = "unload" /\ m_plugins = {} /\ Unowned = {}
    /\ stored # {}
    => \E p \in Available : p \in Reached(DependsOn(Available), p)

\* Loading ends, whatever the plugins depend on, and a context that was not
\* built leaves no plugin that it could destroy.
LoadingEnds == <>(phase = "run" \/ (phase = "unload" /\ m_plugins = {} /\ Unowned = {}))

=============================================================================

--------------------------- MODULE GlobalContext ---------------------------
(***************************************************************************)
(* The life of a Global_context (pdi/src/global_context.cxx): PDI_init     *)
(* gathers the included files, loads the types, the plugins and the data   *)
(* and calls the init callbacks; the API then notifies the callbacks of    *)
(* the plugins; PDI_finalize destroys the members in the reverse order of  *)
(* their declaration: the lists of callbacks, the plugins, the store.      *)
(*                                                                         *)
(* The calls in progress are the frames of `stack'.  What a callback does  *)
(* is a list of operations, interpreted by SetValue and UserCode; another  *)
(* plugin, the observer, may fail, as the trace plugin, or calls the API.  *)
(* The store is reduced to the number of times each data is shared; there  *)
(* are no metadata, whose placeholder the module DataDescriptor follows.   *)
(***************************************************************************)
EXTENDS Includes, Callbacks, SequencesExt, FiniteSetsExt

CONSTANTS
    Data,       \* the names of data
    Config,     \* the operations of load_config for the plugin set_value
    UserTriggers, \* the callbacks that the plugin user_code registers
    Observers,  \* the callbacks that the observer registers
    Callers,    \* the operations that the user calls
    MaxDepth,   \* the calls that the stack of the program has room for
    MaxShared   \* bound on the shares of a data when the user calls

VARIABLES
    phase,       \* the life of the context: "none", then "including", "types",
                 \* "plugins", "data", "init", "ready", "destroy"; "terminated"
                 \* after what is undefined
    reg,         \* the registered callbacks
    plugins,     \* the plugins alive
    finalizers,  \* the operations of m_trigger_on_finalize of set_value
    shared,      \* for each data, the size of its stack in the store
    stack,       \* the calls in progress, the innermost last
    kept         \* for each data, the shares that completed less the releases

contextVars == <<phase, reg, plugins, finalizers, shared, stack, kept>>

vars == <<includeVars, contextVars>>

\* An operation: what it does, on which name, and for a registration or a
\* finalizer the operations of the trigger and the kind of callback.
Op(what, name) == [op |-> what, name |-> name, kind |-> NoName, ops |-> <<>>]

Trigger(kind, name, ops) == [op |-> "register", name |-> name, kind |-> kind, ops |-> ops]

Finalizer(ops) == [op |-> "finalizer", name |-> NoName, kind |-> NoName, ops |-> ops]

\* A call in progress: a notify_* with the callbacks it still has to call, a
\* `body' with the operations it still has to execute, or a base: notify_init,
\* a function of the API, the destructor of a plugin; and the frames of the
\* module UserCode.
Frame(type, name, todo) == [type |-> type, name |-> name, todo |-> todo, failed |-> FALSE]

Inner == stack[Len(stack)]

Below == Front(stack)

Running(type) == stack # <<>> /\ Inner.type = type

\* The frame that catches an exception thrown above it.  A notify_* goes on
\* with the next callback; notify_init and the API give up; a destructor ends
\* the program.  Faulty variant: a notify_* does not catch.
OnlyBases(s) == {i \in DOMAIN s : s[i].type \in {"init", "api", "dtor", "scope", "function"}}
Catchers(s) == {i \in DOMAIN s : s[i].type \in {"notify", "init", "api", "dtor", "scope", "function"}}

\* The shares of d in progress in s: share() pops its reference when an
\* exception goes through it.
Undone(s, d) == Cardinality({i \in DOMAIN s : s[i].type = "share" /\ s[i].name = d})

\* The frame that catches goes on with what it has still to do, or gives up.
Unwound(s, i) ==
    [SubSeq(s, 1, i) EXCEPT ![i].failed = TRUE,
                            ![i].todo = IF s[i].type \in {"notify", "scope"} THEN @ ELSE <<>>]

\* Faulty variant: share() does not catch, so its reference stays.
ThrowThroughShare(s) == stack' = Unwound(s, Max(Catchers(s))) /\ UNCHANGED <<shared, phase>>

\* An exception is thrown with the calls s in progress.  A reference that a
\* callback removed already is popped again, one of another share if there is
\* one; to pop from an empty stack is undefined.
Throw(s) ==
    LET i == Max(Catchers(s))
        above == SubSeq(s, i + 1, Len(s))
    IN  IF \E d \in Data : shared[d] < Undone(above, d)
        THEN stack' = <<>> /\ phase' = "terminated" /\ UNCHANGED shared
        ELSE /\ shared' = [d \in Data |-> shared[d] - Undone(above, d)]
             /\ stack' = Unwound(s, i)
             /\ UNCHANGED phase

\* notify_*(name), called with the calls s in progress.  Once the lists are
\* destroyed, reading one that had elements is undefined.
Notify(s, kind, name) ==
    IF phase = "destroy" /\ OfKind(reg, kind) # <<>>
    THEN stack' = <<>> /\ phase' = "terminated"
    ELSE /\ stack' = Append(s, Frame("notify", name, IF phase = "destroy" THEN <<>> ELSE Gather(reg, kind, name)))
         /\ UNCHANGED phase

NotifyNext ==
    /\ Running("notify") /\ Inner.todo # <<>>
    /\ stack' = Append(Below, [Inner EXCEPT !.todo = Tail(@)])
                    \o <<Frame("body", Head(Inner.todo).name, Head(Inner.todo).ops)>>
    /\ UNCHANGED <<phase, reg, plugins, finalizers, shared, kept>>

\* All were called: rethrow_with_context throws if one of them failed.
NotifyEnd ==
    /\ Running("notify") /\ Inner.todo = <<>>
    /\ IF Inner.failed THEN Throw(Below) ELSE stack' = Below /\ UNCHANGED <<shared, phase>>
    /\ UNCHANGED <<reg, plugins, finalizers, kept>>

-----------------------------------------------------------------------------
\* Nothing remains of a context whose constructor threw before notify_init, or
\* that is destroyed.
NoContext ==
    /\ phase' = "none" /\ reg' = <<>> /\ plugins' = {} /\ finalizers' = <<>> /\ stack' = <<>>
    /\ shared' = [d \in Data |-> 0] /\ kept' = [d \in Data |-> 0]

PDI_init ==
    /\ phase = "none" /\ outcome = "walking"
    /\ phase' = "including"
    /\ UNCHANGED <<includeVars, reg, plugins, finalizers, shared, stack, kept>>

GetIncludes ==
    \/ phase = "including" /\ WalkIncludes /\ UNCHANGED contextVars
    \/ /\ phase = "including" /\ outcome \in {"circular", "unreadable"}
       /\ NoContext /\ UNCHANGED includeVars
    \/ /\ phase = "including" /\ outcome = "done"
       /\ phase' = "types"
       /\ includes' = [p \in DOMAIN includes |-> <<>>]
       /\ confs' = <<>> /\ result_path' = {} /\ outcome' = "loaded"
       /\ UNCHANGED <<walk, parents, reg, plugins, finalizers, shared, stack, kept>>

\* load_user_datatypes and load_plugins: either may throw.  The callback of
\* set_value is load_config; user_code registers one for each function to call.
LoadTypes ==
    /\ phase = "types"
    /\ \/ phase' = "plugins" /\ UNCHANGED <<reg, plugins, finalizers, shared, stack, kept>>
       \/ NoContext
    /\ UNCHANGED includeVars

Callback(kind, name, ops) == [id |-> Len(reg) + 1, kind |-> kind, name |-> name, ops |-> ops]

LoadPlugins ==
    /\ phase = "plugins"
    /\ \/ /\ phase' = "data"
          /\ \E others \in SUBSET {"observer", "user_code"} :
                /\ plugins' = {"set_value"} \cup others
                /\ reg' = <<Callback("init", NoName, Config)>>
                            \o (IF "observer" \in others THEN Observers ELSE <<>>)
                            \o (IF "user_code" \in others THEN UserTriggers ELSE <<>>)
          /\ UNCHANGED <<finalizers, shared, stack, kept>>
       \/ NoContext
    /\ UNCHANGED includeVars

\* load_data, for all the metadata, then all the data: defining a name twice,
\* or a type that cannot be read, throws.  Then notify_init.
LoadData ==
    /\ phase = "data"
    /\ \/ /\ phase' = "init"
          /\ stack' = <<Frame("init", NoName, OfKind(reg, "init"))>>
          /\ UNCHANGED <<reg, plugins, finalizers, shared, kept>>
       \/ NoContext
    /\ UNCHANGED includeVars

NotifyInitNext ==
    /\ Running("init") /\ Inner.todo # <<>>
    /\ stack' = <<[Inner EXCEPT !.todo = Tail(@)], Frame("body", NoName, Head(Inner.todo).ops)>>
    /\ UNCHANGED <<phase, reg, plugins, finalizers, shared, kept>>

\* The constructor ends, or throws and destroys the members; PDI_init then
\* triggers an event.
NotifyInitEnd ==
    /\ Running("init") /\ Inner.todo = <<>>
    /\ IF Inner.failed
       THEN phase' = "destroy" /\ stack' = <<>>
       ELSE /\ phase' = "ready"
            /\ stack' = <<Frame("api", "init", <<>>), Frame("body", NoName, <<Op("event", "pdi_start_timer")>>)>>
    /\ UNCHANGED <<reg, plugins, finalizers, shared, kept>>

\* PDI_event, PDI_share, PDI_release
UserCall ==
    /\ phase = "ready" /\ stack = <<>>
    /\ \A d \in Data : shared[d] <= MaxShared
    /\ \E op \in Callers :
        stack' = <<Frame("api", NoName, <<>>), Frame("body", NoName, <<op>>)>>
    /\ UNCHANGED <<phase, reg, plugins, finalizers, shared, kept>>

PDI_finalize ==
    /\ phase = "ready" /\ stack = <<>>
    /\ stack' = <<Frame("api", "finalize", <<>>), Frame("body", NoName, <<Op("event", "pdi_stop_timer")>>)>>
    /\ UNCHANGED <<phase, reg, plugins, finalizers, shared, kept>>

\* The function of the API returns; PDI_finalize destroys the context unless
\* its event threw.
ApiReturn ==
    /\ Running("api")
    /\ stack' = Below
    /\ phase' = IF Inner.name = "finalize" /\ ~Inner.failed THEN "destroy" ELSE phase
    /\ UNCHANGED <<reg, plugins, finalizers, shared, kept>>

\* ~Plugin_store, once the lists of callbacks are destroyed.
DestroyPlugin(p) ==
    /\ phase = "destroy" /\ stack = <<>> /\ p \in plugins
    /\ plugins' = plugins \ {p}
    /\ stack' = IF p = "set_value"
                THEN <<Frame("dtor", p, <<>>), Frame("body", NoName, finalizers)>>
                ELSE stack
    /\ UNCHANGED <<phase, reg, finalizers, shared, kept>>

\* An exception out of a destructor ends the program.
DestructorReturn ==
    /\ Running("dtor")
    /\ IF Inner.failed THEN phase' = "terminated" /\ stack' = <<>> ELSE stack' = Below /\ UNCHANGED phase
    /\ UNCHANGED <<reg, plugins, finalizers, shared, kept>>

DestroyStore ==
    /\ phase = "destroy" /\ stack = <<>> /\ plugins = {}
    /\ NoContext
=============================================================================

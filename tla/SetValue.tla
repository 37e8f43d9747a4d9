------------------------------ MODULE SetValue ------------------------------
(***************************************************************************)
(* The plugin set_value (plugins/set_value) in a Global_context: its       *)
(* triggers execute lists of operations on events and data, when the       *)
(* context is initialised, and when the plugin is destroyed.  The          *)
(* operation logger changes no state that is modelled.                     *)
(* A value is not modelled, only whether computing it or storing it fails. *)
(***************************************************************************)
EXTENDS GlobalContext

Init ==
    /\ InitIncludes
    /\ phase = "none" /\ reg = <<>> /\ plugins = {} /\ finalizers = <<>> /\ stack = <<>>
    /\ shared = [d \in Data |-> 0] /\ kept = [d \in Data |-> 0]

\* Expose_operation::execute
Expose(name) == <<Op("share", name), Op("release", name)>>

Do(what) == Running("body") /\ Inner.todo # <<>> /\ Head(Inner.todo).op = what

Todo == Head(Inner.todo)

\* The calls in progress once the first operation is under way.
Rest == Append(Below, [Inner EXCEPT !.todo = Tail(@)])

CanCall == Len(stack) < MaxDepth

\* Calls that nest without end exhaust the stack of the program.
StackOverflow ==
    /\ stack # <<>> /\ ~CanCall
    /\ phase' = "terminated" /\ stack' = <<>>
    /\ UNCHANGED <<reg, plugins, finalizers, shared, kept>>

\* The expression of the value, the trigger, the observer or user code throws.
OperationThrows ==
    /\ \E what \in {"share", "set", "register", "finalizer", "observe", "api"} : Do(what)
    /\ Throw(Below)
    /\ UNCHANGED <<reg, plugins, finalizers, kept>>

Observe ==
    /\ Do("observe")
    /\ stack' = Rest
    /\ UNCHANGED <<phase, reg, plugins, finalizers, shared, kept>>

ShareBegin ==
    /\ Do("share") /\ CanCall
    /\ shared' = [shared EXCEPT ![Todo.name] = @ + 1]
    /\ Notify(Append(Rest, Frame("share", Todo.name, <<>>)), "data", Todo.name)
    /\ UNCHANGED <<reg, plugins, finalizers, kept>>

ShareEnd ==
    /\ Running("share")
    /\ kept' = [kept EXCEPT ![Inner.name] = @ + 1]
    /\ stack' = Below
    /\ UNCHANGED <<phase, reg, plugins, finalizers, shared>>

ReleaseBegin ==
    /\ Do("release") /\ CanCall
    /\ IF shared[Todo.name] = 0
       THEN Throw(Below)
       ELSE Notify(Append(Rest, Frame("release", Todo.name, <<>>)), "remove", Todo.name) /\ UNCHANGED shared
    /\ UNCHANGED <<reg, plugins, finalizers, kept>>

\* The data is popped; ref() is called first, which asks the plugins for a data
\* that a callback of notify_data_remove has removed.
ReleaseEnd ==
    /\ Running("release")
    /\ IF shared[Inner.name] > 0
       THEN /\ shared' = [shared EXCEPT ![Inner.name] = @ - 1]
            /\ kept' = [kept EXCEPT ![Inner.name] = @ - 1]
            /\ stack' = Below
            /\ UNCHANGED phase
       ELSE /\ CanCall
            /\ Notify(Append(stack, Frame("ref", Inner.name, <<>>)), "missing", Inner.name)
            /\ UNCHANGED <<shared, kept>>
    /\ UNCHANGED <<reg, plugins, finalizers>>

EventBegin ==
    /\ Do("event") /\ CanCall
    /\ Notify(Rest, "event", Todo.name)
    /\ UNCHANGED <<reg, plugins, finalizers, shared, kept>>

\* Set_operation: ref() of a data that is not shared asks the plugins for it.
SetBegin ==
    /\ Do("set") /\ CanCall
    /\ IF shared[Todo.name] > 0
       THEN stack' = Rest /\ UNCHANGED phase
       ELSE Notify(Append(Rest, Frame("ref", Todo.name, <<>>)), "missing", Todo.name)
    /\ UNCHANGED <<reg, plugins, finalizers, shared, kept>>

\* ref() throws if no plugin gave the data.
RefEnd ==
    /\ Running("ref")
    /\ IF shared[Inner.name] > 0 THEN stack' = Below /\ UNCHANGED <<shared, phase>> ELSE Throw(Below)
    /\ UNCHANGED <<reg, plugins, finalizers, kept>>

\* load_config: a trigger is created, and executed by a callback or kept for
\* the destructor.
RegisterTrigger ==
    /\ Do("register")
    /\ reg' = On(reg, Callback(Todo.kind, Todo.name, Todo.ops))
    /\ stack' = Rest
    /\ UNCHANGED <<phase, plugins, finalizers, shared, kept>>

KeepFinalizer ==
    /\ Do("finalizer")
    /\ finalizers' = finalizers \o Todo.ops
    /\ stack' = Rest
    /\ UNCHANGED <<phase, reg, plugins, shared, kept>>

BodyEnd ==
    /\ Running("body") /\ Inner.todo = <<>>
    /\ stack' = Below
    /\ UNCHANGED <<phase, reg, plugins, finalizers, shared, kept>>

Operation ==
    \/ StackOverflow \/ OperationThrows \/ Observe \/ ShareBegin \/ ShareEnd \/ ReleaseBegin \/ ReleaseEnd
    \/ EventBegin \/ SetBegin \/ RefEnd \/ RegisterTrigger \/ KeepFinalizer \/ BodyEnd
=============================================================================

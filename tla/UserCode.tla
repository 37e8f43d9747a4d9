------------------------------ MODULE UserCode ------------------------------
(***************************************************************************)
(* The plugin user_code (plugins/user_code) beside set_value: on an event  *)
(* or a data, it shares data under other names, the aliases, calls a       *)
(* function of the user, which calls the API, and releases the aliases.    *)
(* The destructors of the aliases and of the timer do this, also when an   *)
(* exception goes through; one that throws itself ends the program.        *)
(***************************************************************************)
EXTENDS SetValue

\* A call of the API in the function of the user.
Api(op) == [Op("api", NoName) EXCEPT !.ops = <<op>>]

\* The operations of Trigger::call, once the timer is started.
Aliased(aliases, calls) ==
    FlattenSeq([i \in DOMAIN aliases |-> <<Op("share", aliases[i]), Op("exposed", aliases[i])>>])
        \o <<[Op("function", NoName) EXCEPT !.ops = [i \in DOMAIN calls |-> Api(calls[i])]]>>

\* A callback of the plugin: the constructor of Timer_event_handler triggers an
\* event, then the rest is in its scope.
CallFunction(kind, name, aliases, calls) ==
    [id |-> 0, kind |-> kind, name |-> name,
     ops |-> <<Op("event", "user_code_start_timer"), [Op("scope", NoName) EXCEPT !.ops = Aliased(aliases, calls)]>>]

\* The destructors that run at the end of the scope, in order.
StopTimer == <<Op("event", "user_code_stop_timer")>>

ScopeBegin ==
    /\ Do("scope") /\ CanCall
    /\ stack' = Rest \o <<Frame("scope", NoName, StopTimer), Frame("body", NoName, Todo.ops)>>
    /\ UNCHANGED <<phase, reg, plugins, finalizers, shared, kept>>

\* Faulty variant: the alias is not kept, so nothing releases it.
ForgetAlias(todo, name) == todo

\* exposed_aliases.emplace_back: the destructor of the alias runs after those
\* of the aliases before it, and before that of the timer.
KeepAlias(todo, name) == Front(todo) \o <<Op("release", name)>> \o StopTimer

AliasExposed ==
    /\ Do("exposed")
    /\ stack' = [Rest EXCEPT ![Len(stack) - 1].todo = KeepAlias(@, Todo.name)]
    /\ UNCHANGED <<phase, reg, plugins, finalizers, shared, kept>>

\* The function is called when the condition holds; an exception of either is
\* logged, so the condition that throws is as one that does not hold.
FunctionBegin ==
    /\ Do("function") /\ CanCall
    /\ \E when \in BOOLEAN :
        stack' = Rest \o <<Frame("function", NoName, <<>>)>> \o (IF when THEN <<Frame("body", NoName, Todo.ops)>> ELSE <<>>)
    /\ UNCHANGED <<phase, reg, plugins, finalizers, shared, kept>>

FunctionEnd ==
    /\ Running("function")
    /\ stack' = Below
    /\ UNCHANGED <<phase, reg, plugins, finalizers, shared, kept>>

\* An exception does not leave the functions of the API.
ApiCall ==
    /\ Do("api") /\ CanCall
    /\ stack' = Rest \o <<Frame("api", NoName, <<>>), Frame("body", NoName, Todo.ops)>>
    /\ UNCHANGED <<phase, reg, plugins, finalizers, shared, kept>>

\* ~ExposedAlias, ~Timer_event_handler
ScopeDestructor ==
    /\ Running("scope") /\ Inner.todo # <<>>
    /\ stack' = Append(Below, [Inner EXCEPT !.todo = Tail(@)])
                    \o <<Frame("dtor", NoName, <<>>), Frame("body", NoName, <<Head(Inner.todo)>>)>>
    /\ UNCHANGED <<phase, reg, plugins, finalizers, shared, kept>>

ScopeEnd ==
    /\ Running("scope") /\ Inner.todo = <<>>
    /\ IF Inner.failed THEN Throw(Below) ELSE stack' = Below /\ UNCHANGED <<shared, phase>>
    /\ UNCHANGED <<reg, plugins, finalizers, kept>>

CodeStep ==
    \/ ScopeBegin \/ AliasExposed \/ FunctionBegin \/ FunctionEnd \/ ApiCall \/ ScopeDestructor \/ ScopeEnd
=============================================================================

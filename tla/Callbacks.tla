----------------------------- MODULE Callbacks -----------------------------
(***************************************************************************)
(* The callbacks registered in a Global_context.  The lists of unnamed     *)
(* callbacks and the multimaps of named ones are one sequence, in the      *)
(* order of registration: a multimap keeps equal keys in insertion order.  *)
(* A callback is a record with at least an id (the iterator that the       *)
(* function returned by on_* erases), a kind, and a name.                  *)
(***************************************************************************)
EXTENDS Naturals, Sequences, FiniteSets

\* The empty name: a callback that is called whatever the name is.
NoName == ""

Kinds == {"init", "data", "remove", "event", "missing"}

\* on_init, on_data, on_data_remove, on_event, on_missing_data
On(reg, callback) == Append(reg, callback)

\* The k-th of the positions in S, and the callbacks at these positions in order.
Position(S, k) == CHOOSE i \in S : Cardinality({j \in S : j <= i}) = k

At(reg, S) == [k \in 1 .. Cardinality(S) |-> reg[Position(S, k)]]

\* The function they return.
Erase(reg, id) == At(reg, {i \in DOMAIN reg : reg[i].id # id})

Registered(reg, id) == \E i \in DOMAIN reg : reg[i].id = id

Where(reg, kind, names) == {i \in DOMAIN reg : reg[i].kind = kind /\ reg[i].name \in names}

OfKind(reg, kind) == At(reg, {i \in DOMAIN reg : reg[i].kind = kind})

\* Faulty variant: the named callbacks are gathered with the unnamed ones too.
GatherTwice(reg, kind, name) ==
    At(reg, Where(reg, kind, {name})) \o At(reg, Where(reg, kind, {NoName, name}))

\* The callbacks that notify_data, notify_data_remove, notify_event and
\* notify_missing_data gather, before they call the first one: the ones
\* registered for that name, then the unnamed ones.
Gather(reg, kind, name) ==
    At(reg, Where(reg, kind, {name} \ {NoName})) \o At(reg, Where(reg, kind, {NoName}))
=============================================================================

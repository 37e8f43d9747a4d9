-------------------------- MODULE MCContextPlugins --------------------------
EXTENDS ContextPlugins

Lists == {<<>>} \cup {<<p>> : p \in Paths} \cup {<<p, q>> : p, q \in Paths}

AllGraphs == [Paths \cup {Root} -> Lists]

\* load_config with every kind of trigger and operation.
Chained ==
    <<Op("share", "d"), Op("set", "d"),
      Trigger("event", "e", Expose("c") \o <<Op("event", "f")>>),
      Trigger("data", "c", <<Op("event", "f")>>),
      Trigger("event", "f", <<Op("set", "c")>>),
      Finalizer(<<Op("set", "d"), Op("event", "e")>>)>>

\* A function with two aliases, which shares and releases, an alias too, and
\* one that is called when the alias is shared.
Functions == <<CallFunction("event", "e", <<"x", "y">>, <<Op("share", "d"), Op("release", "x")>>),
               CallFunction("data", "x", <<"y">>, <<Op("event", "f"), Op("release", "x")>>)>>

\* A plugin that observes, gives a data that is missing, and may remove the one
\* that is being removed.
Watch(kind, name, ops) == [id |-> 0, kind |-> kind, name |-> name, ops |-> ops]

Watching == <<Watch("data", NoName, <<Op("observe", NoName)>>), Watch("event", NoName, <<Op("observe", NoName)>>),
              Watch("remove", "d", <<[Op("function", NoName) EXCEPT !.ops = <<Op("release", "d")>>]>>),
              Watch("remove", NoName, <<Op("observe", NoName)>>),
              Watch("missing", "d", <<Op("share", "d")>>)>>

UserOps == {Op("event", "e"), Op("share", "c"), Op("share", "d"), Op("release", "d")}
=============================================================================

--------------------------- MODULE MCPluginStore ---------------------------
(* PluginStore for TLC. *)
EXTENDS PluginStore

Three == <<"a", "b", "c">>

=============================================================================

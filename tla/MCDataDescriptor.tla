-------------------------- MODULE MCDataDescriptor --------------------------
(* DataDescriptor for TLC. *)
EXTENDS DataDescriptor

\* Data that may only be written, as no metadata may be, and any other.
WriteOrBoth == {{"W"}, {"R", "W"}}

\* What plugins keep: references to look at the data or to change it.
ReadOrWrite == {{"R"}, {"W"}}

=============================================================================

----------------------------- MODULE DataStore -----------------------------
(***************************************************************************)
(* What the data store of PDI promises, without references, locks and      *)
(* callbacks: a stack of values for each name, the last one shared on top. *)
(* A name that is metadata keeps its last value when all shares are gone.  *)
(* A value that was given back to the user is found under no name: Null is *)
(* in its place.  When the callers of the store are not strict, because a  *)
(* callback removed what another call is sharing, one more value may be    *)
(* lost, but never is a value added or moved.                              *)
(***************************************************************************)
EXTENDS Naturals, Sequences, SequencesExt

CONSTANTS Names, Values, Null

VARIABLES stack, metadata, alive, strict

vars == <<stack, metadata, alive, strict>>

Init ==
    /\ stack = [n \in Names |-> <<>>]
    /\ metadata = {}
    /\ alive = Names
    /\ strict \in BOOLEAN

Top(n) == Last(stack[n])

Present == UNION {{stack[n][i] : i \in DOMAIN stack[n]} : n \in Names}

(* A name that is metadata has a value below its shares *)
Floor(n) == IF n \in metadata THEN 1 ELSE 0

(* The stacks once the values of W are given back *)
Without(W, s) == [n \in Names |-> [i \in DOMAIN s[n] |-> IF s[n][i] \in W THEN Null ELSE s[n][i]]]

Declare(n, meta) ==
    /\ stack[n] = <<>>
    /\ metadata' = IF meta THEN metadata \cup {n} ELSE metadata \ {n}
    /\ stack' = [stack EXCEPT ![n] = IF meta THEN <<Null>> ELSE <<>>]
    /\ UNCHANGED <<alive, strict>>

(* A new value is shared, or the one on top once more, or it is not accessible *)
Push(n, v) ==
    /\ \/ v \notin Present
       \/ v = Null
       \/ stack[n] # <<>> /\ v = Top(n)
    /\ stack' = [stack EXCEPT ![n] = Append(@, v)]
    /\ UNCHANGED <<metadata, alive, strict>>

(* A share is undone; the value may be given back *)
Undo(n, W) ==
    /\ IF strict THEN Len(stack[n]) > Floor(n) /\ W \subseteq {Top(n)} ELSE TRUE
    /\ stack' = Without(W, [stack EXCEPT ![n] = IF @ = <<>> THEN @ ELSE Front(@)])
    /\ UNCHANGED <<metadata, alive, strict>>

(* The last share of a metadata leaves v as the value below, any other nothing *)
Removed(n, v) ==
    [stack EXCEPT ![n] = IF n \in metadata /\ Len(@) = 2 THEN <<v>> ELSE Front(@)]

Release(n) ==
    /\ stack[n] # <<>>
    /\ strict => Len(stack[n]) > Floor(n)
    /\ \E v \in {Top(n), Null} : stack' = Removed(n, v)
    /\ UNCHANGED <<metadata, alive, strict>>

(* The value is given back; what a metadata keeps is another one, or nothing *)
Reclaim(n) ==
    /\ stack[n] # <<>>
    /\ strict => Len(stack[n]) > Floor(n)
    /\ \E v \in (Values \ Present) \cup {Null} : stack' = Without({Top(n)}, Removed(n, v))
    /\ UNCHANGED <<metadata, alive, strict>>

(* The value that a metadata keeps could not be saved *)
Lose(n) ==
    /\ ~strict
    /\ stack' = [stack EXCEPT ![n] = <<>>]
    /\ UNCHANGED <<metadata, alive, strict>>

Destroy(n) ==
    /\ n \in alive
    /\ alive' = alive \ {n}
    /\ stack' = [stack EXCEPT ![n] = <<>>]
    /\ UNCHANGED <<metadata, strict>>

Next ==
    \E n \in Names :
        \/ \E meta \in BOOLEAN : Declare(n, meta)
        \/ \E v \in Values \cup {Null} : Push(n, v)
        \/ \E W \in {{}} \cup {{v} : v \in Values} : Undo(n, W)
        \/ Release(n) \/ Reclaim(n) \/ Lose(n) \/ Destroy(n)

Spec == Init /\ [][Next]_vars

=============================================================================

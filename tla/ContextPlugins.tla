--------------------------- MODULE ContextPlugins ---------------------------
(***************************************************************************)
(* A Global_context with the plugins set_value, user_code and an observer, *)
(* from PDI_init to PDI_finalize and again: any operation may fail.        *)
(***************************************************************************)
EXTENDS UserCode

CONSTANT Aliases    \* the data that are shared as aliases only

\* The steps of a call in progress.
Work ==
    \/ /\ \/ NotifyNext \/ NotifyEnd \/ NotifyInitNext \/ NotifyInitEnd \/ ApiReturn
          \/ DestructorReturn \/ DestroyStore \/ Operation \/ CodeStep \/ \E p \in plugins : DestroyPlugin(p)
       /\ UNCHANGED includeVars
    \/ GetIncludes \/ LoadTypes \/ LoadPlugins \/ LoadData

Next ==
    \/ PDI_init
    \/ (UserCall \/ PDI_finalize) /\ UNCHANGED includeVars
    \/ Work

Spec == Init /\ [][Next]_vars

\* A call that was made goes on.
FairSpec == Spec /\ WF_vars(Work)

-----------------------------------------------------------------------------
(***************************************************************************)
(* A callback that throws, at any depth of nested notifications, does not  *)
(* keep the notify_* functions from calling all the callbacks they         *)
(* gathered.                                                               *)
(***************************************************************************)
NotifyCallsAll ==
    [][\A i \in DOMAIN stack :
        stack[i].type = "notify" /\ i > Len(stack') /\ phase' # "terminated" => stack[i].todo = <<>>]_vars

(***************************************************************************)
(* Whatever fails, at any depth of nested notifications, the store holds   *)
(* exactly the data whose share completed and the ones being shared:       *)
(* share() takes back what it cannot announce, and the operations of a     *)
(* trigger that precede the failure stay.                                  *)
(***************************************************************************)
StoreIsBalanced ==
    phase # "terminated" => \A d \in Data : shared[d] = kept[d] + Undone(stack, d)

(***************************************************************************)
(* No alias of user_code outlives the call of the function it was made     *)
(* for, whether the call returns, throws or never takes place.             *)
(***************************************************************************)
AliasesReleased ==
    phase # "terminated" /\ stack = <<>> => \A a \in Aliases : shared[a] = 0

(***************************************************************************)
(* PDI_init, the other functions of the API and the destruction of the     *)
(* context return, whatever the inclusions and the failures.               *)
(***************************************************************************)
CallsReturn ==
    [](stack # <<>> \/ phase \in {"including", "destroy"} => <>(stack = <<>> /\ phase \in {"none", "ready", "terminated"}))

=============================================================================

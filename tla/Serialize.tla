----------------------------- MODULE Serialize -----------------------------
(***************************************************************************)
(* The plugin serialize (plugins/serialize) for one data: when `data' is   *)
(* shared it shares a serialised copy of it as `serialized' and registers  *)
(* a callback that, when `data' is removed, copies the serialised data     *)
(* back and releases it.  This is the one plugin that erases callbacks,    *)
(* and it does so while PDI calls them.                                    *)
(*                                                                         *)
(* Around it: the user shares and reclaims `data'; other plugins have      *)
(* callbacks on both data, which may throw and keep references; a consumer *)
(* writes the serialised data.  A stack of the store is a sequence of      *)
(* shares, each with the lock that plugins other than serialize keep on    *)
(* it.  What the copies do to the bytes is the subject of TypeSerializer.  *)
(***************************************************************************)
EXTENDS Callbacks, SequencesExt

CONSTANTS
    MaxShares,    \* bound on the nesting of the shares of `data'
    MaxIds        \* bound on the callbacks registered before a share

VARIABLES
    reg,          \* the callbacks
    last,         \* the id of the last callback registered
    data,         \* the shares of `data': their right, value and lock
    serialized,   \* the shares of `serialized'
    m_serialized_remove_callback,   \* callback and right of each serialisation
    calls,        \* the notify_* in progress, the innermost last
    skipped,      \* no lock was left for the last share of `data': it is not serialised
    written,      \* the consumer wrote in the serialised form of the last share
    again,        \* `data' was shared again before it was reclaimed, or its share failed
    broken,       \* a removal failed, or someone else released `serialized'
    dangling      \* a callback was called after it was erased

vars == <<reg, last, data, serialized, m_serialized_remove_callback, calls, skipped, written,
          again, broken, dangling>>

Rights == {"in", "out", "inout"}

CanRead(right) == right \in {"out", "inout"}

CanWrite(right) == right \in {"in", "inout"}

\* The locks that other plugins may keep on what is shared with this right.
Locks(right) == {"none"} \cup {l \in {"r"} : CanRead(right)} \cup {l \in {"w"} : CanWrite(right)}

Share(right, val) == [right |-> right, val |-> val, lock |-> "none"]

Callback(id, kind, name, who) == [id |-> id, kind |-> kind, name |-> name, who |-> who]

\* load_config of serialize registers its callback between those of others.
Loaded ==
    <<Callback(1, "data", "data", "other"), Callback(2, "data", "data", "serialize"),
      Callback(3, "data", "data", "other"), Callback(4, "data", "serialized", "consumer"),
      Callback(5, "remove", "serialized", "other"), Callback(6, "remove", "data", "other")>>

Init ==
    /\ reg = Loaded /\ last = 6
    /\ data = <<>> /\ serialized = <<>> /\ m_serialized_remove_callback = <<>>
    /\ calls = <<>>
    /\ skipped = FALSE /\ written = FALSE /\ again = FALSE /\ broken = FALSE /\ dangling = FALSE

\* notify_data and notify_data_remove: the callbacks gathered.  index: the
\* element of m_serialized_remove_callback that release_serialized found.
Notify(kind, name, index) ==
    [kind |-> kind, name |-> name, todo |-> Gather(reg, kind, name), failed |-> FALSE, index |-> index]

Inner == calls[Len(calls)]

\* The calls once the innermost one is past its first callback.
Past == [calls EXCEPT ![Len(calls)].todo = Tail(@)]

PastFailed == [Past EXCEPT ![Len(calls)].failed = TRUE]

\* The caller of the innermost call gets its exception.
Propagated == IF Len(calls) = 1 THEN <<>> ELSE [Front(calls) EXCEPT ![Len(calls) - 1].failed = TRUE]

\* The callback to call.  Its element of the list may be gone: then calling it
\* is undefined, and the model stops.
Calling(kind, name, who) ==
    /\ calls # <<>> /\ ~dangling
    /\ Inner.kind = kind /\ Inner.name = name /\ Inner.todo # <<>>
    /\ Head(Inner.todo).who = who

Alive == Registered(reg, Head(Inner.todo).id)

CallDangling ==
    /\ calls # <<>> /\ Inner.todo # <<>> /\ ~Alive /\ ~dangling
    /\ dangling' = TRUE
    /\ UNCHANGED <<reg, last, data, serialized, m_serialized_remove_callback, calls, skipped, written, again, broken>>

-----------------------------------------------------------------------------
\* Data_descriptor_impl::share and reclaim, called by the user.
ShareData(right) ==
    /\ calls = <<>> /\ ~dangling /\ Len(data) < MaxShares /\ last < MaxIds
    /\ data' = Append(data, Share(right, "user"))
    /\ again' = (again \/ data # <<>>)
    /\ calls' = <<Notify("data", "data", 0)>>
    /\ skipped' = FALSE /\ written' = FALSE
    /\ UNCHANGED <<reg, last, serialized, m_serialized_remove_callback, broken, dangling>>

ReclaimData ==
    /\ calls = <<>> /\ ~dangling /\ data # <<>>
    /\ calls' = <<Notify("remove", "data", 0)>>
    /\ UNCHANGED <<reg, last, data, serialized, m_serialized_remove_callback, skipped, written, again, broken, dangling>>

\* Someone else releases the serialised data.
ReleaseSerializedAlone ==
    /\ calls = <<>> /\ ~dangling /\ serialized # <<>>
    /\ calls' = <<Notify("remove", "serialized", 0)>>
    /\ broken' = TRUE
    /\ UNCHANGED <<reg, last, data, serialized, m_serialized_remove_callback, skipped, written, again, dangling>>

\* The shares s once plugins have another lock on the last one.
Locking(s) == {[s EXCEPT ![Len(s)].lock = l] : l \in Locks(Last(s).right)}

\* The callbacks of the other plugins return or throw; those of `data' may keep
\* a reference to it.
Other ==
    /\ \E kind \in Kinds, name \in {"data", "serialized"} : Calling(kind, name, "other")
    /\ calls' \in {Past, PastFailed}
    /\ data' \in {data} \cup (IF Inner.name = "data" THEN Locking(data) ELSE {})
    /\ UNCHANGED <<reg, last, serialized, m_serialized_remove_callback, skipped, written, again, broken, dangling>>

\* The consumer writes the serialised data if it may, and keeps a lock or none.
Write ==
    \/ serialized' \in Locking(serialized) /\ UNCHANGED written
    \/ /\ CanWrite(Last(serialized).right)
       /\ serialized' \in Locking([serialized EXCEPT ![Len(serialized)].val = "plugin"])
       /\ written' = TRUE

Consume ==
    /\ Calling("data", "serialized", "consumer")
    /\ calls' \in {Past, PastFailed}
    /\ Write
    /\ UNCHANGED <<reg, last, data, m_serialized_remove_callback, skipped, again, broken, dangling>>

\* Between two calls of the user, an event: the plugins take and drop locks on
\* `data', and the consumer writes.
Event ==
    /\ calls = <<>> /\ ~dangling
    /\ \/ data # <<>> /\ data' \in Locking(data) /\ UNCHANGED <<serialized, written>>
       \/ serialized # <<>> /\ Write /\ UNCHANGED data
    /\ UNCHANGED <<reg, last, m_serialized_remove_callback, calls, skipped, again, broken, dangling>>

-----------------------------------------------------------------------------
\* The right of the serialised share: the first of Ref_rw, Ref_r and Ref_w that
\* can be had of `data', "none" when another plugin locks it to write.
Obtained(share) ==
    CASE share.lock = "none" -> share.right
      [] share.lock = "r" -> "out"
      [] OTHER -> "none"

\* share_serialized: serialize_type may throw; without a lock nothing is shared;
\* else the copy is shared, which notifies the callbacks of `serialized'.
ShareSerialized ==
    /\ Calling("data", "data", "serialize")
    /\ LET right == Obtained(Last(data))
       IN  \/ calls' = PastFailed /\ UNCHANGED <<serialized, skipped>>
           \/ /\ right = "none"
              /\ calls' = Past /\ skipped' = TRUE
              /\ UNCHANGED serialized
           \/ /\ right # "none"
              /\ serialized' = Append(serialized, Share(right, IF CanRead(right) THEN Last(data).val ELSE "unset"))
              /\ calls' = Append(Past, Notify("data", "serialized", 0))
              /\ UNCHANGED skipped
    /\ UNCHANGED <<reg, last, data, m_serialized_remove_callback, written, again, broken, dangling>>

\* The notification of `serialized' ends: on error share() pops it and throws;
\* else share_serialized registers release_serialized.
ShareSerializedEnd ==
    /\ calls # <<>> /\ Inner.kind = "data" /\ Inner.name = "serialized" /\ Inner.todo = <<>>
    /\ IF Inner.failed
       THEN /\ serialized' = Front(serialized)
            /\ calls' = Propagated
            /\ UNCHANGED <<reg, last, m_serialized_remove_callback>>
       ELSE /\ reg' = On(reg, Callback(last + 1, "remove", "data", "serialize"))
            /\ last' = last + 1
            /\ m_serialized_remove_callback' =
                    Append(m_serialized_remove_callback, [callback |-> last + 1, right |-> Last(serialized).right])
            /\ calls' = Front(calls)
            /\ UNCHANGED serialized
    /\ UNCHANGED <<data, skipped, written, again, broken, dangling>>

\* The element that release_serialized looks for: the last one.
LastSerialized == Len(m_serialized_remove_callback)

\* Faulty variant: the callback stays registered.
Kept(id) == reg
Unregister(id) == Erase(reg, id)

\* Faulty variant: the values are not copied back.
NotCopied(d, s) == d
DeserializeCopy(d, s) == [d EXCEPT ![Len(d)].val = Last(s).val]

\* release_serialized: it erases the callback before the steps that may fail.
ReleaseSerialized ==
    /\ Calling("remove", "data", "serialize") /\ Alive
    /\ IF m_serialized_remove_callback = <<>>
       THEN calls' = PastFailed /\ UNCHANGED <<reg, data>>
       ELSE LET i == LastSerialized
                entry == m_serialized_remove_callback[i]
                denied == ~CanWrite(Last(data).right) \/ Last(data).lock # "none" \/ Last(serialized).lock # "none"
            IN  /\ reg' = Unregister(entry.callback)
                /\ IF serialized = <<>> \/ (CanWrite(entry.right) /\ denied)
                   THEN calls' = PastFailed /\ UNCHANGED data
                   ELSE /\ data' = IF CanWrite(entry.right) THEN DeserializeCopy(data, serialized) ELSE data
                        /\ calls' = Append(Past, Notify("remove", "serialized", i))
    /\ UNCHANGED <<last, serialized, m_serialized_remove_callback, skipped, written, again, broken, dangling>>

\* release() of `serialized' ends: on error it stays in the store.
ReleaseSerializedEnd ==
    /\ calls # <<>> /\ Inner.kind = "remove" /\ Inner.name = "serialized" /\ Inner.todo = <<>>
    /\ IF Inner.failed
       THEN calls' = Propagated /\ UNCHANGED <<serialized, m_serialized_remove_callback>>
       ELSE /\ serialized' = Front(serialized)
            /\ m_serialized_remove_callback' =
                    IF Inner.index = 0
                    THEN m_serialized_remove_callback
                    ELSE RemoveAt(m_serialized_remove_callback, Inner.index)
            /\ calls' = Front(calls)
    /\ UNCHANGED <<reg, last, data, skipped, written, again, broken, dangling>>

\* The notification of `data' ends.
ShareDataEnd ==
    /\ calls # <<>> /\ Inner.kind = "data" /\ Inner.name = "data" /\ Inner.todo = <<>>
    /\ data' = IF Inner.failed THEN Front(data) ELSE data
    /\ again' = (again \/ (Inner.failed /\ m_serialized_remove_callback # <<>>))
    /\ calls' = <<>>
    /\ UNCHANGED <<reg, last, serialized, m_serialized_remove_callback, skipped, written, broken, dangling>>

ReclaimDataEnd ==
    /\ calls # <<>> /\ Inner.kind = "remove" /\ Inner.name = "data" /\ Inner.todo = <<>>
    /\ data' = IF Inner.failed THEN data ELSE Front(data)
    /\ broken' = (broken \/ Inner.failed)
    /\ calls' = <<>>
    /\ UNCHANGED <<reg, last, serialized, m_serialized_remove_callback, skipped, written, again, dangling>>

Next ==
    \/ \E right \in Rights : ShareData(right)
    \/ ReclaimData \/ ReleaseSerializedAlone
    \/ Other \/ Consume \/ Event \/ CallDangling
    \/ ShareSerialized \/ ShareSerializedEnd \/ ReleaseSerialized \/ ReleaseSerializedEnd
    \/ ShareDataEnd \/ ReclaimDataEnd

Spec == Init /\ [][Next]_vars

-----------------------------------------------------------------------------
(***************************************************************************)
(* Consumers and other plugins may fail at any point, the removal may fail *)
(* halfway and be tried again, the serialised data may be released by      *)
(* others: an erased callback is called only if `data' was shared again    *)
(* before it was reclaimed, or a share of it failed once it was serialised.*)
(***************************************************************************)
DanglingNeedsTwoShares == dangling => again

(***************************************************************************)
(* Between two calls, the last share of `data' has one serialised share,   *)
(* one entry of m_serialized_remove_callback and one removal callback if a *)
(* lock on it could be had, and nothing otherwise: until a removal fails,  *)
(* others release `serialized', or a share of `data' fails or is nested.   *)
(***************************************************************************)
SerializedFollowsData ==
    calls = <<>> /\ ~again /\ ~broken =>
        LET expected == IF skipped THEN 0 ELSE Len(data)
        IN  /\ Len(serialized) = expected
            /\ Len(m_serialized_remove_callback) = expected
            /\ Len(reg) - Len(Loaded) = expected

\* This step gives `data' back to the user.
GivesBack == calls # <<>> /\ Inner.kind = "remove" /\ Inner.name = "data" /\ Len(data') < Len(data)

\* What the owner should find: what the consumer last wrote, the copy of memory
\* that nobody wrote if it asked for values and got none, else its own value.
Delivered ==
    IF written THEN "plugin" ELSE IF Last(data).right = "in" /\ ~skipped THEN "unset" ELSE "user"

(***************************************************************************)
(* When `data' is given back, its owner finds what the consumer last wrote *)
(* in its serialised form, whatever locks were kept, callbacks threw and   *)
(* events came in between: until a removal fails, others release           *)
(* `serialized', or a share of `data' fails or is nested.                  *)
(***************************************************************************)
WritesReachTheOwner == [][GivesBack /\ ~again /\ ~broken => Last(data).val = Delivered]_vars
=============================================================================

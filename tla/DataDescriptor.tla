--------------------------- MODULE DataDescriptor ---------------------------
(***************************************************************************)
(* The data store of PDI (pdi/src/data_descriptor_impl.cxx): for each name *)
(* a stack of references to the data shared under this name, with a        *)
(* read-only placeholder at the bottom of the stack of a metadata.         *)
(*                                                                         *)
(* share(), release() and reclaim() call the plugins (notify_data,         *)
(* notify_data_remove, notify_missing_data of Global_context) in the       *)
(* middle of their work, and the callbacks of the plugins may call PDI     *)
(* again, keep references or throw.  A call in progress is a frame of the  *)
(* stack `calls': it always waits for its callbacks, so that every step is *)
(* either a new call, by the program or by a callback of the innermost     *)
(* call, or the end of the callbacks of the innermost call.                *)
(*                                                                         *)
(* What is shared is new data, or once more what its name references: the  *)
(* store is not given references of another name nor sub-references here   *)
(* (an expression's, or an alias of user_code), so that a data has a       *)
(* single Referenced_data.  RefAny has the sub-references, UserCode the    *)
(* aliases.                                                                *)
(***************************************************************************)
EXTENDS RefHeap, SequencesExt

CONSTANTS
    Names,          \* the descriptors
    Metadata,       \* the ones that the specification tree makes metadata
    MaxCalls,       \* bound on the nesting of calls in callbacks
    Modes,          \* the accesses that the calls of PDI ask for or offer
    PluginRights,   \* the privileges of the references that plugins keep
    CopyFails       \* whether Ref_any::copy() may throw

ASSUME DataAssumption ==
    /\ Metadata \subseteq Names
    /\ MaxCalls \in Nat
    /\ Modes \subseteq Access
    /\ PluginRights \subseteq Access
    /\ CopyFails \in BOOLEAN

VARIABLES
    heap,         \* the references, in holders, on the C++ stack or in plugins
    m_refs,       \* for each name the references of its holders, the top last
    m_metadata,   \* which names are metadata by now
    calls,        \* the calls in progress, the innermost last
    held,         \* the references that plugins keep
    status,       \* what the call that ended last returned
    owned,        \* buffers left to PDI: copies it made, and released data
    descriptors,  \* the descriptors that are not destroyed yet
    undefined,    \* pop() was called on an empty std::stack
    disciplined   \* callbacks remove exactly what they share, no copy fails

vars == <<heap, m_refs, m_metadata, calls, held, status, owned, descriptors, undefined, disciplined>>

\* A call in progress.  pc: which callbacks it waits for, the ones of missing
\* data or the ones of the operation itself.  depth: the size of every stack
\* when the callbacks started.  ref: the local reference of the call; buffer:
\* what share() was given.
Frames ==
    [op : {"share", "access", "release", "reclaim"}, name : Names, ref : Refs,
     rights : Access, buffer : Buffers \cup {Null},
     pc : {"missing", "notify"}, depth : [Names -> Nat]]

Init ==
    /\ heap = EmptyHeap
    /\ m_refs = [n \in Names |-> <<>>]
    /\ m_metadata = {}
    /\ calls = <<>>
    /\ held = {}
    /\ status = "ok"
    /\ owned = {}
    /\ descriptors = Names
    /\ undefined = FALSE
    /\ disciplined \in BOOLEAN

-----------------------------------------------------------------------------
(* Places for references, and stacks *)

Holders == UNION {{m_refs[n][i] : i \in DOMAIN m_refs[n]} : n \in Names}

Locals == {calls[i].ref : i \in DOMAIN calls}

Free == {r \in Refs : r \notin Holders \cup Locals \cup held /\ heap.m_content[r] = Null}

\* An arbitrary element of a set that is not empty.
Some(S) == CHOOSE x \in S : TRUE

Depth == [n \in Names |-> Len(m_refs[n])]

\* The innermost call.
Current == Last(calls)

\* The program, or a callback, may call PDI.
MayCall ==
    /\ descriptors = Names /\ ~undefined
    /\ Len(calls) < MaxCalls
    /\ Cardinality(Free) >= 2

\* The innermost call waits for callbacks of kind pc.  A disciplined callback
\* leaves the stacks as it found them; it may only share the missing data.
Waiting(pc, ops) ==
    /\ calls # <<>>
    /\ Current.pc = pc /\ Current.op \in ops
    /\ disciplined =>
          \A n \in Names \ (IF pc = "missing" THEN {Current.name} ELSE {}) :
              Depth[n] = Current.depth[n]

\* The innermost call returns s and leaves the heap h.
Return(s, h) ==
    /\ status' = s
    /\ heap' = h
    /\ calls' = Front(calls)

-----------------------------------------------------------------------------
(* References *)

\* Ref_holder::ref(): a reference without privileges to what `from' references.
RefTo(h, r, from) == Link(h, r, {}, GetContent(h, from))

\* Faulty variant: the deallocator is not disarmed.
ReleaseRefFrees(h, r) == Reset(h, r)

\* Ref_any::release() when no callback is registered.
ReleaseRef(h, r) == IF IsNull(h, r) THEN Reset(h, r) ELSE Nullify(h, r)

\* A reference that can read could be made of r, as in `Ref_r(data_ref)'.
Readable(h, r) == ~IsNull(h, r) /\ Grantable(h, BufferOf(h, r), {"R"})

-----------------------------------------------------------------------------
(* metadata(bool), called by load_data() for what the tree declares *)

LoadData(n) ==
    /\ MayCall /\ calls = <<>>
    /\ IF m_refs[n] = <<>>
       THEN /\ m_metadata' = IF n \in Metadata THEN m_metadata \cup {n} ELSE m_metadata \ {n}
            /\ m_refs' = [m_refs EXCEPT ![n] = IF n \in Metadata THEN <<Some(Free)>> ELSE <<>>]
            /\ status' = "ok"
       ELSE /\ status' = "error"
            /\ UNCHANGED <<m_metadata, m_refs>>
    /\ UNCHANGED <<heap, calls, held, owned, descriptors, undefined, disciplined>>

-----------------------------------------------------------------------------
(* share() *)

\* share(Ref, read, write) up to its callbacks, for the call f that was called
\* by the calls cs, on the heap h where its argument is f.ref.  It pushes a
\* holder with the privileges f.rights, or throws, which leaves the heap e.
Offer(f, cs, h, e) ==
    LET k      == Some(Free \ {f.ref})
        linked == Link(h, k, f.rights, GetContent(h, f.ref))
    IN  IF \/ f.name \in m_metadata /\ ~Readable(h, f.ref)
           \/ ~IsNull(h, f.ref) /\ IsNull(linked, k)
        THEN /\ heap' = e
             /\ calls' = cs
             /\ status' = "error"
             /\ UNCHANGED m_refs
        ELSE /\ heap' = linked
             /\ m_refs' = [m_refs EXCEPT ![f.name] = Append(@, k)]
             /\ calls' = Append(cs, [f EXCEPT !.pc = "notify",
                                              !.depth = [Depth EXCEPT ![f.name] = @ + 1]])
             /\ UNCHANGED status

Call(op, n, r, R, b, pc) ==
    [op |-> op, name |-> n, ref |-> r, rights |-> R, buffer |-> b, pc |-> pc,
     depth |-> Depth]

\* share(void*, read, write), i.e. PDI_share: new data, in a new buffer, that
\* others may access as a says.
Share(n, a) ==
    LET r == Some(Free)
        b == Some(FreshBuffers(heap))
        h == Create(heap, r, {}, Some(FreshContents(heap)), b, a)
    IN  /\ MayCall
        /\ FreshContents(heap) # {} /\ FreshBuffers(heap) # {}
        /\ Offer(Call("share", n, r, {}, b, "notify"), calls, h, ReleaseRef(h, r))
        /\ UNCHANGED <<m_metadata, held, owned, descriptors, undefined, disciplined>>

\* PDI_access: share again under its name, with the privileges R, what the
\* name references.
AccessShared(n, R) ==
    LET r == Some(Free)
        h == RefTo(heap, r, Last(m_refs[n]))
    IN  /\ MayCall
        /\ m_refs[n] # <<>>
        /\ Offer(Call("access", n, r, R, Null, "notify"), calls, h, Reset(h, r))
        /\ UNCHANGED <<m_metadata, held, owned, descriptors, undefined, disciplined>>

\* PDI_access when there is nothing: the plugins are first asked for data.
AccessMissing(n, R) ==
    /\ MayCall
    /\ m_refs[n] = <<>>
    /\ calls' = Append(calls, Call("access", n, Some(Free), R, Null, "missing"))
    /\ UNCHANGED <<heap, m_refs, m_metadata, held, status, owned, descriptors, undefined, disciplined>>

\* The callbacks of notify_data are done.
ShareDone ==
    /\ Waiting("notify", {"share", "access"})
    /\ Return("ok", Reset(heap, Current.ref))
    /\ UNCHANGED <<m_refs, m_metadata, held, owned, descriptors, undefined, disciplined>>

\* Faulty variants: the holder stays in the store; the holder that is popped
\* is not destroyed.
ShareThrowsKeeps ==
    /\ Waiting("notify", {"share", "access"})
    /\ Return("error", IF Current.op = "share" THEN ReleaseRef(heap, Current.ref)
                                               ELSE Reset(heap, Current.ref))
    /\ UNCHANGED <<m_refs, m_metadata, held, owned, descriptors, undefined, disciplined>>

ShareThrowsLeaks ==
    /\ Waiting("notify", {"share", "access"})
    /\ m_refs[Current.name] # <<>>
    /\ m_refs' = [m_refs EXCEPT ![Current.name] = Front(@)]
    /\ Return("error", Reset(heap, Current.ref))
    /\ UNCHANGED <<m_metadata, held, owned, descriptors, undefined, disciplined>>

\* A callback of notify_data threw: the holder is popped, and share(void*)
\* gives up the ownership of the data.
ShareThrows ==
    LET s == m_refs[Current.name]
        h == IF s = <<>> THEN heap ELSE Reset(heap, Last(s))
    IN  /\ Waiting("notify", {"share", "access"})
        /\ undefined' = (s = <<>>)
        /\ m_refs' = [m_refs EXCEPT ![Current.name] = IF s = <<>> THEN s ELSE Front(s)]
        /\ Return("error", IF Current.op = "share" THEN ReleaseRef(h, Current.ref)
                                                   ELSE Reset(h, Current.ref))
        /\ UNCHANGED <<m_metadata, held, owned, descriptors, disciplined>>

-----------------------------------------------------------------------------
(* release() and reclaim() *)

\* Something other than the placeholder is shared.
Shared(n) == Len(m_refs[n]) > (IF n \in m_metadata THEN 1 ELSE 0)

\* A disciplined callback removes only what callbacks shared.
RemoveBegins(op, n) ==
    LET r == Some(Free)
    IN  /\ MayCall
        /\ Shared(n)
        /\ disciplined /\ calls # <<>> => Len(m_refs[n]) > Current.depth[n]
        /\ heap' = RefTo(heap, r, Last(m_refs[n]))
        /\ calls' = Append(calls, Call(op, n, r, {}, Null, "notify"))
        /\ UNCHANGED <<m_refs, m_metadata, held, status, owned, descriptors, undefined, disciplined>>

\* Nothing to remove: State_error.
RemoveRefused(n) ==
    /\ MayCall
    /\ ~Shared(n)
    /\ status' = "error"
    /\ UNCHANGED <<heap, m_refs, m_metadata, calls, held, owned, descriptors, undefined, disciplined>>

\* A callback of notify_data_remove threw: the data stays.
RemoveThrows ==
    /\ Waiting("notify", {"release", "reclaim"})
    /\ Return("error", Reset(heap, Current.ref))
    /\ UNCHANGED <<m_refs, m_metadata, held, owned, descriptors, undefined, disciplined>>

\* The callbacks removed the data themselves: ref() asks the plugins for it.
RemoveMissing ==
    /\ Waiting("notify", {"release", "reclaim"})
    /\ m_refs[Current.name] = <<>>
    /\ heap' = Reset(heap, Current.ref)
    /\ calls' = Append(Front(calls), [Current EXCEPT !.pc = "missing", !.depth = Depth])
    /\ UNCHANGED <<m_refs, m_metadata, held, status, owned, descriptors, undefined, disciplined>>

\* The heap where the local reference of the current call is oldref, and the
\* top holder is popped; and whether the placeholder is now to be replaced.
Popped ==
    LET s == m_refs[Current.name]
    IN  Reset(RefTo(Reset(heap, Current.ref), Current.ref, Last(s)), Last(s))

Replaces == Current.name \in m_metadata /\ Len(m_refs[Current.name]) = 2

\* The data that is removed can be read, once the placeholder is gone.
Copyable == Readable(Reset(Popped, m_refs[Current.name][1]), Current.ref)

\* Faulty variant: the old placeholder is popped and not replaced.
ReleaseDoneBare(pc) ==
    LET s == m_refs[Current.name]
    IN  /\ Waiting(pc, {"release"})
        /\ s # <<>>
        /\ Return("ok", Reset(IF Replaces THEN Reset(Popped, s[1]) ELSE Popped, Current.ref))
        /\ m_refs' = [m_refs EXCEPT ![Current.name] = IF Replaces THEN <<>> ELSE Front(s)]
        /\ UNCHANGED <<m_metadata, held, owned, descriptors, undefined, disciplined>>

\* The rest of release(): a new placeholder is on the data itself.
ReleaseDone(pc) ==
    LET s == m_refs[Current.name]
        r == Current.ref
        h == IF Replaces
             THEN Link(Reset(Popped, s[1]), s[1], {"R"}, GetContent(Popped, r))
             ELSE Popped
    IN  /\ Waiting(pc, {"release"})
        /\ s # <<>>
        /\ Return("ok", Reset(h, r))
        /\ m_refs' = [m_refs EXCEPT ![Current.name] = Front(s)]
        /\ owned' = owned \cup {BufferOf(Popped, q) : q \in {q \in {r} : ~IsNull(Popped, q)}}
        /\ UNCHANGED <<m_metadata, held, descriptors, undefined, disciplined>>

\* The rest of reclaim(): a new placeholder is on a copy of the data, and the
\* memory is given back.  The copy is null when the data is not readable.
ReclaimDone(pc) ==
    LET s == m_refs[Current.name]
        h == IF Replaces THEN Reset(Popped, s[1]) ELSE Popped
    IN  /\ Waiting(pc, {"reclaim"})
        /\ s # <<>>
        /\ IF Replaces /\ Copyable
           THEN LET b == Some(FreshBuffers(heap))
                    g == Create(h, s[1], {"R"}, Some(FreshContents(heap)), b, {"R", "W"})
                IN  /\ FreshContents(heap) # {} /\ FreshBuffers(heap) # {}
                    /\ Return("ok", ReleaseRef(g, Current.ref))
                    /\ owned' = owned \cup {b}
           ELSE /\ Return("ok", ReleaseRef(h, Current.ref))
                /\ UNCHANGED owned
        /\ m_refs' = [m_refs EXCEPT ![Current.name] = Front(s)]
        /\ UNCHANGED <<m_metadata, held, descriptors, undefined, disciplined>>

\* The copy throws, after both holders were popped.
ReclaimCopyThrows(pc) ==
    /\ Waiting(pc, {"reclaim"})
    /\ m_refs[Current.name] # <<>>
    /\ CopyFails /\ ~disciplined /\ Replaces /\ Copyable
    /\ Return("error", Reset(Reset(Popped, m_refs[Current.name][1]), Current.ref))
    /\ m_refs' = [m_refs EXCEPT ![Current.name] = <<>>]
    /\ UNCHANGED <<m_metadata, held, owned, descriptors, undefined, disciplined>>

-----------------------------------------------------------------------------
(* notify_missing_data *)

\* A plugin threw, or none of them shared the data: Value_error.
MissingThrows ==
    /\ Waiting("missing", {"access", "release", "reclaim"})
    /\ Return("error", heap)
    /\ UNCHANGED <<m_refs, m_metadata, held, owned, descriptors, undefined, disciplined>>

\* A plugin shared the data: PDI_access goes on.
MissingShared ==
    LET f == Current
        h == RefTo(heap, f.ref, Last(m_refs[f.name]))
    IN  /\ Waiting("missing", {"access"})
        /\ m_refs[f.name] # <<>>
        /\ Free # {}
        /\ Offer(f, Front(calls), h, Reset(h, f.ref))
        /\ UNCHANGED <<m_metadata, held, owned, descriptors, undefined, disciplined>>

-----------------------------------------------------------------------------
(* References that a plugin keeps, and the end *)

Hold(n, R) ==
    /\ descriptors = Names /\ ~undefined
    /\ held = {} /\ Free # {} /\ m_refs[n] # <<>>
    /\ LET s == Some(Free)
       IN  /\ heap' = Link(heap, s, R, GetContent(heap, Last(m_refs[n])))
           /\ ~IsNull(heap', s)
           /\ held' = {s}
    /\ UNCHANGED <<m_refs, m_metadata, calls, status, owned, descriptors, undefined, disciplined>>

Drop(s) ==
    /\ s \in held
    /\ heap' = Reset(heap, s)
    /\ held' = held \ {s}
    /\ UNCHANGED <<m_refs, m_metadata, calls, status, owned, descriptors, undefined, disciplined>>

\* ~Data_descriptor_impl: a placeholder that is alone is destroyed, any other
\* holder is leaked.
Destroy(n) ==
    /\ calls = <<>> /\ ~undefined
    /\ n \in descriptors
    /\ descriptors' = descriptors \ {n}
    /\ m_refs' = [m_refs EXCEPT ![n] = <<>>]
    /\ heap' = IF n \in m_metadata /\ Len(m_refs[n]) = 1 THEN Reset(heap, m_refs[n][1]) ELSE heap
    /\ UNCHANGED <<m_metadata, calls, held, status, owned, undefined, disciplined>>

Next ==
    \/ \E n \in Names :
          \/ LoadData(n)
          \/ \E a \in Modes : Share(n, a)
          \/ \E R \in Modes : AccessShared(n, R) \/ AccessMissing(n, R)
          \/ RemoveBegins("release", n) \/ RemoveBegins("reclaim", n) \/ RemoveRefused(n)
          \/ \E R \in PluginRights : Hold(n, R)
          \/ Destroy(n)
    \/ ShareDone \/ ShareThrows
    \/ RemoveThrows \/ RemoveMissing
    \/ \E pc \in {"notify", "missing"} :
          ReleaseDone(pc) \/ ReclaimDone(pc) \/ ReclaimCopyThrows(pc)
    \/ MissingThrows \/ MissingShared
    \/ \E s \in Refs : Drop(s)

Spec == Init /\ [][Next]_vars

-----------------------------------------------------------------------------
(* Properties *)

\* "metadata descriptors should always keep a placeholder", asserted at the
\* start and the end of every operation of Data_descriptor_impl.
AlwaysPlaceholder ==
    \A n \in m_metadata \cap descriptors : m_refs[n] # <<>>

\* The same when callbacks remove only what they share, whatever else they do
\* and whoever throws (share, release and reclaim with their callbacks).
PlaceholderKept == disciplined => AlwaysPlaceholder

\* PDI deallocates only what it owns: memory that the user shared is freed
\* only once a release() of it succeeded, never by a failed share(), by a
\* reclaim(), nor at the end of the program.
FreedOnlyIfOwned ==
    disciplined => \A b \in Buffers : heap.memory[b] = "freed" => b \in owned

\* "on error, do not free the data": when PDI_share fails, at once or after
\* callbacks that did anything with the data, its memory is with the user.
FailedShareKeepsMemory ==
    [][/\ Len(calls') < Len(calls) /\ status' = "error" /\ Current.op = "share"
             => heap'.memory[Current.buffer] = "user"
       /\ \A b \in FreshBuffers(heap) :
             heap'.memory[b] # "none" /\ calls' = calls => heap'.memory[b] = "user"]_vars

\* No lock is forgotten: as long as no descriptor is destroyed, a reference
\* that is linked is in the store, a local of a call, or kept by a plugin.
NoStrayReference ==
    descriptors = Names =>
        \A r \in Refs : heap.m_content[r] # Null => r \in Holders \cup Locals \cup held

\* The references of the store satisfy what the class Ref_any promises.
StoreIsConsistent == HeapInv(heap)

\* What the store promises, with the buffer that each holder leads to as its
\* value.
Store ==
    INSTANCE DataStore WITH
        Values <- Buffers,
        stack <- [n \in Names |-> [i \in DOMAIN m_refs[n] |->
                    IF IsNull(heap, m_refs[n][i]) THEN Null ELSE BufferOf(heap, m_refs[n][i])]],
        metadata <- m_metadata,
        alive <- descriptors,
        strict <- disciplined

\* share, access, release and reclaim, whatever their callbacks do in between,
\* act on the store as on stacks of values: one value is pushed, popped or
\* given back at a time, and only callbacks that remove what they did not share
\* can take a value away.
ImplementsDataStore == Store!Spec

=============================================================================

------------------------------- MODULE RefAny -------------------------------
(***************************************************************************)
(* The life of PDI references: a program (the simulation code, PDI and its *)
(* plugins, all in one thread) constructs, copies, moves, resets and       *)
(* releases Ref_any objects in any order.                                  *)
(*                                                                         *)
(* release() is not atomic: it first calls every nullification callback of *)
(* the buffer, and a callback may do anything with references, register    *)
(* other callbacks or call release() again.  The stack of the calls of     *)
(* release() in progress is a variable; the program runs when the stack is *)
(* empty or while the innermost call is inside a callback.                 *)
(***************************************************************************)
EXTENDS RefHeap, Sequences

CONSTANT MaxDepth  \* bound on the nesting of release() in callbacks

ASSUME DepthAssumption == MaxDepth \in Nat

VARIABLES
    heap,       \* the references, contents and buffers
    releasing   \* the calls of release() in progress, the innermost last

vars == <<heap, releasing>>

\* A call of release(): the object it runs on, and the key of the
\* notification being called, Null between two callbacks.
Frames == [ref : Refs, key : Refs \cup {Null}]

Top == releasing[Len(releasing)]

TypeOK ==
    /\ heap \in Heap
    /\ releasing \in Seq(Frames)

Init ==
    /\ heap = EmptyHeap
    /\ releasing = <<>>

\* The program (or a callback) has the control, not the body of release().
InProgram == releasing # <<>> => Top.key # Null

\* r is not the object of a call of release() in progress: that object is a
\* local of the caller, which callbacks cannot reset, move or destroy.
Mine(r) == \A i \in DOMAIN releasing : releasing[i].ref # r

\* r is free to be constructed.
Unused(r) == Mine(r) /\ heap.m_content[r] = Null

-----------------------------------------------------------------------------
(* Operations of the program *)

\* Reference new data; g says which accesses the data may be given.
Construct(r, R, c, b, g) ==
    /\ InProgram /\ Unused(r)
    /\ c \in FreshContents(heap) /\ b \in FreshBuffers(heap)
    /\ heap' = Create(heap, r, R, c, b, g)
    /\ UNCHANGED releasing

\* Copy a reference, to one of the same type or with other privileges.
CopyConstruct(r, R, from) ==
    /\ InProgram /\ Unused(r) /\ r # from
    /\ heap' = Link(heap, r, R, GetContent(heap, from))
    /\ UNCHANGED releasing

\* Ref_any(Ref_any&&): both objects have the same type, and the content is
\* stolen even when it was released.
MoveConstruct(r, from) ==
    /\ InProgram /\ Unused(r) /\ Mine(from) /\ r # from
    /\ heap.m_content[from] # Null
    /\ heap' = Steal(heap, r, from)
    /\ UNCHANGED releasing

\* operator=(Ref_any&&), between objects of the same type (a null reference
\* can be of any type).
MoveAssign(r, from) ==
    /\ InProgram /\ Mine(r) /\ Mine(from) /\ r # from
    /\ heap.m_content[r] # Null /\ heap.m_content[from] # Null
        => heap.rights[from] = heap.rights[r]
    /\ heap' = MoveInto(heap, r, from)
    /\ UNCHANGED releasing

\* reset() or the end of the life of r.
Destroy(r) ==
    /\ InProgram /\ Mine(r)
    /\ heap.m_content[r] # Null
    /\ heap' = Reset(heap, r)
    /\ UNCHANGED releasing

\* Any use of r that starts with is_null() when r was nullified: get(), the
\* comparisons, operator bool, operator[], on_nullify(), release().
Test(r) ==
    /\ InProgram /\ Mine(r)
    /\ heap.m_content[r] # Null /\ IsNull(heap, r)
    /\ heap' = CheckNull(heap, r)
    /\ UNCHANGED releasing

\* operator[] with a member name, an index or a slice.
SubRef(r, from, c) ==
    /\ InProgram /\ Unused(r) /\ r # from
    /\ ~IsNull(heap, from)
    /\ c \in FreshContents(heap)
    /\ heap' = SubReference(heap, r, from, c)
    /\ UNCHANGED releasing

\* dereference(): like operator[], but the pointer itself must be readable,
\* by this reference or by a temporary Ref_r.
Dereference(r, from, c) ==
    /\ InProgram /\ Unused(r) /\ r # from
    /\ ~IsNull(heap, from)
    /\ "R" \in heap.rights[from] \/ Grantable(heap, BufferOf(heap, from), {"R"})
    /\ c \in FreshContents(heap)
    /\ heap' = SubReference(heap, r, from, c)
    /\ UNCHANGED releasing

\* copy().
Copy(r, from, c, b) ==
    /\ InProgram /\ Unused(r) /\ r # from
    /\ c \in FreshContents(heap) /\ b \in FreshBuffers(heap)
    /\ heap' = CopyOf(heap, r, from, c, b)
    /\ UNCHANGED releasing

\* on_nullify(): at most one callback per object.
OnNullify(r) ==
    /\ InProgram
    /\ ~IsNull(heap, r)
    /\ heap' = [heap EXCEPT !.m_notifications[BufferOf(heap, r)] = @ \cup {r}]
    /\ UNCHANGED releasing

-----------------------------------------------------------------------------
(* release() *)

ReleaseBegin(r) ==
    /\ InProgram /\ Mine(r) /\ Len(releasing) < MaxDepth
    /\ ~IsNull(heap, r)
    /\ releasing' = Append(releasing, [ref |-> r, key |-> Null])
    /\ UNCHANGED heap

\* Call the notification that comes first in the unordered map.
ReleaseNotify ==
    /\ ~InProgram
    /\ \E k \in heap.m_notifications[BufferOf(heap, Top.ref)] :
          releasing' = [releasing EXCEPT ![Len(releasing)].key = k]
    /\ UNCHANGED heap

\* Faulty variant: the entry of the callback is not erased.
ReleaseNotifiedKept ==
    /\ releasing # <<>> /\ Top.key # Null
    /\ releasing' = [releasing EXCEPT ![Len(releasing)].key = Null]
    /\ UNCHANGED heap

\* The callback returns: its entry is erased, if it is still there.
ReleaseNotified ==
    /\ releasing # <<>> /\ Top.key # Null
    /\ heap' = [heap EXCEPT !.m_notifications[BufferOf(heap, Top.ref)] = @ \ {Top.key}]
    /\ releasing' = [releasing EXCEPT ![Len(releasing)].key = Null]

\* Nobody is left to notify: give the memory up.
ReleaseEnd ==
    /\ ~InProgram
    /\ heap.m_notifications[BufferOf(heap, Top.ref)] = {}
    /\ heap' = Nullify(heap, Top.ref)
    /\ releasing' = SubSeq(releasing, 1, Len(releasing) - 1)

ReleaseStep == ReleaseNotify \/ ReleaseNotified \/ ReleaseEnd

Next ==
    \/ \E r \in Refs, R \in Access, c \in Contents, b \in Buffers, g \in Access :
          Construct(r, R, c, b, g)
    \/ \E r, from \in Refs, R \in Access : CopyConstruct(r, R, from)
    \/ \E r, from \in Refs : MoveConstruct(r, from)
    \/ \E r, from \in Refs : MoveAssign(r, from)
    \/ \E r \in Refs : Destroy(r)
    \/ \E r \in Refs : Test(r)
    \/ \E r, from \in Refs, c \in Contents : SubRef(r, from, c)
    \/ \E r, from \in Refs, c \in Contents : Dereference(r, from, c)
    \/ \E r, from \in Refs, c \in Contents, b \in Buffers : Copy(r, from, c, b)
    \/ \E r \in Refs : OnNullify(r)
    \/ \E r \in Refs : ReleaseBegin(r)
    \/ ReleaseStep

Spec == Init /\ [][Next]_vars

\* release() is a loop in one thread: it goes on, and a callback returns.
FairSpec == Spec /\ WF_vars(ReleaseStep)

-----------------------------------------------------------------------------
(* Properties *)

\* The calls of release() in progress run on distinct objects, and each of
\* these keeps its link until its own call ends.
ReleasingLinked ==
    \A i \in DOMAIN releasing :
        /\ heap.m_content[releasing[i].ref] # Null
        /\ \A j \in DOMAIN releasing :
              i # j => releasing[i].ref # releasing[j].ref

\* The inductive invariant.
RefAnyInv == TypeOK /\ HeapInv(heap) /\ ReleasingLinked

\* The counters of every buffer are its own restriction plus exactly the
\* references that hold a lock, whatever was copied, moved, sub-referenced,
\* released in a callback or lazily unlinked: link() and unlink() balance.
LockCounts == Balanced(heap)

\* "a read/write locking mechanism similar to std::shared_mutex": a
\* reference that can write excludes, over the whole buffer and so for all
\* sub-references too, every other reference that can read or write.
ReadersXorWriter == Exclusive(heap)

\* A reference never has an access that the buffer was not shared with.
GrantedAccess == Granted(heap)

\* A reference that is not null never leads to freed memory: the deallocator
\* ran for no buffer that a reference still sees.
NoUseAfterFree == Alive(heap)

\* A registered callback belongs to a reference that is still linked to the
\* buffer and not yet null: nobody is nullified without having been notified
\* and no callback outlives the object that registered it.
RegisteredAreLive == Registered(heap)

\* What ~Referenced_buffer asserts (ref_any.h:122-124) of a buffer that lost
\* its last reference.
DestructorAssertions ==
    \A b \in Buffers : heap.memory[b] # "none" /\ OnBuffer(heap, b) = {} =>
        /\ heap.m_read_locks[b] \in {0, 1}
        /\ heap.m_write_locks[b] \in {0, 1}
        /\ heap.m_notifications[b] = {}

\* Memory given back to the user is never deallocated by a reference that
\* dies later, and freed memory is not freed or given back again.
OwnershipIsFinal ==
    [][\A b \in Buffers :
          heap.memory[b] \in {"user", "freed"} => heap'.memory[b] = heap.memory[b]]_vars

\* release() ends: the loop over the callbacks is left, provided that the
\* callbacks do not go on registering new ones forever.
ReleaseEnds ==
    <>[][~\E r \in Refs : OnNullify(r)]_vars => []<>(releasing = <<>>)

=============================================================================

---------------------------- MODULE RefAnyProofs ----------------------------
(***************************************************************************)
(* Proofs about RefAny, for every set of references, contents and buffers. *)
(* Every action of RefAny is a composition of helpers of RefHeap, which    *)
(* preserve HeapInv by the lemmas of RefHeapProofs; the invariant of the   *)
(* specification follows action by action.                                 *)
(***************************************************************************)
EXTENDS RefAny, RefHeapProofs

-----------------------------------------------------------------------------
(* The stack of the calls of release() *)

\* The end of a release() pops its frame off the stack.
LEMMA Popped ==
    ASSUME NEW S, NEW s \in Seq(S), s # <<>>
    PROVE  /\ SubSeq(s, 1, Len(s) - 1) \in Seq(S)
           /\ DOMAIN SubSeq(s, 1, Len(s) - 1) = 1..(Len(s) - 1)
           /\ \A i \in 1..(Len(s) - 1) : SubSeq(s, 1, Len(s) - 1)[i] = s[i]
OBVIOUS

\* A frame of the stack of release() calls that is not the top one.
LEMMA BelowTop ==
    ASSUME NEW n \in Nat, n >= 1, NEW i \in 1..(n - 1)
    PROVE  i \in 1..n /\ n \in 1..n /\ i # n
OBVIOUS

-----------------------------------------------------------------------------
(* The invariant *)

\* A step of the program that touches no object of a release() in progress.
LEMMA ProgramStep ==
    ASSUME RefAnyInv, UNCHANGED releasing, NEW S, \A r \in S : Mine(r),
           Preserves(heap, heap', S)
    PROVE  RefAnyInv' /\ \A b \in Buffers :
              heap.memory[b] \in {"user", "freed"} => heap'.memory[b] = heap.memory[b]
<1>1. HeapInv(heap') /\ heap' \in Heap
    BY DEF Preserves, HeapInv
<1>2. ReleasingLinked'
    <2> SUFFICES ASSUME NEW i \in DOMAIN releasing
                 PROVE  /\ heap'.m_content[releasing[i].ref] # Null
                        /\ \A j \in DOMAIN releasing :
                              i # j => releasing[i].ref # releasing[j].ref
        BY DEF ReleasingLinked
    <2>1. releasing[i].ref \notin S
        BY DEF Mine
    <2>2. releasing[i].ref \in Refs
        <3>1. releasing \in Seq(Frames)
            BY DEF RefAnyInv, TypeOK
        <3>2. releasing[i] \in Frames
            BY <3>1
        <3>3. QED
            BY <3>2 DEF Frames
    <2>3. heap'.m_content[releasing[i].ref] = heap.m_content[releasing[i].ref]
        BY <2>1, <2>2 DEF Preserves
    <2>4. QED
        BY <2>3 DEF RefAnyInv, ReleasingLinked
<1>3. QED
    BY <1>1, <1>2 DEF RefAnyInv, TypeOK, Preserves

\* Every step preserves the invariant, and memory given back or freed stays so.
LEMMA NextInv ==
    ASSUME RefAnyInv, [Next]_vars
    PROVE  RefAnyInv' /\ \A b \in Buffers :
              heap.memory[b] \in {"user", "freed"} => heap'.memory[b] = heap.memory[b]
<1> USE DEF RefAnyInv
<1>0. /\ HeapInv(heap) /\ heap \in Heap /\ releasing \in Seq(Frames)
      /\ heap.m_content \in [Refs -> Contents \cup {Null}]
    BY HeapFields DEF TypeOK
<1> HIDE DEF RefAnyInv
<1>1. ASSUME NEW r \in Refs, NEW R \in Access, NEW c \in Contents, NEW b \in Buffers,
             NEW g \in Access, Construct(r, R, c, b, g)
      PROVE  RefAnyInv' /\ \A d \in Buffers :
                heap.memory[d] \in {"user", "freed"} => heap'.memory[d] = heap.memory[d]
    <2>1. Preserves(heap, heap', {r})
        BY <1>0, <1>1, CreateInv DEF Construct, Unused
    <2>2. QED
        BY <1>1, <2>1, ProgramStep DEF Construct, Unused
<1>2. ASSUME NEW r \in Refs, NEW from \in Refs, NEW R \in Access, CopyConstruct(r, R, from)
      PROVE  RefAnyInv' /\ \A d \in Buffers :
                heap.memory[d] \in {"user", "freed"} => heap'.memory[d] = heap.memory[d]
    <2>1. /\ GetContent(heap, from) \in Contents \cup {Null}
          /\ GetContent(heap, from) # Null =>
                /\ heap.m_buffer[GetContent(heap, from)] \in Buffers
                /\ heap.memory[heap.m_buffer[GetContent(heap, from)]] \in {"managed", "user"}
        BY <1>0 DEF GetContent, HeapInv, Alive, BufferOf
    <2>2. Preserves(heap, heap', {r})
        BY <1>0, <1>2, <2>1, LinkInv DEF CopyConstruct, Unused
    <2>3. QED
        BY <1>2, <2>2, ProgramStep DEF CopyConstruct, Unused
<1>3. ASSUME NEW r \in Refs, NEW from \in Refs, MoveConstruct(r, from)
      PROVE  RefAnyInv' /\ \A d \in Buffers :
                heap.memory[d] \in {"user", "freed"} => heap'.memory[d] = heap.memory[d]
    <2>1. Preserves(heap, heap', {r, from})
        BY <1>0, <1>3, StealInv DEF MoveConstruct, Unused
    <2>2. QED
        BY <1>3, <2>1, ProgramStep DEF MoveConstruct, Unused
<1>4. ASSUME NEW r \in Refs, NEW from \in Refs, MoveAssign(r, from)
      PROVE  RefAnyInv' /\ \A d \in Buffers :
                heap.memory[d] \in {"user", "freed"} => heap'.memory[d] = heap.memory[d]
    <2>1. Preserves(heap, heap', {r, from})
        BY <1>0, <1>4, MoveIntoInv DEF MoveAssign
    <2>2. QED
        BY <1>4, <2>1, ProgramStep DEF MoveAssign
<1>5. ASSUME NEW r \in Refs, Destroy(r)
      PROVE  RefAnyInv' /\ \A d \in Buffers :
                heap.memory[d] \in {"user", "freed"} => heap'.memory[d] = heap.memory[d]
    <2>1. Preserves(heap, heap', {r})
        BY <1>0, <1>5, ResetInv DEF Destroy
    <2>2. QED
        BY <1>5, <2>1, ProgramStep DEF Destroy
<1>6. ASSUME NEW r \in Refs, Test(r)
      PROVE  RefAnyInv' /\ \A d \in Buffers :
                heap.memory[d] \in {"user", "freed"} => heap'.memory[d] = heap.memory[d]
    <2>1. Preserves(heap, heap', {r})
        BY <1>0, <1>6, CheckNullInv DEF Test
    <2>2. QED
        BY <1>6, <2>1, ProgramStep DEF Test
<1>7. ASSUME NEW r \in Refs, NEW from \in Refs, NEW c \in Contents,
             SubRef(r, from, c) \/ Dereference(r, from, c)
      PROVE  RefAnyInv' /\ \A d \in Buffers :
                heap.memory[d] \in {"user", "freed"} => heap'.memory[d] = heap.memory[d]
    <2>1. /\ Unused(r) /\ c \in FreshContents(heap) /\ heap.m_content[from] # Null
          /\ heap' = SubReference(heap, r, from, c) /\ UNCHANGED releasing
        BY <1>7 DEF SubRef, Dereference, IsNull
    <2>2. Preserves(heap, heap', {r})
        BY <1>0, <2>1, SubReferenceInv DEF Unused
    <2>3. QED
        BY <2>1, <2>2, ProgramStep DEF Unused
<1>8. ASSUME NEW r \in Refs, NEW from \in Refs, NEW c \in Contents, NEW b \in Buffers,
             Copy(r, from, c, b)
      PROVE  RefAnyInv' /\ \A d \in Buffers :
                heap.memory[d] \in {"user", "freed"} => heap'.memory[d] = heap.memory[d]
    <2>1. Preserves(heap, heap', {r})
        BY <1>0, <1>8, CopyOfInv DEF Copy, Unused
    <2>2. QED
        BY <1>8, <2>1, ProgramStep DEF Copy, Unused
<1>9. ASSUME NEW r \in Refs, OnNullify(r)
      PROVE  RefAnyInv' /\ \A d \in Buffers :
                heap.memory[d] \in {"user", "freed"} => heap'.memory[d] = heap.memory[d]
    <2> DEFINE b == BufferOf(heap, r)
               N == heap.m_notifications[b] \cup {r}
    <2>1. ~IsNull(heap, r) /\ heap' = [heap EXCEPT !.m_notifications[b] = N]
        BY <1>9 DEF OnNullify
    <2>2. b \in Buffers
        BY <1>0, <2>1, LinkedBuffer DEF IsNull, HeapInv
    <2>3. N \in SUBSET Refs
        BY <1>0, <2>2, HeapFields
    <2>4. \A s \in N : ~IsNull(heap, s) /\ BufferOf(heap, s) = b
        BY <1>0, <2>1, <2>2 DEF HeapInv, Registered
    <2> HIDE DEF b, N
    <2>5. Preserves(heap, heap', {})
        BY <1>0, <2>1, <2>2, <2>3, <2>4, NotificationsInv
    <2>6. QED
        BY <1>9, <2>5, ProgramStep DEF OnNullify
<1>10. ASSUME NEW r \in Refs, ReleaseBegin(r)
       PROVE  RefAnyInv' /\ \A d \in Buffers :
                heap.memory[d] \in {"user", "freed"} => heap'.memory[d] = heap.memory[d]
    <2> DEFINE f == [ref |-> r, key |-> Null]
    <2>1. /\ heap' = heap /\ releasing' = Append(releasing, f)
          /\ Mine(r) /\ heap.m_content[r] # Null
        BY <1>10 DEF ReleaseBegin, IsNull
    <2>2. f \in Frames /\ f.ref = r
        BY DEF Frames
    <2> HIDE DEF f
    <2>3. releasing' \in Seq(Frames)
        BY <1>0, <2>1, <2>2
    <2>4. /\ DOMAIN releasing' = 1..(Len(releasing) + 1) /\ DOMAIN releasing = 1..Len(releasing)
          /\ Len(releasing) \in Nat
          /\ releasing'[Len(releasing) + 1].ref = r
          /\ \A i \in 1..Len(releasing) : releasing'[i] = releasing[i]
        BY <1>0, <2>1, <2>2
    <2>5. ReleasingLinked'
        <3> SUFFICES ASSUME NEW i \in DOMAIN releasing'
                     PROVE  /\ heap.m_content[releasing'[i].ref] # Null
                            /\ \A j \in DOMAIN releasing' :
                                  i # j => releasing'[i].ref # releasing'[j].ref
            BY <2>1 DEF ReleasingLinked
        <3>1. \A j \in 1..Len(releasing) :
                 /\ heap.m_content[releasing[j].ref] # Null /\ releasing[j].ref # r
                 /\ \A k \in 1..Len(releasing) : j # k => releasing[j].ref # releasing[k].ref
            BY <2>1, <2>4 DEF RefAnyInv, ReleasingLinked, Mine
        <3>2. \A j \in DOMAIN releasing' : j \in 1..Len(releasing) \/ j = Len(releasing) + 1
            BY <2>4
        <3>3. QED
            BY <2>1, <2>4, <3>1, <3>2
    <2>6. QED
        BY <1>0, <2>1, <2>3, <2>5 DEF RefAnyInv, TypeOK
<1>11. ASSUME releasing # <<>>
       PROVE  /\ Len(releasing) \in DOMAIN releasing /\ Len(releasing) \in Nat
              /\ DOMAIN releasing = 1..Len(releasing)
              /\ Top \in Frames /\ Top.ref \in Refs /\ heap.m_content[Top.ref] # Null
              /\ BufferOf(heap, Top.ref) \in Buffers
    <2>1. /\ Len(releasing) \in Nat /\ DOMAIN releasing = 1..Len(releasing)
          /\ Len(releasing) \in DOMAIN releasing
          /\ Top \in Frames
        BY <1>0, <1>11 DEF Top
    <2>2. Top.ref \in Refs
        BY <2>1 DEF Frames
    <2>3. heap.m_content[Top.ref] # Null
        BY <2>1 DEF RefAnyInv, ReleasingLinked, Top
    <2>4. BufferOf(heap, Top.ref) \in Buffers
        BY <1>0, <2>2, <2>3, LinkedBuffer DEF HeapInv
    <2>5. QED
        BY <2>1, <2>2, <2>3, <2>4
<1>12. ASSUME NEW k \in Refs \cup {Null}, releasing # <<>>, HeapInv(heap'),
              heap'.m_content = heap.m_content, heap'.memory = heap.memory,
              releasing' = [releasing EXCEPT ![Len(releasing)].key = k]
       PROVE  RefAnyInv' /\ \A d \in Buffers :
                heap.memory[d] \in {"user", "freed"} => heap'.memory[d] = heap.memory[d]
    <2> DEFINE n == Len(releasing)
               f == [ref |-> Top.ref, key |-> k]
    <2>1. n \in DOMAIN releasing /\ Top \in Frames /\ Top.ref \in Refs /\ n \in Nat
        BY <1>11, <1>12
    <2>2. f \in Frames /\ f.ref = Top.ref
        BY <1>12, <2>1 DEF Frames
    <2>3. [Top EXCEPT !.key = k] = f
        BY <2>1 DEF Frames
    <2>4. releasing' = [releasing EXCEPT ![n] = f]
        BY <1>12, <2>3 DEF Top
    <2> HIDE DEF f
    <2>5. releasing' \in Seq(Frames) /\ DOMAIN releasing' = DOMAIN releasing
        BY <1>0, <2>1, <2>2, <2>4
    <2>6. \A i \in DOMAIN releasing : releasing'[i].ref = releasing[i].ref
        BY <1>0, <2>1, <2>2, <2>4 DEF Top
    <2>7. ReleasingLinked'
        BY <1>12, <2>5, <2>6 DEF RefAnyInv, ReleasingLinked
    <2>8. heap' \in Heap
        BY <1>12 DEF HeapInv
    <2>9. QED
        BY <1>12, <2>5, <2>7, <2>8 DEF RefAnyInv, TypeOK
<1>13. CASE ReleaseNotify
    <2>1. releasing # <<>> /\ heap' = heap
        BY <1>13 DEF ReleaseNotify, InProgram
    <2>2. PICK k \in heap.m_notifications[BufferOf(heap, Top.ref)] :
             releasing' = [releasing EXCEPT ![Len(releasing)].key = k]
        BY <1>13 DEF ReleaseNotify
    <2>3. k \in Refs
        BY <1>0, <1>11, <2>1, <2>2, HeapFields
    <2>4. QED
        BY <1>0, <1>12, <2>1, <2>2, <2>3
<1>14. CASE ReleaseNotified
    <2> DEFINE b == BufferOf(heap, Top.ref)
               N == heap.m_notifications[b] \ {Top.key}
    <2>1. /\ releasing # <<>>
          /\ heap' = [heap EXCEPT !.m_notifications[b] = N]
          /\ releasing' = [releasing EXCEPT ![Len(releasing)].key = Null]
        BY <1>14 DEF ReleaseNotified
    <2>2. b \in Buffers /\ N \in SUBSET Refs
        BY <1>0, <1>11, <2>1, HeapFields
    <2>3. \A s \in N : ~IsNull(heap, s) /\ BufferOf(heap, s) = b
        BY <1>0, <2>2 DEF HeapInv, Registered
    <2> HIDE DEF b, N
    <2>4. HeapInv(heap')
        BY <1>0, <2>1, <2>2, <2>3, NotificationsInv DEF Preserves
    <2>5. heap'.m_content = heap.m_content /\ heap'.memory = heap.memory
        BY <1>0, <2>1 DEF Heap
    <2>6. QED
        BY <1>12, <2>1, <2>4, <2>5
<1>15. CASE ReleaseEnd
    <2> DEFINE n == Len(releasing)
    <2>1. releasing # <<>>
        BY <1>15 DEF ReleaseEnd, InProgram
    <2>2. /\ heap.m_notifications[BufferOf(heap, Top.ref)] = {}
          /\ heap' = Nullify(heap, Top.ref)
          /\ releasing' = SubSeq(releasing, 1, n - 1)
        BY <1>15 DEF ReleaseEnd
    <2>3. n \in Nat /\ n >= 1 /\ DOMAIN releasing = 1..n
        BY <1>0, <1>11, <2>1
    <2>4. Preserves(heap, heap', {Top.ref})
        BY <1>0, <1>11, <2>1, <2>2, NullifyInv
    <2>5. /\ releasing' \in Seq(Frames)
          /\ DOMAIN releasing' = 1..(n - 1)
          /\ \A i \in 1..(n - 1) : releasing'[i] = releasing[i]
        <3>1. releasing \in Seq(Frames)
            BY <1>0
        <3>2. QED
            BY <2>1, <2>2, <3>1, Popped, Zenon
    <2> HIDE DEF n
    <2>6. \A i \in 1..(n - 1) :
             /\ releasing[i].ref \in Refs
             /\ releasing[i].ref # Top.ref
             /\ heap.m_content[releasing[i].ref] # Null
             /\ \A j \in 1..(n - 1) : i # j => releasing[i].ref # releasing[j].ref
        <3> TAKE i \in 1..(n - 1)
        <3>1. i \in 1..n /\ n \in 1..n /\ i # n
            BY <2>3, BelowTop, Zenon
        <3>2. i \in DOMAIN releasing
            BY <2>3, <3>1, Zenon
        <3> USE DEF n
        <3>3. releasing[i].ref \in Refs
            <4>1. releasing[i] \in Frames
                BY <1>0, <3>2
            <4>2. QED
                BY <4>1 DEF Frames
        <3>4. \A j \in 1..(n - 1) : j \in 1..n
            BY <2>3
        <3>5. QED
            BY <2>3, <3>1, <3>3, <3>4 DEF RefAnyInv, ReleasingLinked, Top
    <2>7. ReleasingLinked'
        BY <2>4, <2>5, <2>6 DEF ReleasingLinked, Preserves
    <2>8. QED
        BY <2>4, <2>5, <2>7 DEF RefAnyInv, TypeOK, Preserves, HeapInv
<1>16. CASE UNCHANGED vars
    BY <1>16 DEF vars, RefAnyInv, TypeOK, ReleasingLinked
<1>17. QED
    BY <1>1, <1>2, <1>3, <1>4, <1>5, <1>6, <1>7, <1>8, <1>9, <1>10, <1>13, <1>14, <1>15, <1>16
    DEF Next, ReleaseStep

-----------------------------------------------------------------------------
(* The theorems *)

\* The inductive invariant holds in every state that a program can reach.
THEOREM Invariance == Spec => []RefAnyInv
<1>1. Init => RefAnyInv
    BY EmptyHeapInv DEF Init, RefAnyInv, TypeOK, ReleasingLinked, HeapInv
<1>2. RefAnyInv /\ [Next]_vars => RefAnyInv'
    BY NextInv
<1>3. QED
    BY <1>1, <1>2, PTL DEF Spec

\* The types, among them that no lock counter of a Referenced_buffer goes
\* below zero.
THEOREM TypeCorrect == Spec => []TypeOK
<1>1. RefAnyInv => TypeOK
    BY DEF RefAnyInv
<1>2. QED
    BY <1>1, Invariance, PTL

\* link() and unlink() balance: the lock counters are exact, for any number of
\* references, contents and buffers.
THEOREM LocksAreExact == Spec => []LockCounts
<1>1. RefAnyInv => LockCounts
    BY DEF RefAnyInv, HeapInv, LockCounts
<1>2. QED
    BY <1>1, Invariance, PTL

\* Readers or one writer, never both, over a whole buffer.
THEOREM MutualExclusion == Spec => []ReadersXorWriter
<1>1. RefAnyInv => ReadersXorWriter
    BY DEF RefAnyInv, HeapInv, ReadersXorWriter
<1>2. QED
    BY <1>1, Invariance, PTL

\* No reference has an access that the data was not shared with.
THEOREM AccessIsGranted == Spec => []GrantedAccess
<1>1. RefAnyInv => GrantedAccess
    BY DEF RefAnyInv, HeapInv, GrantedAccess
<1>2. QED
    BY <1>1, Invariance, PTL

\* No reference leads to deallocated memory.
THEOREM MemorySafety == Spec => []NoUseAfterFree
<1>1. RefAnyInv => NoUseAfterFree
    BY DEF RefAnyInv, HeapInv, NoUseAfterFree
<1>2. QED
    BY <1>1, Invariance, PTL

\* Callbacks are registered for references that are linked and not null.
THEOREM CallbacksAreLive == Spec => []RegisteredAreLive
<1>1. RefAnyInv => RegisteredAreLive
    BY DEF RefAnyInv, HeapInv, RegisteredAreLive
<1>2. QED
    BY <1>1, Invariance, PTL

\* The assertions of ~Referenced_buffer hold when its last reference dies.
THEOREM AssertionsHold == Spec => []DestructorAssertions
<1>1. RefAnyInv => DestructorAssertions
    <2> SUFFICES ASSUME RefAnyInv, NEW b \in Buffers, heap.memory[b] # "none",
                        OnBuffer(heap, b) = {}
                 PROVE  /\ heap.m_read_locks[b] \in {0, 1}
                        /\ heap.m_write_locks[b] \in {0, 1}
                        /\ heap.m_notifications[b] = {}
        BY DEF DestructorAssertions
    <2>1. heap \in Heap /\ Balanced(heap) /\ Registered(heap)
        BY DEF RefAnyInv, HeapInv
    <2>2. WriteLockers(heap, b) = {} /\ ReadLockers(heap, b) = {}
        BY DEF WriteLockers, ReadLockers
    <2>3. Cardinality(WriteLockers(heap, b)) = 0 /\ Cardinality(ReadLockers(heap, b)) = 0
        BY <2>2, FS_EmptySet
    <2>4. heap.m_read_locks[b] \in {0, 1} /\ heap.m_write_locks[b] \in {0, 1}
        BY <2>1, <2>3 DEF Balanced
    <2>5. heap.m_notifications[b] = {}
        BY <2>1, HeapFields DEF Registered, OnBuffer, IsNull
    <2>6. QED
        BY <2>4, <2>5
<1>2. QED
    BY <1>1, Invariance, PTL

\* Memory that was given back to the user is never deallocated, and memory is
\* deallocated once.
THEOREM OwnershipFinality == Spec => OwnershipIsFinal
<1>1. RefAnyInv /\ [Next]_vars =>
        [\A b \in Buffers :
            heap.memory[b] \in {"user", "freed"} => heap'.memory[b] = heap.memory[b]]_vars
    BY NextInv
<1>2. QED
    BY <1>1, Invariance, PTL DEF Spec, OwnershipIsFinal

=============================================================================

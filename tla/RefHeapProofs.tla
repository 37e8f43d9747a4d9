--------------------------- MODULE RefHeapProofs ---------------------------
(***************************************************************************)
(* Lemmas about the helpers of RefHeap, for every set of references,       *)
(* contents and buffers: each of them preserves HeapInv.  The proofs of    *)
(* RefAny and DataDescriptor, whose actions are compositions of helpers,   *)
(* rest on them.                                                           *)
(***************************************************************************)
EXTENDS RefHeap, FiniteSetTheorems, TLAPS


-----------------------------------------------------------------------------
(* Locks as cardinalities *)

\* The lock sets are finite, so their cardinalities are numbers.
LEMMA LockersFinite ==
    ASSUME NEW h, NEW b
    PROVE  /\ IsFiniteSet(WriteLockers(h, b))
           /\ IsFiniteSet(ReadLockers(h, b))
           /\ Cardinality(WriteLockers(h, b)) \in Nat
           /\ Cardinality(ReadLockers(h, b)) \in Nat
<1>1. WriteLockers(h, b) \in SUBSET Refs /\ ReadLockers(h, b) \in SUBSET Refs
    BY DEF WriteLockers, ReadLockers, OnBuffer
<1>2. IsFiniteSet(WriteLockers(h, b)) /\ IsFiniteSet(ReadLockers(h, b))
    BY <1>1, FS_Subset, HeapAssumption
<1>3. QED
    BY <1>2, FS_CardinalityType

\* A reference is linked through a content of the buffer, so the buffer exists.
LEMMA LinkedBuffer ==
    ASSUME NEW h, h \in Heap, Alive(h), NEW r \in Refs, h.m_content[r] # Null
    PROVE  /\ h.m_content[r] \in Contents
           /\ BufferOf(h, r) \in Buffers
           /\ h.memory[BufferOf(h, r)] \in {"managed", "user"}
BY DEF Heap, Alive

-----------------------------------------------------------------------------
(* The fields of a heap *)

Fields(h) ==
    [ m_content       |-> h.m_content,
      rights          |-> h.rights,
      m_data          |-> h.m_data,
      m_buffer        |-> h.m_buffer,
      m_read_locks    |-> h.m_read_locks,
      m_write_locks   |-> h.m_write_locks,
      m_notifications |-> h.m_notifications,
      granted         |-> h.granted,
      memory          |-> h.memory ]

\* A heap is the record of its fields.
LEMMA HeapRecord ==
    ASSUME NEW h, h \in Heap
    PROVE  h = Fields(h)
BY DEF Heap, Fields

\* The types of the fields.
LEMMA HeapFields ==
    ASSUME NEW h, h \in Heap
    PROVE  /\ h.m_content \in [Refs -> Contents \cup {Null}]
           /\ h.rights \in [Refs -> Access]
           /\ h.m_data \in [Contents -> BOOLEAN]
           /\ h.m_buffer \in [Contents -> Buffers \cup {Null}]
           /\ h.m_read_locks \in [Buffers -> Nat]
           /\ h.m_write_locks \in [Buffers -> Nat]
           /\ h.m_notifications \in [Buffers -> SUBSET Refs]
           /\ h.granted \in [Buffers -> Access]
           /\ h.memory \in [Buffers -> Ownership]
BY DEF Heap

-----------------------------------------------------------------------------
\* What each helper does to a heap h, at most to the references S: the
\* invariant holds of the result g, the other references keep their link, and
\* memory that was given back or freed stays so.
Preserves(h, g, S) ==
    /\ HeapInv(g)
    /\ \A s \in Refs \ S : g.m_content[s] = h.m_content[s]
    /\ \A b \in Buffers : h.memory[b] \in {"user", "freed"} => g.memory[b] = h.memory[b]

\* Two helpers in a row.
LEMMA PreservesTwice ==
    ASSUME NEW h, NEW g, NEW k, NEW S, NEW T,
           Preserves(h, g, S), Preserves(g, k, T)
    PROVE  Preserves(h, k, S \cup T)
BY DEF Preserves

-----------------------------------------------------------------------------
(* link() *)

\* The fields of a heap after a link that is granted.
LEMMA LinkFields ==
    ASSUME NEW h, h \in Heap, NEW r \in Refs, NEW R \in Access,
           NEW c \in Contents, h.m_buffer[c] \in Buffers,
           h.m_data[c], Grantable(h, h.m_buffer[c], R)
    PROVE  /\ Link(h, r, R, c) \in Heap
           /\ Link(h, r, R, c) =
                [ m_content       |-> [h.m_content EXCEPT ![r] = c],
                  rights          |-> [h.rights EXCEPT ![r] = R],
                  m_data          |-> h.m_data,
                  m_buffer        |-> h.m_buffer,
                  m_read_locks    |-> [h.m_read_locks EXCEPT
                                          ![h.m_buffer[c]] = @ + ReadLock(R)],
                  m_write_locks   |-> [h.m_write_locks EXCEPT
                                          ![h.m_buffer[c]] = @ + WriteLock(R)],
                  m_notifications |-> h.m_notifications,
                  granted         |-> h.granted,
                  memory          |-> h.memory ]
<1>1. c # Null
    BY HeapAssumption
<1>2. WriteLock(R) \in Nat /\ ReadLock(R) \in Nat
    BY DEF WriteLock, ReadLock
<1>3. Link(h, r, R, c) =
        [h EXCEPT !.m_content[r] = c,
                  !.rights[r] = R,
                  !.m_write_locks[h.m_buffer[c]] = @ + WriteLock(R),
                  !.m_read_locks[h.m_buffer[c]] = @ + ReadLock(R)]
    BY <1>1 DEF Link
<1>4. h = Fields(h)
    BY HeapRecord
<1>5. Link(h, r, R, c) =
        [ m_content       |-> [h.m_content EXCEPT ![r] = c],
          rights          |-> [h.rights EXCEPT ![r] = R],
          m_data          |-> h.m_data,
          m_buffer        |-> h.m_buffer,
          m_read_locks    |-> [h.m_read_locks EXCEPT
                                  ![h.m_buffer[c]] = @ + ReadLock(R)],
          m_write_locks   |-> [h.m_write_locks EXCEPT
                                  ![h.m_buffer[c]] = @ + WriteLock(R)],
          m_notifications |-> h.m_notifications,
          granted         |-> h.granted,
          memory          |-> h.memory ]
    BY <1>3, <1>4 DEF Fields
<1>6. Link(h, r, R, c) \in Heap
    BY <1>2, <1>5 DEF Heap
<1>7. QED
    BY <1>5, <1>6

\* link() preserves the invariant: the counters it tests are exact, so they
\* grant an access only when no reference conflicts with it.
LEMMA LinkInv ==
    ASSUME NEW h, HeapInv(h), NEW r \in Refs, h.m_content[r] = Null,
           NEW R \in Access, NEW c \in Contents \cup {Null},
           c # Null => /\ h.m_buffer[c] \in Buffers
                       /\ h.memory[h.m_buffer[c]] \in {"managed", "user"}
    PROVE  Preserves(h, Link(h, r, R, c), {r})
<1> DEFINE g == Link(h, r, R, c)
           d == h.m_buffer[c]
<1>1. CASE c = Null \/ ~h.m_data[c] \/ ~Grantable(h, d, R)
    <2>1. g = h
        BY <1>1 DEF Link
    <2>2. QED
        BY <2>1 DEF Preserves
<1>2. CASE ~(c = Null \/ ~h.m_data[c] \/ ~Grantable(h, d, R))
    <2> USE <1>2
    <2>0. c \in Contents /\ d \in Buffers /\ h \in Heap
          /\ h.memory[d] \in {"managed", "user"}
        BY DEF HeapInv
    <2> HIDE DEF g
    <2>1. /\ g \in Heap
          /\ g.m_content = [h.m_content EXCEPT ![r] = c]
          /\ g.rights = [h.rights EXCEPT ![r] = R]
          /\ g.m_data = h.m_data
          /\ g.m_buffer = h.m_buffer
          /\ g.m_write_locks = [h.m_write_locks EXCEPT ![d] = @ + WriteLock(R)]
          /\ g.m_read_locks = [h.m_read_locks EXCEPT ![d] = @ + ReadLock(R)]
          /\ g.m_notifications = h.m_notifications
          /\ g.granted = h.granted
          /\ g.memory = h.memory
        BY <2>0, LinkFields DEF g
    <2>2. /\ h.m_content \in [Refs -> Contents \cup {Null}]
          /\ h.rights \in [Refs -> Access]
          /\ h.m_write_locks \in [Buffers -> Nat]
          /\ h.m_read_locks \in [Buffers -> Nat]
          /\ h.granted \in [Buffers -> Access]
          /\ h.m_notifications \in [Buffers -> SUBSET Refs]
        BY <2>0 DEF Heap
    <2>3. c # Null
        BY <2>0, HeapAssumption
    <2>4. Alive(g)
        BY <2>0, <2>1, <2>2 DEF Alive, BufferOf, HeapInv
    <2>5. \A b \in Buffers :
            /\ WriteLockers(g, b) = IF b = d /\ R # {}
                                    THEN WriteLockers(h, b) \cup {r}
                                    ELSE WriteLockers(h, b)
            /\ ReadLockers(g, b) = IF b = d /\ "W" \in R
                                   THEN ReadLockers(h, b) \cup {r}
                                   ELSE ReadLockers(h, b)
            /\ r \notin WriteLockers(h, b) /\ r \notin ReadLockers(h, b)
        BY <2>0, <2>1, <2>2, <2>3
        DEF WriteLockers, ReadLockers, OnBuffer, BufferOf, Access
    <2>6. \A b \in Buffers :
            /\ Cardinality(WriteLockers(g, b)) =
                  Cardinality(WriteLockers(h, b)) + (IF b = d THEN WriteLock(R) ELSE 0)
            /\ Cardinality(ReadLockers(g, b)) =
                  Cardinality(ReadLockers(h, b)) + (IF b = d THEN ReadLock(R) ELSE 0)
        <3> TAKE b \in Buffers
        <3>1. /\ Cardinality(WriteLockers(h, b) \cup {r}) = Cardinality(WriteLockers(h, b)) + 1
              /\ Cardinality(ReadLockers(h, b) \cup {r}) = Cardinality(ReadLockers(h, b)) + 1
            BY <2>5, LockersFinite, FS_AddElement
        <3>2. Cardinality(WriteLockers(h, b)) \in Nat /\ Cardinality(ReadLockers(h, b)) \in Nat
            BY LockersFinite
        <3>3. Cardinality(WriteLockers(g, b)) =
                  Cardinality(WriteLockers(h, b)) + (IF b = d THEN WriteLock(R) ELSE 0)
            <4>1. CASE b = d /\ R # {}
                BY <4>1, <3>1, <2>5 DEF WriteLock
            <4>2. CASE ~(b = d /\ R # {})
                BY <4>2, <3>2, <2>5 DEF WriteLock
            <4>3. QED
                BY <4>1, <4>2
        <3>4. Cardinality(ReadLockers(g, b)) =
                  Cardinality(ReadLockers(h, b)) + (IF b = d THEN ReadLock(R) ELSE 0)
            <4>1. CASE b = d /\ "W" \in R
                BY <4>1, <3>1, <2>5 DEF ReadLock
            <4>2. CASE ~(b = d /\ "W" \in R)
                BY <4>2, <3>2, <2>5 DEF ReadLock
            <4>3. QED
                BY <4>1, <4>2
        <3>5. QED
            BY <3>3, <3>4
    <2>7. Balanced(g)
        BY <2>0, <2>1, <2>2, <2>6, LockersFinite DEF Balanced, HeapInv, WriteLock, ReadLock
    <2>8. /\ "R" \in R => ReadLockers(h, d) = {} /\ "R" \in h.granted[d]
          /\ "W" \in R => WriteLockers(h, d) = {} /\ "W" \in h.granted[d]
        <3>1. /\ "R" \in R => h.m_read_locks[d] = 0
              /\ "W" \in R => h.m_write_locks[d] = 0
            BY DEF Grantable
        <3>2. /\ h.m_write_locks[d] = Cardinality(WriteLockers(h, d))
                                      + (IF "W" \in h.granted[d] THEN 0 ELSE 1)
              /\ h.m_read_locks[d] = Cardinality(ReadLockers(h, d))
                                     + (IF "R" \in h.granted[d] THEN 0 ELSE 1)
            BY <2>0 DEF HeapInv, Balanced
        <3>3. QED
            BY <3>1, <3>2, LockersFinite, FS_EmptySet
    <2>9. Granted(g)
        <3> SUFFICES ASSUME NEW s \in Refs, g.m_content[s] # Null
                     PROVE  g.rights[s] \subseteq g.granted[BufferOf(g, s)]
            BY DEF Granted
        <3>1. CASE s = r
            <4>1. g.rights[s] = R /\ BufferOf(g, s) = d
                BY <3>1, <2>1, <2>2 DEF BufferOf
            <4>2. R \subseteq h.granted[d]
                BY <2>8 DEF Access
            <4>3. QED
                BY <4>1, <4>2, <2>1
        <3>2. CASE s # r
            BY <3>2, <2>0, <2>1, <2>2 DEF Granted, HeapInv, BufferOf
        <3>3. QED
            BY <3>1, <3>2
    <2>10. Exclusive(g)
        <3>1. \A s \in Refs : s # r /\ h.m_content[s] # Null /\ BufferOf(h, s) = d =>
                 /\ "W" \in h.rights[s] => R = {}
                 /\ "W" \in R => h.rights[s] = {}
            <4> TAKE s \in Refs
            <4> HAVE s # r /\ h.m_content[s] # Null /\ BufferOf(h, s) = d
            <4>1. "W" \in h.rights[s] => s \in ReadLockers(h, d) /\ s \in WriteLockers(h, d)
                BY DEF ReadLockers, WriteLockers, OnBuffer
            <4>2. h.rights[s] # {} => s \in WriteLockers(h, d)
                BY DEF WriteLockers, OnBuffer
            <4>3. QED
                BY <4>1, <4>2, <2>8 DEF Access
        <3>2. QED
            BY <2>0, <2>1, <2>2, <3>1 DEF Exclusive, HeapInv, BufferOf
    <2>11. Registered(g)
        BY <2>0, <2>1, <2>2 DEF Registered, HeapInv, IsNull, BufferOf
    <2>12. Returned(g)
        BY <2>0, <2>1 DEF Returned, HeapInv
    <2>13. HeapInv(g)
        BY <2>1, <2>4, <2>7, <2>9, <2>10, <2>11, <2>12 DEF HeapInv
    <2>14. \A s \in Refs \ {r} : g.m_content[s] = h.m_content[s]
        BY <2>1, <2>2
    <2>15. QED
        BY <2>1, <2>13, <2>14 DEF Preserves, g
<1>3. QED
    BY <1>1, <1>2

-----------------------------------------------------------------------------
(* unlink() *)

\* The fields of a heap after an unlink.
LEMMA UnlinkFields ==
    ASSUME NEW h, h \in Heap, NEW r \in Refs, NEW b \in Buffers, b = BufferOf(h, r),
           h.m_write_locks[b] >= WriteLock(h.rights[r]),
           h.m_read_locks[b] >= ReadLock(h.rights[r])
    PROVE  /\ Unlink(h, r) \in Heap
           /\ Unlink(h, r) =
                [ m_content       |-> [h.m_content EXCEPT ![r] = Null],
                  rights          |-> [h.rights EXCEPT ![r] = {}],
                  m_data          |-> h.m_data,
                  m_buffer        |-> h.m_buffer,
                  m_read_locks    |-> [h.m_read_locks EXCEPT
                                          ![b] = @ - ReadLock(h.rights[r])],
                  m_write_locks   |-> [h.m_write_locks EXCEPT
                                          ![b] = @ - WriteLock(h.rights[r])],
                  m_notifications |-> [h.m_notifications EXCEPT ![b] = @ \ {r}],
                  granted         |-> h.granted,
                  memory          |-> [h.memory EXCEPT
                                          ![b] = IF OnBuffer(h, b) = {r} /\ @ = "managed"
                                                 THEN "freed" ELSE @] ]
<1>1. /\ WriteLock(h.rights[r]) \in Nat
      /\ ReadLock(h.rights[r]) \in Nat
      /\ {} \in Access
    BY DEF WriteLock, ReadLock, Access
<1>2. /\ h.m_write_locks[b] - WriteLock(h.rights[r]) \in Nat
      /\ h.m_read_locks[b] - ReadLock(h.rights[r]) \in Nat
      /\ h.m_notifications[b] \ {r} \in SUBSET Refs
      /\ (IF OnBuffer(h, b) = {r} /\ h.memory[b] = "managed"
             THEN "freed" ELSE h.memory[b]) \in Ownership
    BY <1>1, HeapFields DEF Ownership
<1>3. h = Fields(h)
    BY HeapRecord
<1>4. Unlink(h, r) =
        [h EXCEPT !.m_content[r] = Null,
                  !.rights[r] = {},
                  !.m_notifications[b] = @ \ {r},
                  !.m_write_locks[b] = @ - WriteLock(h.rights[r]),
                  !.m_read_locks[b] = @ - ReadLock(h.rights[r]),
                  !.memory[b] = IF OnBuffer(h, b) = {r} /\ @ = "managed"
                                THEN "freed" ELSE @]
    BY DEF Unlink
<1>5. Unlink(h, r) =
        [ m_content       |-> [h.m_content EXCEPT ![r] = Null],
          rights          |-> [h.rights EXCEPT ![r] = {}],
          m_data          |-> h.m_data,
          m_buffer        |-> h.m_buffer,
          m_read_locks    |-> [h.m_read_locks EXCEPT
                                  ![b] = @ - ReadLock(h.rights[r])],
          m_write_locks   |-> [h.m_write_locks EXCEPT
                                  ![b] = @ - WriteLock(h.rights[r])],
          m_notifications |-> [h.m_notifications EXCEPT ![b] = @ \ {r}],
          granted         |-> h.granted,
          memory          |-> [h.memory EXCEPT
                                  ![b] = IF OnBuffer(h, b) = {r} /\ @ = "managed"
                                         THEN "freed" ELSE @] ]
    BY <1>3, <1>4, ZenonT(60) DEF Fields
<1>6. Unlink(h, r) \in Heap
    BY <1>1, <1>2, <1>5, HeapFields DEF Heap
<1>7. QED
    BY <1>5, <1>6

\* unlink() gives back exactly the locks that link() took, erases the
\* notification and deallocates the buffer only with its last reference.
LEMMA UnlinkInv ==
    ASSUME NEW h, HeapInv(h), NEW r \in Refs, h.m_content[r] # Null
    PROVE  /\ Preserves(h, Unlink(h, r), {r})
           /\ Unlink(h, r).m_content[r] = Null
           /\ Unlink(h, r).m_data = h.m_data
           /\ Unlink(h, r).m_buffer = h.m_buffer
           /\ \A b \in Buffers : Unlink(h, r).m_notifications[b] \subseteq h.m_notifications[b]
           /\ \A b \in Buffers :
                 \/ Unlink(h, r).memory[b] = h.memory[b]
                 \/ /\ h.memory[b] = "managed" /\ Unlink(h, r).memory[b] = "freed"
                    /\ OnBuffer(h, b) = {r}
<1> DEFINE g == Unlink(h, r)
           d == BufferOf(h, r)
<1>1. /\ h \in Heap /\ d \in Buffers
      /\ h.m_content[r] \in Contents
      /\ h.memory[d] \in {"managed", "user"}
    BY LinkedBuffer DEF HeapInv
<1>2. \A b \in Buffers : h.memory[b] # "none" =>
        /\ h.m_write_locks[b] = Cardinality(WriteLockers(h, b))
                                + (IF "W" \in h.granted[b] THEN 0 ELSE 1)
        /\ h.m_read_locks[b] = Cardinality(ReadLockers(h, b))
                               + (IF "R" \in h.granted[b] THEN 0 ELSE 1)
    BY DEF HeapInv, Balanced
<1>3. /\ r \in WriteLockers(h, d) <=> h.rights[r] # {}
      /\ r \in ReadLockers(h, d) <=> "W" \in h.rights[r]
    BY <1>1 DEF WriteLockers, ReadLockers, OnBuffer
<1>4. /\ r \in WriteLockers(h, d) =>
            /\ Cardinality(WriteLockers(h, d) \ {r}) = Cardinality(WriteLockers(h, d)) - 1
            /\ Cardinality(WriteLockers(h, d)) >= 1
      /\ r \in ReadLockers(h, d) =>
            /\ Cardinality(ReadLockers(h, d) \ {r}) = Cardinality(ReadLockers(h, d)) - 1
            /\ Cardinality(ReadLockers(h, d)) >= 1
    <2>1. ASSUME NEW S, IsFiniteSet(S), r \in S
          PROVE  Cardinality(S \ {r}) = Cardinality(S) - 1 /\ Cardinality(S) >= 1
        <3>1. /\ Cardinality(S \ {r}) = Cardinality(S) - 1
              /\ IsFiniteSet(S \ {r})
            BY <2>1, FS_RemoveElement
        <3>2. Cardinality(S \ {r}) \in Nat /\ Cardinality(S) \in Nat
            BY <2>1, <3>1, FS_CardinalityType
        <3>3. QED
            BY <3>1, <3>2
    <2>2. QED
        BY <2>1, LockersFinite
<1>5. /\ h.m_write_locks[d] >= WriteLock(h.rights[r])
      /\ h.m_read_locks[d] >= ReadLock(h.rights[r])
    <2>1. h.memory[d] # "none"
        BY <1>1
    <2>2. Cardinality(WriteLockers(h, d)) \in Nat /\ Cardinality(ReadLockers(h, d)) \in Nat
        BY LockersFinite
    <2>3. QED
        BY <1>1, <1>2, <1>3, <1>4, <2>1, <2>2 DEF WriteLock, ReadLock
<1> HIDE DEF g, d
<1>6. /\ g \in Heap
      /\ g.m_content = [h.m_content EXCEPT ![r] = Null]
      /\ g.rights = [h.rights EXCEPT ![r] = {}]
      /\ g.m_data = h.m_data
      /\ g.m_buffer = h.m_buffer
      /\ g.m_read_locks = [h.m_read_locks EXCEPT ![d] = @ - ReadLock(h.rights[r])]
      /\ g.m_write_locks = [h.m_write_locks EXCEPT ![d] = @ - WriteLock(h.rights[r])]
      /\ g.m_notifications = [h.m_notifications EXCEPT ![d] = @ \ {r}]
      /\ g.granted = h.granted
      /\ g.memory = [h.memory EXCEPT
                         ![d] = IF OnBuffer(h, d) = {r} /\ @ = "managed" THEN "freed" ELSE @]
    <2>1. d = BufferOf(h, r)
        BY DEF d
    <2>2. /\ g \in Heap
          /\ g = [ m_content       |-> [h.m_content EXCEPT ![r] = Null],
                   rights          |-> [h.rights EXCEPT ![r] = {}],
                   m_data          |-> h.m_data,
                   m_buffer        |-> h.m_buffer,
                   m_read_locks    |-> [h.m_read_locks EXCEPT
                                           ![d] = @ - ReadLock(h.rights[r])],
                   m_write_locks   |-> [h.m_write_locks EXCEPT
                                           ![d] = @ - WriteLock(h.rights[r])],
                   m_notifications |-> [h.m_notifications EXCEPT ![d] = @ \ {r}],
                   granted         |-> h.granted,
                   memory          |-> [h.memory EXCEPT
                                           ![d] = IF OnBuffer(h, d) = {r} /\ @ = "managed"
                                                  THEN "freed" ELSE @] ]
        BY <1>1, <1>5, <2>1, UnlinkFields DEF g
    <2>3. QED
        BY <2>2
<1>7. /\ h.m_content \in [Refs -> Contents \cup {Null}]
      /\ h.rights \in [Refs -> Access]
      /\ h.m_write_locks \in [Buffers -> Nat]
      /\ h.m_read_locks \in [Buffers -> Nat]
      /\ h.granted \in [Buffers -> Access]
      /\ h.m_notifications \in [Buffers -> SUBSET Refs]
      /\ h.memory \in [Buffers -> Ownership]
    BY <1>1, HeapFields
<1>8. Alive(g)
    <2> SUFFICES ASSUME NEW s \in Refs, g.m_content[s] # Null
                 PROVE  /\ BufferOf(g, s) \in Buffers
                        /\ g.memory[BufferOf(g, s)] \in {"managed", "user"}
        BY DEF Alive
    <2>1. s # r /\ h.m_content[s] # Null /\ BufferOf(g, s) = BufferOf(h, s)
        BY <1>6, <1>7 DEF BufferOf
    <2>2. BufferOf(h, s) \in Buffers /\ h.memory[BufferOf(h, s)] \in {"managed", "user"}
        BY <1>1, <2>1, LinkedBuffer DEF HeapInv
    <2>3. BufferOf(h, s) = d => OnBuffer(h, d) # {r}
        BY <2>1 DEF OnBuffer
    <2>4. QED
        BY <1>6, <1>7, <2>1, <2>2, <2>3
<1>9. \A b \in Buffers :
        /\ WriteLockers(g, b) = IF b = d THEN WriteLockers(h, b) \ {r} ELSE WriteLockers(h, b)
        /\ ReadLockers(g, b) = IF b = d THEN ReadLockers(h, b) \ {r} ELSE ReadLockers(h, b)
    <2> TAKE b \in Buffers
    <2>1. OnBuffer(g, b) = OnBuffer(h, b) \ {r}
        BY <1>6, <1>7 DEF OnBuffer, BufferOf
    <2>2. b # d => r \notin OnBuffer(h, b)
        BY DEF OnBuffer, d
    <2>3. \A s \in Refs \ {r} : g.rights[s] = h.rights[s]
        BY <1>6, <1>7
    <2>4. OnBuffer(h, b) \subseteq Refs
        BY DEF OnBuffer
    <2>5. QED
        BY <2>1, <2>2, <2>3, <2>4 DEF WriteLockers, ReadLockers
<1>10. Balanced(g)
    <2> SUFFICES ASSUME NEW b \in Buffers, g.memory[b] # "none"
                 PROVE  /\ g.m_write_locks[b] = Cardinality(WriteLockers(g, b))
                                + (IF "W" \in g.granted[b] THEN 0 ELSE 1)
                        /\ g.m_read_locks[b] = Cardinality(ReadLockers(g, b))
                               + (IF "R" \in g.granted[b] THEN 0 ELSE 1)
        BY DEF Balanced
    <2>1. h.memory[b] # "none"
        BY <1>1, <1>6, <1>7
    <2>2. Cardinality(WriteLockers(h, b)) \in Nat /\ Cardinality(ReadLockers(h, b)) \in Nat
        BY LockersFinite
    <2>3. CASE b # d
        BY <1>2, <1>6, <1>7, <1>9, <2>1, <2>3
    <2>4. CASE b = d
        <3>1. Cardinality(WriteLockers(g, d)) =
                 Cardinality(WriteLockers(h, d)) - WriteLock(h.rights[r])
            <4>1. CASE h.rights[r] # {}
                BY <4>1, <1>1, <1>3, <1>4, <1>9 DEF WriteLock
            <4>2. CASE h.rights[r] = {}
                <5>1. WriteLockers(g, d) = WriteLockers(h, d)
                    BY <4>2, <1>1, <1>3, <1>9
                <5>2. QED
                    BY <4>2, <5>1, <2>2, <2>4 DEF WriteLock
            <4>3. QED
                BY <4>1, <4>2
        <3>2. Cardinality(ReadLockers(g, d)) =
                 Cardinality(ReadLockers(h, d)) - ReadLock(h.rights[r])
            <4>1. CASE "W" \in h.rights[r]
                BY <4>1, <1>1, <1>3, <1>4, <1>9 DEF ReadLock
            <4>2. CASE ~("W" \in h.rights[r])
                <5>1. ReadLockers(g, d) = ReadLockers(h, d)
                    BY <4>2, <1>1, <1>3, <1>9
                <5>2. QED
                    BY <4>2, <5>1, <2>2, <2>4 DEF ReadLock
            <4>3. QED
                BY <4>1, <4>2
        <3>3. g.m_write_locks[d] = h.m_write_locks[d] - WriteLock(h.rights[r])
              /\ g.m_read_locks[d] = h.m_read_locks[d] - ReadLock(h.rights[r])
            BY <1>1, <1>6, <1>7
        <3>4. WriteLock(h.rights[r]) \in Nat /\ ReadLock(h.rights[r]) \in Nat
            BY DEF WriteLock, ReadLock
        <3>5. QED
            BY <1>2, <1>6, <2>1, <2>2, <2>4, <3>1, <3>2, <3>3, <3>4
    <2>5. QED
        BY <2>3, <2>4
<1>11. Exclusive(g) /\ Granted(g)
    BY <1>6, <1>7 DEF Exclusive, Granted, HeapInv, BufferOf
<1>12. Registered(g)
    <2> SUFFICES ASSUME NEW b \in Buffers, NEW s \in g.m_notifications[b]
                 PROVE  ~IsNull(g, s) /\ BufferOf(g, s) = b
        BY DEF Registered
    <2>1. s \in h.m_notifications[b] /\ s \in Refs
        BY <1>1, <1>6, <1>7
    <2>2. ~IsNull(h, s) /\ BufferOf(h, s) = b
        BY <2>1 DEF HeapInv, Registered
    <2>3. s # r
        BY <1>1, <1>6, <1>7, <2>2 DEF d
    <2>4. QED
        BY <1>6, <1>7, <2>1, <2>2, <2>3 DEF IsNull, BufferOf
<1>13. Returned(g)
    BY <1>1, <1>6, <1>7 DEF Returned, HeapInv
<1>14. /\ \A s \in Refs \ {r} : g.m_content[s] = h.m_content[s]
       /\ g.m_content[r] = Null
    BY <1>6, <1>7
<1>15. \A b \in Buffers : h.memory[b] \in {"user", "freed"} => g.memory[b] = h.memory[b]
    BY <1>1, <1>6, <1>7
<1>16. HeapInv(g)
    BY <1>6, <1>8, <1>10, <1>11, <1>12, <1>13 DEF HeapInv
<1>17. \A b \in Buffers :
         /\ g.m_notifications[b] \subseteq h.m_notifications[b]
         /\ \/ g.memory[b] = h.memory[b]
            \/ h.memory[b] = "managed" /\ g.memory[b] = "freed" /\ OnBuffer(h, b) = {r}
    BY <1>1, <1>6, <1>7
<1>18. QED
    BY <1>6, <1>14, <1>15, <1>16, <1>17 DEF Preserves, g

-----------------------------------------------------------------------------
(* Moves *)

\* The fields of a heap after a move.
LEMMA StealFields ==
    ASSUME NEW h, h \in Heap, NEW r \in Refs, NEW from \in Refs,
           NEW b \in Buffers, b = BufferOf(h, from)
    PROVE  /\ Steal(h, r, from) \in Heap
           /\ Steal(h, r, from) =
                [ m_content       |-> [h.m_content EXCEPT ![r] = h.m_content[from],
                                                          ![from] = Null],
                  rights          |-> [h.rights EXCEPT ![r] = h.rights[from],
                                                       ![from] = {}],
                  m_data          |-> h.m_data,
                  m_buffer        |-> h.m_buffer,
                  m_read_locks    |-> h.m_read_locks,
                  m_write_locks   |-> h.m_write_locks,
                  m_notifications |-> [h.m_notifications EXCEPT ![b] = @ \ {from}],
                  granted         |-> h.granted,
                  memory          |-> h.memory ]
<1>1. h = Fields(h)
    BY HeapRecord
<1>2. Steal(h, r, from) =
        [h EXCEPT !.m_content = [@ EXCEPT ![r] = h.m_content[from], ![from] = Null],
                  !.rights = [@ EXCEPT ![r] = h.rights[from], ![from] = {}],
                  !.m_notifications[b] = @ \ {from}]
    BY DEF Steal
<1>3. Steal(h, r, from) =
        [ m_content       |-> [h.m_content EXCEPT ![r] = h.m_content[from],
                                                  ![from] = Null],
          rights          |-> [h.rights EXCEPT ![r] = h.rights[from],
                                               ![from] = {}],
          m_data          |-> h.m_data,
          m_buffer        |-> h.m_buffer,
          m_read_locks    |-> h.m_read_locks,
          m_write_locks   |-> h.m_write_locks,
          m_notifications |-> [h.m_notifications EXCEPT ![b] = @ \ {from}],
          granted         |-> h.granted,
          memory          |-> h.memory ]
    BY <1>1, <1>2 DEF Fields
<1>4. {} \in Access /\ h.m_notifications[b] \ {from} \in SUBSET Refs
    BY HeapFields DEF Access
<1>5. Steal(h, r, from) \in Heap
    BY <1>3, <1>4, HeapFields DEF Heap
<1>6. QED
    BY <1>3, <1>5

\* A move hands the locks over, so the counters stay exact, and leaves no
\* callback registered for the reference that became null.
LEMMA StealInv ==
    ASSUME NEW h, HeapInv(h), NEW r \in Refs, NEW from \in Refs, r # from,
           h.m_content[r] = Null, h.m_content[from] # Null
    PROVE  Preserves(h, Steal(h, r, from), {r, from})
<1> DEFINE g == Steal(h, r, from)
           d == BufferOf(h, from)
<1>1. /\ h \in Heap /\ d \in Buffers
      /\ h.m_content[from] \in Contents
      /\ h.memory[d] \in {"managed", "user"}
    BY LinkedBuffer DEF HeapInv
<1> HIDE DEF g, d
<1>2. d = BufferOf(h, from)
    BY DEF d
<1>3. /\ g \in Heap
      /\ g = [ m_content       |-> [h.m_content EXCEPT ![r] = h.m_content[from],
                                                       ![from] = Null],
               rights          |-> [h.rights EXCEPT ![r] = h.rights[from],
                                                    ![from] = {}],
               m_data          |-> h.m_data,
               m_buffer        |-> h.m_buffer,
               m_read_locks    |-> h.m_read_locks,
               m_write_locks   |-> h.m_write_locks,
               m_notifications |-> [h.m_notifications EXCEPT ![d] = @ \ {from}],
               granted         |-> h.granted,
               memory          |-> h.memory ]
    BY <1>1, <1>2, StealFields DEF g
<1>4. /\ h.m_content \in [Refs -> Contents \cup {Null}]
      /\ h.rights \in [Refs -> Access]
      /\ h.m_notifications \in [Buffers -> SUBSET Refs]
    BY <1>1, HeapFields
<1>5. /\ g.m_content[r] = h.m_content[from] /\ g.m_content[from] = Null
      /\ g.rights[r] = h.rights[from]
      /\ \A s \in Refs \ {r, from} :
            g.m_content[s] = h.m_content[s] /\ g.rights[s] = h.rights[s]
      /\ g.m_buffer = h.m_buffer /\ g.m_data = h.m_data
      /\ g.granted = h.granted /\ g.memory = h.memory
      /\ g.m_write_locks = h.m_write_locks /\ g.m_read_locks = h.m_read_locks
      /\ g.m_notifications = [h.m_notifications EXCEPT ![d] = @ \ {from}]
    BY <1>3, <1>4
<1>6. /\ BufferOf(g, r) = d
      /\ \A s \in Refs \ {r, from} : BufferOf(g, s) = BufferOf(h, s)
    BY <1>2, <1>5 DEF BufferOf
<1>7. Alive(g) /\ Granted(g)
    BY <1>1, <1>2, <1>5, <1>6 DEF Alive, Granted, HeapInv
<1>8. Exclusive(g)
    BY <1>2, <1>5, <1>6 DEF Exclusive, HeapInv
<1>9. Registered(g)
    <2> SUFFICES ASSUME NEW b \in Buffers, NEW s \in g.m_notifications[b]
                 PROVE  ~IsNull(g, s) /\ BufferOf(g, s) = b
        BY DEF Registered
    <2>1. s \in h.m_notifications[b] /\ s \in Refs /\ (b = d => s # from)
        BY <1>1, <1>4, <1>5
    <2>2. ~IsNull(h, s) /\ BufferOf(h, s) = b
        BY <2>1 DEF HeapInv, Registered
    <2>3. s # from /\ s # r
        BY <1>2, <2>1, <2>2 DEF IsNull
    <2>4. QED
        BY <1>5, <1>6, <2>1, <2>2, <2>3 DEF IsNull
<1>10. Returned(g)
    BY <1>5 DEF Returned, HeapInv
<1>11. \A b \in Buffers :
         OnBuffer(g, b) = IF b = d THEN (OnBuffer(h, b) \ {from}) \cup {r}
                                   ELSE OnBuffer(h, b)
    BY <1>1, <1>2, <1>5, <1>6, HeapAssumption DEF OnBuffer
<1>12. /\ r \notin OnBuffer(h, d) /\ from \in OnBuffer(h, d)
       /\ \A b \in Buffers : OnBuffer(h, b) \subseteq Refs
       /\ \A b \in Buffers : b # d => r \notin OnBuffer(h, b) /\ from \notin OnBuffer(h, b)
    BY <1>2 DEF OnBuffer
<1>13. ASSUME NEW S, IsFiniteSet(S), r \notin S
       PROVE  Cardinality(IF from \in S THEN (S \ {from}) \cup {r} ELSE S) = Cardinality(S)
    <2>1. CASE from \in S
        <3>1. /\ Cardinality(S \ {from}) = Cardinality(S) - 1
              /\ IsFiniteSet(S \ {from})
            BY <1>13, <2>1, FS_RemoveElement
        <3>2. Cardinality((S \ {from}) \cup {r}) = Cardinality(S \ {from}) + 1
            BY <1>13, <3>1, FS_AddElement
        <3>3. Cardinality(S) \in Nat
            BY <1>13, FS_CardinalityType
        <3>4. QED
            BY <2>1, <3>1, <3>2, <3>3
    <2>2. CASE from \notin S
        BY <2>2
    <2>3. QED
        BY <2>1, <2>2
<1>14. \A b \in Buffers :
         /\ Cardinality(WriteLockers(g, b)) = Cardinality(WriteLockers(h, b))
         /\ Cardinality(ReadLockers(g, b)) = Cardinality(ReadLockers(h, b))
    <2> TAKE b \in Buffers
    <2>1. CASE b # d
        <3>1. WriteLockers(g, b) = WriteLockers(h, b) /\ ReadLockers(g, b) = ReadLockers(h, b)
            BY <2>1, <1>5, <1>11, <1>12 DEF WriteLockers, ReadLockers
        <3>2. QED
            BY <3>1
    <2>2. CASE b = d
        <3>1. WriteLockers(g, b) = IF from \in WriteLockers(h, b)
                                   THEN (WriteLockers(h, b) \ {from}) \cup {r}
                                   ELSE WriteLockers(h, b)
            BY <2>2, <1>1, <1>5, <1>11, <1>12 DEF WriteLockers
        <3>2. ReadLockers(g, b) = IF from \in ReadLockers(h, b)
                                  THEN (ReadLockers(h, b) \ {from}) \cup {r}
                                  ELSE ReadLockers(h, b)
            BY <2>2, <1>1, <1>5, <1>11, <1>12 DEF ReadLockers
        <3>3. r \notin WriteLockers(h, b) /\ r \notin ReadLockers(h, b)
            BY <2>2, <1>12 DEF WriteLockers, ReadLockers
        <3>4. IsFiniteSet(WriteLockers(h, b)) /\ IsFiniteSet(ReadLockers(h, b))
            BY LockersFinite
        <3>5. Cardinality(WriteLockers(g, b)) = Cardinality(WriteLockers(h, b))
            BY <3>1, <3>3, <3>4, <1>13
        <3>6. Cardinality(ReadLockers(g, b)) = Cardinality(ReadLockers(h, b))
            BY <3>2, <3>3, <3>4, <1>13
        <3>7. QED
            BY <3>5, <3>6
    <2>3. QED
        BY <2>1, <2>2
<1>15. Balanced(g)
    BY <1>5, <1>14 DEF Balanced, HeapInv
<1>16. HeapInv(g)
    BY <1>3, <1>7, <1>8, <1>9, <1>10, <1>15 DEF HeapInv
<1>17. QED
    BY <1>5, <1>16 DEF Preserves, g

-----------------------------------------------------------------------------
(* Changes of contents and buffers that leave the references alone *)

\* No reference is linked to a content that was never created, nor to a buffer
\* that was never created.
LEMMA FreshUnlinked ==
    ASSUME NEW h, HeapInv(h)
    PROVE  /\ \A c \in FreshContents(h), r \in Refs : h.m_content[r] # c
           /\ \A b \in FreshBuffers(h) :
                 OnBuffer(h, b) = {} /\ h.m_notifications[b] = {}
<1>1. h \in Heap /\ Alive(h) /\ Registered(h)
    BY DEF HeapInv
<1>2. \A c \in FreshContents(h), r \in Refs : h.m_content[r] # c
    BY <1>1, HeapAssumption DEF FreshContents, Alive, BufferOf
<1>3. \A b \in FreshBuffers(h) : OnBuffer(h, b) = {}
    BY <1>1 DEF FreshBuffers, OnBuffer, Alive
<1>4. \A b \in FreshBuffers(h) : h.m_notifications[b] = {}
    <2> SUFFICES ASSUME NEW b \in FreshBuffers(h), NEW s \in h.m_notifications[b]
                 PROVE  FALSE
        OBVIOUS
    <2>1. b \in Buffers /\ s \in Refs
        BY <1>1, HeapFields DEF FreshBuffers
    <2>2. h.m_content[s] # Null /\ BufferOf(h, s) = b
        BY <1>1, <2>1 DEF Registered, IsNull
    <2>3. s \in OnBuffer(h, b)
        BY <2>1, <2>2 DEF OnBuffer
    <2>4. QED
        BY <1>3, <2>3
<1>5. QED
    BY <1>2, <1>3, <1>4

\* A new content in a new buffer.
LEMMA NewDataInv ==
    ASSUME NEW h, HeapInv(h), NEW c \in FreshContents(h), NEW b \in FreshBuffers(h),
           NEW a \in Access
    PROVE  LET g == NewData(h, c, b, a)
           IN  /\ Preserves(h, g, {})
               /\ g.m_content = h.m_content
               /\ g.m_buffer[c] = b
               /\ g.m_data[c]
               /\ g.memory[b] = "managed"
               /\ OnBuffer(g, b) = {}
               /\ g.granted[b] = a
               /\ g.m_notifications = h.m_notifications
               /\ \A k \in Contents \ {c} :
                     g.m_data[k] = h.m_data[k] /\ g.m_buffer[k] = h.m_buffer[k]
               /\ \A d \in Buffers \ {b} : g.memory[d] = h.memory[d]
<1> DEFINE g == NewData(h, c, b, a)
           rl == IF "R" \in a THEN 0 ELSE 1
           wl == IF "W" \in a THEN 0 ELSE 1
<1>1. h \in Heap /\ c \in Contents /\ b \in Buffers
    BY DEF HeapInv, FreshContents, FreshBuffers
<1>2. h = Fields(h)
    BY <1>1, HeapRecord
<1> HIDE DEF g, rl, wl
<1>3. g = [h EXCEPT !.m_buffer[c] = b,
                    !.m_data[c] = TRUE,
                    !.m_read_locks[b] = rl,
                    !.m_write_locks[b] = wl,
                    !.granted[b] = a,
                    !.memory[b] = "managed"]
    BY DEF g, rl, wl, NewData
<1>4. g = [ m_content       |-> h.m_content,
            rights          |-> h.rights,
            m_data          |-> [h.m_data EXCEPT ![c] = TRUE],
            m_buffer        |-> [h.m_buffer EXCEPT ![c] = b],
            m_read_locks    |-> [h.m_read_locks EXCEPT ![b] = rl],
            m_write_locks   |-> [h.m_write_locks EXCEPT ![b] = wl],
            m_notifications |-> h.m_notifications,
            granted         |-> [h.granted EXCEPT ![b] = a],
            memory          |-> [h.memory EXCEPT ![b] = "managed"] ]
    BY <1>2, <1>3 DEF Fields
<1>5. rl \in Nat /\ wl \in Nat /\ "managed" \in Ownership
    BY DEF Ownership, rl, wl
<1>6. g \in Heap
    BY <1>1, <1>4, <1>5, HeapFields DEF Heap
<1>7. /\ g.m_content = h.m_content /\ g.rights = h.rights
      /\ g.m_notifications = h.m_notifications
      /\ g.m_buffer[c] = b /\ g.m_data[c]
      /\ g.memory[b] = "managed" /\ g.granted[b] = a
      /\ g.m_read_locks[b] = rl /\ g.m_write_locks[b] = wl
      /\ \A k \in Contents \ {c} : g.m_data[k] = h.m_data[k] /\ g.m_buffer[k] = h.m_buffer[k]
      /\ \A d \in Buffers \ {b} :
            /\ g.memory[d] = h.memory[d] /\ g.granted[d] = h.granted[d]
            /\ g.m_read_locks[d] = h.m_read_locks[d]
            /\ g.m_write_locks[d] = h.m_write_locks[d]
    BY <1>1, <1>4, HeapFields
<1>8. \A r \in Refs : h.m_content[r] # Null =>
        /\ h.m_content[r] # c /\ h.m_content[r] \in Contents
        /\ BufferOf(g, r) = BufferOf(h, r)
        /\ BufferOf(h, r) \in Buffers \ {b}
    <2> TAKE r \in Refs
    <2> HAVE h.m_content[r] # Null
    <2>1. h.m_content[r] # c /\ r \notin OnBuffer(h, b)
        BY FreshUnlinked
    <2>2. h.m_content[r] \in Contents /\ BufferOf(h, r) \in Buffers
        BY LinkedBuffer DEF HeapInv
    <2>3. QED
        BY <1>7, <2>1, <2>2 DEF OnBuffer, BufferOf
<1>9. Alive(g) /\ Granted(g) /\ Exclusive(g)
    BY <1>7, <1>8 DEF Alive, Granted, Exclusive, HeapInv
<1>10. \A d \in Buffers : OnBuffer(g, d) = IF d = b THEN {} ELSE OnBuffer(h, d)
    BY <1>7, <1>8 DEF OnBuffer
<1>11. Balanced(g)
    <2> SUFFICES ASSUME NEW d \in Buffers, g.memory[d] # "none"
                 PROVE  /\ g.m_write_locks[d] = Cardinality(WriteLockers(g, d))
                                + (IF "W" \in g.granted[d] THEN 0 ELSE 1)
                        /\ g.m_read_locks[d] = Cardinality(ReadLockers(g, d))
                               + (IF "R" \in g.granted[d] THEN 0 ELSE 1)
        BY DEF Balanced
    <2>1. CASE d = b
        <3>1. WriteLockers(g, d) = {} /\ ReadLockers(g, d) = {}
            BY <2>1, <1>10 DEF WriteLockers, ReadLockers
        <3>2. Cardinality(WriteLockers(g, d)) = 0 /\ Cardinality(ReadLockers(g, d)) = 0
            BY <3>1, FS_EmptySet
        <3>3. QED
            BY <2>1, <3>2, <1>5, <1>7 DEF rl, wl
    <2>2. CASE d # b
        <3>1. WriteLockers(g, d) = WriteLockers(h, d) /\ ReadLockers(g, d) = ReadLockers(h, d)
            BY <2>2, <1>7, <1>10 DEF WriteLockers, ReadLockers
        <3>2. QED
            BY <2>2, <3>1, <1>7 DEF HeapInv, Balanced
    <2>3. QED
        BY <2>1, <2>2
<1>12. Registered(g)
    <2> SUFFICES ASSUME NEW d \in Buffers, NEW s \in h.m_notifications[d]
                 PROVE  ~IsNull(g, s) /\ BufferOf(g, s) = d
        BY <1>7 DEF Registered
    <2>1. s \in Refs /\ ~IsNull(h, s) /\ BufferOf(h, s) = d
        BY <1>1, HeapFields DEF HeapInv, Registered
    <2>2. QED
        BY <2>1, <1>7, <1>8 DEF IsNull
<1>13. Returned(g)
    <2>1. h.memory[b] = "none" /\ h.m_buffer[c] = Null /\ Null \notin Buffers
        BY HeapAssumption DEF FreshBuffers, FreshContents
    <2>2. QED
        BY <1>1, <1>7, <2>1 DEF Returned, HeapInv
<1>14. HeapInv(g)
    BY <1>6, <1>9, <1>11, <1>12, <1>13 DEF HeapInv
<1>15. Preserves(h, g, {})
    <2>1. h.memory[b] = "none"
        BY DEF FreshBuffers
    <2>2. QED
        BY <1>7, <1>14, <2>1 DEF Preserves
<1>16. QED
    BY <1>1, <1>7, <1>10, <1>15 DEF g

\* Another content of a buffer, for a sub-reference.
SubContent(h, c, b) == [h EXCEPT !.m_buffer[c] = b, !.m_data[c] = TRUE]

\* The new content of a live buffer disturbs no reference.
LEMMA SubContentInv ==
    ASSUME NEW h, HeapInv(h), NEW c \in FreshContents(h), NEW b \in Buffers,
           h.memory[b] \in {"managed", "user"}
    PROVE  /\ Preserves(h, SubContent(h, c, b), {})
           /\ SubContent(h, c, b).m_content = h.m_content
           /\ SubContent(h, c, b).m_buffer[c] = b
           /\ SubContent(h, c, b).memory = h.memory
<1> DEFINE g == SubContent(h, c, b)
<1>1. h \in Heap /\ c \in Contents
    BY DEF HeapInv, FreshContents
<1>2. h = Fields(h)
    BY <1>1, HeapRecord
<1> HIDE DEF g
<1>3. g = [h EXCEPT !.m_buffer[c] = b, !.m_data[c] = TRUE]
    BY DEF g, SubContent
<1>4. g = [ m_content       |-> h.m_content,
            rights          |-> h.rights,
            m_data          |-> [h.m_data EXCEPT ![c] = TRUE],
            m_buffer        |-> [h.m_buffer EXCEPT ![c] = b],
            m_read_locks    |-> h.m_read_locks,
            m_write_locks   |-> h.m_write_locks,
            m_notifications |-> h.m_notifications,
            granted         |-> h.granted,
            memory          |-> h.memory ]
    BY <1>2, <1>3 DEF Fields
<1>5. g \in Heap
    BY <1>1, <1>4, HeapFields DEF Heap
<1>6. /\ g.m_content = h.m_content /\ g.rights = h.rights
      /\ g.m_notifications = h.m_notifications
      /\ g.memory = h.memory /\ g.granted = h.granted
      /\ g.m_read_locks = h.m_read_locks /\ g.m_write_locks = h.m_write_locks
      /\ g.m_buffer[c] = b /\ g.m_data[c]
      /\ \A k \in Contents \ {c} : g.m_data[k] = h.m_data[k] /\ g.m_buffer[k] = h.m_buffer[k]
    BY <1>1, <1>4, HeapFields
<1>7. \A r \in Refs : h.m_content[r] # Null =>
        /\ h.m_content[r] # c /\ h.m_content[r] \in Contents
        /\ BufferOf(g, r) = BufferOf(h, r)
    <2> TAKE r \in Refs
    <2> HAVE h.m_content[r] # Null
    <2>1. h.m_content[r] # c
        BY FreshUnlinked
    <2>2. h.m_content[r] \in Contents
        BY <1>1, HeapFields
    <2>3. QED
        BY <1>6, <2>1, <2>2 DEF BufferOf
<1>8. Alive(g) /\ Granted(g) /\ Exclusive(g)
    BY <1>6, <1>7 DEF Alive, Granted, Exclusive, HeapInv
<1>9. \A d \in Buffers : OnBuffer(g, d) = OnBuffer(h, d)
    BY <1>6, <1>7 DEF OnBuffer
<1>10. \A d \in Buffers :
        WriteLockers(g, d) = WriteLockers(h, d) /\ ReadLockers(g, d) = ReadLockers(h, d)
    BY <1>6, <1>9 DEF WriteLockers, ReadLockers
<1>11. Balanced(g)
    BY <1>6, <1>10 DEF Balanced, HeapInv
<1>12. Registered(g)
    <2> SUFFICES ASSUME NEW d \in Buffers, NEW s \in h.m_notifications[d]
                 PROVE  ~IsNull(g, s) /\ BufferOf(g, s) = d
        BY <1>6 DEF Registered
    <2>1. s \in Refs /\ ~IsNull(h, s) /\ BufferOf(h, s) = d
        BY <1>1, HeapFields DEF HeapInv, Registered
    <2>2. QED
        BY <2>1, <1>6, <1>7 DEF IsNull
<1>13. Returned(g)
    <2>1. h.m_buffer[c] = Null /\ Null \notin Buffers
        BY HeapAssumption DEF FreshContents
    <2>2. QED
        BY <1>1, <1>6, <2>1 DEF Returned, HeapInv
<1>14. HeapInv(g)
    BY <1>5, <1>8, <1>11, <1>12, <1>13 DEF HeapInv
<1>15. QED
    BY <1>6, <1>14 DEF Preserves, g

\* Other callbacks for a buffer, all of references that it did not nullify.
LEMMA NotificationsInv ==
    ASSUME NEW h, HeapInv(h), NEW b \in Buffers, NEW N \in SUBSET Refs,
           \A s \in N : ~IsNull(h, s) /\ BufferOf(h, s) = b
    PROVE  Preserves(h, [h EXCEPT !.m_notifications[b] = N], {})
<1> DEFINE g == [h EXCEPT !.m_notifications[b] = N]
<1>1. h \in Heap
    BY DEF HeapInv
<1>2. h = Fields(h)
    BY <1>1, HeapRecord
<1> HIDE DEF g
<1>3. g = [h EXCEPT !.m_notifications[b] = N]
    BY DEF g
<1>4. g = [ m_content       |-> h.m_content,
            rights          |-> h.rights,
            m_data          |-> h.m_data,
            m_buffer        |-> h.m_buffer,
            m_read_locks    |-> h.m_read_locks,
            m_write_locks   |-> h.m_write_locks,
            m_notifications |-> [h.m_notifications EXCEPT ![b] = N],
            granted         |-> h.granted,
            memory          |-> h.memory ]
    BY <1>2, <1>3 DEF Fields
<1>5. g \in Heap
    BY <1>1, <1>4, HeapFields DEF Heap
<1>6. /\ g.m_content = h.m_content /\ g.rights = h.rights
      /\ g.m_data = h.m_data /\ g.m_buffer = h.m_buffer
      /\ g.memory = h.memory /\ g.granted = h.granted
      /\ g.m_read_locks = h.m_read_locks /\ g.m_write_locks = h.m_write_locks
      /\ g.m_notifications[b] = N
      /\ \A d \in Buffers \ {b} : g.m_notifications[d] = h.m_notifications[d]
    BY <1>1, <1>4, HeapFields
<1>7. \A s : BufferOf(g, s) = BufferOf(h, s) /\ (IsNull(g, s) <=> IsNull(h, s))
    BY <1>6 DEF BufferOf, IsNull
<1>8. Alive(g) /\ Granted(g) /\ Exclusive(g) /\ Returned(g)
    BY <1>6, <1>7 DEF Alive, Granted, Exclusive, Returned, HeapInv
<1>9. \A d \in Buffers :
        WriteLockers(g, d) = WriteLockers(h, d) /\ ReadLockers(g, d) = ReadLockers(h, d)
    BY <1>6, <1>7 DEF WriteLockers, ReadLockers, OnBuffer
<1>10. Balanced(g)
    BY <1>6, <1>9 DEF Balanced, HeapInv
<1>11. Registered(g)
    BY <1>6, <1>7 DEF Registered, HeapInv
<1>12. HeapInv(g)
    BY <1>5, <1>8, <1>10, <1>11 DEF HeapInv
<1>13. QED
    BY <1>6, <1>12 DEF Preserves, g

\* A buffer may be deallocated when no reference is linked to it.
LEMMA DeallocateInv ==
    ASSUME NEW h, HeapInv(h), NEW b \in Buffers,
           OnBuffer(h, b) = {}, h.memory[b] = "managed"
    PROVE  Preserves(h, [h EXCEPT !.memory[b] = "freed"], {})
<1> DEFINE g == [h EXCEPT !.memory[b] = "freed"]
<1>1. h \in Heap
    BY DEF HeapInv
<1>2. h = Fields(h)
    BY <1>1, HeapRecord
<1> HIDE DEF g
<1>3. g = [h EXCEPT !.memory[b] = "freed"]
    BY DEF g
<1>4. g = [ m_content       |-> h.m_content,
            rights          |-> h.rights,
            m_data          |-> h.m_data,
            m_buffer        |-> h.m_buffer,
            m_read_locks    |-> h.m_read_locks,
            m_write_locks   |-> h.m_write_locks,
            m_notifications |-> h.m_notifications,
            granted         |-> h.granted,
            memory          |-> [h.memory EXCEPT ![b] = "freed"] ]
    BY <1>2, <1>3 DEF Fields
<1>5. "freed" \in Ownership
    BY DEF Ownership
<1>6. g \in Heap
    BY <1>1, <1>4, <1>5, HeapFields DEF Heap
<1>7. /\ g.m_content = h.m_content /\ g.rights = h.rights
      /\ g.m_data = h.m_data /\ g.m_buffer = h.m_buffer
      /\ g.granted = h.granted /\ g.m_notifications = h.m_notifications
      /\ g.m_read_locks = h.m_read_locks /\ g.m_write_locks = h.m_write_locks
      /\ g.memory[b] = "freed"
      /\ \A d \in Buffers \ {b} : g.memory[d] = h.memory[d]
    BY <1>1, <1>4, HeapFields
<1>8. \A s : BufferOf(g, s) = BufferOf(h, s) /\ (IsNull(g, s) <=> IsNull(h, s))
    BY <1>7 DEF BufferOf, IsNull
<1>9. Granted(g) /\ Exclusive(g) /\ Registered(g) /\ Returned(g)
    BY <1>7, <1>8 DEF Granted, Exclusive, Registered, Returned, HeapInv
<1>10. Alive(g)
    BY <1>7, <1>8 DEF Alive, HeapInv, OnBuffer
<1>11. \A d \in Buffers :
        WriteLockers(g, d) = WriteLockers(h, d) /\ ReadLockers(g, d) = ReadLockers(h, d)
    BY <1>7, <1>8 DEF WriteLockers, ReadLockers, OnBuffer
<1>12. Balanced(g)
    BY <1>7, <1>11 DEF Balanced, HeapInv
<1>13. HeapInv(g)
    BY <1>6, <1>9, <1>10, <1>12 DEF HeapInv
<1>14. QED
    BY <1>7, <1>13 DEF Preserves, g

\* A content is nullified and its memory given back.
GivenBack(h, c, b) == [h EXCEPT !.m_data[c] = FALSE, !.memory[b] = "user"]

\* The memory of a buffer may be given back once every callback was called,
\* when one of its contents is nullified.
LEMMA GiveBackInv ==
    ASSUME NEW h, HeapInv(h), NEW c \in Contents, NEW b \in Buffers, h.m_buffer[c] = b,
           h.m_notifications[b] = {}, h.memory[b] \in {"managed", "user"}
    PROVE  LET g == GivenBack(h, c, b)
           IN  /\ Preserves(h, g, {}) /\ g.m_content = h.m_content
               /\ g.m_buffer = h.m_buffer /\ g.m_notifications = h.m_notifications
               /\ g.memory[b] = "user" /\ ~g.m_data[c]
               /\ \A d \in Buffers \ {b} : g.memory[d] = h.memory[d]
               /\ \A k \in Contents \ {c} : g.m_data[k] = h.m_data[k]
<1> DEFINE g == GivenBack(h, c, b)
<1>1. h \in Heap
    BY DEF HeapInv
<1>2. h = Fields(h)
    BY <1>1, HeapRecord
<1> HIDE DEF g
<1>3. g = [h EXCEPT !.m_data[c] = FALSE, !.memory[b] = "user"]
    BY DEF g, GivenBack
<1>4. g = [ m_content       |-> h.m_content,
            rights          |-> h.rights,
            m_data          |-> [h.m_data EXCEPT ![c] = FALSE],
            m_buffer        |-> h.m_buffer,
            m_read_locks    |-> h.m_read_locks,
            m_write_locks   |-> h.m_write_locks,
            m_notifications |-> h.m_notifications,
            granted         |-> h.granted,
            memory          |-> [h.memory EXCEPT ![b] = "user"] ]
    BY <1>2, <1>3 DEF Fields
<1>5. "user" \in Ownership
    BY DEF Ownership
<1>6. g \in Heap
    BY <1>1, <1>4, <1>5, HeapFields DEF Heap
<1>7. /\ g.m_content = h.m_content /\ g.rights = h.rights
      /\ g.m_buffer = h.m_buffer
      /\ g.granted = h.granted /\ g.m_notifications = h.m_notifications
      /\ g.m_read_locks = h.m_read_locks /\ g.m_write_locks = h.m_write_locks
      /\ g.memory[b] = "user" /\ ~g.m_data[c]
      /\ \A d \in Buffers \ {b} : g.memory[d] = h.memory[d]
      /\ \A k \in Contents \ {c} : g.m_data[k] = h.m_data[k]
    BY <1>1, <1>4, HeapFields
<1>8. \A s : BufferOf(g, s) = BufferOf(h, s)
    BY <1>7 DEF BufferOf
<1>9. Granted(g) /\ Exclusive(g) /\ Alive(g)
    BY <1>7, <1>8 DEF Granted, Exclusive, Alive, HeapInv
<1>10. Returned(g)
    BY <1>7 DEF Returned, HeapInv
<1>11. Registered(g)
    <2> SUFFICES ASSUME NEW d \in Buffers, NEW s \in h.m_notifications[d]
                 PROVE  ~IsNull(g, s) /\ BufferOf(g, s) = d
        BY <1>7 DEF Registered
    <2>1. s \in Refs /\ ~IsNull(h, s) /\ BufferOf(h, s) = d /\ d # b
        BY <1>1, HeapFields DEF HeapInv, Registered
    <2>2. h.m_content[s] \in Contents /\ h.m_content[s] # c
        BY <1>1, <2>1, HeapFields DEF IsNull, BufferOf
    <2>3. QED
        BY <1>7, <1>8, <2>1, <2>2 DEF IsNull
<1>12. \A d \in Buffers :
        WriteLockers(g, d) = WriteLockers(h, d) /\ ReadLockers(g, d) = ReadLockers(h, d)
    BY <1>7, <1>8 DEF WriteLockers, ReadLockers, OnBuffer
<1>13. Balanced(g)
    BY <1>7, <1>12 DEF Balanced, HeapInv
<1>14. HeapInv(g)
    BY <1>6, <1>9, <1>10, <1>11, <1>13 DEF HeapInv
<1>15. QED
    BY <1>7, <1>14 DEF Preserves, g

-----------------------------------------------------------------------------
(* The operations of the class, as compositions of the above *)

\* Nothing happened.
LEMMA PreservesNothing ==
    ASSUME NEW h, HeapInv(h), NEW S
    PROVE  Preserves(h, h, S)
BY DEF Preserves

\* More references may change.
LEMMA PreservesMore ==
    ASSUME NEW h, NEW g, NEW S, NEW T, S \subseteq T, Preserves(h, g, S)
    PROVE  Preserves(h, g, T)
BY DEF Preserves

\* reset() and the destructor.
LEMMA ResetInv ==
    ASSUME NEW h, HeapInv(h), NEW r \in Refs
    PROVE  Preserves(h, Reset(h, r), {r}) /\ Reset(h, r).m_content[r] = Null
BY UnlinkInv, PreservesNothing DEF Reset

\* is_null().
LEMMA CheckNullInv ==
    ASSUME NEW h, HeapInv(h), NEW r \in Refs
    PROVE  Preserves(h, CheckNull(h, r), {r})
BY UnlinkInv, PreservesNothing DEF CheckNull

\* operator=(Ref_any&&).
LEMMA MoveIntoInv ==
    ASSUME NEW h, HeapInv(h), NEW r \in Refs, NEW from \in Refs, r # from
    PROVE  Preserves(h, MoveInto(h, r, from), {r, from})
<1> DEFINE h1 == Reset(h, r)
           h2 == CheckNull(h1, from)
<1>1. Preserves(h, h1, {r}) /\ h1.m_content[r] = Null
    BY ResetInv
<1>2. Preserves(h1, h2, {from})
    BY <1>1, CheckNullInv DEF Preserves
<1> HIDE DEF h1
<1>3. HeapInv(h2) /\ h2.m_content[r] = Null
    BY <1>1, <1>2 DEF Preserves
<1>4. Preserves(h, h2, {r, from})
    BY <1>1, <1>2 DEF Preserves
<1> HIDE DEF h2
<1>5. CASE h2.m_content[from] = Null
    BY <1>4, <1>5 DEF MoveInto, h1, h2
<1>6. CASE h2.m_content[from] # Null
    <2>1. Preserves(h2, Steal(h2, r, from), {r, from})
        BY <1>3, <1>6, StealInv
    <2>2. Preserves(h, Steal(h2, r, from), {r, from})
        BY <1>4, <2>1 DEF Preserves
    <2>3. QED
        BY <1>6, <2>2 DEF MoveInto, h1, h2
<1>7. QED
    BY <1>5, <1>6

\* The constructor on new data: when the lock is refused the buffer has no
\* reference, so that it is deallocated under nobody.
LEMMA CreateInv ==
    ASSUME NEW h, HeapInv(h), NEW r \in Refs, h.m_content[r] = Null, NEW R \in Access,
           NEW c \in FreshContents(h), NEW b \in FreshBuffers(h), NEW a \in Access
    PROVE  Preserves(h, Create(h, r, R, c, b, a), {r})
<1> DEFINE k == NewData(h, c, b, a)
           g == Link(k, r, R, c)
<1>1. /\ Preserves(h, k, {})
      /\ k.m_content = h.m_content
      /\ k.m_buffer[c] = b
      /\ k.m_data[c]
      /\ k.memory[b] = "managed"
      /\ OnBuffer(k, b) = {}
    BY NewDataInv
<1>2. c \in Contents /\ b \in Buffers /\ c # Null
    BY HeapAssumption DEF FreshContents, FreshBuffers
<1> HIDE DEF k
<1>3. HeapInv(k)
    BY <1>1 DEF Preserves
<1>4. Preserves(k, g, {r})
    BY <1>1, <1>2, <1>3, LinkInv
<1>5. Preserves(h, g, {r})
    BY <1>1, <1>4 DEF Preserves
<1>6. CASE g.m_content[r] # Null
    BY <1>5, <1>6 DEF Create, k
<1>7. CASE g.m_content[r] = Null
    <2>1. g = k
        <3>1. CASE Grantable(k, b, R)
            <4>1. k \in Heap
                BY <1>3 DEF HeapInv
            <4>2. g.m_content = [k.m_content EXCEPT ![r] = c]
                BY <1>1, <1>2, <3>1, <4>1, LinkFields
            <4>3. QED
                BY <1>2, <1>7, <4>1, <4>2, HeapFields
        <3>2. CASE ~Grantable(k, b, R)
            BY <1>1, <3>2 DEF Link
        <3>3. QED
            BY <3>1, <3>2
    <2> HIDE DEF g
    <2>2. Preserves(g, [g EXCEPT !.memory[b] = "freed"], {})
        BY <1>1, <1>2, <1>3, <2>1, DeallocateInv
    <2>3. Preserves(h, [g EXCEPT !.memory[b] = "freed"], {r})
        BY <1>5, <2>2 DEF Preserves
    <2>4. QED
        BY <1>7, <2>3 DEF Create, k, g
<1>8. QED
    BY <1>6, <1>7

\* The constructor on new data that may be accessed as the reference wants.
LEMMA CreateLinked ==
    ASSUME NEW h, HeapInv(h), NEW r \in Refs, h.m_content[r] = Null, NEW R \in Access,
           NEW c \in FreshContents(h), NEW b \in FreshBuffers(h), NEW a \in Access, R \subseteq a
    PROVE  LET g == Create(h, r, R, c, b, a)
           IN  /\ HeapInv(g)
               /\ g.m_content[r] = c /\ \A s \in Refs \ {r} : g.m_content[s] = h.m_content[s]
               /\ g.m_buffer[c] = b /\ g.m_data[c] /\ g.memory[b] = "managed"
               /\ g.m_notifications = h.m_notifications
               /\ \A k \in Contents \ {c} :
                     g.m_data[k] = h.m_data[k] /\ g.m_buffer[k] = h.m_buffer[k]
               /\ \A d \in Buffers \ {b} : g.memory[d] = h.memory[d]
<1> DEFINE k == NewData(h, c, b, a)
           g == Link(k, r, R, c)
<1>1. /\ Preserves(h, k, {})
      /\ k.m_content = h.m_content
      /\ k.m_buffer[c] = b
      /\ k.m_data[c]
      /\ k.memory[b] = "managed"
      /\ OnBuffer(k, b) = {}
      /\ k.granted[b] = a
      /\ k.m_notifications = h.m_notifications
      /\ \A e \in Contents \ {c} : k.m_data[e] = h.m_data[e] /\ k.m_buffer[e] = h.m_buffer[e]
      /\ \A d \in Buffers \ {b} : k.memory[d] = h.memory[d]
    BY NewDataInv
<1>2. c \in Contents /\ b \in Buffers /\ c # Null
    BY HeapAssumption DEF FreshContents, FreshBuffers
<1> HIDE DEF k
<1>3. HeapInv(k) /\ k \in Heap
    BY <1>1 DEF Preserves, HeapInv
<1>4. Grantable(k, b, R)
    <2>1. WriteLockers(k, b) = {} /\ ReadLockers(k, b) = {}
        BY <1>1 DEF WriteLockers, ReadLockers
    <2>2. Cardinality(WriteLockers(k, b)) = 0 /\ Cardinality(ReadLockers(k, b)) = 0
        BY <2>1, FS_EmptySet
    <2>3. QED
        BY <1>1, <1>2, <1>3, <2>2 DEF HeapInv, Balanced, Grantable
<1>5. Preserves(k, g, {r})
    BY <1>1, <1>2, <1>3, LinkInv
<1>6. /\ g.m_content = [k.m_content EXCEPT ![r] = c]
      /\ g.m_data = k.m_data /\ g.m_buffer = k.m_buffer /\ g.memory = k.memory
      /\ g.m_notifications = k.m_notifications
    BY <1>1, <1>2, <1>3, <1>4, LinkFields
<1> HIDE DEF g
<1>7. g.m_content[r] = c /\ \A s \in Refs \ {r} : g.m_content[s] = h.m_content[s]
    BY <1>1, <1>3, <1>6, HeapFields
<1>8. g = Create(h, r, R, c, b, a)
    BY <1>2, <1>7 DEF Create, g, k
<1>9. HeapInv(g)
    BY <1>5 DEF Preserves
<1>10. /\ g.m_buffer[c] = b /\ g.m_data[c] /\ g.memory[b] = "managed"
       /\ g.m_notifications = h.m_notifications
       /\ \A e \in Contents \ {c} : g.m_data[e] = h.m_data[e] /\ g.m_buffer[e] = h.m_buffer[e]
       /\ \A d \in Buffers \ {b} : g.memory[d] = h.memory[d]
    BY <1>1, <1>6, Zenon
<1>11. QED
    BY <1>7, <1>8, <1>9, <1>10, Zenon

\* operator[] and dereference().
LEMMA SubReferenceInv ==
    ASSUME NEW h, HeapInv(h), NEW r \in Refs, h.m_content[r] = Null,
           NEW from \in Refs, h.m_content[from] # Null, NEW c \in FreshContents(h)
    PROVE  Preserves(h, SubReference(h, r, from, c), {r})
<1> DEFINE b == BufferOf(h, from)
           k == SubContent(h, c, b)
<1>1. b \in Buffers /\ h.memory[b] \in {"managed", "user"}
    BY LinkedBuffer DEF HeapInv
<1>2. c \in Contents /\ {} \in Access
    BY DEF FreshContents, Access
<1> HIDE DEF b
<1>3. /\ Preserves(h, k, {})
      /\ k.m_content = h.m_content
      /\ k.m_buffer[c] = b
      /\ k.memory = h.memory
    BY <1>1, SubContentInv
<1> HIDE DEF k
<1>4. HeapInv(k)
    BY <1>3 DEF Preserves
<1>5. Preserves(k, Link(k, r, {}, c), {r})
    BY <1>1, <1>2, <1>3, <1>4, LinkInv
<1>6. Preserves(h, Link(k, r, {}, c), {r})
    BY <1>3, <1>5 DEF Preserves
<1>7. QED
    BY <1>6 DEF SubReference, SubContent, k, b

\* copy().
LEMMA CopyOfInv ==
    ASSUME NEW h, HeapInv(h), NEW r \in Refs, h.m_content[r] = Null, NEW from \in Refs,
           NEW c \in FreshContents(h), NEW b \in FreshBuffers(h)
    PROVE  Preserves(h, CopyOf(h, r, from, c, b), {r})
<1>1. {} \in Access /\ {"R", "W"} \in Access
    BY DEF Access
<1>2. Preserves(h, Create(h, r, {}, c, b, {"R", "W"}), {r})
    BY <1>1, CreateInv
<1>3. QED
    BY <1>2, PreservesNothing DEF CopyOf

\* The end of release(): nobody is nullified who was not notified, and the
\* memory is given back.
LEMMA NullifyInv ==
    ASSUME NEW h, HeapInv(h), NEW r \in Refs, h.m_content[r] # Null,
           h.m_notifications[BufferOf(h, r)] = {}
    PROVE  LET g == Nullify(h, r)
           IN  /\ Preserves(h, g, {r})
               /\ g.m_content[r] = Null /\ g.m_buffer = h.m_buffer
               /\ g.memory[BufferOf(h, r)] = "user" /\ ~g.m_data[h.m_content[r]]
               /\ \A d \in Buffers : g.m_notifications[d] \subseteq h.m_notifications[d]
               /\ \A d \in Buffers \ {BufferOf(h, r)} : g.memory[d] = h.memory[d]
               /\ \A e \in Contents \ {h.m_content[r]} : g.m_data[e] = h.m_data[e]
<1> DEFINE b == BufferOf(h, r)
           c == h.m_content[r]
           k == GivenBack(h, c, b)
           g == Unlink(k, r)
<1>1. b \in Buffers /\ c \in Contents /\ h.memory[b] \in {"managed", "user"}
    BY LinkedBuffer DEF HeapInv
<1>2. h.m_buffer[c] = b
    BY DEF BufferOf
<1>3. c # Null /\ h.m_notifications[b] = {}
    OBVIOUS
<1> HIDE DEF b, c
<1>4. /\ Preserves(h, k, {}) /\ k.m_content = h.m_content
      /\ k.m_buffer = h.m_buffer /\ k.m_notifications = h.m_notifications
      /\ k.memory[b] = "user" /\ ~k.m_data[c]
      /\ \A d \in Buffers \ {b} : k.memory[d] = h.memory[d]
      /\ \A e \in Contents \ {c} : k.m_data[e] = h.m_data[e]
    BY <1>1, <1>2, <1>3, GiveBackInv
<1> HIDE DEF k
<1>5. HeapInv(k)
    BY <1>4 DEF Preserves
<1>6. k.m_content[r] # Null
    BY <1>3, <1>4 DEF c
<1>7. /\ Preserves(k, g, {r}) /\ g.m_content[r] = Null
      /\ g.m_data = k.m_data /\ g.m_buffer = k.m_buffer
      /\ \A d \in Buffers : g.m_notifications[d] \subseteq k.m_notifications[d]
      /\ \A d \in Buffers :
            \/ g.memory[d] = k.memory[d]
            \/ k.memory[d] = "managed" /\ g.memory[d] = "freed" /\ OnBuffer(k, d) = {r}
    BY <1>5, <1>6, UnlinkInv
<1> HIDE DEF g
<1>8. Preserves(h, g, {r})
    BY <1>4, <1>7 DEF Preserves
<1>9. r \in OnBuffer(k, b) /\ \A d : r \in OnBuffer(k, d) => d = b
    BY <1>2, <1>4, <1>6 DEF OnBuffer, BufferOf, c
<1>10. g.memory[b] = "user" /\ \A d \in Buffers \ {b} : g.memory[d] = h.memory[d]
    BY <1>1, <1>4, <1>7, <1>9
<1>11. g = Nullify(h, r)
    BY DEF Nullify, GivenBack, g, k, b, c
<1>12. QED
    BY <1>4, <1>7, <1>8, <1>10, <1>11 DEF b, c

\* The heap of a program that starts.
LEMMA EmptyHeapInv == HeapInv(EmptyHeap)
<1>1. EmptyHeap \in Heap
    BY DEF EmptyHeap, Heap, Access, Ownership
<1>2. \A r \in Refs : EmptyHeap.m_content[r] = Null
    BY DEF EmptyHeap
<1>3. \A b \in Buffers : EmptyHeap.memory[b] = "none" /\ EmptyHeap.m_notifications[b] = {}
    BY DEF EmptyHeap
<1>4. \A c \in Contents : EmptyHeap.m_buffer[c] = Null
    BY DEF EmptyHeap
<1>5. Alive(EmptyHeap) /\ Exclusive(EmptyHeap) /\ Granted(EmptyHeap)
    BY <1>2 DEF Alive, Exclusive, Granted
<1>6. Balanced(EmptyHeap) /\ Registered(EmptyHeap)
    BY <1>3 DEF Balanced, Registered
<1>7. Returned(EmptyHeap)
    BY <1>3, <1>4, HeapAssumption DEF Returned
<1>8. QED
    BY <1>1, <1>5, <1>6, <1>7 DEF HeapInv

=============================================================================

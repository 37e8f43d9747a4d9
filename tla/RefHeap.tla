------------------------------ MODULE RefHeap ------------------------------
(***************************************************************************)
(* The objects behind PDI's smart references (pdi/include/pdi/ref_any.h):  *)
(* Ref_any objects point to a Referenced_data ("content"), which lives in  *)
(* a Referenced_buffer ("buffer").  Locks, nullification callbacks and     *)
(* memory ownership belong to the buffer; the data pointer belongs to the  *)
(* content, so that a reference to a member of a record is another content *)
(* of the same buffer.                                                     *)
(*                                                                         *)
(* The module has no variable: a heap h is a record, and each helper of    *)
(* the C++ class is an operator from heaps to heaps, so that a handler     *)
(* that calls several of them is their composition.                        *)
(*                                                                         *)
(* A shared_ptr is modelled by who holds it: a content is alive while a    *)
(* reference is linked to it, a buffer while one is linked to one of its   *)
(* contents.                                                               *)
(***************************************************************************)
EXTENDS Integers, FiniteSets

CONSTANTS
    Refs,      \* the places where a Ref_any object can live
    Contents,  \* the Referenced_data objects that can be created
    Buffers,   \* the Referenced_buffer objects that can be created
    Null       \* the null pointer

ASSUME HeapAssumption ==
    /\ IsFiniteSet(Refs)
    /\ Null \notin Refs
    /\ Null \notin Contents
    /\ Null \notin Buffers

\* The template arguments <R, W> of a Ref_any, and the readable / writable
\* flags given for a new buffer, as the set of the ones that are true.
Access == SUBSET {"R", "W"}

\* Who owns the bytes of a buffer.  "managed": ~Referenced_buffer will run the
\* deallocator; "user": release() replaced the deallocator by a no-op;
\* "freed": the deallocator ran; "none": the buffer was never created.
Ownership == {"none", "managed", "user", "freed"}

Heap ==
    [ m_content       : [Refs -> Contents \cup {Null}],
      rights          : [Refs -> Access],
      m_data          : [Contents -> BOOLEAN],
      m_buffer        : [Contents -> Buffers \cup {Null}],
      m_read_locks    : [Buffers -> Nat],
      m_write_locks   : [Buffers -> Nat],
      m_notifications : [Buffers -> SUBSET Refs],
      granted         : [Buffers -> Access],
      memory          : [Buffers -> Ownership] ]

EmptyHeap ==
    [ m_content       |-> [r \in Refs |-> Null],
      rights          |-> [r \in Refs |-> {}],
      m_data          |-> [c \in Contents |-> FALSE],
      m_buffer        |-> [c \in Contents |-> Null],
      m_read_locks    |-> [b \in Buffers |-> 0],
      m_write_locks   |-> [b \in Buffers |-> 0],
      m_notifications |-> [b \in Buffers |-> {}],
      granted         |-> [b \in Buffers |-> {}],
      memory          |-> [b \in Buffers |-> "none"] ]

-----------------------------------------------------------------------------
(* Reading a heap *)

\* The buffer a non-null reference is linked to.
BufferOf(h, r) == h.m_buffer[h.m_content[r]]

\* The references that keep buffer b alive.
OnBuffer(h, b) == {r \in Refs : h.m_content[r] # Null /\ BufferOf(h, r) = b}

\* What is_null() answers; what it also does is CheckNull below.
IsNull(h, r) == h.m_content[r] = Null \/ ~h.m_data[h.m_content[r]]

\* Reference_base::get_content.
GetContent(h, r) == IF IsNull(h, r) THEN Null ELSE h.m_content[r]

WriteLock(R) == IF R # {} THEN 1 ELSE 0

ReadLock(R) == IF "W" \in R THEN 1 ELSE 0

-----------------------------------------------------------------------------
(* The helpers of Ref_any *)

\* Faulty variants: only a writer is checked against the locks; nobody is.
GrantableToReaders(h, b, R) == "W" \in R => h.m_write_locks[b] = 0

GrantableToAll(h, b, R) == TRUE

\* The test at the start of link(): the lock counters allow the access R.
Grantable(h, b, R) ==
    /\ "R" \in R => h.m_read_locks[b] = 0
    /\ "W" \in R => h.m_write_locks[b] = 0

\* link(): r must be null; it stays null when the access is not granted.
Link(h, r, R, c) ==
    IF c = Null \/ ~h.m_data[c] \/ ~Grantable(h, h.m_buffer[c], R)
    THEN h
    ELSE [h EXCEPT !.m_content[r] = c,
                   !.rights[r] = R,
                   !.m_write_locks[h.m_buffer[c]] = @ + WriteLock(R),
                   !.m_read_locks[h.m_buffer[c]] = @ + ReadLock(R)]

\* unlink(), with ~Referenced_buffer when r was the last reference.
Unlink(h, r) ==
    LET b == BufferOf(h, r)
    IN  [h EXCEPT !.m_content[r] = Null,
                  !.rights[r] = {},
                  !.m_notifications[b] = @ \ {r},
                  !.m_write_locks[b] = @ - WriteLock(h.rights[r]),
                  !.m_read_locks[b] = @ - ReadLock(h.rights[r]),
                  !.memory[b] = IF OnBuffer(h, b) = {r} /\ @ = "managed"
                                THEN "freed" ELSE @]

\* Faulty variant: the pointer is cleared and nothing else.
ResetForgets(h, r) == [h EXCEPT !.m_content[r] = Null, !.rights[r] = {}]

\* reset(), also the whole of the destructor.
Reset(h, r) == IF h.m_content[r] = Null THEN h ELSE Unlink(h, r)

\* Faulty variant: the deallocator runs although release() disarmed it.
CheckNullFrees(h, r) ==
    IF h.m_content[r] # Null /\ IsNull(h, r)
    THEN [Unlink(h, r) EXCEPT !.memory[BufferOf(h, r)] = "freed"] ELSE h

\* is_null() drops the link of a reference whose content was released.
CheckNull(h, r) ==
    IF h.m_content[r] # Null /\ ~h.m_data[h.m_content[r]]
    THEN Unlink(h, r) ELSE h

\* Faulty variant: the callback of the moved-from reference stays registered.
StealKeepsCallback(h, r, from) ==
    [h EXCEPT !.m_content = [@ EXCEPT ![r] = h.m_content[from], ![from] = Null],
              !.rights = [@ EXCEPT ![r] = h.rights[from], ![from] = {}]]

\* What a move does: the link goes from `from' to r with its locks, the
\* nullification callback of `from' is dropped.
Steal(h, r, from) ==
    [h EXCEPT !.m_content = [@ EXCEPT ![r] = h.m_content[from], ![from] = Null],
              !.rights = [@ EXCEPT ![r] = h.rights[from], ![from] = {}],
              !.m_notifications[BufferOf(h, from)] = @ \ {from}]

\* operator=(Ref_any&&).
MoveInto(h, r, from) ==
    LET h1 == CheckNull(Reset(h, r), from)
    IN  IF h1.m_content[from] = Null THEN h1 ELSE Steal(h1, r, from)

\* Referenced_data(data, freefunc, type, readable, writable): a new content c
\* in a new buffer b.
NewData(h, c, b, g) ==
    [h EXCEPT !.m_buffer[c] = b,
              !.m_data[c] = TRUE,
              !.m_read_locks[b] = IF "R" \in g THEN 0 ELSE 1,
              !.m_write_locks[b] = IF "W" \in g THEN 0 ELSE 1,
              !.granted[b] = g,
              !.memory[b] = "managed"]

\* Ref_any(data, freefunc, type, readable, writable): when the link is
\* refused nobody owns the new content and its buffer is deallocated.
Create(h, r, R, c, b, g) ==
    LET h1 == Link(NewData(h, c, b, g), r, R, c)
    IN  IF h1.m_content[r] = Null THEN [h1 EXCEPT !.memory[b] = "freed"] ELSE h1

\* operator[] on a non-null `from': a new content c of the same buffer, and
\* the reference without privileges r to it.
SubReference(h, r, from, c) ==
    Link([h EXCEPT !.m_buffer[c] = BufferOf(h, from), !.m_data[c] = TRUE],
         r, {}, c)

\* do_copy(): the argument is first converted to a Ref_r; a null one has the
\* undefined type, of size 0, and its copy is null.
CopyOf(h, r, from, c, b) ==
    IF GetContent(h, from) # Null /\ Grantable(h, BufferOf(h, from), {"R"})
    THEN Create(h, r, {}, c, b, {"R", "W"})
    ELSE h

\* Faulty variant: the memory is deallocated.
NullifyFrees(h, r) ==
    Unlink([h EXCEPT !.m_data[h.m_content[r]] = FALSE,
                     !.memory[BufferOf(h, r)] = "freed"], r)

\* The end of release(), after the notifications: the content is nullified,
\* the deallocator becomes a no-op and r is unlinked.
Nullify(h, r) ==
    Unlink([h EXCEPT !.m_data[h.m_content[r]] = FALSE,
                     !.memory[BufferOf(h, r)] = "user"], r)

-----------------------------------------------------------------------------
(* What holds of every heap the program can build; RefAny states which parts *)
(* of it are the promises of the class.                                      *)

\* The references of buffer b that take a lock against writers (readers and
\* writers), and against readers (writers).
WriteLockers(h, b) == {r \in OnBuffer(h, b) : h.rights[r] # {}}

ReadLockers(h, b) == {r \in OnBuffer(h, b) : "W" \in h.rights[r]}

Balanced(h) ==
    \A b \in Buffers : h.memory[b] # "none" =>
        /\ h.m_write_locks[b] = Cardinality(WriteLockers(h, b))
                                + (IF "W" \in h.granted[b] THEN 0 ELSE 1)
        /\ h.m_read_locks[b] = Cardinality(ReadLockers(h, b))
                               + (IF "R" \in h.granted[b] THEN 0 ELSE 1)

Exclusive(h) ==
    \A r, s \in Refs :
        /\ r # s
        /\ h.m_content[r] # Null /\ h.m_content[s] # Null
        /\ BufferOf(h, r) = BufferOf(h, s)
        /\ "W" \in h.rights[r]
        => h.rights[s] = {}

Granted(h) ==
    \A r \in Refs : h.m_content[r] # Null
        => h.rights[r] \subseteq h.granted[BufferOf(h, r)]

Alive(h) ==
    \A r \in Refs : h.m_content[r] # Null
        => /\ BufferOf(h, r) \in Buffers
           /\ h.memory[BufferOf(h, r)] \in {"managed", "user"}

Registered(h) ==
    \A b \in Buffers : \A r \in h.m_notifications[b] :
        ~IsNull(h, r) /\ BufferOf(h, r) = b

\* A buffer whose memory was given back has a nullified content; a buffer
\* that was never created has none.
Returned(h) ==
    \A b \in Buffers :
        /\ h.memory[b] = "user" =>
              \E c \in Contents : h.m_buffer[c] = b /\ ~h.m_data[c]
        /\ h.memory[b] = "none" => \A c \in Contents : h.m_buffer[c] # b

HeapInv(h) ==
    /\ h \in Heap
    /\ Alive(h)
    /\ Balanced(h)
    /\ Exclusive(h)
    /\ Granted(h)
    /\ Registered(h)
    /\ Returned(h)

\* Objects that were never created.
FreshContents(h) == {c \in Contents : h.m_buffer[c] = Null}

FreshBuffers(h) == {b \in Buffers : h.memory[b] = "none"}

=============================================================================

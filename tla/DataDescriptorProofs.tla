------------------------ MODULE DataDescriptorProofs ------------------------
(***************************************************************************)
(* Theorems about the data store, for any names, any number of references, *)
(* contents and buffers, and any nesting of calls in callbacks.            *)
(***************************************************************************)
EXTENDS DataDescriptor, RefHeapProofs, SequenceTheorems

-----------------------------------------------------------------------------
(* The heap of the store *)

\* The store registers no nullification callback.
Quiet(h) == \A b \in Buffers : h.m_notifications[b] = {}

\* It makes no sub-reference: a buffer has one content.
Single(h) ==
    \A c, d \in Contents : h.m_buffer[c] = h.m_buffer[d] /\ h.m_buffer[c] # Null => c = d

\* A content is nullified only when the memory is given back.
Nulled(h) ==
    \A c \in Contents : h.m_buffer[c] # Null /\ ~h.m_data[c] => h.memory[h.m_buffer[c]] = "user"

StoreHeap(h) == HeapInv(h) /\ Quiet(h) /\ Single(h) /\ Nulled(h)

-----------------------------------------------------------------------------
(* The inductive invariant *)

TypeOK ==
    /\ m_refs \in [Names -> Seq(Refs)]
    /\ m_metadata \subseteq Names
    /\ calls \in Seq(Frames)
    /\ held \subseteq Refs
    /\ status \in {"ok", "error"}
    /\ owned \subseteq Buffers
    /\ descriptors \subseteq Names
    /\ undefined \in BOOLEAN
    /\ disciplined \in BOOLEAN

\* No place holds two references.
HoldersApart ==
    \A n, m \in Names : \A i \in DOMAIN m_refs[n], j \in DOMAIN m_refs[m] :
        m_refs[n][i] = m_refs[m][j] => n = m /\ i = j

LocalsApart ==
    \A i, j \in DOMAIN calls : calls[i].ref = calls[j].ref => i = j

Apart ==
    /\ HoldersApart /\ LocalsApart
    /\ Holders \cap Locals = {} /\ Holders \cap held = {} /\ Locals \cap held = {}

\* A call that waits for missing data has no reference yet; share(void*) has
\* one to the data it was given, which nobody takes away.
FrameLinked(h, f) ==
    /\ f.pc = "missing" => h.m_content[f.ref] = Null /\ f.op # "share"
    /\ f.op = "share" =>
          /\ h.m_content[f.ref] # Null
          /\ f.buffer \in Buffers
          /\ BufferOf(h, f.ref) = f.buffer

CallsLinked ==
    /\ calls # <<>> => descriptors = Names
    /\ \A i \in DOMAIN calls : FrameLinked(heap, calls[i])

StoreInv == TypeOK /\ StoreHeap(heap) /\ Apart /\ NoStrayReference /\ CallsLinked

-----------------------------------------------------------------------------
(* What the helpers do to the heap of the store *)

\* h becomes g by links and unlinks of the references of S: no data changes,
\* and memory is deallocated only if all references to it are in S.
Touches(h, g, S) ==
    /\ StoreHeap(g)
    /\ g.m_data = h.m_data /\ g.m_buffer = h.m_buffer
    /\ \A r \in Refs \ S : g.m_content[r] = h.m_content[r]
    /\ \A b \in Buffers :
          \/ g.memory[b] = h.memory[b]
          \/ h.memory[b] = "managed" /\ g.memory[b] = "freed" /\ OnBuffer(h, b) \subseteq S

\* Two helpers in a row.
LEMMA TouchesTwice ==
    ASSUME NEW h, NEW g, NEW k, NEW S, NEW T, Touches(h, g, S), Touches(g, k, T)
    PROVE  Touches(h, k, S \cup T)
<1>1. \A b : OnBuffer(h, b) \subseteq S \cup OnBuffer(g, b)
  BY DEF Touches, OnBuffer, BufferOf
<1>2. \A b \in Buffers :
         \/ k.memory[b] = h.memory[b]
         \/ h.memory[b] = "managed" /\ k.memory[b] = "freed" /\ OnBuffer(h, b) \subseteq S \cup T
  BY <1>1 DEF Touches
<1> QED BY <1>2 DEF Touches

\* The content that a reference sees exists, in a buffer that is not freed.
LEMMA SeenContent ==
    ASSUME NEW h, StoreHeap(h), NEW r \in Refs, GetContent(h, r) # Null
    PROVE  /\ GetContent(h, r) = h.m_content[r]
           /\ h.m_content[r] \in Contents /\ h.m_data[h.m_content[r]]
           /\ BufferOf(h, r) \in Buffers
           /\ h.memory[BufferOf(h, r)] \in {"managed", "user"}
<1>1. h.m_content[r] # Null /\ GetContent(h, r) = h.m_content[r] /\ h.m_data[h.m_content[r]]
  BY DEF GetContent, IsNull
<1>2. h \in Heap /\ Alive(h)
  BY DEF StoreHeap, HeapInv
<1> QED BY <1>1, <1>2, LinkedBuffer

\* A reference is linked to what another one sees, if the locks allow it.
LEMMA LinkTouches ==
    ASSUME NEW h, StoreHeap(h), NEW r \in Refs, h.m_content[r] = Null,
           NEW R \in Access, NEW from \in Refs
    PROVE  LET g == Link(h, r, R, GetContent(h, from))
           IN  /\ Touches(h, g, {r})
               /\ g.memory = h.memory
               /\ g.m_content[r] \in {Null, GetContent(h, from)}
               /\ R = {} => g.m_content[r] = GetContent(h, from)
<1> DEFINE c == GetContent(h, from)
           g == Link(h, r, R, c)
<1>1. h \in Heap /\ HeapInv(h)
  BY DEF StoreHeap, HeapInv
<1>2. CASE c = Null \/ ~h.m_data[c] \/ ~Grantable(h, h.m_buffer[c], R)
  <2>1. g = h
    BY <1>2 DEF Link
  <2>2. R = {} => c = Null
    BY <1>2, SeenContent DEF Grantable
  <2> QED BY <2>1, <2>2 DEF Touches
<1>3. CASE c # Null /\ h.m_data[c] /\ Grantable(h, h.m_buffer[c], R)
  <2>1. c \in Contents /\ h.m_buffer[c] \in Buffers /\ h.memory[h.m_buffer[c]] \in {"managed", "user"}
    BY <1>3, SeenContent DEF BufferOf
  <2> HIDE DEF c
  <2>2. /\ g.m_content = [h.m_content EXCEPT ![r] = c]
        /\ g.m_data = h.m_data /\ g.m_buffer = h.m_buffer /\ g.memory = h.memory
        /\ g.m_notifications = h.m_notifications
    BY <1>1, <1>3, <2>1, LinkFields
  <2>3. HeapInv(g)
    BY <1>1, <1>3, <2>1, LinkInv DEF Preserves
  <2> HIDE DEF g
  <2>4. g.m_content[r] = c /\ \A s \in Refs \ {r} : g.m_content[s] = h.m_content[s]
    BY <1>1, <2>2, HeapFields
  <2>5. StoreHeap(g)
    BY <2>2, <2>3 DEF StoreHeap, Quiet, Single, Nulled
  <2> QED BY <2>2, <2>4, <2>5 DEF Touches, g, c
<1> QED BY <1>2, <1>3

\* reset() deallocates the memory that only the reference kept.
LEMMA ResetMemory ==
    ASSUME NEW h, HeapInv(h), NEW r \in Refs
    PROVE  \A b \in Buffers :
              \/ Reset(h, r).memory[b] = h.memory[b]
              \/ /\ h.memory[b] = "managed" /\ Reset(h, r).memory[b] = "freed"
                 /\ OnBuffer(h, b) = {r}
<1>1. CASE h.m_content[r] = Null
  BY <1>1 DEF Reset
<1>2. CASE h.m_content[r] # Null
  <2> DEFINE g == Unlink(h, r)
  <2>1. /\ Preserves(h, g, {r}) /\ g.m_content[r] = Null
        /\ g.m_data = h.m_data /\ g.m_buffer = h.m_buffer
        /\ \A d \in Buffers : g.m_notifications[d] \subseteq h.m_notifications[d]
        /\ \A d \in Buffers :
              \/ g.memory[d] = h.memory[d]
              \/ h.memory[d] = "managed" /\ g.memory[d] = "freed" /\ OnBuffer(h, d) = {r}
    BY <1>2, UnlinkInv
  <2> HIDE DEF g
  <2>2. Reset(h, r) = g
    BY <1>2 DEF Reset, g
  <2> QED BY <2>1, <2>2
<1> QED BY <1>1, <1>2

LEMMA ResetTouches ==
    ASSUME NEW h, StoreHeap(h), NEW r \in Refs
    PROVE  Touches(h, Reset(h, r), {r}) /\ Reset(h, r).m_content[r] = Null
<1> DEFINE g == Reset(h, r)
<1>1. h \in Heap /\ HeapInv(h)
  BY DEF StoreHeap, HeapInv
<1>2. CASE h.m_content[r] = Null
  BY <1>2 DEF Reset, Touches
<1>3. CASE h.m_content[r] # Null
  <2>1. g = Unlink(h, r)
    BY <1>3 DEF Reset
  <2>2. /\ Preserves(h, g, {r}) /\ g.m_content[r] = Null
        /\ g.m_data = h.m_data /\ g.m_buffer = h.m_buffer
        /\ \A d \in Buffers : g.m_notifications[d] \subseteq h.m_notifications[d]
        /\ \A d \in Buffers :
              \/ g.memory[d] = h.memory[d]
              \/ h.memory[d] = "managed" /\ g.memory[d] = "freed" /\ OnBuffer(h, d) = {r}
    BY <1>1, <1>3, <2>1, UnlinkInv
  <2> HIDE DEF g
  <2>3. \A d \in Buffers :
           \/ g.memory[d] = h.memory[d]
           \/ h.memory[d] = "managed" /\ g.memory[d] = "freed" /\ OnBuffer(h, d) \subseteq {r}
    BY <2>2
  <2>4. Quiet(g)
    BY <2>2 DEF StoreHeap, Quiet
  <2>5. Single(g) /\ Nulled(g)
    <3>1. \A d \in Buffers : h.memory[d] = "user" => g.memory[d] = "user"
      BY <2>3
    <3>2. \A c \in Contents : h.m_buffer[c] # Null => h.m_buffer[c] \in Buffers
      BY <1>1, HeapFields
    <3> QED BY <2>2, <3>1, <3>2 DEF StoreHeap, Single, Nulled
  <2> QED BY <2>2, <2>3, <2>4, <2>5 DEF Touches, StoreHeap, Preserves, g
<1> QED BY <1>2, <1>3

\* A reference that is null leads to no memory that PDI could deallocate.
LEMMA ResetNull ==
    ASSUME NEW h, StoreHeap(h), NEW r \in Refs, IsNull(h, r)
    PROVE  \A b \in Buffers : Reset(h, r).memory[b] = h.memory[b]
<1> SUFFICES ASSUME NEW b \in Buffers, Reset(h, r).memory[b] # h.memory[b]
             PROVE  FALSE
  OBVIOUS
<1>1. h \in Heap /\ HeapInv(h)
  BY DEF StoreHeap, HeapInv
<1>2. CASE h.m_content[r] = Null
  BY <1>2 DEF Reset
<1>3. CASE h.m_content[r] # Null
  <2>1. h.memory[b] = "managed" /\ OnBuffer(h, b) = {r}
    BY <1>1, ResetMemory
  <2>2. h.m_content[r] \in Contents /\ h.m_buffer[h.m_content[r]] = b /\ ~h.m_data[h.m_content[r]]
    BY <1>1, <1>3, <2>1, LinkedBuffer DEF OnBuffer, IsNull, BufferOf, HeapInv
  <2> QED BY <2>1, <2>2, HeapAssumption DEF StoreHeap, Nulled
<1> QED BY <1>2, <1>3

\* release(): the content of a reference that is not null is nullified and
\* its memory given back.
GivesBack(h, g, r) ==
    /\ StoreHeap(g)
    /\ g.m_content[r] = Null /\ \A s \in Refs \ {r} : g.m_content[s] = h.m_content[s]
    /\ g.m_buffer = h.m_buffer
    /\ \A c \in Contents : g.m_data[c] = (h.m_data[c] /\ c # GetContent(h, r))
    /\ \A b \in Buffers :
          g.memory[b] = IF ~IsNull(h, r) /\ b = BufferOf(h, r) THEN "user" ELSE h.memory[b]

LEMMA ReleaseRefGivesBack ==
    ASSUME NEW h, StoreHeap(h), NEW r \in Refs
    PROVE  GivesBack(h, ReleaseRef(h, r), r)
<1> DEFINE g == ReleaseRef(h, r)
<1>1. h \in Heap /\ HeapInv(h)
  BY DEF StoreHeap, HeapInv
<1>2. CASE IsNull(h, r)
  <2>1. g = Reset(h, r) /\ GetContent(h, r) = Null
    BY <1>2 DEF ReleaseRef, GetContent
  <2>2. Touches(h, g, {r}) /\ g.m_content[r] = Null
    BY <2>1, ResetTouches
  <2>3. \A b \in Buffers : g.memory[b] = h.memory[b]
    BY <1>2, <2>1, ResetNull
  <2>4. \A c \in Contents : h.m_data[c] \in BOOLEAN /\ c # Null
    BY <1>1, HeapFields, HeapAssumption
  <2> HIDE DEF g
  <2> QED BY <1>2, <2>1, <2>2, <2>3, <2>4 DEF Touches, GivesBack, g
<1>3. CASE ~IsNull(h, r)
  <2> DEFINE b == BufferOf(h, r)
             c == h.m_content[r]
  <2>1. g = Nullify(h, r) /\ c # Null /\ GetContent(h, r) = c
    BY <1>3 DEF ReleaseRef, IsNull, GetContent
  <2>2. b \in Buffers /\ c \in Contents /\ h.m_notifications[b] = {} /\ h.m_buffer[c] = b
    BY <1>1, <2>1, LinkedBuffer DEF StoreHeap, Quiet, HeapInv, BufferOf
  <2>3. /\ Preserves(h, g, {r})
        /\ g.m_content[r] = Null /\ g.m_buffer = h.m_buffer
        /\ g.memory[b] = "user" /\ ~g.m_data[c]
        /\ \A d \in Buffers : g.m_notifications[d] \subseteq h.m_notifications[d]
        /\ \A d \in Buffers \ {b} : g.memory[d] = h.memory[d]
        /\ \A e \in Contents \ {c} : g.m_data[e] = h.m_data[e]
    <3> HIDE DEF g
    <3> QED BY <1>1, <2>1, <2>2, NullifyInv
  <2>4. \A e \in Contents : h.m_data[e] \in BOOLEAN /\ g.m_data[e] \in BOOLEAN
    BY <1>1, <2>3, HeapFields DEF Preserves, HeapInv
  <2> HIDE DEF g, b, c
  <2>5. Quiet(g) /\ Single(g)
    BY <2>3 DEF StoreHeap, Quiet, Single
  <2>6. Nulled(g)
    <3> SUFFICES ASSUME NEW e \in Contents, h.m_buffer[e] # Null, ~g.m_data[e]
                 PROVE  g.memory[h.m_buffer[e]] = "user"
      BY <2>3 DEF Nulled
    <3>1. h.m_buffer[e] \in Buffers
      BY <1>1, HeapFields
    <3>2. CASE e = c
      BY <2>2, <2>3, <3>2
    <3>3. CASE e # c
      BY <2>3, <3>1, <3>3 DEF StoreHeap, Nulled
    <3> QED BY <3>2, <3>3
  <2>7. HeapInv(g) /\ \A s \in Refs \ {r} : g.m_content[s] = h.m_content[s]
    BY <2>3 DEF Preserves
  <2>8. \A e \in Contents : g.m_data[e] = (h.m_data[e] /\ e # GetContent(h, r))
    BY <2>1, <2>3, <2>4 DEF g, c
  <2>9. \A d \in Buffers :
          g.memory[d] = IF ~IsNull(h, r) /\ d = BufferOf(h, r) THEN "user" ELSE h.memory[d]
    BY <1>3, <2>3 DEF b
  <2> QED BY <2>3, <2>5, <2>6, <2>7, <2>8, <2>9 DEF GivesBack, StoreHeap, g
<1> QED BY <1>2, <1>3

\* New data, with a reference to it whose privileges it allows.
Creates(h, g, r, c, b) ==
    /\ StoreHeap(g)
    /\ g.m_content[r] = c /\ \A s \in Refs \ {r} : g.m_content[s] = h.m_content[s]
    /\ g.m_buffer[c] = b /\ g.m_data[c] /\ g.memory[b] = "managed"
    /\ \A e \in Contents \ {c} : g.m_data[e] = h.m_data[e] /\ g.m_buffer[e] = h.m_buffer[e]
    /\ \A d \in Buffers \ {b} : g.memory[d] = h.memory[d]

LEMMA CreateCreates ==
    ASSUME NEW h, StoreHeap(h), NEW r \in Refs, h.m_content[r] = Null, NEW R \in Access,
           NEW c \in FreshContents(h), NEW b \in FreshBuffers(h), NEW a \in Access, R \subseteq a
    PROVE  Creates(h, Create(h, r, R, c, b, a), r, c, b)
<1> DEFINE g == Create(h, r, R, c, b, a)
<1>1. h \in Heap /\ HeapInv(h) /\ Returned(h)
  BY DEF StoreHeap, HeapInv
<1>2. /\ HeapInv(g)
      /\ g.m_content[r] = c /\ \A s \in Refs \ {r} : g.m_content[s] = h.m_content[s]
      /\ g.m_buffer[c] = b /\ g.m_data[c] /\ g.memory[b] = "managed"
      /\ g.m_notifications = h.m_notifications
      /\ \A e \in Contents \ {c} : g.m_data[e] = h.m_data[e] /\ g.m_buffer[e] = h.m_buffer[e]
      /\ \A d \in Buffers \ {b} : g.memory[d] = h.memory[d]
  BY <1>1, CreateLinked
<1>3. c \in Contents /\ b \in Buffers /\ \A e \in Contents : h.m_buffer[e] # b
  BY <1>1 DEF FreshContents, FreshBuffers, Returned
<1> HIDE DEF g
<1>4. Quiet(g)
  BY <1>2 DEF StoreHeap, Quiet
<1>5. Single(g)
  BY <1>2, <1>3 DEF StoreHeap, Single
<1>6. Nulled(g)
  <2> SUFFICES ASSUME NEW e \in Contents, g.m_buffer[e] # Null, ~g.m_data[e]
               PROVE  g.memory[g.m_buffer[e]] = "user"
    BY DEF Nulled
  <2>1. e # c /\ g.m_buffer[e] = h.m_buffer[e] /\ g.m_data[e] = h.m_data[e]
    BY <1>2
  <2>2. h.m_buffer[e] \in Buffers \ {b} /\ h.memory[h.m_buffer[e]] = "user"
    BY <1>1, <1>3, <2>1, HeapFields DEF StoreHeap, Nulled
  <2> QED BY <1>2, <2>1, <2>2
<1> QED BY <1>2, <1>4, <1>5, <1>6 DEF Creates, StoreHeap, g

-----------------------------------------------------------------------------
(* Places *)

LEMMA SomeIn ==
    ASSUME NEW S, S # {}
    PROVE  Some(S) \in S
  BY DEF Some

\* A call finds a place for its reference, and one for a holder.
LEMMA TwoFree ==
    ASSUME MayCall
    PROVE  Some(Free) \in Free /\ \A r : Some(Free \ {r}) \in Free \ {r}
<1>1. Cardinality(Free) >= 2
  BY DEF MayCall
<1>2. Free # {}
  BY <1>1, FS_EmptySet
<1>3. ASSUME NEW r, Free \ {r} = {}
      PROVE  FALSE
  <2>1. Free = {r}
    BY <1>2, <1>3
  <2> QED BY <1>1, <2>1, FS_Singleton
<1> QED BY <1>2, <1>3, SomeIn

\* A free place is none of the others and is null.
LEMMA FreePlace ==
    ASSUME NEW r \in Free
    PROVE  /\ r \in Refs /\ heap.m_content[r] = Null
           /\ r \notin Holders /\ r \notin Locals /\ r \notin held
  BY DEF Free

LEMMA HolderIn ==
    ASSUME TypeOK, NEW n \in Names, NEW i \in DOMAIN m_refs[n]
    PROVE  m_refs[n][i] \in Holders /\ m_refs[n][i] \in Refs
  BY DEF Holders, TypeOK

LEMMA HoldersInRefs ==
    ASSUME TypeOK
    PROVE  Holders \subseteq Refs
  BY DEF Holders, TypeOK

\* The top of a stack.
LEMMA TopHolder ==
    ASSUME TypeOK, NEW n \in Names, m_refs[n] # <<>>
    PROVE  /\ Len(m_refs[n]) \in Nat /\ Len(m_refs[n]) > 0
           /\ DOMAIN m_refs[n] = 1 .. Len(m_refs[n])
           /\ Len(m_refs[n]) \in DOMAIN m_refs[n] /\ 1 \in DOMAIN m_refs[n]
           /\ Last(m_refs[n]) = m_refs[n][Len(m_refs[n])]
           /\ Last(m_refs[n]) \in Holders /\ Last(m_refs[n]) \in Refs
<1>1. /\ Len(m_refs[n]) \in Nat /\ Len(m_refs[n]) > 0
      /\ DOMAIN m_refs[n] = 1 .. Len(m_refs[n])
  BY DEF TypeOK
<1>2. Len(m_refs[n]) \in DOMAIN m_refs[n] /\ 1 \in DOMAIN m_refs[n]
  BY <1>1
<1>3. Last(m_refs[n]) = m_refs[n][Len(m_refs[n])]
  BY DEF Last
<1> QED BY <1>1, <1>2, <1>3, HolderIn

\* Without its top.
LEMMA FrontHolders ==
    ASSUME TypeOK, NEW n \in Names, m_refs[n] # <<>>
    PROVE  /\ Front(m_refs[n]) \in Seq(Refs)
           /\ Len(Front(m_refs[n])) = Len(m_refs[n]) - 1
           /\ DOMAIN Front(m_refs[n]) = 1 .. (Len(m_refs[n]) - 1)
           /\ \A i \in 1 .. (Len(m_refs[n]) - 1) : Front(m_refs[n])[i] = m_refs[n][i]
<1>1. m_refs[n] \in Seq(Refs) /\ Len(m_refs[n]) \in Nat /\ Len(m_refs[n]) > 0
  BY DEF TypeOK
<1>2. Front(m_refs[n]) = SubSeq(m_refs[n], 1, Len(m_refs[n]) - 1)
  BY DEF Front
<1> QED BY <1>1, <1>2

LEMMA PushHolder ==
    ASSUME TypeOK, HoldersApart, NEW n \in Names, NEW k \in Refs \ Holders,
           m_refs' = [m_refs EXCEPT ![n] = Append(@, k)]
    PROVE  /\ m_refs' \in [Names -> Seq(Refs)]
           /\ Holders' = Holders \cup {k}
           /\ HoldersApart'
           /\ Len(m_refs'[n]) = Len(m_refs[n]) + 1
           /\ m_refs'[n][Len(m_refs[n]) + 1] = k
           /\ \A i \in DOMAIN m_refs[n] : m_refs'[n][i] = m_refs[n][i]
           /\ \A m \in Names \ {n} : m_refs'[m] = m_refs[m]
<1> DEFINE l == Len(m_refs[n])
<1>1. m_refs[n] \in Seq(Refs) /\ l \in Nat /\ DOMAIN m_refs[n] = 1 .. l
  BY DEF TypeOK
<1>2. m_refs'[n] = Append(m_refs[n], k) /\ \A m \in Names \ {n} : m_refs'[m] = m_refs[m]
  BY DEF TypeOK
<1>3. /\ m_refs'[n] \in Seq(Refs) /\ Len(m_refs'[n]) = l + 1 /\ DOMAIN m_refs'[n] = 1 .. (l + 1)
      /\ m_refs'[n][l + 1] = k
      /\ \A i \in 1 .. l : m_refs'[n][i] = m_refs[n][i]
  BY <1>1, <1>2
<1> HIDE DEF l
<1>4. m_refs' \in [Names -> Seq(Refs)]
  BY <1>2, <1>3 DEF TypeOK
<1>5. Holders' = Holders \cup {k}
  <2>1. \A m \in Names : \A i \in DOMAIN m_refs[m] : i \in DOMAIN m_refs'[m] /\ m_refs'[m][i] = m_refs[m][i]
    BY <1>1, <1>2, <1>3
  <2>2. \A m \in Names : \A i \in DOMAIN m_refs'[m] :
           i \in DOMAIN m_refs[m] \/ (m = n /\ i = l + 1 /\ m_refs'[m][i] = k)
    BY <1>1, <1>2, <1>3
  <2>3. l + 1 \in DOMAIN m_refs'[n]
    BY <1>1, <1>3
  <2> QED BY <1>3, <2>1, <2>2, <2>3 DEF Holders
<1>6. HoldersApart'
  <2> SUFFICES ASSUME NEW m \in Names, NEW p \in Names,
                      NEW i \in DOMAIN m_refs'[m], NEW j \in DOMAIN m_refs'[p],
                      m_refs'[m][i] = m_refs'[p][j]
               PROVE  m = p /\ i = j
    BY DEF HoldersApart
  <2>1. \A q \in Names : \A x \in DOMAIN m_refs'[q] :
           \/ x \in DOMAIN m_refs[q] /\ m_refs'[q][x] = m_refs[q][x]
           \/ q = n /\ x = l + 1 /\ m_refs'[q][x] = k
    BY <1>1, <1>2, <1>3
  <2>2. \A q \in Names : \A x \in DOMAIN m_refs[q] : m_refs[q][x] # k
    BY HolderIn
  <2> QED BY <2>1, <2>2 DEF HoldersApart
<1> QED BY <1>1, <1>2, <1>3, <1>4, <1>5, <1>6 DEF l

LEMMA PopHolder ==
    ASSUME TypeOK, HoldersApart, NEW n \in Names, m_refs[n] # <<>>,
           m_refs' = [m_refs EXCEPT ![n] = Front(m_refs[n])]
    PROVE  /\ m_refs' \in [Names -> Seq(Refs)]
           /\ Holders' = Holders \ {Last(m_refs[n])}
           /\ HoldersApart'
           /\ m_refs'[n] = Front(m_refs[n])
           /\ \A m \in Names \ {n} : m_refs'[m] = m_refs[m]
<1> DEFINE l == Len(m_refs[n])
           t == Last(m_refs[n])
<1>1. m_refs'[n] = Front(m_refs[n]) /\ \A m \in Names \ {n} : m_refs'[m] = m_refs[m]
  BY DEF TypeOK
<1>2. l \in Nat /\ l > 0 /\ DOMAIN m_refs[n] = 1 .. l /\ l \in DOMAIN m_refs[n] /\ t = m_refs[n][l]
  BY TopHolder
<1>3. /\ m_refs'[n] \in Seq(Refs) /\ DOMAIN m_refs'[n] = 1 .. (l - 1)
      /\ \A i \in 1 .. (l - 1) : m_refs'[n][i] = m_refs[n][i]
  BY <1>1, FrontHolders
<1> HIDE DEF l, t
<1>4. m_refs' \in [Names -> Seq(Refs)]
  BY <1>1, <1>3 DEF TypeOK
<1>5. \A m \in Names : \A i \in DOMAIN m_refs'[m] :
         i \in DOMAIN m_refs[m] /\ m_refs'[m][i] = m_refs[m][i] /\ (m = n => i # l)
  BY <1>1, <1>2, <1>3
<1>6. HoldersApart'
  BY <1>5 DEF HoldersApart
<1>7. Holders' = Holders \ {t}
  <2>1. \A m \in Names : \A i \in DOMAIN m_refs[m] :
           \/ m = n /\ i = l
           \/ i \in DOMAIN m_refs'[m] /\ m_refs'[m][i] = m_refs[m][i]
    BY <1>1, <1>2, <1>3
  <2>2. \A m \in Names : \A i \in DOMAIN m_refs'[m] : m_refs[m][i] # t
    BY <1>2, <1>5 DEF HoldersApart
  <2> QED BY <1>2, <1>5, <2>1, <2>2 DEF Holders
<1> QED BY <1>1, <1>4, <1>6, <1>7 DEF t

LEMMA ClearHolders ==
    ASSUME TypeOK, HoldersApart, NEW n \in Names, m_refs' = [m_refs EXCEPT ![n] = <<>>]
    PROVE  /\ m_refs' \in [Names -> Seq(Refs)]
           /\ Holders' = Holders \ {m_refs[n][i] : i \in DOMAIN m_refs[n]}
           /\ HoldersApart'
           /\ m_refs'[n] = <<>>
           /\ \A m \in Names \ {n} : m_refs'[m] = m_refs[m]
<1>1. m_refs'[n] = <<>> /\ \A m \in Names \ {n} : m_refs'[m] = m_refs[m]
  BY DEF TypeOK
<1>2. m_refs' \in [Names -> Seq(Refs)]
  BY <1>1 DEF TypeOK
<1>3. \A m \in Names : \A i \in DOMAIN m_refs'[m] : m # n
  BY <1>1
<1>4. HoldersApart'
  BY <1>1, <1>3 DEF HoldersApart
<1>5. Holders' = Holders \ {m_refs[n][i] : i \in DOMAIN m_refs[n]}
  BY <1>1, <1>3 DEF Holders, HoldersApart
<1> QED BY <1>1, <1>2, <1>4, <1>5

LEMMA CurrentCall ==
    ASSUME TypeOK, calls # <<>>
    PROVE  /\ Len(calls) \in Nat /\ Len(calls) > 0 /\ DOMAIN calls = 1 .. Len(calls)
           /\ Len(calls) \in DOMAIN calls
           /\ Current = calls[Len(calls)] /\ Current \in Frames
           /\ Current.ref \in Locals /\ Current.ref \in Refs /\ Current.name \in Names
           /\ Current.rights \in Access
<1>0. calls \in Seq(Frames)
  BY DEF TypeOK
<1>1. Len(calls) \in Nat /\ Len(calls) > 0 /\ DOMAIN calls = 1 .. Len(calls)
  BY <1>0
<1>2. Len(calls) \in DOMAIN calls
  BY <1>1
<1>3. Current = calls[Len(calls)] /\ Current \in Frames
  BY <1>0, <1>2 DEF Current, Last
<1>4. Current.ref \in Locals
  BY <1>2, <1>3 DEF Locals
<1> QED BY <1>1, <1>2, <1>3, <1>4 DEF Frames

LEMMA LocalsInRefs ==
    ASSUME TypeOK
    PROVE  Locals \subseteq Refs
<1>1. calls \in Seq(Frames)
  BY DEF TypeOK
<1>2. \A i \in DOMAIN calls : calls[i] \in Frames
  BY <1>1
<1>3. \A i \in DOMAIN calls : calls[i].ref \in Refs
  BY <1>2 DEF Frames
<1> QED BY <1>3 DEF Locals

LEMMA PushCall ==
    ASSUME TypeOK, LocalsApart, NEW f \in Frames, f.ref \notin Locals,
           calls' = Append(calls, f)
    PROVE  /\ calls' \in Seq(Frames) /\ calls' # <<>>
           /\ Locals' = Locals \cup {f.ref} /\ LocalsApart'
           /\ Len(calls') = Len(calls) + 1 /\ calls'[Len(calls) + 1] = f
           /\ DOMAIN calls = 1 .. Len(calls) /\ Len(calls) \in Nat
           /\ DOMAIN calls' = 1 .. (Len(calls) + 1)
           /\ \A i \in DOMAIN calls : calls'[i] = calls[i]
<1> DEFINE l == Len(calls)
<1>1. /\ calls \in Seq(Frames) /\ l \in Nat /\ DOMAIN calls = 1 .. l
      /\ calls' \in Seq(Frames) /\ calls' # <<>> /\ Len(calls') = l + 1 /\ calls'[l + 1] = f
      /\ DOMAIN calls' = 1 .. (l + 1)
      /\ \A i \in 1 .. l : calls'[i] = calls[i]
  BY DEF TypeOK
<1> HIDE DEF l
<1>2. Locals' = Locals \cup {f.ref}
  <2>1. \A i \in DOMAIN calls : i \in DOMAIN calls' /\ calls'[i] = calls[i]
    BY <1>1
  <2>2. \A i \in DOMAIN calls' : i \in DOMAIN calls \/ (i = l + 1 /\ calls'[i] = f)
    BY <1>1
  <2>3. l + 1 \in DOMAIN calls'
    BY <1>1
  <2> QED BY <1>1, <2>1, <2>2, <2>3 DEF Locals
<1>3. LocalsApart'
  <2>1. \A i \in DOMAIN calls' :
           \/ i \in DOMAIN calls /\ calls'[i] = calls[i] /\ calls[i].ref # f.ref
           \/ i = l + 1 /\ calls'[i] = f
    BY <1>1 DEF Locals
  <2> QED BY <2>1 DEF LocalsApart
<1> QED BY <1>1, <1>2, <1>3 DEF l

LEMMA PopCall ==
    ASSUME TypeOK, LocalsApart, calls # <<>>, calls' = Front(calls)
    PROVE  /\ calls' \in Seq(Frames)
           /\ Locals' = Locals \ {Current.ref} /\ LocalsApart'
           /\ Len(calls') = Len(calls) - 1
           /\ DOMAIN calls' = 1 .. (Len(calls) - 1)
           /\ \A i \in DOMAIN calls' : i \in DOMAIN calls /\ calls'[i] = calls[i]
<1> DEFINE l == Len(calls)
<1>1. /\ l \in Nat /\ l > 0 /\ DOMAIN calls = 1 .. l /\ Current = calls[l]
  BY CurrentCall
<1>2. calls' = SubSeq(calls, 1, l - 1)
  BY DEF Front
<1>3. /\ calls' \in Seq(Frames) /\ Len(calls') = l - 1 /\ DOMAIN calls' = 1 .. (l - 1)
      /\ \A i \in DOMAIN calls' : calls'[i] = calls[i]
  BY <1>1, <1>2 DEF TypeOK
<1> HIDE DEF l
<1>4. \A i \in DOMAIN calls' : i \in DOMAIN calls /\ calls'[i] = calls[i] /\ i # l
  BY <1>1, <1>3
<1>5. LocalsApart'
  BY <1>4 DEF LocalsApart
<1>6. Locals' = Locals \ {Current.ref}
  <2>1. \A i \in DOMAIN calls : i = l \/ i \in DOMAIN calls'
    BY <1>1, <1>3
  <2>2. \A i \in DOMAIN calls' : calls[i].ref # Current.ref
    BY <1>1, <1>4 DEF LocalsApart
  <2> QED BY <1>1, <1>4, <2>1, <2>2 DEF Locals
<1> QED BY <1>3, <1>4, <1>5, <1>6 DEF l

\* The current call waits for something else.
LEMMA ReplaceCall ==
    ASSUME TypeOK, LocalsApart, calls # <<>>, NEW f \in Frames, f.ref = Current.ref,
           calls' = Append(Front(calls), f)
    PROVE  /\ calls' \in Seq(Frames) /\ calls' # <<>>
           /\ Locals' = Locals /\ LocalsApart'
           /\ Len(calls') = Len(calls) /\ DOMAIN calls' = DOMAIN calls
           /\ calls'[Len(calls)] = f
           /\ \A i \in DOMAIN calls \ {Len(calls)} : calls'[i] = calls[i]
<1> DEFINE l == Len(calls)
<1>1. /\ l \in Nat /\ l > 0 /\ DOMAIN calls = 1 .. l /\ Current = calls[l]
  BY CurrentCall
<1>2. Front(calls) = SubSeq(calls, 1, l - 1)
  BY DEF Front
<1>3. /\ Front(calls) \in Seq(Frames) /\ Len(Front(calls)) = l - 1
      /\ \A i \in 1 .. (l - 1) : Front(calls)[i] = calls[i]
  BY <1>1, <1>2 DEF TypeOK
<1> HIDE DEF l
<1>4. /\ calls' \in Seq(Frames) /\ Len(calls') = l /\ DOMAIN calls' = 1 .. l
      /\ calls'[l] = f
      /\ \A i \in 1 .. (l - 1) : calls'[i] = calls[i]
  BY <1>1, <1>3
<1>5. \A i \in DOMAIN calls \ {l} : calls'[i] = calls[i]
  BY <1>1, <1>4
<1>6. \A i \in DOMAIN calls : calls'[i].ref = calls[i].ref
  BY <1>1, <1>4, <1>5
<1>7. LocalsApart' /\ Locals' = Locals
  BY <1>1, <1>4, <1>6 DEF LocalsApart, Locals
<1>8. calls' # <<>>
  BY <1>1, <1>4
<1> QED BY <1>1, <1>4, <1>5, <1>7, <1>8, Zenon DEF l

-----------------------------------------------------------------------------
(* Steps that keep the invariant of the store *)

\* Outside of S the references lead to the same buffers.
SameLinks(h, g, S) ==
    \A r \in Refs \ S :
        /\ g.m_content[r] = h.m_content[r]
        /\ h.m_content[r] # Null => BufferOf(g, r) = BufferOf(h, r)

LEMMA TouchesSame ==
    ASSUME NEW h, NEW g, NEW S, Touches(h, g, S)
    PROVE  SameLinks(h, g, S) /\ StoreHeap(g)
  BY DEF Touches, SameLinks, BufferOf

LEMMA GivesBackSame ==
    ASSUME NEW h, NEW g, NEW r, GivesBack(h, g, r)
    PROVE  SameLinks(h, g, {r}) /\ StoreHeap(g) /\ g.m_content[r] = Null
  BY DEF GivesBack, SameLinks, BufferOf

LEMMA CreatesSame ==
    ASSUME NEW h, StoreHeap(h), NEW g, NEW r, NEW c \in FreshContents(h), NEW b, Creates(h, g, r, c, b)
    PROVE  SameLinks(h, g, {r}) /\ StoreHeap(g)
<1>1. \A s \in Refs : h.m_content[s] # c /\ h.m_content[s] \in Contents \cup {Null}
  BY FreshUnlinked, HeapFields DEF StoreHeap, HeapInv
<1> QED BY <1>1 DEF Creates, SameLinks, BufferOf

LEMMA SameTwice ==
    ASSUME NEW h, NEW g, NEW k, NEW S, NEW T, SameLinks(h, g, S), SameLinks(g, k, T)
    PROVE  SameLinks(h, k, S \cup T)
  BY DEF SameLinks

\* The other calls keep their references.
LEMMA FramesKept ==
    ASSUME StoreInv, NEW g, NEW S, SameLinks(heap, g, S)
    PROVE  \A i \in DOMAIN calls : calls[i].ref \notin S => FrameLinked(g, calls[i])
<1>1. \A i \in DOMAIN calls : calls[i].ref \in Refs
  BY LocalsInRefs DEF Locals, StoreInv
<1> QED BY <1>1 DEF StoreInv, CallsLinked, FrameLinked, SameLinks

\* The innermost call returns, having dropped its reference and the holders
\* that it popped.
LEMMA ReturnInv ==
    ASSUME StoreInv, calls # <<>>, calls' = Front(calls),
           NEW S, S \subseteq Holders \cup {Current.ref},
           StoreHeap(heap'), SameLinks(heap, heap', S), heap'.m_content[Current.ref] = Null,
           m_refs' \in [Names -> Seq(Refs)], HoldersApart', Holders' \subseteq Holders,
           \A r \in Holders \ Holders' : heap'.m_content[r] = Null,
           status' \in {"ok", "error"}, owned' \subseteq Buffers, undefined' \in BOOLEAN,
           UNCHANGED <<m_metadata, held, descriptors, disciplined>>
    PROVE  StoreInv'
<1>1. TypeOK /\ Apart /\ NoStrayReference /\ CallsLinked
  BY DEF StoreInv
<1>2. /\ calls' \in Seq(Frames)
      /\ Locals' = Locals \ {Current.ref} /\ LocalsApart'
      /\ \A i \in DOMAIN calls' : i \in DOMAIN calls /\ calls'[i] = calls[i]
  BY <1>1, PopCall DEF Apart
<1>3. TypeOK'
  BY <1>1, <1>2 DEF TypeOK
<1>4. Apart'
  BY <1>1, <1>2 DEF Apart
<1>5. Current.ref \in Locals /\ descriptors = Names
  BY <1>1, CurrentCall DEF CallsLinked
<1>6. CallsLinked'
  <2>1. \A i \in DOMAIN calls' : calls[i].ref \notin S
    <3>1. \A i \in DOMAIN calls' : calls[i].ref \in Locals \ {Current.ref}
      BY <1>2 DEF Locals
    <3> QED BY <1>1, <3>1 DEF Apart
  <2>2. \A i \in DOMAIN calls' : FrameLinked(heap', calls'[i])
    BY <1>2, <2>1, FramesKept
  <2> QED BY <1>5, <2>2 DEF CallsLinked
<1>7. NoStrayReference'
  <2> SUFFICES ASSUME NEW r \in Refs, heap'.m_content[r] # Null
               PROVE  r \in Holders' \cup Locals' \cup held
    BY DEF NoStrayReference
  <2>1. r # Current.ref /\ (r \in Holders => r \in Holders')
    OBVIOUS
  <2>2. CASE r \in S
    BY <2>1, <2>2
  <2>3. CASE r \notin S
    BY <1>1, <1>2, <1>5, <2>1, <2>3 DEF NoStrayReference, SameLinks
  <2> QED BY <2>2, <2>3
<1> QED BY <1>3, <1>4, <1>6, <1>7 DEF StoreInv

\* A call goes on or begins, and waits for its callbacks as f says; it may
\* have pushed a holder.
LEMMA WaitInv ==
    ASSUME StoreInv, NEW f \in Frames, NEW K,
           \/ f.ref \in Free /\ descriptors = Names /\ calls' = Append(calls, f)
           \/ calls # <<>> /\ f.ref = Current.ref /\ calls' = Append(Front(calls), f),
           StoreHeap(heap'), SameLinks(heap, heap', {f.ref} \cup K), FrameLinked(heap', f),
           K \subseteq Free \ {f.ref},
           m_refs' \in [Names -> Seq(Refs)], HoldersApart', Holders' = Holders \cup K,
           UNCHANGED <<m_metadata, held, status, owned, descriptors, undefined, disciplined>>
    PROVE  StoreInv'
<1>1. TypeOK /\ Apart /\ NoStrayReference /\ CallsLinked
  BY DEF StoreInv
<1>2. K \cap (Holders \cup Locals \cup held) = {} /\ K \subseteq Refs
  BY FreePlace
<1>3. /\ calls' \in Seq(Frames) /\ calls' # <<>>
      /\ Locals' = Locals \cup {f.ref} /\ LocalsApart'
      /\ descriptors = Names
      /\ f.ref \notin Holders /\ f.ref \notin held
      /\ \A i \in DOMAIN calls' :
            \/ calls'[i] = f
            \/ i \in DOMAIN calls /\ calls'[i] = calls[i] /\ calls[i].ref # f.ref
  <2>1. CASE f.ref \in Free /\ descriptors = Names /\ calls' = Append(calls, f)
    <3>1. f.ref \notin Holders /\ f.ref \notin held /\ f.ref \notin Locals
      BY <2>1, FreePlace
    <3>2. /\ calls' \in Seq(Frames) /\ calls' # <<>>
          /\ Locals' = Locals \cup {f.ref} /\ LocalsApart'
          /\ Len(calls') = Len(calls) + 1 /\ calls'[Len(calls) + 1] = f
          /\ DOMAIN calls = 1 .. Len(calls) /\ Len(calls) \in Nat
          /\ DOMAIN calls' = 1 .. (Len(calls) + 1)
          /\ \A i \in DOMAIN calls : calls'[i] = calls[i]
      BY <1>1, <2>1, <3>1, PushCall DEF Apart
    <3>3. \A i \in DOMAIN calls' : i = Len(calls) + 1 \/ i \in DOMAIN calls
      BY <3>2
    <3>4. \A i \in DOMAIN calls : calls[i].ref # f.ref
      BY <3>1, Zenon DEF Locals
    <3> QED BY <2>1, <3>1, <3>2, <3>3, <3>4
  <2>2. CASE calls # <<>> /\ f.ref = Current.ref /\ calls' = Append(Front(calls), f)
    <3>1. /\ calls' \in Seq(Frames) /\ calls' # <<>>
          /\ Locals' = Locals /\ LocalsApart'
          /\ Len(calls') = Len(calls) /\ DOMAIN calls' = DOMAIN calls
          /\ calls'[Len(calls)] = f
          /\ \A i \in DOMAIN calls \ {Len(calls)} : calls'[i] = calls[i]
      BY <1>1, <2>2, ReplaceCall DEF Apart
    <3>2. /\ f.ref \in Locals /\ Len(calls) \in DOMAIN calls /\ f.ref = calls[Len(calls)].ref
          /\ descriptors = Names
      BY <1>1, <2>2, CurrentCall DEF CallsLinked
    <3>3. \A i \in DOMAIN calls \ {Len(calls)} : calls[i].ref # f.ref
      BY <1>1, <3>2 DEF Apart, LocalsApart
    <3>4. f.ref \notin Holders /\ f.ref \notin held
      BY <1>1, <3>2 DEF Apart
    <3> QED BY <3>1, <3>2, <3>3, <3>4, Zenon
  <2> QED BY <2>1, <2>2
<1>4. TypeOK'
  BY <1>1, <1>3 DEF TypeOK
<1>5. Apart'
  BY <1>1, <1>2, <1>3 DEF Apart
<1>6. CallsLinked'
  <2>1. \A i \in DOMAIN calls : calls[i].ref \notin K
    BY <1>2 DEF Locals
  <2>2. \A i \in DOMAIN calls : calls[i].ref # f.ref => FrameLinked(heap', calls[i])
    BY <2>1, FramesKept
  <2> QED BY <1>3, <2>2 DEF CallsLinked
<1>7. NoStrayReference'
  BY <1>1, <1>3 DEF NoStrayReference, SameLinks
<1> QED BY <1>4, <1>5, <1>6, <1>7 DEF StoreInv

\* The places of a removal: the local reference of the call, the holder on top.
LEMMA RemovalPlaces ==
    ASSUME StoreInv, calls # <<>>, m_refs[Current.name] # <<>>
    PROVE  /\ Current.ref \in Refs /\ Last(m_refs[Current.name]) \in Refs
           /\ Current.name \in Names
           /\ Last(m_refs[Current.name]) \in Holders /\ m_refs[Current.name][1] \in Holders
           /\ m_refs[Current.name][1] \in Refs
           /\ Current.ref \notin Holders
           /\ Len(m_refs[Current.name]) = 2 =>
                 /\ m_refs[Current.name][1] # Last(m_refs[Current.name])
                 /\ {m_refs[Current.name][i] : i \in DOMAIN m_refs[Current.name]}
                       = {m_refs[Current.name][1], Last(m_refs[Current.name])}
<1>1. TypeOK /\ Apart
  BY DEF StoreInv
<1>2. Current.ref \in Refs /\ Current.ref \in Locals /\ Current.name \in Names
  BY <1>1, CurrentCall
<1> DEFINE n == Current.name
<1>3. /\ DOMAIN m_refs[n] = 1 .. Len(m_refs[n]) /\ Last(m_refs[n]) = m_refs[n][Len(m_refs[n])]
      /\ Len(m_refs[n]) \in DOMAIN m_refs[n] /\ 1 \in DOMAIN m_refs[n]
      /\ Last(m_refs[n]) \in Holders /\ Last(m_refs[n]) \in Refs
  BY <1>1, <1>2, TopHolder
<1>4. m_refs[n][1] \in Holders /\ m_refs[n][1] \in Refs
  BY <1>1, <1>2, <1>3, HolderIn
<1>5. Len(m_refs[n]) = 2 =>
         /\ m_refs[n][1] # Last(m_refs[n])
         /\ {m_refs[n][i] : i \in DOMAIN m_refs[n]} = {m_refs[n][1], Last(m_refs[n])}
  <2> SUFFICES ASSUME Len(m_refs[n]) = 2
               PROVE  /\ m_refs[n][1] # Last(m_refs[n])
                      /\ {m_refs[n][i] : i \in DOMAIN m_refs[n]} = {m_refs[n][1], Last(m_refs[n])}
    OBVIOUS
  <2>1. DOMAIN m_refs[n] = {1, 2} /\ Last(m_refs[n]) = m_refs[n][2]
    BY <1>3
  <2>2. m_refs[n][1] # m_refs[n][2]
    BY <1>1, <1>2, <2>1 DEF Apart, HoldersApart
  <2> QED BY <2>1, <2>2
<1> QED BY <1>1, <1>2, <1>3, <1>4, <1>5 DEF Apart

LEMMA SameSeen ==
    ASSUME NEW h, NEW g, g.m_data = h.m_data, NEW r, g.m_content[r] = h.m_content[r]
    PROVE  GetContent(g, r) = GetContent(h, r) /\ IsNull(g, r) = IsNull(h, r)
  BY DEF GetContent, IsNull

LEMMA PoppedTouches ==
    ASSUME StoreInv, calls # <<>>, m_refs[Current.name] # <<>>
    PROVE  /\ Touches(heap, Popped, {Current.ref, Last(m_refs[Current.name])})
           /\ Popped.m_content[Last(m_refs[Current.name])] = Null
           /\ Popped.m_content[Current.ref] = GetContent(heap, Last(m_refs[Current.name]))
<1> DEFINE r == Current.ref
           t == Last(m_refs[Current.name])
           h == Reset(heap, r)
           g == RefTo(h, r, t)
<1>1. r \in Refs /\ t \in Refs /\ r # t
  BY RemovalPlaces
<1>2. StoreHeap(heap)
  BY DEF StoreInv
<1>p. Popped = Reset(g, t)
  BY DEF Popped
<1>g. g = Link(h, r, {}, GetContent(h, t))
  BY DEF RefTo
<1> HIDE DEF r, t
<1>3. Touches(heap, h, {r}) /\ h.m_content[r] = Null
  BY <1>1, <1>2, ResetTouches
<1> HIDE DEF h
<1>4. GetContent(h, t) = GetContent(heap, t)
  BY <1>1, <1>3, SameSeen DEF Touches
<1>5. Touches(h, g, {r}) /\ g.m_content[r] = GetContent(h, t)
  <2>1. StoreHeap(h) /\ {} \in Access
    BY <1>3 DEF Touches, Access
  <2> HIDE DEF g
  <2> QED BY <1>1, <1>3, <1>g, <2>1, LinkTouches
<1> HIDE DEF g
<1>6. Touches(g, Popped, {t}) /\ Popped.m_content[t] = Null
  BY <1>1, <1>5, <1>p, ResetTouches DEF Touches
<1>7. Touches(heap, Popped, {r, t})
  <2>1. Touches(heap, g, {r} \cup {r})
    BY <1>3, <1>5, TouchesTwice
  <2>2. Touches(heap, Popped, ({r} \cup {r}) \cup {t})
    BY <1>6, <2>1, TouchesTwice
  <2>3. ({r} \cup {r}) \cup {t} = {r, t}
    OBVIOUS
  <2> QED BY <2>2, <2>3
<1>8. Popped.m_content[r] = GetContent(heap, t)
  BY <1>1, <1>4, <1>5, <1>6 DEF Touches
<1> QED BY <1>6, <1>7, <1>8 DEF r, t

-----------------------------------------------------------------------------
(* What the ends of the calls do to the heap *)

Top(n) == Last(m_refs[n])

Bottom(n) == m_refs[n][1]

\* The references that the current removal unlinks.
Unlinked == {Current.ref, Top(Current.name)} \cup (IF Replaces THEN {Bottom(Current.name)} ELSE {})

\* The heap once the holders are popped.
Bare == IF Replaces THEN Reset(Popped, Bottom(Current.name)) ELSE Popped

LEMMA BareTouches ==
    ASSUME StoreInv, calls # <<>>, m_refs[Current.name] # <<>>
    PROVE  /\ Touches(heap, Bare, Unlinked)
           /\ Bare.m_content[Top(Current.name)] = Null
           /\ Replaces => Bare.m_content[Bottom(Current.name)] = Null
           /\ Bare.m_content[Current.ref] = GetContent(heap, Top(Current.name))
           /\ GetContent(Bare, Current.ref) = Bare.m_content[Current.ref]
           /\ GetContent(Popped, Current.ref) = Bare.m_content[Current.ref]
<1> DEFINE r == Current.ref
           t == Top(Current.name)
           u == Bottom(Current.name)
<1>1. Touches(heap, Popped, {r, t}) /\ Popped.m_content[t] = Null /\ Popped.m_content[r] = GetContent(heap, t)
  BY PoppedTouches DEF Top
<1>2. r \in Refs /\ t \in Refs /\ r # t /\ (Replaces => u \in Refs /\ u # t /\ u # r)
  BY RemovalPlaces DEF Top, Bottom, Replaces
<1> HIDE DEF r, t, u
<1>3. /\ Touches(heap, Bare, {r, t} \cup (IF Replaces THEN {u} ELSE {}))
      /\ Bare.m_content[t] = Null /\ (Replaces => Bare.m_content[u] = Null)
      /\ Bare.m_content[r] = GetContent(heap, t)
      /\ Bare.m_data = heap.m_data /\ Popped.m_data = heap.m_data
  <2>1. CASE Replaces
    <3>1. Bare = Reset(Popped, u)
      BY <2>1 DEF Bare, u
    <3>2. Touches(Popped, Bare, {u}) /\ Bare.m_content[u] = Null
      <4>1. StoreHeap(Popped)
        BY <1>1 DEF Touches
      <4> QED BY <1>2, <2>1, <3>1, <4>1, ResetTouches
    <3>3. Touches(heap, Bare, {r, t} \cup {u})
      BY <1>1, <3>2, TouchesTwice
    <3>4. Bare.m_content[r] = Popped.m_content[r] /\ Bare.m_content[t] = Popped.m_content[t]
      BY <1>2, <2>1, <3>2 DEF Touches
    <3>5. Bare.m_data = heap.m_data /\ Popped.m_data = heap.m_data
      BY <1>1, <3>3 DEF Touches
    <3> QED BY <1>1, <2>1, <3>2, <3>3, <3>4, <3>5
  <2>2. CASE ~Replaces
    <3>1. Bare = Popped /\ {r, t} \cup {} = {r, t}
      BY <2>2 DEF Bare
    <3>2. Popped.m_data = heap.m_data
      BY <1>1 DEF Touches
    <3> QED BY <1>1, <2>2, <3>1, <3>2
  <2> QED BY <2>1, <2>2
<1>4. GetContent(heap, t) # Null => heap.m_data[GetContent(heap, t)]
  BY DEF GetContent, IsNull
<1>5. GetContent(Bare, r) = Bare.m_content[r] /\ GetContent(Popped, r) = Bare.m_content[r]
  BY <1>1, <1>3, <1>4 DEF GetContent, IsNull
<1> QED BY <1>3, <1>5 DEF Unlinked, r, t, u

\* release() leaves the new placeholder, if any, on the data or null.
LEMMA ReleaseEffect ==
    ASSUME StoreInv, NEW pc, ReleaseDone(pc)
    PROVE  /\ calls # <<>> /\ m_refs[Current.name] # <<>> /\ Current.op = "release"
           /\ Touches(heap, heap', Unlinked)
           /\ heap'.m_content[Current.ref] = Null
           /\ heap'.m_content[Top(Current.name)] = Null
           /\ Replaces => heap'.m_content[Bottom(Current.name)] \in {Null, GetContent(heap, Top(Current.name))}
<1> DEFINE r == Current.ref
           t == Top(Current.name)
           u == Bottom(Current.name)
           h == IF Replaces THEN Link(Bare, u, {"R"}, GetContent(Bare, r)) ELSE Bare
<1>1. calls # <<>> /\ m_refs[Current.name] # <<>> /\ Current.op = "release"
  BY DEF ReleaseDone, Waiting
<1>2. /\ Touches(heap, Bare, Unlinked)
      /\ Bare.m_content[t] = Null /\ (Replaces => Bare.m_content[u] = Null)
      /\ Bare.m_content[r] = GetContent(heap, t)
      /\ GetContent(Bare, r) = Bare.m_content[r]
      /\ GetContent(Popped, r) = Bare.m_content[r]
  BY <1>1, BareTouches
<1>3. heap' = Reset(h, r)
  BY <1>2 DEF ReleaseDone, Return, Bare, Bottom
<1>4. r \in Refs /\ t \in Refs /\ r # t /\ (Replaces => u \in Refs /\ u # t /\ u # r)
  BY <1>1, RemovalPlaces DEF Top, Bottom, Replaces
<1>5. Unlinked = {r, t} \cup (IF Replaces THEN {u} ELSE {})
  BY DEF Unlinked
<1> HIDE DEF r, t, u
<1>6. /\ Touches(heap, h, Unlinked) /\ h.m_content[t] = Null
      /\ Replaces => h.m_content[u] \in {Null, GetContent(heap, t)}
  <2>1. CASE Replaces
    <3>1. StoreHeap(Bare) /\ {"R"} \in Access
      BY <1>2 DEF Touches, Access
    <3>2. Touches(Bare, h, {u}) /\ h.m_content[u] \in {Null, GetContent(Bare, r)}
      BY <1>2, <1>4, <2>1, <3>1, LinkTouches
    <3> HIDE DEF h
    <3>3. Touches(heap, h, Unlinked \cup {u}) /\ Unlinked \cup {u} = Unlinked
      BY <1>2, <1>5, <2>1, <3>2, TouchesTwice
    <3>4. h.m_content[t] = Bare.m_content[t]
      BY <1>4, <2>1, <3>2 DEF Touches
    <3> QED BY <1>2, <3>2, <3>3, <3>4
  <2>2. CASE ~Replaces
    BY <1>2, <2>2
  <2> QED BY <2>1, <2>2
<1> HIDE DEF h
<1>7. Touches(h, heap', {r}) /\ heap'.m_content[r] = Null
  <2>1. StoreHeap(h)
    BY <1>6 DEF Touches
  <2> QED BY <1>3, <1>4, <2>1, ResetTouches
<1>8. Touches(heap, heap', Unlinked \cup {r}) /\ Unlinked \cup {r} = Unlinked
  BY <1>5, <1>6, <1>7, TouchesTwice
<1>9. heap'.m_content[t] = h.m_content[t] /\ (Replaces => heap'.m_content[u] = h.m_content[u])
  BY <1>4, <1>7 DEF Touches
<1> QED BY <1>1, <1>6, <1>7, <1>8, <1>9 DEF r, t, u

LEMMA TouchesFresh ==
    ASSUME NEW h, NEW g, NEW S, Touches(h, g, S)
    PROVE  FreshContents(g) = FreshContents(h) /\ FreshBuffers(g) = FreshBuffers(h)
<1>1. \A b \in Buffers : g.memory[b] = "none" <=> h.memory[b] = "none"
  BY DEF Touches
<1> QED BY <1>1 DEF Touches, FreshContents, FreshBuffers

\* reclaim() gives the memory back; a new placeholder is on new data.
LEMMA ReclaimEffect ==
    ASSUME StoreInv, NEW pc, ReclaimDone(pc)
    PROVE  /\ calls # <<>> /\ m_refs[Current.name] # <<>> /\ Current.op = "reclaim"
           /\ \/ /\ Replaces
                 /\ \E c \in FreshContents(heap), b \in FreshBuffers(heap) : \E g :
                       /\ Creates(Bare, g, Bottom(Current.name), c, b)
                       /\ GivesBack(g, heap', Current.ref)
                       /\ owned' = owned \cup {b}
              \/ GivesBack(Bare, heap', Current.ref) /\ owned' = owned
<1> DEFINE r == Current.ref
           u == Bottom(Current.name)
<1>1. calls # <<>> /\ m_refs[Current.name] # <<>> /\ Current.op = "reclaim"
  BY DEF ReclaimDone, Waiting
<1>2. Touches(heap, Bare, Unlinked) /\ (Replaces => Bare.m_content[u] = Null)
  BY <1>1, BareTouches
<1>3. StoreHeap(Bare)
  BY <1>2 DEF Touches
<1>4. r \in Refs /\ (Replaces => u \in Refs)
  BY <1>1, RemovalPlaces DEF Bottom, Replaces
<1>5. CASE Replaces /\ Copyable
  <2> DEFINE b == Some(FreshBuffers(heap))
             c == Some(FreshContents(heap))
             g == Create(Bare, u, {"R"}, c, b, {"R", "W"})
  <2>1. /\ heap' = ReleaseRef(g, r) /\ owned' = owned \cup {b}
        /\ FreshContents(heap) # {} /\ FreshBuffers(heap) # {}
    BY <1>5 DEF ReclaimDone, Return, Bare, Bottom
  <2>2. c \in FreshContents(heap) /\ b \in FreshBuffers(heap)
    BY <2>1, SomeIn
  <2>3. c \in FreshContents(Bare) /\ b \in FreshBuffers(Bare)
    BY <1>2, <2>2, TouchesFresh
  <2>4. {"R"} \in Access /\ {"R", "W"} \in Access /\ {"R"} \subseteq {"R", "W"}
    BY DEF Access
  <2> HIDE DEF r, u, b, c
  <2>5. Creates(Bare, g, u, c, b)
    BY <1>2, <1>3, <1>4, <1>5, <2>3, <2>4, CreateCreates
  <2> HIDE DEF g
  <2>6. GivesBack(g, heap', r)
    <3>1. StoreHeap(g)
      BY <2>5 DEF Creates
    <3> QED BY <1>4, <2>1, <3>1, ReleaseRefGivesBack
  <2> QED BY <1>1, <1>5, <2>1, <2>2, <2>5, <2>6 DEF r, u
<1>6. CASE ~(Replaces /\ Copyable)
  <2>1. heap' = ReleaseRef(Bare, r) /\ owned' = owned
    BY <1>6 DEF ReclaimDone, Return, Bare, Bottom
  <2>2. GivesBack(Bare, heap', r)
    BY <1>3, <1>4, <2>1, ReleaseRefGivesBack
  <2> QED BY <1>1, <2>1, <2>2
<1> QED BY <1>5, <1>6

LEMMA CopyThrowsEffect ==
    ASSUME StoreInv, NEW pc, ReclaimCopyThrows(pc)
    PROVE  /\ calls # <<>> /\ m_refs[Current.name] # <<>> /\ Replaces /\ ~disciplined
           /\ Touches(heap, heap', Unlinked)
           /\ \A r \in Unlinked : heap'.m_content[r] = Null
<1> DEFINE r == Current.ref
<1>1. calls # <<>> /\ m_refs[Current.name] # <<>> /\ Replaces /\ ~disciplined
  BY DEF ReclaimCopyThrows, Waiting
<1>2. /\ Touches(heap, Bare, Unlinked)
      /\ Bare.m_content[Top(Current.name)] = Null
      /\ Replaces => Bare.m_content[Bottom(Current.name)] = Null
  BY <1>1, BareTouches
<1>3. heap' = Reset(Bare, r)
  BY <1>1 DEF ReclaimCopyThrows, Return, Bare, Bottom
<1>4. r \in Refs /\ Unlinked \subseteq Refs
  BY <1>1, RemovalPlaces DEF Unlinked, Top, Bottom
<1>5. Touches(Bare, heap', {r}) /\ heap'.m_content[r] = Null
  <2>1. StoreHeap(Bare)
    BY <1>2 DEF Touches
  <2> QED BY <1>3, <1>4, <2>1, ResetTouches
<1>6. Touches(heap, heap', Unlinked \cup {r}) /\ Unlinked \cup {r} = Unlinked
  <2>1. r \in Unlinked
    BY DEF Unlinked
  <2> HIDE DEF r
  <2> QED BY <1>2, <1>5, <2>1, TouchesTwice
<1>7. \A q \in Unlinked : heap'.m_content[q] = Null
  <2> SUFFICES ASSUME NEW q \in Unlinked, q # r
               PROVE  heap'.m_content[q] = Null
    BY <1>5
  <2>1. Bare.m_content[q] = Null
    BY <1>1, <1>2 DEF Unlinked
  <2> QED BY <1>4, <1>5, <2>1 DEF Touches
<1> QED BY <1>1, <1>6, <1>7

\* The heap once a share that failed popped its holder, if there is one.
Undone == IF m_refs[Current.name] = <<>> THEN heap ELSE Reset(heap, Top(Current.name))

LEMMA UndoneTouches ==
    ASSUME StoreInv, calls # <<>>
    PROVE  LET T == IF m_refs[Current.name] = <<>> THEN {} ELSE {Top(Current.name)}
           IN  /\ Touches(heap, Undone, T)
               /\ \A t \in T : Undone.m_content[t] = Null
               /\ T \subseteq Holders /\ Current.ref \notin T /\ Current.ref \in Refs
               /\ Undone.m_content[Current.ref] = heap.m_content[Current.ref]
<1>1. TypeOK /\ StoreHeap(heap) /\ Apart /\ Current.ref \in Refs /\ Current.ref \in Locals
  BY CurrentCall DEF StoreInv
<1>2. CASE m_refs[Current.name] = <<>>
  BY <1>1, <1>2 DEF Undone, Touches
<1>3. CASE m_refs[Current.name] # <<>>
  <2> DEFINE t == Top(Current.name)
  <2>1. t \in Holders /\ t \in Refs /\ t # Current.ref
    BY <1>3, RemovalPlaces DEF Top
  <2>2. Undone = Reset(heap, t)
    BY <1>3 DEF Undone
  <2> HIDE DEF t
  <2>3. Touches(heap, Undone, {t}) /\ Undone.m_content[t] = Null
    BY <1>1, <2>1, <2>2, ResetTouches
  <2>4. Undone.m_content[Current.ref] = heap.m_content[Current.ref]
    BY <1>1, <2>1, <2>3 DEF Touches
  <2> QED BY <1>1, <1>3, <2>1, <2>3, <2>4 DEF t
<1> QED BY <1>2, <1>3

LEMMA ShareThrowsEffect ==
    ASSUME StoreInv, ShareThrows
    PROVE  /\ calls # <<>> /\ Current.op \in {"share", "access"}
           /\ Current.op = "share" => GivesBack(Undone, heap', Current.ref)
           /\ Current.op = "access" => Touches(Undone, heap', {Current.ref}) /\ heap'.m_content[Current.ref] = Null
<1>1. calls # <<>> /\ Current.op \in {"share", "access"}
  BY DEF ShareThrows, Waiting
<1>2. heap' = IF Current.op = "share" THEN ReleaseRef(Undone, Current.ref) ELSE Reset(Undone, Current.ref)
  BY DEF ShareThrows, Return, Undone, Top
<1>3. StoreHeap(Undone) /\ Current.ref \in Refs
  <2>1. Current.ref \in Refs
    BY <1>1, CurrentCall DEF StoreInv
  <2> QED BY <1>1, <2>1, UndoneTouches DEF Touches
<1>4. CASE Current.op = "share"
  BY <1>1, <1>2, <1>3, <1>4, ReleaseRefGivesBack
<1>5. CASE Current.op = "access"
  BY <1>1, <1>2, <1>3, <1>5, ResetTouches
<1> QED BY <1>1, <1>4, <1>5

-----------------------------------------------------------------------------
(* What share() does up to its callbacks *)

\* The call f once it has pushed its holder.
Notifying(f) == [f EXCEPT !.pc = "notify", !.depth = [Depth EXCEPT ![f.name] = @ + 1]]

LEMMA DepthType ==
    ASSUME TypeOK
    PROVE  Depth \in [Names -> Nat] /\ \A n \in Names : Depth[n] = Len(m_refs[n])
<1>1. \A n \in Names : Len(m_refs[n]) \in Nat
  BY DEF TypeOK
<1> QED BY <1>1 DEF Depth

LEMMA NotifyingFields ==
    ASSUME TypeOK, NEW f \in Frames
    PROVE  /\ Notifying(f) \in Frames
           /\ Notifying(f).op = f.op /\ Notifying(f).name = f.name /\ Notifying(f).ref = f.ref
           /\ Notifying(f).buffer = f.buffer /\ Notifying(f).pc = "notify"
           /\ Notifying(f).depth[f.name] = Len(m_refs[f.name]) + 1
           /\ \A n \in Names \ {f.name} : Notifying(f).depth[n] = Len(m_refs[n])
<1> DEFINE d == [Depth EXCEPT ![f.name] = @ + 1]
<1>1. f.name \in Names
  BY DEF Frames
<1>2. /\ d \in [Names -> Nat] /\ d[f.name] = Len(m_refs[f.name]) + 1
      /\ \A n \in Names \ {f.name} : d[n] = Len(m_refs[n])
  BY <1>1, DepthType
<1>3. Notifying(f) = [f EXCEPT !.pc = "notify", !.depth = d]
  BY DEF Notifying
<1> HIDE DEF d
<1>4. /\ Notifying(f) \in Frames
      /\ Notifying(f).op = f.op /\ Notifying(f).name = f.name /\ Notifying(f).ref = f.ref
      /\ Notifying(f).buffer = f.buffer /\ Notifying(f).pc = "notify"
      /\ Notifying(f).depth = d
  BY <1>2, <1>3 DEF Frames
<1> QED BY <1>2, <1>4

\* share() throws at once, or pushes a holder k that sees what f.ref sees.
Refused(cs, e) ==
    heap' = e /\ calls' = cs /\ status' = "error" /\ m_refs' = m_refs

Accepted(f, cs, h, k) ==
    /\ Touches(h, heap', {k}) /\ heap'.memory = h.memory
    /\ heap'.m_content[k] = GetContent(h, f.ref)
    /\ m_refs' = [m_refs EXCEPT ![f.name] = Append(@, k)]
    /\ calls' = Append(cs, Notifying(f))
    /\ status' = status

LEMMA OfferEffect ==
    ASSUME NEW f \in Frames, NEW cs, NEW h, NEW e, StoreHeap(h),
           NEW k, k = Some(Free \ {f.ref}), k \in Refs, h.m_content[k] = Null,
           Offer(f, cs, h, e)
    PROVE  Refused(cs, e) \/ Accepted(f, cs, h, k)
<1> DEFINE linked == Link(h, k, f.rights, GetContent(h, f.ref))
<1>1. f.ref \in Refs /\ f.rights \in Access
  BY DEF Frames
<1>2. /\ Touches(h, linked, {k}) /\ linked.memory = h.memory
      /\ linked.m_content[k] \in {Null, GetContent(h, f.ref)}
  <2> DEFINE q == f.ref
             R == f.rights
  <2> HIDE DEF linked, q, R
  <2>1. q \in Refs /\ R \in Access /\ linked = Link(h, k, R, GetContent(h, q))
    BY <1>1 DEF linked, q, R
  <2>2. StoreHeap(h) /\ k \in Refs /\ h.m_content[k] = Null
    OBVIOUS
  <2>3. /\ Touches(h, linked, {k}) /\ linked.memory = h.memory
        /\ linked.m_content[k] \in {Null, GetContent(h, q)}
        /\ R = {} => linked.m_content[k] = GetContent(h, q)
    BY ONLY <2>1, <2>2, LinkTouches
  <2> QED BY <2>3 DEF q
<1>3. \/ Refused(cs, e)
      \/ /\ heap' = linked
         /\ IsNull(h, f.ref) \/ ~IsNull(linked, k)
         /\ m_refs' = [m_refs EXCEPT ![f.name] = Append(@, k)]
         /\ calls' = Append(cs, Notifying(f))
         /\ status' = status
  BY Zenon DEF Offer, Refused, Notifying
<1> HIDE DEF linked
<1>4. IsNull(h, f.ref) \/ ~IsNull(linked, k) => linked.m_content[k] = GetContent(h, f.ref)
  BY <1>2 DEF IsNull, GetContent
<1> QED BY <1>2, <1>3, <1>4 DEF Accepted

LEMMA CallFields ==
    ASSUME TypeOK, NEW op \in {"share", "access", "release", "reclaim"}, NEW n \in Names,
           NEW r \in Refs, NEW R \in Access, NEW b \in Buffers \cup {Null},
           NEW pc \in {"missing", "notify"}
    PROVE  /\ Call(op, n, r, R, b, pc) \in Frames
           /\ Call(op, n, r, R, b, pc) =
                 [op |-> op, name |-> n, ref |-> r, rights |-> R, buffer |-> b, pc |-> pc,
                  depth |-> Depth]
  BY DepthType DEF Call, Frames

LEMMA ShareEffect ==
    ASSUME StoreInv, NEW n \in Names, NEW a \in Access, Share(n, a)
    PROVE  \E r \in Free, c \in FreshContents(heap), b \in FreshBuffers(heap) :
           \E k \in Free \ {r} : \E h :
              /\ Creates(heap, h, r, c, b)
              /\ \/ GivesBack(h, heap', r) /\ calls' = calls /\ status' = "error" /\ m_refs' = m_refs
                 \/ Accepted(Call("share", n, r, {}, b, "notify"), calls, h, k)
<1> DEFINE r == Some(Free)
           b == Some(FreshBuffers(heap))
           c == Some(FreshContents(heap))
           h == Create(heap, r, {}, c, b, a)
           f == Call("share", n, r, {}, b, "notify")
           k == Some(Free \ {r})
<1>1. MayCall /\ FreshContents(heap) # {} /\ FreshBuffers(heap) # {} /\ Offer(f, calls, h, ReleaseRef(h, r))
  BY DEF Share
<1>2. r \in Free /\ k \in Free \ {r} /\ r \in Refs /\ k \in Refs
      /\ heap.m_content[r] = Null /\ heap.m_content[k] = Null
  BY <1>1, TwoFree, FreePlace
<1>3. c \in FreshContents(heap) /\ b \in FreshBuffers(heap)
  BY <1>1, SomeIn
<1>4. TypeOK /\ StoreHeap(heap) /\ {} \in Access /\ {} \subseteq a
  BY DEF StoreInv, Access
<1>k. k = Some(Free \ {r})
  OBVIOUS
<1> HIDE DEF r, b, c, k
<1>5. Creates(heap, h, r, c, b)
  BY <1>2, <1>3, <1>4, CreateCreates
<1>6. f \in Frames /\ f.ref = r
  BY <1>2, <1>3, <1>4, CallFields DEF FreshBuffers
<1> HIDE DEF h, f
<1>7. StoreHeap(h) /\ h.m_content[k] = Null
  BY <1>2, <1>5 DEF Creates
<1>8. Refused(calls, ReleaseRef(h, r)) \/ Accepted(f, calls, h, k)
  <2>1. k = Some(Free \ {f.ref})
    BY <1>6, <1>k
  <2> QED BY <1>1, <1>2, <1>6, <1>7, <2>1, OfferEffect
<1>9. Refused(calls, ReleaseRef(h, r)) => GivesBack(h, heap', r) /\ calls' = calls /\ status' = "error" /\ m_refs' = m_refs
  BY <1>2, <1>7, ReleaseRefGivesBack DEF Refused
<1>10. \/ GivesBack(h, heap', r) /\ calls' = calls /\ status' = "error" /\ m_refs' = m_refs
       \/ Accepted(Call("share", n, r, {}, b, "notify"), calls, h, k)
  BY <1>8, <1>9 DEF f
<1> QED BY <1>2, <1>3, <1>5, <1>10

\* The local reference of a call sees what the holder on top sees.
LEMMA RefToTop ==
    ASSUME StoreInv, NEW n \in Names, m_refs[n] # <<>>, NEW r \in Refs, heap.m_content[r] = Null
    PROVE  /\ Touches(heap, RefTo(heap, r, Top(n)), {r})
           /\ RefTo(heap, r, Top(n)).memory = heap.memory
           /\ RefTo(heap, r, Top(n)).m_content[r] = GetContent(heap, Top(n))
<1>1. Top(n) \in Refs
  BY TopHolder DEF StoreInv, Top
<1>2. StoreHeap(heap) /\ {} \in Access
  BY DEF StoreInv, Access
<1> QED BY <1>1, <1>2, LinkTouches DEF RefTo

\* What PDI_access does once there is something: it throws, and its local
\* reference dies, or it pushes a holder.
AccessOffers(f, cs, r) ==
    \E k \in Free \ {r} : \E h :
        /\ Touches(heap, h, {r}) /\ h.memory = heap.memory
        /\ h.m_content[r] = GetContent(heap, Top(f.name))
        /\ \/ /\ Touches(h, heap', {r}) /\ heap'.m_content[r] = Null
              /\ calls' = cs /\ status' = "error" /\ m_refs' = m_refs
           \/ Accepted(f, cs, h, k)

LEMMA AccessEffect ==
    ASSUME StoreInv, NEW f \in Frames, NEW cs, NEW r, r = f.ref, heap.m_content[r] = Null,
           m_refs[f.name] # <<>>, Free \ {r} # {},
           LET h == RefTo(heap, r, Top(f.name)) IN Offer(f, cs, h, Reset(h, r))
    PROVE  AccessOffers(f, cs, r)
<1> DEFINE h == RefTo(heap, r, Top(f.name))
           k == Some(Free \ {r})
<1>1. f.name \in Names /\ r \in Refs
  BY DEF Frames
<1>2. /\ Touches(heap, h, {r}) /\ h.memory = heap.memory
      /\ h.m_content[r] = GetContent(heap, Top(f.name))
  BY <1>1, RefToTop
<1>3. k \in Free \ {r} /\ k \in Refs /\ heap.m_content[k] = Null
  BY SomeIn, FreePlace
<1>4. k = Some(Free \ {f.ref})
  OBVIOUS
<1>o. Offer(f, cs, h, Reset(h, r))
  OBVIOUS
<1> HIDE DEF h, k
<1>5. StoreHeap(h) /\ h.m_content[k] = Null
  BY <1>2, <1>3 DEF Touches
<1>6. Refused(cs, Reset(h, r)) \/ Accepted(f, cs, h, k)
  BY <1>3, <1>4, <1>5, <1>o, OfferEffect
<1>7. Refused(cs, Reset(h, r)) =>
         /\ Touches(h, heap', {r}) /\ heap'.m_content[r] = Null
         /\ calls' = cs /\ status' = "error" /\ m_refs' = m_refs
  BY <1>1, <1>5, ResetTouches DEF Refused
<1> QED BY <1>2, <1>3, <1>6, <1>7 DEF AccessOffers

-----------------------------------------------------------------------------
(* Every step keeps the invariant of the store *)

\* A step between the calls, or in a callback, that changes no call.
LEMMA RestInv ==
    ASSUME StoreInv, calls' = calls,
           NEW S, S \cap Locals = {},
           StoreHeap(heap'), SameLinks(heap, heap', S),
           m_refs' \in [Names -> Seq(Refs)], HoldersApart',
           held' \subseteq Refs, held' \cap Locals = {},
           Holders' \cap Locals = {}, Holders' \cap held' = {},
           m_metadata' \subseteq Names, status' \in {"ok", "error"},
           descriptors' \subseteq descriptors, calls = <<>> \/ descriptors' = descriptors,
           UNCHANGED <<owned, undefined, disciplined>>,
           descriptors' = Names =>
              \A r \in S \cup Holders \cup held :
                  r \in Holders' \/ r \in held' \/ heap'.m_content[r] = Null
    PROVE  StoreInv'
<1>1. TypeOK /\ Apart /\ NoStrayReference /\ CallsLinked /\ Locals' = Locals
  BY DEF StoreInv, Locals
<1>2. TypeOK'
  BY <1>1 DEF TypeOK
<1>3. Apart'
  BY <1>1 DEF Apart, LocalsApart
<1>4. CallsLinked'
  <2>1. \A i \in DOMAIN calls : calls[i].ref \notin S
    BY DEF Locals
  <2>2. \A i \in DOMAIN calls : FrameLinked(heap', calls[i])
    BY <2>1, FramesKept
  <2> QED BY <1>1, <2>2 DEF CallsLinked
<1>5. NoStrayReference'
  <2> SUFFICES ASSUME descriptors' = Names, NEW r \in Refs, heap'.m_content[r] # Null
               PROVE  r \in Holders' \cup Locals \cup held'
    BY <1>1 DEF NoStrayReference
  <2>1. descriptors = Names
    BY <1>1 DEF TypeOK
  <2>2. r \notin S => r \in Holders \cup Locals \cup held
    BY <1>1, <2>1 DEF NoStrayReference, SameLinks
  <2> QED BY <2>2
<1> QED BY <1>2, <1>3, <1>4, <1>5 DEF StoreInv

LEMMA SameSelf ==
    ASSUME NEW h
    PROVE  SameLinks(h, h, {})
  BY DEF SameLinks

LEMMA InitInv ==
    ASSUME Init
    PROVE  StoreInv
<1>1. TypeOK
  <2>1. <<>> \in Seq(Refs) /\ <<>> \in Seq(Frames)
    OBVIOUS
  <2>2. m_refs \in [Names -> Seq(Refs)]
    BY <2>1 DEF Init
  <2> QED BY <2>1, <2>2 DEF Init, TypeOK
<1>2. HeapInv(heap)
  BY EmptyHeapInv DEF Init
<1>3. StoreHeap(heap)
  BY <1>2 DEF Init, EmptyHeap, StoreHeap, Quiet, Single, Nulled
<1>4. Holders = {} /\ Locals = {} /\ HoldersApart /\ LocalsApart
  BY DEF Init, Holders, Locals, HoldersApart, LocalsApart
<1>5. Apart
  BY <1>4 DEF Apart
<1>6. NoStrayReference /\ CallsLinked
  BY DEF Init, EmptyHeap, NoStrayReference, CallsLinked
<1> QED BY <1>1, <1>3, <1>5, <1>6 DEF StoreInv

LEMMA LoadDataInv ==
    ASSUME StoreInv, NEW n \in Names, LoadData(n)
    PROVE  StoreInv'
<1>1. TypeOK /\ StoreHeap(heap) /\ Apart /\ MayCall /\ calls' = calls
      /\ UNCHANGED <<heap, held, owned, descriptors, undefined, disciplined>>
      /\ m_metadata' \subseteq Names /\ status' \in {"ok", "error"}
  BY DEF StoreInv, LoadData, TypeOK
<1>2. CASE m_refs' = m_refs
  <2>1. Holders' = Holders /\ HoldersApart'
    BY <1>1, <1>2 DEF Holders, HoldersApart, Apart
  <2>2. SameLinks(heap, heap', {}) /\ StoreHeap(heap')
    BY <1>1, SameSelf
  <2> QED BY <1>1, <1>2, <2>1, <2>2, RestInv DEF Apart, TypeOK
<1>3. CASE m_refs' # m_refs
  <2> DEFINE k == Some(Free)
  <2>1. m_refs[n] = <<>> /\ m_refs' = [m_refs EXCEPT ![n] = <<k>>]
    <3>1. m_refs[n] = <<>> => [m_refs EXCEPT ![n] = <<>>] = m_refs
      BY <1>1 DEF TypeOK
    <3> QED BY <1>3, <3>1 DEF LoadData
  <2>2. k \in Free
    BY <1>1, TwoFree
  <2>3. k \in Refs /\ k \notin Holders /\ k \notin Locals /\ k \notin held
    BY <2>2, FreePlace
  <2> HIDE DEF k
  <2>4. m_refs' = [m_refs EXCEPT ![n] = Append(@, k)]
    BY <1>1, <2>1 DEF TypeOK
  <2>5. m_refs' \in [Names -> Seq(Refs)] /\ Holders' = Holders \cup {k} /\ HoldersApart'
    BY <1>1, <2>3, <2>4, PushHolder DEF Apart
  <2>6. SameLinks(heap, heap', {}) /\ StoreHeap(heap')
    BY <1>1, SameSelf
  <2> QED BY <1>1, <2>3, <2>5, <2>6, RestInv DEF Apart, TypeOK
<1> QED BY <1>2, <1>3

LEMMA RemoveRefusedInv ==
    ASSUME StoreInv, NEW n \in Names, RemoveRefused(n)
    PROVE  StoreInv'
<1>1. TypeOK /\ StoreHeap(heap) /\ Apart /\ calls' = calls /\ status' = "error"
      /\ UNCHANGED <<heap, m_refs, m_metadata, held, owned, descriptors, undefined, disciplined>>
  BY DEF StoreInv, RemoveRefused
<1>2. Holders' = Holders /\ HoldersApart'
  BY <1>1 DEF Holders, HoldersApart, Apart
<1>3. SameLinks(heap, heap', {}) /\ StoreHeap(heap')
  BY <1>1, SameSelf
<1> QED BY <1>1, <1>2, <1>3, RestInv DEF Apart, TypeOK

LEMMA HoldInv ==
    ASSUME StoreInv, NEW n \in Names, NEW R \in Access, Hold(n, R)
    PROVE  StoreInv'
<1> DEFINE s == Some(Free)
           t == Last(m_refs[n])
<1>1. TypeOK /\ StoreHeap(heap) /\ Apart
  BY DEF StoreInv
<1>2. /\ held = {} /\ Free # {} /\ m_refs[n] # <<>> /\ held' = {s}
      /\ heap' = Link(heap, s, R, GetContent(heap, t))
      /\ UNCHANGED <<m_refs, m_metadata, calls, status, owned, descriptors, undefined, disciplined>>
  BY DEF Hold
<1>3. s \in Free
  BY <1>2, SomeIn
<1>4. s \in Refs /\ s \notin Holders /\ s \notin Locals /\ heap.m_content[s] = Null
  BY <1>3, FreePlace
<1>5. t \in Refs
  BY <1>1, <1>2, TopHolder
<1> HIDE DEF s, t
<1>6. Touches(heap, heap', {s})
  BY <1>1, <1>2, <1>4, <1>5, LinkTouches
<1>7. SameLinks(heap, heap', {s}) /\ StoreHeap(heap')
  BY <1>6, TouchesSame
<1>8. Holders' = Holders /\ HoldersApart'
  BY <1>1, <1>2 DEF Holders, HoldersApart, Apart
<1> QED BY <1>1, <1>2, <1>4, <1>7, <1>8, RestInv DEF Apart, TypeOK

LEMMA DropInv ==
    ASSUME StoreInv, NEW s, Drop(s)
    PROVE  StoreInv'
<1>1. TypeOK /\ StoreHeap(heap) /\ Apart
  BY DEF StoreInv
<1>2. /\ s \in held /\ held' = held \ {s} /\ heap' = Reset(heap, s)
      /\ UNCHANGED <<m_refs, m_metadata, calls, status, owned, descriptors, undefined, disciplined>>
  BY DEF Drop
<1>3. s \in Refs /\ s \notin Locals /\ s \notin Holders
  BY <1>1, <1>2 DEF TypeOK, Apart
<1>4. Touches(heap, heap', {s}) /\ heap'.m_content[s] = Null
  BY <1>1, <1>2, <1>3, ResetTouches
<1>5. SameLinks(heap, heap', {s}) /\ StoreHeap(heap')
  BY <1>4, TouchesSame
<1>6. Holders' = Holders /\ HoldersApart'
  BY <1>1, <1>2 DEF Holders, HoldersApart, Apart
<1> QED BY <1>1, <1>2, <1>3, <1>4, <1>5, <1>6, RestInv DEF Apart, TypeOK

\* What is leaked at the end stays linked, but then a descriptor is gone.
LEMMA DestroyInv ==
    ASSUME StoreInv, NEW n \in Names, Destroy(n)
    PROVE  StoreInv'
<1> DEFINE p == n \in m_metadata /\ Len(m_refs[n]) = 1
           S == IF p THEN {Bottom(n)} ELSE {}
<1>1. TypeOK /\ StoreHeap(heap) /\ Apart
  BY DEF StoreInv
<1>2. /\ calls = <<>> /\ n \in descriptors /\ descriptors' = descriptors \ {n}
      /\ m_refs' = [m_refs EXCEPT ![n] = <<>>]
      /\ heap' = IF p THEN Reset(heap, Bottom(n)) ELSE heap
      /\ UNCHANGED <<m_metadata, calls, held, status, owned, undefined, disciplined>>
  BY DEF Destroy, Bottom
<1>3. /\ m_refs' \in [Names -> Seq(Refs)] /\ HoldersApart'
      /\ Holders' = Holders \ {m_refs[n][i] : i \in DOMAIN m_refs[n]}
  BY <1>1, <1>2, ClearHolders DEF Apart
<1>4. p => Bottom(n) \in Holders /\ Bottom(n) \in Refs
  <2>1. p => 1 \in DOMAIN m_refs[n]
    BY <1>1 DEF TypeOK
  <2> QED BY <1>1, <2>1, HolderIn DEF Bottom
<1>5. SameLinks(heap, heap', S) /\ StoreHeap(heap')
  <2>1. CASE p
    BY <1>1, <1>2, <1>4, <2>1, ResetTouches, TouchesSame
  <2>2. CASE ~p
    BY <1>1, <1>2, <2>2, SameSelf
  <2> QED BY <2>1, <2>2
<1>6. S \cap Locals = {}
  BY <1>1, <1>4 DEF Apart
<1> HIDE DEF S
<1>7. descriptors' # Names
  BY <1>2
<1> QED BY <1>1, <1>2, <1>3, <1>5, <1>6, <1>7, RestInv DEF Apart, TypeOK

\* A holder is pushed and the call waits for the callbacks of notify_data.
LEMMA AcceptedInv ==
    ASSUME StoreInv, NEW f \in Frames, NEW cs, NEW h, NEW k \in Free \ {f.ref},
           SameLinks(heap, h, {f.ref}), StoreHeap(h),
           f.op = "share" =>
              h.m_content[f.ref] # Null /\ f.buffer \in Buffers /\ BufferOf(h, f.ref) = f.buffer,
           \/ f.ref \in Free /\ descriptors = Names /\ cs = calls
           \/ calls # <<>> /\ f.ref = Current.ref /\ cs = Front(calls),
           Accepted(f, cs, h, k),
           UNCHANGED <<m_metadata, held, owned, descriptors, undefined, disciplined>>
    PROVE  StoreInv'
<1> DEFINE g == Notifying(f)
<1>1. TypeOK /\ Apart
  BY DEF StoreInv
<1>2. /\ g \in Frames /\ g.op = f.op /\ g.name = f.name /\ g.ref = f.ref
      /\ g.buffer = f.buffer /\ g.pc = "notify"
  BY <1>1, NotifyingFields
<1>3. /\ Touches(h, heap', {k}) /\ calls' = Append(cs, g) /\ status' = status
      /\ m_refs' = [m_refs EXCEPT ![f.name] = Append(@, k)]
  BY DEF Accepted
<1> HIDE DEF g
<1>4. SameLinks(h, heap', {k}) /\ StoreHeap(heap')
  BY <1>3, TouchesSame
<1>5. SameLinks(heap, heap', {g.ref} \cup {k})
  BY <1>2, <1>4, SameTwice
<1>6. k \in Refs /\ k \notin Holders /\ f.name \in Names /\ f.ref \in Refs
  BY FreePlace DEF Frames
<1>7. m_refs' \in [Names -> Seq(Refs)] /\ Holders' = Holders \cup {k} /\ HoldersApart'
  BY <1>1, <1>3, <1>6, PushHolder DEF Apart
<1>8. FrameLinked(heap', g)
  <2>1. g.op = "share" => heap'.m_content[g.ref] # Null /\ BufferOf(heap', g.ref) = g.buffer
    BY <1>2, <1>4, <1>6 DEF SameLinks
  <2> QED BY <1>2, <2>1 DEF FrameLinked
<1>9. \/ g.ref \in Free /\ descriptors = Names /\ calls' = Append(calls, g)
      \/ calls # <<>> /\ g.ref = Current.ref /\ calls' = Append(Front(calls), g)
  BY <1>2, <1>3
<1>10. {k} \subseteq Free \ {g.ref}
  BY <1>2
<1> QED BY <1>2, <1>3, <1>4, <1>5, <1>7, <1>8, <1>9, <1>10, WaitInv

LEMMA ShareInv ==
    ASSUME StoreInv, NEW n \in Names, NEW a \in Access, Share(n, a)
    PROVE  StoreInv'
<1>1. TypeOK /\ StoreHeap(heap) /\ Apart /\ descriptors = Names
      /\ UNCHANGED <<m_metadata, held, owned, descriptors, undefined, disciplined>>
  BY DEF StoreInv, Share, MayCall
<1>2. PICK r \in Free, c \in FreshContents(heap), b \in FreshBuffers(heap) :
      \E k \in Free \ {r} : \E h :
         /\ Creates(heap, h, r, c, b)
         /\ \/ GivesBack(h, heap', r) /\ calls' = calls /\ status' = "error" /\ m_refs' = m_refs
            \/ Accepted(Call("share", n, r, {}, b, "notify"), calls, h, k)
  BY ShareEffect
<1>3. PICK k \in Free \ {r} : \E h :
         /\ Creates(heap, h, r, c, b)
         /\ \/ GivesBack(h, heap', r) /\ calls' = calls /\ status' = "error" /\ m_refs' = m_refs
            \/ Accepted(Call("share", n, r, {}, b, "notify"), calls, h, k)
  BY <1>2
<1>4. PICK h :
         /\ Creates(heap, h, r, c, b)
         /\ \/ GivesBack(h, heap', r) /\ calls' = calls /\ status' = "error" /\ m_refs' = m_refs
            \/ Accepted(Call("share", n, r, {}, b, "notify"), calls, h, k)
  BY <1>3
<1>5. SameLinks(heap, h, {r}) /\ StoreHeap(h)
  BY <1>1, <1>4, CreatesSame
<1>6. r \in Refs /\ r \notin Holders /\ r \notin Locals /\ r \notin held
  BY FreePlace
<1>7. CASE GivesBack(h, heap', r) /\ calls' = calls /\ status' = "error" /\ m_refs' = m_refs
  <2>1. SameLinks(h, heap', {r}) /\ StoreHeap(heap') /\ heap'.m_content[r] = Null
    BY <1>7, GivesBackSame
  <2>2. SameLinks(heap, heap', {r} \cup {r})
    BY <1>5, <2>1, SameTwice
  <2>3. Holders' = Holders /\ HoldersApart'
    BY <1>1, <1>7 DEF Holders, HoldersApart, Apart
  <2>4. {r} \cup {r} = {r}
    OBVIOUS
  <2> QED BY <1>1, <1>6, <1>7, <2>1, <2>2, <2>3, <2>4, RestInv DEF Apart, TypeOK
<1>8. CASE Accepted(Call("share", n, r, {}, b, "notify"), calls, h, k)
  <2> DEFINE f == Call("share", n, r, {}, b, "notify")
  <2>1. b \in Buffers /\ c \in Contents
    BY DEF FreshBuffers, FreshContents
  <2>2. f \in Frames /\ f.ref = r /\ f.buffer = b
    BY <1>1, <1>6, <2>1, CallFields DEF Access
  <2> HIDE DEF f
  <2>3. h.m_content[f.ref] # Null /\ BufferOf(h, f.ref) = f.buffer
    BY <1>4, <2>1, <2>2, HeapAssumption DEF Creates, BufferOf
  <2>4. Accepted(f, calls, h, k)
    BY <1>8 DEF f
  <2> QED BY <1>1, <1>5, <2>1, <2>2, <2>3, <2>4, AcceptedInv
<1> QED BY <1>4, <1>7, <1>8

LEMMA AccessSharedEffect ==
    ASSUME StoreInv, NEW n \in Names, NEW R \in Access, AccessShared(n, R)
    PROVE  /\ descriptors = Names /\ m_refs[n] # <<>>
           /\ UNCHANGED <<m_metadata, held, owned, descriptors, undefined, disciplined>>
           /\ \E r \in Free : AccessOffers(Call("access", n, r, R, Null, "notify"), calls, r)
<1> DEFINE r == Some(Free)
           f == Call("access", n, r, R, Null, "notify")
<1>1. TypeOK /\ StoreHeap(heap) /\ Apart /\ descriptors = Names /\ MayCall /\ m_refs[n] # <<>>
      /\ UNCHANGED <<m_metadata, held, owned, descriptors, undefined, disciplined>>
  BY DEF StoreInv, AccessShared, MayCall
<1>2. LET h == RefTo(heap, r, Top(n)) IN Offer(f, calls, h, Reset(h, r))
  BY DEF AccessShared, Top
<1>3. r \in Free /\ Free \ {r} # {}
  BY <1>1, TwoFree
<1>4. r \in Refs /\ heap.m_content[r] = Null
  BY <1>3, FreePlace
<1> HIDE DEF r
<1>5. f \in Frames /\ f.ref = r /\ f.name = n
  BY <1>1, <1>4, CallFields
<1> HIDE DEF f
<1>6. AccessOffers(f, calls, r)
  <2>1. LET h == RefTo(heap, r, Top(f.name)) IN Offer(f, calls, h, Reset(h, r))
    BY <1>2, <1>5
  <2>2. m_refs[f.name] # <<>>
    BY <1>1, <1>5
  <2> QED BY <1>3, <1>4, <1>5, <2>1, <2>2, AccessEffect
<1> QED BY <1>1, <1>3, <1>6 DEF f

LEMMA AccessSharedInv ==
    ASSUME StoreInv, NEW n \in Names, NEW R \in Access, AccessShared(n, R)
    PROVE  StoreInv'
<1>1. TypeOK /\ StoreHeap(heap) /\ Apart /\ descriptors = Names
      /\ UNCHANGED <<m_metadata, held, owned, descriptors, undefined, disciplined>>
  BY AccessSharedEffect DEF StoreInv
<1>3. PICK r \in Free : AccessOffers(Call("access", n, r, R, Null, "notify"), calls, r)
  BY AccessSharedEffect
<1> DEFINE f == Call("access", n, r, R, Null, "notify")
<1>4. r \in Refs /\ r \notin Holders /\ r \notin Locals /\ r \notin held
  BY FreePlace
<1>5. f \in Frames /\ f.ref = r /\ f.op = "access"
  BY <1>1, <1>4, CallFields
<1>6. AccessOffers(f, calls, r)
  BY <1>3
<1> HIDE DEF f
<1>7. PICK k \in Free \ {r} : \E h :
        /\ Touches(heap, h, {r}) /\ h.memory = heap.memory
        /\ h.m_content[r] = GetContent(heap, Top(f.name))
        /\ \/ /\ Touches(h, heap', {r}) /\ heap'.m_content[r] = Null
              /\ calls' = calls /\ status' = "error" /\ m_refs' = m_refs
           \/ Accepted(f, calls, h, k)
  BY <1>6 DEF AccessOffers
<1>8. PICK h :
        /\ Touches(heap, h, {r}) /\ h.memory = heap.memory
        /\ h.m_content[r] = GetContent(heap, Top(f.name))
        /\ \/ /\ Touches(h, heap', {r}) /\ heap'.m_content[r] = Null
              /\ calls' = calls /\ status' = "error" /\ m_refs' = m_refs
           \/ Accepted(f, calls, h, k)
  BY <1>7
<1>9. SameLinks(heap, h, {r}) /\ StoreHeap(h)
  BY <1>8, TouchesSame
<1>10. CASE /\ Touches(h, heap', {r}) /\ heap'.m_content[r] = Null
            /\ calls' = calls /\ status' = "error" /\ m_refs' = m_refs
  <2>1. SameLinks(h, heap', {r}) /\ StoreHeap(heap')
    BY <1>10, TouchesSame
  <2>2. SameLinks(heap, heap', {r} \cup {r}) /\ {r} \cup {r} = {r}
    BY <1>9, <2>1, SameTwice
  <2>3. Holders' = Holders /\ HoldersApart'
    BY <1>1, <1>10 DEF Holders, HoldersApart, Apart
  <2> QED BY <1>1, <1>4, <1>10, <2>1, <2>2, <2>3, RestInv DEF Apart, TypeOK
<1>11. CASE Accepted(f, calls, h, k)
  BY <1>1, <1>3, <1>5, <1>9, <1>11, AcceptedInv
<1> QED BY <1>8, <1>10, <1>11

LEMMA AccessMissingInv ==
    ASSUME StoreInv, NEW n \in Names, NEW R \in Access, AccessMissing(n, R)
    PROVE  StoreInv'
<1> DEFINE r == Some(Free)
           f == Call("access", n, r, R, Null, "missing")
<1>1. TypeOK /\ StoreHeap(heap) /\ Apart /\ descriptors = Names /\ MayCall
      /\ calls' = Append(calls, f)
      /\ UNCHANGED <<heap, m_refs, m_metadata, held, status, owned, descriptors, undefined, disciplined>>
  BY DEF StoreInv, AccessMissing, MayCall
<1>2. r \in Free /\ r \in Refs /\ heap.m_content[r] = Null
  BY <1>1, TwoFree, FreePlace
<1> HIDE DEF r
<1>3. f \in Frames /\ f.ref = r /\ f.op = "access"
  BY <1>1, <1>2, CallFields
<1> HIDE DEF f
<1>4. FrameLinked(heap', f) /\ SameLinks(heap, heap', {f.ref} \cup {}) /\ StoreHeap(heap')
  BY <1>1, <1>2, <1>3 DEF FrameLinked, SameLinks
<1>5. Holders' = Holders /\ HoldersApart'
  BY <1>1 DEF Holders, HoldersApart, Apart
<1>6. m_refs' \in [Names -> Seq(Refs)] /\ Holders' = Holders \cup {}
  BY <1>1, <1>5 DEF TypeOK
<1> QED BY <1>1, <1>2, <1>3, <1>4, <1>5, <1>6, WaitInv

LEMMA RemoveBeginsInv ==
    ASSUME StoreInv, NEW n \in Names, NEW op \in {"release", "reclaim"}, RemoveBegins(op, n)
    PROVE  StoreInv'
<1> DEFINE r == Some(Free)
           f == Call(op, n, r, {}, Null, "notify")
<1>1. TypeOK /\ StoreHeap(heap) /\ Apart /\ descriptors = Names /\ MayCall /\ m_refs[n] # <<>>
      /\ calls' = Append(calls, f) /\ heap' = RefTo(heap, r, Top(n))
      /\ UNCHANGED <<m_refs, m_metadata, held, status, owned, descriptors, undefined, disciplined>>
  <2>1. TypeOK /\ StoreHeap(heap) /\ Apart
    BY DEF StoreInv
  <2>2. m_refs[n] # <<>>
    BY <2>1 DEF RemoveBegins, Shared, TypeOK
  <2> QED BY <2>1, <2>2 DEF RemoveBegins, MayCall, Top
<1>2. r \in Free /\ r \in Refs /\ heap.m_content[r] = Null
  BY <1>1, TwoFree, FreePlace
<1> HIDE DEF r
<1>3. f \in Frames /\ f.ref = r /\ f.op = op /\ f.pc = "notify"
  BY <1>1, <1>2, CallFields DEF Access
<1> HIDE DEF f
<1>4. Touches(heap, heap', {r})
  BY <1>1, <1>2, RefToTop
<1>5. SameLinks(heap, heap', {f.ref} \cup {}) /\ StoreHeap(heap')
  <2>1. {f.ref} \cup {} = {r}
    BY <1>3
  <2> QED BY <1>4, <2>1, TouchesSame
<1>6. FrameLinked(heap', f)
  BY <1>3 DEF FrameLinked
<1>7. Holders' = Holders /\ HoldersApart'
  BY <1>1 DEF Holders, HoldersApart, Apart
<1>8. m_refs' \in [Names -> Seq(Refs)] /\ Holders' = Holders \cup {}
  BY <1>1, <1>7 DEF TypeOK
<1> QED BY <1>1, <1>2, <1>3, <1>5, <1>6, <1>7, <1>8, WaitInv

LEMMA RemoveMissingInv ==
    ASSUME StoreInv, RemoveMissing
    PROVE  StoreInv'
<1> DEFINE f == [Current EXCEPT !.pc = "missing", !.depth = Depth]
           r == Current.ref
<1>1. TypeOK /\ StoreHeap(heap) /\ Apart /\ calls # <<>>
      /\ Current.op \in {"release", "reclaim"}
      /\ calls' = Append(Front(calls), f) /\ heap' = Reset(heap, r)
      /\ UNCHANGED <<m_refs, m_metadata, held, status, owned, descriptors, undefined, disciplined>>
  BY DEF StoreInv, RemoveMissing, Waiting
<1>2. Current \in Frames /\ r \in Refs
  BY <1>1, CurrentCall
<1>3. f \in Frames /\ f.ref = r /\ f.op = Current.op
  BY <1>1, <1>2, DepthType DEF Frames
<1> HIDE DEF f
<1>4. Touches(heap, heap', {r}) /\ heap'.m_content[r] = Null
  BY <1>1, <1>2, ResetTouches
<1>5. SameLinks(heap, heap', {f.ref} \cup {}) /\ StoreHeap(heap')
  <2>1. {f.ref} \cup {} = {r}
    BY <1>3
  <2> QED BY <1>4, <2>1, TouchesSame
<1>6. FrameLinked(heap', f)
  BY <1>1, <1>3, <1>4 DEF FrameLinked
<1>7. Holders' = Holders /\ HoldersApart'
  BY <1>1 DEF Holders, HoldersApart, Apart
<1>8. m_refs' \in [Names -> Seq(Refs)] /\ Holders' = Holders \cup {}
  BY <1>1, <1>7 DEF TypeOK
<1> QED BY <1>1, <1>3, <1>5, <1>6, <1>7, <1>8, WaitInv

LEMMA MissingSharedEffect ==
    ASSUME StoreInv, MissingShared
    PROVE  /\ calls # <<>> /\ m_refs[Current.name] # <<>>
           /\ Current.op = "access" /\ Current.pc = "missing"
           /\ UNCHANGED <<m_metadata, held, owned, descriptors, undefined, disciplined>>
           /\ AccessOffers(Current, Front(calls), Current.ref)
<1> DEFINE f == Current
           r == Current.ref
<1>1. TypeOK /\ StoreHeap(heap) /\ Apart /\ calls # <<>> /\ m_refs[f.name] # <<>> /\ Free # {}
      /\ f.op = "access" /\ f.pc = "missing"
      /\ UNCHANGED <<m_metadata, held, owned, descriptors, undefined, disciplined>>
  BY DEF StoreInv, MissingShared, Waiting
<1>2. LET h == RefTo(heap, r, Top(f.name)) IN Offer(f, Front(calls), h, Reset(h, r))
  BY DEF MissingShared, Top
<1>3. f \in Frames /\ r \in Refs /\ r \in Locals /\ r = f.ref /\ Len(calls) \in DOMAIN calls
      /\ f = calls[Len(calls)]
  BY <1>1, CurrentCall
<1>4. heap.m_content[r] = Null
  BY <1>1, <1>3 DEF StoreInv, CallsLinked, FrameLinked
<1>5. Free \ {r} # {}
  BY <1>1, <1>3, FreePlace
<1>6. AccessOffers(f, Front(calls), r)
  BY <1>1, <1>2, <1>3, <1>4, <1>5, AccessEffect
<1> QED BY <1>1, <1>6

LEMMA MissingSharedInv ==
    ASSUME StoreInv, MissingShared
    PROVE  StoreInv'
<1> DEFINE f == Current
           r == Current.ref
<1>1. TypeOK /\ StoreHeap(heap) /\ Apart /\ calls # <<>> /\ f.op = "access"
      /\ UNCHANGED <<m_metadata, held, owned, descriptors, undefined, disciplined>>
  BY MissingSharedEffect DEF StoreInv
<1>3. f \in Frames /\ r = f.ref
  BY <1>1, CurrentCall
<1>6. AccessOffers(f, Front(calls), r)
  BY MissingSharedEffect
<1>c. f.ref = Current.ref
  OBVIOUS
<1> HIDE DEF f, r
<1>7. PICK k \in Free \ {r} : \E h :
        /\ Touches(heap, h, {r}) /\ h.memory = heap.memory
        /\ h.m_content[r] = GetContent(heap, Top(f.name))
        /\ \/ /\ Touches(h, heap', {r}) /\ heap'.m_content[r] = Null
              /\ calls' = Front(calls) /\ status' = "error" /\ m_refs' = m_refs
           \/ Accepted(f, Front(calls), h, k)
  BY <1>6 DEF AccessOffers
<1>8. PICK h :
        /\ Touches(heap, h, {r}) /\ h.memory = heap.memory
        /\ h.m_content[r] = GetContent(heap, Top(f.name))
        /\ \/ /\ Touches(h, heap', {r}) /\ heap'.m_content[r] = Null
              /\ calls' = Front(calls) /\ status' = "error" /\ m_refs' = m_refs
           \/ Accepted(f, Front(calls), h, k)
  BY <1>7
<1>9. SameLinks(heap, h, {r}) /\ StoreHeap(h)
  BY <1>8, TouchesSame
<1>10. CASE /\ Touches(h, heap', {r}) /\ heap'.m_content[r] = Null
            /\ calls' = Front(calls) /\ status' = "error" /\ m_refs' = m_refs
  <2>1. SameLinks(h, heap', {r}) /\ StoreHeap(heap')
    BY <1>10, TouchesSame
  <2>2. SameLinks(heap, heap', {r} \cup {r}) /\ {r} \cup {r} = {r}
    BY <1>9, <2>1, SameTwice
  <2>3. Holders' = Holders /\ HoldersApart'
    BY <1>1, <1>10 DEF Holders, HoldersApart, Apart
  <2>4. {r} \subseteq Holders \cup {Current.ref} /\ heap'.m_content[Current.ref] = Null
    BY <1>10 DEF r
  <2> QED BY <1>1, <1>10, <2>1, <2>2, <2>3, <2>4, ReturnInv DEF TypeOK
<1>11. CASE Accepted(f, Front(calls), h, k)
  BY <1>1, <1>3, <1>c, <1>9, <1>11, AcceptedInv
<1> QED BY <1>8, <1>10, <1>11

\* A call that drops its reference and returns.
LEMMA DroppedInv ==
    ASSUME StoreInv, calls # <<>>, calls' = Front(calls), heap' = Reset(heap, Current.ref),
           status' \in {"ok", "error"},
           UNCHANGED <<m_refs, m_metadata, held, owned, descriptors, undefined, disciplined>>
    PROVE  StoreInv'
<1> DEFINE r == Current.ref
<1>1. TypeOK /\ StoreHeap(heap) /\ Apart /\ r \in Refs
  BY CurrentCall DEF StoreInv
<1>2. Touches(heap, heap', {r}) /\ heap'.m_content[r] = Null
  BY <1>1, ResetTouches
<1>3. SameLinks(heap, heap', {r}) /\ StoreHeap(heap')
  BY <1>2, TouchesSame
<1>4. Holders' = Holders /\ HoldersApart'
  BY <1>1 DEF Holders, HoldersApart, Apart
<1> QED BY <1>1, <1>2, <1>3, <1>4, ReturnInv DEF TypeOK

LEMMA EndsInv ==
    ASSUME StoreInv, ShareDone \/ RemoveThrows
    PROVE  StoreInv'
  BY DroppedInv DEF ShareDone, RemoveThrows, Waiting, Return

LEMMA MissingThrowsInv ==
    ASSUME StoreInv, MissingThrows
    PROVE  StoreInv'
<1>1. TypeOK /\ StoreHeap(heap) /\ Apart /\ calls # <<>> /\ Current.pc = "missing"
      /\ heap' = heap /\ calls' = Front(calls) /\ status' = "error"
      /\ UNCHANGED <<m_refs, m_metadata, held, owned, descriptors, undefined, disciplined>>
  BY DEF StoreInv, MissingThrows, Waiting, Return
<1>2. Current.ref \in Refs /\ Len(calls) \in DOMAIN calls /\ Current = calls[Len(calls)]
  BY <1>1, CurrentCall
<1>3. heap'.m_content[Current.ref] = Null
  BY <1>1, <1>2 DEF StoreInv, CallsLinked, FrameLinked
<1>4. Holders' = Holders /\ HoldersApart'
  BY <1>1 DEF Holders, HoldersApart, Apart
<1>5. SameLinks(heap, heap', {}) /\ StoreHeap(heap')
  BY <1>1, SameSelf
<1> QED BY <1>1, <1>3, <1>4, <1>5, ReturnInv DEF TypeOK

LEMMA ShareThrowsInv ==
    ASSUME StoreInv, ShareThrows
    PROVE  StoreInv'
<1> DEFINE n == Current.name
           r == Current.ref
           T == IF m_refs[n] = <<>> THEN {} ELSE {Top(n)}
<1>1. TypeOK /\ StoreHeap(heap) /\ Apart
  BY DEF StoreInv
<1>2. /\ calls # <<>> /\ Current.op \in {"share", "access"}
      /\ Current.op = "share" => GivesBack(Undone, heap', r)
      /\ Current.op = "access" => Touches(Undone, heap', {r}) /\ heap'.m_content[r] = Null
  BY ShareThrowsEffect
<1>3. /\ calls' = Front(calls) /\ status' = "error" /\ undefined' \in BOOLEAN
      /\ m_refs' = [m_refs EXCEPT ![n] = IF m_refs[n] = <<>> THEN m_refs[n] ELSE Front(m_refs[n])]
      /\ UNCHANGED <<m_metadata, held, owned, descriptors, disciplined>>
  BY DEF ShareThrows, Return
<1>4. /\ Touches(heap, Undone, T) /\ \A t \in T : Undone.m_content[t] = Null
      /\ T \subseteq Holders /\ r \notin T /\ r \in Refs
  BY <1>2, UndoneTouches
<1>5. n \in Names /\ Holders \subseteq Refs
  BY <1>1, <1>2, CurrentCall, HoldersInRefs
<1>6. m_refs' \in [Names -> Seq(Refs)] /\ HoldersApart' /\ Holders' = Holders \ T
  <2>1. CASE m_refs[n] = <<>>
    <3>1. m_refs' = m_refs
      BY <1>1, <1>3, <2>1 DEF TypeOK
    <3> QED BY <1>1, <2>1, <3>1 DEF TypeOK, Apart, Holders, HoldersApart
  <2>2. CASE m_refs[n] # <<>>
    <3>1. m_refs' = [m_refs EXCEPT ![n] = Front(m_refs[n])]
      BY <1>3, <2>2
    <3> QED BY <1>1, <1>5, <2>2, <3>1, PopHolder DEF Apart, Top
  <2> QED BY <2>1, <2>2
<1> HIDE DEF T, r, n
<1>7. SameLinks(Undone, heap', {r}) /\ StoreHeap(heap') /\ heap'.m_content[r] = Null
  <2>1. CASE Current.op = "share"
    BY <1>2, <2>1, GivesBackSame
  <2>2. CASE Current.op = "access"
    BY <1>2, <2>2, TouchesSame
  <2> QED BY <1>2, <2>1, <2>2
<1>8. SameLinks(heap, Undone, T)
  BY <1>4, TouchesSame
<1>9. SameLinks(heap, heap', T \cup {r})
  BY <1>7, <1>8, SameTwice
<1>10. \A t \in Holders \ Holders' : heap'.m_content[t] = Null
  BY <1>4, <1>5, <1>6, <1>7 DEF SameLinks
<1>11. T \cup {r} \subseteq Holders \cup {Current.ref} /\ heap'.m_content[Current.ref] = Null
  BY <1>4, <1>7 DEF r
<1>12. owned' \subseteq Buffers /\ Holders' \subseteq Holders
  BY <1>1, <1>3, <1>6 DEF TypeOK
<1> QED BY <1>2, <1>3, <1>6, <1>7, <1>9, <1>10, <1>11, <1>12, ReturnInv

\* The references of a removal.
LEMMA UnlinkedPlaces ==
    ASSUME StoreInv, calls # <<>>, m_refs[Current.name] # <<>>
    PROVE  /\ Unlinked \subseteq Holders \cup {Current.ref} /\ Unlinked \subseteq Refs
           /\ Current.ref \in Unlinked /\ Top(Current.name) \in Unlinked
           /\ Current.ref \in Refs /\ Top(Current.name) \in Holders
           /\ Current.ref # Top(Current.name)
           /\ Replaces =>
                 /\ Bottom(Current.name) \in Holders /\ Bottom(Current.name) \in Unlinked
                 /\ Bottom(Current.name) # Top(Current.name)
                 /\ Bottom(Current.name) # Current.ref
<1>1. Len(m_refs[Current.name]) = 2 => Bottom(Current.name) # Top(Current.name)
  BY RemovalPlaces DEF Top, Bottom
<1> QED BY <1>1, RemovalPlaces DEF Unlinked, Top, Bottom, Replaces

LEMMA ReleaseInv ==
    ASSUME StoreInv, NEW pc, ReleaseDone(pc)
    PROVE  StoreInv'
<1> DEFINE n == Current.name
           r == Current.ref
<1>1. TypeOK /\ StoreHeap(heap) /\ Apart
  BY DEF StoreInv
<1>2. /\ calls # <<>> /\ m_refs[n] # <<>>
      /\ Touches(heap, heap', Unlinked)
      /\ heap'.m_content[r] = Null /\ heap'.m_content[Top(n)] = Null
  BY ReleaseEffect
<1>3. /\ calls' = Front(calls) /\ status' = "ok"
      /\ m_refs' = [m_refs EXCEPT ![n] = Front(m_refs[n])]
      /\ owned' = owned \cup {BufferOf(Popped, q) : q \in {q \in {r} : ~IsNull(Popped, q)}}
      /\ UNCHANGED <<m_metadata, held, descriptors, undefined, disciplined>>
  BY DEF ReleaseDone, Return
<1>4. r \in Refs /\ n \in Names /\ Unlinked \subseteq Holders \cup {r}
  BY <1>1, <1>2, CurrentCall, UnlinkedPlaces
<1>5. m_refs' \in [Names -> Seq(Refs)] /\ HoldersApart' /\ Holders' = Holders \ {Top(n)}
  BY <1>1, <1>2, <1>3, <1>4, PopHolder DEF Apart, Top
<1>6. owned' \subseteq Buffers
  <2>1. StoreHeap(Popped)
    BY <1>2, PoppedTouches DEF Touches
  <2>2. ~IsNull(Popped, r) => BufferOf(Popped, r) \in Buffers
    <3>1. ~IsNull(Popped, r) => GetContent(Popped, r) # Null
      BY DEF GetContent, IsNull
    <3> QED BY <1>4, <2>1, <3>1, SeenContent
  <2> QED BY <1>1, <1>3, <2>2 DEF TypeOK
<1>7. SameLinks(heap, heap', Unlinked) /\ StoreHeap(heap')
  BY <1>2, TouchesSame
<1>8. undefined' \in BOOLEAN
  BY <1>1, <1>3 DEF TypeOK
<1> QED BY <1>2, <1>3, <1>4, <1>5, <1>6, <1>7, <1>8, ReturnInv

LEMMA ReclaimInv ==
    ASSUME StoreInv, NEW pc, ReclaimDone(pc)
    PROVE  StoreInv'
<1> DEFINE n == Current.name
           r == Current.ref
           u == Bottom(n)
<1>1. TypeOK /\ StoreHeap(heap) /\ Apart
  BY DEF StoreInv
<1>2. /\ calls # <<>> /\ m_refs[n] # <<>>
      /\ \/ /\ Replaces
            /\ \E c \in FreshContents(heap), b \in FreshBuffers(heap) : \E g :
                  /\ Creates(Bare, g, u, c, b) /\ GivesBack(g, heap', r) /\ owned' = owned \cup {b}
         \/ GivesBack(Bare, heap', r) /\ owned' = owned
  BY ReclaimEffect
<1>3. /\ calls' = Front(calls) /\ status' = "ok"
      /\ m_refs' = [m_refs EXCEPT ![n] = Front(m_refs[n])]
      /\ UNCHANGED <<m_metadata, held, descriptors, undefined, disciplined>>
  BY DEF ReclaimDone, Return
<1>4. /\ r \in Refs /\ n \in Names /\ Unlinked \subseteq Holders \cup {r} /\ r \in Unlinked
      /\ Top(n) \in Refs /\ Top(n) # r
      /\ Replaces => u \in Unlinked /\ u # Top(n)
  BY <1>1, <1>2, CurrentCall, UnlinkedPlaces, HoldersInRefs
<1>5. m_refs' \in [Names -> Seq(Refs)] /\ HoldersApart' /\ Holders' = Holders \ {Top(n)}
  BY <1>1, <1>2, <1>3, <1>4, PopHolder DEF Apart, Top
<1>6. Touches(heap, Bare, Unlinked) /\ Bare.m_content[Top(n)] = Null
  BY <1>2, BareTouches
<1>7. SameLinks(heap, Bare, Unlinked) /\ StoreHeap(Bare)
  BY <1>6, TouchesSame
<1> HIDE DEF n, r, u
<1>8. /\ SameLinks(Bare, heap', Unlinked) /\ StoreHeap(heap') /\ heap'.m_content[r] = Null
      /\ heap'.m_content[Top(n)] = Null /\ owned' \subseteq Buffers
  <2>1. ASSUME Replaces, NEW c \in FreshContents(heap), NEW b \in FreshBuffers(heap), NEW g,
               Creates(Bare, g, u, c, b), GivesBack(g, heap', r), owned' = owned \cup {b}
        PROVE  /\ SameLinks(Bare, heap', Unlinked) /\ StoreHeap(heap') /\ heap'.m_content[r] = Null
               /\ heap'.m_content[Top(n)] = Null /\ owned' \subseteq Buffers
    <3>1. c \in FreshContents(Bare)
      BY <1>6, TouchesFresh
    <3>2. SameLinks(Bare, g, {u}) /\ StoreHeap(g)
      BY <1>7, <2>1, <3>1, CreatesSame
    <3>3. SameLinks(g, heap', {r}) /\ StoreHeap(heap') /\ heap'.m_content[r] = Null
      BY <2>1, GivesBackSame
    <3>4. SameLinks(Bare, heap', Unlinked)
      BY <1>4, <2>1, <3>2, <3>3 DEF SameLinks
    <3>5. heap'.m_content[Top(n)] = Null
      BY <1>4, <1>6, <2>1, <3>2, <3>3 DEF SameLinks
    <3>6. owned' \subseteq Buffers
      BY <1>1, <2>1 DEF TypeOK, FreshBuffers
    <3> QED BY <3>3, <3>4, <3>5, <3>6
  <2>2. CASE GivesBack(Bare, heap', r) /\ owned' = owned
    <3>1. SameLinks(Bare, heap', {r}) /\ StoreHeap(heap') /\ heap'.m_content[r] = Null
      BY <2>2, GivesBackSame
    <3>2. SameLinks(Bare, heap', Unlinked)
      BY <1>4, <3>1 DEF SameLinks
    <3>3. heap'.m_content[Top(n)] = Null
      BY <1>4, <1>6, <3>1 DEF SameLinks
    <3>4. owned' \subseteq Buffers
      BY <1>1, <2>2 DEF TypeOK
    <3> QED BY <3>1, <3>2, <3>3, <3>4
  <2> QED BY <1>2, <2>1, <2>2
<1>9. SameLinks(heap, heap', Unlinked)
  <2>1. SameLinks(heap, heap', Unlinked \cup Unlinked) /\ Unlinked \cup Unlinked = Unlinked
    BY <1>7, <1>8, SameTwice
  <2> QED BY <2>1
<1>10. undefined' \in BOOLEAN
  BY <1>1, <1>3 DEF TypeOK
<1>11. /\ Unlinked \subseteq Holders \cup {Current.ref} /\ heap'.m_content[Current.ref] = Null
       /\ Holders' \subseteq Holders /\ \A q \in Holders \ Holders' : heap'.m_content[q] = Null
  BY <1>4, <1>5, <1>8 DEF r
<1> QED BY <1>2, <1>3, <1>5, <1>8, <1>9, <1>10, <1>11, ReturnInv

LEMMA CopyThrowsInv ==
    ASSUME StoreInv, NEW pc, ReclaimCopyThrows(pc)
    PROVE  StoreInv'
<1> DEFINE n == Current.name
           r == Current.ref
<1>1. TypeOK /\ StoreHeap(heap) /\ Apart
  BY DEF StoreInv
<1>2. /\ calls # <<>> /\ m_refs[n] # <<>> /\ Replaces
      /\ Touches(heap, heap', Unlinked)
      /\ \A q \in Unlinked : heap'.m_content[q] = Null
  BY CopyThrowsEffect
<1>3. /\ calls' = Front(calls) /\ status' = "error"
      /\ m_refs' = [m_refs EXCEPT ![n] = <<>>]
      /\ UNCHANGED <<m_metadata, held, owned, descriptors, undefined, disciplined>>
  BY DEF ReclaimCopyThrows, Return
<1>4. /\ r \in Refs /\ n \in Names /\ Unlinked \subseteq Holders \cup {r} /\ r \in Unlinked
      /\ Top(n) \in Unlinked /\ Bottom(n) \in Unlinked
  BY <1>1, <1>2, CurrentCall, UnlinkedPlaces
<1>5. /\ m_refs' \in [Names -> Seq(Refs)] /\ HoldersApart'
      /\ Holders' = Holders \ {m_refs[n][i] : i \in DOMAIN m_refs[n]}
  BY <1>1, <1>3, <1>4, ClearHolders DEF Apart
<1>6. {m_refs[n][i] : i \in DOMAIN m_refs[n]} = {Bottom(n), Top(n)}
  BY <1>2, RemovalPlaces DEF Replaces, Top, Bottom
<1>7. \A q \in Holders \ Holders' : heap'.m_content[q] = Null
  BY <1>2, <1>4, <1>5, <1>6
<1>8. SameLinks(heap, heap', Unlinked) /\ StoreHeap(heap')
  BY <1>2, TouchesSame
<1>9. undefined' \in BOOLEAN /\ owned' \subseteq Buffers /\ Holders' \subseteq Holders
  BY <1>1, <1>3, <1>5 DEF TypeOK
<1> QED BY <1>2, <1>3, <1>4, <1>5, <1>7, <1>8, <1>9, ReturnInv

LEMMA StepInv ==
    ASSUME StoreInv, Next
    PROVE  StoreInv'
<1>1. Modes \subseteq Access /\ PluginRights \subseteq Access
  BY DataAssumption
<1>2. ASSUME NEW n \in Names, NEW a \in Modes,
             \/ LoadData(n) \/ Share(n, a) \/ AccessShared(n, a) \/ AccessMissing(n, a)
      PROVE  StoreInv'
  BY <1>1, <1>2, LoadDataInv, ShareInv, AccessSharedInv, AccessMissingInv
<1>3. ASSUME NEW n \in Names,
             \/ LoadData(n)
             \/ RemoveBegins("release", n) \/ RemoveBegins("reclaim", n) \/ RemoveRefused(n)
             \/ \E R \in PluginRights : Hold(n, R)
             \/ Destroy(n)
      PROVE  StoreInv'
  BY <1>1, <1>3, LoadDataInv, RemoveBeginsInv, RemoveRefusedInv, HoldInv, DestroyInv
<1>4. ASSUME ShareDone \/ ShareThrows \/ RemoveThrows \/ RemoveMissing \/ MissingThrows \/ MissingShared
      PROVE  StoreInv'
  BY <1>4, EndsInv, ShareThrowsInv, RemoveMissingInv, MissingThrowsInv, MissingSharedInv
<1>5. ASSUME NEW pc, ReleaseDone(pc) \/ ReclaimDone(pc) \/ ReclaimCopyThrows(pc)
      PROVE  StoreInv'
  BY <1>5, ReleaseInv, ReclaimInv, CopyThrowsInv
<1> QED BY <1>2, <1>3, <1>4, <1>5, DropInv, Zenon DEF Next

\* What StoreInv says depends on the variables only.
LEMMA StoreStutters ==
    ASSUME UNCHANGED vars, StoreInv
    PROVE  StoreInv'
<1>1. TypeOK' /\ StoreHeap(heap') /\ Holders' = Holders /\ Locals' = Locals
  BY DEF vars, StoreInv, TypeOK, Holders, Locals
<1>2. HoldersApart' = HoldersApart /\ LocalsApart' = LocalsApart
  BY DEF vars, HoldersApart, LocalsApart
<1>3. NoStrayReference' /\ CallsLinked'
  BY <1>1 DEF vars, StoreInv, NoStrayReference, CallsLinked
<1> QED BY <1>1, <1>2, <1>3 DEF StoreInv, Apart, vars

-----------------------------------------------------------------------------
(* The theorems about the store, whatever callbacks do *)

\* The invariant of the store holds in every state.
THEOREM StoreInvHolds == Spec => []StoreInv
<1>1. Init => StoreInv
  BY InitInv
<1>2. StoreInv /\ [Next]_vars => StoreInv'
  BY StepInv, StoreStutters
<1> QED BY <1>1, <1>2, PTL DEF Spec

\* The variables keep their types, whatever callbacks do.
THEOREM TypeCorrect == Spec => []TypeOK
<1>1. StoreInv => TypeOK
  BY DEF StoreInv
<1> QED BY <1>1, StoreInvHolds, PTL

\* The references of the store, the locals of the calls and what plugins keep
\* never break what Ref_any promises (locks balanced, writers exclusive, no
\* reference to memory that is gone), whatever callbacks nest, keep or throw.
THEOREM StoreConsistent == Spec => []StoreIsConsistent
<1>1. StoreInv => StoreIsConsistent
  BY DEF StoreInv, StoreHeap, StoreIsConsistent
<1> QED BY <1>1, StoreInvHolds, PTL

\* share, access, release and reclaim forget no reference on any of their
\* paths, the ones through exceptions and nested calls included.
THEOREM NothingStray == Spec => []NoStrayReference
<1>1. StoreInv => NoStrayReference
  BY DEF StoreInv
<1> QED BY <1>1, StoreInvHolds, PTL

-----------------------------------------------------------------------------
(* A share that fails *)

\* What FailedShareKeepsMemory says of a step.
FailsSafely ==
    /\ Len(calls') < Len(calls) /\ status' = "error" /\ Current.op = "share"
          => heap'.memory[Current.buffer] = "user"
    /\ \A b \in FreshBuffers(heap) :
          heap'.memory[b] # "none" /\ calls' = calls => heap'.memory[b] = "user"

\* Steps that make no data.
LEMMA TouchesSafely ==
    ASSUME NEW S, Touches(heap, heap', S),
           ~(Len(calls') < Len(calls)) \/ status' = "ok" \/ Current.op # "share"
    PROVE  FailsSafely
<1>1. \A b \in FreshBuffers(heap) : heap'.memory[b] = "none"
  BY TouchesFresh DEF FreshBuffers
<1> QED BY <1>1 DEF FailsSafely

LEMMA SelfTouches ==
    ASSUME StoreInv, heap' = heap
    PROVE  Touches(heap, heap', {})
  BY DEF StoreInv, Touches

\* The sizes of the stack of calls.
LEMMA CallSizes ==
    ASSUME TypeOK
    PROVE  /\ Len(calls) \in Nat /\ ~(Len(calls) < Len(calls))
           /\ \A f \in Frames : Append(calls, f) # calls /\ ~(Len(Append(calls, f)) < Len(calls))
           /\ calls # <<>> =>
                 /\ Front(calls) # calls
                 /\ \A f \in Frames : ~(Len(Append(Front(calls), f)) < Len(calls))
<1>1. calls \in Seq(Frames) /\ Len(calls) \in Nat
  BY DEF TypeOK
<1>2. \A f \in Frames : Len(Append(calls, f)) = Len(calls) + 1
  BY <1>1
<1>3. calls # <<>> => Len(Front(calls)) = Len(calls) - 1 /\ Front(calls) \in Seq(Frames)
  <2> SUFFICES ASSUME calls # <<>>
               PROVE  Len(Front(calls)) = Len(calls) - 1 /\ Front(calls) \in Seq(Frames)
    OBVIOUS
  <2>1. Front(calls) = SubSeq(calls, 1, Len(calls) - 1)
    BY DEF Front
  <2>2. Len(calls) > 0 /\ DOMAIN calls = 1 .. Len(calls)
    BY CurrentCall
  <2> DEFINE c == Front(calls)
             l == Len(calls)
  <2>3. c = SubSeq(calls, 1, l - 1) /\ l \in Nat /\ l > 0 /\ DOMAIN calls = 1 .. l
    BY <1>1, <2>1, <2>2
  <2> HIDE DEF c
  <2>4. c \in Seq(Frames) /\ Len(c) = l - 1
    BY <1>1, <2>3
  <2> QED BY <2>4 DEF c
<1>4. calls # <<>> => \A f \in Frames : Len(Append(Front(calls), f)) = Len(calls)
  BY <1>1, <1>3
<1>5. \A f \in Frames : Append(calls, f) # calls
  BY <1>1, <1>2
<1> QED BY <1>1, <1>2, <1>3, <1>4, <1>5

LEMMA ShareSafely ==
    ASSUME StoreInv, NEW n \in Names, NEW a \in Access, Share(n, a)
    PROVE  FailsSafely
<1>1. TypeOK
  BY DEF StoreInv
<1>2. PICK r \in Free, c \in FreshContents(heap), b \in FreshBuffers(heap) :
      \E k \in Free \ {r} : \E h :
         /\ Creates(heap, h, r, c, b)
         /\ \/ GivesBack(h, heap', r) /\ calls' = calls /\ status' = "error" /\ m_refs' = m_refs
            \/ Accepted(Call("share", n, r, {}, b, "notify"), calls, h, k)
  BY ShareEffect
<1>3. PICK h :
         /\ Creates(heap, h, r, c, b)
         /\ \/ GivesBack(h, heap', r) /\ calls' = calls
            \/ \E k : Accepted(Call("share", n, r, {}, b, "notify"), calls, h, k)
  BY <1>2
<1>4. CASE GivesBack(h, heap', r) /\ calls' = calls
  <2>1. c # Null /\ b \in Buffers
    BY HeapAssumption DEF FreshContents, FreshBuffers
  <2>2. ~IsNull(h, r) /\ BufferOf(h, r) = b /\ \A d \in Buffers \ {b} : h.memory[d] = heap.memory[d]
    BY <1>3, <2>1 DEF Creates, IsNull, BufferOf
  <2>3. \A d \in Buffers : heap'.memory[d] = IF d = b THEN "user" ELSE h.memory[d]
    BY <1>4, <2>2 DEF GivesBack
  <2>4. \A d \in FreshBuffers(heap) : d \in Buffers /\ heap.memory[d] = "none"
    BY DEF FreshBuffers
  <2>5. \A d \in FreshBuffers(heap) : heap'.memory[d] # "none" => heap'.memory[d] = "user"
    BY <2>1, <2>2, <2>3, <2>4
  <2>6. ~(Len(calls') < Len(calls))
    BY <1>1, <1>4, CallSizes
  <2> QED BY <2>5, <2>6 DEF FailsSafely
<1>5. CASE \E k : Accepted(Call("share", n, r, {}, b, "notify"), calls, h, k)
  <2> DEFINE f == Call("share", n, r, {}, b, "notify")
  <2>1. f \in Frames
    <3>1. r \in Refs /\ b \in Buffers
      BY FreePlace DEF FreshBuffers
    <3> QED BY <1>1, <3>1, CallFields DEF Access
  <2>2. calls' = Append(calls, Notifying(f))
    BY <1>5 DEF Accepted
  <2> HIDE DEF f
  <2>3. Notifying(f) \in Frames
    BY <1>1, <2>1, NotifyingFields
  <2>4. calls' # calls /\ ~(Len(calls') < Len(calls))
    BY <1>1, <2>2, <2>3, CallSizes
  <2> QED BY <2>4 DEF FailsSafely
<1> QED BY <1>3, <1>4, <1>5

\* A callback of notify_data threw: whatever the callbacks did with the data,
\* it is nullified now, or it was already.
LEMMA ShareThrowsSafely ==
    ASSUME StoreInv, ShareThrows
    PROVE  FailsSafely
<1>1. /\ calls # <<>> /\ Current.op \in {"share", "access"}
      /\ Current.op = "share" => GivesBack(Undone, heap', Current.ref)
  BY ShareThrowsEffect
<1>2. calls' # calls
  <2>1. TypeOK /\ calls' = Front(calls)
    BY DEF StoreInv, ShareThrows, Return
  <2> QED BY <1>1, <2>1, CallSizes
<1>3. ASSUME Current.op = "share"
      PROVE  heap'.memory[Current.buffer] = "user"
  <2> DEFINE r == Current.ref
             b == Current.buffer
  <2>1. r \in Refs /\ FrameLinked(heap, Current)
    <3>1. r \in Refs /\ Current = calls[Len(calls)] /\ Len(calls) \in DOMAIN calls
      BY <1>1, CurrentCall DEF StoreInv
    <3> QED BY <3>1 DEF StoreInv, CallsLinked
  <2>2. heap.m_content[r] # Null /\ b \in Buffers /\ BufferOf(heap, r) = b
    BY <1>3, <2>1 DEF FrameLinked
  <2>3. Undone.m_content[r] = heap.m_content[r] /\ StoreHeap(Undone) /\ Undone.m_buffer = heap.m_buffer
    BY <1>1, UndoneTouches DEF Touches
  <2>4. Undone.m_content[r] # Null /\ BufferOf(Undone, r) = b
    BY <2>2, <2>3 DEF BufferOf
  <2>5. CASE ~IsNull(Undone, r)
    BY <1>1, <1>3, <2>2, <2>4, <2>5 DEF GivesBack
  <2>6. CASE IsNull(Undone, r)
    <3>1. heap'.memory[b] = Undone.memory[b]
      BY <1>1, <1>3, <2>2, <2>6 DEF GivesBack
    <3>2. ~Undone.m_data[Undone.m_content[r]]
      BY <2>4, <2>6 DEF IsNull
    <3>3. Undone.m_content[r] \in Contents /\ b # Null
      BY <2>1, <2>2, <2>3, <2>4, HeapFields, HeapAssumption DEF StoreHeap, HeapInv
    <3>4. Undone.memory[b] = "user"
      BY <2>3, <2>4, <3>2, <3>3 DEF StoreHeap, Nulled, BufferOf
    <3> QED BY <3>1, <3>4
  <2> QED BY <2>5, <2>6
<1> QED BY <1>2, <1>3 DEF FailsSafely

\* PDI_access makes no data.
LEMMA OffersTouches ==
    ASSUME NEW f, NEW cs, NEW r, AccessOffers(f, cs, r)
    PROVE  /\ \E S : Touches(heap, heap', S)
           /\ calls' = cs \/ calls' = Append(cs, Notifying(f))
<1>1. PICK k \in Free \ {r} : \E h :
        /\ Touches(heap, h, {r})
        /\ \/ Touches(h, heap', {r}) /\ calls' = cs
           \/ Accepted(f, cs, h, k)
  BY DEF AccessOffers
<1>2. PICK h :
        /\ Touches(heap, h, {r})
        /\ \/ Touches(h, heap', {r}) /\ calls' = cs
           \/ Accepted(f, cs, h, k)
  BY <1>1
<1>3. PICK T : Touches(h, heap', T)
  BY <1>2 DEF Accepted
<1>4. Touches(heap, heap', {r} \cup T)
  BY <1>2, <1>3, TouchesTwice
<1>5. calls' = cs \/ calls' = Append(cs, Notifying(f))
  BY <1>2 DEF Accepted
<1> QED BY <1>4, <1>5

\* The calls that offer or ask for data that is there, or is missing.
LEMMA AccessSafely ==
    ASSUME StoreInv, NEW n \in Names, NEW R \in Access,
           AccessShared(n, R) \/ AccessMissing(n, R)
    PROVE  FailsSafely
<1>1. TypeOK
  BY DEF StoreInv
<1>2. CASE AccessShared(n, R)
  <2>1. PICK r \in Free : AccessOffers(Call("access", n, r, R, Null, "notify"), calls, r)
    BY <1>2, AccessSharedEffect
  <2> DEFINE f == Call("access", n, r, R, Null, "notify")
  <2>2. f \in Frames
    BY <1>1, CallFields, FreePlace
  <2>3. AccessOffers(f, calls, r)
    BY <2>1
  <2> HIDE DEF f
  <2>4. Notifying(f) \in Frames
    BY <1>1, <2>2, NotifyingFields
  <2>5. ~(Len(calls') < Len(calls))
    BY <1>1, <2>3, <2>4, OffersTouches, CallSizes
  <2> QED BY <2>3, <2>5, OffersTouches, TouchesSafely
<1>3. CASE AccessMissing(n, R)
  <2> DEFINE f == Call("access", n, Some(Free), R, Null, "missing")
  <2>1. heap' = heap /\ calls' = Append(calls, f) /\ MayCall
    BY <1>3 DEF AccessMissing
  <2>2. f \in Frames
    BY <1>1, <2>1, CallFields, TwoFree, FreePlace
  <2> HIDE DEF f
  <2>3. ~(Len(calls') < Len(calls))
    BY <1>1, <2>1, <2>2, CallSizes
  <2> QED BY <2>1, <2>3, SelfTouches, TouchesSafely
<1> QED BY <1>2, <1>3

LEMMA RemoveSafely ==
    ASSUME StoreInv, NEW n \in Names, NEW op \in {"release", "reclaim"}, RemoveBegins(op, n)
    PROVE  FailsSafely
<1> DEFINE r == Some(Free)
           f == Call(op, n, r, {}, Null, "notify")
<1>1. TypeOK /\ m_refs[n] # <<>> /\ MayCall
  <2>1. TypeOK
    BY DEF StoreInv
  <2> QED BY <2>1 DEF RemoveBegins, Shared, TypeOK
<1>2. heap' = RefTo(heap, r, Top(n)) /\ calls' = Append(calls, f)
  BY DEF RemoveBegins, Top
<1>3. r \in Refs /\ heap.m_content[r] = Null
  BY <1>1, TwoFree, FreePlace
<1> HIDE DEF r
<1>4. f \in Frames
  BY <1>1, <1>3, CallFields DEF Access
<1> HIDE DEF f
<1>5. Touches(heap, heap', {r})
  BY <1>1, <1>2, <1>3, RefToTop
<1>6. ~(Len(calls') < Len(calls))
  BY <1>1, <1>2, <1>4, CallSizes
<1> QED BY <1>5, <1>6, TouchesSafely

\* What changes no call.
LEMMA RestSafely ==
    ASSUME StoreInv, NEW n \in Names,
           \/ LoadData(n) \/ RemoveRefused(n) \/ Destroy(n)
           \/ \E R \in Access : Hold(n, R)
    PROVE  FailsSafely
<1>1. TypeOK /\ StoreHeap(heap) /\ ~(Len(calls) < Len(calls))
  BY CallSizes DEF StoreInv
<1>2. CASE LoadData(n) \/ RemoveRefused(n)
  <2>1. heap' = heap /\ calls' = calls
    BY <1>2 DEF LoadData, RemoveRefused
  <2> QED BY <1>1, <2>1, SelfTouches, TouchesSafely
<1>3. CASE Destroy(n)
  <2>1. calls' = calls
    BY <1>3 DEF Destroy
  <2>2. \E S : Touches(heap, heap', S)
    <3>1. CASE heap' = heap
      BY <3>1, SelfTouches
    <3>2. CASE heap' # heap
      <4>1. heap' = Reset(heap, m_refs[n][1]) /\ Len(m_refs[n]) = 1
        BY <1>3, <3>2 DEF Destroy
      <4>2. 1 \in DOMAIN m_refs[n]
        BY <1>1, <4>1 DEF TypeOK
      <4> QED BY <1>1, <4>1, <4>2, HolderIn, ResetTouches
    <3> QED BY <3>1, <3>2
  <2> QED BY <1>1, <2>1, <2>2, TouchesSafely
<1>4. ASSUME NEW R \in Access, Hold(n, R)
      PROVE  FailsSafely
  <2> DEFINE r == Some(Free)
             t == Last(m_refs[n])
  <2>1. /\ calls' = calls /\ heap' = Link(heap, r, R, GetContent(heap, t))
        /\ Free # {} /\ m_refs[n] # <<>>
    BY <1>4 DEF Hold
  <2>2. r \in Refs /\ heap.m_content[r] = Null /\ t \in Refs
    BY <1>1, <2>1, SomeIn, FreePlace, TopHolder
  <2> HIDE DEF r, t
  <2>3. Touches(heap, heap', {r})
    BY <1>1, <2>1, <2>2, LinkTouches
  <2> QED BY <1>1, <2>1, <2>3, TouchesSafely
<1> QED BY <1>2, <1>3, <1>4

\* The ends of the calls other than a share that fails.
LEMMA EndsSafely ==
    ASSUME StoreInv, NEW pc,
           \/ ShareDone \/ RemoveThrows \/ RemoveMissing \/ MissingThrows \/ MissingShared
           \/ ReleaseDone(pc) \/ ReclaimDone(pc) \/ ReclaimCopyThrows(pc)
    PROVE  FailsSafely
<1>1. TypeOK /\ StoreHeap(heap)
  BY DEF StoreInv
<1>2. CASE ShareDone \/ RemoveThrows \/ RemoveMissing
  <2>1. calls # <<>> /\ heap' = Reset(heap, Current.ref) /\ (status' = "ok" \/ Current.op # "share")
    BY <1>2 DEF ShareDone, RemoveThrows, RemoveMissing, Waiting, Return
  <2> QED BY <1>1, <2>1, CurrentCall, ResetTouches, TouchesSafely
<1>3. CASE MissingThrows
  <2>1. heap' = heap /\ Current.op # "share"
    BY <1>3 DEF MissingThrows, Waiting, Return
  <2> QED BY <2>1, SelfTouches, TouchesSafely
<1>4. CASE MissingShared
  <2>1. AccessOffers(Current, Front(calls), Current.ref) /\ Current.op = "access"
    BY <1>4, MissingSharedEffect
  <2> QED BY <2>1, OffersTouches, TouchesSafely
<1>5. CASE ReleaseDone(pc)
  <2>1. status' = "ok"
    BY <1>5 DEF ReleaseDone, Return
  <2> QED BY <1>5, <2>1, ReleaseEffect, TouchesSafely
<1>6. CASE ReclaimDone(pc)
  <2>1. status' = "ok" /\ calls' = Front(calls) /\ calls # <<>>
    BY <1>6 DEF ReclaimDone, Return, Waiting
  <2> QED BY <1>1, <2>1, CallSizes DEF FailsSafely
<1>7. CASE ReclaimCopyThrows(pc)
  <2>1. Current.op # "share"
    BY <1>7 DEF ReclaimCopyThrows, Waiting
  <2> QED BY <1>7, <2>1, CopyThrowsEffect, TouchesSafely
<1> QED BY <1>2, <1>3, <1>4, <1>5, <1>6, <1>7

LEMMA StepSafely ==
    ASSUME StoreInv, Next
    PROVE  FailsSafely
<1>1. Modes \subseteq Access /\ PluginRights \subseteq Access
  BY DataAssumption
<1>2. ASSUME NEW n \in Names, NEW a \in Modes, Share(n, a) \/ AccessShared(n, a) \/ AccessMissing(n, a)
      PROVE  FailsSafely
  BY <1>1, <1>2, ShareSafely, AccessSafely
<1>3. ASSUME NEW n \in Names,
             \/ LoadData(n)
             \/ RemoveBegins("release", n) \/ RemoveBegins("reclaim", n) \/ RemoveRefused(n)
             \/ \E R \in PluginRights : Hold(n, R)
             \/ Destroy(n)
      PROVE  FailsSafely
  BY <1>1, <1>3, RemoveSafely, RestSafely
<1>4. ASSUME NEW s, Drop(s)
      PROVE  FailsSafely
  <2>1. TypeOK /\ StoreHeap(heap) /\ ~(Len(calls) < Len(calls))
    BY CallSizes DEF StoreInv
  <2>2. calls' = calls /\ heap' = Reset(heap, s) /\ s \in Refs
    BY <1>4, <2>1 DEF Drop, TypeOK
  <2> QED BY <2>1, <2>2, ResetTouches, TouchesSafely
<1>5. ASSUME ShareDone \/ RemoveThrows \/ RemoveMissing \/ MissingThrows \/ MissingShared
      PROVE  FailsSafely
  BY <1>5, EndsSafely
<1>6. ASSUME NEW pc, ReleaseDone(pc) \/ ReclaimDone(pc) \/ ReclaimCopyThrows(pc)
      PROVE  FailsSafely
  BY <1>6, EndsSafely
<1> QED BY <1>2, <1>3, <1>4, <1>5, <1>6, ShareThrowsSafely, Zenon DEF Next

\* "on error, do not free the data": in every step by which PDI_share fails,
\* at once or after callbacks that shared, released, reclaimed or kept the same
\* data, the memory is left with the user.
THEOREM FailedShareSafe == Spec => FailedShareKeepsMemory
<1>1. StoreInv /\ [Next]_vars => [FailsSafely]_vars
  BY StepSafely
<1>2. [][FailsSafely]_vars => FailedShareKeepsMemory
  BY PTL DEF FailedShareKeepsMemory, FailsSafely
<1> QED BY <1>1, <1>2, StoreInvHolds, PTL DEF Spec

=============================================================================

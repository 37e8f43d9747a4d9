------------------------ MODULE DataDisciplineProofs ------------------------
(***************************************************************************)
(* Theorems about the data store when the callbacks of plugins remove only *)
(* what they share: a metadata keeps its placeholder, PDI deallocates only *)
(* what it owns, and the references, calls and callbacks of the store      *)
(* implement the stacks of values of DataStore.                            *)
(***************************************************************************)
EXTENDS DataDescriptorProofs

-----------------------------------------------------------------------------
(* The invariant of disciplined callbacks *)

\* The placeholders, below the shares of the metadata.
Placeholders == {m_refs[n][1] : n \in {n \in m_metadata : m_refs[n] # <<>>}}

\* What the innermost call may remove is above what all calls found.
DepthsKept ==
    /\ \A i \in DOMAIN calls, n \in Names : calls[i].depth[n] <= Len(m_refs[n])
    /\ \A i, j \in DOMAIN calls, n \in Names :
          i < j => calls[i].depth[n] <= calls[j].depth[n]
    /\ \A i, j \in DOMAIN calls :
          i < j /\ calls[j].pc = "notify" =>
              calls[i].depth[calls[j].name] < calls[j].depth[calls[j].name]

\* A call f that notifies works on the holder at its depth: above the
\* placeholder, and for PDI_access above a holder of the same data.
HolderKept(refs, meta, h, f) ==
    LET s == refs[f.name]
        d == f.depth[f.name]
    IN  /\ f.pc = "missing" => f.op = "access"
        /\ f.pc = "notify" => d > 0 /\ (f.name \in meta => d > 1)
        /\ f.op = "share" => h.m_content[s[d]] = h.m_content[f.ref]
        /\ f.op = "access" /\ f.pc = "notify" =>
              d > 1 /\ h.m_content[s[d]] \in {Null, h.m_content[s[d - 1]]}

CallsKept == \A i \in DOMAIN calls : HolderKept(m_refs, m_metadata, heap, calls[i])

\* The references that nobody resets except to pop a share.
Guards == Refs \ (Locals \cup held \cup Placeholders)

\* The buffers that are not PDI's have a guard, among the references G.
Guarded(h, G, O) ==
    \A b \in Buffers : h.memory[b] = "managed" /\ b \notin O => \E r \in G : r \in OnBuffer(h, b)

FreedIn(h, O) == \A b \in Buffers : h.memory[b] = "freed" => b \in O

PlaceholdersOwned ==
    \A r \in Placeholders : IsNull(heap, r) \/ BufferOf(heap, r) \in owned

MemoryKept == Guarded(heap, Guards, owned) /\ FreedIn(heap, owned) /\ PlaceholdersOwned

Kept == AlwaysPlaceholder /\ DepthsKept /\ CallsKept /\ MemoryKept

DisciplineInv == disciplined => Kept

-----------------------------------------------------------------------------
(* Guards *)

\* Links and unlinks of the references of S: the guards that are lost lead to
\* no memory that PDI would deallocate wrongly.
LEMMA GuardTouches ==
    ASSUME NEW h, NEW g, NEW S, Touches(h, g, S), NEW G \in SUBSET Refs, NEW K, NEW O, NEW P, O \subseteq P,
           Guarded(h, G, O), FreedIn(h, O),
           \A r \in G : \A b \in Buffers :
              h.memory[b] = "managed" /\ r \in OnBuffer(h, b) => b \in P \/ (r \in K /\ r \notin S)
    PROVE  Guarded(g, K, P) /\ FreedIn(g, P)
<1>1. \A r \in Refs \ S : \A b : r \in OnBuffer(h, b) => r \in OnBuffer(g, b)
  BY DEF Touches, OnBuffer, BufferOf
<1>2. ASSUME NEW b \in Buffers, g.memory[b] = "managed", b \notin P
      PROVE  \E r \in K : r \in OnBuffer(g, b)
  <2>1. h.memory[b] = "managed" /\ b \notin O
    BY <1>2 DEF Touches
  <2>2. PICK r \in G : r \in OnBuffer(h, b)
    BY <2>1 DEF Guarded
  <2>3. r \in K /\ r \notin S
    BY <1>2, <2>1, <2>2
  <2> QED BY <1>1, <2>2, <2>3
<1>3. ASSUME NEW b \in Buffers, g.memory[b] = "freed"
      PROVE  b \in P
  <2>1. CASE h.memory[b] = "freed"
    BY <2>1 DEF FreedIn
  <2>2. CASE h.memory[b] = "managed" /\ OnBuffer(h, b) \subseteq S /\ b \notin O
    <3>1. PICK r \in G : r \in OnBuffer(h, b)
      BY <2>2 DEF Guarded
    <3> QED BY <2>2, <3>1
  <2> QED BY <1>3, <2>1, <2>2 DEF Touches
<1> QED BY <1>2, <1>3 DEF Guarded, FreedIn

\* Memory that is given back needs no guard any more.
LEMMA GuardGivesBack ==
    ASSUME NEW h, NEW g, NEW r, GivesBack(h, g, r), NEW G \in SUBSET Refs, r \notin G, NEW O,
           Guarded(h, G, O), FreedIn(h, O)
    PROVE  Guarded(g, G, O) /\ FreedIn(g, O)
<1>1. \A s \in G : \A b : s \in OnBuffer(h, b) => s \in OnBuffer(g, b)
  BY DEF GivesBack, OnBuffer, BufferOf
<1>2. \A b \in Buffers : g.memory[b] # "user" => g.memory[b] = h.memory[b]
  BY DEF GivesBack
<1>3. Guarded(g, G, O)
  BY <1>1, <1>2 DEF Guarded
<1>4. FreedIn(g, O)
  BY <1>2 DEF FreedIn
<1> QED BY <1>3, <1>4

\* Nor does memory that is with the user.
LEMMA GuardUser ==
    ASSUME NEW h, NEW G, NEW O, NEW B, Guarded(h, G, O \cup B), FreedIn(h, O \cup B),
           \A b \in B : h.memory[b] = "user"
    PROVE  Guarded(h, G, O) /\ FreedIn(h, O)
  BY DEF Guarded, FreedIn

\* New data is guarded, or PDI's.
LEMMA GuardCreates ==
    ASSUME NEW h, NEW g, NEW r, NEW c \in FreshContents(h), NEW b, StoreHeap(h), Creates(h, g, r, c, b),
           NEW G \in SUBSET Refs, r \notin G, NEW O, Guarded(h, G, O), FreedIn(h, O)
    PROVE  Guarded(g, G, O \cup {b}) /\ FreedIn(g, O)
<1>1. \A s \in G : \A d : s \in OnBuffer(h, d) => s \in OnBuffer(g, d)
  BY CreatesSame DEF SameLinks, OnBuffer
<1>2. g.memory[b] = "managed" /\ \A d \in Buffers \ {b} : g.memory[d] = h.memory[d]
  BY DEF Creates
<1>3. Guarded(g, G, O \cup {b})
  BY <1>1, <1>2 DEF Guarded
<1>4. FreedIn(g, O)
  BY <1>2 DEF FreedIn
<1> QED BY <1>3, <1>4

-----------------------------------------------------------------------------
(* Stacks and calls *)

LEMMA DepthNat ==
    ASSUME TypeOK, NEW i \in DOMAIN calls
    PROVE  /\ calls[i] \in Frames /\ calls[i].name \in Names /\ calls[i].ref \in Refs
           /\ calls[i].ref \in Locals
           /\ \A n \in Names : calls[i].depth[n] \in Nat
<1>1. calls \in Seq(Frames)
  BY DEF TypeOK
<1>2. calls[i] \in Frames
  BY <1>1
<1>3. calls[i].ref \in Locals
  BY DEF Locals
<1> QED BY <1>2, <1>3 DEF Frames

LEMMA LenNat ==
    ASSUME TypeOK, NEW n \in Names
    PROVE  Len(m_refs[n]) \in Nat /\ DOMAIN m_refs[n] = 1 .. Len(m_refs[n])
  BY DEF TypeOK

\* The first l calls stay, and there may be another one on top, whose depths
\* are above theirs.
LEMMA DepthsNext ==
    ASSUME TypeOK, TypeOK', DepthsKept, NEW l \in Nat, 1 .. l \subseteq DOMAIN calls,
           \A i \in 1 .. l : calls'[i] = calls[i],
           \A i \in 1 .. l : \A n \in Names : calls[i].depth[n] <= Len(m_refs'[n]),
           NEW f,
           \/ DOMAIN calls' = 1 .. l
           \/ /\ DOMAIN calls' = 1 .. (l + 1) /\ calls'[l + 1] = f /\ f \in Frames
              /\ \A n \in Names : f.depth[n] <= Len(m_refs'[n])
              /\ \A i \in 1 .. l : \A n \in Names : calls[i].depth[n] <= f.depth[n]
              /\ f.pc = "notify" => \A i \in 1 .. l : calls[i].depth[f.name] < f.depth[f.name]
    PROVE  DepthsKept'
<1>1. \A i \in DOMAIN calls' :
         \/ i \in 1 .. l /\ i \in DOMAIN calls /\ calls'[i] = calls[i]
         \/ i = l + 1 /\ calls'[i] = f /\ DOMAIN calls' = 1 .. (l + 1)
  OBVIOUS
<1>2. \A i, j \in DOMAIN calls' : i < j => i \in 1 .. l
  OBVIOUS
<1>3. \A i \in DOMAIN calls', n \in Names : calls'[i].depth[n] <= Len(m_refs'[n])
  BY <1>1
<1>4. \A i, j \in DOMAIN calls', n \in Names :
         i < j => calls'[i].depth[n] <= calls'[j].depth[n]
  <2> SUFFICES ASSUME NEW i \in DOMAIN calls', NEW j \in DOMAIN calls', NEW n \in Names, i < j
               PROVE  calls'[i].depth[n] <= calls'[j].depth[n]
    OBVIOUS
  <2>1. i \in 1 .. l /\ i \in DOMAIN calls /\ calls'[i] = calls[i]
    BY <1>2
  <2>2. CASE j \in 1 .. l /\ j \in DOMAIN calls /\ calls'[j] = calls[j]
    BY <2>1, <2>2 DEF DepthsKept
  <2>3. CASE j = l + 1 /\ calls'[j] = f /\ DOMAIN calls' = 1 .. (l + 1)
    BY <2>1, <2>3
  <2> QED BY <1>1, <2>2, <2>3
<1>5. \A i, j \in DOMAIN calls' :
         i < j /\ calls'[j].pc = "notify" =>
            calls'[i].depth[calls'[j].name] < calls'[j].depth[calls'[j].name]
  <2> SUFFICES ASSUME NEW i \in DOMAIN calls', NEW j \in DOMAIN calls', i < j, calls'[j].pc = "notify"
               PROVE  calls'[i].depth[calls'[j].name] < calls'[j].depth[calls'[j].name]
    OBVIOUS
  <2>1. i \in 1 .. l /\ i \in DOMAIN calls /\ calls'[i] = calls[i]
    BY <1>2
  <2>2. CASE j \in 1 .. l /\ j \in DOMAIN calls /\ calls'[j] = calls[j]
    BY <2>1, <2>2 DEF DepthsKept
  <2>3. CASE j = l + 1 /\ calls'[j] = f /\ DOMAIN calls' = 1 .. (l + 1)
    BY <2>1, <2>3
  <2> QED BY <1>1, <2>2, <2>3
<1> QED BY <1>3, <1>4, <1>5 DEF DepthsKept

\* A call whose part of the stack is not touched keeps its holder.
LEMMA HolderStays ==
    ASSUME StoreInv, DepthsKept, CallsKept, NEW i \in DOMAIN calls,
           NEW S, SameLinks(heap, heap', S), calls[i].ref \notin S, m_metadata' = m_metadata,
           calls[i].pc = "notify" =>
              \A x \in 1 .. calls[i].depth[calls[i].name] :
                 /\ m_refs'[calls[i].name][x] = m_refs[calls[i].name][x]
                 /\ m_refs[calls[i].name][x] \notin S
    PROVE  HolderKept(m_refs', m_metadata', heap', calls[i])
<1> DEFINE f == calls[i]
           n == f.name
           d == f.depth[n]
<1>1. TypeOK
  BY DEF StoreInv
<1>2. n \in Names /\ d \in Nat /\ f.ref \in Refs
  BY <1>1, DepthNat
<1>3. HolderKept(m_refs, m_metadata, heap, f) /\ d <= Len(m_refs[n])
  BY <1>2 DEF CallsKept, DepthsKept
<1>4. f.op = "share" => f.pc = "notify"
  <2>1. f.pc \in {"missing", "notify"}
    BY <1>1, DepthNat DEF Frames
  <2> QED BY <2>1 DEF StoreInv, CallsLinked, FrameLinked
<1>5. f.pc = "notify" => \A x \in 1 .. d : m_refs[n][x] \in Refs
  BY <1>1, <1>2, <1>3, LenNat, HolderIn
<1>6. f.pc = "notify" =>
         \A x \in 1 .. d : /\ m_refs'[n][x] = m_refs[n][x]
                           /\ heap'.m_content[m_refs[n][x]] = heap.m_content[m_refs[n][x]]
  BY <1>5 DEF SameLinks
<1>7. heap'.m_content[f.ref] = heap.m_content[f.ref]
  <2> HIDE DEF f
  <2>1. f.ref \in Refs \ S
    BY <1>2 DEF f
  <2> QED BY <2>1, Zenon DEF SameLinks
<1>8. /\ f.pc = "missing" => f.op = "access"
      /\ f.pc = "notify" => d > 0 /\ (n \in m_metadata => d > 1)
      /\ f.op = "share" => heap.m_content[m_refs[n][d]] = heap.m_content[f.ref]
      /\ f.op = "access" /\ f.pc = "notify" =>
            d > 1 /\ heap.m_content[m_refs[n][d]] \in {Null, heap.m_content[m_refs[n][d - 1]]}
  BY <1>3, Zenon DEF HolderKept
<1> HIDE DEF d, n, f
<1>9. f.pc = "notify" => d \in 1 .. d
  BY <1>2, <1>8
<1>10. f.op = "access" /\ f.pc = "notify" => d - 1 \in 1 .. d
  BY <1>2, <1>8
<1>11. f.op = "share" => heap'.m_content[m_refs'[n][d]] = heap'.m_content[f.ref]
  BY <1>4, <1>6, <1>7, <1>8, <1>9
<1>12. f.op = "access" /\ f.pc = "notify" =>
          heap'.m_content[m_refs'[n][d]] \in {Null, heap'.m_content[m_refs'[n][d - 1]]}
  <2> DEFINE e == d - 1
  <2>1. e = d - 1
    OBVIOUS
  <2> HIDE DEF e
  <2> SUFFICES ASSUME f.op = "access", f.pc = "notify"
               PROVE  heap'.m_content[m_refs'[n][d]] \in {Null, heap'.m_content[m_refs'[n][e]]}
    BY <2>1
  <2>2. /\ heap'.m_content[m_refs'[n][d]] = heap.m_content[m_refs[n][d]]
        /\ heap'.m_content[m_refs'[n][e]] = heap.m_content[m_refs[n][e]]
    BY <1>6, <1>9, <1>10, <2>1
  <2> QED BY <1>8, <2>1, <2>2
<1>13. /\ f.pc = "missing" => f.op = "access"
       /\ f.pc = "notify" => d > 0 /\ (n \in m_metadata' => d > 1)
       /\ f.op = "share" => heap'.m_content[m_refs'[n][d]] = heap'.m_content[f.ref]
       /\ f.op = "access" /\ f.pc = "notify" =>
             d > 1 /\ heap'.m_content[m_refs'[n][d]] \in {Null, heap'.m_content[m_refs'[n][d - 1]]}
  BY <1>8, <1>11, <1>12, Zenon
<1> QED BY <1>13, Zenon DEF HolderKept, f, n, d

\* No stack loses a holder.
Grows ==
    \A n \in Names :
        /\ Len(m_refs[n]) <= Len(m_refs'[n])
        /\ \A x \in DOMAIN m_refs[n] : m_refs'[n][x] = m_refs[n][x]

\* The first l calls stay; a call f may be on top of them, which has seen the
\* stacks as they are now.
Over(l, f) ==
    /\ 1 .. l \subseteq DOMAIN calls
    /\ \A i \in 1 .. l : calls'[i] = calls[i]
    /\ \/ DOMAIN calls' = 1 .. l
       \/ /\ DOMAIN calls' = 1 .. (l + 1) /\ calls'[l + 1] = f /\ f \in Frames
          /\ \A n \in Names : Len(m_refs[n]) <= f.depth[n] /\ f.depth[n] <= Len(m_refs'[n])
          /\ f.pc = "notify" => \A i \in 1 .. l : calls[i].depth[f.name] < f.depth[f.name]
          /\ HolderKept(m_refs', m_metadata', heap', f)

\* Steps that pop no holder.
LEMMA GrowKept ==
    ASSUME StoreInv, StoreInv', AlwaysPlaceholder, DepthsKept, CallsKept,
           UNCHANGED <<m_metadata, descriptors>>,
           NEW l \in Nat, NEW f, Over(l, f), Grows,
           NEW S, SameLinks(heap, heap', S), S \cap Holders = {},
           \A i \in 1 .. l : calls[i].ref \notin S
    PROVE  AlwaysPlaceholder' /\ DepthsKept' /\ CallsKept'
<1>1. TypeOK /\ TypeOK'
  BY DEF StoreInv
<1>2. \A n \in Names : /\ Len(m_refs[n]) \in Nat /\ Len(m_refs'[n]) \in Nat
                       /\ DOMAIN m_refs[n] = 1 .. Len(m_refs[n])
  BY <1>1, LenNat DEF TypeOK
<1>3. AlwaysPlaceholder'
  <2> SUFFICES ASSUME NEW n \in m_metadata \cap descriptors
               PROVE  m_refs'[n] # <<>>
    BY DEF AlwaysPlaceholder
  <2>1. n \in Names /\ m_refs[n] # <<>> /\ m_refs[n] \in Seq(Refs)
    BY <1>1 DEF AlwaysPlaceholder, TypeOK
  <2>2. Len(m_refs[n]) > 0
    BY <2>1
  <2> QED BY <1>2, <2>1, <2>2 DEF Grows
<1>4. \A i \in 1 .. l : i \in DOMAIN calls /\ calls'[i] = calls[i]
  BY DEF Over
<1>5. \A i \in 1 .. l : \A n \in Names :
         calls[i].depth[n] \in Nat /\ calls[i].depth[n] <= Len(m_refs[n])
  BY <1>1, <1>4, DepthNat DEF DepthsKept
<1>6. DepthsKept'
  <2>1. \A i \in 1 .. l : \A n \in Names : calls[i].depth[n] <= Len(m_refs'[n])
    BY <1>2, <1>5 DEF Grows
  <2>2. \/ DOMAIN calls' = 1 .. l
        \/ /\ DOMAIN calls' = 1 .. (l + 1) /\ calls'[l + 1] = f /\ f \in Frames
           /\ \A n \in Names : f.depth[n] <= Len(m_refs'[n])
           /\ \A i \in 1 .. l : \A n \in Names : calls[i].depth[n] <= f.depth[n]
           /\ f.pc = "notify" => \A i \in 1 .. l : calls[i].depth[f.name] < f.depth[f.name]
    <3>1. CASE DOMAIN calls' = 1 .. l
      BY <3>1
    <3>2. CASE DOMAIN calls' # 1 .. l
      <4>1. f \in Frames /\ \A n \in Names : Len(m_refs[n]) <= f.depth[n]
        BY <3>2 DEF Over
      <4>2. \A n \in Names : f.depth[n] \in Nat
        BY <4>1 DEF Frames
      <4>3. \A i \in 1 .. l : \A n \in Names : calls[i].depth[n] <= f.depth[n]
        BY <1>2, <1>5, <4>1, <4>2
      <4> QED BY <3>2, <4>3 DEF Over
    <3> QED BY <3>1, <3>2
  <2>3. 1 .. l \subseteq DOMAIN calls /\ \A i \in 1 .. l : calls'[i] = calls[i]
    BY <1>4
  <2> QED BY <1>1, <2>1, <2>2, <2>3, DepthsNext
<1>7. CallsKept'
  <2>1. ASSUME NEW i \in 1 .. l
        PROVE  HolderKept(m_refs', m_metadata', heap', calls[i])
    <3> DEFINE n == calls[i].name
    <3>1. n \in Names /\ i \in DOMAIN calls
      BY <1>1, <1>4, DepthNat
    <3>2. \A x \in 1 .. calls[i].depth[n] : x \in DOMAIN m_refs[n]
      BY <1>2, <1>5, <3>1
    <3>3. \A x \in 1 .. calls[i].depth[n] : m_refs'[n][x] = m_refs[n][x] /\ m_refs[n][x] \notin S
      BY <1>1, <3>1, <3>2, HolderIn DEF Grows
    <3> QED BY <3>1, <3>3, HolderStays
  <2>2. \A i \in DOMAIN calls' : 
           i \in 1 .. l \/ (calls'[i] = f /\ HolderKept(m_refs', m_metadata', heap', f))
    <3>1. CASE DOMAIN calls' = 1 .. l
      BY <3>1
    <3>2. CASE /\ DOMAIN calls' = 1 .. (l + 1) /\ calls'[l + 1] = f
               /\ HolderKept(m_refs', m_metadata', heap', f)
      <4>1. \A i \in 1 .. (l + 1) : i \in 1 .. l \/ i = l + 1
        OBVIOUS
      <4> QED BY <3>2, <4>1
    <3> QED BY <3>1, <3>2, Zenon DEF Over
  <2> QED BY <1>4, <2>1, <2>2 DEF CallsKept
<1> QED BY <1>3, <1>6, <1>7

LEMMA PlaceholdersIn ==
    ASSUME TypeOK
    PROVE  Placeholders \subseteq Holders
<1>1. \A n \in m_metadata : n \in Names /\ (m_refs[n] # <<>> => 1 \in DOMAIN m_refs[n])
  BY TopHolder DEF TypeOK
<1> QED BY <1>1, HolderIn DEF Placeholders

LEMMA GrowPlaceholders ==
    ASSUME TypeOK, TypeOK', Grows, m_metadata' = m_metadata, AlwaysPlaceholder,
           descriptors = Names \/ m_refs' = m_refs
    PROVE  Placeholders' = Placeholders
<1>1. CASE m_refs' = m_refs
  BY <1>1 DEF Placeholders
<1>2. CASE descriptors = Names
  <2>1. \A n \in m_metadata : n \in Names /\ m_refs[n] # <<>> /\ 1 \in DOMAIN m_refs[n]
    BY <1>2, TopHolder DEF TypeOK, AlwaysPlaceholder
  <2>2. \A n \in m_metadata : m_refs'[n][1] = m_refs[n][1]
    BY <2>1 DEF Grows
  <2>3. \A n \in m_metadata : m_refs'[n] # <<>>
    <3> SUFFICES ASSUME NEW n \in m_metadata
                 PROVE  m_refs'[n] # <<>>
      OBVIOUS
    <3>1. Len(m_refs[n]) \in Nat /\ Len(m_refs[n]) > 0
      BY <2>1, TopHolder
    <3>2. Len(m_refs[n]) <= Len(m_refs'[n])
      BY <2>1 DEF Grows
    <3> QED BY <3>1, <3>2
  <2> QED BY <2>1, <2>2, <2>3 DEF Placeholders
<1> QED BY <1>1, <1>2

\* The memory when only references that guard nothing are touched.
LEMMA GrowMemory ==
    ASSUME TypeOK, MemoryKept, NEW S, Touches(heap, heap', S), owned' = owned,
           Placeholders' = Placeholders, S \cap Holders = {},
           \A r \in S : r \in Locals \/ r \in held \/ heap.m_content[r] = Null,
           \A r \in Locals' \cup held' : r \in Locals \/ r \in held \/ heap.m_content[r] = Null
    PROVE  MemoryKept'
<1>1. \A r \in Guards : \A b \in Buffers :
         heap.memory[b] = "managed" /\ r \in OnBuffer(heap, b) => b \in owned \/ (r \in Guards' /\ r \notin S)
  BY DEF Guards, OnBuffer
<1>2. Guards \in SUBSET Refs
  BY DEF Guards
<1>3. Guarded(heap', Guards', owned) /\ FreedIn(heap', owned)
  BY <1>1, <1>2, GuardTouches DEF MemoryKept
<1>4. \A r \in Placeholders : r \in Refs \ S
  BY PlaceholdersIn, HoldersInRefs
<1>5. PlaceholdersOwned'
  BY <1>4 DEF MemoryKept, PlaceholdersOwned, Touches, IsNull, BufferOf
<1> QED BY <1>3, <1>5 DEF MemoryKept

-----------------------------------------------------------------------------
(* Shapes of steps *)

\* The stack of calls after a call began, returned or went on.
LEMMA CallShapes ==
    ASSUME TypeOK
    PROVE  /\ Len(calls) \in Nat /\ DOMAIN calls = 1 .. Len(calls)
           /\ \A f \in Frames :
                 /\ DOMAIN Append(calls, f) = 1 .. (Len(calls) + 1)
                 /\ Append(calls, f)[Len(calls) + 1] = f
                 /\ \A i \in 1 .. Len(calls) : Append(calls, f)[i] = calls[i]
           /\ calls # <<>> =>
                 /\ Len(calls) - 1 \in Nat
                 /\ 1 .. (Len(calls) - 1) \subseteq DOMAIN calls
                 /\ DOMAIN Front(calls) = 1 .. (Len(calls) - 1)
                 /\ \A i \in 1 .. (Len(calls) - 1) : Front(calls)[i] = calls[i]
                 /\ \A f \in Frames :
                       /\ DOMAIN Append(Front(calls), f) = 1 .. ((Len(calls) - 1) + 1)
                       /\ Append(Front(calls), f)[(Len(calls) - 1) + 1] = f
                       /\ \A i \in 1 .. (Len(calls) - 1) : Append(Front(calls), f)[i] = calls[i]
<1>1. calls \in Seq(Frames) /\ Len(calls) \in Nat /\ DOMAIN calls = 1 .. Len(calls)
  BY DEF TypeOK
<1>2. \A f \in Frames :
         /\ DOMAIN Append(calls, f) = 1 .. (Len(calls) + 1)
         /\ Append(calls, f)[Len(calls) + 1] = f
         /\ \A i \in 1 .. Len(calls) : Append(calls, f)[i] = calls[i]
  BY <1>1
<1>3. ASSUME calls # <<>>
      PROVE  /\ Len(calls) - 1 \in Nat
             /\ 1 .. (Len(calls) - 1) \subseteq DOMAIN calls
             /\ DOMAIN Front(calls) = 1 .. (Len(calls) - 1)
             /\ \A i \in 1 .. (Len(calls) - 1) : Front(calls)[i] = calls[i]
             /\ \A f \in Frames :
                   /\ DOMAIN Append(Front(calls), f) = 1 .. ((Len(calls) - 1) + 1)
                   /\ Append(Front(calls), f)[(Len(calls) - 1) + 1] = f
                   /\ \A i \in 1 .. (Len(calls) - 1) : Append(Front(calls), f)[i] = calls[i]
  <2> DEFINE c == Front(calls)
             k == Len(calls) - 1
  <2>1. Len(calls) > 0
    BY <1>3, CurrentCall
  <2>2. k \in Nat /\ 1 .. k \subseteq DOMAIN calls
    BY <1>1, <2>1
  <2>3. c = SubSeq(calls, 1, k)
    BY DEF Front
  <2> HIDE DEF c
  <2>4. c \in Seq(Frames) /\ Len(c) = k /\ DOMAIN c = 1 .. k /\ \A i \in 1 .. k : c[i] = calls[i]
    BY <1>1, <2>1, <2>3
  <2> HIDE DEF k
  <2>5. \A f \in Frames :
           /\ DOMAIN Append(c, f) = 1 .. (k + 1)
           /\ Append(c, f)[k + 1] = f
           /\ \A i \in 1 .. k : Append(c, f)[i] = calls[i]
    BY <2>2, <2>4
  <2> QED BY <2>2, <2>4, <2>5 DEF c, k
<1> QED BY <1>1, <1>2, <1>3, Zenon

\* A holder is pushed.
LEMMA PushGrows ==
    ASSUME TypeOK, NEW n \in Names, NEW k \in Refs, m_refs' = [m_refs EXCEPT ![n] = Append(@, k)]
    PROVE  /\ Grows
           /\ Len(m_refs'[n]) = Len(m_refs[n]) + 1 /\ m_refs'[n][Len(m_refs[n]) + 1] = k
           /\ \A m \in Names \ {n} : m_refs'[m] = m_refs[m]
<1>1. m_refs'[n] = Append(m_refs[n], k) /\ \A m \in Names \ {n} : m_refs'[m] = m_refs[m]
  BY DEF TypeOK
<1>2. m_refs[n] \in Seq(Refs) /\ \A m \in Names : Len(m_refs[m]) \in Nat
  BY DEF TypeOK
<1>3. /\ Len(m_refs'[n]) = Len(m_refs[n]) + 1 /\ m_refs'[n][Len(m_refs[n]) + 1] = k
      /\ \A x \in DOMAIN m_refs[n] : m_refs'[n][x] = m_refs[n][x]
  BY <1>1, <1>2
<1>4. \A m \in Names : Len(m_refs[m]) <= Len(m_refs'[m])
  BY <1>1, <1>2, <1>3
<1>5. \A m \in Names : \A x \in DOMAIN m_refs[m] : m_refs'[m][x] = m_refs[m][x]
  BY <1>1, <1>3
<1> QED BY <1>1, <1>3, <1>4, <1>5 DEF Grows

LEMMA SameGrows ==
    ASSUME TypeOK, m_refs' = m_refs
    PROVE  Grows
<1>1. \A n \in Names : Len(m_refs[n]) \in Nat
  BY LenNat
<1> QED BY <1>1 DEF Grows

\* Steps that change no call.
LEMMA RestKept ==
    ASSUME StoreInv, StoreInv', Kept, calls' = calls,
           UNCHANGED <<m_refs, m_metadata, descriptors, owned>>,
           NEW S, Touches(heap, heap', S), S \cap Holders = {}, S \cap Locals = {},
           \A r \in S : r \in held \/ heap.m_content[r] = Null,
           \A r \in held' : r \in held \/ heap.m_content[r] = Null
    PROVE  Kept'
<1>1. TypeOK /\ TypeOK' /\ AlwaysPlaceholder /\ DepthsKept /\ CallsKept /\ MemoryKept
  BY Zenon DEF StoreInv, Kept
<1>2. Len(calls) \in Nat /\ DOMAIN calls = 1 .. Len(calls)
  BY <1>1, CallShapes, Zenon
<1>3. Over(Len(calls), Null)
  BY <1>2 DEF Over
<1>4. Grows /\ Placeholders' = Placeholders
  BY <1>1, SameGrows DEF Placeholders
<1>5. SameLinks(heap, heap', S)
  BY TouchesSame
<1>6. \A i \in 1 .. Len(calls) : calls[i].ref \notin S
  BY <1>1, <1>2, DepthNat
<1>7. AlwaysPlaceholder' /\ DepthsKept' /\ CallsKept'
  BY <1>1, <1>2, <1>3, <1>4, <1>5, <1>6, GrowKept
<1>8. Locals' = Locals
  BY DEF Locals
<1>9. MemoryKept'
  BY <1>1, <1>4, <1>8, GrowMemory
<1> QED BY <1>7, <1>9 DEF Kept

\* A call that returns and leaves the stacks as they are.
LEMMA ReturnKept ==
    ASSUME StoreInv, StoreInv', Kept, calls # <<>>, calls' = Front(calls),
           UNCHANGED <<m_refs, m_metadata, descriptors, held, owned>>,
           NEW S, Touches(heap, heap', S), S \subseteq {Current.ref}
    PROVE  Kept'
<1>1. TypeOK /\ TypeOK' /\ AlwaysPlaceholder /\ DepthsKept /\ CallsKept /\ MemoryKept /\ Apart
  BY Zenon DEF StoreInv, Kept
<1> DEFINE l == Len(calls) - 1
<1>2. /\ l \in Nat /\ 1 .. l \subseteq DOMAIN calls /\ DOMAIN calls' = 1 .. l
      /\ \A i \in 1 .. l : calls'[i] = calls[i]
  BY <1>1, CallShapes, Zenon
<1>3. Current.ref \in Locals /\ Locals' = Locals \ {Current.ref}
  BY <1>1, CurrentCall, PopCall DEF Apart
<1>4. Over(l, Null)
  BY <1>2 DEF Over
<1>5. Grows /\ Placeholders' = Placeholders
  BY <1>1, SameGrows DEF Placeholders
<1>6. SameLinks(heap, heap', S) /\ S \cap Holders = {}
  BY <1>1, <1>3, TouchesSame DEF Apart
<1>7. \A i \in 1 .. l : calls[i].ref \notin S
  <2>1. \A i \in DOMAIN calls' : calls'[i].ref \in Locals'
    BY DEF Locals
  <2> QED BY <1>2, <1>3, <2>1
<1> HIDE DEF l
<1>8. AlwaysPlaceholder' /\ DepthsKept' /\ CallsKept'
  BY <1>1, <1>2, <1>4, <1>5, <1>6, <1>7, GrowKept
<1>9. MemoryKept'
  BY <1>1, <1>3, <1>5, <1>6, GrowMemory
<1> QED BY <1>8, <1>9 DEF Kept

\* A call f that waits for its callbacks, above the others.
LEMMA WaitKept ==
    ASSUME StoreInv, StoreInv', Kept, NEW f \in Frames,
           \/ f.ref \in Free /\ calls' = Append(calls, f)
           \/ calls # <<>> /\ f.ref = Current.ref /\ calls' = Append(Front(calls), f),
           UNCHANGED <<m_metadata, descriptors>>,
           NEW S, SameLinks(heap, heap', S), S \subseteq Free \cup {f.ref}, Grows,
           \A n \in Names : Len(m_refs[n]) <= f.depth[n] /\ f.depth[n] <= Len(m_refs'[n]),
           f.pc = "notify" => \A i \in DOMAIN calls : calls[i].depth[f.name] < f.depth[f.name],
           HolderKept(m_refs', m_metadata', heap', f)
    PROVE  AlwaysPlaceholder' /\ DepthsKept' /\ CallsKept'
<1>1. TypeOK /\ TypeOK' /\ AlwaysPlaceholder /\ DepthsKept /\ CallsKept /\ Apart
  BY DEF StoreInv, Kept
<1>2. S \cap Holders = {}
  <2>1. f.ref \notin Holders
    BY <1>1, FreePlace, CurrentCall DEF Apart
  <2> QED BY <2>1, FreePlace
<1>3. CASE f.ref \in Free /\ calls' = Append(calls, f)
  <2> DEFINE l == Len(calls)
  <2>1. /\ l \in Nat /\ DOMAIN calls = 1 .. l /\ DOMAIN calls' = 1 .. (l + 1)
        /\ calls'[l + 1] = f /\ \A i \in 1 .. l : calls'[i] = calls[i]
    BY <1>1, <1>3, CallShapes, Zenon
  <2>2. Over(l, f)
    BY <2>1, Zenon DEF Over
  <2>3. \A i \in 1 .. l : calls[i].ref \notin S
    BY <1>1, <1>3, <2>1, DepthNat, FreePlace
  <2> QED BY <1>1, <1>2, <2>1, <2>2, <2>3, GrowKept, Zenon
<1>4. CASE calls # <<>> /\ f.ref = Current.ref /\ calls' = Append(Front(calls), f)
  <2> DEFINE l == Len(calls) - 1
  <2>1. /\ l \in Nat /\ 1 .. l \subseteq DOMAIN calls /\ DOMAIN calls' = 1 .. (l + 1)
        /\ calls'[l + 1] = f /\ \A i \in 1 .. l : calls'[i] = calls[i]
    BY <1>1, <1>4, CallShapes, Zenon
  <2>2. Over(l, f)
    BY <2>1 DEF Over
  <2>3. \A i \in 1 .. l : calls[i].ref \notin S
    <3>0. Len(calls) \in Nat /\ Len(calls) \in DOMAIN calls /\ Current = calls[Len(calls)]
      BY <1>1, <1>4, CurrentCall, Zenon
    <3>1. /\ Len(calls) \in DOMAIN calls /\ f.ref = calls[Len(calls)].ref
          /\ \A i \in 1 .. l : i # Len(calls)
      BY <1>4, <3>0
    <3>2. \A i \in 1 .. l : calls[i].ref # f.ref
      BY <1>1, <2>1, <3>1 DEF Apart, LocalsApart
    <3> QED BY <1>1, <2>1, <3>2, DepthNat, FreePlace, Zenon
  <2> HIDE DEF l
  <2> QED BY <1>1, <1>2, <2>1, <2>2, <2>3, GrowKept, Zenon
<1> QED BY <1>3, <1>4

LEMMA WaitLocals ==
    ASSUME StoreInv, NEW f \in Frames,
           \/ f.ref \in Free /\ calls' = Append(calls, f)
           \/ calls # <<>> /\ f.ref = Current.ref /\ calls' = Append(Front(calls), f)
    PROVE  /\ Locals' = Locals \cup {f.ref}
           /\ f.ref \in Refs /\ f.ref \notin Holders /\ f.ref \notin held
           /\ f.ref \in Locals \/ heap.m_content[f.ref] = Null
<1>1. TypeOK /\ Apart
  BY DEF StoreInv
<1>2. CASE f.ref \in Free /\ calls' = Append(calls, f)
  BY <1>1, <1>2, FreePlace, PushCall DEF Apart
<1>3. CASE calls # <<>> /\ f.ref = Current.ref /\ calls' = Append(Front(calls), f)
  <2>1. f.ref \in Locals /\ f.ref \in Refs
    BY <1>1, <1>3, CurrentCall
  <2>2. Locals' = Locals
    BY <1>1, <1>3, ReplaceCall DEF Apart
  <2> QED BY <1>1, <2>1, <2>2 DEF Apart
<1> QED BY <1>2, <1>3

-----------------------------------------------------------------------------
(* The steps that pop nothing *)

\* A call begins, or goes on, without pushing a holder.
LEMMA BeginKept ==
    ASSUME StoreInv, StoreInv', Kept, NEW f \in Frames, f.ref \in Free, calls' = Append(calls, f),
           UNCHANGED <<m_refs, m_metadata, descriptors, held, owned>>,
           Touches(heap, heap', {f.ref}), f.depth = Depth,
           f.pc = "notify" => \A i \in DOMAIN calls : calls[i].depth[f.name] < Len(m_refs[f.name]),
           HolderKept(m_refs', m_metadata', heap', f)
    PROVE  Kept'
<1>1. TypeOK /\ TypeOK' /\ MemoryKept
  BY Zenon DEF StoreInv, Kept
<1>2. SameLinks(heap, heap', {f.ref})
  BY TouchesSame
<1>3. Grows /\ Placeholders' = Placeholders
  BY <1>1, SameGrows DEF Placeholders
<1>4. \A n \in Names : Len(m_refs[n]) \in Nat /\ f.depth[n] = Len(m_refs[n])
  BY <1>1, DepthType, LenNat
<1>5. \A n \in Names : Len(m_refs[n]) <= f.depth[n] /\ f.depth[n] <= Len(m_refs'[n])
  BY <1>4
<1>6. f.name \in Names
  BY DEF Frames
<1>7. f.pc = "notify" => \A i \in DOMAIN calls : calls[i].depth[f.name] < f.depth[f.name]
  BY <1>4, <1>6
<1>8. AlwaysPlaceholder' /\ DepthsKept' /\ CallsKept'
  BY <1>2, <1>3, <1>5, <1>7, WaitKept, Zenon
<1>9. MemoryKept'
  <2>1. /\ Locals' = Locals \cup {f.ref} /\ f.ref \notin Holders /\ heap.m_content[f.ref] = Null
    BY WaitLocals, FreePlace
  <2> QED BY <1>1, <1>3, <2>1, GrowMemory
<1> QED BY <1>8, <1>9, Zenon DEF Kept

LEMMA AccessMissingKept ==
    ASSUME StoreInv, StoreInv', Kept, NEW n \in Names, NEW R \in Access, AccessMissing(n, R)
    PROVE  Kept'
<1> DEFINE r == Some(Free)
           f == Call("access", n, r, R, Null, "missing")
<1>1. TypeOK /\ StoreHeap(heap) /\ MayCall /\ calls' = Append(calls, f)
      /\ UNCHANGED <<heap, m_refs, m_metadata, held, descriptors, owned>>
  BY DEF StoreInv, AccessMissing
<1>2. r \in Free /\ r \in Refs
  BY <1>1, TwoFree, FreePlace
<1> HIDE DEF r
<1>3. f \in Frames /\ f.ref = r /\ f.op = "access" /\ f.pc = "missing" /\ f.depth = Depth
  BY <1>1, <1>2, CallFields
<1> HIDE DEF f
<1>4. Touches(heap, heap', {f.ref})
  BY <1>1 DEF Touches
<1>5. HolderKept(m_refs', m_metadata', heap', f)
  BY <1>3 DEF HolderKept
<1> QED BY <1>1, <1>2, <1>3, <1>4, <1>5, BeginKept

\* A disciplined callback removes above what every call found.
LEMMA RemoveBeginsKept ==
    ASSUME StoreInv, StoreInv', disciplined, Kept, NEW n \in Names, NEW op \in {"release", "reclaim"},
           RemoveBegins(op, n)
    PROVE  Kept'
<1> DEFINE r == Some(Free)
           f == Call(op, n, r, {}, Null, "notify")
<1>1. TypeOK /\ MayCall /\ calls' = Append(calls, f) /\ Shared(n)
      /\ heap' = RefTo(heap, r, Top(n))
      /\ UNCHANGED <<m_refs, m_metadata, held, descriptors, owned>>
  BY DEF StoreInv, RemoveBegins, Top
<1>2. Len(m_refs[n]) \in Nat /\ Len(m_refs[n]) > 0 /\ (n \in m_metadata => Len(m_refs[n]) > 1)
      /\ m_refs[n] # <<>>
  BY <1>1, LenNat DEF Shared
<1>3. r \in Free /\ r \in Refs /\ heap.m_content[r] = Null
  BY <1>1, TwoFree, FreePlace
<1> HIDE DEF r
<1>4. f \in Frames /\ f.ref = r /\ f.op = op /\ f.pc = "notify" /\ f.depth = Depth /\ f.name = n
  BY <1>1, <1>3, CallFields DEF Access
<1> HIDE DEF f
<1>5. Touches(heap, heap', {f.ref})
  BY <1>1, <1>2, <1>3, <1>4, RefToTop
<1>6. \A i \in DOMAIN calls : calls[i].depth[n] < Len(m_refs[n])
  <2> SUFFICES ASSUME NEW i \in DOMAIN calls
               PROVE  calls[i].depth[n] < Len(m_refs[n])
    BY Zenon
  <2>1. calls # <<>>
    <3>1. DOMAIN << >> = {}
      OBVIOUS
    <3> QED BY <3>1, Zenon
  <2>2. Len(m_refs[n]) > Current.depth[n]
    BY <2>1 DEF RemoveBegins
  <2>3. Current = calls[Len(calls)] /\ Len(calls) \in DOMAIN calls /\ DOMAIN calls = 1 .. Len(calls)
        /\ Len(calls) \in Nat
    BY <1>1, <2>1, CurrentCall
  <2>4. calls[i].depth[n] \in Nat /\ calls[Len(calls)].depth[n] \in Nat
    BY <1>1, <2>3, DepthNat
  <2>5. CASE i = Len(calls)
    BY <1>2, <2>2, <2>3, <2>4, <2>5
  <2>6. CASE i < Len(calls)
    <3>1. calls[i].depth[n] <= calls[Len(calls)].depth[n]
      BY <2>3, <2>6 DEF Kept, DepthsKept
    <3> QED BY <1>2, <2>2, <2>3, <2>4, <3>1
  <2> QED BY <2>3, <2>5, <2>6
<1>7. Depth[n] = Len(m_refs[n])
  BY <1>1, DepthType
<1>8. HolderKept(m_refs', m_metadata', heap', f)
  BY <1>1, <1>2, <1>4, <1>7 DEF HolderKept
<1> QED BY <1>1, <1>3, <1>4, <1>5, <1>6, <1>8, BeginKept

LEMMA RemoveRefusedKept ==
    ASSUME StoreInv, StoreInv', Kept, NEW n \in Names, RemoveRefused(n)
    PROVE  Kept'
<1>1. UNCHANGED <<heap, calls, held, m_refs, m_metadata, descriptors, owned>>
  BY DEF RemoveRefused
<1>2. Touches(heap, heap', {})
  BY <1>1, SelfTouches
<1> QED BY <1>1, <1>2, RestKept

LEMMA HoldKept ==
    ASSUME StoreInv, StoreInv', Kept, NEW n \in Names, NEW R \in Access, Hold(n, R)
    PROVE  Kept'
<1> DEFINE r == Some(Free)
           t == Last(m_refs[n])
<1>1. /\ calls' = calls /\ heap' = Link(heap, r, R, GetContent(heap, t))
      /\ Free # {} /\ m_refs[n] # <<>> /\ held' = {r}
      /\ UNCHANGED <<m_refs, m_metadata, descriptors, owned>>
  BY DEF Hold
<1>2. TypeOK /\ StoreHeap(heap)
  BY DEF StoreInv
<1>3. r \in Refs /\ heap.m_content[r] = Null /\ t \in Refs /\ r \notin Holders /\ r \notin Locals
  BY <1>1, <1>2, SomeIn, FreePlace, TopHolder
<1> HIDE DEF r, t
<1>4. Touches(heap, heap', {r})
  BY <1>1, <1>2, <1>3, LinkTouches
<1> QED BY <1>1, <1>3, <1>4, RestKept

LEMMA DropKept ==
    ASSUME StoreInv, StoreInv', Kept, NEW s, Drop(s)
    PROVE  Kept'
<1>1. /\ s \in held /\ held' = held \ {s} /\ heap' = Reset(heap, s) /\ calls' = calls
      /\ UNCHANGED <<m_refs, m_metadata, descriptors, owned>>
  BY DEF Drop
<1>2. StoreHeap(heap) /\ s \in Refs /\ s \notin Holders /\ s \notin Locals
  BY <1>1 DEF StoreInv, TypeOK, Apart
<1>3. Touches(heap, heap', {s})
  BY <1>1, <1>2, ResetTouches
<1> QED BY <1>1, <1>2, <1>3, RestKept

LEMMA EndsKept ==
    ASSUME StoreInv, StoreInv', Kept, ShareDone \/ RemoveThrows \/ MissingThrows
    PROVE  Kept'
<1>1. calls # <<>> /\ calls' = Front(calls) /\ (heap' = heap \/ heap' = Reset(heap, Current.ref))
      /\ UNCHANGED <<m_refs, m_metadata, descriptors, held, owned>>
  BY DEF ShareDone, RemoveThrows, MissingThrows, Waiting, Return
<1>2. CASE heap' = heap
  BY <1>1, <1>2, SelfTouches, ReturnKept
<1>3. CASE heap' = Reset(heap, Current.ref)
  <2>1. Touches(heap, heap', {Current.ref})
    BY <1>1, <1>3, CurrentCall, ResetTouches DEF StoreInv
  <2> QED BY <1>1, <2>1, ReturnKept
<1> QED BY <1>1, <1>2, <1>3

\* PDI_access pushes a holder above the one that it accesses.
LEMMA AccessAcceptedKept ==
    ASSUME StoreInv, StoreInv', Kept, NEW f \in Frames, f.op = "access", NEW cs, NEW h,
           \/ f.ref \in Free /\ cs = calls
           \/ calls # <<>> /\ f.ref = Current.ref /\ cs = Front(calls),
           NEW k \in Free \ {f.ref}, m_refs[f.name] # <<>>, descriptors = Names,
           Touches(heap, h, {f.ref}), h.m_content[f.ref] = GetContent(heap, Top(f.name)),
           Accepted(f, cs, h, k),
           UNCHANGED <<m_metadata, descriptors, held, owned>>
    PROVE  Kept'
<1> DEFINE g == Notifying(f)
           n == f.name
           l == Len(m_refs[n])
<1>1. TypeOK /\ TypeOK' /\ MemoryKept /\ AlwaysPlaceholder /\ DepthsKept
  BY Zenon DEF StoreInv, Kept
<1>2. n \in Names /\ f.ref \in Refs
  BY DEF Frames
<1>3. /\ g \in Frames /\ g.op = "access" /\ g.name = n /\ g.ref = f.ref /\ g.pc = "notify"
      /\ g.depth[n] = l + 1 /\ \A m \in Names \ {n} : g.depth[m] = Len(m_refs[m])
  BY <1>1, NotifyingFields
<1>4. /\ Touches(h, heap', {k}) /\ heap'.m_content[k] = GetContent(h, f.ref)
      /\ m_refs' = [m_refs EXCEPT ![n] = Append(@, k)] /\ calls' = Append(cs, g)
  BY Zenon DEF Accepted
<1>5. k \in Refs /\ k # f.ref /\ k \notin Holders /\ heap.m_content[k] = Null
  BY FreePlace
<1>6. \A m \in Names : Len(m_refs[m]) \in Nat
  BY <1>1, LenNat
<1>7. /\ Grows /\ Len(m_refs'[n]) = l + 1 /\ m_refs'[n][l + 1] = k
      /\ \A m \in Names \ {n} : m_refs'[m] = m_refs[m]
  BY <1>1, <1>2, <1>4, <1>5, PushGrows
<1>8. /\ l > 0 /\ l \in DOMAIN m_refs[n] /\ Top(n) = m_refs[n][l]
      /\ Top(n) \in Holders /\ Top(n) \in Refs
  BY <1>1, <1>2, TopHolder DEF Top
<1> HIDE DEF g, n, l
<1>9. \/ g.ref \in Free /\ calls' = Append(calls, g)
      \/ calls # <<>> /\ g.ref = Current.ref /\ calls' = Append(Front(calls), g)
  BY <1>3, <1>4
<1>10. /\ Locals' = Locals \cup {g.ref} /\ g.ref \notin Holders
       /\ g.ref \in Locals \/ heap.m_content[g.ref] = Null
  BY <1>3, <1>9, WaitLocals
<1>11. Touches(heap, heap', {g.ref} \cup {k})
  BY <1>3, <1>4, TouchesTwice
<1>12. SameLinks(heap, heap', {g.ref} \cup {k})
  BY <1>11, TouchesSame
<1>13. \A m \in Names : Len(m_refs[m]) <= g.depth[m] /\ g.depth[m] <= Len(m_refs'[m])
  BY <1>2, <1>3, <1>6, <1>7 DEF l
<1>14. \A i \in DOMAIN calls : calls[i].depth[g.name] < g.depth[g.name]
  <2>1. \A i \in DOMAIN calls : calls[i].depth[n] \in Nat /\ calls[i].depth[n] <= l
    BY <1>1, <1>2, DepthNat DEF DepthsKept, l
  <2> QED BY <1>2, <1>3, <1>6, <2>1 DEF l
<1>15. HolderKept(m_refs', m_metadata', heap', g)
  <2>1. m_refs'[n][l] = Top(n) /\ heap'.m_content[Top(n)] = heap.m_content[Top(n)]
    <3>1. m_refs'[n][l] = Top(n)
      BY <1>2, <1>7, <1>8 DEF Grows
    <3>2. Top(n) # g.ref /\ Top(n) # k
      BY <1>5, <1>8, <1>10
    <3> QED BY <1>8, <1>12, <3>1, <3>2 DEF SameLinks
  <2>2. heap'.m_content[k] \in {Null, heap.m_content[Top(n)]}
    BY <1>4 DEF GetContent, n
  <2>3. l + 1 > 1 /\ (l + 1) - 1 = l
    BY <1>2, <1>6, <1>8 DEF l
  <2>4. heap'.m_content[m_refs'[n][l + 1]] \in {Null, heap'.m_content[m_refs'[n][l]]}
    BY <1>7, <2>1, <2>2
  <2> DEFINE d == l + 1
  <2>5. d > 0 /\ d > 1 /\ g.depth[g.name] = d
        /\ heap'.m_content[m_refs'[g.name][d]] \in {Null, heap'.m_content[m_refs'[g.name][d - 1]]}
    BY <1>2, <1>3, <1>6, <2>3, <2>4 DEF l
  <2> HIDE DEF d
  <2> QED BY <1>3, <2>5, Zenon DEF HolderKept
<1>16. AlwaysPlaceholder' /\ DepthsKept' /\ CallsKept'
  <2>1. {g.ref} \cup {k} \subseteq Free \cup {g.ref}
    OBVIOUS
  <2> QED BY <1>3, <1>7, <1>9, <1>12, <1>13, <1>14, <1>15, <2>1, WaitKept, Zenon
<1>17. Placeholders' = Placeholders
  BY <1>1, <1>7, GrowPlaceholders
<1>18. MemoryKept'
  BY <1>1, <1>5, <1>10, <1>11, <1>17, GrowMemory
<1> QED BY <1>16, <1>18, Zenon DEF Kept

LEMMA AccessSharedKept ==
    ASSUME StoreInv, StoreInv', Kept, NEW n \in Names, NEW R \in Access, AccessShared(n, R)
    PROVE  Kept'
<1>1. /\ descriptors = Names /\ m_refs[n] # <<>> /\ TypeOK
      /\ UNCHANGED <<m_metadata, held, owned, descriptors>>
  BY AccessSharedEffect DEF StoreInv
<1>2. PICK r \in Free : AccessOffers(Call("access", n, r, R, Null, "notify"), calls, r)
  BY AccessSharedEffect
<1> DEFINE f == Call("access", n, r, R, Null, "notify")
<1>3. r \in Refs /\ r \notin Holders /\ r \notin Locals /\ heap.m_content[r] = Null
  BY FreePlace
<1>4. f \in Frames /\ f.ref = r /\ f.op = "access" /\ f.name = n
  BY <1>1, <1>3, CallFields
<1>5. AccessOffers(f, calls, r)
  BY <1>2
<1> HIDE DEF f
<1>6. PICK k \in Free \ {r} : \E h :
        /\ Touches(heap, h, {r}) /\ h.memory = heap.memory
        /\ h.m_content[r] = GetContent(heap, Top(f.name))
        /\ \/ /\ Touches(h, heap', {r}) /\ heap'.m_content[r] = Null
              /\ calls' = calls /\ status' = "error" /\ m_refs' = m_refs
           \/ Accepted(f, calls, h, k)
  BY <1>5 DEF AccessOffers
<1>7. PICK h :
        /\ Touches(heap, h, {r})
        /\ h.m_content[r] = GetContent(heap, Top(f.name))
        /\ \/ Touches(h, heap', {r}) /\ calls' = calls /\ m_refs' = m_refs
           \/ Accepted(f, calls, h, k)
  BY <1>6
<1>8. CASE Touches(h, heap', {r}) /\ calls' = calls /\ m_refs' = m_refs
  <2>1. Touches(heap, heap', {r} \cup {r}) /\ {r} \cup {r} = {r}
    BY <1>7, <1>8, TouchesTwice
  <2> QED BY <1>1, <1>3, <1>8, <2>1, RestKept
<1>9. CASE Accepted(f, calls, h, k)
  BY <1>1, <1>4, <1>7, <1>9, AccessAcceptedKept
<1> QED BY <1>7, <1>8, <1>9

LEMMA MissingSharedKept ==
    ASSUME StoreInv, StoreInv', Kept, MissingShared
    PROVE  Kept'
<1> DEFINE f == Current
           r == Current.ref
<1>1. /\ TypeOK /\ calls # <<>> /\ m_refs[f.name] # <<>> /\ f.op = "access" /\ descriptors = Names
      /\ UNCHANGED <<m_metadata, held, owned, descriptors>>
  BY MissingSharedEffect DEF StoreInv, CallsLinked
<1>2. f \in Frames /\ f.ref = r
  BY <1>1, CurrentCall
<1>3. AccessOffers(f, Front(calls), r)
  BY MissingSharedEffect
<1>4. f.ref = Current.ref /\ r = Current.ref
  OBVIOUS
<1> HIDE DEF f, r
<1>6. PICK k \in Free \ {r} : \E h :
        /\ Touches(heap, h, {r}) /\ h.memory = heap.memory
        /\ h.m_content[r] = GetContent(heap, Top(f.name))
        /\ \/ /\ Touches(h, heap', {r}) /\ heap'.m_content[r] = Null
              /\ calls' = Front(calls) /\ status' = "error" /\ m_refs' = m_refs
           \/ Accepted(f, Front(calls), h, k)
  BY <1>3 DEF AccessOffers
<1>7. PICK h :
        /\ Touches(heap, h, {r})
        /\ h.m_content[r] = GetContent(heap, Top(f.name))
        /\ \/ Touches(h, heap', {r}) /\ calls' = Front(calls) /\ m_refs' = m_refs
           \/ Accepted(f, Front(calls), h, k)
  BY <1>6
<1>8. CASE Touches(h, heap', {r}) /\ calls' = Front(calls) /\ m_refs' = m_refs
  <2>1. Touches(heap, heap', {r} \cup {r}) /\ {r} \cup {r} \subseteq {Current.ref}
    BY <1>4, <1>7, <1>8, TouchesTwice
  <2> QED BY <1>1, <1>8, <2>1, ReturnKept
<1>9. CASE Accepted(f, Front(calls), h, k)
  BY <1>1, <1>2, <1>4, <1>7, <1>9, AccessAcceptedKept
<1> QED BY <1>7, <1>8, <1>9

-----------------------------------------------------------------------------
(* New data *)

\* What is null stays null, outside of S.
NullStays(h, g, S) == \A r \in Refs \ S : IsNull(h, r) => IsNull(g, r)

LEMMA TouchesNull ==
    ASSUME NEW h, NEW g, NEW S, Touches(h, g, S)
    PROVE  NullStays(h, g, S)
  BY DEF Touches, NullStays, IsNull

LEMMA GivesBackNull ==
    ASSUME NEW h, NEW g, NEW r, StoreHeap(h), GivesBack(h, g, r)
    PROVE  NullStays(h, g, {r})
<1>1. \A s \in Refs : h.m_content[s] # Null => h.m_content[s] \in Contents
  BY HeapFields DEF StoreHeap, HeapInv
<1> QED BY <1>1 DEF GivesBack, NullStays, IsNull

LEMMA CreatesNull ==
    ASSUME NEW h, NEW g, NEW r, StoreHeap(h), NEW c \in FreshContents(h), NEW b, Creates(h, g, r, c, b)
    PROVE  NullStays(h, g, {r})
<1>1. \A s \in Refs : h.m_content[s] # c /\ h.m_content[s] \in Contents \cup {Null}
  BY FreshUnlinked, HeapFields DEF StoreHeap, HeapInv
<1> QED BY <1>1 DEF Creates, NullStays, IsNull

LEMMA NullTwice ==
    ASSUME NEW h, NEW g, NEW k, NEW S, NEW T, NullStays(h, g, S), NullStays(g, k, T)
    PROVE  NullStays(h, k, S \cup T)
  BY DEF NullStays

LEMMA OwnedKept ==
    ASSUME TypeOK, TypeOK', PlaceholdersOwned, NEW S, SameLinks(heap, heap', S), NullStays(heap, heap', S),
           owned \subseteq owned',
           \A r \in Placeholders' :
              (r \in Placeholders /\ r \notin S) \/ IsNull(heap', r) \/ BufferOf(heap', r) \in owned'
    PROVE  PlaceholdersOwned'
<1> SUFFICES ASSUME NEW r \in Placeholders, r \notin S, ~IsNull(heap', r)
             PROVE  BufferOf(heap', r) \in owned'
  BY DEF PlaceholdersOwned
<1>1. r \in Refs
  BY PlaceholdersIn, HoldersInRefs
<1>2. ~IsNull(heap, r)
  BY <1>1 DEF NullStays
<1>3. BufferOf(heap, r) \in owned
  BY <1>2 DEF PlaceholdersOwned
<1>4. heap.m_content[r] # Null
  BY <1>2 DEF IsNull
<1> QED BY <1>1, <1>3, <1>4 DEF SameLinks

\* A place that is null guards nothing.
LEMMA GuardsWithout ==
    ASSUME NEW h, NEW G, NEW K, NEW O, Guarded(h, G, O),
           \A r \in G : r \in K \/ h.m_content[r] = Null
    PROVE  Guarded(h, K, O)
  BY DEF Guarded, OnBuffer

LEMMA LoadDataKept ==
    ASSUME StoreInv, StoreInv', Kept, NEW n \in Names, LoadData(n)
    PROVE  Kept'
<1>1. TypeOK /\ TypeOK' /\ StoreHeap(heap) /\ MayCall /\ calls = <<>> /\ descriptors = Names
      /\ UNCHANGED <<heap, calls, held, owned, descriptors>>
  BY DEF StoreInv, LoadData, MayCall
<1>2. AlwaysPlaceholder /\ MemoryKept
  BY Zenon DEF Kept
<1>3. PICK k \in Free :
         \/ UNCHANGED <<m_refs, m_metadata>>
         \/ m_refs[n] = <<>> /\ m_refs' = m_refs /\ m_metadata' = m_metadata \ {n}
         \/ /\ m_refs[n] = <<>> /\ m_refs' = [m_refs EXCEPT ![n] = <<k>>]
            /\ m_metadata' = m_metadata \cup {n}
  <2>1. Some(Free) \in Free
    BY <1>1, TwoFree
  <2>2. m_refs[n] = <<>> => [m_refs EXCEPT ![n] = <<>>] = m_refs
    BY <1>1 DEF TypeOK
  <2> QED BY <2>1, <2>2 DEF LoadData
<1>4. k \in Refs /\ k \notin Holders /\ heap.m_content[k] = Null
  BY FreePlace
<1>5. AlwaysPlaceholder' /\ \A r \in Placeholders' : r \in Placeholders \/ r = k
  <2>1. CASE m_refs' = m_refs /\ m_metadata' \subseteq m_metadata
    BY <1>1, <1>2, <2>1 DEF AlwaysPlaceholder, Placeholders
  <2>2. CASE m_refs' = [m_refs EXCEPT ![n] = <<k>>] /\ m_metadata' = m_metadata \cup {n}
    <3>1. m_refs'[n] = <<k>> /\ \A m \in Names \ {n} : m_refs'[m] = m_refs[m]
      BY <1>1, <2>2 DEF TypeOK
    <3>2. <<k>> # <<>> /\ <<k>>[1] = k
      OBVIOUS
    <3>3. m_metadata' \subseteq Names
      BY <1>1 DEF TypeOK
    <3> QED BY <1>1, <1>2, <2>2, <3>1, <3>2, <3>3 DEF AlwaysPlaceholder, Placeholders
  <2> QED BY <1>3, <2>1, <2>2
<1>6. DepthsKept' /\ CallsKept'
  <2>1. DOMAIN calls' = {}
    BY <1>1
  <2> QED BY <2>1 DEF DepthsKept, CallsKept
<1>7. Locals' = Locals
  BY <1>1 DEF Locals
<1>8. Guarded(heap', Guards', owned') /\ FreedIn(heap', owned')
  <2>1. \A r \in Guards : r \in Guards' \/ heap.m_content[r] = Null
    BY <1>1, <1>4, <1>5, <1>7 DEF Guards
  <2>2. Guarded(heap, Guards', owned)
    BY <1>2, <2>1, GuardsWithout DEF MemoryKept
  <2> QED BY <1>1, <1>2, <2>2 DEF MemoryKept
<1>9. PlaceholdersOwned'
  BY <1>1, <1>2, <1>4, <1>5 DEF MemoryKept, PlaceholdersOwned, IsNull
<1> QED BY <1>5, <1>6, <1>8, <1>9, Zenon DEF Kept, MemoryKept

\* The data that share(void*) makes, before it is given back or has a holder.
LEMMA NewGuarded ==
    ASSUME StoreInv, MemoryKept, NEW r \in Free, NEW c \in FreshContents(heap), NEW b, NEW h,
           Creates(heap, h, r, c, b)
    PROVE  Guarded(h, Guards \ {r}, owned \cup {b}) /\ FreedIn(h, owned)
<1>1. StoreHeap(heap) /\ heap.m_content[r] = Null
  BY FreePlace DEF StoreInv
<1>2. Guarded(heap, Guards \ {r}, owned) /\ FreedIn(heap, owned)
  BY <1>1, GuardsWithout DEF MemoryKept
<1>3. Guards \ {r} \in SUBSET Refs
  BY DEF Guards
<1> QED BY <1>1, <1>2, <1>3, GuardCreates

LEMMA ShareRefusedKept ==
    ASSUME StoreInv, StoreInv', Kept, NEW r \in Free, NEW c \in FreshContents(heap),
           NEW b \in FreshBuffers(heap), NEW h, Creates(heap, h, r, c, b), GivesBack(h, heap', r),
           UNCHANGED <<calls, m_refs, m_metadata, descriptors, held, owned>>
    PROVE  Kept'
<1>1. TypeOK /\ TypeOK' /\ StoreHeap(heap) /\ AlwaysPlaceholder /\ DepthsKept /\ CallsKept /\ MemoryKept
  BY Zenon DEF StoreInv, Kept
<1>2. r \in Refs /\ r \notin Holders /\ r \notin Locals /\ heap.m_content[r] = Null
  BY FreePlace
<1>3. SameLinks(heap, h, {r}) /\ StoreHeap(h) /\ NullStays(heap, h, {r})
  BY <1>1, CreatesSame, CreatesNull
<1>4. SameLinks(h, heap', {r}) /\ NullStays(h, heap', {r})
  BY <1>3, GivesBackSame, GivesBackNull
<1>5. SameLinks(heap, heap', {r} \cup {r}) /\ NullStays(heap, heap', {r} \cup {r})
  BY <1>3, <1>4, SameTwice, NullTwice
<1>6. Len(calls) \in Nat /\ DOMAIN calls = 1 .. Len(calls)
  BY <1>1, CallShapes, Zenon
<1>7. Over(Len(calls), Null)
  BY <1>6 DEF Over
<1>8. Grows /\ Placeholders' = Placeholders /\ Locals' = Locals
  BY <1>1, SameGrows DEF Placeholders, Locals
<1>9. \A i \in 1 .. Len(calls) : calls[i].ref \notin {r} \cup {r}
  BY <1>1, <1>2, <1>6, DepthNat
<1>10. ({r} \cup {r}) \cap Holders = {}
  BY <1>2
<1>11. AlwaysPlaceholder' /\ DepthsKept' /\ CallsKept'
  BY <1>1, <1>5, <1>6, <1>7, <1>8, <1>9, <1>10, GrowKept
<1>12. heap'.memory[b] = "user"
  <2>1. b \in Buffers /\ c # Null
    BY HeapAssumption DEF FreshBuffers, FreshContents
  <2>2. ~IsNull(h, r) /\ BufferOf(h, r) = b
    BY <2>1 DEF Creates, IsNull, BufferOf
  <2> QED BY <2>1, <2>2 DEF GivesBack
<1>13. Guarded(heap', Guards', owned') /\ FreedIn(heap', owned')
  <2>1. Guarded(h, Guards \ {r}, owned \cup {b}) /\ FreedIn(h, owned \cup {b})
    BY <1>1, NewGuarded DEF FreedIn
  <2>2. Guards \ {r} \in SUBSET Refs /\ r \notin Guards \ {r}
    BY DEF Guards
  <2>3. Guarded(heap', Guards \ {r}, owned \cup {b}) /\ FreedIn(heap', owned \cup {b})
    BY <2>1, <2>2, GuardGivesBack
  <2>4. Guarded(heap', Guards \ {r}, owned) /\ FreedIn(heap', owned)
    BY <1>12, <2>3 DEF Guarded, FreedIn
  <2>5. Guards' = Guards
    BY <1>8 DEF Guards
  <2> QED BY <2>4, <2>5 DEF Guarded
<1>14. PlaceholdersOwned'
  <2>1. \A q \in Placeholders' : q \in Placeholders /\ q \notin {r} \cup {r}
    BY <1>1, <1>2, <1>8, PlaceholdersIn
  <2> QED BY <1>1, <1>5, <2>1, OwnedKept DEF MemoryKept
<1> QED BY <1>11, <1>13, <1>14, Zenon DEF Kept, MemoryKept

\* The holder of new data guards it.
LEMMA ShareAcceptedKept ==
    ASSUME StoreInv, StoreInv', Kept, NEW f \in Frames, f.op = "share", f.ref \in Free,
           NEW c \in FreshContents(heap), NEW b \in FreshBuffers(heap), NEW h, NEW k \in Free \ {f.ref},
           Creates(heap, h, f.ref, c, b), Accepted(f, calls, h, k), descriptors = Names,
           UNCHANGED <<m_metadata, descriptors, held, owned>>
    PROVE  Kept'
<1> DEFINE g == Notifying(f)
           n == f.name
           l == Len(m_refs[n])
           r == f.ref
<1>1. TypeOK /\ TypeOK' /\ StoreHeap(heap) /\ MemoryKept /\ AlwaysPlaceholder /\ DepthsKept
  BY Zenon DEF StoreInv, Kept
<1>2. n \in Names /\ f.ref \in Refs
  BY DEF Frames
<1>3. /\ g \in Frames /\ g.op = "share" /\ g.name = n /\ g.ref = r /\ g.pc = "notify"
      /\ g.depth[n] = l + 1 /\ \A m \in Names \ {n} : g.depth[m] = Len(m_refs[m])
  BY <1>1, NotifyingFields
<1>4. /\ Touches(h, heap', {k}) /\ heap'.memory = h.memory /\ heap'.m_content[k] = GetContent(h, r)
      /\ m_refs' = [m_refs EXCEPT ![n] = Append(@, k)] /\ calls' = Append(calls, g)
  BY Zenon DEF Accepted
<1>5. /\ k \in Refs /\ k # r /\ k \notin Holders /\ heap.m_content[k] = Null
      /\ k \notin Locals /\ k \notin held
      /\ r \notin Holders
  BY FreePlace
<1>6. \A m \in Names : Len(m_refs[m]) \in Nat
  BY <1>1, LenNat
<1>7. /\ Grows /\ Len(m_refs'[n]) = l + 1 /\ m_refs'[n][l + 1] = k
      /\ \A m \in Names \ {n} : m_refs'[m] = m_refs[m]
  BY <1>1, <1>2, <1>4, <1>5, PushGrows
<1>8. n \in m_metadata => l > 0
  BY <1>1, <1>2, TopHolder DEF AlwaysPlaceholder
<1>9. c # Null /\ c \in Contents /\ b \in Buffers
  BY HeapAssumption DEF FreshContents, FreshBuffers
<1>c. Creates(heap, h, r, c, b) /\ r \in Free
  OBVIOUS
<1> HIDE DEF g, n, l, r
<1>10. /\ h.m_content[r] = c /\ heap'.m_content[k] = c /\ heap'.m_content[r] = c
       /\ h.m_content[k] = Null /\ heap'.m_buffer[c] = b /\ heap'.memory[b] = "managed"
  <2>1. h.m_content[r] = c /\ h.m_data[c] /\ h.m_content[k] = Null /\ h.m_buffer[c] = b
        /\ h.memory[b] = "managed"
    BY <1>5, <1>c DEF Creates
  <2>2. GetContent(h, r) = c
    BY <1>9, <2>1 DEF GetContent, IsNull
  <2>3. heap'.m_content[r] = h.m_content[r] /\ heap'.m_buffer = h.m_buffer
    BY <1>2, <1>4, <1>5 DEF Touches, r
  <2> QED BY <1>4, <2>1, <2>2, <2>3
<1>11. SameLinks(heap, h, {r}) /\ NullStays(heap, h, {r}) /\ SameLinks(h, heap', {k}) /\ NullStays(h, heap', {k})
  BY <1>1, <1>4, <1>c, CreatesSame, CreatesNull, TouchesSame, TouchesNull
<1>12. SameLinks(heap, heap', {r} \cup {k}) /\ NullStays(heap, heap', {r} \cup {k})
  BY <1>11, SameTwice, NullTwice
<1>13. Locals' = Locals \cup {r} /\ r \notin held
  BY <1>3, <1>4, <1>c, WaitLocals
<1>14. \A m \in Names : Len(m_refs[m]) <= g.depth[m] /\ g.depth[m] <= Len(m_refs'[m])
  BY <1>2, <1>3, <1>6, <1>7 DEF l
<1>15. \A i \in DOMAIN calls : calls[i].depth[g.name] < g.depth[g.name]
  <2>1. \A i \in DOMAIN calls : calls[i].depth[n] \in Nat /\ calls[i].depth[n] <= l
    BY <1>1, <1>2, DepthNat DEF DepthsKept, l
  <2> QED BY <1>2, <1>3, <1>6, <2>1 DEF l
<1>16. HolderKept(m_refs', m_metadata', heap', g)
  <2> DEFINE d == l + 1
  <2>1. d > 0 /\ (n \in m_metadata' => d > 1) /\ g.depth[g.name] = d
        /\ heap'.m_content[m_refs'[g.name][d]] = heap'.m_content[g.ref]
    BY <1>2, <1>3, <1>6, <1>7, <1>8, <1>10 DEF l
  <2> HIDE DEF d
  <2> QED BY <1>3, <2>1, Zenon DEF HolderKept
<1>17. AlwaysPlaceholder' /\ DepthsKept' /\ CallsKept'
  <2>1. {r} \cup {k} \subseteq Free \cup {g.ref}
    BY <1>3
  <2>2. g.ref \in Free /\ calls' = Append(calls, g)
    BY <1>3, <1>4, <1>c
  <2> QED BY <1>3, <1>7, <1>12, <1>14, <1>15, <1>16, <2>1, <2>2, WaitKept, Zenon
<1>18. Placeholders' = Placeholders
  BY <1>1, <1>7, GrowPlaceholders
<1>19. Guarded(heap', Guards', owned') /\ FreedIn(heap', owned')
  <2>1. Guarded(h, Guards \ {r}, owned \cup {b}) /\ FreedIn(h, owned)
    BY <1>1, <1>c, NewGuarded
  <2>2. \A q \in Guards \ {r} : q \in Guards'
    BY <1>13, <1>18 DEF Guards
  <2>3. Guarded(heap', Guards', owned \cup {b}) /\ FreedIn(heap', owned \cup {b})
    <3>1. \A q \in Guards \ {r} : \A d \in Buffers :
             h.memory[d] = "managed" /\ q \in OnBuffer(h, d) => d \in owned \cup {b} \/ (q \in Guards' /\ q \notin {k})
      BY <1>10, <2>2 DEF OnBuffer
    <3>2. Guards \ {r} \in SUBSET Refs /\ FreedIn(h, owned \cup {b})
      BY <2>1 DEF Guards, FreedIn
    <3> QED BY <1>4, <2>1, <3>1, <3>2, GuardTouches
  <2>4. k \in Guards' /\ k \in OnBuffer(heap', b)
    <3>1. k \notin Placeholders
      BY <1>1, <1>5, PlaceholdersIn
    <3> QED BY <1>5, <1>9, <1>10, <1>13, <1>18, <3>1 DEF Guards, OnBuffer, BufferOf
  <2> QED BY <1>10, <2>3, <2>4 DEF Guarded, FreedIn
<1>20. PlaceholdersOwned'
  <2>1. \A q \in Placeholders' : q \in Placeholders /\ q \notin {r} \cup {k}
    BY <1>1, <1>5, <1>18, PlaceholdersIn DEF r
  <2> QED BY <1>1, <1>12, <2>1, OwnedKept DEF MemoryKept
<1> QED BY <1>17, <1>19, <1>20, Zenon DEF Kept, MemoryKept

LEMMA ShareKept ==
    ASSUME StoreInv, StoreInv', Kept, NEW n \in Names, NEW a \in Access, Share(n, a)
    PROVE  Kept'
<1>1. TypeOK /\ descriptors = Names /\ UNCHANGED <<m_metadata, held, owned, descriptors>>
  BY DEF StoreInv, Share, MayCall
<1>2. PICK r \in Free, c \in FreshContents(heap), b \in FreshBuffers(heap) :
      \E k \in Free \ {r} : \E h :
         /\ Creates(heap, h, r, c, b)
         /\ \/ GivesBack(h, heap', r) /\ calls' = calls /\ status' = "error" /\ m_refs' = m_refs
            \/ Accepted(Call("share", n, r, {}, b, "notify"), calls, h, k)
  BY ShareEffect
<1>3. PICK k \in Free \ {r} : \E h :
         /\ Creates(heap, h, r, c, b)
         /\ \/ GivesBack(h, heap', r) /\ calls' = calls /\ status' = "error" /\ m_refs' = m_refs
            \/ Accepted(Call("share", n, r, {}, b, "notify"), calls, h, k)
  BY <1>2
<1>4. PICK h :
         /\ Creates(heap, h, r, c, b)
         /\ \/ GivesBack(h, heap', r) /\ calls' = calls /\ m_refs' = m_refs
            \/ Accepted(Call("share", n, r, {}, b, "notify"), calls, h, k)
  BY <1>3
<1>5. CASE GivesBack(h, heap', r) /\ calls' = calls /\ m_refs' = m_refs
  BY <1>1, <1>4, <1>5, ShareRefusedKept
<1>6. CASE Accepted(Call("share", n, r, {}, b, "notify"), calls, h, k)
  <2> DEFINE f == Call("share", n, r, {}, b, "notify")
  <2>1. r \in Refs /\ b \in Buffers
    BY FreePlace DEF FreshBuffers
  <2>2. f \in Frames /\ f.ref = r /\ f.op = "share"
    BY <1>1, <2>1, CallFields DEF Access
  <2>3. Accepted(f, calls, h, k)
    BY <1>6
  <2> HIDE DEF f
  <2> QED BY <1>1, <1>4, <2>2, <2>3, ShareAcceptedKept
<1> QED BY <1>4, <1>5, <1>6

-----------------------------------------------------------------------------
(* Steps that pop a holder *)

\* A descriptor is destroyed with its placeholder, which guards nothing.
LEMMA DestroyKept ==
    ASSUME StoreInv, StoreInv', Kept, NEW n \in Names, Destroy(n)
    PROVE  Kept'
<1> DEFINE p == n \in m_metadata /\ Len(m_refs[n]) = 1
           S == IF p THEN {Bottom(n)} ELSE {}
<1>1. /\ calls = <<>> /\ descriptors' = descriptors \ {n}
      /\ m_refs' = [m_refs EXCEPT ![n] = <<>>]
      /\ heap' = IF p THEN Reset(heap, Bottom(n)) ELSE heap
      /\ UNCHANGED <<m_metadata, calls, held, owned>>
  BY DEF Destroy, Bottom
<1>2. TypeOK /\ TypeOK' /\ StoreHeap(heap) /\ HoldersApart /\ AlwaysPlaceholder /\ MemoryKept
  BY Zenon DEF StoreInv, Kept, Apart
<1>3. m_refs'[n] = <<>> /\ \A m \in Names \ {n} : m_refs'[m] = m_refs[m]
  BY <1>1, <1>2 DEF TypeOK
<1>4. AlwaysPlaceholder'
  BY <1>1, <1>2, <1>3 DEF AlwaysPlaceholder, TypeOK
<1>5. DepthsKept' /\ CallsKept'
  <2>1. DOMAIN calls' = {}
    BY <1>1
  <2> QED BY <2>1 DEF DepthsKept, CallsKept
<1>6. \A m \in Names : m_refs[m] # <<>> => 1 \in DOMAIN m_refs[m] /\ m_refs[m][1] \in Refs
  BY <1>2, TopHolder, HolderIn
<1>7. p => m_refs[n] # <<>>
  <2>1. m_refs[n] = <<>> => Len(m_refs[n]) = 0
    OBVIOUS
  <2> QED BY <2>1
<1>8. S \subseteq Placeholders
  BY <1>7 DEF Placeholders, Bottom
<1>9. Touches(heap, heap', S)
  <2>1. CASE p
    BY <1>1, <1>2, <1>6, <1>7, <2>1, ResetTouches DEF Bottom
  <2>2. CASE ~p
    BY <1>1, <2>2, SelfTouches
  <2> QED BY <2>1, <2>2
<1>10. \A r \in Placeholders' : r \in Placeholders /\ r \notin S
  <2> SUFFICES ASSUME NEW m \in m_metadata', m_refs'[m] # <<>>
               PROVE  m_refs'[m][1] \in Placeholders /\ m_refs'[m][1] \notin S
    BY DEF Placeholders
  <2>1. m \in Names \ {n} /\ m_refs'[m] = m_refs[m] /\ m \in m_metadata
    BY <1>1, <1>2, <1>3 DEF TypeOK
  <2>2. m_refs[m][1] \in Placeholders
    BY <2>1 DEF Placeholders
  <2>3. p => m_refs[m][1] # Bottom(n)
    BY <1>2, <1>6, <1>7, <2>1 DEF HoldersApart, Bottom
  <2> QED BY <2>1, <2>2, <2>3
<1>11. Locals' = Locals
  BY <1>1 DEF Locals
<1> HIDE DEF S, p
<1>12. Guarded(heap', Guards', owned') /\ FreedIn(heap', owned')
  <2>1. \A r \in Guards : r \in Guards' /\ r \notin S
    BY <1>1, <1>8, <1>10, <1>11 DEF Guards
  <2>2. Guards \in SUBSET Refs
    BY DEF Guards
  <2>3. Guarded(heap, Guards, owned) /\ FreedIn(heap, owned) /\ owned \subseteq owned
    BY <1>2 DEF MemoryKept
  <2> QED BY <1>1, <1>9, <2>1, <2>2, <2>3, GuardTouches
<1>13. PlaceholdersOwned'
  <2>1. SameLinks(heap, heap', S) /\ NullStays(heap, heap', S)
    BY <1>9, TouchesSame, TouchesNull
  <2> QED BY <1>1, <1>2, <1>10, <2>1, OwnedKept DEF MemoryKept
<1> QED BY <1>4, <1>5, <1>12, <1>13, Zenon DEF Kept, MemoryKept

\* The innermost call pops the holder it works on: the other calls work on
\* holders below, and a placeholder that is replaced has no call above it.
LEMMA PopKept ==
    ASSUME StoreInv, StoreInv', disciplined, AlwaysPlaceholder, DepthsKept, CallsKept,
           NEW ops, Waiting("notify", ops), calls' = Front(calls),
           m_refs' = [m_refs EXCEPT ![Current.name] = Front(m_refs[Current.name])],
           UNCHANGED <<m_metadata, descriptors>>,
           SameLinks(heap, heap', Unlinked)
    PROVE  /\ AlwaysPlaceholder' /\ DepthsKept' /\ CallsKept'
           /\ Placeholders' = Placeholders /\ Top(Current.name) \notin Placeholders
<1> DEFINE n == Current.name
           l == Len(calls) - 1
           d == Len(m_refs[n])
<1>1. TypeOK /\ TypeOK' /\ Apart /\ HoldersApart /\ LocalsApart
  BY Zenon DEF StoreInv, Apart
<1>2. calls # <<>> /\ Current.pc = "notify" /\ Depth[n] = Current.depth[n]
  <2>1. calls # <<>> /\ Current.pc = "notify"
    BY Zenon DEF Waiting
  <2>2. n \in Names
    BY <1>1, <2>1, CurrentCall, Zenon
  <2> QED BY <2>1, <2>2 DEF Waiting
<1>3. /\ n \in Names /\ Len(calls) \in Nat /\ Len(calls) > 0 /\ Len(calls) \in DOMAIN calls
      /\ DOMAIN calls = 1 .. Len(calls) /\ Current = calls[Len(calls)]
  BY <1>1, <1>2, CurrentCall, Zenon
<1>4. d \in Nat /\ Current.depth[n] = d /\ DOMAIN m_refs[n] = 1 .. d
  BY <1>1, <1>2, <1>3, LenNat DEF Depth
<1>5. d > 0 /\ (n \in m_metadata => d > 1)
  <2>1. HolderKept(m_refs, m_metadata, heap, Current)
    BY <1>3 DEF CallsKept
  <2> QED BY <1>2, <1>4, <2>1 DEF HolderKept
<1>6. m_refs[n] # <<>>
  BY <1>4, <1>5
<1>7. /\ l \in Nat /\ 1 .. l \subseteq DOMAIN calls /\ DOMAIN calls' = 1 .. l
      /\ \A i \in 1 .. l : calls'[i] = calls[i] /\ i \in DOMAIN calls /\ i < Len(calls)
  <2>1. /\ l \in Nat /\ 1 .. l \subseteq DOMAIN calls /\ DOMAIN calls' = 1 .. l
        /\ \A i \in 1 .. l : calls'[i] = calls[i]
    BY <1>1, <1>2, CallShapes, Zenon
  <2> QED BY <1>3, <2>1
<1>8. /\ m_refs'[n] = Front(m_refs[n]) /\ \A m \in Names \ {n} : m_refs'[m] = m_refs[m]
  BY <1>1, <1>3, <1>6, PopHolder DEF Apart
<1>9. /\ Len(m_refs'[n]) = d - 1 /\ \A x \in 1 .. (d - 1) : m_refs'[n][x] = m_refs[n][x]
  BY <1>1, <1>3, <1>6, <1>8, FrontHolders
<1>10. Top(n) = m_refs[n][d]
  BY <1>1, <1>3, <1>6, TopHolder DEF Top
<1>11. Current.ref \in Locals
  BY <1>1, <1>2, CurrentCall, Zenon
<1> HIDE DEF n, l, d
<1>12. AlwaysPlaceholder'
  <2> SUFFICES ASSUME NEW m \in m_metadata \cap descriptors
               PROVE  m_refs'[m] # <<>>
    BY DEF AlwaysPlaceholder
  <2>1. CASE m = n
    <3>1. Len(m_refs'[n]) # 0
      BY <1>4, <1>5, <1>9, <2>1
    <3> QED BY <2>1, <3>1
  <2>2. CASE m # n
    BY <1>1, <1>8, <2>2 DEF AlwaysPlaceholder, TypeOK
  <2> QED BY <2>1, <2>2
<1>13. \A i \in 1 .. l : \A m \in Names : calls[i].depth[m] \in Nat /\ calls[i].depth[m] <= Len(m_refs[m])
  BY <1>1, <1>7, DepthNat DEF DepthsKept
<1>14. \A i \in 1 .. l : calls[i].depth[n] <= d - 1
  <2>1. \A i \in 1 .. l : calls[i].depth[n] < d
    BY <1>2, <1>3, <1>4, <1>7 DEF DepthsKept, n
  <2> QED BY <1>3, <1>4, <1>13, <2>1
<1>15. DepthsKept'
  <2>1. \A i \in 1 .. l : \A m \in Names : calls[i].depth[m] <= Len(m_refs'[m])
    BY <1>8, <1>9, <1>13, <1>14
  <2>2. \A i \in 1 .. l : calls'[i] = calls[i]
    BY <1>7
  <2> QED BY <1>1, <1>7, <2>1, <2>2, DepthsNext
<1>16. \A m \in Names : \A x \in DOMAIN m_refs[m] :
          /\ m_refs[m][x] # Current.ref
          /\ m_refs[m][x] = Top(n) => m = n /\ x = d
          /\ m_refs[m][x] = Bottom(n) => m = n /\ x = 1
  <2>1. d \in DOMAIN m_refs[n] /\ 1 \in DOMAIN m_refs[n]
    BY <1>4, <1>5
  <2>2. \A m \in Names : \A x \in DOMAIN m_refs[m] : m_refs[m][x] \in Holders
    BY <1>1, HolderIn
  <2> QED BY <1>1, <1>3, <1>10, <1>11, <2>1, <2>2 DEF Apart, HoldersApart, Bottom
<1>17. CallsKept'
  <2> SUFFICES ASSUME NEW i \in 1 .. l
               PROVE  HolderKept(m_refs', m_metadata', heap', calls[i])
    BY <1>7 DEF CallsKept
  <2> DEFINE m == calls[i].name
             e == calls[i].depth[m]
  <2>1. i \in DOMAIN calls /\ m \in Names /\ e \in Nat /\ e <= Len(m_refs[m]) /\ calls[i].ref \in Locals
    BY <1>1, <1>7, <1>13, DepthNat
  <2>2. DOMAIN m_refs[m] = 1 .. Len(m_refs[m]) /\ Len(m_refs[m]) \in Nat
    BY <1>1, <2>1, LenNat
  <2>3. calls[i].ref \notin Unlinked
    <3>1. calls[i].ref # Current.ref
      BY <1>1, <1>3, <1>7 DEF LocalsApart
    <3>2. calls[i].ref \notin Holders
      BY <1>1, <2>1 DEF Apart
    <3>3. Top(n) \in Holders /\ Bottom(n) \in Holders
      BY <1>1, <1>3, <1>4, <1>5, <1>10, HolderIn DEF Bottom
    <3> QED BY <3>1, <3>2, <3>3 DEF Unlinked, n
  <2>4. m = n => e <= d - 1
    BY <1>14
  <2>5. m = n /\ Replaces /\ calls[i].pc = "notify" => FALSE
    <3>1. m = n /\ Replaces => d = 2 /\ n \in m_metadata
      BY DEF Replaces, n, d
    <3>2. HolderKept(m_refs, m_metadata, heap, calls[i])
      BY <2>1 DEF CallsKept
    <3> QED BY <2>1, <2>4, <3>1, <3>2 DEF HolderKept
  <2> HIDE DEF e, m
  <2>6. calls[i].pc = "notify" => \A x \in 1 .. e : m_refs'[m][x] = m_refs[m][x] /\ m_refs[m][x] \notin Unlinked
    <3> SUFFICES ASSUME calls[i].pc = "notify", NEW x \in 1 .. e
                 PROVE  m_refs'[m][x] = m_refs[m][x] /\ m_refs[m][x] \notin Unlinked
      OBVIOUS
    <3>1. x \in DOMAIN m_refs[m]
      BY <2>1, <2>2
    <3>2. m = n => x \in 1 .. (d - 1) /\ x # d
      BY <1>4, <2>1, <2>4
    <3>3. m_refs'[m][x] = m_refs[m][x]
      BY <1>8, <1>9, <2>1, <3>2
    <3> QED BY <1>16, <2>1, <2>5, <3>1, <3>2, <3>3 DEF Unlinked, n
  <2> QED BY <2>1, <2>3, <2>6, HolderStays DEF e, m
<1>18. \A m \in m_metadata : m_refs[m] # <<>> => m_refs'[m] # <<>> /\ m_refs'[m][1] = m_refs[m][1]
  <2> SUFFICES ASSUME NEW m \in m_metadata, m_refs[m] # <<>>
               PROVE  m_refs'[m] # <<>> /\ m_refs'[m][1] = m_refs[m][1]
    OBVIOUS
  <2>1. CASE m = n
    <3>1. Len(m_refs'[n]) # 0 /\ 1 \in 1 .. (d - 1)
      BY <1>4, <1>5, <1>9, <2>1
    <3> QED BY <1>9, <2>1, <3>1
  <2>2. CASE m # n
    BY <1>1, <1>8, <2>2 DEF TypeOK
  <2> QED BY <2>1, <2>2
<1>19. \A m \in m_metadata : m_refs'[m] # <<>> => m_refs[m] # <<>>
  BY <1>1, <1>6, <1>8 DEF TypeOK
<1>20. Placeholders' = Placeholders
  BY <1>18, <1>19 DEF Placeholders
<1>21. Top(n) \notin Placeholders
  <2> SUFFICES ASSUME NEW m \in m_metadata, m_refs[m] # <<>>, m_refs[m][1] = Top(n)
               PROVE  FALSE
    BY DEF Placeholders
  <2>1. m \in Names /\ 1 \in DOMAIN m_refs[m]
    BY <1>1, TopHolder DEF TypeOK
  <2>2. m = n /\ d = 1
    BY <1>16, <2>1
  <2> QED BY <1>5, <2>2
<1> QED BY <1>12, <1>15, <1>17, <1>20, <1>21 DEF n

\* The call that ends with a pop.
LEMMA PoppingCall ==
    ASSUME StoreInv, Kept, disciplined, calls # <<>>, NEW pc, NEW ops, Waiting(pc, ops),
           pc = "notify" \/ Current.op # "access"
    PROVE  /\ Waiting("notify", ops) /\ m_refs[Current.name] # <<>>
           /\ Current.name \in Names /\ Current.ref \in Locals /\ Current.ref \in Refs
           /\ Top(Current.name) \in Refs /\ Top(Current.name) \in Holders
           /\ Current.ref # Top(Current.name) /\ Current.ref # Bottom(Current.name)
           /\ Top(Current.name) = m_refs[Current.name][Current.depth[Current.name]]
           /\ HolderKept(m_refs, m_metadata, heap, Current)
           /\ Current.depth[Current.name] \in DOMAIN m_refs[Current.name]
<1> DEFINE n == Current.name
<1>1. TypeOK /\ Apart /\ CallsKept
  BY Zenon DEF StoreInv, Kept
<1>2. /\ n \in Names /\ Current.ref \in Locals /\ Current.ref \in Refs
      /\ Len(calls) \in DOMAIN calls /\ Current = calls[Len(calls)]
  BY <1>1, CurrentCall, Zenon
<1>3. HolderKept(m_refs, m_metadata, heap, Current)
  BY <1>1, <1>2 DEF CallsKept
<1>4. Current.pc = pc /\ pc = "notify"
  <2>1. Current.pc = pc
    BY DEF Waiting
  <2>2. Current.pc \in {"missing", "notify"}
    BY <1>1, <1>2, DepthNat DEF Frames
  <2> QED BY <1>3, <2>1, <2>2 DEF HolderKept
<1>5. Waiting("notify", ops)
  BY <1>4
<1>6. Current.depth[n] = Len(m_refs[n])
  BY <1>2, <1>5 DEF Waiting, Depth
<1>7. Len(m_refs[n]) > 0
  BY <1>3, <1>4, <1>6 DEF HolderKept
<1>8. m_refs[n] # <<>>
  BY <1>7
<1>9. /\ Len(m_refs[n]) \in DOMAIN m_refs[n] /\ Top(n) = m_refs[n][Len(m_refs[n])]
      /\ Top(n) \in Holders /\ Top(n) \in Refs /\ 1 \in DOMAIN m_refs[n]
  BY <1>1, <1>2, <1>8, TopHolder DEF Top
<1>10. Bottom(n) \in Holders
  BY <1>1, <1>2, <1>9, HolderIn DEF Bottom
<1>11. Current.ref # Top(n) /\ Current.ref # Bottom(n)
  BY <1>1, <1>2, <1>9, <1>10 DEF Apart
<1> QED BY <1>2, <1>3, <1>5, <1>6, <1>8, <1>9, <1>11

\* A call that returns leaves the guards to the others.
LEMMA GuardsStay ==
    ASSUME StoreInv, calls # <<>>, calls' = Front(calls), held' = held, Placeholders' = Placeholders
    PROVE  /\ Guards \subseteq Guards' /\ Guards \in SUBSET Refs
           /\ Current.ref \notin Guards
<1>1. TypeOK /\ LocalsApart
  BY Zenon DEF StoreInv, Apart
<1>2. Locals' = Locals \ {Current.ref} /\ Current.ref \in Locals
  BY <1>1, PopCall, CurrentCall, Zenon
<1> QED BY <1>2 DEF Guards

\* Memory that nothing but null references lead to is with the user.
LEMMA NullIsUser ==
    ASSUME NEW h, StoreHeap(h), NEW r \in Refs, NEW b, r \in OnBuffer(h, b), IsNull(h, r)
    PROVE  h.memory[b] = "user"
<1>1. h.m_content[r] \in Contents /\ BufferOf(h, r) = b /\ b \in Buffers
  BY HeapFields, LinkedBuffer DEF StoreHeap, HeapInv, OnBuffer
<1> QED BY <1>1, HeapAssumption DEF StoreHeap, Nulled, IsNull, OnBuffer, BufferOf

\* A callback of notify_data threw: the data of share(void*) is with the user
\* again; PDI_access pops a holder above one of the same data.
LEMMA ShareThrowsKept ==
    ASSUME StoreInv, StoreInv', disciplined, Kept, ShareThrows
    PROVE  Kept'
<1> DEFINE n == Current.name
           t == Top(Current.name)
           r == Current.ref
           b == Current.buffer
           d == Current.depth[Current.name]
<1>1. TypeOK /\ TypeOK' /\ StoreHeap(heap) /\ Apart /\ CallsLinked /\ AlwaysPlaceholder /\ DepthsKept /\ CallsKept /\ MemoryKept
  BY Zenon DEF StoreInv, Kept
<1>2. /\ Waiting("notify", {"share", "access"}) /\ calls' = Front(calls) /\ calls # <<>>
      /\ status' = "error"
      /\ UNCHANGED <<m_metadata, held, owned, descriptors>>
  BY DEF ShareThrows, Waiting, Return
<1>3. /\ m_refs[n] # <<>> /\ n \in Names /\ r \in Locals /\ r \in Refs /\ t \in Refs /\ t \in Holders
      /\ r # t /\ r # Bottom(n) /\ t = m_refs[n][d]
      /\ HolderKept(m_refs, m_metadata, heap, Current) /\ d \in DOMAIN m_refs[n]
  BY <1>2, PoppingCall
<1>4. m_refs' = [m_refs EXCEPT ![n] = Front(m_refs[n])]
  BY <1>3 DEF ShareThrows
<1>5. /\ Touches(heap, Undone, {t}) /\ Undone.m_content[r] = heap.m_content[r]
  BY <1>2, <1>3, UndoneTouches
<1>6. /\ Current.op \in {"share", "access"}
      /\ Current.op = "share" => GivesBack(Undone, heap', r)
      /\ Current.op = "access" => Touches(Undone, heap', {r})
  BY ShareThrowsEffect
<1>7. SameLinks(heap, Undone, {t}) /\ NullStays(heap, Undone, {t}) /\ StoreHeap(Undone)
  BY <1>5, TouchesSame, TouchesNull
<1>8. SameLinks(Undone, heap', {r}) /\ NullStays(Undone, heap', {r})
  BY <1>6, <1>7, TouchesSame, TouchesNull, GivesBackSame, GivesBackNull
<1>9. SameLinks(heap, heap', {t} \cup {r}) /\ NullStays(heap, heap', {t} \cup {r})
  BY <1>7, <1>8, SameTwice, NullTwice
<1>10. SameLinks(heap, heap', Unlinked)
  BY <1>9 DEF SameLinks, Unlinked
<1>11. AlwaysPlaceholder' /\ DepthsKept' /\ CallsKept' /\ Placeholders' = Placeholders /\ t \notin Placeholders
  BY <1>1, <1>2, <1>4, <1>10, PopKept
<1>12. Guards \subseteq Guards' /\ Guards \in SUBSET Refs /\ r \notin Guards
  BY <1>2, <1>11, GuardsStay
<1> HIDE DEF n, t, r, b, d
<1>13. ASSUME Current.op = "share"
       PROVE  Guarded(heap', Guards', owned') /\ FreedIn(heap', owned')
  <2>1. b \in Buffers /\ BufferOf(heap, r) = b
    <3>1. Len(calls) \in DOMAIN calls /\ Current = calls[Len(calls)]
      BY <1>1, <1>2, CurrentCall, Zenon
    <3> QED BY <1>1, <1>13, <3>1 DEF CallsLinked, FrameLinked, b, r
  <2>2. heap.m_content[t] = heap.m_content[r]
    BY <1>3, <1>13 DEF HolderKept, n, d, r
  <2>3. BufferOf(heap, t) = b
    BY <2>1, <2>2 DEF BufferOf
  <2>4. Guarded(Undone, Guards \ {t}, owned \cup {b}) /\ FreedIn(Undone, owned \cup {b})
    <3>1. \A q \in Guards : \A e \in Buffers :
             heap.memory[e] = "managed" /\ q \in OnBuffer(heap, e) =>
                e \in owned \cup {b} \/ (q \in Guards \ {t} /\ q \notin {t})
      BY <2>3 DEF OnBuffer
    <3>2. Guarded(heap, Guards, owned) /\ FreedIn(heap, owned) /\ owned \subseteq owned \cup {b}
      BY <1>1 DEF MemoryKept
    <3> QED BY <1>5, <1>12, <3>1, <3>2, GuardTouches
  <2>5. Guarded(heap', Guards \ {t}, owned \cup {b}) /\ FreedIn(heap', owned \cup {b})
    <3>1. Guards \ {t} \in SUBSET Refs /\ r \notin Guards \ {t}
      BY <1>12
    <3> QED BY <1>6, <1>13, <2>4, <3>1, GuardGivesBack
  <2>6. heap'.memory[b] = "user"
    <3>1. Len(calls') = Len(calls) - 1 /\ Len(calls) \in Nat
      BY <1>1, <1>2, PopCall, CurrentCall, Zenon DEF Apart
    <3> QED BY <1>2, <1>13, <3>1, ShareThrowsSafely DEF FailsSafely, b
  <2>7. Guarded(heap', Guards \ {t}, owned) /\ FreedIn(heap', owned)
    BY <2>5, <2>6 DEF Guarded, FreedIn
  <2> QED BY <1>2, <1>12, <2>7 DEF Guarded
<1>14. ASSUME Current.op = "access"
       PROVE  Guarded(heap', Guards', owned') /\ FreedIn(heap', owned')
  <2>1. d > 1 /\ heap.m_content[t] \in {Null, heap.m_content[m_refs[n][d - 1]]}
    BY <1>2, <1>3, <1>14 DEF HolderKept, Waiting, n, d
  <2>2. PICK q : q = m_refs[n][d - 1]
    OBVIOUS
  <2>3. q \in Holders /\ q \in Refs /\ q # t
    <3>1. d - 1 \in DOMAIN m_refs[n] /\ d - 1 # d
      <4>1. DOMAIN m_refs[n] = 1 .. Len(m_refs[n]) /\ Len(m_refs[n]) \in Nat
        BY <1>1, <1>3, LenNat
      <4> QED BY <1>3, <2>1, <4>1
    <3>2. q # t
      BY <1>1, <1>3, <2>2, <3>1 DEF Apart, HoldersApart
    <3> QED BY <1>1, <1>3, <2>2, <3>1, <3>2, HolderIn
  <2>4. Guarded(heap, Guards \ {t}, owned)
    <3> SUFFICES ASSUME NEW e \in Buffers, heap.memory[e] = "managed", e \notin owned
                 PROVE  \E s \in Guards \ {t} : s \in OnBuffer(heap, e)
      BY DEF Guarded
    <3>1. PICK s \in Guards : s \in OnBuffer(heap, e)
      BY <1>1 DEF MemoryKept, Guarded
    <3>2. CASE s = t
      <4>1. q \in OnBuffer(heap, e)
        BY <2>1, <2>2, <2>3, <3>1, <3>2 DEF OnBuffer, BufferOf
      <4>2. ~IsNull(heap, q) /\ BufferOf(heap, q) = e
        BY <1>1, <2>3, <4>1, NullIsUser DEF OnBuffer
      <4>3. q \notin Placeholders
        BY <1>1, <4>2 DEF MemoryKept, PlaceholdersOwned
      <4>4. q \in Guards
        BY <1>1, <2>3, <4>3 DEF Guards, Apart
      <4> QED BY <2>3, <4>1, <4>4
    <3> QED BY <3>1, <3>2
  <2>5. Touches(heap, heap', {t} \cup {r})
    BY <1>5, <1>6, <1>14, TouchesTwice
  <2>6. \A s \in Guards \ {t} : s \in Guards' /\ s \notin {t} \cup {r}
    BY <1>12
  <2>7. Guards \ {t} \in SUBSET Refs /\ FreedIn(heap, owned) /\ owned \subseteq owned
    BY <1>1, <1>12 DEF MemoryKept
  <2>8. Guarded(heap', Guards', owned) /\ FreedIn(heap', owned)
    BY <2>4, <2>5, <2>6, <2>7, GuardTouches
  <2> QED BY <1>2, <2>8
<1>15. PlaceholdersOwned'
  <2>1. \A q \in Placeholders' : q \in Placeholders /\ q \notin {t} \cup {r}
    BY <1>1, <1>3, <1>11, PlaceholdersIn DEF Apart
  <2> QED BY <1>1, <1>2, <1>9, <2>1, OwnedKept DEF MemoryKept
<1> QED BY <1>6, <1>11, <1>13, <1>14, <1>15, Zenon DEF Kept, MemoryKept

\* What a removal pops guards only the buffer of the data that is removed.
LEMMA RemovedGuards ==
    ASSUME StoreInv, StoreInv', disciplined, Kept, NEW pc, NEW ops, Waiting(pc, ops), Current.op # "access",
           calls' = Front(calls),
           m_refs' = [m_refs EXCEPT ![Current.name] = Front(m_refs[Current.name])],
           UNCHANGED <<m_metadata, held, descriptors>>,
           SameLinks(heap, heap', Unlinked)
    PROVE  /\ AlwaysPlaceholder' /\ DepthsKept' /\ CallsKept'
           /\ Placeholders' = Placeholders
           /\ \A q \in Placeholders : q \in Unlinked => Replaces /\ q = Bottom(Current.name)
           /\ Guards \subseteq Guards' /\ Guards \in SUBSET Refs
           /\ \A q \in Guards : q \in Unlinked => q = Top(Current.name)
           /\ \A b \in Buffers : heap.memory[b] = "managed" /\ Top(Current.name) \in OnBuffer(heap, b) =>
                 ~IsNull(heap, Top(Current.name)) /\ b = BufferOf(heap, Top(Current.name))
<1>1. TypeOK /\ StoreHeap(heap) /\ Apart /\ AlwaysPlaceholder /\ DepthsKept /\ CallsKept
  BY Zenon DEF StoreInv, Kept
<1>2. calls # <<>>
  BY DEF Waiting
<1>3. /\ Waiting("notify", ops) /\ m_refs[Current.name] # <<>> /\ Current.name \in Names
      /\ Current.ref \in Locals /\ Top(Current.name) \in Refs
  BY <1>2, PoppingCall
<1>4. /\ AlwaysPlaceholder' /\ DepthsKept' /\ CallsKept'
      /\ Placeholders' = Placeholders /\ Top(Current.name) \notin Placeholders
  BY <1>1, <1>3, PopKept
<1>5. Guards \subseteq Guards' /\ Guards \in SUBSET Refs /\ Current.ref \notin Guards
  BY <1>2, <1>4, GuardsStay
<1>6. Current.ref \notin Placeholders
  BY <1>1, <1>3, PlaceholdersIn DEF Apart
<1>7. Replaces => Bottom(Current.name) \in Placeholders
  BY <1>3 DEF Replaces, Bottom, Placeholders
<1>8. \A q \in Guards : q \in Unlinked => q = Top(Current.name)
  BY <1>5, <1>7 DEF Unlinked, Guards
<1>9. \A q \in Placeholders : q \in Unlinked => Replaces /\ q = Bottom(Current.name)
  BY <1>4, <1>6 DEF Unlinked
<1>10. \A b \in Buffers : heap.memory[b] = "managed" /\ Top(Current.name) \in OnBuffer(heap, b) =>
          ~IsNull(heap, Top(Current.name)) /\ b = BufferOf(heap, Top(Current.name))
  <2> SUFFICES ASSUME NEW b \in Buffers, heap.memory[b] = "managed", Top(Current.name) \in OnBuffer(heap, b)
               PROVE  ~IsNull(heap, Top(Current.name)) /\ b = BufferOf(heap, Top(Current.name))
    OBVIOUS
  <2>1. ~IsNull(heap, Top(Current.name))
    BY <1>1, <1>3, NullIsUser
  <2> QED BY <2>1 DEF OnBuffer
<1> QED BY <1>4, <1>5, <1>8, <1>9, <1>10

\* release() leaves the data to PDI, and a new placeholder is on it.
LEMMA ReleaseKept ==
    ASSUME StoreInv, StoreInv', disciplined, Kept, NEW pc, ReleaseDone(pc)
    PROVE  Kept'
<1> DEFINE n == Current.name
           t == Top(Current.name)
           u == Bottom(Current.name)
           r == Current.ref
<1>1. TypeOK /\ TypeOK' /\ MemoryKept /\ StoreHeap(heap)
  BY Zenon DEF StoreInv, Kept
<1>2. /\ calls # <<>> /\ m_refs[n] # <<>> /\ Current.op = "release"
      /\ Touches(heap, heap', Unlinked)
      /\ Replaces => heap'.m_content[u] \in {Null, GetContent(heap, t)}
  BY ReleaseEffect
<1>3. /\ Waiting(pc, {"release"}) /\ calls' = Front(calls)
      /\ m_refs' = [m_refs EXCEPT ![n] = Front(m_refs[n])]
      /\ owned' = owned \cup {BufferOf(Popped, q) : q \in {q \in {r} : ~IsNull(Popped, q)}}
      /\ UNCHANGED <<m_metadata, held, descriptors>>
  BY DEF ReleaseDone, Return
<1>4. SameLinks(heap, heap', Unlinked) /\ NullStays(heap, heap', Unlinked)
  BY <1>2, TouchesSame, TouchesNull
<1>5. /\ AlwaysPlaceholder' /\ DepthsKept' /\ CallsKept'
      /\ Placeholders' = Placeholders
      /\ \A q \in Placeholders : q \in Unlinked => Replaces /\ q = u
      /\ Guards \subseteq Guards' /\ Guards \in SUBSET Refs
      /\ \A q \in Guards : q \in Unlinked => q = t
      /\ \A b \in Buffers : heap.memory[b] = "managed" /\ t \in OnBuffer(heap, b) =>
            ~IsNull(heap, t) /\ b = BufferOf(heap, t)
  BY <1>2, <1>3, <1>4, RemovedGuards
<1>6. t \in Refs
  BY <1>2, <1>3, PoppingCall
<1> HIDE DEF n, t, u, r
<1>7. ~IsNull(heap, t) => BufferOf(heap, t) \in owned'
  <2> SUFFICES ASSUME ~IsNull(heap, t)
               PROVE  BufferOf(heap, t) \in owned'
    OBVIOUS
  <2>1. Popped.m_content[r] = heap.m_content[t] /\ Popped.m_data = heap.m_data /\ Popped.m_buffer = heap.m_buffer
    BY <1>2, PoppedTouches DEF Touches, GetContent, r, t, n, Top
  <2>2. ~IsNull(Popped, r) /\ BufferOf(Popped, r) = BufferOf(heap, t)
    BY <2>1 DEF IsNull, BufferOf
  <2> QED BY <1>3, <2>2
<1>8. owned \subseteq owned'
  BY <1>3
<1>9. Guarded(heap', Guards', owned') /\ FreedIn(heap', owned')
  <2>1. \A q \in Guards : \A b \in Buffers :
           heap.memory[b] = "managed" /\ q \in OnBuffer(heap, b) =>
              b \in owned' \/ (q \in Guards' /\ q \notin Unlinked)
    BY <1>5, <1>7
  <2> QED BY <1>1, <1>2, <1>5, <1>8, <2>1, GuardTouches DEF MemoryKept
<1>10. PlaceholdersOwned'
  <2>1. Replaces => IsNull(heap', u) \/ BufferOf(heap', u) \in owned'
    <3>1. Replaces /\ heap'.m_content[u] # Null => ~IsNull(heap, t) /\ heap'.m_content[u] = heap.m_content[t]
      BY <1>2 DEF GetContent
    <3>2. heap'.m_buffer = heap.m_buffer
      BY <1>2 DEF Touches
    <3> QED BY <1>7, <3>1, <3>2 DEF IsNull, BufferOf
  <2>2. \A q \in Placeholders' :
           (q \in Placeholders /\ q \notin Unlinked) \/ IsNull(heap', q) \/ BufferOf(heap', q) \in owned'
    BY <1>5, <2>1
  <2> QED BY <1>1, <1>4, <1>8, <2>2, OwnedKept DEF MemoryKept
<1> QED BY <1>5, <1>9, <1>10, Zenon DEF Kept, MemoryKept

\* The heap once the holders are popped, before the memory is given back.
LEMMA BareGuarded ==
    ASSUME MemoryKept, Touches(heap, Bare, Unlinked), Guards \in SUBSET Refs, NEW t,
           \A q \in Guards : q \in Unlinked => q = t,
           \A b \in Buffers : heap.memory[b] = "managed" /\ t \in OnBuffer(heap, b) =>
              ~IsNull(heap, t) /\ b = BufferOf(heap, t)
    PROVE  LET B == IF IsNull(heap, t) THEN {} ELSE {BufferOf(heap, t)}
           IN  Guarded(Bare, Guards \ Unlinked, owned \cup B) /\ FreedIn(Bare, owned \cup B)
<1> DEFINE B == IF IsNull(heap, t) THEN {} ELSE {BufferOf(heap, t)}
           G == Guards \ Unlinked
<1>1. \A q \in Guards : \A b \in Buffers :
         heap.memory[b] = "managed" /\ q \in OnBuffer(heap, b) =>
            b \in owned \cup B \/ (q \in G /\ q \notin Unlinked)
  OBVIOUS
<1>2. Guarded(heap, Guards, owned) /\ FreedIn(heap, owned) /\ owned \subseteq owned \cup B
  BY DEF MemoryKept
<1> HIDE DEF B, G
<1>3. Guarded(Bare, G, owned \cup B) /\ FreedIn(Bare, owned \cup B)
  BY <1>1, <1>2, GuardTouches
<1> QED BY <1>3 DEF B, G

\* reclaim() gives the memory back to the user, and a new placeholder is on a
\* copy that PDI owns.
LEMMA ReclaimKept ==
    ASSUME StoreInv, StoreInv', disciplined, Kept, NEW pc, ReclaimDone(pc)
    PROVE  Kept'
<1> DEFINE n == Current.name
           t == Top(Current.name)
           u == Bottom(Current.name)
           r == Current.ref
           B == IF IsNull(heap, t) THEN {} ELSE {BufferOf(heap, t)}
           G == Guards \ Unlinked
<1>1. TypeOK /\ TypeOK' /\ MemoryKept /\ StoreHeap(heap)
  BY Zenon DEF StoreInv, Kept
<1>2. calls # <<>> /\ m_refs[n] # <<>> /\ Current.op = "reclaim"
  BY ReclaimEffect
<1>3. /\ Waiting(pc, {"reclaim"}) /\ calls' = Front(calls)
      /\ m_refs' = [m_refs EXCEPT ![n] = Front(m_refs[n])]
      /\ UNCHANGED <<m_metadata, held, descriptors>>
  BY DEF ReclaimDone, Return
<1>4. t \in Refs /\ r \in Refs /\ r # t /\ r # u
  BY <1>2, <1>3, PoppingCall
<1>5. /\ Touches(heap, Bare, Unlinked) /\ StoreHeap(Bare)
      /\ Replaces => Bare.m_content[u] = Null
      /\ Bare.m_content[r] = GetContent(heap, t)
  BY <1>2, BareTouches DEF Touches
<1>6. SameLinks(heap, Bare, Unlinked) /\ NullStays(heap, Bare, Unlinked)
  BY <1>5, TouchesSame, TouchesNull
<1>7. r \in Unlinked /\ (Replaces => u \in Unlinked)
  BY DEF Unlinked
<1>8. ~IsNull(heap, t) =>
         /\ Bare.m_content[r] = heap.m_content[t] /\ heap.m_content[t] \in Contents
         /\ Bare.m_data[heap.m_content[t]] /\ Bare.m_buffer = heap.m_buffer
         /\ BufferOf(heap, t) \in Buffers
  <2>1. Bare.m_data = heap.m_data /\ Bare.m_buffer = heap.m_buffer
    BY <1>5 DEF Touches
  <2>2. ~IsNull(heap, t) => GetContent(heap, t) = heap.m_content[t] /\ heap.m_content[t] # Null
    BY DEF GetContent, IsNull
  <2> QED BY <1>1, <1>4, <1>5, <2>1, <2>2, SeenContent
<1>9. CASE GivesBack(Bare, heap', r) /\ owned' = owned
  <2>1. SameLinks(Bare, heap', {r}) /\ NullStays(Bare, heap', {r})
    BY <1>5, <1>9, GivesBackSame, GivesBackNull
  <2>2. SameLinks(heap, heap', Unlinked \cup {r}) /\ NullStays(heap, heap', Unlinked \cup {r})
    BY <1>6, <2>1, SameTwice, NullTwice
  <2>3. Unlinked \cup {r} = Unlinked
    BY <1>7
  <2>4. SameLinks(heap, heap', Unlinked) /\ NullStays(heap, heap', Unlinked)
    BY <2>2, <2>3
  <2>5. /\ AlwaysPlaceholder' /\ DepthsKept' /\ CallsKept'
        /\ Placeholders' = Placeholders
        /\ \A q \in Placeholders : q \in Unlinked => Replaces /\ q = u
        /\ Guards \subseteq Guards' /\ Guards \in SUBSET Refs
        /\ \A q \in Guards : q \in Unlinked => q = t
        /\ \A b \in Buffers : heap.memory[b] = "managed" /\ t \in OnBuffer(heap, b) =>
              ~IsNull(heap, t) /\ b = BufferOf(heap, t)
    BY <1>2, <1>3, <2>4, RemovedGuards
  <2>6. Guarded(Bare, G, owned \cup B) /\ FreedIn(Bare, owned \cup B)
    BY <1>1, <1>5, <2>5, BareGuarded
  <2> HIDE DEF n, t, u, r, B, G
  <2>7. G \in SUBSET Refs /\ r \notin G /\ G \subseteq Guards'
    BY <1>7, <2>5 DEF G
  <2>8. Guarded(heap', G, owned \cup B) /\ FreedIn(heap', owned \cup B)
    BY <1>9, <2>6, <2>7, GuardGivesBack
  <2>9. \A b \in B : heap'.memory[b] = "user"
    <3> SUFFICES ASSUME ~IsNull(heap, t)
                 PROVE  heap'.memory[BufferOf(heap, t)] = "user"
      BY DEF B
    <3>1. ~IsNull(Bare, r) /\ BufferOf(Bare, r) = BufferOf(heap, t)
      BY <1>8, HeapAssumption DEF IsNull, BufferOf
    <3> QED BY <1>8, <1>9, <3>1 DEF GivesBack
  <2>10. Guarded(heap', Guards', owned') /\ FreedIn(heap', owned')
    <3>1. Guarded(heap', G, owned) /\ FreedIn(heap', owned)
      BY <2>8, <2>9, GuardUser
    <3> QED BY <1>9, <2>7, <3>1 DEF Guarded
  <2>11. Replaces /\ u \in Refs => heap'.m_content[u] = Null
    BY <1>4, <1>5, <1>9 DEF GivesBack
  <2>12. PlaceholdersOwned'
    <3>1. \A q \in Placeholders' :
             (q \in Placeholders /\ q \notin Unlinked) \/ IsNull(heap', q) \/ BufferOf(heap', q) \in owned'
      <4>1. \A q \in Placeholders : q \in Refs
        BY <1>1, PlaceholdersIn, HoldersInRefs
      <4> QED BY <2>5, <2>11, <4>1 DEF IsNull
    <3>2. owned \subseteq owned'
      BY <1>9
    <3> QED BY <1>1, <2>4, <3>1, <3>2, OwnedKept DEF MemoryKept
  <2> QED BY <2>5, <2>10, <2>12, Zenon DEF Kept, MemoryKept
<1>10. CASE Replaces /\ \E c \in FreshContents(heap), b \in FreshBuffers(heap) : \E g :
                           /\ Creates(Bare, g, u, c, b)
                           /\ GivesBack(g, heap', r)
                           /\ owned' = owned \cup {b}
  <2>1. PICK c \in FreshContents(heap), b \in FreshBuffers(heap) : \E g :
                           /\ Creates(Bare, g, u, c, b)
                           /\ GivesBack(g, heap', r)
                           /\ owned' = owned \cup {b}
    BY <1>10
  <2>2. PICK g : Creates(Bare, g, u, c, b) /\ GivesBack(g, heap', r) /\ owned' = owned \cup {b}
    BY <2>1
  <2>3. c \in FreshContents(Bare) /\ c \in Contents
    BY <1>5, TouchesFresh DEF FreshContents
  <2>4. SameLinks(Bare, g, {u}) /\ NullStays(Bare, g, {u}) /\ StoreHeap(g)
    BY <1>5, <2>2, <2>3, CreatesSame, CreatesNull
  <2>5. SameLinks(g, heap', {r}) /\ NullStays(g, heap', {r})
    BY <2>2, <2>4, GivesBackSame, GivesBackNull
  <2>6. SameLinks(heap, g, Unlinked \cup {u}) /\ NullStays(heap, g, Unlinked \cup {u})
    BY <1>6, <2>4, SameTwice, NullTwice
  <2>7. SameLinks(heap, heap', (Unlinked \cup {u}) \cup {r}) /\ NullStays(heap, heap', (Unlinked \cup {u}) \cup {r})
    BY <2>5, <2>6, SameTwice, NullTwice
  <2>8. (Unlinked \cup {u}) \cup {r} = Unlinked
    BY <1>7, <1>10
  <2>9. SameLinks(heap, heap', Unlinked) /\ NullStays(heap, heap', Unlinked)
    BY <2>7, <2>8
  <2>10. /\ AlwaysPlaceholder' /\ DepthsKept' /\ CallsKept'
         /\ Placeholders' = Placeholders
         /\ \A q \in Placeholders : q \in Unlinked => Replaces /\ q = u
         /\ Guards \subseteq Guards' /\ Guards \in SUBSET Refs
         /\ \A q \in Guards : q \in Unlinked => q = t
         /\ \A e \in Buffers : heap.memory[e] = "managed" /\ t \in OnBuffer(heap, e) =>
               ~IsNull(heap, t) /\ e = BufferOf(heap, t)
    BY <1>2, <1>3, <2>9, RemovedGuards
  <2>11. Guarded(Bare, G, owned \cup B) /\ FreedIn(Bare, owned \cup B)
    BY <1>1, <1>5, <2>10, BareGuarded
  <2> HIDE DEF n, t, u, r, B, G
  <2>12. G \in SUBSET Refs /\ r \notin G /\ G \subseteq Guards' /\ u \notin G
    BY <1>7, <1>10, <2>10 DEF G
  <2>13. Guarded(g, G, (owned \cup B) \cup {b}) /\ FreedIn(g, owned \cup B)
    BY <1>5, <2>2, <2>3, <2>11, <2>12, GuardCreates
  <2>14. Guarded(g, G, owned' \cup B) /\ FreedIn(g, owned' \cup B)
    BY <2>2, <2>13 DEF Guarded, FreedIn
  <2>15. Guarded(heap', G, owned' \cup B) /\ FreedIn(heap', owned' \cup B)
    BY <2>2, <2>12, <2>14, GuardGivesBack
  <2>16. \A e \in B : heap'.memory[e] = "user"
    <3> SUFFICES ASSUME ~IsNull(heap, t)
                 PROVE  heap'.memory[BufferOf(heap, t)] = "user"
      BY DEF B
    <3>1. heap.m_content[t] # c
      BY <1>1, <1>4, FreshUnlinked DEF StoreHeap, HeapInv
    <3>2. g.m_content[r] = heap.m_content[t] /\ g.m_data[heap.m_content[t]]
          /\ g.m_buffer[heap.m_content[t]] = heap.m_buffer[heap.m_content[t]]
      BY <1>4, <1>8, <2>2, <3>1 DEF Creates
    <3>3. ~IsNull(g, r) /\ BufferOf(g, r) = BufferOf(heap, t)
      BY <1>8, <3>2, HeapAssumption DEF IsNull, BufferOf
    <3> QED BY <1>8, <2>2, <3>3 DEF GivesBack
  <2>17. Guarded(heap', Guards', owned') /\ FreedIn(heap', owned')
    <3>1. Guarded(heap', G, owned') /\ FreedIn(heap', owned')
      BY <2>15, <2>16, GuardUser
    <3> QED BY <2>12, <3>1 DEF Guarded
  <2>18. u \in Refs => BufferOf(heap', u) \in owned'
    <3>1. u \in Refs => heap'.m_content[u] = c /\ heap'.m_buffer[c] = b
      BY <1>4, <2>2 DEF GivesBack, Creates
    <3> QED BY <2>2, <3>1 DEF BufferOf
  <2>19. PlaceholdersOwned'
    <3>1. \A q \in Placeholders' :
             (q \in Placeholders /\ q \notin Unlinked) \/ IsNull(heap', q) \/ BufferOf(heap', q) \in owned'
      <4>1. \A q \in Placeholders : q \in Refs
        BY <1>1, PlaceholdersIn, HoldersInRefs
      <4> QED BY <2>10, <2>18, <4>1
    <3>2. owned \subseteq owned'
      BY <2>2
    <3> QED BY <1>1, <2>9, <3>1, <3>2, OwnedKept DEF MemoryKept
  <2> QED BY <2>10, <2>17, <2>19, Zenon DEF Kept, MemoryKept
<1> QED BY <1>9, <1>10, ReclaimEffect

-----------------------------------------------------------------------------
(* The invariant is inductive *)

\* A disciplined callback cannot take away what its call removes.
LEMMA NeverMissing ==
    ASSUME StoreInv, Kept, disciplined
    PROVE  ~RemoveMissing
<1> SUFFICES ASSUME RemoveMissing
             PROVE  FALSE
  OBVIOUS
<1>1. /\ Waiting("notify", {"release", "reclaim"}) /\ m_refs[Current.name] = <<>>
      /\ calls # <<>>
  BY DEF RemoveMissing, Waiting
<1> QED BY <1>1, PoppingCall

\* No step changes whether callbacks are disciplined.
LEMMA DisciplineSame ==
    ASSUME [Next]_vars
    PROVE  disciplined' = disciplined
<1>1. ASSUME NEW n \in Names, NEW a \in Modes,
             Share(n, a) \/ AccessShared(n, a) \/ AccessMissing(n, a)
      PROVE  disciplined' = disciplined
  BY <1>1 DEF Share, AccessShared, AccessMissing
<1>2. ASSUME NEW n \in Names,
             \/ LoadData(n) \/ RemoveBegins("release", n) \/ RemoveBegins("reclaim", n)
             \/ RemoveRefused(n) \/ (\E R \in PluginRights : Hold(n, R)) \/ Destroy(n)
      PROVE  disciplined' = disciplined
  BY <1>2 DEF LoadData, RemoveBegins, RemoveRefused, Hold, Destroy
<1>3. ASSUME \/ ShareDone \/ ShareThrows \/ RemoveThrows \/ RemoveMissing \/ MissingThrows \/ MissingShared
             \/ \E s \in Refs : Drop(s)
      PROVE  disciplined' = disciplined
  BY <1>3 DEF ShareDone, ShareThrows, RemoveThrows, RemoveMissing, MissingThrows, MissingShared, Drop
<1>4. ASSUME NEW pc, ReleaseDone(pc) \/ ReclaimDone(pc) \/ ReclaimCopyThrows(pc)
      PROVE  disciplined' = disciplined
  BY <1>4 DEF ReleaseDone, ReclaimDone, ReclaimCopyThrows
<1>5. CASE UNCHANGED vars
  BY <1>5 DEF vars
<1> QED BY <1>1, <1>2, <1>3, <1>4, <1>5, Zenon DEF Next

LEMMA KeptStep ==
    ASSUME StoreInv, StoreInv', disciplined, Kept, Next
    PROVE  Kept'
<1>1. Modes \subseteq Access /\ PluginRights \subseteq Access
  BY DataAssumption
<1>2. ASSUME NEW n \in Names, NEW a \in Modes, Share(n, a) \/ AccessShared(n, a) \/ AccessMissing(n, a)
      PROVE  Kept'
  BY <1>1, <1>2, ShareKept, AccessSharedKept, AccessMissingKept
<1>3. ASSUME NEW n \in Names,
             \/ LoadData(n)
             \/ RemoveBegins("release", n) \/ RemoveBegins("reclaim", n) \/ RemoveRefused(n)
             \/ \E R \in PluginRights : Hold(n, R)
             \/ Destroy(n)
      PROVE  Kept'
  BY <1>1, <1>3, LoadDataKept, RemoveBeginsKept, RemoveRefusedKept, HoldKept, DestroyKept
<1>4. ASSUME ShareDone \/ ShareThrows \/ RemoveThrows \/ RemoveMissing \/ MissingThrows \/ MissingShared
      PROVE  Kept'
  BY <1>4, EndsKept, ShareThrowsKept, NeverMissing, MissingSharedKept
<1>5. ASSUME NEW pc, ReleaseDone(pc) \/ ReclaimDone(pc) \/ ReclaimCopyThrows(pc)
      PROVE  Kept'
  <2>1. ~ReclaimCopyThrows(pc)
    BY DEF ReclaimCopyThrows
  <2> QED BY <1>5, <2>1, ReleaseKept, ReclaimKept
<1> QED BY <1>2, <1>3, <1>4, <1>5, DropKept, Zenon DEF Next

LEMMA KeptInit ==
    ASSUME Init
    PROVE  Kept
<1>1. /\ heap = EmptyHeap /\ m_metadata = {} /\ calls = <<>> /\ owned = {}
  BY DEF Init
<1>2. DOMAIN calls = {} /\ \A b \in Buffers : heap.memory[b] = "none"
  BY <1>1 DEF EmptyHeap
<1>3. AlwaysPlaceholder /\ DepthsKept /\ CallsKept
  BY <1>1, <1>2 DEF AlwaysPlaceholder, DepthsKept, CallsKept
<1>4. Placeholders = {}
  BY <1>1 DEF Placeholders
<1>5. MemoryKept
  BY <1>2, <1>4 DEF MemoryKept, Guarded, FreedIn, PlaceholdersOwned
<1> QED BY <1>3, <1>5, Zenon DEF Kept

\* What Kept says depends on the variables only.
LEMMA KeptStutters ==
    ASSUME UNCHANGED vars, Kept
    PROVE  Kept'
<1>1. UNCHANGED <<heap, m_refs, m_metadata, calls, held, owned, descriptors>>
  BY DEF vars
<1>2. AlwaysPlaceholder' /\ DepthsKept' /\ CallsKept'
  BY <1>1 DEF Kept, AlwaysPlaceholder, DepthsKept, CallsKept
<1>3. Placeholders' = Placeholders /\ Locals' = Locals
  BY <1>1 DEF Placeholders, Locals
<1>4. Guards' = Guards
  BY <1>1, <1>3 DEF Guards
<1>5. MemoryKept'
  BY <1>1, <1>3, <1>4 DEF Kept, MemoryKept, PlaceholdersOwned
<1> QED BY <1>2, <1>5, Zenon DEF Kept

-----------------------------------------------------------------------------
(* The theorems about disciplined callbacks *)

\* As long as callbacks remove only what they share, every call finds the
\* holder it works on where it left it, and data that is not PDI's has a
\* reference that only the end of its sharing resets.
THEOREM DisciplineHolds == Spec => [](StoreInv /\ DisciplineInv)
<1>1. Init => StoreInv /\ DisciplineInv
  BY InitInv, KeptInit DEF DisciplineInv
<1>2. StoreInv /\ DisciplineInv /\ [Next]_vars => (StoreInv /\ DisciplineInv)'
  <2> SUFFICES ASSUME StoreInv, StoreInv', DisciplineInv, [Next]_vars
               PROVE  DisciplineInv'
    <3>1. StoreInv /\ [Next]_vars => StoreInv'
      BY StepInv, StoreStutters
    <3> QED BY <3>1
  <2>1. disciplined' = disciplined
    BY DisciplineSame
  <2> QED BY <2>1, KeptStep, KeptStutters DEF DisciplineInv
<1> QED BY <1>1, <1>2, PTL DEF Spec

\* A metadata keeps its placeholder ("metadata descriptors should always keep a
\* placeholder", asserted by Data_descriptor_impl) through every share, release
\* and reclaim, nested ones and failing ones included.
THEOREM PlaceholderAlwaysKept == Spec => []PlaceholderKept
<1>1. DisciplineInv => PlaceholderKept
  BY DEF DisciplineInv, Kept, PlaceholderKept
<1> QED BY <1>1, DisciplineHolds, PTL

\* PDI never deallocates memory that the user shared and did not release: not
\* when a share fails, when the data is reclaimed, when a plugin drops the last
\* reference it kept, nor when the store is destroyed.
THEOREM FreesOnlyOwned == Spec => []FreedOnlyIfOwned
<1>1. DisciplineInv => FreedOnlyIfOwned
  BY DEF DisciplineInv, Kept, MemoryKept, FreedIn, FreedOnlyIfOwned
<1> QED BY <1>1, DisciplineHolds, PTL

-----------------------------------------------------------------------------
(* The refinement mapping *)

\* The value of a reference: the buffer it leads to.
Val(h, r) == IF IsNull(h, r) THEN Null ELSE BufferOf(h, r)

Vals == Buffers \cup {Null}

StackOf(refs, h) == [n \in Names |-> [i \in DOMAIN refs[n] |-> Val(h, refs[n][i])]]

Stack == StackOf(m_refs, heap)

Present == UNION {{Stack[n][i] : i \in DOMAIN Stack[n]} : n \in Names}

\* The operators of DataStore, on these values.
LEMMA TopAbs ==
    ASSUME NEW n
    PROVE  Store!Top(n) = Last(Stack[n])
  BY Zenon DEF Store!Top, Store!Last, Last, Stack, StackOf, Val

LEMMA PresentAbs == Store!Present = Present
  BY Zenon DEF Store!Present, Present, Stack, StackOf, Val

LEMMA FloorAbs ==
    ASSUME NEW n
    PROVE  Store!Floor(n) = IF n \in m_metadata THEN 1 ELSE 0
  BY Zenon DEF Store!Floor

\* Its actions.
LEMMA NextAbs ==
    ASSUME NEW n \in Names,
        \/ \E meta \in BOOLEAN : Store!Declare(n, meta)
        \/ \E v \in Vals : Store!Push(n, v)
        \/ \E W \in {{}} \cup {{v} : v \in Buffers} : Store!Undo(n, W)
        \/ Store!Release(n) \/ Store!Reclaim(n) \/ Store!Lose(n) \/ Store!Destroy(n)
    PROVE  Store!Next
  BY Zenon DEF Store!Next, Vals

LEMMA DeclareMeta ==
    ASSUME NEW n, Stack[n] = <<>>, m_metadata' = m_metadata \cup {n}, Stack' = [Stack EXCEPT ![n] = <<Null>>],
           UNCHANGED <<descriptors, disciplined>>
    PROVE  Store!Declare(n, TRUE)
  BY Zenon DEF Store!Declare, Stack, StackOf, Val

LEMMA DeclareData ==
    ASSUME NEW n, Stack[n] = <<>>, m_metadata' = m_metadata \ {n}, Stack' = [Stack EXCEPT ![n] = <<>>],
           UNCHANGED <<descriptors, disciplined>>
    PROVE  Store!Declare(n, FALSE)
  BY Zenon DEF Store!Declare, Stack, StackOf, Val

LEMMA PushAbs ==
    ASSUME NEW n, NEW v, v \notin Present \/ v = Null \/ (Stack[n] # <<>> /\ v = Last(Stack[n])),
           Stack' = [Stack EXCEPT ![n] = Append(Stack[n], v)],
           UNCHANGED <<m_metadata, descriptors, disciplined>>
    PROVE  Store!Push(n, v)
<1>1. v \notin Store!Present \/ v = Null \/ (Stack[n] # <<>> /\ v = Store!Top(n))
  BY TopAbs, PresentAbs, Zenon
<1> QED BY <1>1, Zenon DEF Store!Push, Stack, StackOf, Val

LEMMA UndoAbs ==
    ASSUME NEW n \in Names, NEW W \in {{}} \cup {{v} : v \in Buffers},
           disciplined => Len(Stack[n]) > (IF n \in m_metadata THEN 1 ELSE 0) /\ W \subseteq {Last(Stack[n])},
           Stack' = Store!Without(W, [Stack EXCEPT ![n] = IF Stack[n] = <<>> THEN Stack[n] ELSE Front(Stack[n])]),
           UNCHANGED <<m_metadata, descriptors, disciplined>>
    PROVE  Store!Next
<1>1. disciplined => Len(Stack[n]) > Store!Floor(n) /\ W \subseteq {Store!Top(n)}
  BY TopAbs, FloorAbs, Zenon
<1>2. Store!Undo(n, W)
  BY <1>1, Zenon DEF Store!Undo, Store!Front, Front, Stack, StackOf, Val
<1> QED BY <1>2, NextAbs

LEMMA ReleaseAbs ==
    ASSUME NEW n \in Names, Stack[n] # <<>>, disciplined => Len(Stack[n]) > (IF n \in m_metadata THEN 1 ELSE 0),
           NEW v \in {Last(Stack[n]), Null},
           Stack' = [Stack EXCEPT ![n] = IF n \in m_metadata /\ Len(Stack[n]) = 2 THEN <<v>> ELSE Front(Stack[n])],
           UNCHANGED <<m_metadata, descriptors, disciplined>>
    PROVE  Store!Next
<1>1. disciplined => Len(Stack[n]) > Store!Floor(n)
  BY FloorAbs, Zenon
<1>2. v \in {Store!Top(n), Null}
  BY TopAbs, Zenon
<1>3. Stack' = Store!Removed(n, v)
  BY Zenon DEF Store!Removed, Store!Front, Front, Stack, StackOf, Val
<1>4. Store!Release(n)
  BY <1>1, <1>2, <1>3, Zenon DEF Store!Release, Stack, StackOf, Val
<1> QED BY <1>4, NextAbs

LEMMA ReclaimAbs ==
    ASSUME NEW n \in Names, Stack[n] # <<>>, disciplined => Len(Stack[n]) > (IF n \in m_metadata THEN 1 ELSE 0),
           NEW v \in (Buffers \ Present) \cup {Null},
           Stack' = Store!Without({Last(Stack[n])},
                       [Stack EXCEPT ![n] = IF n \in m_metadata /\ Len(Stack[n]) = 2 THEN <<v>> ELSE Front(Stack[n])]),
           UNCHANGED <<m_metadata, descriptors, disciplined>>
    PROVE  Store!Next
<1>1. disciplined => Len(Stack[n]) > Store!Floor(n)
  BY FloorAbs, Zenon
<1>2. v \in (Buffers \ Store!Present) \cup {Null}
  BY PresentAbs, Zenon
<1>3. [Stack EXCEPT ![n] = IF n \in m_metadata /\ Len(Stack[n]) = 2 THEN <<v>> ELSE Front(Stack[n])]
         = Store!Removed(n, v)
  BY Zenon DEF Store!Removed, Store!Front, Front, Stack, StackOf, Val
<1>4. Stack' = Store!Without({Store!Top(n)}, Store!Removed(n, v))
  BY <1>3, TopAbs, Zenon
<1>5. Store!Reclaim(n)
  BY <1>1, <1>2, <1>4, Zenon DEF Store!Reclaim, Stack, StackOf, Val
<1> QED BY <1>5, NextAbs

LEMMA LoseAbs ==
    ASSUME NEW n \in Names, ~disciplined, Stack' = [Stack EXCEPT ![n] = <<>>],
           UNCHANGED <<m_metadata, descriptors, disciplined>>
    PROVE  Store!Next
<1>1. Store!Lose(n)
  BY Zenon DEF Store!Lose, Stack, StackOf, Val
<1> QED BY <1>1, NextAbs

LEMMA DestroyAbs ==
    ASSUME NEW n \in descriptors, descriptors' = descriptors \ {n}, Stack' = [Stack EXCEPT ![n] = <<>>],
           UNCHANGED <<m_metadata, disciplined>>
    PROVE  Store!Destroy(n)
  BY Zenon DEF Store!Destroy, Stack, StackOf, Val

LEMMA StutterAbs ==
    ASSUME Stack' = Stack, UNCHANGED <<m_metadata, descriptors, disciplined>>
    PROVE  UNCHANGED Store!vars
  BY Zenon DEF Store!vars, Stack, StackOf, Val

-----------------------------------------------------------------------------
(* The values of the holders *)

LEMMA ValType ==
    ASSUME NEW h, StoreHeap(h), NEW r \in Refs
    PROVE  Val(h, r) \in Vals
<1>1. h.m_content[r] # Null => BufferOf(h, r) \in Buffers
  BY LinkedBuffer DEF StoreHeap, HeapInv
<1> QED BY <1>1 DEF Val, Vals, IsNull

LEMMA StackType ==
    ASSUME NEW h, StoreHeap(h), NEW refs \in [Names -> Seq(Refs)], NEW n \in Names
    PROVE  /\ StackOf(refs, h)[n] \in Seq(Vals)
           /\ Len(StackOf(refs, h)[n]) = Len(refs[n])
           /\ Len(refs[n]) \in Nat /\ DOMAIN refs[n] = 1 .. Len(refs[n])
           /\ DOMAIN StackOf(refs, h)[n] = 1 .. Len(refs[n])
           /\ \A i \in 1 .. Len(refs[n]) : refs[n][i] \in Refs /\ StackOf(refs, h)[n][i] = Val(h, refs[n][i])
           /\ StackOf(refs, h)[n] = <<>> <=> refs[n] = <<>>
           /\ refs[n] # <<>> => Last(StackOf(refs, h)[n]) = Val(h, Last(refs[n]))
<1> DEFINE s == StackOf(refs, h)[n]
           l == Len(refs[n])
<1>1. refs[n] \in Seq(Refs) /\ l \in Nat /\ DOMAIN refs[n] = 1 .. l /\ \A i \in 1 .. l : refs[n][i] \in Refs
  OBVIOUS
<1>2. s = [i \in 1 .. l |-> Val(h, refs[n][i])]
  BY <1>1 DEF StackOf
<1>3. s \in [1 .. l -> Vals]
  BY <1>1, <1>2, ValType
<1> HIDE DEF s, l
<1>4. s \in Seq(Vals) /\ Len(s) = l /\ DOMAIN s = 1 .. l
  <2>1. s \in Seq(Vals)
    BY <1>1, <1>3, SeqDef
  <2> QED BY <1>1, <1>3, <2>1, LenProperties
<1>5. \A i \in 1 .. l : s[i] = Val(h, refs[n][i])
  BY <1>2
<1>6. s = <<>> <=> refs[n] = <<>>
  <2>1. s = <<>> <=> l = 0
    BY <1>1, <1>4, EmptySeq
  <2>2. refs[n] = <<>> <=> l = 0
    BY <1>1, EmptySeq DEF l
  <2> QED BY <2>1, <2>2
<1>7. ASSUME refs[n] # <<>>
      PROVE  Last(s) = Val(h, Last(refs[n]))
  <2>1. l > 0
    BY <1>1, <1>7, EmptySeq DEF l
  <2>2. l \in 1 .. l
    BY <1>1, <2>1
  <2> QED BY <1>4, <1>5, <2>2 DEF Last, l
<1> QED BY <1>1, <1>4, <1>5, <1>6, <1>7 DEF s, l

LEMMA SameSeq ==
    ASSUME NEW S, NEW s \in Seq(S), NEW u \in Seq(S), Len(s) = Len(u),
           \A i \in 1 .. Len(s) : s[i] = u[i]
    PROVE  s = u
  BY SeqEqual

\* The stacks of values before and after a step.
LEMMA StackShape ==
    ASSUME StoreInv, NEW n \in Names
    PROVE  /\ Stack[n] \in Seq(Vals)
           /\ Len(Stack[n]) = Len(m_refs[n])
           /\ Len(m_refs[n]) \in Nat /\ DOMAIN m_refs[n] = 1 .. Len(m_refs[n])
           /\ DOMAIN Stack[n] = 1 .. Len(m_refs[n])
           /\ \A i \in 1 .. Len(m_refs[n]) : m_refs[n][i] \in Refs /\ Stack[n][i] = Val(heap, m_refs[n][i])
           /\ Stack[n] = <<>> <=> m_refs[n] = <<>>
           /\ m_refs[n] # <<>> => Last(Stack[n]) = Val(heap, Top(n))
<1>1. StoreHeap(heap) /\ m_refs \in [Names -> Seq(Refs)]
  BY DEF StoreInv, TypeOK
<1> QED BY ONLY <1>1, n \in Names, StackType DEF Stack, Top

LEMMA NextShape ==
    ASSUME StoreInv', NEW n \in Names
    PROVE  /\ Stack'[n] \in Seq(Vals)
           /\ Len(Stack'[n]) = Len(m_refs'[n])
           /\ \A i \in 1 .. Len(m_refs'[n]) : m_refs'[n][i] \in Refs /\ Stack'[n][i] = Val(heap', m_refs'[n][i])
<1>1. StoreHeap(heap') /\ m_refs' \in [Names -> Seq(Refs)]
  BY DEF StoreInv, TypeOK
<1> QED BY ONLY <1>1, n \in Names, StackType DEF Stack

\* One stack changes.
LEMMA StackExcept ==
    ASSUME StoreInv, StoreInv', NEW n \in Names, NEW s \in Seq(Vals),
           Len(s) = Len(m_refs'[n]), \A i \in 1 .. Len(s) : s[i] = Val(heap', m_refs'[n][i]),
           \A m \in Names \ {n} : m_refs'[m] = m_refs[m],
           \A m \in Names \ {n} : \A i \in DOMAIN m_refs[m] : Val(heap', m_refs[m][i]) = Val(heap, m_refs[m][i])
    PROVE  Stack' = [Stack EXCEPT ![n] = s]
<1> DEFINE X == [Stack EXCEPT ![n] = s]
<1>1. DOMAIN Stack = Names
  BY DEF Stack, StackOf
<1>2. DOMAIN X = Names /\ X = [m \in Names |-> X[m]] /\ X[n] = s /\ \A m \in Names \ {n} : X[m] = Stack[m]
  BY <1>1
<1> HIDE DEF X
<1>3. ASSUME NEW m \in Names
      PROVE  X[m] \in Seq(Vals) /\ Len(X[m]) = Len(m_refs'[m])
  <2>1. CASE m = n
    BY <1>2, <2>1
  <2>2. CASE m # n
    <3>1. m_refs'[m] = m_refs[m] /\ X[m] = Stack[m]
      BY <1>2, <2>2
    <3>2. Stack[m] \in Seq(Vals) /\ Len(Stack[m]) = Len(m_refs[m])
      BY StackShape
    <3> QED BY <3>1, <3>2
  <2> QED BY <2>1, <2>2
<1>4. ASSUME NEW m \in Names, NEW i \in 1 .. Len(m_refs'[m])
      PROVE  X[m][i] = Val(heap', m_refs'[m][i])
  <2>1. CASE m = n
    BY <1>2, <2>1
  <2>2. CASE m # n
    <3>1. m_refs'[m] = m_refs[m] /\ X[m] = Stack[m]
      BY <1>2, <2>2
    <3>2. X[m][i] = Val(heap, m_refs[m][i]) /\ i \in DOMAIN m_refs[m]
      BY <3>1, StackShape
    <3> QED BY <2>2, <3>1, <3>2
  <2> QED BY <2>1, <2>2
<1>5. ASSUME NEW m \in Names
      PROVE  Stack'[m] = X[m]
  <2> DEFINE a == Stack'[m]
             x == X[m]
  <2>1. a \in Seq(Vals) /\ Len(a) = Len(m_refs'[m]) /\ \A i \in 1 .. Len(m_refs'[m]) : a[i] = Val(heap', m_refs'[m][i])
    <3> HIDE DEF a
    <3>1. /\ Stack'[m] \in Seq(Vals) /\ Len(Stack'[m]) = Len(m_refs'[m])
          /\ \A i \in 1 .. Len(m_refs'[m]) : Stack'[m][i] = Val(heap', m_refs'[m][i])
      BY NextShape
    <3> QED BY <3>1 DEF a
  <2>2. x \in Seq(Vals) /\ Len(x) = Len(m_refs'[m])
    BY <1>3
  <2>3. \A i \in 1 .. Len(m_refs'[m]) : x[i] = Val(heap', m_refs'[m][i])
    BY <1>4
  <2> HIDE DEF a, x
  <2>4. Len(a) = Len(x) /\ \A i \in 1 .. Len(a) : a[i] = x[i]
    BY <2>1, <2>2, <2>3
  <2>5. a = x
    BY <2>1, <2>2, <2>4, SameSeq, Zenon
  <2> QED BY <2>5 DEF a, x
<1>6. Stack' = [m \in Names |-> Stack'[m]]
  BY DEF Stack, StackOf
<1>7. Stack' = X
  BY <1>2, <1>5, <1>6
<1> QED BY <1>7 DEF X

\* One stack changes, and values are given back.
LEMMA StackWithout ==
    ASSUME StoreInv, StoreInv', NEW n \in Names, NEW s \in Seq(Vals), NEW W,
           Len(s) = Len(m_refs'[n]),
           \A i \in 1 .. Len(s) : Val(heap', m_refs'[n][i]) = IF s[i] \in W THEN Null ELSE s[i],
           \A m \in Names \ {n} : m_refs'[m] = m_refs[m],
           \A m \in Names \ {n} : \A i \in DOMAIN m_refs[m] :
              Val(heap', m_refs[m][i]) = IF Val(heap, m_refs[m][i]) \in W THEN Null ELSE Val(heap, m_refs[m][i])
    PROVE  Stack' = Store!Without(W, [Stack EXCEPT ![n] = s])
<1> DEFINE Y == [Stack EXCEPT ![n] = s]
           X == Store!Without(W, Y)
<1>1. DOMAIN Stack = Names
  BY DEF Stack, StackOf
<1>2. Y[n] = s /\ \A m \in Names \ {n} : Y[m] = Stack[m]
  BY <1>1
<1> HIDE DEF Y
<1>3. X = [m \in Names |-> [i \in DOMAIN Y[m] |-> IF Y[m][i] \in W THEN Null ELSE Y[m][i]]]
  BY DEF Store!Without
<1> HIDE DEF X
<1>4. ASSUME NEW m \in Names
      PROVE  Y[m] \in Seq(Vals) /\ Len(Y[m]) = Len(m_refs'[m])
  <2>1. CASE m = n
    BY <1>2, <2>1
  <2>2. CASE m # n
    BY <1>2, <2>2, StackShape
  <2> QED BY <2>1, <2>2
<1>5. ASSUME NEW m \in Names
      PROVE  /\ X[m] \in Seq(Vals) /\ Len(X[m]) = Len(m_refs'[m])
             /\ \A i \in 1 .. Len(m_refs'[m]) : X[m][i] = IF Y[m][i] \in W THEN Null ELSE Y[m][i]
  <2> DEFINE l == Len(m_refs'[m])
             x == X[m]
             y == Y[m]
  <2>1. y \in Seq(Vals) /\ Len(y) = l /\ l \in Nat /\ DOMAIN y = 1 .. l /\ \A i \in 1 .. l : y[i] \in Vals
    BY <1>4
  <2>2. x = [i \in DOMAIN y |-> IF y[i] \in W THEN Null ELSE y[i]]
    BY <1>3
  <2> HIDE DEF l, x, y
  <2>3. x = [i \in 1 .. l |-> IF y[i] \in W THEN Null ELSE y[i]]
    BY <2>1, <2>2
  <2>4. x \in [1 .. l -> Vals]
    BY <2>1, <2>3 DEF Vals
  <2>5. x \in Seq(Vals)
    BY <2>1, <2>4, SeqDef
  <2>6. Len(x) = l
    BY <2>1, <2>4, <2>5, LenProperties
  <2> QED BY <2>3, <2>5, <2>6 DEF l, x, y
<1>6. ASSUME NEW m \in Names, NEW i \in 1 .. Len(m_refs'[m])
      PROVE  X[m][i] = Val(heap', m_refs'[m][i])
  <2>1. CASE m = n
    BY <1>2, <1>5, <2>1
  <2>2. CASE m # n
    <3>1. m_refs'[m] = m_refs[m] /\ Y[m] = Stack[m]
      BY <1>2, <2>2
    <3>2. Y[m][i] = Val(heap, m_refs[m][i]) /\ i \in DOMAIN m_refs[m]
      BY <3>1, StackShape
    <3> QED BY <1>5, <2>2, <3>1, <3>2
  <2> QED BY <2>1, <2>2
<1>7. DOMAIN X = Names /\ X = [m \in Names |-> X[m]]
  BY <1>3
<1>8. ASSUME NEW m \in Names
      PROVE  Stack'[m] = X[m]
  <2> DEFINE a == Stack'[m]
             x == X[m]
  <2>1. a \in Seq(Vals) /\ Len(a) = Len(m_refs'[m]) /\ \A i \in 1 .. Len(m_refs'[m]) : a[i] = Val(heap', m_refs'[m][i])
    <3> HIDE DEF a
    <3>1. /\ Stack'[m] \in Seq(Vals) /\ Len(Stack'[m]) = Len(m_refs'[m])
          /\ \A i \in 1 .. Len(m_refs'[m]) : Stack'[m][i] = Val(heap', m_refs'[m][i])
      BY NextShape
    <3> QED BY <3>1 DEF a
  <2>2. x \in Seq(Vals) /\ Len(x) = Len(m_refs'[m])
    BY <1>5
  <2>3. \A i \in 1 .. Len(m_refs'[m]) : x[i] = Val(heap', m_refs'[m][i])
    BY <1>6
  <2> HIDE DEF a, x
  <2>4. Len(a) = Len(x) /\ \A i \in 1 .. Len(a) : a[i] = x[i]
    BY <2>1, <2>2, <2>3
  <2>5. a = x
    BY <2>1, <2>2, <2>4, SameSeq, Zenon
  <2> QED BY <2>5 DEF a, x
<1>9. Stack' = [m \in Names |-> Stack'[m]]
  BY DEF Stack, StackOf
<1>10. Stack' = X
  BY <1>7, <1>8, <1>9
<1> QED BY <1>10 DEF X, Y

\* Nothing changes.
LEMMA StackSame ==
    ASSUME NEW h, StoreHeap(h), NEW g, StoreHeap(g), NEW refs \in [Names -> Seq(Refs)],
           \A n \in Names : \A i \in DOMAIN refs[n] : Val(g, refs[n][i]) = Val(h, refs[n][i])
    PROVE  StackOf(refs, g) = StackOf(refs, h)
  BY DEF StackOf

-----------------------------------------------------------------------------
(* What the helpers do to values *)

SameVals(h, g, S) == \A r \in Refs \ S : Val(g, r) = Val(h, r)

LEMMA TouchesVals ==
    ASSUME NEW h, NEW g, NEW S, Touches(h, g, S)
    PROVE  SameVals(h, g, S)
  BY DEF Touches, SameVals, Val, IsNull, BufferOf

LEMMA CreatesVals ==
    ASSUME NEW h, StoreHeap(h), NEW g, NEW r, NEW c \in FreshContents(h), NEW b \in FreshBuffers(h),
           Creates(h, g, r, c, b)
    PROVE  /\ SameVals(h, g, {r}) /\ Val(g, r) = b
           /\ \A s \in Refs : Val(h, s) # b
<1>1. \A s \in Refs : h.m_content[s] # c /\ h.m_content[s] \in Contents \cup {Null}
  BY FreshUnlinked, HeapFields DEF StoreHeap, HeapInv
<1>2. SameVals(h, g, {r})
  <2> SUFFICES ASSUME NEW s \in Refs \ {r}
               PROVE  Val(g, s) = Val(h, s)
    BY DEF SameVals
  <2>1. g.m_content[s] = h.m_content[s]
    BY DEF Creates
  <2>2. h.m_content[s] # Null =>
           /\ g.m_data[h.m_content[s]] = h.m_data[h.m_content[s]]
           /\ g.m_buffer[h.m_content[s]] = h.m_buffer[h.m_content[s]]
    BY <1>1 DEF Creates
  <2> QED BY <2>1, <2>2 DEF Val, IsNull, BufferOf
<1>3. c # Null /\ b # Null
  BY HeapAssumption DEF FreshContents, FreshBuffers
<1>4. Val(g, r) = b
  BY <1>3 DEF Creates, Val, IsNull, BufferOf
<1>5. OnBuffer(h, b) = {}
  BY FreshUnlinked DEF StoreHeap, HeapInv
<1>6. \A s \in Refs : Val(h, s) # b
  BY <1>3, <1>5 DEF OnBuffer, Val, IsNull
<1> QED BY <1>2, <1>4, <1>6

\* Whoever sees the value that is given back does not see it any more.
LEMMA GivesBackVals ==
    ASSUME NEW h, StoreHeap(h), NEW g, NEW r \in Refs, GivesBack(h, g, r)
    PROVE  \A s \in Refs \ {r} : Val(g, s) = IF Val(h, s) = Val(h, r) THEN Null ELSE Val(h, s)
<1> SUFFICES ASSUME NEW s \in Refs \ {r}
             PROVE  Val(g, s) = IF Val(h, s) = Val(h, r) THEN Null ELSE Val(h, s)
  OBVIOUS
<1>1. g.m_content[s] = h.m_content[s] /\ g.m_buffer = h.m_buffer
  BY DEF GivesBack
<1>2. \A q \in Refs : ~IsNull(h, q) => h.m_content[q] \in Contents /\ h.m_content[q] # Null /\ BufferOf(h, q) \in Buffers
  BY LinkedBuffer DEF StoreHeap, HeapInv, IsNull
<1>3. CASE IsNull(h, s)
  <2>1. IsNull(g, s)
    <3>1. h.m_content[s] # Null => h.m_content[s] \in Contents
      BY HeapFields DEF StoreHeap, HeapInv
    <3> QED BY <1>1, <1>3, <3>1 DEF IsNull, GivesBack
  <2> QED BY <1>3, <2>1 DEF Val
<1>4. CASE ~IsNull(h, s)
  <2>1. IsNull(g, s) <=> h.m_content[s] = GetContent(h, r)
    BY <1>1, <1>2, <1>4 DEF IsNull, GivesBack
  <2>2. BufferOf(g, s) = BufferOf(h, s) /\ Val(h, s) = BufferOf(h, s) /\ Val(h, s) # Null
    BY <1>1, <1>2, <1>4, HeapAssumption DEF BufferOf, Val
  <2>3. h.m_content[s] = GetContent(h, r) <=> Val(h, s) = Val(h, r)
    <3>1. CASE IsNull(h, r)
      BY <1>2, <1>4, <2>2, <3>1 DEF GetContent, Val
    <3>2. CASE ~IsNull(h, r)
      <4>1. Val(h, r) = BufferOf(h, r) /\ GetContent(h, r) = h.m_content[r] /\ BufferOf(h, r) # Null
        BY <1>2, <3>2, HeapAssumption DEF Val, GetContent
      <4>2. BufferOf(h, s) = BufferOf(h, r) => h.m_content[s] = h.m_content[r]
        BY <1>2, <1>4, <3>2, <4>1 DEF StoreHeap, Single, BufferOf
      <4> QED BY <2>2, <4>1, <4>2 DEF BufferOf
    <3> QED BY <3>1, <3>2
  <2> QED BY <2>1, <2>2, <2>3 DEF Val
<1> QED BY <1>3, <1>4

-----------------------------------------------------------------------------
(* Steps that leave the stacks of values alone *)

LEMMA StackStays ==
    ASSUME StoreInv, StoreInv', NEW S, SameVals(heap, heap', S), S \cap Holders = {},
           UNCHANGED <<m_refs, m_metadata, descriptors, disciplined>>
    PROVE  UNCHANGED Store!vars
<1>1. TypeOK /\ StoreHeap(heap) /\ StoreHeap(heap')
  BY DEF StoreInv
<1>2. \A n \in Names : \A i \in DOMAIN m_refs[n] : m_refs[n][i] \in Refs \ S
  BY <1>1, HolderIn
<1>3. \A n \in Names : \A i \in DOMAIN m_refs[n] : Val(heap', m_refs[n][i]) = Val(heap, m_refs[n][i])
  BY <1>2 DEF SameVals
<1>4. Stack' = Stack
  BY <1>1, <1>3, StackSame DEF Stack, TypeOK
<1> QED BY <1>4, StutterAbs

LEMMA LocalStays ==
    ASSUME StoreInv, StoreInv', NEW r \in Refs, r \notin Holders,
           \/ heap' = heap
           \/ Touches(heap, heap', {r}),
           UNCHANGED <<m_refs, m_metadata, descriptors, disciplined>>
    PROVE  UNCHANGED Store!vars
<1>1. Touches(heap, heap', {r})
  <2>1. CASE heap' = heap
    BY <2>1 DEF StoreInv, Touches
  <2> QED BY <2>1
<1>2. {r} \cap Holders = {}
  OBVIOUS
<1> QED BY <1>1, <1>2, TouchesVals, StackStays

\* Calls that begin with callbacks, or end without a pop.
LEMMA CallsStay ==
    ASSUME StoreInv, StoreInv', NEW n \in Names, NEW R \in Access,
           \/ AccessMissing(n, R) \/ RemoveBegins("release", n) \/ RemoveBegins("reclaim", n)
           \/ RemoveRefused(n) \/ ShareDone \/ RemoveThrows \/ RemoveMissing \/ MissingThrows
    PROVE  UNCHANGED Store!vars
<1>1. TypeOK /\ StoreHeap(heap) /\ Apart
  BY DEF StoreInv
<1>2. CASE AccessMissing(n, R) \/ RemoveRefused(n) \/ MissingThrows
  <2>1. UNCHANGED <<heap, m_refs, m_metadata, descriptors, disciplined>>
    BY <1>2 DEF AccessMissing, RemoveRefused, MissingThrows, Return
  <2>2. SameVals(heap, heap', {}) /\ {} \cap Holders = {}
    BY <2>1 DEF SameVals
  <2> QED BY <2>1, <2>2, StackStays
<1>3. CASE RemoveBegins("release", n) \/ RemoveBegins("reclaim", n)
  <2> DEFINE r == Some(Free)
  <2>1. /\ MayCall /\ m_refs[n] # <<>> /\ heap' = RefTo(heap, r, Top(n))
        /\ UNCHANGED <<m_refs, m_metadata, descriptors, disciplined>>
    <3>1. Shared(n) => m_refs[n] # <<>>
      <4>1. m_refs[n] = <<>> => Len(m_refs[n]) = 0
        OBVIOUS
      <4> QED BY <4>1 DEF Shared
    <3> QED BY <1>3, <3>1 DEF RemoveBegins, Top
  <2>2. r \in Refs /\ r \notin Holders /\ heap.m_content[r] = Null
    BY <2>1, TwoFree, FreePlace
  <2> HIDE DEF r
  <2>3. Touches(heap, heap', {r})
    BY <2>1, <2>2, RefToTop
  <2> QED BY <2>1, <2>2, <2>3, LocalStays
<1>4. CASE ShareDone \/ RemoveThrows \/ RemoveMissing
  <2>1. /\ calls # <<>> /\ heap' = Reset(heap, Current.ref)
        /\ UNCHANGED <<m_refs, m_metadata, descriptors, disciplined>>
    BY <1>4 DEF ShareDone, RemoveThrows, RemoveMissing, Waiting, Return
  <2>2. Current.ref \in Refs /\ Current.ref \in Locals
    BY <1>1, <2>1, CurrentCall, Zenon
  <2>3. Current.ref \notin Holders
    BY <1>1, <2>2 DEF Apart
  <2>4. Touches(heap, heap', {Current.ref})
    BY <1>1, <2>1, <2>2, ResetTouches
  <2> QED BY <2>1, <2>2, <2>3, <2>4, LocalStays
<1> QED BY <1>2, <1>3, <1>4

LEMMA PluginsStay ==
    ASSUME StoreInv, StoreInv', NEW n \in Names, NEW R \in Access, NEW s, Hold(n, R) \/ Drop(s)
    PROVE  UNCHANGED Store!vars
<1>1. TypeOK /\ StoreHeap(heap) /\ Apart
  BY DEF StoreInv
<1>2. CASE Hold(n, R)
  <2> DEFINE r == Some(Free)
  <2>1. /\ Free # {} /\ m_refs[n] # <<>> /\ heap' = Link(heap, r, R, GetContent(heap, Last(m_refs[n])))
        /\ UNCHANGED <<m_refs, m_metadata, descriptors, disciplined>>
    BY <1>2 DEF Hold
  <2>2. r \in Refs /\ r \notin Holders /\ heap.m_content[r] = Null
    BY <2>1, SomeIn, FreePlace
  <2>3. Last(m_refs[n]) \in Refs
    BY <1>1, <2>1, TopHolder
  <2> HIDE DEF r
  <2>4. Touches(heap, heap', {r})
    BY <1>1, <2>1, <2>2, <2>3, LinkTouches
  <2> QED BY <2>1, <2>2, <2>4, LocalStays
<1>3. CASE Drop(s)
  <2>1. s \in held /\ heap' = Reset(heap, s) /\ UNCHANGED <<m_refs, m_metadata, descriptors, disciplined>>
    BY <1>3 DEF Drop
  <2>2. s \in Refs /\ s \notin Holders
    BY <1>1, <2>1 DEF TypeOK, Apart
  <2>3. Touches(heap, heap', {s})
    BY <1>1, <2>1, <2>2, ResetTouches
  <2> QED BY <2>1, <2>2, <2>3, LocalStays
<1> QED BY <1>2, <1>3

-----------------------------------------------------------------------------
(* Steps that push a value *)

\* A value on top of a stack.
LEMMA PushStep ==
    ASSUME StoreInv, StoreInv', NEW n \in Names, NEW k \in Refs, NEW S, SameVals(heap, heap', S), S \cap Holders = {},
           m_refs' = [m_refs EXCEPT ![n] = Append(@, k)],
           NEW v \in Vals, v = Val(heap', k),
           v \notin Present \/ v = Null \/ (m_refs[n] # <<>> /\ v = Val(heap, Top(n))),
           UNCHANGED <<m_metadata, descriptors, disciplined>>
    PROVE  Store!Next
<1>1. TypeOK /\ TypeOK' /\ StoreHeap(heap) /\ StoreHeap(heap')
  BY DEF StoreInv
<1>2. m_refs \in [Names -> Seq(Refs)] /\ m_refs' \in [Names -> Seq(Refs)]
  BY <1>1 DEF TypeOK
<1>3. /\ Stack[n] \in Seq(Vals) /\ Len(Stack[n]) = Len(m_refs[n])
      /\ Len(m_refs[n]) \in Nat /\ DOMAIN m_refs[n] = 1 .. Len(m_refs[n])
      /\ \A i \in 1 .. Len(m_refs[n]) : m_refs[n][i] \in Refs /\ Stack[n][i] = Val(heap, m_refs[n][i])
      /\ Stack[n] = <<>> <=> m_refs[n] = <<>>
      /\ m_refs[n] # <<>> => Last(Stack[n]) = Val(heap, Last(m_refs[n]))
  BY <1>1, <1>2, StackType DEF Stack
<1>4. \A m \in Names : \A i \in DOMAIN m_refs[m] : Val(heap', m_refs[m][i]) = Val(heap, m_refs[m][i])
  BY <1>1, HolderIn DEF SameVals
<1>5. /\ Len(m_refs'[n]) = Len(m_refs[n]) + 1 /\ m_refs'[n][Len(m_refs[n]) + 1] = k
      /\ \A x \in DOMAIN m_refs[n] : m_refs'[n][x] = m_refs[n][x]
      /\ \A m \in Names \ {n} : m_refs'[m] = m_refs[m]
  BY <1>1, PushGrows DEF Grows
<1> DEFINE s == Append(Stack[n], v)
<1>6. /\ s \in Seq(Vals) /\ Len(s) = Len(m_refs'[n])
      /\ \A i \in 1 .. Len(s) : s[i] = Val(heap', m_refs'[n][i])
  <2>1. s \in Seq(Vals) /\ Len(s) = Len(m_refs[n]) + 1 /\ s[Len(m_refs[n]) + 1] = v
        /\ \A i \in 1 .. Len(m_refs[n]) : s[i] = Stack[n][i]
    BY <1>3
  <2> HIDE DEF s
  <2> QED BY <1>3, <1>4, <1>5, <2>1
<1> HIDE DEF s
<1>7. Stack' = [Stack EXCEPT ![n] = s]
  BY <1>4, <1>5, <1>6, StackExcept
<1>8. v \notin Present \/ v = Null \/ (Stack[n] # <<>> /\ v = Last(Stack[n]))
  BY <1>3 DEF Top
<1>9. Store!Push(n, v)
  BY <1>7, <1>8, PushAbs DEF s
<1> QED BY <1>9, NextAbs

\* Values that are in the store are those of holders.
LEMMA PresentVal ==
    ASSUME StoreInv, NEW v, \A r \in Refs : Val(heap, r) # v
    PROVE  v \notin Present
<1>1. StoreHeap(heap) /\ m_refs \in [Names -> Seq(Refs)]
  BY DEF StoreInv, TypeOK
<1>2. ASSUME NEW n \in Names, NEW i \in DOMAIN Stack[n]
      PROVE  Stack[n][i] # v
  <2>1. i \in 1 .. Len(m_refs[n])
    BY <1>1, <1>2, StackType DEF Stack
  <2>2. m_refs[n][i] \in Refs /\ Stack[n][i] = Val(heap, m_refs[n][i])
    BY <1>1, <2>1, StackType DEF Stack
  <2> QED BY <2>2
<1> QED BY <1>2 DEF Present

LEMMA ShareStep ==
    ASSUME StoreInv, StoreInv', NEW n \in Names, NEW a \in Access, Share(n, a)
    PROVE  Store!Next \/ UNCHANGED Store!vars
<1>1. TypeOK /\ StoreHeap(heap) /\ UNCHANGED <<m_metadata, descriptors, disciplined>>
  BY DEF StoreInv, Share
<1>2. PICK r \in Free, c \in FreshContents(heap), b \in FreshBuffers(heap) :
      \E k \in Free \ {r} : \E h :
         /\ Creates(heap, h, r, c, b)
         /\ \/ GivesBack(h, heap', r) /\ calls' = calls /\ status' = "error" /\ m_refs' = m_refs
            \/ Accepted(Call("share", n, r, {}, b, "notify"), calls, h, k)
  BY ShareEffect
<1>3. PICK k \in Free \ {r} : \E h :
         /\ Creates(heap, h, r, c, b)
         /\ \/ GivesBack(h, heap', r) /\ calls' = calls /\ status' = "error" /\ m_refs' = m_refs
            \/ Accepted(Call("share", n, r, {}, b, "notify"), calls, h, k)
  BY <1>2
<1>4. PICK h :
         /\ Creates(heap, h, r, c, b)
         /\ \/ GivesBack(h, heap', r) /\ m_refs' = m_refs
            \/ Accepted(Call("share", n, r, {}, b, "notify"), calls, h, k)
  BY <1>3
<1>5. SameVals(heap, h, {r}) /\ Val(h, r) = b /\ (\A s \in Refs : Val(heap, s) # b) /\ StoreHeap(h)
  BY <1>1, <1>4, CreatesVals DEF Creates
<1>6. r \in Refs /\ r \notin Holders /\ k \in Refs /\ k \notin Holders /\ k # r /\ heap.m_content[k] = Null
  BY FreePlace
<1>7. b \in Buffers /\ b # Null /\ b \in Vals
  BY HeapAssumption DEF FreshBuffers, Vals
<1>8. CASE GivesBack(h, heap', r) /\ m_refs' = m_refs
  <2>1. \A s \in Refs \ {r} : Val(heap', s) = IF Val(h, s) = Val(h, r) THEN Null ELSE Val(h, s)
    BY <1>5, <1>6, <1>8, GivesBackVals
  <2>2. SameVals(heap, heap', {r}) /\ {r} \cap Holders = {}
    BY <1>5, <1>6, <2>1 DEF SameVals
  <2> QED BY <1>1, <1>8, <2>2, StackStays
<1>9. CASE Accepted(Call("share", n, r, {}, b, "notify"), calls, h, k)
  <2> DEFINE f == Call("share", n, r, {}, b, "notify")
  <2>1. f.ref = r /\ f.name = n
    BY <1>1, <1>6, <1>7, CallFields DEF Access
  <2>2. Accepted(f, calls, h, k)
    BY <1>9
  <2> HIDE DEF f
  <2>3. /\ Touches(h, heap', {k}) /\ heap'.m_content[k] = GetContent(h, r)
        /\ m_refs' = [m_refs EXCEPT ![n] = Append(@, k)]
    BY <2>1, <2>2 DEF Accepted
  <2>4. Val(heap', k) = b
    <3>1. ~IsNull(h, r) /\ BufferOf(h, r) = b
      BY <1>5, <1>7 DEF Val
    <3>2. heap'.m_content[k] = h.m_content[r] /\ heap'.m_data = h.m_data /\ heap'.m_buffer = h.m_buffer
      BY <2>3, <3>1 DEF GetContent, Touches
    <3> QED BY <3>1, <3>2 DEF Val, IsNull, BufferOf
  <2>5. SameVals(h, heap', {k})
    BY <2>3, TouchesVals
  <2>6. SameVals(heap, heap', {r, k}) /\ {r, k} \cap Holders = {}
    BY <1>5, <1>6, <2>5 DEF SameVals
  <2>7. b \notin Present
    BY <1>5, PresentVal
  <2> QED BY <1>1, <1>6, <1>7, <2>3, <2>4, <2>6, <2>7, PushStep
<1> QED BY <1>4, <1>8, <1>9

\* PDI_access pushes the value on top once more, or Null.
LEMMA AccessStep ==
    ASSUME StoreInv, StoreInv', NEW f \in Frames, NEW cs, NEW r \in Refs, r = f.ref, r \notin Holders,
           AccessOffers(f, cs, r), m_refs[f.name] # <<>>,
           UNCHANGED <<m_metadata, descriptors, disciplined>>
    PROVE  Store!Next \/ UNCHANGED Store!vars
<1> DEFINE n == f.name
<1>1. TypeOK /\ StoreHeap(heap) /\ StoreHeap(heap')
  BY DEF StoreInv
<1>2. n \in Names
  BY DEF Frames
<1>3. PICK k \in Free \ {r} : \E h :
        /\ Touches(heap, h, {r}) /\ h.memory = heap.memory
        /\ h.m_content[r] = GetContent(heap, Top(f.name))
        /\ \/ /\ Touches(h, heap', {r}) /\ heap'.m_content[r] = Null
              /\ calls' = cs /\ status' = "error" /\ m_refs' = m_refs
           \/ Accepted(f, cs, h, k)
  BY DEF AccessOffers
<1>4. PICK h :
        /\ Touches(heap, h, {r})
        /\ h.m_content[r] = GetContent(heap, Top(n))
        /\ \/ Touches(h, heap', {r}) /\ m_refs' = m_refs
           \/ Accepted(f, cs, h, k)
  BY <1>3
<1>5. k \in Refs /\ k \notin Holders /\ k # r
  BY FreePlace
<1>6. Top(n) \in Refs
  BY <1>1, <1>2, TopHolder DEF Top
<1> HIDE DEF n
<1>7. CASE Touches(h, heap', {r}) /\ m_refs' = m_refs
  <2>1. SameVals(heap, h, {r}) /\ SameVals(h, heap', {r})
    BY <1>4, <1>7, TouchesVals
  <2>2. SameVals(heap, heap', {r}) /\ {r} \cap Holders = {}
    BY <2>1 DEF SameVals
  <2> QED BY <1>7, <2>2, StackStays
<1>8. CASE Accepted(f, cs, h, k)
  <2>1. /\ Touches(h, heap', {k}) /\ heap'.m_content[k] = GetContent(h, r)
        /\ m_refs' = [m_refs EXCEPT ![n] = Append(@, k)]
    BY <1>8 DEF Accepted, n
  <2>2. /\ heap'.m_data = heap.m_data /\ heap'.m_buffer = heap.m_buffer
        /\ h.m_data = heap.m_data
    BY <1>4, <2>1 DEF Touches
  <2>3. Val(heap', k) = Val(heap, Top(n))
    <3>1. CASE IsNull(heap, Top(n))
      <4>1. h.m_content[r] = Null
        BY <1>4, <3>1 DEF GetContent
      <4>2. heap'.m_content[k] = Null
        BY <2>1, <4>1 DEF GetContent, IsNull
      <4> QED BY <3>1, <4>2 DEF Val, IsNull
    <3>2. CASE ~IsNull(heap, Top(n))
      <4>1. h.m_content[r] = heap.m_content[Top(n)]
        BY <1>4, <3>2 DEF GetContent
      <4>2. ~IsNull(h, r)
        BY <2>2, <3>2, <4>1 DEF IsNull
      <4>3. heap'.m_content[k] = heap.m_content[Top(n)]
        BY <2>1, <4>1, <4>2 DEF GetContent
      <4> QED BY <2>2, <3>2, <4>3 DEF Val, IsNull, BufferOf
    <3> QED BY <3>1, <3>2
  <2>4. SameVals(heap, h, {r}) /\ SameVals(h, heap', {k})
    BY <1>4, <2>1, TouchesVals
  <2>5. SameVals(heap, heap', {r, k}) /\ {r, k} \cap Holders = {}
    BY <1>5, <2>4 DEF SameVals
  <2>6. Val(heap, Top(n)) \in Vals
    BY <1>1, <1>6, ValType
  <2>7. m_refs[n] # <<>>
    BY DEF n
  <2> QED BY <1>2, <1>5, <2>1, <2>3, <2>5, <2>6, <2>7, PushStep
<1> QED BY <1>4, <1>7, <1>8

LEMMA AccessesStep ==
    ASSUME StoreInv, StoreInv', NEW n \in Names, NEW R \in Access, AccessShared(n, R) \/ MissingShared
    PROVE  Store!Next \/ UNCHANGED Store!vars
<1>1. TypeOK /\ Apart
  BY DEF StoreInv
<1>2. CASE AccessShared(n, R)
  <2>1. m_refs[n] # <<>> /\ UNCHANGED <<m_metadata, descriptors, disciplined>>
    BY <1>2, AccessSharedEffect
  <2>2. PICK r \in Free : AccessOffers(Call("access", n, r, R, Null, "notify"), calls, r)
    BY <1>2, AccessSharedEffect
  <2> DEFINE f == Call("access", n, r, R, Null, "notify")
  <2>3. r \in Refs /\ r \notin Holders
    BY FreePlace
  <2>4. f \in Frames /\ f.ref = r /\ f.name = n
    BY <1>1, <2>3, CallFields
  <2>5. AccessOffers(f, calls, r)
    BY <2>2
  <2> HIDE DEF f
  <2> QED BY <2>1, <2>3, <2>4, <2>5, AccessStep
<1>3. CASE MissingShared
  <2>1. /\ calls # <<>> /\ m_refs[Current.name] # <<>> /\ UNCHANGED <<m_metadata, descriptors, disciplined>>
        /\ AccessOffers(Current, Front(calls), Current.ref)
    BY <1>3, MissingSharedEffect
  <2>2. Current \in Frames /\ Current.ref \in Refs /\ Current.ref \in Locals
    BY <1>1, <2>1, CurrentCall, Zenon
  <2>3. Current.ref \notin Holders
    BY <1>1, <2>2 DEF Apart
  <2> QED BY <2>1, <2>2, <2>3, AccessStep
<1> QED BY <1>2, <1>3

-----------------------------------------------------------------------------
(* Steps that declare or empty a stack *)

LEMMA LoadDataStep ==
    ASSUME StoreInv, StoreInv', NEW n \in Names, LoadData(n)
    PROVE  Store!Next \/ UNCHANGED Store!vars
<1>1. TypeOK /\ StoreHeap(heap) /\ MayCall /\ UNCHANGED <<heap, descriptors, disciplined>>
  BY DEF StoreInv, LoadData
<1>2. CASE m_refs[n] = <<>>
  <2> DEFINE meta == n \in Metadata
             k == Some(Free)
             s == IF meta THEN <<Null>> ELSE <<>>
  <2>1. /\ m_metadata' = IF meta THEN m_metadata \cup {n} ELSE m_metadata \ {n}
        /\ m_refs' = [m_refs EXCEPT ![n] = IF meta THEN <<k>> ELSE <<>>]
    BY <1>2 DEF LoadData
  <2>2. heap.m_content[k] = Null
    BY <1>1, TwoFree, FreePlace
  <2>3. Val(heap', k) = Null
    BY <1>1, <2>2 DEF Val, IsNull
  <2>4. m_refs'[n] = (IF meta THEN <<k>> ELSE <<>>) /\ \A m \in Names \ {n} : m_refs'[m] = m_refs[m]
    BY <1>1, <2>1 DEF TypeOK
  <2>5. s \in Seq(Vals) /\ Len(s) = Len(m_refs'[n]) /\ \A i \in 1 .. Len(s) : s[i] = Val(heap', m_refs'[n][i])
    <3>1. CASE meta
      <4>1. <<Null>> \in Seq(Vals) /\ Len(<<Null>>) = 1 /\ Len(<<k>>) = 1
        BY DEF Vals
      <4>2. m_refs'[n] = <<k>> /\ s = <<Null>>
        BY <2>4, <3>1
      <4>3. \A i \in 1 .. 1 : <<Null>>[i] = Val(heap', <<k>>[i])
        BY <2>3
      <4> QED BY <4>1, <4>2, <4>3
    <3>2. CASE ~meta
      BY <2>4, <3>2
    <3> QED BY <3>1, <3>2
  <2>6. \A m \in Names \ {n} : \A i \in DOMAIN m_refs[m] : Val(heap', m_refs[m][i]) = Val(heap, m_refs[m][i])
    BY <1>1
  <2>7. Stack' = [Stack EXCEPT ![n] = s]
    <3> HIDE DEF s
    <3> QED BY <2>4, <2>5, <2>6, StackExcept
  <2>8. Stack[n] = <<>>
    BY <1>2, StackShape
  <2>9. CASE meta
    <3>1. m_metadata' = m_metadata \cup {n} /\ Stack' = [Stack EXCEPT ![n] = <<Null>>]
      BY <2>1, <2>7, <2>9
    <3>2. Store!Declare(n, TRUE)
      BY <1>1, <2>8, <3>1, DeclareMeta
    <3> QED BY <3>2, NextAbs
  <2>10. CASE ~meta
    <3>1. m_metadata' = m_metadata \ {n} /\ Stack' = [Stack EXCEPT ![n] = <<>>]
      BY <2>1, <2>7, <2>10
    <3>2. Store!Declare(n, FALSE)
      BY <1>1, <2>8, <3>1, DeclareData
    <3> QED BY <3>2, NextAbs
  <2> QED BY <2>9, <2>10
<1>3. CASE m_refs[n] # <<>>
  <2>1. UNCHANGED <<m_refs, m_metadata>>
    BY <1>3 DEF LoadData
  <2>2. SameVals(heap, heap', {}) /\ {} \cap Holders = {}
    BY <1>1 DEF SameVals
  <2> QED BY <1>1, <2>1, <2>2, StackStays
<1> QED BY <1>2, <1>3

\* A stack is emptied.
LEMMA EmptyStack ==
    ASSUME StoreInv, StoreInv', NEW n \in Names, m_refs' = [m_refs EXCEPT ![n] = <<>>],
           NEW S, SameVals(heap, heap', S),
           \A m \in Names \ {n} : \A i \in DOMAIN m_refs[m] : m_refs[m][i] \notin S
    PROVE  Stack' = [Stack EXCEPT ![n] = <<>>]
<1>1. TypeOK
  BY DEF StoreInv
<1>2. m_refs'[n] = <<>> /\ \A m \in Names \ {n} : m_refs'[m] = m_refs[m]
  BY <1>1 DEF TypeOK
<1>3. \A m \in Names \ {n} : \A i \in DOMAIN m_refs[m] : Val(heap', m_refs[m][i]) = Val(heap, m_refs[m][i])
  BY <1>1, HolderIn DEF SameVals
<1> DEFINE s == <<>>
<1>4. s \in Seq(Vals) /\ Len(s) = Len(m_refs'[n]) /\ \A i \in 1 .. Len(s) : s[i] = Val(heap', m_refs'[n][i])
  BY <1>2
<1> HIDE DEF s
<1>5. Stack' = [Stack EXCEPT ![n] = s]
  BY <1>2, <1>3, <1>4, StackExcept
<1> QED BY <1>5 DEF s

LEMMA DestroyStep ==
    ASSUME StoreInv, StoreInv', NEW n \in Names, Destroy(n)
    PROVE  Store!Next
<1> DEFINE p == n \in m_metadata /\ Len(m_refs[n]) = 1
           S == IF p THEN {Bottom(n)} ELSE {}
<1>1. /\ n \in descriptors /\ descriptors' = descriptors \ {n}
      /\ m_refs' = [m_refs EXCEPT ![n] = <<>>]
      /\ heap' = IF p THEN Reset(heap, Bottom(n)) ELSE heap
      /\ UNCHANGED <<m_metadata, disciplined>>
  BY DEF Destroy, Bottom
<1>2. TypeOK /\ StoreHeap(heap) /\ HoldersApart
  BY Zenon DEF StoreInv, Apart
<1>3. p => 1 \in DOMAIN m_refs[n] /\ Bottom(n) \in Refs
  <2>1. DOMAIN m_refs[n] = 1 .. Len(m_refs[n])
    BY <1>2, LenNat
  <2> QED BY <1>2, <2>1, HolderIn DEF Bottom
<1>4. SameVals(heap, heap', S)
  <2>1. CASE p
    BY <1>1, <1>2, <1>3, <2>1, ResetTouches, TouchesVals
  <2>2. CASE ~p
    BY <1>1, <2>2 DEF SameVals
  <2> QED BY <2>1, <2>2
<1>5. \A m \in Names \ {n} : \A i \in DOMAIN m_refs[m] : m_refs[m][i] \notin S
  BY <1>2, <1>3 DEF HoldersApart, Bottom
<1> HIDE DEF S
<1>6. Stack' = [Stack EXCEPT ![n] = <<>>]
  BY <1>1, <1>4, <1>5, EmptyStack
<1>7. Store!Destroy(n)
  BY <1>1, <1>6, DestroyAbs
<1> QED BY <1>7, NextAbs

-----------------------------------------------------------------------------
(* Steps that pop a value *)

LEMMA FrontSeq ==
    ASSUME NEW S, NEW s \in Seq(S), s # <<>>
    PROVE  /\ Front(s) \in Seq(S) /\ Len(Front(s)) = Len(s) - 1
           /\ Len(s) > 0 /\ Len(s) \in Nat
           /\ \A i \in 1 .. (Len(s) - 1) : Front(s)[i] = s[i]
<1> DEFINE l == Len(s) - 1
           f == [i \in 1 .. l |-> s[i]]
<1>1. Len(s) \in Nat /\ Len(s) > 0 /\ l \in Nat
  BY EmptySeq
<1>2. \A i \in 1 .. l : s[i] \in S
  BY <1>1
<1>3. Front(s) = SubSeq(s, 1, l)
  BY DEF Front
<1>4. SubSeq(s, 1, l) = f
  BY <1>1
<1>5. f \in [1 .. l -> S]
  BY <1>2
<1> HIDE DEF l
<1>6. f \in Seq(S)
  BY <1>1, <1>5, SeqDef
<1>7. Len(f) = l
  <2> HIDE DEF f
  <2> QED BY <1>1, <1>5, <1>6, LenProperties
<1>8. \A i \in 1 .. l : f[i] = s[i]
  OBVIOUS
<1> HIDE DEF f
<1> QED BY <1>1, <1>3, <1>4, <1>6, <1>7, <1>8 DEF l

\* The places of the other holders.
LEMMA PopPlaces ==
    ASSUME StoreInv, calls # <<>>, m_refs[Current.name] # <<>>
    PROVE  /\ \A m \in Names \ {Current.name} : \A i \in DOMAIN m_refs[m] :
                 m_refs[m][i] \in Refs /\ m_refs[m][i] \notin Unlinked
           /\ \A i \in 1 .. (Len(m_refs[Current.name]) - 1) :
                 /\ m_refs[Current.name][i] \in Refs
                 /\ m_refs[Current.name][i] \notin {Current.ref, Top(Current.name)}
                 /\ ~Replaces => m_refs[Current.name][i] \notin Unlinked
                 /\ Replaces => m_refs[Current.name][i] = Bottom(Current.name)
<1> DEFINE n == Current.name
<1>1. TypeOK /\ Apart /\ HoldersApart
  BY Zenon DEF StoreInv, Apart
<1>2. n \in Names /\ Current.ref \in Locals
  BY <1>1, CurrentCall, Zenon
<1>3. /\ Len(m_refs[n]) \in Nat /\ Len(m_refs[n]) \in DOMAIN m_refs[n] /\ 1 \in DOMAIN m_refs[n]
      /\ DOMAIN m_refs[n] = 1 .. Len(m_refs[n]) /\ Top(n) = m_refs[n][Len(m_refs[n])]
  BY <1>1, <1>2, TopHolder DEF Top
<1> HIDE DEF n
<1>4. \A m \in Names : \A i \in DOMAIN m_refs[m] :
         /\ m_refs[m][i] \in Refs /\ m_refs[m][i] # Current.ref
         /\ m_refs[m][i] = Top(n) => m = n /\ i = Len(m_refs[n])
         /\ m_refs[m][i] = Bottom(n) => m = n
  <2>1. \A m \in Names : \A i \in DOMAIN m_refs[m] : m_refs[m][i] \in Refs /\ m_refs[m][i] \in Holders
    BY <1>1, HolderIn
  <2> QED BY <1>1, <1>2, <1>3, <2>1 DEF Apart, HoldersApart, Bottom
<1>5. \A i \in 1 .. (Len(m_refs[n]) - 1) : i \in DOMAIN m_refs[n] /\ i # Len(m_refs[n]) /\ (Replaces => i = 1)
  BY <1>3 DEF Replaces, n
<1>6. \A m \in Names \ {n} : \A i \in DOMAIN m_refs[m] : m_refs[m][i] \in Refs /\ m_refs[m][i] \notin Unlinked
  BY <1>4 DEF Unlinked, n
<1>7. \A i \in 1 .. (Len(m_refs[n]) - 1) :
         /\ m_refs[n][i] \in Refs
         /\ m_refs[n][i] \notin {Current.ref, Top(n)}
         /\ ~Replaces => m_refs[n][i] \notin Unlinked
         /\ Replaces => m_refs[n][i] = Bottom(n)
  BY <1>2, <1>4, <1>5 DEF Unlinked, n, Bottom
<1> QED BY <1>6, <1>7 DEF n

\* A disciplined call that pops leaves the placeholder.
LEMMA StrictPop ==
    ASSUME StoreInv, DisciplineInv, disciplined, NEW pc, NEW ops, Waiting(pc, ops),
           pc = "notify" \/ Current.op # "access"
    PROVE  /\ Len(Stack[Current.name]) > (IF Current.name \in m_metadata THEN 1 ELSE 0)
           /\ Current.op = "share" => Val(heap, Current.ref) = Val(heap, Top(Current.name))
<1> DEFINE n == Current.name
<1>1. Kept /\ calls # <<>>
  BY DEF DisciplineInv, Waiting
<1>2. /\ Waiting("notify", ops) /\ n \in Names
      /\ Top(n) = m_refs[n][Current.depth[n]]
      /\ HolderKept(m_refs, m_metadata, heap, Current)
  BY <1>1, PoppingCall
<1>3. Current.depth[n] = Len(m_refs[n]) /\ Current.pc = "notify"
  BY <1>2 DEF Waiting, Depth
<1>4. Len(Stack[n]) = Len(m_refs[n]) /\ Len(m_refs[n]) \in Nat
  BY <1>2, StackShape
<1>5. Len(m_refs[n]) > 0 /\ (n \in m_metadata => Len(m_refs[n]) > 1)
  BY <1>2, <1>3 DEF HolderKept
<1>6. Current.op = "share" => heap.m_content[Top(n)] = heap.m_content[Current.ref]
  BY <1>2 DEF HolderKept
<1>7. Current.op = "share" => Val(heap, Current.ref) = Val(heap, Top(n))
  BY <1>6 DEF Val, IsNull, BufferOf
<1> QED BY <1>4, <1>5, <1>7

\* The stacks when the holder on top, if there is one, is popped.
LEMMA PoppedStack ==
    ASSUME StoreInv, StoreInv', NEW n \in Names, NEW W,
           m_refs' = [m_refs EXCEPT ![n] = IF m_refs[n] = <<>> THEN m_refs[n] ELSE Front(m_refs[n])],
           \A m \in Names \ {n} : \A i \in DOMAIN m_refs[m] :
              Val(heap', m_refs[m][i]) = IF Val(heap, m_refs[m][i]) \in W THEN Null ELSE Val(heap, m_refs[m][i]),
           \A i \in 1 .. (Len(m_refs[n]) - 1) :
              Val(heap', m_refs[n][i]) = IF Val(heap, m_refs[n][i]) \in W THEN Null ELSE Val(heap, m_refs[n][i])
    PROVE  Stack' = Store!Without(W, [Stack EXCEPT ![n] = IF Stack[n] = <<>> THEN Stack[n] ELSE Front(Stack[n])])
<1> DEFINE s == IF Stack[n] = <<>> THEN Stack[n] ELSE Front(Stack[n])
<1>1. TypeOK
  BY DEF StoreInv
<1>2. m_refs'[n] = (IF m_refs[n] = <<>> THEN m_refs[n] ELSE Front(m_refs[n]))
      /\ \A m \in Names \ {n} : m_refs'[m] = m_refs[m]
  BY <1>1 DEF TypeOK
<1>3. /\ Stack[n] \in Seq(Vals) /\ Len(Stack[n]) = Len(m_refs[n]) /\ Len(m_refs[n]) \in Nat
      /\ \A i \in 1 .. Len(m_refs[n]) : Stack[n][i] = Val(heap, m_refs[n][i])
      /\ Stack[n] = <<>> <=> m_refs[n] = <<>>
  BY StackShape
<1>4. /\ s \in Seq(Vals) /\ Len(s) = Len(m_refs'[n])
      /\ \A i \in 1 .. Len(s) : Val(heap', m_refs'[n][i]) = IF s[i] \in W THEN Null ELSE s[i]
  <2>1. CASE m_refs[n] = <<>>
    <3>1. s = Stack[n] /\ m_refs'[n] = m_refs[n]
      BY <1>2, <1>3, <2>1
    <3>2. Len(m_refs[n]) = 0
      BY <2>1
    <3> QED BY <1>3, <3>1, <3>2
  <2>2. CASE m_refs[n] # <<>>
    <3>1. s = Front(Stack[n]) /\ m_refs'[n] = Front(m_refs[n])
      BY <1>2, <1>3, <2>2
    <3> HIDE DEF s
    <3>2. /\ s \in Seq(Vals) /\ Len(s) = Len(m_refs[n]) - 1
          /\ \A i \in 1 .. (Len(m_refs[n]) - 1) : s[i] = Stack[n][i]
      <4>1. Stack[n] # <<>>
        BY <1>3, <2>2
      <4>2. /\ Front(Stack[n]) \in Seq(Vals) /\ Len(Front(Stack[n])) = Len(Stack[n]) - 1
            /\ \A i \in 1 .. (Len(Stack[n]) - 1) : Front(Stack[n])[i] = Stack[n][i]
        BY ONLY <1>3, <4>1, FrontSeq
      <4> QED BY <1>3, <3>1, <4>2
    <3>3. Len(m_refs'[n]) = Len(m_refs[n]) - 1 /\ \A i \in 1 .. (Len(m_refs[n]) - 1) : m_refs'[n][i] = m_refs[n][i]
      BY <1>1, <2>2, <3>1, FrontHolders
    <3> QED BY <1>3, <3>2, <3>3
  <2> QED BY <2>1, <2>2
<1> HIDE DEF s
<1>5. Stack' = Store!Without(W, [Stack EXCEPT ![n] = s])
  BY <1>2, <1>4, StackWithout
<1> QED BY <1>5 DEF s

LEMMA ShareThrowsStep ==
    ASSUME StoreInv, StoreInv', DisciplineInv, ShareThrows
    PROVE  Store!Next
<1> DEFINE n == Current.name
           r == Current.ref
           T == IF m_refs[n] = <<>> THEN {} ELSE {Top(n)}
           W == IF Current.op = "share" /\ Val(heap, r) # Null THEN {Val(heap, r)} ELSE {}
<1>1. TypeOK /\ StoreHeap(heap) /\ Apart
  BY DEF StoreInv
<1>2. /\ Waiting("notify", {"share", "access"}) /\ UNCHANGED <<m_metadata, descriptors, disciplined>>
      /\ m_refs' = [m_refs EXCEPT ![n] = IF m_refs[n] = <<>> THEN m_refs[n] ELSE Front(m_refs[n])]
  BY DEF ShareThrows
<1>3. /\ calls # <<>> /\ Current.op \in {"share", "access"}
      /\ Current.op = "share" => GivesBack(Undone, heap', r)
      /\ Current.op = "access" => Touches(Undone, heap', {r})
  BY ShareThrowsEffect
<1>4. Touches(heap, Undone, T) /\ r \notin T /\ r \in Refs
  BY <1>3, UndoneTouches
<1>5. n \in Names /\ r \in Locals /\ r \notin Holders
  <2>1. n \in Names /\ r \in Locals
    BY <1>1, <1>3, CurrentCall, Zenon
  <2> QED BY <1>1, <2>1 DEF Apart
<1> HIDE DEF r
<1>6. StoreHeap(Undone) /\ SameVals(heap, Undone, T)
  BY <1>4, TouchesVals DEF Touches
<1>7. \A q \in Refs : q \notin T /\ q # r =>
         Val(heap', q) = IF Val(heap, q) \in W THEN Null ELSE Val(heap, q)
  <2> SUFFICES ASSUME NEW q \in Refs, q \notin T, q # r
               PROVE  Val(heap', q) = IF Val(heap, q) \in W THEN Null ELSE Val(heap, q)
    OBVIOUS
  <2>1. Val(Undone, q) = Val(heap, q) /\ Val(Undone, r) = Val(heap, r)
    BY <1>4, <1>6 DEF SameVals
  <2>2. CASE Current.op = "share"
    <3>1. Val(heap', q) = IF Val(Undone, q) = Val(Undone, r) THEN Null ELSE Val(Undone, q)
      BY <1>3, <1>4, <1>6, <2>2, GivesBackVals
    <3> QED BY <2>1, <2>2, <3>1
  <2>3. CASE Current.op = "access"
    <3>1. SameVals(Undone, heap', {r})
      BY <1>3, <2>3, TouchesVals
    <3> QED BY <2>1, <2>3, <3>1 DEF SameVals
  <2> QED BY <1>3, <2>2, <2>3
<1>8. \A m \in Names \ {n} : \A i \in DOMAIN m_refs[m] :
         m_refs[m][i] \in Refs /\ m_refs[m][i] \notin T /\ m_refs[m][i] # r
  <2>1. \A m \in Names : \A i \in DOMAIN m_refs[m] : m_refs[m][i] \in Refs /\ m_refs[m][i] # r
    BY <1>1, <1>5, HolderIn
  <2>2. CASE m_refs[n] = <<>>
    BY <2>1, <2>2
  <2>3. CASE m_refs[n] # <<>>
    BY <1>3, <2>1, <2>3, PopPlaces DEF Unlinked
  <2> QED BY <2>2, <2>3
<1>9. \A i \in 1 .. (Len(m_refs[n]) - 1) :
         m_refs[n][i] \in Refs /\ m_refs[n][i] \notin T /\ m_refs[n][i] # r
  <2>1. CASE m_refs[n] = <<>>
    <3>1. Len(m_refs[n]) = 0
      BY <2>1
    <3> QED BY <3>1
  <2>2. CASE m_refs[n] # <<>>
    BY <1>3, <2>2, PopPlaces DEF r
  <2> QED BY <2>1, <2>2
<1>10. W \in {{}} \cup {{v} : v \in Buffers}
  <2>1. Val(heap, r) \in Vals
    BY <1>1, <1>4, ValType
  <2> QED BY <2>1 DEF Vals
<1>11. disciplined => Len(Stack[n]) > (IF n \in m_metadata THEN 1 ELSE 0) /\ W \subseteq {Last(Stack[n])}
  <2> SUFFICES ASSUME disciplined
               PROVE  Len(Stack[n]) > (IF n \in m_metadata THEN 1 ELSE 0) /\ W \subseteq {Last(Stack[n])}
    OBVIOUS
  <2>1. Len(Stack[n]) > (IF n \in m_metadata THEN 1 ELSE 0) /\ (Current.op = "share" => Val(heap, r) = Val(heap, Top(n)))
    BY <1>2, StrictPop DEF r
  <2>2. m_refs[n] # <<>> => Last(Stack[n]) = Val(heap, Top(n))
    BY <1>5, StackShape
  <2>3. m_refs[n] # <<>>
    <3>1. Len(Stack[n]) = Len(m_refs[n])
      BY <1>5, StackShape
    <3>2. m_refs[n] = <<>> => Len(m_refs[n]) = 0
      OBVIOUS
    <3> QED BY <2>1, <3>1, <3>2
  <2> QED BY <2>1, <2>2, <2>3
<1> HIDE DEF W, T, n
<1>12. Stack' = Store!Without(W, [Stack EXCEPT ![n] = IF Stack[n] = <<>> THEN Stack[n] ELSE Front(Stack[n])])
  BY <1>2, <1>5, <1>7, <1>8, <1>9, PoppedStack
<1>13. UNCHANGED <<m_metadata, descriptors, disciplined>>
  BY <1>2
<1> QED BY <1>5, <1>10, <1>11, <1>12, <1>13, UndoAbs, Zenon

\* What is left of a stack once its top is removed, with v in the place of the
\* placeholder that is replaced.
Rest(n, v) == IF n \in m_metadata /\ Len(Stack[n]) = 2 THEN <<v>> ELSE Front(Stack[n])

Renewed(n) == n \in m_metadata /\ Len(m_refs[n]) = 2

LEMMA RestSeq ==
    ASSUME StoreInv, NEW n \in Names, m_refs[n] # <<>>, m_refs' = [m_refs EXCEPT ![n] = Front(m_refs[n])],
           NEW v \in Vals
    PROVE  /\ Rest(n, v) \in Seq(Vals) /\ Len(Rest(n, v)) = Len(m_refs'[n]) /\ Len(Rest(n, v)) = Len(m_refs[n]) - 1
           /\ \A i \in 1 .. Len(Rest(n, v)) :
                 /\ m_refs'[n][i] = m_refs[n][i]
                 /\ Renewed(n) => Rest(n, v)[i] = v
                 /\ ~Renewed(n) => Rest(n, v)[i] = Val(heap, m_refs[n][i])
           /\ \A m \in Names \ {n} : m_refs'[m] = m_refs[m]
           /\ Stack[n] # <<>> /\ Last(Stack[n]) = Val(heap, Top(n))
<1> DEFINE s == Rest(n, v)
<1>1. TypeOK
  BY DEF StoreInv
<1>2. m_refs'[n] = Front(m_refs[n]) /\ \A m \in Names \ {n} : m_refs'[m] = m_refs[m]
  BY <1>1 DEF TypeOK
<1>3. /\ Stack[n] \in Seq(Vals) /\ Len(Stack[n]) = Len(m_refs[n]) /\ Len(m_refs[n]) \in Nat
      /\ \A i \in 1 .. Len(m_refs[n]) : Stack[n][i] = Val(heap, m_refs[n][i])
      /\ Stack[n] # <<>> /\ Last(Stack[n]) = Val(heap, Top(n))
  BY StackShape
<1>4. Len(m_refs'[n]) = Len(m_refs[n]) - 1 /\ \A i \in 1 .. (Len(m_refs[n]) - 1) : m_refs'[n][i] = m_refs[n][i]
  BY <1>1, <1>2, FrontHolders
<1>5. CASE Renewed(n)
  <2>1. s = <<v>> /\ Len(m_refs[n]) = 2
    BY <1>3, <1>5 DEF Rest, Renewed
  <2>2. <<v>> \in Seq(Vals) /\ Len(<<v>>) = 1 /\ <<v>>[1] = v
    OBVIOUS
  <2> HIDE DEF s
  <2>3. s \in Seq(Vals) /\ Len(s) = 1 /\ s[1] = v
    BY <2>1, <2>2
  <2>4. \A i \in 1 .. Len(s) : s[i] = v /\ m_refs'[n][i] = m_refs[n][i]
    BY <1>4, <2>1, <2>3
  <2> QED BY <1>2, <1>3, <1>4, <1>5, <2>1, <2>3, <2>4 DEF s
<1>6. CASE ~Renewed(n)
  <2>1. s = Front(Stack[n])
    BY <1>3, <1>6 DEF Rest, Renewed
  <2>2. /\ Front(Stack[n]) \in Seq(Vals) /\ Len(Front(Stack[n])) = Len(Stack[n]) - 1
        /\ \A i \in 1 .. (Len(Stack[n]) - 1) : Front(Stack[n])[i] = Stack[n][i]
    BY ONLY <1>3, FrontSeq
  <2> QED BY <1>2, <1>3, <1>4, <1>6, <2>1, <2>2
<1> QED BY <1>5, <1>6

\* A removal is as DataStore says, for the value v that replaces the placeholder.
LEMMA RemovalFloor ==
    ASSUME StoreInv, DisciplineInv, NEW pc, NEW op, op # "access", Waiting(pc, {op})
    PROVE  disciplined => Len(Stack[Current.name]) > (IF Current.name \in m_metadata THEN 1 ELSE 0)
<1>1. Current.op # "access"
  BY DEF Waiting
<1> QED BY <1>1, StrictPop

LEMMA ReleaseStep ==
    ASSUME StoreInv, StoreInv', DisciplineInv, NEW pc, ReleaseDone(pc)
    PROVE  Store!Next
<1> DEFINE n == Current.name
           u == Bottom(n)
<1>1. /\ calls # <<>> /\ m_refs[n] # <<>>
      /\ Touches(heap, heap', Unlinked)
      /\ Replaces => heap'.m_content[u] \in {Null, GetContent(heap, Top(n))}
  BY ReleaseEffect
<1>2. Waiting(pc, {"release"}) /\ m_refs' = [m_refs EXCEPT ![n] = Front(m_refs[n])]
  BY DEF ReleaseDone
<1>3. UNCHANGED <<m_metadata, descriptors, disciplined>>
  BY DEF ReleaseDone
<1>4. n \in Names /\ Top(n) \in Refs
  BY <1>1, RemovalPlaces DEF Top
<1>5. SameVals(heap, heap', Unlinked)
  BY <1>1, TouchesVals
<1>6. /\ \A m \in Names \ {n} : \A i \in DOMAIN m_refs[m] : m_refs[m][i] \in Refs /\ m_refs[m][i] \notin Unlinked
      /\ \A i \in 1 .. (Len(m_refs[n]) - 1) :
            /\ m_refs[n][i] \in Refs
            /\ ~Replaces => m_refs[n][i] \notin Unlinked
            /\ Replaces => m_refs[n][i] = u
  BY <1>1, PopPlaces
<1>7. Replaces <=> Renewed(n)
  BY DEF Replaces, Renewed
<1>8. disciplined => Len(Stack[n]) > (IF n \in m_metadata THEN 1 ELSE 0)
  BY <1>2, RemovalFloor
<1>9. Val(heap, Top(n)) \in Vals /\ m_refs[n] # <<>> /\ Last(Stack[n]) = Val(heap, Top(n))
  <2>1. StoreHeap(heap)
    BY DEF StoreInv
  <2> QED BY <1>1, <1>4, <2>1, ValType, StackShape
<1> HIDE DEF n, u
<1>10. Replaces => Val(heap', u) \in {Val(heap, Top(n)), Null}
  <2> SUFFICES ASSUME Replaces
               PROVE  Val(heap', u) \in {Val(heap, Top(n)), Null}
    OBVIOUS
  <2>1. heap'.m_data = heap.m_data /\ heap'.m_buffer = heap.m_buffer
    BY <1>1 DEF Touches
  <2>2. CASE heap'.m_content[u] = Null
    BY <2>2 DEF Val, IsNull
  <2>3. CASE heap'.m_content[u] # Null
    <3>1. ~IsNull(heap, Top(n)) /\ heap'.m_content[u] = heap.m_content[Top(n)]
      BY <1>1, <2>3 DEF GetContent
    <3> QED BY <2>1, <3>1 DEF Val, IsNull, BufferOf
  <2> QED BY <2>2, <2>3
<1>11. PICK v \in {Val(heap, Top(n)), Null} : Replaces => v = Val(heap', u)
  BY <1>10
<1>12. v \in Vals /\ v \in {Last(Stack[n]), Null}
  BY <1>9 DEF Vals
<1>13. /\ Rest(n, v) \in Seq(Vals) /\ Len(Rest(n, v)) = Len(m_refs'[n]) /\ Len(Rest(n, v)) = Len(m_refs[n]) - 1
       /\ \A i \in 1 .. Len(Rest(n, v)) :
             /\ m_refs'[n][i] = m_refs[n][i]
             /\ Renewed(n) => Rest(n, v)[i] = v
             /\ ~Renewed(n) => Rest(n, v)[i] = Val(heap, m_refs[n][i])
       /\ \A m \in Names \ {n} : m_refs'[m] = m_refs[m]
       /\ Stack[n] # <<>> /\ Last(Stack[n]) = Val(heap, Top(n))
  <2>1. n \in Names /\ m_refs[n] # <<>> /\ v \in Vals
    BY <1>1, <1>4, <1>12
  <2>2. m_refs' = [m_refs EXCEPT ![n] = Front(m_refs[n])]
    BY <1>2
  <2> QED BY ONLY StoreInv, <2>1, <2>2, RestSeq
<1> DEFINE s == Rest(n, v)
<1> HIDE DEF s
<1>14. \A i \in 1 .. Len(s) : s[i] = Val(heap', m_refs'[n][i])
  <2> SUFFICES ASSUME NEW i \in 1 .. Len(s)
               PROVE  s[i] = Val(heap', m_refs'[n][i])
    OBVIOUS
  <2>1. CASE Replaces
    <3>1. m_refs'[n][i] = u
      BY <1>6, <1>13, <2>1 DEF s
    <3>2. s[i] = v
      BY <1>7, <1>13, <2>1 DEF s
    <3> QED BY <1>11, <2>1, <3>1, <3>2
  <2>2. CASE ~Replaces
    BY <1>5, <1>6, <1>7, <1>13, <2>2 DEF SameVals, s
  <2> QED BY <2>1, <2>2
<1>15. \A m \in Names \ {n} : \A i \in DOMAIN m_refs[m] : Val(heap', m_refs[m][i]) = Val(heap, m_refs[m][i])
  BY <1>5, <1>6 DEF SameVals
<1>16. Stack' = [Stack EXCEPT ![n] = s]
  BY <1>4, <1>13, <1>14, <1>15, StackExcept DEF s
<1> QED BY <1>3, <1>4, <1>8, <1>12, <1>13, <1>16, ReleaseAbs, Zenon DEF s, Rest

\* What a reclaim does to the values: that of the top is seen no more, and a
\* new placeholder has a new value, or none.
LEMMA ReclaimVals ==
    ASSUME StoreInv, NEW pc, ReclaimDone(pc)
    PROVE  \E v \in (Buffers \ Present) \cup {Null} :
              /\ Replaces => Val(heap', Bottom(Current.name))
                                = IF v = Val(heap, Top(Current.name)) THEN Null ELSE v
              /\ \A q \in Refs \ Unlinked :
                    Val(heap', q) = IF Val(heap, q) = Val(heap, Top(Current.name)) THEN Null ELSE Val(heap, q)
<1> DEFINE n == Current.name
           r == Current.ref
           t == Top(n)
           u == Bottom(n)
<1>1. /\ calls # <<>> /\ m_refs[n] # <<>>
      /\ \/ /\ Replaces
            /\ \E c \in FreshContents(heap), b \in FreshBuffers(heap) : \E g :
                  Creates(Bare, g, u, c, b) /\ GivesBack(g, heap', r)
         \/ GivesBack(Bare, heap', r)
  BY ReclaimEffect
<1>2. /\ Touches(heap, Bare, Unlinked) /\ (Replaces => Bare.m_content[u] = Null)
      /\ Bare.m_content[r] = GetContent(heap, t)
  BY <1>1, BareTouches
<1>3. r \in Refs /\ t \in Refs /\ u \in Refs /\ u # r
  BY <1>1, RemovalPlaces DEF Top, Bottom
<1>4. r \in Unlinked /\ (Replaces => u \in Unlinked)
  BY DEF Unlinked
<1> HIDE DEF n, r, t, u
<1>5. StoreHeap(heap) /\ StoreHeap(Bare) /\ SameVals(heap, Bare, Unlinked)
  BY <1>2, TouchesVals DEF StoreInv, Touches
<1>6. Val(Bare, r) = Val(heap, t)
  <2>1. Bare.m_data = heap.m_data /\ Bare.m_buffer = heap.m_buffer
    BY <1>2 DEF Touches
  <2>2. CASE IsNull(heap, t)
    BY <1>2, <2>2 DEF GetContent, Val, IsNull
  <2>3. CASE ~IsNull(heap, t)
    BY <1>2, <2>1, <2>3 DEF GetContent, Val, IsNull, BufferOf
  <2> QED BY <2>2, <2>3
<1>7. CASE GivesBack(Bare, heap', r)
  <2>1. \A q \in Refs \ {r} : Val(heap', q) = IF Val(Bare, q) = Val(Bare, r) THEN Null ELSE Val(Bare, q)
    BY <1>3, <1>5, <1>7, GivesBackVals
  <2>2. \A q \in Refs \ Unlinked : Val(heap', q) = IF Val(heap, q) = Val(heap, t) THEN Null ELSE Val(heap, q)
    BY <1>4, <1>5, <1>6, <2>1 DEF SameVals
  <2>3. Replaces => Val(heap', u) = Null
    <3>1. Replaces => Val(Bare, u) = Null
      BY <1>2 DEF Val, IsNull
    <3> QED BY <1>3, <2>1, <3>1
  <2>4. Replaces => Val(heap', u) = IF Null = Val(heap, t) THEN Null ELSE Null
    BY <2>3
  <2> QED BY <2>2, <2>4 DEF n, t, u
<1>8. CASE Replaces /\ \E c \in FreshContents(heap), b \in FreshBuffers(heap) : \E g :
                  Creates(Bare, g, u, c, b) /\ GivesBack(g, heap', r)
  <2>1. PICK c \in FreshContents(heap), b \in FreshBuffers(heap) : \E g :
                  Creates(Bare, g, u, c, b) /\ GivesBack(g, heap', r)
    BY <1>8
  <2>2. PICK g : Creates(Bare, g, u, c, b) /\ GivesBack(g, heap', r)
    BY <2>1
  <2>3. SameVals(Bare, g, {u}) /\ Val(g, u) = b
    <3>1. c \in FreshContents(Bare) /\ b \in FreshBuffers(Bare)
      BY <1>2, TouchesFresh
    <3> QED BY <1>5, <2>2, <3>1, CreatesVals
  <2>4. \A q \in Refs \ {r} : Val(heap', q) = IF Val(g, q) = Val(g, r) THEN Null ELSE Val(g, q)
    <3>1. StoreHeap(g)
      BY <2>2 DEF Creates
    <3> QED BY <1>3, <2>2, <3>1, GivesBackVals
  <2>5. Val(g, r) = Val(heap, t)
    BY <1>3, <1>6, <2>3 DEF SameVals
  <2>6. \A q \in Refs \ Unlinked : Val(heap', q) = IF Val(heap, q) = Val(heap, t) THEN Null ELSE Val(heap, q)
    BY <1>4, <1>5, <1>8, <2>3, <2>4, <2>5 DEF SameVals
  <2>7. Val(heap', u) = IF b = Val(heap, t) THEN Null ELSE b
    BY <1>3, <2>3, <2>4, <2>5
  <2>8. b \in Buffers \ Present
    <3>1. b \in FreshBuffers(heap) /\ b \in Buffers /\ b # Null
      BY HeapAssumption DEF FreshBuffers
    <3>2. OnBuffer(heap, b) = {}
      BY <1>5, <3>1, FreshUnlinked DEF StoreHeap, HeapInv
    <3>3. \A s \in Refs : Val(heap, s) # b
      BY <3>1, <3>2 DEF OnBuffer, Val, IsNull
    <3> QED BY <3>1, <3>3, PresentVal
  <2> QED BY <2>6, <2>7, <2>8 DEF n, t, u
<1> QED BY <1>1, <1>7, <1>8

LEMMA ReclaimStep ==
    ASSUME StoreInv, StoreInv', DisciplineInv, NEW pc, ReclaimDone(pc)
    PROVE  Store!Next
<1> DEFINE n == Current.name
           u == Bottom(n)
           W == {Last(Stack[n])}
<1>1. Waiting(pc, {"reclaim"}) /\ m_refs' = [m_refs EXCEPT ![n] = Front(m_refs[n])]
      /\ calls # <<>> /\ m_refs[n] # <<>>
  BY DEF ReclaimDone, Waiting
<1>2. UNCHANGED <<m_metadata, descriptors, disciplined>>
  BY DEF ReclaimDone
<1>3. n \in Names
  BY <1>1, RemovalPlaces
<1>4. PICK v \in (Buffers \ Present) \cup {Null} :
         /\ Replaces => Val(heap', u) = IF v = Val(heap, Top(n)) THEN Null ELSE v
         /\ \A q \in Refs \ Unlinked :
               Val(heap', q) = IF Val(heap, q) = Val(heap, Top(n)) THEN Null ELSE Val(heap, q)
  BY ReclaimVals
<1>5. /\ \A m \in Names \ {n} : \A i \in DOMAIN m_refs[m] : m_refs[m][i] \in Refs /\ m_refs[m][i] \notin Unlinked
      /\ \A i \in 1 .. (Len(m_refs[n]) - 1) :
            /\ m_refs[n][i] \in Refs
            /\ ~Replaces => m_refs[n][i] \notin Unlinked
            /\ Replaces => m_refs[n][i] = u
  BY <1>1, PopPlaces
<1>6. Replaces <=> Renewed(n)
  BY DEF Replaces, Renewed
<1>7. disciplined => Len(Stack[n]) > (IF n \in m_metadata THEN 1 ELSE 0)
  BY <1>1, RemovalFloor
<1> HIDE DEF n, u
<1>8. /\ Rest(n, v) \in Seq(Vals) /\ Len(Rest(n, v)) = Len(m_refs'[n]) /\ Len(Rest(n, v)) = Len(m_refs[n]) - 1
      /\ \A i \in 1 .. Len(Rest(n, v)) :
            /\ m_refs'[n][i] = m_refs[n][i]
            /\ Renewed(n) => Rest(n, v)[i] = v
            /\ ~Renewed(n) => Rest(n, v)[i] = Val(heap, m_refs[n][i])
      /\ \A m \in Names \ {n} : m_refs'[m] = m_refs[m]
      /\ Stack[n] # <<>> /\ Last(Stack[n]) = Val(heap, Top(n))
  <2>1. n \in Names /\ m_refs[n] # <<>> /\ v \in Vals
    BY <1>1, <1>3 DEF Vals
  <2>2. m_refs' = [m_refs EXCEPT ![n] = Front(m_refs[n])]
    BY <1>1
  <2> QED BY ONLY StoreInv, <2>1, <2>2, RestSeq
<1> DEFINE s == Rest(n, v)
<1> HIDE DEF s
<1>9. \A i \in 1 .. Len(s) : Val(heap', m_refs'[n][i]) = IF s[i] \in W THEN Null ELSE s[i]
  <2> SUFFICES ASSUME NEW i \in 1 .. Len(s)
               PROVE  Val(heap', m_refs'[n][i]) = IF s[i] \in W THEN Null ELSE s[i]
    OBVIOUS
  <2>1. s[i] \in W <=> s[i] = Val(heap, Top(n))
    BY <1>8
  <2>2. CASE Replaces
    <3>1. m_refs'[n][i] = u
      BY <1>5, <1>8, <2>2 DEF s
    <3>2. s[i] = v
      BY <1>6, <1>8, <2>2 DEF s
    <3> QED BY <1>4, <2>1, <2>2, <3>1, <3>2
  <2>3. CASE ~Replaces
    <3>1. m_refs'[n][i] = m_refs[n][i] /\ m_refs[n][i] \in Refs \ Unlinked
      BY <1>5, <1>8, <2>3 DEF s
    <3>2. s[i] = Val(heap, m_refs[n][i])
      BY <1>6, <1>8, <2>3 DEF s
    <3> QED BY <1>4, <2>1, <3>1, <3>2
  <2> QED BY <2>2, <2>3
<1>10. \A m \in Names \ {n} : \A i \in DOMAIN m_refs[m] :
          Val(heap', m_refs[m][i]) = IF Val(heap, m_refs[m][i]) \in W THEN Null ELSE Val(heap, m_refs[m][i])
  BY <1>4, <1>5, <1>8
<1>11. s \in Seq(Vals) /\ Len(s) = Len(m_refs'[n]) /\ \A m \in Names \ {n} : m_refs'[m] = m_refs[m]
  BY <1>8 DEF s
<1>12. Stack' = Store!Without(W, [Stack EXCEPT ![n] = s])
  <2> HIDE DEF W
  <2> QED BY <1>3, <1>9, <1>10, <1>11, StackWithout
<1>13. Stack[n] # <<>>
  BY <1>8
<1> QED BY <1>2, <1>3, <1>7, <1>12, <1>13, ReclaimAbs, Zenon DEF s, Rest

\* The copy throws: both holders are gone.
LEMMA LoseStep ==
    ASSUME StoreInv, StoreInv', NEW pc, ReclaimCopyThrows(pc)
    PROVE  Store!Next
<1> DEFINE n == Current.name
<1>1. calls # <<>> /\ m_refs[n] # <<>> /\ ~disciplined /\ Touches(heap, heap', Unlinked)
  BY CopyThrowsEffect
<1>2. m_refs' = [m_refs EXCEPT ![n] = <<>>]
  BY DEF ReclaimCopyThrows
<1>3. UNCHANGED <<m_metadata, descriptors, disciplined>>
  BY DEF ReclaimCopyThrows
<1>4. n \in Names
  BY <1>1, RemovalPlaces
<1>5. \A m \in Names \ {n} : \A i \in DOMAIN m_refs[m] : m_refs[m][i] \notin Unlinked
  BY <1>1, PopPlaces
<1>6. SameVals(heap, heap', Unlinked)
  BY <1>1, TouchesVals
<1> HIDE DEF n
<1>7. Stack' = [Stack EXCEPT ![n] = <<>>]
  BY <1>2, <1>4, <1>5, <1>6, EmptyStack
<1> QED BY <1>1, <1>3, <1>4, <1>7, LoseAbs, Zenon

-----------------------------------------------------------------------------
(* The refinement *)

LEMMA InitAbs ==
    ASSUME Init
    PROVE  Store!Init
<1>1. m_refs = [n \in Names |-> <<>>] /\ m_metadata = {} /\ descriptors = Names /\ disciplined \in BOOLEAN
  BY DEF Init
<1>2. Stack = [n \in Names |-> <<>>]
  BY <1>1 DEF Stack, StackOf
<1> QED BY <1>1, <1>2, Zenon DEF Store!Init, Stack, StackOf, Val

LEMMA NextStep ==
    ASSUME StoreInv, StoreInv', DisciplineInv, Next
    PROVE  Store!Next \/ UNCHANGED Store!vars
<1>1. Modes \subseteq Access /\ PluginRights \subseteq Access
  BY DataAssumption
<1>2. ASSUME NEW n \in Names, LoadData(n)
      PROVE  Store!Next \/ UNCHANGED Store!vars
  BY <1>2, LoadDataStep
<1>3. ASSUME NEW n \in Names, NEW a \in Modes, Share(n, a)
      PROVE  Store!Next \/ UNCHANGED Store!vars
  BY <1>1, <1>3, ShareStep
<1>4. ASSUME NEW n \in Names, NEW R \in Modes, AccessShared(n, R) \/ AccessMissing(n, R)
      PROVE  Store!Next \/ UNCHANGED Store!vars
  BY <1>1, <1>4, AccessesStep, CallsStay
<1>5. ASSUME NEW n \in Names, RemoveBegins("release", n) \/ RemoveBegins("reclaim", n) \/ RemoveRefused(n)
      PROVE  Store!Next \/ UNCHANGED Store!vars
  <2>1. {} \in Access
    BY DEF Access
  <2> QED BY <1>5, <2>1, CallsStay
<1>6. ASSUME NEW n \in Names, NEW R \in PluginRights, Hold(n, R)
      PROVE  Store!Next \/ UNCHANGED Store!vars
  BY <1>1, <1>6, PluginsStay
<1>7. ASSUME NEW n \in Names, Destroy(n)
      PROVE  Store!Next \/ UNCHANGED Store!vars
  BY <1>7, DestroyStep
<1>8. CASE ShareThrows
  BY <1>8, ShareThrowsStep
<1>9. CASE ShareDone \/ RemoveThrows \/ RemoveMissing \/ MissingThrows \/ MissingShared
  <2>1. calls # <<>> /\ TypeOK
    BY <1>9 DEF ShareDone, RemoveThrows, RemoveMissing, MissingThrows, MissingShared, Waiting, StoreInv
  <2>2. Current.name \in Names /\ {} \in Access
    BY <2>1, CurrentCall DEF Access
  <2>3. PICK n \in Names : TRUE
    BY <2>2
  <2> QED BY <1>9, <2>2, <2>3, CallsStay, AccessesStep
<1>10. ASSUME NEW pc, ReleaseDone(pc) \/ ReclaimDone(pc) \/ ReclaimCopyThrows(pc)
       PROVE  Store!Next \/ UNCHANGED Store!vars
  BY <1>10, ReleaseStep, ReclaimStep, LoseStep
<1>11. ASSUME NEW s \in Refs, Drop(s)
       PROVE  Store!Next \/ UNCHANGED Store!vars
  <2>1. s \in held /\ UNCHANGED <<m_refs, m_metadata, descriptors, disciplined>> /\ heap' = Reset(heap, s)
    BY <1>11 DEF Drop
  <2>2. s \notin Holders /\ StoreHeap(heap)
    BY <2>1 DEF StoreInv, Apart
  <2>3. Touches(heap, heap', {s})
    BY <2>1, <2>2, ResetTouches
  <2> QED BY <2>1, <2>2, <2>3, LocalStays
<1> QED BY <1>2, <1>3, <1>4, <1>5, <1>6, <1>7, <1>8, <1>9, <1>10, <1>11 DEF Next

\* The data store implements the stacks of values of DataStore, for every set
\* of names, buffers and references and every callback: each step of share,
\* access, release, reclaim, of their callbacks and of the end is a step on
\* the values or leaves them alone.
THEOREM ImplementsStore == Spec => ImplementsDataStore
<1>1. Init => Store!Init
  BY InitAbs
<1>2. ASSUME StoreInv, StoreInv', DisciplineInv, [Next]_vars
      PROVE  [Store!Next]_(Store!vars)
  <2>1. CASE Next
    BY <2>1, <1>2, NextStep
  <2>2. CASE UNCHANGED vars
    <3>1. Stack' = Stack /\ UNCHANGED <<m_metadata, descriptors, disciplined>>
      BY <2>2 DEF vars, Stack, StackOf, Val
    <3> QED BY <3>1, StutterAbs
  <2> QED BY <1>2, <2>1, <2>2
<1>3. StoreInv /\ StoreInv' /\ DisciplineInv /\ [Next]_vars => [Store!Next]_(Store!vars)
  BY <1>2
<1> QED BY <1>1, <1>3, DisciplineHolds, PTL DEF Spec, ImplementsDataStore, Store!Spec

=============================================================================

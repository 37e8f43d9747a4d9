-------------------------- MODULE SerializeProofs --------------------------
(***************************************************************************)
(* Theorems about the callbacks that Global_context gathers and erases,    *)
(* and about the plugin serialize, which erases one while PDI calls it.    *)
(***************************************************************************)
EXTENDS Serialize, FiniteSetTheorems, SequenceTheorems, TLAPS

-----------------------------------------------------------------------------
(* The inductive invariant.  It holds while `data' is neither shared again nor
   left serialised by a share that failed: afterwards nothing is claimed. *)

CallbackRecords ==
    [id : Nat, kind : {"data", "remove"}, name : {"data", "serialized"}, who : {"other", "serialize", "consumer"}]

Shares ==
    {share \in [right : Rights, val : {"user", "plugin", "unset"}, lock : {"none", "r", "w"}] :
        share.lock \in Locks(share.right)}

Entries == [callback : Nat, right : Rights]

Calls ==
    [kind : {"data", "remove"}, name : {"data", "serialized"}, todo : Seq(CallbackRecords),
     failed : BOOLEAN, index : Nat]

\* The callback that share_serialized registers.
Removal(id) == Callback(id, "remove", "data", "serialize")

\* It is registered: release_serialized was not called for the last share.
Waiting == reg # Loaded

Owner == Last(data)

TypeOK ==
    /\ last \in Nat /\ last >= Len(Loaded)
    /\ data \in Seq(Shares) /\ serialized \in Seq(Shares)
    /\ m_serialized_remove_callback \in Seq(Entries)
    /\ skipped \in BOOLEAN /\ written \in BOOLEAN /\ broken \in BOOLEAN

\* At most one share, and one removal callback that belongs to the last entry.
RegOK ==
    Waiting =>
        /\ data # <<>> /\ m_serialized_remove_callback # <<>>
        /\ LET entry == Last(m_serialized_remove_callback)
           IN  entry.callback > Len(Loaded) /\ reg = Append(Loaded, Removal(entry.callback))

DataOK == Len(data) <= 1

\* The owner of `data' finds what it should.
Settled == data # <<>> => Owner.val = Delivered

\* The serialised share holds what is to be copied back.
InSync ==
    /\ data # <<>> /\ Owner.val = "user" /\ ~skipped /\ serialized # <<>>
    /\ LET right == Last(serialized).right
       IN  /\ Last(serialized).val = IF written THEN "plugin" ELSE IF right = "in" THEN "unset" ELSE "user"
           /\ right = "in" <=> Owner.right = "in"
           /\ written => CanWrite(right)

SyncOK ==
    Waiting /\ ~broken => InSync /\ Last(m_serialized_remove_callback).right = Last(serialized).right

\* The callbacks a call has still to call are registered, and one at most is of
\* serialize.
TodoOK(f) ==
    /\ \A i \in DOMAIN f.todo :
          /\ f.todo[i].kind = f.kind /\ f.todo[i].name = f.name
          /\ \E j \in DOMAIN reg : reg[j] = f.todo[i]
    /\ \A i, j \in DOMAIN f.todo : f.todo[i].who = "serialize" /\ f.todo[j].who = "serialize" => i = j

HasSerialize(f) == \E i \in DOMAIN f.todo : f.todo[i].who = "serialize"

FrameOK(f) == f \in Calls /\ TodoOK(f)

IsCall(f, kind, name) == f.kind = kind /\ f.name = name

\* As many serialised shares and entries.
Counts(n) == Len(serialized) = n /\ Len(m_serialized_remove_callback) = n

\* Between two calls.
Quiet ==
    ~broken => \/ Waiting /\ Counts(1)
               \/ ~Waiting /\ Counts(0) /\ (data = <<>> \/ skipped) /\ Settled

\* Data_descriptor_impl::share of `data' calls.
Sharing(f) ==
    /\ IsCall(f, "data", "data") /\ data # <<>>
    /\ HasSerialize(f) => ~Waiting /\ Owner.val = "user" /\ ~skipped /\ ~written /\ (~broken => Counts(0))
    /\ ~HasSerialize(f) /\ ~broken => \/ Waiting /\ Counts(1)
                                      \/ ~Waiting /\ Counts(0) /\ (f.failed \/ (skipped /\ Settled))

\* Data_descriptor_impl::reclaim of `data' calls.
Reclaiming(f) ==
    /\ IsCall(f, "remove", "data") /\ data # <<>>
    /\ HasSerialize(f) <=> Waiting
    /\ ~broken => IF HasSerialize(f) THEN Counts(1) ELSE f.failed \/ (Counts(0) /\ Settled)

\* Someone else releases `serialized'.
ReleasingAlone(f) ==
    /\ IsCall(f, "remove", "serialized") /\ broken
    /\ serialized # <<>> /\ f.index = 0

\* share_serialized shares `serialized'.
SharingSerialized(f, g) ==
    /\ IsCall(f, "data", "data") /\ IsCall(g, "data", "serialized")
    /\ data # <<>> /\ ~HasSerialize(f) /\ ~Waiting
    /\ serialized # <<>>
    /\ ~broken => Len(serialized) = 1 /\ m_serialized_remove_callback = <<>> /\ InSync

\* release_serialized releases `serialized', once it has copied it back.
ReleasingSerialized(f, g) ==
    /\ IsCall(f, "remove", "data") /\ IsCall(g, "remove", "serialized")
    /\ data # <<>> /\ ~HasSerialize(f) /\ ~Waiting
    /\ serialized # <<>>
    /\ m_serialized_remove_callback # <<>> /\ g.index = Len(m_serialized_remove_callback)
    /\ ~broken => Counts(1) /\ Settled

CallsOK ==
    \/ calls = <<>> /\ Quiet
    \/ \E f : /\ calls = <<f>> /\ FrameOK(f)
              /\ Sharing(f) \/ Reclaiming(f) \/ ReleasingAlone(f)
    \/ \E f, g : /\ calls = <<f, g>> /\ FrameOK(f) /\ FrameOK(g)
                 /\ SharingSerialized(f, g) \/ ReleasingSerialized(f, g)

SerializeInv == ~again => ~dangling /\ TypeOK /\ RegOK /\ DataOK /\ SyncOK /\ CallsOK

-----------------------------------------------------------------------------
(* What Gather and Erase return *)

\* Each number up to the cardinality of S is the rank of one element of S.
LEMMA PositionFacts ==
  ASSUME NEW S \in SUBSET Nat, IsFiniteSet(S)
  PROVE  /\ Cardinality(S) \in Nat
         /\ \A k \in 1 .. Cardinality(S) : Position(S, k) \in S
         /\ \A k, l \in 1 .. Cardinality(S) : Position(S, k) = Position(S, l) => k = l
         /\ \A i \in S : \E k \in 1 .. Cardinality(S) : Position(S, k) = i
<1> DEFINE Up(i) == {j \in S : j <= i}
           n == Cardinality(S)
           rank == [i \in S |-> Cardinality(Up(i))]
<1>1. n \in Nat
  BY FS_CardinalityType
<1>2. \A i \in S : /\ IsFiniteSet(Up(i)) /\ Cardinality(Up(i)) \in 1 .. n
  <2> SUFFICES ASSUME NEW i \in S PROVE IsFiniteSet(Up(i)) /\ Cardinality(Up(i)) \in 1 .. n
    OBVIOUS
  <2>1. Up(i) \in SUBSET S /\ i \in Up(i)
    OBVIOUS
  <2>2. IsFiniteSet(Up(i)) /\ Cardinality(Up(i)) <= n
    BY <2>1, FS_Subset
  <2>3. Cardinality(Up(i)) \in Nat
    BY <2>2, FS_CardinalityType
  <2>4. Cardinality(Up(i)) # 0
    BY <2>1, <2>2, FS_EmptySet
  <2> QED BY <1>1, <2>2, <2>3, <2>4
<1>3. \A i, j \in S : i < j => Cardinality(Up(i)) < Cardinality(Up(j))
  <2> SUFFICES ASSUME NEW i \in S, NEW j \in S, i < j PROVE Cardinality(Up(i)) < Cardinality(Up(j))
    OBVIOUS
  <2>1. Up(i) \in SUBSET Up(j) /\ Up(i) # Up(j)
    <3>1. \A x \in S : x <= i => x <= j
      OBVIOUS
    <3>2. j \in Up(j) /\ j \notin Up(i)
      OBVIOUS
    <3>3. Up(i) \in SUBSET Up(j)
      BY <3>1
    <3> QED BY <3>2, <3>3
  <2>2. Cardinality(Up(i)) <= Cardinality(Up(j)) /\ Cardinality(Up(i)) # Cardinality(Up(j))
    BY <1>2, <2>1, FS_Subset
  <2> QED BY <1>2, <2>2
<1>4. rank \in Injection(S, 1 .. n)
  <2>1. rank \in [S -> 1 .. n]
    BY <1>2
  <2>2. \A i, j \in S : rank[i] = rank[j] => i = j
    <3> SUFFICES ASSUME NEW i \in S, NEW j \in S, rank[i] = rank[j] PROVE i = j
      OBVIOUS
    <3>1. ~(i < j) /\ ~(j < i)
      BY <1>2, <1>3
    <3> QED BY <3>1
  <2> QED BY <2>1, <2>2 DEF Injection, IsInjective
<1>5. IsFiniteSet(1 .. n) /\ Cardinality(1 .. n) = n
  BY <1>1, FS_Interval
<1>6. rank \in Surjection(S, 1 .. n)
  BY <1>4, <1>5, FS_Injection
<1>7. ASSUME NEW k \in 1 .. n PROVE Position(S, k) \in S /\ rank[Position(S, k)] = k
  <2>1. \E i \in S : Cardinality(Up(i)) = k
    BY <1>6 DEF Surjection
  <2> QED BY <2>1 DEF Position
<1>8. ASSUME NEW i \in S PROVE \E k \in 1 .. n : Position(S, k) = i
  <2>1. rank[i] \in 1 .. n
    BY <1>2
  <2>2. Position(S, rank[i]) \in S /\ rank[Position(S, rank[i])] = rank[i]
    BY <2>1, <1>7
  <2>3. Position(S, rank[i]) = i
    BY <2>2, <1>4 DEF Injection, IsInjective
  <2> QED BY <2>1, <2>3
<1> QED BY <1>1, <1>7, <1>8

\* The callbacks at the positions in S: one for each position.
LEMMA AtFacts ==
  ASSUME NEW R, NEW r \in Seq(R), NEW S \in SUBSET DOMAIN r
  PROVE  /\ At(r, S) \in Seq(R) /\ Len(At(r, S)) = Cardinality(S)
         /\ Cardinality(S) \in Nat
         /\ \A k \in 1 .. Cardinality(S) : Position(S, k) \in S /\ At(r, S)[k] = r[Position(S, k)]
         /\ \A k, l \in 1 .. Cardinality(S) : Position(S, k) = Position(S, l) => k = l
         /\ \A i \in S : \E k \in 1 .. Cardinality(S) : Position(S, k) = i
<1>1. DOMAIN r = 1 .. Len(r) /\ Len(r) \in Nat
  BY LenProperties
<1>2. S \in SUBSET Nat /\ IsFiniteSet(S)
  <2>1. IsFiniteSet(1 .. Len(r))
    BY <1>1, FS_Interval
  <2> QED BY <1>1, <2>1, FS_Subset
<1>3. /\ Cardinality(S) \in Nat
      /\ \A k \in 1 .. Cardinality(S) : Position(S, k) \in S
      /\ \A k, l \in 1 .. Cardinality(S) : Position(S, k) = Position(S, l) => k = l
      /\ \A i \in S : \E k \in 1 .. Cardinality(S) : Position(S, k) = i
  BY <1>2, PositionFacts
<1>4. \A k \in 1 .. Cardinality(S) : At(r, S)[k] = r[Position(S, k)] /\ r[Position(S, k)] \in R
  BY <1>1, <1>3, ElementOfSeq DEF At
<1>5. At(r, S) \in [1 .. Cardinality(S) -> R]
  BY <1>4 DEF At
<1>6. At(r, S) \in Seq(R) /\ Len(At(r, S)) = Cardinality(S)
  BY <1>3, <1>5, SeqDef, LenProperties
<1> QED BY <1>3, <1>4, <1>6

\* The calls are in bijection with the positions of the callbacks to call.
CalledOnce(r, kind, name) ==
    \E p \in Bijection(DOMAIN Gather(r, kind, name), Where(r, kind, {name, NoName})) :
        \A a \in DOMAIN Gather(r, kind, name) : Gather(r, kind, name)[a] = r[p[a]]

\* notify_data, notify_data_remove, notify_event and notify_missing_data call
\* each callback of that kind that is registered for the name, or for none, and
\* call it once, whatever is registered.
THEOREM GatherCallsEachOnce ==
  ASSUME NEW R, NEW r \in Seq(R), NEW kind, NEW name
  PROVE  Gather(r, kind, name) \in Seq(R) /\ CalledOnce(r, kind, name)
<1> DEFINE A == Where(r, kind, {name} \ {NoName})
           B == Where(r, kind, {NoName})
           W == Where(r, kind, {name, NoName})
           m == Cardinality(A)
           n == Cardinality(B)
           g == Gather(r, kind, name)
           p == [a \in 1 .. m + n |-> IF a <= m THEN Position(A, a) ELSE Position(B, a - m)]
<1>1. A \in SUBSET DOMAIN r /\ B \in SUBSET DOMAIN r /\ A \cup B = W /\ A \cap B = {}
  BY DEF Where
<1>2. /\ At(r, A) \in Seq(R) /\ Len(At(r, A)) = m /\ m \in Nat
      /\ \A k \in 1 .. m : Position(A, k) \in A /\ At(r, A)[k] = r[Position(A, k)]
      /\ \A k, l \in 1 .. m : Position(A, k) = Position(A, l) => k = l
      /\ \A i \in A : \E k \in 1 .. m : Position(A, k) = i
  <2> HIDE DEF A
  <2> QED BY ONLY <1>1, r \in Seq(R), AtFacts
<1>3. /\ At(r, B) \in Seq(R) /\ Len(At(r, B)) = n /\ n \in Nat
      /\ \A k \in 1 .. n : Position(B, k) \in B /\ At(r, B)[k] = r[Position(B, k)]
      /\ \A k, l \in 1 .. n : Position(B, k) = Position(B, l) => k = l
      /\ \A i \in B : \E k \in 1 .. n : Position(B, k) = i
  <2> HIDE DEF B
  <2> QED BY ONLY <1>1, r \in Seq(R), AtFacts
<1>4. g = At(r, A) \o At(r, B)
  BY DEF Gather
<1> HIDE DEF A, B, W, m, n, g
<1>5. /\ g \in Seq(R) /\ Len(g) = m + n
      /\ \A a \in 1 .. m + n : g[a] = IF a <= m THEN At(r, A)[a] ELSE At(r, B)[a - m]
  <2> DEFINE x == At(r, A)
             y == At(r, B)
  <2>1. x \in Seq(R) /\ Len(x) = m /\ y \in Seq(R) /\ Len(y) = n /\ g = x \o y
    BY <1>2, <1>3, <1>4
  <2> HIDE DEF x, y
  <2> SUFFICES /\ g \in Seq(R) /\ Len(g) = m + n
               /\ \A a \in 1 .. m + n : g[a] = IF a <= m THEN x[a] ELSE y[a - m]
    BY DEF x, y
  <2> QED BY ONLY <2>1, ConcatProperties
<1>6. DOMAIN g = 1 .. m + n
  BY <1>5, LenProperties
<1>7. \A a \in 1 .. m + n : p[a] \in W /\ g[a] = r[p[a]]
  <2> SUFFICES ASSUME NEW a \in 1 .. m + n PROVE p[a] \in W /\ g[a] = r[p[a]]
    OBVIOUS
  <2>1. CASE a <= m
    BY <1>1, <1>2, <1>5, <2>1
  <2>2. CASE ~(a <= m)
    <3>1. a - m \in 1 .. n
      BY <1>2, <1>3, <2>2
    <3> QED BY <1>1, <1>3, <1>5, <2>2, <3>1
  <2> QED BY <2>1, <2>2
<1>8. \A a, b \in 1 .. m + n : p[a] = p[b] => a = b
  <2> SUFFICES ASSUME NEW a \in 1 .. m + n, NEW b \in 1 .. m + n, p[a] = p[b] PROVE a = b
    OBVIOUS
  <2>1. CASE a <= m /\ b <= m
    BY <1>2, <2>1
  <2>2. CASE ~(a <= m) /\ ~(b <= m)
    <3>1. a - m \in 1 .. n /\ b - m \in 1 .. n
      BY <1>2, <1>3, <2>2
    <3>2. a - m = b - m
      BY <1>3, <2>2, <3>1
    <3> QED BY <1>2, <1>3, <3>2
  <2>3. CASE a <= m /\ ~(b <= m)
    <3>1. b - m \in 1 .. n
      BY <1>2, <1>3, <2>3
    <3> QED BY <1>1, <1>2, <1>3, <2>3, <3>1
  <2>4. CASE ~(a <= m) /\ b <= m
    <3>1. a - m \in 1 .. n
      BY <1>2, <1>3, <2>4
    <3> QED BY <1>1, <1>2, <1>3, <2>4, <3>1
  <2> QED BY <2>1, <2>2, <2>3, <2>4
<1>9. \A i \in W : \E a \in 1 .. m + n : p[a] = i
  <2> SUFFICES ASSUME NEW i \in W PROVE \E a \in 1 .. m + n : p[a] = i
    OBVIOUS
  <2>1. CASE i \in A
    <3>1. PICK k \in 1 .. m : Position(A, k) = i
      BY <1>2, <2>1
    <3>2. k \in 1 .. m + n /\ k <= m
      BY <1>2, <1>3
    <3> QED BY <3>1, <3>2
  <2>2. CASE i \in B
    <3>1. PICK k \in 1 .. n : Position(B, k) = i
      BY <1>3, <2>2
    <3>2. k + m \in 1 .. m + n /\ ~(k + m <= m) /\ (k + m) - m = k
      BY <1>2, <1>3
    <3> QED BY <3>1, <3>2
  <2> QED BY <1>1, <2>1, <2>2
<1>10. p \in Bijection(DOMAIN g, W)
  <2>1. p \in [DOMAIN g -> W]
    BY <1>6, <1>7
  <2> QED BY <1>6, <1>8, <1>9, <2>1 DEF Bijection, Injection, Surjection, IsInjective
<1>11. \A a \in DOMAIN g : g[a] = r[p[a]]
  BY <1>6, <1>7
<1> QED BY <1>5, <1>10, <1>11 DEF g, W, CalledOnce

-----------------------------------------------------------------------------
(* The callbacks of this configuration *)

LEMMA NamesDiffer == NoName # "data" /\ NoName # "serialized"
  BY Zenon DEF NoName

LEMMA LoadedFacts ==
  /\ Loaded \in Seq(CallbackRecords) /\ Len(Loaded) = 6
  /\ \A i \in 1 .. 6 : /\ Loaded[i] \in CallbackRecords /\ Loaded[i].id = i
                       /\ Loaded[i].name \in {"data", "serialized"}
                       /\ Loaded[i].who = "serialize" => i = 2
  /\ Loaded[2].kind = "data" /\ Loaded[2].name = "data" /\ Loaded[2].who = "serialize"
<1> DEFINE c1 == Callback(1, "data", "data", "other")
           c2 == Callback(2, "data", "data", "serialize")
           c3 == Callback(3, "data", "data", "other")
           c4 == Callback(4, "data", "serialized", "consumer")
           c5 == Callback(5, "remove", "serialized", "other")
           c6 == Callback(6, "remove", "data", "other")
<1>1. c1 \in CallbackRecords /\ c1.id = 1 /\ c1.name = "data" /\ c1.who = "other"
  BY DEF Callback, CallbackRecords
<1>2. c2 \in CallbackRecords /\ c2.id = 2 /\ c2.name = "data" /\ c2.kind = "data" /\ c2.who = "serialize"
  BY DEF Callback, CallbackRecords
<1>3. c3 \in CallbackRecords /\ c3.id = 3 /\ c3.name = "data" /\ c3.who = "other"
  BY DEF Callback, CallbackRecords
<1>4. c4 \in CallbackRecords /\ c4.id = 4 /\ c4.name = "serialized" /\ c4.who = "consumer"
  BY DEF Callback, CallbackRecords
<1>5. c5 \in CallbackRecords /\ c5.id = 5 /\ c5.name = "serialized" /\ c5.who = "other"
  BY DEF Callback, CallbackRecords
<1>6. c6 \in CallbackRecords /\ c6.id = 6 /\ c6.name = "data" /\ c6.who = "other"
  BY DEF Callback, CallbackRecords
<1>7. Loaded = <<c1, c2, c3, c4, c5, c6>>
  BY DEF Loaded
<1> HIDE DEF c1, c2, c3, c4, c5, c6
<1>8. /\ Loaded \in Seq(CallbackRecords) /\ Len(Loaded) = 6
      /\ Loaded[1] = c1 /\ Loaded[2] = c2 /\ Loaded[3] = c3
      /\ Loaded[4] = c4 /\ Loaded[5] = c5 /\ Loaded[6] = c6
  BY ONLY <1>1, <1>2, <1>3, <1>4, <1>5, <1>6, <1>7
<1>9. \A i \in 1 .. 6 : i = 1 \/ i = 2 \/ i = 3 \/ i = 4 \/ i = 5 \/ i = 6
  OBVIOUS
<1> QED BY ONLY <1>1, <1>2, <1>3, <1>4, <1>5, <1>6, <1>8, <1>9

LEMMA Appended ==
  ASSUME NEW S, NEW s \in Seq(S), NEW e \in S, NEW t, t = Append(s, e)
  PROVE  /\ t \in Seq(S) /\ Len(t) = Len(s) + 1 /\ Len(s) \in Nat /\ t # <<>>
         /\ DOMAIN t = 1 .. Len(s) + 1
         /\ \A i \in 1 .. Len(s) : t[i] = s[i]
         /\ t[Len(s) + 1] = e
<1>1. /\ t \in Seq(S) /\ Len(t) = Len(s) + 1 /\ Len(s) \in Nat /\ t # <<>>
      /\ \A i \in 1 .. Len(s) : t[i] = s[i]
      /\ t[Len(s) + 1] = e
  BY AppendProperties, LenProperties
<1>2. DOMAIN t = 1 .. Len(s) + 1
  BY <1>1, LenProperties
<1> QED BY <1>1, <1>2

LEMMA AppendedLast ==
  ASSUME NEW S, NEW s \in Seq(S), NEW e \in S, NEW t, t = Append(s, e)
  PROVE  t \in Seq(S) /\ Len(t) = Len(s) + 1 /\ t # <<>> /\ Last(t) = e
<1>1. t \in Seq(S) /\ Len(t) = Len(s) + 1 /\ Len(s) \in Nat /\ t # <<>> /\ t[Len(s) + 1] = e
  BY AppendProperties, LenProperties
<1> QED BY <1>1 DEF Last

LEMMA AppendLoaded ==
  ASSUME NEW c \in CallbackRecords
  PROVE  /\ Append(Loaded, c) \in Seq(CallbackRecords)
         /\ Append(Loaded, c) # Loaded
         /\ DOMAIN Append(Loaded, c) = 1 .. 7
         /\ \A i \in 1 .. 6 : Append(Loaded, c)[i] = Loaded[i]
         /\ Append(Loaded, c)[7] = c
<1> DEFINE r == Append(Loaded, c)
<1>1. Loaded \in Seq(CallbackRecords) /\ Len(Loaded) = 6
  BY LoadedFacts
<1>2. r = Append(Loaded, c)
  OBVIOUS
<1> HIDE DEF r
<1>3. /\ r \in Seq(CallbackRecords) /\ Len(r) = Len(Loaded) + 1
      /\ DOMAIN r = 1 .. Len(Loaded) + 1
      /\ \A i \in 1 .. Len(Loaded) : r[i] = Loaded[i]
      /\ r[Len(Loaded) + 1] = c
  BY ONLY c \in CallbackRecords, <1>1, <1>2, Appended
<1>4. r # Loaded
  <2>1. Len(r) # Len(Loaded)
    BY ONLY <1>1, <1>3
  <2> QED BY ONLY <2>1
<1> QED BY <1>1, <1>3, <1>4 DEF r

LEMMA PositionInInterval ==
  ASSUME NEW n \in Nat, NEW k \in 1 .. n
  PROVE  Position(1 .. n, k) = k
<1>1. \A i \in 1 .. n : {j \in 1 .. n : j <= i} = 1 .. i
  OBVIOUS
<1>2. \A i \in 1 .. n : Cardinality(1 .. i) = i
  BY FS_Interval
<1>3. \A i \in 1 .. n : Cardinality({j \in 1 .. n : j <= i}) = i
  BY <1>1, <1>2
<1> QED BY <1>3 DEF Position

\* The function that on_data_remove returned to serialize removes the callback
\* it registered, and only this one.
LEMMA EraseRemoval ==
  ASSUME NEW k \in Nat, k > 6
  PROVE  Erase(Append(Loaded, Removal(k)), k) = Loaded
<1> DEFINE r == Append(Loaded, Removal(k))
           S == {i \in DOMAIN r : r[i].id # k}
<1>1. /\ Loaded \in Seq(CallbackRecords) /\ Len(Loaded) = 6
      /\ \A i \in 1 .. 6 : Loaded[i].id = i
  BY LoadedFacts
<1>2. Removal(k) \in CallbackRecords /\ Removal(k).id = k
  BY DEF Removal, Callback, CallbackRecords
<1>3. /\ DOMAIN r = 1 .. 7 /\ \A i \in 1 .. 6 : r[i] = Loaded[i]
      /\ r[7] = Removal(k)
  BY <1>2, AppendLoaded
<1> HIDE DEF r
<1>4. S = 1 .. 6
  <2>1. \A i \in 1 .. 7 : i \in 1 .. 6 \/ i = 7
    OBVIOUS
  <2> QED BY <1>1, <1>2, <1>3, <2>1
<1>5. At(r, 1 .. 6) = Loaded
  <2>1. Cardinality(1 .. 6) = 6
    <3>1. \A n \in Nat : Cardinality(1 .. n) = n
      BY FS_Interval
    <3> QED BY <3>1
  <2>2. \A i \in 1 .. 6 : Position(1 .. 6, i) = i
    BY PositionInInterval
  <2>3. At(r, 1 .. 6) = [i \in 1 .. 6 |-> Loaded[i]]
    BY <1>3, <2>1, <2>2 DEF At
  <2>4. Loaded = [i \in 1 .. 6 |-> Loaded[i]]
    BY <1>1
  <2> QED BY <2>3, <2>4
<1> QED BY <1>4, <1>5 DEF Erase, r

\* What is registered: one callback of serialize for each kind at most.
LEMMA RegFacts ==
  ASSUME NEW r,
         \/ r = Loaded
         \/ \E k \in Nat : k > 6 /\ r = Append(Loaded, Removal(k))
  PROVE  /\ r \in Seq(CallbackRecords)
         /\ \A i \in DOMAIN r : r[i].name \in {"data", "serialized"}
         /\ \A i, j \in DOMAIN r : r[i].who = "serialize" /\ r[j].who = "serialize" /\ r[i].kind = r[j].kind => i = j
         /\ \A i \in DOMAIN r : r[i].who = "serialize" /\ r[i].kind = "remove" => r # Loaded /\ r[i].name = "data"
         /\ r # Loaded => \E i \in DOMAIN r : /\ r[i].who = "serialize"
                                              /\ r[i].kind = "remove" /\ r[i].name = "data"
         /\ \E i \in DOMAIN r : r[i].who = "serialize" /\ r[i].kind = "data" /\ r[i].name = "data"
<1>1. /\ Loaded \in Seq(CallbackRecords) /\ Len(Loaded) = 6
      /\ \A i \in 1 .. 6 : /\ Loaded[i].name \in {"data", "serialized"}
                           /\ Loaded[i].who = "serialize" => i = 2
      /\ Loaded[2].kind = "data" /\ Loaded[2].name = "data" /\ Loaded[2].who = "serialize"
  BY LoadedFacts
<1>2. CASE r = Loaded
  <2>1. DOMAIN r = 1 .. 6
    BY <1>1, <1>2
  <2>2. \A i \in DOMAIN r : r[i].name \in {"data", "serialized"} /\ (r[i].who = "serialize" => i = 2 /\ r[i].kind # "remove")
    BY <1>1, <1>2, <2>1
  <2>3. 2 \in DOMAIN r /\ r[2].who = "serialize" /\ r[2].kind = "data" /\ r[2].name = "data"
    BY <1>1, <1>2, <2>1
  <2>4. \A i, j \in DOMAIN r : r[i].who = "serialize" /\ r[j].who = "serialize" /\ r[i].kind = r[j].kind => i = j
    BY <2>2
  <2>5. r \in Seq(CallbackRecords)
    BY <1>1, <1>2
  <2> QED BY <1>2, <2>2, <2>3, <2>4, <2>5
<1>3. CASE \E k \in Nat : k > 6 /\ r = Append(Loaded, Removal(k))
  <2>1. PICK k \in Nat : k > 6 /\ r = Append(Loaded, Removal(k))
    BY <1>3
  <2>2. /\ Removal(k) \in CallbackRecords /\ Removal(k).id = k /\ Removal(k).kind = "remove"
        /\ Removal(k).name = "data" /\ Removal(k).who = "serialize"
    BY DEF Removal, Callback, CallbackRecords
  <2>3. /\ r \in Seq(CallbackRecords)
        /\ DOMAIN r = 1 .. 7 /\ \A i \in 1 .. 6 : r[i] = Loaded[i]
        /\ r[7] = Removal(k) /\ r # Loaded
    BY <2>1, <2>2, AppendLoaded
  <2>4. \A i \in DOMAIN r : i \in 1 .. 6 \/ i = 7
    BY <2>3
  <2>5. \A i \in DOMAIN r : r[i].who = "serialize" => (i = 2 /\ r[i].kind = "data") \/ i = 7
    BY <1>1, <2>3, <2>4
  <2>6. \A i, j \in DOMAIN r : r[i].who = "serialize" /\ r[j].who = "serialize" /\ r[i].kind = r[j].kind => i = j
    BY <2>2, <2>3, <2>5
  <2>7. \A i \in DOMAIN r : r[i].who = "serialize" /\ r[i].kind = "remove" => r # Loaded /\ r[i].name = "data"
    BY <2>2, <2>3, <2>5
  <2>8. \A i \in DOMAIN r : r[i].name \in {"data", "serialized"}
    BY <1>1, <2>2, <2>3, <2>4
  <2>9. \E i \in DOMAIN r : r[i].who = "serialize" /\ r[i].kind = "remove" /\ r[i].name = "data"
    BY <2>2, <2>3
  <2>10. 2 \in DOMAIN r /\ r[2].who = "serialize" /\ r[2].kind = "data" /\ r[2].name = "data"
    BY <1>1, <2>3
  <2> QED BY <2>3, <2>6, <2>7, <2>8, <2>9, <2>10
<1> QED BY <1>2, <1>3

Registers ==
    \/ reg = Loaded
    \/ \E k \in Nat : k > 6 /\ reg = Append(Loaded, Removal(k))

\* A notification begins with callbacks that are registered, and calls the one
\* that serialize registered for a removal if there is one.
LEMMA NotifyFacts ==
  ASSUME Registers, NEW kind \in {"data", "remove"}, NEW name \in {"data", "serialized"}, NEW index \in Nat
  PROVE  /\ FrameOK(Notify(kind, name, index))
         /\ IsCall(Notify(kind, name, index), kind, name)
         /\ Notify(kind, name, index).index = index
         /\ kind = "remove" /\ name = "data" => (HasSerialize(Notify(kind, name, index)) <=> Waiting)
         /\ kind = "data" /\ name = "data" => HasSerialize(Notify(kind, name, index))
<1> DEFINE f == Notify(kind, name, index)
           g == Gather(reg, kind, name)
<1>1. /\ reg \in Seq(CallbackRecords)
      /\ \A i \in DOMAIN reg : reg[i].name \in {"data", "serialized"}
      /\ \A i, j \in DOMAIN reg : reg[i].who = "serialize" /\ reg[j].who = "serialize" /\ reg[i].kind = reg[j].kind => i = j
      /\ \A i \in DOMAIN reg : reg[i].who = "serialize" /\ reg[i].kind = "remove" => reg # Loaded /\ reg[i].name = "data"
      /\ reg # Loaded => \E i \in DOMAIN reg : /\ reg[i].who = "serialize"
                                               /\ reg[i].kind = "remove" /\ reg[i].name = "data"
      /\ \E i \in DOMAIN reg : reg[i].who = "serialize" /\ reg[i].kind = "data" /\ reg[i].name = "data"
  BY RegFacts DEF Registers
<1>2. f.kind = kind /\ f.name = name /\ f.todo = g /\ f.failed = FALSE /\ f.index = index
  BY DEF Notify
<1>3. g \in Seq(CallbackRecords) /\ CalledOnce(reg, kind, name)
  <2>1. reg \in Seq(CallbackRecords)
    BY <1>1
  <2> QED BY ONLY <2>1, GatherCallsEachOnce
<1>4. PICK p \in Bijection(DOMAIN g, Where(reg, kind, {name, NoName})) :
             \A a \in DOMAIN g : g[a] = reg[p[a]]
  BY <1>3 DEF CalledOnce
<1> HIDE DEF f, g
<1>5. Where(reg, kind, {name, NoName}) = {i \in DOMAIN reg : reg[i].kind = kind /\ reg[i].name = name}
  BY <1>1, NamesDiffer DEF Where
<1>6. /\ \A a \in DOMAIN g : /\ p[a] \in DOMAIN reg /\ reg[p[a]].kind = kind /\ reg[p[a]].name = name
      /\ \A a, b \in DOMAIN g : p[a] = p[b] => a = b
      /\ \A i \in DOMAIN reg : reg[i].kind = kind /\ reg[i].name = name => \E a \in DOMAIN g : p[a] = i
  BY <1>4, <1>5 DEF Bijection, Injection, Surjection, IsInjective
<1>7. TodoOK(f)
  <2>1. \A i \in DOMAIN g : g[i].kind = kind /\ g[i].name = name /\ \E j \in DOMAIN reg : reg[j] = g[i]
    BY <1>4, <1>6
  <2>2. \A i, j \in DOMAIN g : g[i].who = "serialize" /\ g[j].who = "serialize" => i = j
    BY <1>1, <1>4, <1>6
  <2> QED BY <1>2, <1>3, <2>1, <2>2 DEF TodoOK
<1>8. ASSUME kind = "remove", name = "data" PROVE HasSerialize(f) <=> Waiting
  BY <1>1, <1>2, <1>4, <1>6, <1>8 DEF HasSerialize, Waiting
<1>9. FrameOK(f) /\ IsCall(f, kind, name) /\ f.index = index
  <2>1. f \in Calls
    BY <1>3 DEF f, g, Notify, Calls
  <2> QED BY <1>2, <1>7, <2>1 DEF FrameOK, IsCall
<1>10. ASSUME kind = "data", name = "data" PROVE HasSerialize(f)
  BY <1>1, <1>2, <1>4, <1>6, <1>10 DEF HasSerialize
<1> QED BY <1>8, <1>9, <1>10 DEF f

-----------------------------------------------------------------------------
(* The calls in progress *)

Advance(f) == [f EXCEPT !.todo = Tail(@)]

Fails(f) == [f EXCEPT !.failed = TRUE]

LEMMA ReplaceOne ==
  ASSUME NEW c, NEW f, NEW x, c = <<f>>
  PROVE  [c EXCEPT ![1] = x] = <<x>>
  OBVIOUS

LEMMA ReplaceTwo ==
  ASSUME NEW c, NEW f, NEW g, NEW x, c = <<f, g>>
  PROVE  [c EXCEPT ![2] = x] = <<f, x>>
<1> DEFINE d == [c EXCEPT ![2] = x]
           e == <<f, x>>
<1>1. d \in Seq({f, g, x}) /\ Len(d) = 2 /\ d[1] = f /\ d[2] = x
  OBVIOUS
<1>2. e \in Seq({f, g, x}) /\ Len(e) = 2 /\ e[1] = f /\ e[2] = x
  OBVIOUS
<1> HIDE DEF d, e
<1>3. d = e
  BY <1>1, <1>2, SeqEqual
<1> QED BY <1>3 DEF d, e

LEMMA FrontOfTwo ==
  ASSUME NEW f, NEW g
  PROVE  Front(<<f, g>>) = <<f>>
<1> DEFINE s == <<f, g>>
           d == SubSeq(s, 1, 1)
           e == <<f>>
<1>1. s \in Seq({f, g}) /\ Len(s) = 2 /\ s[1] = f
  OBVIOUS
<1>2. e \in Seq({f, g}) /\ Len(e) = 1 /\ e[1] = f
  OBVIOUS
<1>3. Front(s) = d
  BY <1>1 DEF Front
<1> HIDE DEF s, e
<1>4. d \in Seq({f, g}) /\ Len(d) = 1 /\ d[1] = f
  BY <1>1, SubSeqProperties
<1> HIDE DEF d
<1>5. d = e
  BY <1>2, <1>4, SeqEqual
<1> QED BY <1>3, <1>5 DEF s, e

LEMMA AppendToOne ==
  ASSUME NEW c, NEW f, NEW g, c = <<f>>
  PROVE  Append(c, g) = <<f, g>>
<1> DEFINE d == Append(c, g)
           e == <<f, g>>
<1>1. c \in Seq({f, g}) /\ Len(c) = 1 /\ c[1] = f
  OBVIOUS
<1>2. e \in Seq({f, g}) /\ Len(e) = 2 /\ e[1] = f /\ e[2] = g
  OBVIOUS
<1> HIDE DEF e
<1>3. d \in Seq({f, g}) /\ Len(d) = 2 /\ d[1] = f /\ d[2] = g
  <2>1. d = Append(c, g) /\ g \in {f, g}
    OBVIOUS
  <2> HIDE DEF d
  <2>2. /\ d \in Seq({f, g}) /\ Len(d) = Len(c) + 1
        /\ \A i \in 1 .. Len(c) : d[i] = c[i]
        /\ d[Len(c) + 1] = g
    BY ONLY <1>1, <2>1, Appended
  <2> QED BY ONLY <1>1, <2>2
<1> HIDE DEF d
<1>4. d = e
  BY <1>2, <1>3, SeqEqual
<1> QED BY <1>4 DEF d, e

LEMMA OneCall ==
  ASSUME NEW f, calls = <<f>>
  PROVE  /\ calls # <<>> /\ Len(calls) = 1 /\ Inner = f
         /\ Past = <<Advance(f)>> /\ PastFailed = <<Fails(Advance(f))>>
         /\ Front(calls) = <<>> /\ Propagated = <<>>
<1>1. calls # <<>> /\ Len(calls) = 1 /\ Inner = f
  BY DEF Inner
<1>2. Past = <<Advance(f)>>
  <2>1. Past = [calls EXCEPT ![1] = Advance(f)]
    BY <1>1 DEF Past, Advance
  <2> QED BY <2>1, ReplaceOne
<1>3. PastFailed = <<Fails(Advance(f))>>
  <2> DEFINE a == Advance(f)
  <2>1. Past = <<a>>
    BY <1>2
  <2> HIDE DEF a
  <2>2. PastFailed = [Past EXCEPT ![1] = Fails(a)]
    BY <1>1, <2>1 DEF PastFailed, Fails
  <2>3. PastFailed = <<Fails(a)>>
    BY <2>1, <2>2, ReplaceOne
  <2> QED BY <2>3 DEF a
<1>4. Front(calls) = <<>> /\ Propagated = <<>>
  BY <1>1 DEF Front, Propagated
<1> QED BY <1>1, <1>2, <1>3, <1>4

LEMMA TwoCalls ==
  ASSUME NEW f, NEW g, calls = <<f, g>>
  PROVE  /\ calls # <<>> /\ Len(calls) = 2 /\ Inner = g
         /\ Past = <<f, Advance(g)>> /\ PastFailed = <<f, Fails(Advance(g))>>
         /\ Front(calls) = <<f>> /\ Propagated = <<Fails(f)>>
<1>1. calls # <<>> /\ Len(calls) = 2 /\ Inner = g
  BY DEF Inner
<1>2. Past = <<f, Advance(g)>>
  <2>1. Past = [calls EXCEPT ![2] = Advance(g)]
    BY <1>1 DEF Past, Advance
  <2> QED BY <2>1, ReplaceTwo
<1>3. PastFailed = <<f, Fails(Advance(g))>>
  <2> DEFINE a == Advance(g)
  <2>1. Past = <<f, a>>
    BY <1>2
  <2> HIDE DEF a
  <2>2. PastFailed = [Past EXCEPT ![2] = Fails(a)]
    BY <1>1, <2>1 DEF PastFailed, Fails
  <2>3. PastFailed = <<f, Fails(a)>>
    BY <2>1, <2>2, ReplaceTwo
  <2> QED BY <2>3 DEF a
<1>4. Front(calls) = <<f>>
  BY FrontOfTwo
<1>5. Propagated = <<Fails(f)>>
  <2>1. Propagated = [Front(calls) EXCEPT ![1] = Fails(f)]
    <3> DEFINE c == Front(calls)
    <3>1. c[1] = f /\ Len(calls) # 1 /\ Len(calls) - 1 = 1
      BY <1>1, <1>4
    <3> HIDE DEF c
    <3>2. [c EXCEPT ![Len(calls) - 1].failed = TRUE] = [c EXCEPT ![1] = Fails(f)]
      BY <3>1 DEF Fails
    <3> QED BY <3>1, <3>2 DEF Propagated, c
  <2> QED BY <1>4, <2>1, ReplaceOne
<1> QED BY <1>1, <1>2, <1>3, <1>4, <1>5

\* Going past the first callback of a call.
LEMMA AdvanceFacts ==
  ASSUME NEW f, FrameOK(f), f.todo # <<>>
  PROVE  /\ FrameOK(Advance(f))
         /\ Advance(f).kind = f.kind /\ Advance(f).name = f.name
         /\ Advance(f).failed = f.failed /\ Advance(f).index = f.index
         /\ HasSerialize(f) <=> (Head(f.todo).who = "serialize" \/ HasSerialize(Advance(f)))
         /\ Head(f.todo).who = "serialize" => ~HasSerialize(Advance(f))
<1> DEFINE t == f.todo
           a == Advance(f)
<1>1. /\ f \in Calls
      /\ t \in Seq(CallbackRecords) /\ t # <<>>
      /\ \A i \in DOMAIN t :
          /\ t[i].kind = f.kind /\ t[i].name = f.name
          /\ \E j \in DOMAIN reg : reg[j] = t[i]
      /\ \A i, j \in DOMAIN t : t[i].who = "serialize" /\ t[j].who = "serialize" => i = j
  BY DEF FrameOK, TodoOK, Calls
<1>2. /\ a \in Calls
      /\ a.kind = f.kind /\ a.name = f.name /\ a.todo = Tail(t)
      /\ a.failed = f.failed /\ a.index = f.index
  <2>1. Tail(t) \in Seq(CallbackRecords)
    BY <1>1
  <2> QED BY <1>1, <2>1 DEF Advance, Calls
<1> HIDE DEF t, a
<1> DEFINE u == Tail(t)
<1>3. /\ u \in Seq(CallbackRecords) /\ Len(t) \in Nat /\ Len(t) >= 1 /\ Len(u) = Len(t) - 1
      /\ \A i \in 1 .. Len(u) : u[i] = t[i + 1]
      /\ Head(t) = t[1]
  BY <1>1
<1>4. DOMAIN t = 1 .. Len(t) /\ DOMAIN u = 1 .. Len(u)
  BY <1>1, <1>3, LenProperties
<1> HIDE DEF u
<1>5. \A i \in DOMAIN u : i + 1 \in DOMAIN t /\ u[i] = t[i + 1] /\ i + 1 # 1 /\ i \in Nat
  BY <1>3, <1>4
<1>6. 1 \in DOMAIN t /\ \A i \in DOMAIN t : i # 1 => i - 1 \in DOMAIN u /\ u[i - 1] = t[i]
  BY <1>3, <1>4
<1>7. a.todo = u
  BY <1>2 DEF u
<1>8. \A i \in DOMAIN u :
          /\ u[i].kind = f.kind /\ u[i].name = f.name
          /\ \E j \in DOMAIN reg : reg[j] = u[i]
  BY <1>1, <1>5
<1>9. \A i, j \in DOMAIN u : u[i].who = "serialize" /\ u[j].who = "serialize" => i = j
  <2> SUFFICES ASSUME NEW i \in DOMAIN u, NEW j \in DOMAIN u, u[i].who = "serialize", u[j].who = "serialize"
               PROVE  i = j
    OBVIOUS
  <2>1. i + 1 = j + 1
    BY <1>1, <1>5
  <2> QED BY <1>5, <2>1
<1>10. FrameOK(a)
  BY <1>2, <1>7, <1>8, <1>9 DEF FrameOK, TodoOK
<1>11. HasSerialize(f) <=> (Head(t).who = "serialize" \/ HasSerialize(a))
  <2>1. (\E i \in DOMAIN t : t[i].who = "serialize") <=> (t[1].who = "serialize" \/ \E i \in DOMAIN u : u[i].who = "serialize")
    BY <1>5, <1>6
  <2> QED BY <1>3, <1>7, <2>1 DEF HasSerialize, t
<1>12. Head(t).who = "serialize" => ~HasSerialize(a)
  BY <1>1, <1>3, <1>5, <1>6, <1>7 DEF HasSerialize
<1> QED BY <1>2, <1>10, <1>11, <1>12 DEF t, a

LEMMA FailsFacts ==
  ASSUME NEW f, FrameOK(f)
  PROVE  /\ FrameOK(Fails(f))
         /\ Fails(f).kind = f.kind /\ Fails(f).name = f.name
         /\ Fails(f).failed = TRUE /\ Fails(f).index = f.index
         /\ HasSerialize(f) <=> HasSerialize(Fails(f))
<1>1. f \in Calls
  BY DEF FrameOK
<1>2. /\ Fails(f) \in Calls
      /\ Fails(f).kind = f.kind /\ Fails(f).name = f.name /\ Fails(f).todo = f.todo
      /\ Fails(f).failed = TRUE /\ Fails(f).index = f.index
  BY <1>1 DEF Fails, Calls
<1> QED BY <1>2 DEF FrameOK, TodoOK, HasSerialize

\* What is registered stays so: then a call in progress stays correct.
LEMMA FrameStays ==
  ASSUME NEW f, FrameOK(f), \A j \in DOMAIN reg : \E k \in DOMAIN reg' : reg'[k] = reg[j]
  PROVE  FrameOK(f)'
  BY DEF FrameOK, TodoOK

-----------------------------------------------------------------------------
(* Facts used by every action *)

LEMMA FrontFacts ==
  ASSUME NEW S, NEW s \in Seq(S), s # <<>>
  PROVE  /\ Front(s) \in Seq(S) /\ Len(Front(s)) = Len(s) - 1
         /\ Len(s) \in Nat /\ Len(s) >= 1
         /\ Len(s) = 1 => Front(s) = <<>>
<1>1. Len(s) \in Nat /\ Len(s) >= 1 /\ \A i \in 1 .. Len(s) : s[i] \in S
  BY EmptySeq, LenProperties, ElementOfSeq
<1>2. /\ SubSeq(s, 1, Len(s) - 1) \in Seq(S)
      /\ Len(SubSeq(s, 1, Len(s) - 1)) = Len(s) - 1
  <2> DEFINE n == Len(s) - 1
  <2>1. n \in Nat /\ \A i \in 1 .. n : s[i] \in S
    BY <1>1
  <2> HIDE DEF n
  <2>2. SubSeq(s, 1, n) \in Seq(S) /\ Len(SubSeq(s, 1, n)) = IF 1 <= n THEN n - 1 + 1 ELSE 0
    BY ONLY <2>1, SubSeqProperties
  <2>3. Len(SubSeq(s, 1, n)) = n
    BY ONLY <2>1, <2>2
  <2> QED BY <2>2, <2>3 DEF n
<1>3. Front(s) \in Seq(S) /\ Len(Front(s)) = Len(s) - 1
  BY <1>2 DEF Front
<1>4. Len(s) = 1 => Front(s) = <<>>
  BY <1>3, EmptySeq
<1> QED BY <1>1, <1>3, <1>4

LEMMA LastFacts ==
  ASSUME NEW S, NEW s \in Seq(S), s # <<>>
  PROVE  /\ Last(s) \in S /\ Len(s) \in Nat /\ Len(s) >= 1 /\ Last(s) = s[Len(s)]
         /\ Len(s) <= 1 => Len(s) = 1 /\ s[1] \in S /\ Last(s) = s[1]
<1> DEFINE n == Len(s)
<1>1. n \in Nat /\ n # 0 /\ Last(s) = s[n] /\ \A i \in 1 .. n : s[i] \in S
  BY EmptySeq, LenProperties, ElementOfSeq DEF Last
<1> HIDE DEF n
<1>2. n >= 1 /\ n \in 1 .. n /\ (n <= 1 => n = 1)
  BY ONLY <1>1
<1> QED BY <1>1, <1>2 DEF n

LEMMA InvFacts ==
  ASSUME SerializeInv, ~again
  PROVE  /\ ~dangling /\ TypeOK /\ RegOK /\ DataOK /\ SyncOK /\ CallsOK /\ Registers
         /\ Len(data) \in Nat /\ Len(serialized) \in Nat /\ Len(m_serialized_remove_callback) \in Nat
         /\ data # <<>> => Len(data) = 1 /\ Owner \in Shares
         /\ Waiting => /\ data # <<>> /\ m_serialized_remove_callback # <<>>
                       /\ Last(m_serialized_remove_callback) \in Entries
                       /\ Last(m_serialized_remove_callback).callback > 6
                       /\ reg = Append(Loaded, Removal(Last(m_serialized_remove_callback).callback))
<1> DEFINE m == m_serialized_remove_callback
<1>1. ~dangling /\ TypeOK /\ RegOK /\ DataOK /\ SyncOK /\ CallsOK
  BY DEF SerializeInv
<1>2. data \in Seq(Shares) /\ serialized \in Seq(Shares) /\ m \in Seq(Entries) /\ Len(data) <= 1
  BY <1>1 DEF TypeOK, DataOK
<1>3. Len(data) \in Nat /\ Len(serialized) \in Nat /\ Len(m) \in Nat
  BY <1>2, LenProperties
<1>4. data # <<>> => Len(data) = 1 /\ Owner \in Shares
  <2>1. data # <<>> => Len(data) = 1 /\ Last(data) \in Shares
    BY ONLY <1>2, LastFacts
  <2> QED BY <2>1 DEF Owner
<1>5. ASSUME Waiting
      PROVE  /\ data # <<>> /\ m # <<>> /\ Last(m) \in Entries /\ Last(m).callback > 6
             /\ reg = Append(Loaded, Removal(Last(m).callback)) /\ Last(m).callback \in Nat
  <2>1. /\ data # <<>> /\ m # <<>> /\ Last(m).callback > Len(Loaded)
        /\ reg = Append(Loaded, Removal(Last(m).callback))
    BY <1>1, <1>5 DEF RegOK
  <2>3. Last(m) \in Entries
    BY ONLY <1>2, <2>1, LastFacts
  <2>4. Last(m).callback \in Nat
    BY <2>3 DEF Entries
  <2>5. Last(m).callback > 6
    BY <2>1, LoadedFacts
  <2> QED BY <2>1, <2>3, <2>4, <2>5
<1>6. Registers
  BY <1>5 DEF Registers, Waiting
<1> QED BY <1>1, <1>3, <1>4, <1>5, <1>6

\* The calls in progress, by their number.
LEMMA CallsFacts ==
  ASSUME CallsOK
  PROVE  /\ calls = <<>> => Quiet
         /\ calls # <<>> =>
              \/ \E f : /\ calls = <<f>> /\ FrameOK(f)
                        /\ Sharing(f) \/ Reclaiming(f) \/ ReleasingAlone(f)
              \/ \E f, g : /\ calls = <<f, g>> /\ FrameOK(f) /\ FrameOK(g)
                           /\ SharingSerialized(f, g) \/ ReleasingSerialized(f, g)
<1>1. \A f : <<f>> # <<>>
  OBVIOUS
<1>2. \A f, g : <<f, g>> # <<>>
  OBVIOUS
<1> QED BY <1>1, <1>2 DEF CallsOK

\* The invariant says nothing of the values of the other variables.
LEMMA Unchanged ==
  ASSUME NEW f, reg' = reg
  PROVE  /\ FrameOK(f) => FrameOK(f)'
         /\ Waiting' <=> Waiting
         /\ HasSerialize(f)' <=> HasSerialize(f)
  BY DEF FrameOK, TodoOK, Waiting, HasSerialize

\* The innermost call goes past its first callback, which may have thrown.
LEMMA PassFacts ==
  ASSUME NEW f, FrameOK(f), f.todo # <<>>, NEW h \in {Advance(f), Fails(Advance(f))}
  PROVE  /\ FrameOK(h) /\ h.kind = f.kind /\ h.name = f.name /\ h.index = f.index
         /\ f.failed => h.failed
         /\ h = Fails(Advance(f)) => h.failed
         /\ Head(f.todo).who # "serialize" => (HasSerialize(h) <=> HasSerialize(f))
         /\ Head(f.todo).who = "serialize" => ~HasSerialize(h) /\ HasSerialize(f)
<1>1. /\ FrameOK(Advance(f))
      /\ Advance(f).kind = f.kind /\ Advance(f).name = f.name
      /\ Advance(f).failed = f.failed /\ Advance(f).index = f.index
      /\ HasSerialize(f) <=> (Head(f.todo).who = "serialize" \/ HasSerialize(Advance(f)))
      /\ Head(f.todo).who = "serialize" => ~HasSerialize(Advance(f))
  BY AdvanceFacts
<1>2. CASE h = Advance(f) /\ h # Fails(Advance(f))
  BY <1>1, <1>2
<1>3. CASE h = Fails(Advance(f))
  <2>1. /\ FrameOK(h)
        /\ h.kind = Advance(f).kind /\ h.name = Advance(f).name
        /\ h.failed = TRUE /\ h.index = Advance(f).index
        /\ HasSerialize(Advance(f)) <=> HasSerialize(h)
    BY <1>1, <1>3, FailsFacts
  <2> QED BY <1>1, <2>1
<1> QED BY <1>2, <1>3

\* What a write and a lock do to the last share.
Written(s, v) == [s EXCEPT ![Len(s)].val = v]

Locked(s, l) == [s EXCEPT ![Len(s)].lock = l]

LEMMA WrittenFacts ==
  ASSUME NEW s \in Seq(Shares), s # <<>>, NEW v \in {"user", "plugin", "unset"},
         NEW t, t = Written(s, v)
  PROVE  /\ t \in Seq(Shares) /\ Len(t) = Len(s) /\ t # <<>>
         /\ Last(t).right = Last(s).right /\ Last(t).val = v
<1>1. Last(s) \in Shares /\ Len(s) \in Nat /\ Len(s) >= 1 /\ Last(s) = s[Len(s)]
  BY LastFacts
<1> DEFINE e == [s[Len(s)] EXCEPT !.val = v]
<1>2. e \in Shares /\ e.right = Last(s).right /\ e.val = v
  BY <1>1 DEF Shares
<1>3. t = [s EXCEPT ![Len(s)] = e]
  BY DEF Written
<1> HIDE DEF e
<1>4. t \in Seq(Shares) /\ Len(t) = Len(s) /\ t[Len(s)] = e
  BY ONLY s \in Seq(Shares), <1>1, <1>2, <1>3, ExceptSeq
<1>5. t # <<>>
  BY <1>1, <1>4, EmptySeq
<1> QED BY <1>2, <1>4, <1>5 DEF Last

LEMMA LockedFacts ==
  ASSUME NEW s \in Seq(Shares), s # <<>>, NEW t \in Locking(s)
  PROVE  /\ t \in Seq(Shares) /\ Len(t) = Len(s) /\ t # <<>>
         /\ Last(t).right = Last(s).right /\ Last(t).val = Last(s).val
<1>1. Last(s) \in Shares /\ Len(s) \in Nat /\ Len(s) >= 1 /\ Last(s) = s[Len(s)]
  BY LastFacts
<1>2. PICK l \in Locks(Last(s).right) : t = Locked(s, l)
  BY DEF Locking, Locked
<1> DEFINE e == [s[Len(s)] EXCEPT !.lock = l]
<1>3. e \in Shares /\ e.right = Last(s).right /\ e.val = Last(s).val
  BY <1>1, <1>2 DEF Shares, Locks
<1>4. t = [s EXCEPT ![Len(s)] = e]
  BY <1>2 DEF Locked
<1> HIDE DEF e
<1>5. t \in Seq(Shares) /\ Len(t) = Len(s) /\ t[Len(s)] = e
  BY ONLY s \in Seq(Shares), <1>1, <1>3, <1>4, ExceptSeq
<1>6. t # <<>>
  BY <1>1, <1>5, EmptySeq
<1> QED BY <1>3, <1>5, <1>6 DEF Last

\* A step that changes nothing of `data' but its locks.
OnlyLocks ==
    /\ data' \in Seq(Shares) /\ Len(data') = Len(data)
    /\ data' = <<>> <=> data = <<>>
    /\ data # <<>> => Owner'.right = Owner.right /\ Owner'.val = Owner.val

LEMMA SameDataLocks ==
  ASSUME TypeOK, data' = data
  PROVE  OnlyLocks
  BY DEF TypeOK, OnlyLocks, Owner

LEMMA LockingLocks ==
  ASSUME TypeOK, data # <<>>, data' \in Locking(data)
  PROVE  OnlyLocks
<1>1. data \in Seq(Shares)
  BY DEF TypeOK
<1>2. PICK d \in Locking(data) : data' = d
  OBVIOUS
<1>3. /\ d \in Seq(Shares) /\ Len(d) = Len(data) /\ d # <<>>
      /\ Last(d).right = Last(data).right /\ Last(d).val = Last(data).val
  BY <1>1, LockedFacts
<1> QED BY <1>2, <1>3 DEF OnlyLocks, Owner

\* Such a step of no call leaves the values as they are.
LEMMA ValuesKept ==
  ASSUME OnlyLocks, UNCHANGED <<skipped, written>>
  PROVE  /\ Settled => Settled'
         /\ serialized' = serialized /\ InSync => InSync'
<1>1. data # <<>> => Delivered' = Delivered
  BY DEF OnlyLocks, Delivered, Owner
<1>2. Settled => Settled'
  BY <1>1 DEF OnlyLocks, Settled
<1>3. serialized' = serialized /\ InSync => InSync'
  BY DEF OnlyLocks, InSync
<1> QED BY <1>2, <1>3

LEMMA OneKept ==
  ASSUME NEW f, NEW h, OnlyLocks,
         UNCHANGED <<reg, serialized, m_serialized_remove_callback, skipped, written, broken>>,
         h.kind = f.kind, h.name = f.name, h.index = f.index, f.failed => h.failed,
         HasSerialize(h) <=> HasSerialize(f)
  PROVE  /\ Sharing(f) => Sharing(h)'
         /\ Reclaiming(f) => Reclaiming(h)'
         /\ ReleasingAlone(f) => ReleasingAlone(h)'
<1>1. (Waiting' <=> Waiting) /\ (HasSerialize(h)' <=> HasSerialize(h))
  BY DEF Waiting, HasSerialize
<1>2. (Counts(0)' <=> Counts(0)) /\ (Counts(1)' <=> Counts(1))
  BY DEF Counts
<1>3. Settled => Settled'
  BY ValuesKept
<1>4. (data' = <<>> <=> data = <<>>) /\ (data # <<>> => Owner'.val = Owner.val)
  BY DEF OnlyLocks
<1>5. Sharing(f) => Sharing(h)'
  BY <1>1, <1>2, <1>3, <1>4 DEF Sharing, IsCall
<1>6. Reclaiming(f) => Reclaiming(h)'
  BY <1>1, <1>2, <1>3, <1>4 DEF Reclaiming, IsCall
<1>7. ReleasingAlone(f) => ReleasingAlone(h)'
  BY DEF ReleasingAlone, IsCall
<1> QED BY <1>5, <1>6, <1>7

LEMMA TwoKept ==
  ASSUME NEW f, NEW g, NEW h, OnlyLocks,
         UNCHANGED <<reg, serialized, m_serialized_remove_callback, skipped, written, broken>>,
         h.kind = g.kind, h.name = g.name, h.index = g.index
  PROVE  /\ SharingSerialized(f, g) => SharingSerialized(f, h)'
         /\ ReleasingSerialized(f, g) => ReleasingSerialized(f, h)'
<1>1. (Waiting' <=> Waiting) /\ (HasSerialize(f)' <=> HasSerialize(f))
  BY DEF Waiting, HasSerialize
<1>2. Counts(1)' <=> Counts(1)
  BY DEF Counts
<1>3. (Settled => Settled') /\ (InSync => InSync')
  BY ValuesKept
<1>4. data' = <<>> <=> data = <<>>
  BY DEF OnlyLocks
<1>5. SharingSerialized(f, g) => SharingSerialized(f, h)'
  BY <1>1, <1>3, <1>4 DEF SharingSerialized, IsCall
<1>6. ReleasingSerialized(f, g) => ReleasingSerialized(f, h)'
  BY <1>1, <1>2, <1>3, <1>4 DEF ReleasingSerialized, IsCall
<1> QED BY <1>5, <1>6

\* The parts of the invariant that are not about calls.
LEMMA RestKept ==
  ASSUME SerializeInv, ~again, OnlyLocks,
         UNCHANGED <<reg, last, serialized, m_serialized_remove_callback, skipped, written, broken, dangling>>
  PROVE  ~dangling' /\ TypeOK' /\ RegOK' /\ DataOK' /\ SyncOK'
<1>1. ~dangling /\ TypeOK /\ RegOK /\ DataOK /\ SyncOK
  BY InvFacts
<1>2. InSync => InSync'
  BY ValuesKept
<1>3. SyncOK'
  BY <1>1, <1>2 DEF SyncOK, Waiting
<1>4. TypeOK'
  BY <1>1 DEF TypeOK, OnlyLocks
<1>5. RegOK' /\ DataOK'
  BY <1>1 DEF RegOK, DataOK, Waiting, OnlyLocks
<1> QED BY <1>1, <1>3, <1>4, <1>5

LEMMA CallStep ==
  ASSUME NEW f, calls' = <<f>>, FrameOK(f)', Sharing(f)' \/ Reclaiming(f)' \/ ReleasingAlone(f)'
  PROVE  CallsOK'
  BY DEF CallsOK

LEMMA CallsStep ==
  ASSUME NEW f, NEW g, calls' = <<f, g>>, FrameOK(f)', FrameOK(g)',
         SharingSerialized(f, g)' \/ ReleasingSerialized(f, g)'
  PROVE  CallsOK'
  BY DEF CallsOK

-----------------------------------------------------------------------------
(* Each action preserves the invariant *)

\* A step that leaves the calls alone, and what they are about but for locks.
LEMMA SameCalls ==
  ASSUME CallsOK, OnlyLocks,
         UNCHANGED <<reg, serialized, m_serialized_remove_callback, calls, skipped, written, broken>>
  PROVE  CallsOK'
<1>1. CASE calls = <<>>
  <2>1. Quiet
    BY <1>1, CallsFacts
  <2>2. Settled => Settled'
    BY ValuesKept
  <2>3. /\ data' = <<>> <=> data = <<>>
        /\ Waiting' <=> Waiting
        /\ Counts(0)' <=> Counts(0)
        /\ Counts(1)' <=> Counts(1)
    BY DEF OnlyLocks, Waiting, Counts
  <2>4. Quiet'
    BY <2>1, <2>2, <2>3 DEF Quiet
  <2> QED BY <1>1, <2>4 DEF CallsOK
<1>2. CASE \E f : /\ calls = <<f>> /\ FrameOK(f)
                  /\ Sharing(f) \/ Reclaiming(f) \/ ReleasingAlone(f)
  <2>1. PICK f : /\ calls = <<f>> /\ FrameOK(f)
                 /\ Sharing(f) \/ Reclaiming(f) \/ ReleasingAlone(f)
    BY <1>2
  <2>2. Sharing(f)' \/ Reclaiming(f)' \/ ReleasingAlone(f)'
    BY <2>1, OneKept
  <2>3. FrameOK(f)' /\ calls' = <<f>>
    BY <2>1, Unchanged
  <2> QED BY <2>2, <2>3, CallStep
<1>3. CASE \E f, g : /\ calls = <<f, g>> /\ FrameOK(f) /\ FrameOK(g)
                     /\ SharingSerialized(f, g) \/ ReleasingSerialized(f, g)
  <2>1. PICK f, g : /\ calls = <<f, g>> /\ FrameOK(f) /\ FrameOK(g)
                    /\ SharingSerialized(f, g) \/ ReleasingSerialized(f, g)
    BY <1>3
  <2>2. SharingSerialized(f, g)' \/ ReleasingSerialized(f, g)'
    BY <2>1, TwoKept
  <2>3. FrameOK(f)' /\ FrameOK(g)' /\ calls' = <<f, g>>
    BY <2>1, Unchanged
  <2> QED BY <2>2, <2>3, CallsStep
<1> QED BY <1>1, <1>2, <1>3, CallsFacts

\* The consumer writes in the serialised data, or takes and drops a lock on it.
LEMMA WriteFacts ==
  ASSUME TypeOK, serialized # <<>>, Write
  PROVE  /\ serialized' \in Seq(Shares) /\ Len(serialized') = Len(serialized) /\ serialized' # <<>>
         /\ Last(serialized').right = Last(serialized).right
         /\ written' \in BOOLEAN
         /\ UNCHANGED <<data, skipped>> /\ InSync => InSync'
<1>1. serialized \in Seq(Shares) /\ written \in BOOLEAN
  BY DEF TypeOK
<1>2. CASE serialized' \in Locking(serialized) /\ UNCHANGED written
  <2>1. PICK s \in Locking(serialized) : serialized' = s
    BY <1>2
  <2>2. /\ s \in Seq(Shares) /\ Len(s) = Len(serialized) /\ s # <<>>
        /\ Last(s).right = Last(serialized).right /\ Last(s).val = Last(serialized).val
    BY <1>1, LockedFacts
  <2>3. UNCHANGED <<data, skipped>> /\ InSync => InSync'
    BY <1>2, <2>1, <2>2 DEF InSync, Owner
  <2> QED BY <1>1, <1>2, <2>1, <2>2, <2>3
<1>3. CASE /\ CanWrite(Last(serialized).right)
           /\ serialized' \in Locking([serialized EXCEPT ![Len(serialized)].val = "plugin"])
           /\ written' = TRUE
  <2>1. PICK w : w = Written(serialized, "plugin")
    OBVIOUS
  <2>2. /\ w \in Seq(Shares) /\ Len(w) = Len(serialized) /\ w # <<>>
        /\ Last(w).right = Last(serialized).right /\ Last(w).val = "plugin"
    BY <1>1, <2>1, WrittenFacts
  <2>3. PICK s \in Locking(w) : serialized' = s
    BY <1>3, <2>1 DEF Written
  <2>4. /\ s \in Seq(Shares) /\ Len(s) = Len(w) /\ s # <<>>
        /\ Last(s).right = Last(w).right /\ Last(s).val = Last(w).val
    BY <2>2, LockedFacts
  <2>5. UNCHANGED <<data, skipped>> /\ InSync => InSync'
    BY <1>3, <2>2, <2>3, <2>4 DEF InSync, Owner
  <2> QED BY <1>3, <2>2, <2>3, <2>4, <2>5
<1> QED BY <1>2, <1>3 DEF Write

LEMMA EventStep ==
  ASSUME SerializeInv, Event, ~again'
  PROVE  ~dangling' /\ TypeOK' /\ RegOK' /\ DataOK' /\ SyncOK' /\ CallsOK'
<1>1. /\ UNCHANGED <<reg, last, m_serialized_remove_callback, calls, skipped, again, broken, dangling>>
      /\ ~again /\ calls = <<>>
  BY DEF Event
<1>2. ~dangling /\ TypeOK /\ RegOK /\ DataOK /\ SyncOK /\ CallsOK /\ Len(serialized) \in Nat
  BY <1>1, InvFacts
<1>3. CASE data # <<>> /\ data' \in Locking(data) /\ UNCHANGED <<serialized, written>>
  <2>1. OnlyLocks
    BY <1>2, <1>3, LockingLocks
  <2>2. ~dangling' /\ TypeOK' /\ RegOK' /\ DataOK' /\ SyncOK'
    BY <1>1, <1>3, <2>1, RestKept
  <2>3. CallsOK'
    BY <1>1, <1>2, <1>3, <2>1, SameCalls
  <2> QED BY <2>2, <2>3
<1>4. CASE serialized # <<>> /\ Write /\ UNCHANGED data
  <2>1. /\ serialized' \in Seq(Shares) /\ Len(serialized') = Len(serialized) /\ serialized' # <<>>
        /\ Last(serialized').right = Last(serialized).right
        /\ written' \in BOOLEAN
        /\ InSync => InSync'
    BY <1>1, <1>2, <1>4, WriteFacts
  <2>2. Quiet
    BY <1>1, <1>2, CallsFacts
  <2>3. ~broken => Waiting /\ Counts(1)
    <3>1. Len(serialized) # 0
      BY <1>2, <1>4, EmptySeq DEF TypeOK
    <3> QED BY <2>2, <3>1 DEF Quiet, Counts
  <2>4. Quiet'
    BY <1>1, <2>1, <2>3 DEF Quiet, Counts, Waiting
  <2>5. CallsOK'
    BY <1>1, <2>4 DEF CallsOK
  <2>6. SyncOK'
    BY <1>1, <1>2, <2>1 DEF SyncOK, Waiting
  <2>7. TypeOK' /\ RegOK' /\ DataOK'
    BY <1>1, <1>2, <1>4, <2>1 DEF TypeOK, RegOK, DataOK, Waiting
  <2> QED BY <1>1, <1>2, <2>5, <2>6, <2>7
<1> QED BY <1>3, <1>4 DEF Event

LEMMA OtherStep ==
  ASSUME SerializeInv, Other, ~again'
  PROVE  ~dangling' /\ TypeOK' /\ RegOK' /\ DataOK' /\ SyncOK' /\ CallsOK'
<1>1. /\ UNCHANGED <<reg, last, serialized, m_serialized_remove_callback, skipped, written, again, broken, dangling>>
      /\ ~again /\ calls' \in {Past, PastFailed}
      /\ calls # <<>> /\ Inner.todo # <<>> /\ Head(Inner.todo).who = "other"
      /\ data' = data \/ (Inner.name = "data" /\ data' \in Locking(data))
  BY DEF Other, Calling
<1>2. TypeOK /\ CallsOK
  BY <1>1, InvFacts
<1>3. OnlyLocks
  <2>1. CASE data' = data
    BY <1>2, <2>1, SameDataLocks
  <2>2. CASE Inner.name = "data" /\ data' \in Locking(data)
    <3>1. data # <<>>
      <4>1. CASE \E f : calls = <<f>> /\ (Sharing(f) \/ Reclaiming(f) \/ ReleasingAlone(f))
        <5>1. PICK f : calls = <<f>> /\ (Sharing(f) \/ Reclaiming(f) \/ ReleasingAlone(f))
          BY <4>1
        <5>2. f.name = "data"
          BY <2>2, <5>1, OneCall
        <5> QED BY <5>1, <5>2 DEF Sharing, Reclaiming, ReleasingAlone, IsCall
      <4>2. CASE \E f, g : SharingSerialized(f, g) \/ ReleasingSerialized(f, g)
        BY <4>2 DEF SharingSerialized, ReleasingSerialized
      <4> QED BY <1>1, <1>2, <4>1, <4>2, CallsFacts
    <3> QED BY <1>2, <2>2, <3>1, LockingLocks
  <2> QED BY <1>1, <2>1, <2>2
<1>4. ~dangling' /\ TypeOK' /\ RegOK' /\ DataOK' /\ SyncOK'
  BY <1>1, <1>3, RestKept
<1>5. CASE \E f : /\ calls = <<f>> /\ FrameOK(f)
                  /\ Sharing(f) \/ Reclaiming(f) \/ ReleasingAlone(f)
  <2>1. PICK f : /\ calls = <<f>> /\ FrameOK(f)
                 /\ Sharing(f) \/ Reclaiming(f) \/ ReleasingAlone(f)
    BY <1>5
  <2>2. Inner = f /\ Past = <<Advance(f)>> /\ PastFailed = <<Fails(Advance(f))>>
    BY <2>1, OneCall
  <2>3. PICK h \in {Advance(f), Fails(Advance(f))} : calls' = <<h>>
    BY <1>1, <2>2
  <2>4. /\ FrameOK(h) /\ h.kind = f.kind /\ h.name = f.name /\ h.index = f.index
        /\ f.failed => h.failed
        /\ HasSerialize(h) <=> HasSerialize(f)
    BY <1>1, <2>1, <2>2, PassFacts
  <2>5. Sharing(h)' \/ Reclaiming(h)' \/ ReleasingAlone(h)'
    BY <1>1, <1>3, <2>1, <2>4, OneKept
  <2>6. FrameOK(h)'
    BY <1>1, <2>4, Unchanged
  <2> QED BY <1>4, <2>3, <2>5, <2>6, CallStep
<1>6. CASE \E f, g : /\ calls = <<f, g>> /\ FrameOK(f) /\ FrameOK(g)
                     /\ SharingSerialized(f, g) \/ ReleasingSerialized(f, g)
  <2>1. PICK f, g : /\ calls = <<f, g>> /\ FrameOK(f) /\ FrameOK(g)
                    /\ SharingSerialized(f, g) \/ ReleasingSerialized(f, g)
    BY <1>6
  <2>2. Inner = g /\ Past = <<f, Advance(g)>> /\ PastFailed = <<f, Fails(Advance(g))>>
    BY <2>1, TwoCalls
  <2>3. PICK h \in {Advance(g), Fails(Advance(g))} : calls' = <<f, h>>
    BY <1>1, <2>2
  <2>4. FrameOK(h) /\ h.kind = g.kind /\ h.name = g.name /\ h.index = g.index
    BY <1>1, <2>1, <2>2, PassFacts
  <2>5. SharingSerialized(f, h)' \/ ReleasingSerialized(f, h)'
    BY <1>1, <1>3, <2>1, <2>4, TwoKept
  <2>6. FrameOK(f)' /\ FrameOK(h)'
    BY <1>1, <2>1, <2>4, Unchanged
  <2> QED BY <1>4, <2>3, <2>5, <2>6, CallsStep
<1> QED BY <1>1, <1>2, <1>5, <1>6, CallsFacts

\* No callback is called after it was erased.
LEMMA CallDanglingStep ==
  ASSUME SerializeInv, CallDangling, ~again'
  PROVE  FALSE
<1>1. ~again /\ calls # <<>> /\ Inner.todo # <<>> /\ ~Alive
  BY DEF CallDangling
<1>2. CallsOK
  BY <1>1, InvFacts
<1>3. FrameOK(Inner)
  <2>1. CASE \E f : calls = <<f>> /\ FrameOK(f)
    BY <2>1, OneCall
  <2>2. CASE \E f, g : calls = <<f, g>> /\ FrameOK(g)
    BY <2>2, TwoCalls
  <2> QED BY <1>1, <1>2, <2>1, <2>2, CallsFacts
<1>4. Inner.todo \in Seq(CallbackRecords)
  BY <1>3 DEF FrameOK, Calls
<1>5. 1 \in DOMAIN Inner.todo /\ Head(Inner.todo) = Inner.todo[1]
  BY <1>1, <1>4
<1>6. \E j \in DOMAIN reg : reg[j] = Head(Inner.todo)
  BY <1>3, <1>5 DEF FrameOK, TodoOK
<1> QED BY <1>1, <1>6 DEF Alive, Registered

LEMMA ShareDataStep ==
  ASSUME SerializeInv, NEW right \in Rights, ShareData(right), ~again'
  PROVE  ~dangling' /\ TypeOK' /\ RegOK' /\ DataOK' /\ SyncOK' /\ CallsOK'
<1> DEFINE share == Share(right, "user")
<1>1. /\ UNCHANGED <<reg, last, serialized, m_serialized_remove_callback, broken, dangling>>
      /\ skipped' = FALSE /\ written' = FALSE
      /\ ~again /\ calls = <<>> /\ data = <<>> /\ data' = Append(data, share)
  BY DEF ShareData
<1>2. ~dangling /\ TypeOK /\ CallsOK /\ Registers /\ ~Waiting /\ Len(data) = 0
  BY <1>1, InvFacts
<1>3. share \in Shares /\ share.right = right /\ share.val = "user"
  BY DEF Shares, Share, Locks
<1> HIDE DEF share
<1>4. data' \in Seq(Shares) /\ Len(data') = 1 /\ data' # <<>> /\ Last(data') = share
  <2>1. <<>> \in Seq(Shares) /\ Len(<<>>) = 0
    BY EmptySeq
  <2>2. data' = Append(<<>>, share)
    BY <1>1
  <2>3. /\ data' \in Seq(Shares) /\ Len(data') = Len(<<>>) + 1
        /\ data'[Len(<<>>) + 1] = share /\ data' # <<>>
    BY ONLY <1>3, <2>1, <2>2, Appended
  <2> QED BY ONLY <2>1, <2>3 DEF Last
<1>5. PICK f : f = Notify("data", "data", 0)
  OBVIOUS
<1>6. calls' = <<f>>
  BY <1>5 DEF ShareData
<1>7. FrameOK(f) /\ IsCall(f, "data", "data") /\ HasSerialize(f)
  BY <1>2, <1>5, NotifyFacts
<1>8. FrameOK(f)' /\ ~Waiting' /\ HasSerialize(f)'
  BY <1>1, <1>2, <1>7, Unchanged
<1>9. ~broken => Counts(0)'
  <2>1. Quiet
    BY <1>1, <1>2, CallsFacts
  <2> QED BY <1>1, <1>2, <2>1 DEF Quiet, Counts
<1>10. Sharing(f)'
  BY <1>1, <1>3, <1>4, <1>7, <1>8, <1>9 DEF Sharing, IsCall, Owner
<1>11. CallsOK'
  BY <1>6, <1>8, <1>10, CallStep
<1>12. DataOK'
  BY <1>4 DEF DataOK
<1>13. TypeOK'
  BY <1>1, <1>2, <1>4 DEF TypeOK
<1>14. RegOK' /\ SyncOK'
  BY <1>8 DEF RegOK, SyncOK
<1> QED BY <1>1, <1>2, <1>11, <1>12, <1>13, <1>14

LEMMA ReclaimDataStep ==
  ASSUME SerializeInv, ReclaimData, ~again'
  PROVE  ~dangling' /\ TypeOK' /\ RegOK' /\ DataOK' /\ SyncOK' /\ CallsOK'
<1>1. /\ UNCHANGED <<reg, last, data, serialized, m_serialized_remove_callback, skipped, written, again, broken, dangling>>
      /\ ~again /\ calls = <<>> /\ data # <<>>
  BY DEF ReclaimData
<1>2. TypeOK /\ CallsOK /\ Registers
  BY <1>1, InvFacts
<1>3. OnlyLocks
  BY <1>1, <1>2, SameDataLocks
<1>4. ~dangling' /\ TypeOK' /\ RegOK' /\ DataOK' /\ SyncOK'
  BY <1>1, <1>3, RestKept
<1>5. PICK f : f = Notify("remove", "data", 0)
  OBVIOUS
<1>6. calls' = <<f>>
  BY <1>5 DEF ReclaimData
<1>7. FrameOK(f) /\ IsCall(f, "remove", "data") /\ (HasSerialize(f) <=> Waiting)
  BY <1>2, <1>5, NotifyFacts
<1>8. FrameOK(f)' /\ (Waiting' <=> Waiting) /\ (HasSerialize(f)' <=> HasSerialize(f))
  BY <1>1, <1>7, Unchanged
<1>9. ~broken' => IF Waiting THEN Counts(1)' ELSE Counts(0)' /\ Settled'
  <2>1. Quiet
    BY <1>1, <1>2, CallsFacts
  <2>2. Settled => Settled'
    BY <1>1, <1>3, ValuesKept
  <2> QED BY <1>1, <2>1, <2>2 DEF Quiet, Counts
<1>10. Reclaiming(f)'
  BY <1>1, <1>7, <1>8, <1>9 DEF Reclaiming, IsCall
<1> QED BY <1>4, <1>6, <1>8, <1>10, CallStep

LEMMA ReleaseSerializedAloneStep ==
  ASSUME SerializeInv, ReleaseSerializedAlone, ~again'
  PROVE  ~dangling' /\ TypeOK' /\ RegOK' /\ DataOK' /\ SyncOK' /\ CallsOK'
<1>1. /\ UNCHANGED <<reg, last, data, serialized, m_serialized_remove_callback, skipped, written, again, dangling>>
      /\ ~again /\ serialized # <<>> /\ broken' = TRUE
  BY DEF ReleaseSerializedAlone
<1>2. ~dangling /\ TypeOK /\ RegOK /\ DataOK /\ Registers
  BY <1>1, InvFacts
<1>3. ~dangling' /\ TypeOK' /\ RegOK' /\ DataOK' /\ SyncOK'
  BY <1>1, <1>2 DEF TypeOK, RegOK, DataOK, SyncOK, Waiting
<1>4. PICK f : f = Notify("remove", "serialized", 0)
  OBVIOUS
<1>5. calls' = <<f>>
  BY <1>4 DEF ReleaseSerializedAlone
<1>6. FrameOK(f) /\ IsCall(f, "remove", "serialized") /\ f.index = 0
  BY <1>2, <1>4, NotifyFacts
<1>7. FrameOK(f)'
  BY <1>1, <1>6, Unchanged
<1>8. ReleasingAlone(f)'
  BY <1>1, <1>6 DEF ReleasingAlone, IsCall
<1> QED BY <1>3, <1>5, <1>7, <1>8, CallStep

-----------------------------------------------------------------------------
\* The calls that are in progress on a data, and the ones below them.
LEMMA InnerFacts ==
  ASSUME SerializeInv, ~again, calls # <<>>
  PROVE  /\ IsCall(Inner, "data", "data") =>
               \E f : calls = <<f>> /\ FrameOK(f) /\ Sharing(f)
         /\ IsCall(Inner, "remove", "data") =>
               \E f : calls = <<f>> /\ FrameOK(f) /\ Reclaiming(f)
         /\ IsCall(Inner, "data", "serialized") =>
               \E f, g : calls = <<f, g>> /\ FrameOK(f) /\ FrameOK(g) /\ SharingSerialized(f, g)
         /\ IsCall(Inner, "remove", "serialized") =>
               \/ \E f : calls = <<f>> /\ FrameOK(f) /\ ReleasingAlone(f)
               \/ \E f, g : calls = <<f, g>> /\ FrameOK(f) /\ FrameOK(g) /\ ReleasingSerialized(f, g)
<1>1. CallsOK
  BY InvFacts
<1>2. CASE \E f : /\ calls = <<f>> /\ FrameOK(f)
                  /\ Sharing(f) \/ Reclaiming(f) \/ ReleasingAlone(f)
  <2>1. PICK f : /\ calls = <<f>> /\ FrameOK(f)
                 /\ Sharing(f) \/ Reclaiming(f) \/ ReleasingAlone(f)
    BY <1>2
  <2>2. Inner = f
    BY <2>1, OneCall
  <2> QED BY <2>1, <2>2 DEF Sharing, Reclaiming, ReleasingAlone, IsCall
<1>3. CASE \E f, g : /\ calls = <<f, g>> /\ FrameOK(f) /\ FrameOK(g)
                     /\ SharingSerialized(f, g) \/ ReleasingSerialized(f, g)
  <2>1. PICK f, g : /\ calls = <<f, g>> /\ FrameOK(f) /\ FrameOK(g)
                    /\ SharingSerialized(f, g) \/ ReleasingSerialized(f, g)
    BY <1>3
  <2>2. Inner = g
    BY <2>1, TwoCalls
  <2> QED BY <2>1, <2>2 DEF SharingSerialized, ReleasingSerialized, IsCall
<1> QED BY <1>1, <1>2, <1>3, CallsFacts

LEMMA ConsumeStep ==
  ASSUME SerializeInv, Consume, ~again'
  PROVE  ~dangling' /\ TypeOK' /\ RegOK' /\ DataOK' /\ SyncOK' /\ CallsOK'
<1>1. /\ UNCHANGED <<reg, last, data, m_serialized_remove_callback, skipped, again, broken, dangling>>
      /\ ~again /\ calls # <<>> /\ Inner.todo # <<>> /\ IsCall(Inner, "data", "serialized")
      /\ calls' \in {Past, PastFailed} /\ Write
  BY DEF Consume, Calling, IsCall
<1>2. ~dangling /\ TypeOK /\ RegOK /\ DataOK
  BY <1>1, InvFacts
<1>3. PICK f, g : calls = <<f, g>> /\ FrameOK(f) /\ FrameOK(g) /\ SharingSerialized(f, g)
  BY <1>1, InnerFacts
<1>4. /\ serialized' \in Seq(Shares) /\ Len(serialized') = Len(serialized) /\ serialized' # <<>>
      /\ written' \in BOOLEAN
      /\ InSync => InSync'
  <2>1. serialized # <<>>
    BY <1>3 DEF SharingSerialized
  <2> QED BY <1>1, <1>2, <2>1, WriteFacts
<1>5. Inner = g /\ Past = <<f, Advance(g)>> /\ PastFailed = <<f, Fails(Advance(g))>>
  BY <1>3, TwoCalls
<1>6. PICK h \in {Advance(g), Fails(Advance(g))} : calls' = <<f, h>>
  BY <1>1, <1>5
<1>7. FrameOK(h) /\ h.kind = g.kind /\ h.name = g.name /\ h.index = g.index
  BY <1>1, <1>3, <1>5, PassFacts
<1>8. FrameOK(f)' /\ FrameOK(h)' /\ (Waiting' <=> Waiting) /\ (HasSerialize(f)' <=> HasSerialize(f))
  BY <1>1, <1>3, <1>7, Unchanged
<1>9. SharingSerialized(f, h)'
  BY <1>1, <1>3, <1>4, <1>7, <1>8 DEF SharingSerialized, IsCall
<1>10. CallsOK'
  BY <1>6, <1>8, <1>9, CallsStep
<1>11. TypeOK'
  BY <1>1, <1>2, <1>4 DEF TypeOK
<1>12. RegOK' /\ DataOK' /\ SyncOK'
  BY <1>1, <1>2, <1>3, <1>8 DEF RegOK, DataOK, SyncOK, SharingSerialized
<1> QED BY <1>1, <1>2, <1>10, <1>11, <1>12

\* The right that share_serialized finds: what the owner gave, or to read only.
LEMMA ObtainedFacts ==
  ASSUME NEW share \in Shares, Obtained(share) # "none"
  PROVE  Obtained(share) \in Rights /\ (Obtained(share) = "in" <=> share.right = "in")
<1>1. share.right \in Rights /\ share.lock \in {"none", "r", "w"} /\ share.lock \in Locks(share.right)
  BY DEF Shares
<1>2. CASE share.lock = "none"
  BY <1>1, <1>2 DEF Obtained
<1>3. CASE share.lock = "r"
  BY <1>1, <1>3 DEF Obtained, Locks, CanRead, Rights
<1>4. CASE share.lock = "w"
  BY <1>4 DEF Obtained
<1> QED BY <1>1, <1>2, <1>3, <1>4

LEMMA ShareSerializedStep ==
  ASSUME SerializeInv, ShareSerialized, ~again'
  PROVE  ~dangling' /\ TypeOK' /\ RegOK' /\ DataOK' /\ SyncOK' /\ CallsOK'
<1> DEFINE right == Obtained(Last(data))
<1>1. /\ UNCHANGED <<reg, last, data, m_serialized_remove_callback, written, again, broken, dangling>>
      /\ ~again /\ calls # <<>> /\ Inner.todo # <<>> /\ IsCall(Inner, "data", "data")
      /\ Head(Inner.todo).who = "serialize"
  BY DEF ShareSerialized, Calling, IsCall
<1>2. /\ ~dangling /\ TypeOK /\ RegOK /\ DataOK /\ Registers
      /\ Len(serialized) \in Nat /\ Len(m_serialized_remove_callback) \in Nat
  BY <1>1, InvFacts
<1>3. PICK f : calls = <<f>> /\ FrameOK(f) /\ Sharing(f)
  BY <1>1, InnerFacts
<1>4. Inner = f /\ Past = <<Advance(f)>> /\ PastFailed = <<Fails(Advance(f))>>
  BY <1>3, OneCall
<1>5. /\ HasSerialize(f) /\ IsCall(f, "data", "data") /\ data # <<>> /\ ~Waiting
      /\ Owner.val = "user" /\ ~skipped /\ ~written /\ (~broken => Counts(0))
  <2>1. HasSerialize(f)
    BY <1>1, <1>3, <1>4, PassFacts
  <2> QED BY <1>3, <2>1 DEF Sharing
<1>6. Owner \in Shares
  BY <1>1, <1>5, InvFacts
<1>7. RegOK' /\ DataOK' /\ SyncOK' /\ ~Waiting'
  BY <1>1, <1>2, <1>5 DEF RegOK, DataOK, SyncOK, Waiting
<1>8. CASE /\ calls' = PastFailed \/ (calls' = Past /\ skipped' = TRUE)
           /\ UNCHANGED serialized /\ skipped' \in BOOLEAN
  <2>1. PICK h \in {Advance(f), Fails(Advance(f))} : calls' = <<h>> /\ (h = Fails(Advance(f)) \/ skipped')
    BY <1>4, <1>8
  <2>2. FrameOK(h) /\ h.kind = f.kind /\ h.name = f.name /\ (h.failed \/ skipped') /\ ~HasSerialize(h)
    BY <1>1, <1>3, <1>4, <2>1, PassFacts
  <2>3. FrameOK(h)' /\ (HasSerialize(h)' <=> HasSerialize(h))
    BY <1>1, <2>2, Unchanged
  <2>4. ~broken' => Counts(0)'
    BY <1>1, <1>5, <1>8 DEF Counts
  <2>5. skipped' => Settled'
    BY <1>1, <1>5 DEF Settled, Delivered, Owner
  <2>6. Sharing(h)'
    BY <1>1, <1>5, <1>7, <2>2, <2>3, <2>4, <2>5 DEF Sharing, IsCall
  <2>7. CallsOK'
    BY <2>1, <2>3, <2>6, CallStep
  <2> QED BY <1>1, <1>2, <1>7, <1>8, <2>7 DEF TypeOK
<1>9. CASE /\ right # "none"
           /\ serialized' = Append(serialized, Share(right, IF CanRead(right) THEN Last(data).val ELSE "unset"))
           /\ calls' = Append(Past, Notify("data", "serialized", 0))
           /\ UNCHANGED skipped
  <2> DEFINE val == IF CanRead(right) THEN Last(data).val ELSE "unset"
             share == Share(right, val)
  <2>1. right \in Rights /\ (right = "in" <=> Owner.right = "in")
    BY <1>6, <1>9, ObtainedFacts DEF Owner
  <2>2. val = IF right = "in" THEN "unset" ELSE "user"
    BY <1>5, <2>1 DEF Owner, CanRead, Rights
  <2> HIDE DEF right, val
  <2>3. share \in Shares /\ share.right = right /\ share.val = val
    BY <2>1, <2>2 DEF Shares, Share, Locks
  <2>4. serialized' = Append(serialized, share) /\ serialized \in Seq(Shares)
    BY <1>2, <1>9 DEF TypeOK, right, val
  <2> HIDE DEF share
  <2>5. /\ serialized' \in Seq(Shares) /\ Len(serialized') = Len(serialized) + 1
        /\ serialized' # <<>> /\ Last(serialized') = share
    <3>1. share \in Shares
      BY <2>3
    <3> QED BY ONLY <2>4, <3>1, AppendedLast, ZenonT(60)
  <2>6. PICK h \in {Advance(f), Fails(Advance(f))} : h = Advance(f)
    OBVIOUS
  <2>7. FrameOK(h) /\ h.kind = f.kind /\ h.name = f.name /\ ~HasSerialize(h)
    BY <1>1, <1>3, <1>4, <2>6, PassFacts
  <2>8. PICK g : g = Notify("data", "serialized", 0)
    OBVIOUS
  <2>9. FrameOK(g) /\ IsCall(g, "data", "serialized")
    BY <1>2, <2>8, NotifyFacts
  <2>10. calls' = <<h, g>>
    <3>1. Past = <<h>> /\ calls' = Append(Past, g)
      BY <1>4, <1>9, <2>6, <2>8
    <3> QED BY ONLY <3>1, AppendToOne
  <2>11. FrameOK(h)' /\ FrameOK(g)' /\ (HasSerialize(h)' <=> HasSerialize(h))
    BY <1>1, <2>7, <2>9, Unchanged
  <2>12. ~broken' => Len(serialized') = 1 /\ m_serialized_remove_callback' = <<>>
    <3>1. ~broken => Len(serialized) = 0 /\ Len(m_serialized_remove_callback) = 0
      BY <1>5 DEF Counts
    <3>2. Len(m_serialized_remove_callback) = 0 => m_serialized_remove_callback = <<>>
      BY <1>2, EmptySeq DEF TypeOK
    <3> QED BY <1>1, <2>5, <3>1, <3>2
  <2>13. InSync'
    <3>1. Owner' = Owner
      BY <1>1 DEF Owner
    <3>2. Last(serialized').right = right /\ Last(serialized').val = IF right = "in" THEN "unset" ELSE "user"
      BY <2>2, <2>3, <2>5
    <3> QED BY <1>1, <1>5, <1>9, <2>1, <2>5, <3>1, <3>2 DEF InSync
  <2>14. SharingSerialized(h, g)'
    BY <1>1, <1>5, <1>7, <2>5, <2>7, <2>9, <2>11, <2>12, <2>13 DEF SharingSerialized, IsCall
  <2>15. CallsOK'
    BY <2>10, <2>11, <2>14, CallsStep
  <2>16. TypeOK'
    BY <1>1, <1>2, <1>9, <2>5 DEF TypeOK
  <2> QED BY <1>1, <1>2, <1>7, <2>15, <2>16
<1>10. skipped \in BOOLEAN
  BY <1>2 DEF TypeOK
<1> QED BY <1>8, <1>9, <1>10 DEF ShareSerialized

LEMMA ShareSerializedEndStep ==
  ASSUME SerializeInv, ShareSerializedEnd, ~again'
  PROVE  ~dangling' /\ TypeOK' /\ RegOK' /\ DataOK' /\ SyncOK' /\ CallsOK'
<1> DEFINE m == m_serialized_remove_callback
<1>1. /\ UNCHANGED <<data, skipped, written, again, broken, dangling>>
      /\ ~again /\ calls # <<>> /\ IsCall(Inner, "data", "serialized")
  BY DEF ShareSerializedEnd, IsCall
<1>2. /\ ~dangling /\ TypeOK /\ DataOK /\ Registers
      /\ Len(serialized) \in Nat /\ Len(m) \in Nat
      /\ serialized \in Seq(Shares) /\ m \in Seq(Entries) /\ last \in Nat /\ last >= 6
  BY <1>1, InvFacts, LoadedFacts DEF TypeOK
<1>3. PICK f, g : calls = <<f, g>> /\ FrameOK(f) /\ FrameOK(g) /\ SharingSerialized(f, g)
  BY <1>1, InnerFacts
<1>4. Inner = g /\ Front(calls) = <<f>> /\ Propagated = <<Fails(f)>>
  BY <1>3, TwoCalls
<1>5. /\ IsCall(f, "data", "data") /\ data # <<>> /\ ~HasSerialize(f) /\ ~Waiting /\ reg = Loaded
      /\ serialized # <<>>
      /\ ~broken => Len(serialized) = 1 /\ m = <<>> /\ InSync
  BY <1>3 DEF SharingSerialized, Waiting
<1>6. DataOK'
  BY <1>1, <1>2 DEF DataOK
<1>7. CASE g.failed
  <2>1. /\ serialized' = Front(serialized) /\ calls' = <<Fails(f)>>
        /\ UNCHANGED <<reg, last, m_serialized_remove_callback>>
    BY <1>4, <1>7 DEF ShareSerializedEnd
  <2>2. serialized' \in Seq(Shares) /\ Len(serialized') = Len(serialized) - 1
    BY <1>2, <1>5, <2>1, FrontFacts
  <2>3. PICK h : h = Fails(f)
    OBVIOUS
  <2>4. FrameOK(h) /\ h.kind = f.kind /\ h.name = f.name /\ h.failed = TRUE /\ ~HasSerialize(h)
    BY <1>3, <1>5, <2>3, FailsFacts
  <2>5. FrameOK(h)' /\ (Waiting' <=> Waiting) /\ (HasSerialize(h)' <=> HasSerialize(h))
    BY <2>1, <2>4, Unchanged
  <2>6. ~broken' => Counts(0)'
    <3>1. Len(<<>>) = 0
      BY EmptySeq
    <3> QED BY <1>1, <1>5, <2>1, <2>2, <3>1 DEF Counts
  <2>7. Sharing(h)'
    BY <1>1, <1>5, <2>4, <2>5, <2>6 DEF Sharing, IsCall
  <2>8. CallsOK'
    BY <2>1, <2>3, <2>5, <2>7, CallStep
  <2>9. TypeOK' /\ RegOK' /\ SyncOK'
    BY <1>1, <1>2, <1>5, <2>1, <2>2, <2>5 DEF TypeOK, RegOK, SyncOK
  <2> QED BY <1>1, <1>2, <1>6, <2>8, <2>9
<1>8. CASE ~g.failed
  <2> DEFINE entry == [callback |-> last + 1, right |-> Last(serialized).right]
  <2>1. /\ reg' = Append(Loaded, Removal(last + 1)) /\ last' = last + 1
        /\ m' = Append(m, entry) /\ calls' = <<f>> /\ UNCHANGED serialized
    BY <1>4, <1>5, <1>8 DEF ShareSerializedEnd, On, Removal
  <2>2. Last(serialized) \in Shares
    BY <1>2, <1>5, LastFacts
  <2>3. entry \in Entries /\ entry.callback = last + 1 /\ entry.right = Last(serialized).right
    BY <1>2, <1>5, <2>2 DEF Shares, Entries
  <2> HIDE DEF entry
  <2>4. m' \in Seq(Entries) /\ Len(m') = Len(m) + 1 /\ m' # <<>> /\ Last(m') = entry
    <3>1. m' = Append(m, entry) /\ entry \in Entries /\ m \in Seq(Entries)
      BY <1>2, <2>1, <2>3
    <3> HIDE DEF m
    <3> QED BY ONLY <3>1, AppendedLast, ZenonT(60)
  <2>5. Removal(last + 1) \in CallbackRecords
    BY <1>2 DEF Removal, Callback, CallbackRecords
  <2>6. /\ reg' # Loaded /\ DOMAIN reg' = 1 .. 7
        /\ \A i \in 1 .. 6 : reg'[i] = Loaded[i]
    BY <2>1, <2>5, AppendLoaded
  <2>7. FrameOK(f)'
    <3>1. DOMAIN reg = 1 .. 6
      BY <1>5, LoadedFacts
    <3>2. \A j \in DOMAIN reg : j \in DOMAIN reg' /\ reg'[j] = reg[j]
      BY <1>5, <2>6, <3>1
    <3> QED BY <1>3, <3>2, FrameStays
  <2>8. Waiting'
    BY <2>6 DEF Waiting
  <2>9. ~broken' => Counts(1)'
    <3>1. Len(<<>>) = 0
      BY EmptySeq
    <3> QED BY <1>1, <1>2, <1>5, <2>1, <2>4, <3>1 DEF Counts
  <2>10. ~HasSerialize(f)'
    BY <1>5 DEF HasSerialize
  <2>11. Sharing(f)'
    BY <1>1, <1>5, <2>8, <2>9, <2>10 DEF Sharing, IsCall
  <2>12. CallsOK'
    BY <2>1, <2>7, <2>11, CallStep
  <2>13. RegOK'
    <3>1. Last(m').callback > Len(Loaded) /\ reg' = Append(Loaded, Removal(Last(m').callback))
      BY <1>1, <1>2, <2>1, <2>3, <2>4, LoadedFacts
    <3> QED BY <1>1, <1>5, <2>4, <3>1 DEF RegOK
  <2>14. TypeOK'
    BY <1>1, <1>2, <2>1, <2>4, LoadedFacts DEF TypeOK
  <2>15. SyncOK'
    <3>1. InSync => InSync'
      BY <1>1, <2>1 DEF InSync, Owner
    <3>2. Last(m').right = Last(serialized').right
      BY <2>1, <2>3, <2>4
    <3> QED BY <1>1, <1>5, <3>1, <3>2 DEF SyncOK
  <2> QED BY <1>1, <1>2, <1>6, <2>12, <2>13, <2>14, <2>15
<1> QED BY <1>7, <1>8

LEMMA NoShares ==
  <<>> \in Seq(Shares)
  BY EmptySeq

LEMMA ShareDataEndStep ==
  ASSUME SerializeInv, ShareDataEnd, ~again'
  PROVE  ~dangling' /\ TypeOK' /\ RegOK' /\ DataOK' /\ SyncOK' /\ CallsOK'
<1> DEFINE m == m_serialized_remove_callback
<1>1. /\ UNCHANGED <<reg, last, serialized, m_serialized_remove_callback, skipped, written, broken, dangling>>
      /\ ~again /\ calls # <<>> /\ IsCall(Inner, "data", "data") /\ Inner.todo = <<>>
      /\ data' = IF Inner.failed THEN Front(data) ELSE data
      /\ calls' = <<>> /\ (Inner.failed => m = <<>>)
  BY DEF ShareDataEnd, IsCall
<1>2. /\ ~dangling /\ TypeOK /\ RegOK /\ DataOK /\ SyncOK
      /\ Len(serialized) \in Nat /\ Len(m) \in Nat
      /\ data \in Seq(Shares) /\ m \in Seq(Entries)
      /\ Waiting => m # <<>>
      /\ data # <<>> => Len(data) = 1
  BY <1>1, InvFacts DEF TypeOK
<1>3. PICK f : calls = <<f>> /\ FrameOK(f) /\ Sharing(f)
  BY <1>1, InnerFacts
<1>4. Inner = f
  BY <1>3, OneCall
<1>5. ~HasSerialize(f)
  BY <1>1, <1>4 DEF HasSerialize
<1>6. data # <<>> /\ (~broken => \/ Waiting /\ Counts(1)
                                 \/ ~Waiting /\ Counts(0) /\ (f.failed \/ (skipped /\ Settled)))
  BY <1>3, <1>5 DEF Sharing
<1>7. CASE f.failed
  <2>1. data' = <<>> /\ Len(data') = 0 /\ m = <<>> /\ Len(m) = 0 /\ ~Waiting
    BY <1>1, <1>2, <1>4, <1>6, <1>7, FrontFacts, EmptySeq
  <2>2. ~Waiting'
    BY <1>1, <2>1 DEF Waiting
  <2>3. Quiet'
    BY <1>1, <1>6, <2>1, <2>2 DEF Quiet, Counts, Settled
  <2>4. TypeOK' /\ DataOK' /\ RegOK' /\ SyncOK'
    <3>1. data' \in Seq(Shares)
      BY <2>1, NoShares
    <3>2. TypeOK'
      BY <1>1, <1>2, <3>1 DEF TypeOK
    <3>3. DataOK' /\ RegOK' /\ SyncOK'
      BY <2>1, <2>2 DEF DataOK, RegOK, SyncOK
    <3> QED BY <3>2, <3>3
  <2> QED BY <1>1, <1>2, <2>3, <2>4 DEF CallsOK
<1>8. CASE ~f.failed
  <2>1. data' = data
    BY <1>1, <1>4, <1>8
  <2>2. OnlyLocks
    BY <1>2, <2>1, SameDataLocks
  <2>3. (Settled => Settled') /\ (InSync => InSync')
    BY <1>1, <2>2, ValuesKept
  <2>4. Quiet'
    BY <1>1, <1>6, <1>8, <2>1, <2>3 DEF Quiet, Counts, Waiting
  <2>5. TypeOK' /\ DataOK' /\ RegOK'
    BY <1>1, <1>2, <2>1 DEF TypeOK, DataOK, RegOK, Waiting
  <2>6. SyncOK'
    BY <1>1, <1>2, <2>3 DEF SyncOK, Waiting
  <2> QED BY <1>1, <1>2, <2>4, <2>5, <2>6 DEF CallsOK
<1> QED BY <1>7, <1>8

LEMMA ReclaimDataEndStep ==
  ASSUME SerializeInv, ReclaimDataEnd, ~again'
  PROVE  ~dangling' /\ TypeOK' /\ RegOK' /\ DataOK' /\ SyncOK' /\ CallsOK'
<1>1. /\ UNCHANGED <<reg, last, serialized, m_serialized_remove_callback, skipped, written, again, dangling>>
      /\ ~again /\ calls # <<>> /\ IsCall(Inner, "remove", "data") /\ Inner.todo = <<>>
      /\ data' = IF Inner.failed THEN data ELSE Front(data)
      /\ calls' = <<>> /\ broken' = (broken \/ Inner.failed)
  BY DEF ReclaimDataEnd, IsCall
<1>2. /\ ~dangling /\ TypeOK /\ RegOK /\ DataOK
      /\ data \in Seq(Shares)
      /\ data # <<>> => Len(data) = 1
  BY <1>1, InvFacts DEF TypeOK
<1>3. PICK f : calls = <<f>> /\ FrameOK(f) /\ Reclaiming(f)
  BY <1>1, InnerFacts
<1>4. Inner = f /\ f.failed \in BOOLEAN
  BY <1>3, OneCall DEF FrameOK, Calls
<1>5. ~HasSerialize(f)
  BY <1>1, <1>4 DEF HasSerialize
<1>6. data # <<>> /\ ~Waiting /\ (~broken => f.failed \/ (Counts(0) /\ Settled))
  BY <1>3, <1>5 DEF Reclaiming
<1>7. ~Waiting'
  BY <1>1, <1>6 DEF Waiting
<1>8. RegOK' /\ SyncOK'
  BY <1>7 DEF RegOK, SyncOK
<1>9. CASE f.failed
  <2>1. data' = data /\ broken' = TRUE
    BY <1>1, <1>4, <1>9
  <2>2. Quiet'
    BY <2>1 DEF Quiet
  <2>3. TypeOK' /\ DataOK'
    BY <1>1, <1>2, <2>1 DEF TypeOK, DataOK
  <2> QED BY <1>1, <1>2, <1>8, <2>2, <2>3 DEF CallsOK
<1>10. CASE ~f.failed
  <2>1. data' = <<>> /\ Len(data') = 0 /\ broken' = broken
    <3>1. data' = Front(data)
      BY <1>1, <1>4, <1>10
    <3>2. data' = <<>>
      BY <1>2, <1>6, <3>1, FrontFacts
    <3>3. broken' = broken
      BY <1>1, <1>2, <1>4, <1>10 DEF TypeOK
    <3> QED BY <3>2, <3>3, EmptySeq
  <2>2. Quiet'
    BY <1>1, <1>6, <1>7, <1>10, <2>1 DEF Quiet, Counts, Settled
  <2>3. TypeOK' /\ DataOK'
    <3>1. data' \in Seq(Shares)
      BY <2>1, NoShares
    <3>2. TypeOK'
      BY <1>1, <1>2, <2>1, <3>1 DEF TypeOK
    <3>3. DataOK'
      BY <2>1 DEF DataOK
    <3> QED BY <3>2, <3>3
  <2> QED BY <1>1, <1>2, <1>8, <2>2, <2>3 DEF CallsOK
<1> QED BY <1>9, <1>10

\* serialize registers no callback for the removal of `serialized'.
LEMMA NoSerialize ==
  ASSUME Registers, NEW f, FrameOK(f), IsCall(f, "remove", "serialized")
  PROVE  ~HasSerialize(f)
<1>1. \A i \in DOMAIN reg : reg[i].who = "serialize" /\ reg[i].kind = "remove" => reg[i].name = "data"
  BY RegFacts DEF Registers
<1> QED BY <1>1 DEF FrameOK, TodoOK, IsCall, HasSerialize

LEMMA FrameLoaded ==
  ASSUME NEW f, FrameOK(f), NEW k \in Nat, k > 6, reg = Append(Loaded, Removal(k)), reg' = Loaded,
         ~HasSerialize(f)
  PROVE  FrameOK(f)'
<1>1. Removal(k) \in CallbackRecords /\ Removal(k).who = "serialize"
  BY DEF Removal, Callback, CallbackRecords
<1>2. /\ DOMAIN reg = 1 .. 7 /\ \A i \in 1 .. 6 : reg[i] = Loaded[i]
      /\ reg[7] = Removal(k)
  BY <1>1, AppendLoaded
<1>3. DOMAIN reg' = 1 .. 6
  BY LoadedFacts
<1>4. \A i \in 1 .. 7 : i \in 1 .. 6 \/ i = 7
  OBVIOUS
<1>5. \A i \in DOMAIN f.todo : \E j \in DOMAIN reg' : reg'[j] = f.todo[i]
  <2> SUFFICES ASSUME NEW i \in DOMAIN f.todo
               PROVE  \E j \in DOMAIN reg' : reg'[j] = f.todo[i]
    OBVIOUS
  <2>1. PICK j \in DOMAIN reg : reg[j] = f.todo[i]
    BY DEF FrameOK, TodoOK
  <2>2. f.todo[i].who # "serialize"
    BY DEF HasSerialize
  <2>3. j \in 1 .. 6
    BY <1>1, <1>2, <1>4, <2>1, <2>2
  <2> QED BY <1>2, <1>3, <2>1, <2>3
<1> QED BY <1>5 DEF FrameOK, TodoOK

LEMMA ReleaseSerializedStep ==
  ASSUME SerializeInv, ReleaseSerialized, ~again'
  PROVE  ~dangling' /\ TypeOK' /\ RegOK' /\ DataOK' /\ SyncOK' /\ CallsOK'
<1> DEFINE m == m_serialized_remove_callback
           entry == Last(m)
<1>1. /\ UNCHANGED <<last, serialized, m_serialized_remove_callback, skipped, written, again, broken, dangling>>
      /\ ~again /\ calls # <<>> /\ Inner.todo # <<>> /\ IsCall(Inner, "remove", "data")
      /\ Head(Inner.todo).who = "serialize"
  BY DEF ReleaseSerialized, Calling, IsCall
<1>2. /\ ~dangling /\ TypeOK /\ DataOK /\ SyncOK /\ Registers
      /\ data \in Seq(Shares) /\ serialized \in Seq(Shares) /\ m \in Seq(Entries)
      /\ Len(serialized) \in Nat /\ Len(m) \in Nat
  BY <1>1, InvFacts DEF TypeOK
<1>3. PICK f : calls = <<f>> /\ FrameOK(f) /\ Reclaiming(f)
  BY <1>1, InnerFacts
<1>4. Inner = f /\ Past = <<Advance(f)>> /\ PastFailed = <<Fails(Advance(f))>>
  BY <1>3, OneCall
<1>5. HasSerialize(f) /\ IsCall(f, "remove", "data") /\ data # <<>> /\ Waiting /\ (~broken => Counts(1))
  <2>1. HasSerialize(f)
    BY <1>1, <1>3, <1>4, PassFacts
  <2> QED BY <1>3, <2>1 DEF Reclaiming
<1>6. /\ Len(data) = 1 /\ Owner \in Shares
      /\ m # <<>> /\ entry \in Entries /\ entry.callback > 6
      /\ reg = Append(Loaded, Removal(entry.callback))
  BY <1>1, <1>5, InvFacts
<1>7. entry.callback \in Nat /\ entry = m[Len(m)]
  BY <1>2, <1>6, LastFacts DEF Entries
<1>8. reg' = Loaded
  <2>1. reg' = Erase(reg, entry.callback)
    BY <1>6, <1>7 DEF ReleaseSerialized, LastSerialized, Unregister
  <2>2. PICK k \in Nat : k = entry.callback
    BY <1>7
  <2> QED BY <1>6, <2>1, <2>2, EraseRemoval
<1>9. ~Waiting' /\ RegOK' /\ SyncOK'
  BY <1>8 DEF Waiting, RegOK, SyncOK
<1>10. \A h : FrameOK(h) /\ ~HasSerialize(h) => FrameOK(h)' /\ ~HasSerialize(h)'
  <2>1. PICK k \in Nat : k > 6 /\ reg = Append(Loaded, Removal(k))
    BY <1>6, <1>7
  <2>2. \A h : ~HasSerialize(h) => ~HasSerialize(h)'
    BY DEF HasSerialize
  <2> QED BY <1>8, <2>1, <2>2, FrameLoaded
<1>11. CASE calls' = PastFailed /\ UNCHANGED data
  <2>1. PICK h \in {Advance(f), Fails(Advance(f))} : calls' = <<h>> /\ h = Fails(Advance(f))
    BY <1>4, <1>11
  <2>2. FrameOK(h) /\ h.kind = f.kind /\ h.name = f.name /\ h.failed /\ ~HasSerialize(h)
    BY <1>1, <1>3, <1>4, <2>1, PassFacts
  <2>3. FrameOK(h)' /\ ~HasSerialize(h)'
    BY <1>10, <2>2
  <2>4. Reclaiming(h)'
    BY <1>5, <1>9, <1>11, <2>2, <2>3 DEF Reclaiming, IsCall
  <2>5. CallsOK'
    BY <2>1, <2>3, <2>4, CallStep
  <2> QED BY <1>1, <1>2, <1>9, <1>11, <2>5 DEF TypeOK, DataOK
<1>12. CASE /\ serialized # <<>>
            /\ data' = IF CanWrite(entry.right) THEN DeserializeCopy(data, serialized) ELSE data
            /\ calls' = Append(Past, Notify("remove", "serialized", Len(m)))
  <2>1. PICK h \in {Advance(f), Fails(Advance(f))} : h = Advance(f)
    OBVIOUS
  <2>2. FrameOK(h) /\ h.kind = f.kind /\ h.name = f.name /\ ~HasSerialize(h)
    BY <1>1, <1>3, <1>4, <2>1, PassFacts
  <2>3. PICK g : g = Notify("remove", "serialized", Len(m))
    OBVIOUS
  <2>4. FrameOK(g) /\ IsCall(g, "remove", "serialized") /\ g.index = Len(m)
    BY <1>2, <2>3, NotifyFacts
  <2>5. ~HasSerialize(g)
    BY <1>2, <2>4, NoSerialize
  <2>6. calls' = <<h, g>>
    <3>1. Past = <<h>> /\ calls' = Append(Past, g)
      BY <1>4, <1>12, <2>1, <2>3
    <3> QED BY ONLY <3>1, AppendToOne
  <2>7. FrameOK(h)' /\ ~HasSerialize(h)' /\ FrameOK(g)'
    BY <1>10, <2>2, <2>4, <2>5
  <2>8. /\ data' \in Seq(Shares) /\ data' # <<>> /\ Len(data') = 1
        /\ Owner'.right = Owner.right
        /\ Owner'.val = IF CanWrite(entry.right) THEN Last(serialized).val ELSE Owner.val
    <3>1. CASE CanWrite(entry.right)
      <4>1. PICK v : v = Last(serialized).val
        OBVIOUS
      <4>2. v \in {"user", "plugin", "unset"}
        <5>1. Last(serialized) \in Shares
          BY <1>2, <1>12, LastFacts
        <5> QED BY <4>1, <5>1 DEF Shares
      <4>3. data' = Written(data, v)
        BY <1>12, <3>1, <4>1 DEF DeserializeCopy, Written
      <4>4. /\ data' \in Seq(Shares) /\ Len(data') = Len(data) /\ data' # <<>>
            /\ Last(data').right = Last(data).right /\ Last(data').val = v
        BY ONLY <1>2, <1>5, <4>2, <4>3, WrittenFacts
      <4> QED BY <1>6, <3>1, <4>1, <4>4 DEF Owner
    <3>2. CASE ~CanWrite(entry.right)
      BY <1>2, <1>5, <1>6, <1>12, <3>2 DEF Owner
    <3> QED BY <3>1, <3>2
  <2>9. ~broken' => Counts(1)' /\ Settled'
    <3>1. ~broken => Counts(1)'
      BY <1>1, <1>5 DEF Counts
    <3>2. ~broken => Settled'
      <4> SUFFICES ASSUME ~broken PROVE Owner'.val = Delivered'
        BY DEF Settled
      <4>1. InSync /\ entry.right = Last(serialized).right
        BY <1>2, <1>5 DEF SyncOK
      <4>2. entry.right \in Rights
        BY <1>6 DEF Entries
      <4>3. Delivered' = IF written THEN "plugin" ELSE IF Owner.right = "in" /\ ~skipped THEN "unset" ELSE "user"
        BY <1>1, <2>8 DEF Delivered, Owner
      <4> QED BY <2>8, <4>1, <4>2, <4>3 DEF InSync, CanWrite, Rights
    <3> QED BY <1>1, <3>1, <3>2
  <2>10. ReleasingSerialized(h, g)'
    BY <1>1, <1>5, <1>6, <1>9, <1>12, <2>2, <2>4, <2>7, <2>8, <2>9 DEF ReleasingSerialized, IsCall
  <2>11. CallsOK'
    BY <2>6, <2>7, <2>10, CallsStep
  <2>12. TypeOK'
    BY <1>1, <1>2, <2>8 DEF TypeOK
  <2>13. DataOK'
    BY <2>8 DEF DataOK
  <2> QED BY <1>1, <1>2, <1>9, <2>11, <2>12, <2>13
<1> QED
  <2>1. LastSerialized = Len(m) /\ m[LastSerialized] = entry
    BY <1>7 DEF LastSerialized
  <2> QED BY <1>6, <1>11, <1>12, <2>1 DEF ReleaseSerialized

LEMMA RemoveLast ==
  ASSUME NEW S, NEW s \in Seq(S), s # <<>>
  PROVE  RemoveAt(s, Len(s)) \in Seq(S) /\ Len(RemoveAt(s, Len(s))) = Len(s) - 1
<1>1. Len(s) \in Nat /\ Len(s) >= 1
  BY LastFacts
<1>2. SubSeq(s, Len(s) + 1, Len(s)) = <<>>
  BY <1>1, SubSeqEmpty
<1>3. RemoveAt(s, Len(s)) = Front(s) \o <<>>
  BY <1>2 DEF RemoveAt, Front
<1>4. Front(s) \in Seq(S) /\ Len(Front(s)) = Len(s) - 1
  BY FrontFacts
<1>5. Front(s) \o <<>> = Front(s)
  BY <1>4, ConcatEmptySeq
<1> QED BY <1>3, <1>4, <1>5

LEMMA ReleaseSerializedEndStep ==
  ASSUME SerializeInv, ReleaseSerializedEnd, ~again'
  PROVE  ~dangling' /\ TypeOK' /\ RegOK' /\ DataOK' /\ SyncOK' /\ CallsOK'
<1> DEFINE m == m_serialized_remove_callback
<1>1. /\ UNCHANGED <<reg, last, data, skipped, written, again, broken, dangling>>
      /\ ~again /\ calls # <<>> /\ IsCall(Inner, "remove", "serialized")
  BY DEF ReleaseSerializedEnd, IsCall
<1>2. /\ ~dangling /\ TypeOK /\ RegOK /\ DataOK /\ SyncOK
      /\ serialized \in Seq(Shares) /\ m \in Seq(Entries)
      /\ Len(serialized) \in Nat /\ Len(m) \in Nat
  BY <1>1, InvFacts DEF TypeOK
<1>3. DataOK'
  BY <1>1, <1>2 DEF DataOK
<1>4. CASE \E f : calls = <<f>> /\ FrameOK(f) /\ ReleasingAlone(f)
  <2>1. PICK f : calls = <<f>> /\ FrameOK(f) /\ ReleasingAlone(f)
    BY <1>4
  <2>2. Inner = f /\ Front(calls) = <<>> /\ Propagated = <<>>
    BY <2>1, OneCall
  <2>3. broken /\ serialized # <<>> /\ f.index = 0
    BY <2>1 DEF ReleasingAlone
  <2>4. calls' = <<>> /\ m' = m /\ (serialized' = serialized \/ serialized' = Front(serialized))
    BY <2>2, <2>3 DEF ReleaseSerializedEnd
  <2>5. serialized' \in Seq(Shares)
    BY <1>2, <2>3, <2>4, FrontFacts
  <2>6. CallsOK'
    BY <1>1, <2>3, <2>4 DEF CallsOK, Quiet
  <2>7. TypeOK' /\ RegOK' /\ SyncOK'
    BY <1>1, <1>2, <2>3, <2>4, <2>5 DEF TypeOK, RegOK, SyncOK, Waiting
  <2> QED BY <1>1, <1>2, <1>3, <2>6, <2>7
<1>5. CASE \E f, g : calls = <<f, g>> /\ FrameOK(f) /\ FrameOK(g) /\ ReleasingSerialized(f, g)
  <2>1. PICK f, g : calls = <<f, g>> /\ FrameOK(f) /\ FrameOK(g) /\ ReleasingSerialized(f, g)
    BY <1>5
  <2>2. Inner = g /\ Front(calls) = <<f>> /\ Propagated = <<Fails(f)>>
    BY <2>1, TwoCalls
  <2>3. /\ IsCall(f, "remove", "data") /\ data # <<>> /\ ~HasSerialize(f) /\ ~Waiting
        /\ serialized # <<>> /\ m # <<>> /\ g.index = Len(m) /\ (~broken => Counts(1) /\ Settled)
    BY <2>1 DEF ReleasingSerialized
  <2>4. ~Waiting' /\ RegOK' /\ SyncOK'
    BY <1>1, <2>3 DEF Waiting, RegOK, SyncOK
  <2>5. CASE g.failed
    <3>1. calls' = <<Fails(f)>> /\ UNCHANGED <<serialized, m_serialized_remove_callback>>
      BY <2>2, <2>5 DEF ReleaseSerializedEnd
    <3>2. PICK h : h = Fails(f)
      OBVIOUS
    <3>3. FrameOK(h) /\ h.kind = f.kind /\ h.name = f.name /\ h.failed = TRUE /\ ~HasSerialize(h)
      BY <2>1, <2>3, <3>2, FailsFacts
    <3>4. FrameOK(h)' /\ (HasSerialize(h)' <=> HasSerialize(h))
      BY <1>1, <3>3, Unchanged
    <3>5. Reclaiming(h)'
      BY <1>1, <2>3, <2>4, <3>3, <3>4 DEF Reclaiming, IsCall
    <3>6. CallsOK'
      BY <3>1, <3>2, <3>4, <3>5, CallStep
    <3> QED BY <1>1, <1>2, <1>3, <2>4, <3>1, <3>6 DEF TypeOK
  <2>6. CASE ~g.failed
    <3>1. serialized' = Front(serialized) /\ m' = RemoveAt(m, Len(m)) /\ calls' = <<f>>
      <4>1. g.index # 0
        BY <1>2, <2>3, LastFacts
      <4> QED BY <2>2, <2>3, <2>6, <4>1 DEF ReleaseSerializedEnd
    <3>2. serialized' \in Seq(Shares) /\ Len(serialized') = Len(serialized) - 1
      BY <1>2, <2>3, <3>1, FrontFacts
    <3>3. m' \in Seq(Entries) /\ Len(m') = Len(m) - 1
      BY <1>2, <2>3, <3>1, RemoveLast
    <3>4. FrameOK(f)' /\ (HasSerialize(f)' <=> HasSerialize(f))
      BY <1>1, <2>1, Unchanged
    <3>5. ~broken' => Counts(0)' /\ Settled'
      BY <1>1, <2>3, <3>2, <3>3 DEF Counts, Settled, Delivered, Owner
    <3>6. Reclaiming(f)'
      BY <1>1, <2>3, <2>4, <3>4, <3>5 DEF Reclaiming, IsCall
    <3>7. CallsOK'
      BY <3>1, <3>4, <3>6, CallStep
    <3>8. TypeOK'
      BY <1>1, <1>2, <3>2, <3>3 DEF TypeOK
    <3> QED BY <1>1, <1>2, <1>3, <2>4, <3>7, <3>8
  <2>7. g.failed \in BOOLEAN
    BY <2>1 DEF FrameOK, Calls
  <2> QED BY <2>5, <2>6
<1> QED BY <1>1, <1>4, <1>5, InnerFacts

-----------------------------------------------------------------------------
(* The theorems *)

LEMMA InitInv == Init => SerializeInv
<1> SUFFICES ASSUME Init PROVE SerializeInv
  OBVIOUS
<1>1. /\ data = <<>> /\ serialized = <<>> /\ m_serialized_remove_callback = <<>> /\ calls = <<>>
      /\ reg = Loaded /\ last = 6 /\ skipped = FALSE /\ written = FALSE /\ broken = FALSE /\ ~dangling
  BY DEF Init
<1>2. Len(data) = 0 /\ Len(serialized) = 0 /\ Len(m_serialized_remove_callback) = 0
  BY <1>1, EmptySeq
<1>3. TypeOK
  <2>1. data \in Seq(Shares) /\ serialized \in Seq(Shares)
    BY <1>1, NoShares
  <2>2. m_serialized_remove_callback \in Seq(Entries)
    BY <1>1, EmptySeq
  <2>3. last \in Nat /\ last >= Len(Loaded)
    BY <1>1, LoadedFacts
  <2>4. skipped \in BOOLEAN /\ written \in BOOLEAN /\ broken \in BOOLEAN
    BY <1>1
  <2> QED BY <2>1, <2>2, <2>3, <2>4 DEF TypeOK
<1>4. RegOK /\ DataOK /\ SyncOK
  BY <1>1, <1>2 DEF RegOK, DataOK, SyncOK, Waiting
<1>5. CallsOK
  BY <1>1, <1>2 DEF CallsOK, Quiet, Counts, Waiting, Settled
<1> QED BY <1>1, <1>3, <1>4, <1>5 DEF SerializeInv

LEMMA StutterStep ==
  ASSUME SerializeInv, UNCHANGED vars, ~again'
  PROVE  ~dangling' /\ TypeOK' /\ RegOK' /\ DataOK' /\ SyncOK' /\ CallsOK'
<1>1. /\ UNCHANGED <<reg, last, data, serialized, m_serialized_remove_callback, calls, skipped, written, broken, dangling>>
      /\ ~again
  BY DEF vars
<1>2. TypeOK /\ CallsOK
  BY <1>1, InvFacts
<1>3. OnlyLocks
  BY <1>1, <1>2, SameDataLocks
<1>4. ~dangling' /\ TypeOK' /\ RegOK' /\ DataOK' /\ SyncOK'
  BY <1>1, <1>3, RestKept
<1>5. CallsOK'
  BY <1>1, <1>2, <1>3, SameCalls
<1> QED BY <1>4, <1>5

LEMMA NextInv ==
  ASSUME SerializeInv, [Next]_vars
  PROVE  SerializeInv'
<1> SUFFICES ASSUME ~again'
             PROVE  ~dangling' /\ TypeOK' /\ RegOK' /\ DataOK' /\ SyncOK' /\ CallsOK'
  BY DEF SerializeInv
<1>1. ASSUME NEW right \in Rights, ShareData(right)
      PROVE  ~dangling' /\ TypeOK' /\ RegOK' /\ DataOK' /\ SyncOK' /\ CallsOK'
  BY <1>1, ShareDataStep
<1>2. CASE ReclaimData
  BY <1>2, ReclaimDataStep
<1>3. CASE ReleaseSerializedAlone
  BY <1>3, ReleaseSerializedAloneStep
<1>4. CASE Other
  BY <1>4, OtherStep
<1>5. CASE Consume
  BY <1>5, ConsumeStep
<1>6. CASE Event
  BY <1>6, EventStep
<1>7. CASE CallDangling
  BY <1>7, CallDanglingStep
<1>8. CASE ShareSerialized
  BY <1>8, ShareSerializedStep
<1>9. CASE ShareSerializedEnd
  BY <1>9, ShareSerializedEndStep
<1>10. CASE ReleaseSerialized
  BY <1>10, ReleaseSerializedStep
<1>11. CASE ReleaseSerializedEnd
  BY <1>11, ReleaseSerializedEndStep
<1>12. CASE ShareDataEnd
  BY <1>12, ShareDataEndStep
<1>13. CASE ReclaimDataEnd
  BY <1>13, ReclaimDataEndStep
<1>14. CASE UNCHANGED vars
  BY <1>14, StutterStep
<1> QED BY <1>1, <1>2, <1>3, <1>4, <1>5, <1>6, <1>7, <1>8, <1>9, <1>10, <1>11, <1>12, <1>13, <1>14 DEF Next

(***************************************************************************)
(* SerializeInv is an invariant of the plugin: until `data' is shared      *)
(* again or a share of it fails once serialised, at most one removal       *)
(* callback is registered, it belongs to the last entry of                 *)
(* m_serialized_remove_callback, and the callbacks that the notify_* in    *)
(* progress have still to call are all registered; until a removal fails   *)
(* or others release `serialized', its last share holds what is to be      *)
(* copied back.                                                            *)
(***************************************************************************)
THEOREM SerializeInvariant == Spec => []SerializeInv
<1>1. Init => SerializeInv
  BY InitInv
<1>2. SerializeInv /\ [Next]_vars => SerializeInv'
  BY NextInv
<1> QED BY <1>1, <1>2, PTL DEF Spec

(***************************************************************************)
(* release_serialized erases a callback while notify_data_remove goes      *)
(* through the ones it gathered: it calls an erased one only if `data' was *)
(* shared again before it was reclaimed, or a share of it failed once it   *)
(* was serialised, whatever the other plugins and the consumer do.         *)
(***************************************************************************)
THEOREM ErasedNeedsTwoShares == Spec => []DanglingNeedsTwoShares
<1>1. SerializeInv => DanglingNeedsTwoShares
  BY DEF SerializeInv, DanglingNeedsTwoShares
<1> QED BY <1>1, SerializeInvariant, PTL

(***************************************************************************)
(* Between two calls of the user, the last share of `data' has one         *)
(* serialised share, one entry of m_serialized_remove_callback and one     *)
(* removal callback if share_serialized found a lock to take, and nothing  *)
(* otherwise, whatever locks plugins keep and callbacks throw: until a     *)
(* removal or a share fails or is nested.                                  *)
(***************************************************************************)
THEOREM SerializedKeepsUp == Spec => []SerializedFollowsData
<1>1. SerializeInv => SerializedFollowsData
  <2> DEFINE expected == IF skipped THEN 0 ELSE Len(data)
  <2> SUFFICES ASSUME SerializeInv, calls = <<>>, ~again, ~broken
               PROVE  /\ Len(serialized) = expected
                      /\ Len(m_serialized_remove_callback) = expected
                      /\ Len(reg) - Len(Loaded) = expected
    BY DEF SerializedFollowsData
  <2>1. /\ CallsOK /\ TypeOK /\ SyncOK
        /\ data # <<>> => Len(data) = 1
        /\ Waiting => /\ data # <<>> /\ Last(m_serialized_remove_callback) \in Entries
                      /\ reg = Append(Loaded, Removal(Last(m_serialized_remove_callback).callback))
    BY InvFacts
  <2>2. Quiet
    BY <2>1, CallsFacts
  <2>3. CASE Waiting
    <3>1. PICK c : c = Removal(Last(m_serialized_remove_callback).callback)
      OBVIOUS
    <3>2. c \in CallbackRecords /\ reg = Append(Loaded, c)
      BY <2>1, <2>3, <3>1 DEF Removal, Callback, CallbackRecords, Entries
    <3>3. Len(reg) = Len(Loaded) + 1 /\ Len(Loaded) = 6
      <4>1. Loaded \in Seq(CallbackRecords) /\ Len(Loaded) = 6
        BY LoadedFacts
      <4> QED BY ONLY <3>2, <4>1, Appended
    <3>4. expected = 1
      BY <2>1, <2>3 DEF SyncOK, InSync
    <3> QED BY <2>2, <2>3, <3>3, <3>4 DEF Quiet, Counts
  <2>4. CASE ~Waiting
    <3>1. expected = 0
      BY <2>2, <2>4, EmptySeq DEF Quiet
    <3>2. Len(reg) = 6 /\ Len(Loaded) = 6
      BY <2>4, LoadedFacts DEF Waiting
    <3> QED BY <2>2, <2>4, <3>1, <3>2 DEF Quiet, Counts
  <2> QED BY <2>3, <2>4
<1> QED BY <1>1, SerializeInvariant, PTL

(***************************************************************************)
(* When reclaim gives `data' back, its owner finds what the consumer last  *)
(* wrote in its serialised form, the copy of memory that nobody wrote if   *)
(* it asked for values and got none, else what it shared: until a removal  *)
(* or a share fails or is nested, or others release `serialized'.          *)
(***************************************************************************)
THEOREM OwnerGetsWrites == Spec => WritesReachTheOwner
<1> DEFINE A == GivesBack /\ ~again /\ ~broken => Last(data).val = Delivered
<1>1. SerializeInv /\ [Next]_vars => [A]_vars
  <2> SUFFICES ASSUME SerializeInv, Next, ~again, ~broken, calls # <<>>,
                      IsCall(Inner, "remove", "data"), Len(data') < Len(data)
               PROVE  Last(data).val = Delivered
    BY DEF GivesBack, IsCall
  <2>1. /\ TypeOK /\ Len(data) \in Nat /\ data \in Seq(Shares)
    BY InvFacts DEF TypeOK
  <2>2. PICK f : calls = <<f>> /\ FrameOK(f) /\ Reclaiming(f)
    BY InnerFacts
  <2>3. Inner = f /\ data # <<>>
    BY <2>2, OneCall DEF Reclaiming
  <2>4. ~(UNCHANGED data)
    BY <2>1
  <2>5. ~Other
    <3> SUFFICES ASSUME Other PROVE FALSE
      OBVIOUS
    <3>1. data' = data \/ data' \in Locking(data)
      BY DEF Other
    <3>2. OnlyLocks
      BY <2>1, <2>3, <2>4, <3>1, LockingLocks
    <3> QED BY <2>1, <3>2 DEF OnlyLocks
  <2>6. ~ReleaseSerialized
    <3> SUFFICES ASSUME ReleaseSerialized PROVE FALSE
      OBVIOUS
    <3>1. data' = DeserializeCopy(data, serialized) /\ serialized # <<>>
      BY <2>4 DEF ReleaseSerialized
    <3>2. PICK v : v = Last(serialized).val
      OBVIOUS
    <3>3. v \in {"user", "plugin", "unset"}
      <4>1. Last(serialized) \in Shares
        BY <2>1, <3>1, LastFacts DEF TypeOK
      <4> QED BY <3>2, <4>1 DEF Shares
    <3>4. data' = Written(data, v)
      BY <3>1, <3>2 DEF DeserializeCopy, Written
    <3>5. Len(data') = Len(data)
      BY ONLY <2>1, <2>3, <3>3, <3>4, WrittenFacts
    <3> QED BY <2>1, <3>5
  <2>7. ReclaimDataEnd
    <3>1. ~ShareDataEnd
      BY DEF ShareDataEnd, IsCall
    <3>2. ~Event /\ ~\E right \in Rights : ShareData(right)
      BY DEF Event, ShareData
    <3>3. ~ReclaimData /\ ~ReleaseSerializedAlone /\ ~Consume /\ ~CallDangling
      BY <2>4 DEF ReclaimData, ReleaseSerializedAlone, Consume, CallDangling
    <3>4. ~ShareSerialized /\ ~ShareSerializedEnd /\ ~ReleaseSerializedEnd
      BY <2>4 DEF ShareSerialized, ShareSerializedEnd, ReleaseSerializedEnd
    <3> QED BY <2>5, <2>6, <3>1, <3>2, <3>3, <3>4 DEF Next
  <2>8. ~f.failed /\ f.todo = <<>>
    BY <2>3, <2>4, <2>7 DEF ReclaimDataEnd
  <2>9. ~HasSerialize(f)
    BY <2>8 DEF HasSerialize
  <2>10. Settled
    BY <2>2, <2>8, <2>9 DEF Reclaiming
  <2> QED BY <2>3, <2>10 DEF Settled, Owner
<1> QED BY <1>1, SerializeInvariant, PTL DEF WritesReachTheOwner, Spec

=============================================================================

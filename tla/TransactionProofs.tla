------------------------- MODULE TransactionProofs -------------------------
(***************************************************************************)
(* Theorems about the C API above the store, for every set of names, every *)
(* list of names and every nesting of calls in callbacks.                  *)
(***************************************************************************)
EXTENDS Transaction, FiniteSetTheorems, SequenceTheorems, TLAPS

-----------------------------------------------------------------------------
(* The inductive invariant *)

Transactions == {NoName, "t"}

TypeOK ==
    /\ initialized \in BOOLEAN
    /\ shared \in [Names -> Int]
    /\ mine \in [Names -> Nat] /\ left \in [Names -> Nat]
    /\ g_transaction \in Transactions
    /\ g_transaction_data \in Seq(Names)
    /\ calls \in Seq(Frames)

\* PDI_share and PDI_expose of one name.
SingleOK(f) ==
    /\ f.pc \in {"next", "share", "reclaim"}
    /\ f.todo # <<>> => f.pc = "next" /\ Len(f.todo) = 1 /\ f.done = <<>> /\ f.status = "ok" /\ ~f.fired
    /\ f.pc = "share" => f.done = <<>> /\ ~f.fired
    /\ f.pc = "reclaim" => f.fired /\ f.done = <<f.name>>
    /\ f.pc = "next" /\ f.todo = <<>> =>
          f.done = <<>> \/ (~f.fired /\ f.status = "ok" /\ Len(f.done) = 1)
    /\ f.pc = "next" /\ f.todo = <<>> /\ f.status = "ok" /\ ~f.fired => Len(f.done) = 1

\* The shapes that the frames of each function have.
FrameOK(f) ==
    /\ f.op # "begin"
    /\ f.pc \in {"share", "reclaim"} => f.name \in Names
    /\ f.op \in {"init", "finalize", "event"} => f.todo = <<>> /\ f.done = <<>> /\ f.pc = "event"
    /\ f.op = "end" => f.todo = <<>> /\ f.done = <<>> /\ f.pc \in {"event", "iterate", "reclaim"}
    /\ f.op = "reclaim" =>
          /\ f.todo = <<>> /\ f.pc \in {"reclaim", "next"}
          /\ f.pc = "next" => f.done = <<>>
          /\ f.pc = "reclaim" => f.done = <<f.name>> \/ (f.done = <<>> /\ f.refused)
    /\ f.op \in {"share", "expose"} => SingleOK(f)
    /\ f.op = "share" => ~f.fired
    /\ f.op = "multi" =>
          /\ f.pc \in {"next", "share", "event", "reclaim"}
          /\ f.pc = "reclaim" => f.done # <<>> /\ Last(f.done) = f.name

CallsOK == \A i \in DOMAIN calls : FrameOK(calls[i])

\* These are called by the program only.
Outermost == \A i \in DOMAIN calls : calls[i].op \in {"init", "finalize", "end"} => i = 1

\* Where PDI_transaction_end is in the list.
Position(f) == IF f.base = 0 THEN Len(g_transaction_data) ELSE f.base - 1

\* PDI_transaction_end walks alone over the list of an open transaction;
\* PDI_finalize forgot the transaction.
WalkOK ==
    /\ calls # <<>> /\ calls[1].op = "end" =>
          /\ Open
          /\ calls[1].name = NoName => calls[1].pc # "reclaim" /\ calls[1].base = 0
          /\ calls[1].name # NoName =>
                /\ Len(calls) = 1 /\ calls[1].pc # "event"
                /\ Position(calls[1]) \in 1 .. Len(g_transaction_data)
                /\ g_transaction_data[Position(calls[1])] = calls[1].name
    /\ calls # <<>> /\ calls[1].op = "finalize" => ~Open

\* Only a transaction defers.
DataInTransaction == ~Open => g_transaction_data = <<>>

HeldFinite == \A n \in Names : IsFiniteSet(Held(n))

ShareInv ==
    /\ TypeOK /\ CallsOK /\ Outermost /\ WalkOK /\ DataInTransaction /\ HeldFinite
    /\ EveryShareHasAReclaimer

-----------------------------------------------------------------------------
(* The stack of calls *)

Below == 1 .. (Len(calls) - 1)

\* A call is pushed.
LEMMA Pushes ==
    ASSUME TypeOK, CallsOK, Outermost, NEW g \in Frames, FrameOK(g), Start(g),
           g.op \in {"init", "finalize", "end"} => calls = <<>>
    PROVE  /\ calls' \in Seq(Frames) /\ CallsOK' /\ Outermost'
           /\ Len(calls') = Len(calls) + 1 /\ Len(calls) \in Nat
           /\ calls'[Len(calls) + 1] = g
           /\ \A i \in 1 .. Len(calls) : calls'[i] = calls[i]
           /\ calls' # <<>>
           /\ calls = <<>> => calls'[1] = g
           /\ calls # <<>> => calls'[1] = calls[1]
<1>1. calls \in Seq(Frames) /\ calls' = Append(calls, g)
  BY DEF TypeOK, Start
<1>2. /\ calls' \in Seq(Frames) /\ Len(calls') = Len(calls) + 1 /\ Len(calls) \in Nat
      /\ calls'[Len(calls) + 1] = g /\ \A i \in 1 .. Len(calls) : calls'[i] = calls[i]
      /\ DOMAIN calls' = 1 .. (Len(calls) + 1) /\ DOMAIN calls = 1 .. Len(calls)
  BY <1>1
<1>3. calls = <<>> <=> Len(calls) = 0
  BY <1>1, EmptySeq
<1>4. calls' # <<>>
  <2>1. calls' = <<>> => Len(calls') = 0
    OBVIOUS
  <2> QED BY <1>2, <2>1
<1>5. CallsOK'
  BY <1>2 DEF CallsOK
<1>6. Outermost'
  BY <1>2, <1>3 DEF Outermost
<1> QED BY <1>2, <1>3, <1>4, <1>5, <1>6

LEMMA CurrentCall ==
    ASSUME TypeOK, calls # <<>>
    PROVE  /\ Len(calls) \in Nat /\ Len(calls) > 0 /\ DOMAIN calls = 1 .. Len(calls)
           /\ Len(calls) \in 1 .. Len(calls)
           /\ Current = calls[Len(calls)] /\ Current \in Frames
<1>1. calls \in Seq(Frames)
  BY DEF TypeOK
<1>2. Len(calls) \in Nat /\ Len(calls) > 0 /\ DOMAIN calls = 1 .. Len(calls)
  BY <1>1
<1>3. Len(calls) \in 1 .. Len(calls)
  BY <1>2
<1> QED BY <1>1, <1>2, <1>3 DEF Current, Last

\* The innermost call goes on.
LEMMA Becomes ==
    ASSUME TypeOK, CallsOK, Outermost, calls # <<>>, NEW g \in Frames, FrameOK(g), Become(g), g.op = Current.op
    PROVE  /\ calls' \in Seq(Frames) /\ CallsOK' /\ Outermost'
           /\ DOMAIN calls' = 1 .. Len(calls) /\ Len(calls) \in Nat /\ Len(calls) > 0
           /\ calls'[Len(calls)] = g /\ Current = calls[Len(calls)]
           /\ \A i \in Below : calls'[i] = calls[i]
           /\ calls' # <<>>
<1> DEFINE l == Len(calls)
<1>1. calls \in Seq(Frames) /\ calls' = [calls EXCEPT ![l] = g]
  BY DEF TypeOK, Become
<1>2. l \in Nat /\ l > 0 /\ DOMAIN calls = 1 .. l /\ l \in 1 .. l /\ Current = calls[l]
  BY CurrentCall
<1>3. /\ calls' \in Seq(Frames) /\ Len(calls') = l
      /\ \A i \in 1 .. l : calls'[i] = IF i = l THEN g ELSE calls[i]
  BY ONLY <1>1, <1>2, g \in Frames, ExceptSeq
<1> HIDE DEF l
<1>4. DOMAIN calls' = 1 .. l
  BY <1>3
<1>5. calls' # <<>>
  BY <1>2, <1>3
<1>6. CallsOK'
  BY <1>2, <1>3, <1>4 DEF CallsOK
<1>7. Outermost'
  BY <1>2, <1>3, <1>4 DEF Outermost
<1>8. calls'[l] = g /\ \A i \in 1 .. (l - 1) : calls'[i] = calls[i]
  BY <1>2, <1>3
<1> QED BY <1>2, <1>3, <1>4, <1>5, <1>6, <1>7, <1>8 DEF l, Below

\* The innermost call returns.
LEMMA Returns ==
    ASSUME TypeOK, CallsOK, Outermost, calls # <<>>, calls' = Front(calls)
    PROVE  /\ calls' \in Seq(Frames) /\ CallsOK' /\ Outermost'
           /\ Len(calls') = Len(calls) - 1 /\ Len(calls) \in Nat /\ Len(calls) > 0
           /\ Current = calls[Len(calls)]
           /\ \A i \in Below : calls'[i] = calls[i]
           /\ calls' = <<>> <=> Len(calls) = 1
<1>1. calls \in Seq(Frames) /\ calls' = SubSeq(calls, 1, Len(calls) - 1)
  BY DEF TypeOK, Front
<1>2. Len(calls) \in Nat /\ Len(calls) > 0 /\ DOMAIN calls = 1 .. Len(calls) /\ Current = calls[Len(calls)]
  BY CurrentCall
<1> DEFINE l == Len(calls) - 1
           f == [i \in 1 .. l |-> calls[i]]
<1>3. l \in Nat /\ \A i \in 1 .. l : calls[i] \in Frames
  BY <1>1, <1>2
<1>4. calls' = f
  BY <1>1, <1>2
<1>5. f \in [1 .. l -> Frames]
  BY <1>3
<1> HIDE DEF l
<1>6. f \in Seq(Frames)
  BY <1>3, <1>5, SeqDef
<1>7. Len(f) = l /\ DOMAIN f = 1 .. l
  <2> HIDE DEF f
  <2> QED BY <1>3, <1>5, <1>6, LenProperties
<1>8. \A i \in 1 .. l : f[i] = calls[i]
  OBVIOUS
<1> HIDE DEF f
<1>9. calls' = <<>> <=> l = 0
  BY <1>3, <1>4, <1>6, <1>7, EmptySeq
<1>10. CallsOK'
  BY <1>2, <1>3, <1>4, <1>7, <1>8 DEF CallsOK, l
<1>11. Outermost'
  BY <1>2, <1>3, <1>4, <1>7, <1>8 DEF Outermost, l
<1> QED BY <1>2, <1>4, <1>6, <1>7, <1>8, <1>9, <1>10, <1>11 DEF l, Below

-----------------------------------------------------------------------------
(* What the calls hold *)

At(i, K) == {<<i, k>> : k \in K}

\* K is J with one more place, one place less, or one place moved.
Adds(K, J, k) == k \notin J /\ K = J \cup {k}
Drops(K, J, k) == k \in J /\ K = J \ {k}
Moves(K, J, k, m) == k \in J /\ m \notin J /\ K = (J \ {k}) \cup {m}

LEMMA HeldMember ==
    ASSUME NEW n, NEW cs
    PROVE  \A x : x \in UNION {{i} \X HeldBy(cs[i], n) : i \in DOMAIN cs}
                    <=> \E i \in DOMAIN cs : \E k \in HeldBy(cs[i], n) : x = <<i, k>>
  OBVIOUS

LEMMA HeldPushed ==
    ASSUME TypeOK, CallsOK, Outermost, NEW g \in Frames, FrameOK(g), Start(g),
           g.op \in {"init", "finalize", "end"} => calls = <<>>, NEW n
    PROVE  Held(n)' = Held(n) \cup At(Len(calls) + 1, HeldBy(g, n))
<1>1. /\ calls' \in Seq(Frames) /\ Len(calls') = Len(calls) + 1 /\ Len(calls) \in Nat
      /\ calls'[Len(calls) + 1] = g /\ \A i \in 1 .. Len(calls) : calls'[i] = calls[i]
  BY Pushes
<1>2. DOMAIN calls = 1 .. Len(calls) /\ DOMAIN calls' = 1 .. (Len(calls) + 1)
  BY <1>1 DEF TypeOK
<1>3. \A x : x \in Held(n)' <=> \E i \in 1 .. (Len(calls) + 1) : \E k \in HeldBy(calls'[i], n) : x = <<i, k>>
  BY <1>2, HeldMember DEF Held
<1>4. \A x : x \in Held(n) <=> \E i \in 1 .. Len(calls) : \E k \in HeldBy(calls[i], n) : x = <<i, k>>
  BY <1>2, HeldMember DEF Held
<1>5. \A i \in 1 .. (Len(calls) + 1) : i \in 1 .. Len(calls) \/ i = Len(calls) + 1
  BY <1>1
<1>6. 1 .. Len(calls) \subseteq 1 .. (Len(calls) + 1) /\ Len(calls) + 1 \in 1 .. (Len(calls) + 1)
  BY <1>1
<1> QED BY <1>1, <1>3, <1>4, <1>5, <1>6 DEF At

LEMMA HeldBecomes ==
    ASSUME TypeOK, CallsOK, Outermost, calls # <<>>, NEW g \in Frames, FrameOK(g), Become(g), g.op = Current.op, NEW n
    PROVE  /\ Held(n)' = (Held(n) \ At(Len(calls), HeldBy(Current, n))) \cup At(Len(calls), HeldBy(g, n))
           /\ At(Len(calls), HeldBy(Current, n)) \subseteq Held(n)
           /\ \A k : <<Len(calls), k>> \in Held(n) <=> k \in HeldBy(Current, n)
<1>1. /\ DOMAIN calls' = 1 .. Len(calls) /\ Len(calls) \in Nat /\ Len(calls) > 0
      /\ calls'[Len(calls)] = g /\ Current = calls[Len(calls)] /\ \A i \in Below : calls'[i] = calls[i]
  BY Becomes
<1>2. DOMAIN calls = 1 .. Len(calls) /\ DOMAIN calls' = 1 .. Len(calls)
  BY <1>1 DEF TypeOK
<1>3. \A x : x \in Held(n)' <=> \E i \in 1 .. Len(calls) : \E k \in HeldBy(calls'[i], n) : x = <<i, k>>
  BY <1>2, HeldMember DEF Held
<1>4. \A x : x \in Held(n) <=> \E i \in 1 .. Len(calls) : \E k \in HeldBy(calls[i], n) : x = <<i, k>>
  BY <1>2, HeldMember DEF Held
<1>5. \A i \in 1 .. Len(calls) : (i \in Below /\ i # Len(calls)) \/ i = Len(calls)
  BY <1>1 DEF Below
<1>6. Len(calls) \in 1 .. Len(calls)
  BY <1>1
<1>7. \A k : <<Len(calls), k>> \in Held(n) <=> k \in HeldBy(Current, n)
  BY <1>1, <1>4, <1>6
<1>8. At(Len(calls), HeldBy(Current, n)) \subseteq Held(n)
  BY <1>7 DEF At
<1>9. \A x : x \in Held(n)' <=> x \in (Held(n) \ At(Len(calls), HeldBy(Current, n))) \/ x \in At(Len(calls), HeldBy(g, n))
  <2> SUFFICES ASSUME NEW x
               PROVE  x \in Held(n)' <=> (x \in Held(n) /\ x \notin At(Len(calls), HeldBy(Current, n))) \/ x \in At(Len(calls), HeldBy(g, n))
    OBVIOUS
  <2>1. ASSUME NEW i \in Below, NEW k
        PROVE  <<i, k>> \notin At(Len(calls), HeldBy(Current, n))
    BY <1>1 DEF At, Below
  <2>2. Below \subseteq 1 .. Len(calls)
    BY <1>1 DEF Below
  <2> QED BY <1>1, <1>3, <1>4, <1>5, <1>6, <2>1, <2>2 DEF At
<1> QED BY <1>7, <1>8, <1>9

LEMMA HeldReturns ==
    ASSUME TypeOK, CallsOK, Outermost, calls # <<>>, calls' = Front(calls), NEW n
    PROVE  /\ Held(n)' = Held(n) \ At(Len(calls), HeldBy(Current, n))
           /\ At(Len(calls), HeldBy(Current, n)) \subseteq Held(n)
<1>1. /\ calls' \in Seq(Frames) /\ Len(calls') = Len(calls) - 1 /\ Len(calls) \in Nat /\ Len(calls) > 0
      /\ Current = calls[Len(calls)] /\ \A i \in Below : calls'[i] = calls[i]
  BY Returns
<1>2. DOMAIN calls = 1 .. Len(calls) /\ DOMAIN calls' = Below
  BY <1>1 DEF TypeOK, Below
<1>3. \A x : x \in Held(n)' <=> \E i \in Below : \E k \in HeldBy(calls'[i], n) : x = <<i, k>>
  BY <1>2, HeldMember DEF Held
<1>4. \A x : x \in Held(n) <=> \E i \in 1 .. Len(calls) : \E k \in HeldBy(calls[i], n) : x = <<i, k>>
  BY <1>2, HeldMember DEF Held
<1>5. \A i \in 1 .. Len(calls) : (i \in Below /\ i # Len(calls)) \/ i = Len(calls)
  BY <1>1 DEF Below
<1>6. Len(calls) \in 1 .. Len(calls) /\ Len(calls) \notin Below /\ Below \subseteq 1 .. Len(calls)
  BY <1>1 DEF Below
<1> QED BY <1>1, <1>3, <1>4, <1>5, <1>6 DEF At

-----------------------------------------------------------------------------
(* How much they hold *)

LEMMA HeldType ==
    ASSUME HeldFinite, NEW n \in Names
    PROVE  IsFiniteSet(Held(n)) /\ HeldByCalls(n) \in Nat
<1>1. IsFiniteSet(Held(n))
  BY DEF HeldFinite
<1> QED BY <1>1, FS_CardinalityType DEF HeldByCalls

\* The innermost call goes on, and holds the same data as before.
LEMMA BecomesSame ==
    ASSUME TypeOK, CallsOK, Outermost, HeldFinite, calls # <<>>, NEW g \in Frames, FrameOK(g), Become(g),
           g.op = Current.op, NEW n \in Names, HeldBy(g, n) = HeldBy(Current, n)
    PROVE  IsFiniteSet(Held(n))' /\ HeldByCalls(n)' = HeldByCalls(n)
<1>1. Held(n)' = (Held(n) \ At(Len(calls), HeldBy(Current, n))) \cup At(Len(calls), HeldBy(g, n))
      /\ At(Len(calls), HeldBy(Current, n)) \subseteq Held(n)
  BY HeldBecomes
<1>2. Held(n)' = Held(n)
  BY <1>1, Zenon
<1> QED BY <1>2, HeldType DEF HeldByCalls

\* It holds one more.
LEMMA BecomesMore ==
    ASSUME TypeOK, CallsOK, Outermost, HeldFinite, calls # <<>>, NEW g \in Frames, FrameOK(g), Become(g),
           g.op = Current.op, NEW n \in Names, NEW k, Adds(HeldBy(g, n), HeldBy(Current, n), k)
    PROVE  IsFiniteSet(Held(n))' /\ HeldByCalls(n)' = HeldByCalls(n) + 1
<1> DEFINE x == <<Len(calls), k>>
<1>1. Held(n)' = (Held(n) \ At(Len(calls), HeldBy(Current, n))) \cup At(Len(calls), HeldBy(g, n))
      /\ At(Len(calls), HeldBy(Current, n)) \subseteq Held(n)
      /\ \A j : <<Len(calls), j>> \in Held(n) <=> j \in HeldBy(Current, n)
  BY HeldBecomes
<1>2. At(Len(calls), HeldBy(g, n)) = At(Len(calls), HeldBy(Current, n)) \cup {x}
  BY DEF At, Adds
<1>3. x \notin Held(n)
  BY <1>1 DEF Adds
<1> HIDE DEF x
<1>4. Held(n)' = Held(n) \cup {x}
  BY <1>1, <1>2
<1>5. IsFiniteSet(Held(n) \cup {x}) /\ Cardinality(Held(n) \cup {x}) = Cardinality(Held(n)) + 1
  BY <1>3, HeldType, FS_AddElement
<1> QED BY <1>4, <1>5 DEF HeldByCalls

\* It holds one less.
LEMMA BecomesLess ==
    ASSUME TypeOK, CallsOK, Outermost, HeldFinite, calls # <<>>, NEW g \in Frames, FrameOK(g), Become(g),
           g.op = Current.op, NEW n \in Names, NEW k, Drops(HeldBy(g, n), HeldBy(Current, n), k)
    PROVE  IsFiniteSet(Held(n))' /\ HeldByCalls(n)' = HeldByCalls(n) - 1
<1> DEFINE x == <<Len(calls), k>>
<1>1. Held(n)' = (Held(n) \ At(Len(calls), HeldBy(Current, n))) \cup At(Len(calls), HeldBy(g, n))
      /\ At(Len(calls), HeldBy(Current, n)) \subseteq Held(n)
      /\ \A j : <<Len(calls), j>> \in Held(n) <=> j \in HeldBy(Current, n)
  BY HeldBecomes
<1>2. At(Len(calls), HeldBy(g, n)) = At(Len(calls), HeldBy(Current, n)) \ {x}
  BY DEF At, Drops
<1>3. x \in Held(n) /\ x \in At(Len(calls), HeldBy(Current, n))
  BY <1>1 DEF At, Drops
<1> HIDE DEF x
<1>4. Held(n)' = Held(n) \ {x}
  BY <1>1, <1>2, <1>3
<1>5. IsFiniteSet(Held(n) \ {x}) /\ Cardinality(Held(n) \ {x}) = Cardinality(Held(n)) - 1
  BY <1>3, HeldType, FS_RemoveElement
<1> QED BY <1>4, <1>5 DEF HeldByCalls

\* It holds one at another place.
LEMMA BecomesMoved ==
    ASSUME TypeOK, CallsOK, Outermost, HeldFinite, calls # <<>>, NEW g \in Frames, FrameOK(g), Become(g),
           g.op = Current.op, NEW n \in Names, NEW k, NEW m,
           Moves(HeldBy(g, n), HeldBy(Current, n), k, m)
    PROVE  IsFiniteSet(Held(n))' /\ HeldByCalls(n)' = HeldByCalls(n)
<1> DEFINE x == <<Len(calls), k>>
           y == <<Len(calls), m>>
<1>1. Held(n)' = (Held(n) \ At(Len(calls), HeldBy(Current, n))) \cup At(Len(calls), HeldBy(g, n))
      /\ At(Len(calls), HeldBy(Current, n)) \subseteq Held(n)
      /\ \A j : <<Len(calls), j>> \in Held(n) <=> j \in HeldBy(Current, n)
  BY HeldBecomes
<1>2. At(Len(calls), HeldBy(g, n)) = (At(Len(calls), HeldBy(Current, n)) \ {x}) \cup {y}
  BY DEF At, Moves
<1>3. x \in Held(n) /\ x \in At(Len(calls), HeldBy(Current, n)) /\ y \notin Held(n)
  BY <1>1 DEF At, Moves
<1> HIDE DEF x, y
<1> DEFINE R == Held(n) \ {x}
<1>4. Held(n)' = R \cup {y} /\ y \notin R
  BY <1>1, <1>2, <1>3
<1>5. IsFiniteSet(R) /\ Cardinality(R) = Cardinality(Held(n)) - 1 /\ Cardinality(Held(n)) \in Nat
  BY <1>3, HeldType, FS_RemoveElement, FS_CardinalityType
<1> HIDE DEF R
<1>6. IsFiniteSet(R \cup {y}) /\ Cardinality(R \cup {y}) = Cardinality(R) + 1
  BY <1>4, <1>5, FS_AddElement
<1> QED BY <1>4, <1>5, <1>6 DEF HeldByCalls

\* A call that holds nothing starts.
LEMMA PushesNothing ==
    ASSUME TypeOK, CallsOK, Outermost, HeldFinite, NEW g \in Frames, FrameOK(g), Start(g),
           g.op \in {"init", "finalize", "end"} => calls = <<>>, NEW n \in Names, HeldBy(g, n) = {}
    PROVE  IsFiniteSet(Held(n))' /\ HeldByCalls(n)' = HeldByCalls(n)
<1>1. Held(n)' = Held(n) \cup At(Len(calls) + 1, HeldBy(g, n))
  BY HeldPushed
<1>2. Held(n)' = Held(n)
  BY <1>1 DEF At
<1> QED BY <1>2, HeldType DEF HeldByCalls

\* A call that holds one data starts.
LEMMA PushesOne ==
    ASSUME TypeOK, CallsOK, Outermost, HeldFinite, NEW g \in Frames, FrameOK(g), Start(g),
           g.op \in {"init", "finalize", "end"} => calls = <<>>, NEW n \in Names, NEW k, HeldBy(g, n) = {k}
    PROVE  IsFiniteSet(Held(n))' /\ HeldByCalls(n)' = HeldByCalls(n) + 1
<1> DEFINE x == <<Len(calls) + 1, k>>
<1>1. Held(n)' = Held(n) \cup {x}
  <2>1. Held(n)' = Held(n) \cup At(Len(calls) + 1, HeldBy(g, n))
    BY HeldPushed
  <2> QED BY <2>1 DEF At
<1>2. x \notin Held(n)
  <2>1. \A y : y \in Held(n) <=> \E i \in DOMAIN calls : \E j \in HeldBy(calls[i], n) : y = <<i, j>>
    BY HeldMember DEF Held
  <2>2. Len(calls) \in Nat /\ DOMAIN calls = 1 .. Len(calls)
    BY DEF TypeOK
  <2> QED BY <2>1, <2>2
<1> HIDE DEF x
<1>3. IsFiniteSet(Held(n) \cup {x}) /\ Cardinality(Held(n) \cup {x}) = Cardinality(Held(n)) + 1
  BY <1>2, HeldType, FS_AddElement
<1> QED BY <1>1, <1>3 DEF HeldByCalls

\* A call that holds nothing returns.
LEMMA ReturnsNothing ==
    ASSUME TypeOK, CallsOK, Outermost, HeldFinite, calls # <<>>, calls' = Front(calls), NEW n \in Names,
           HeldBy(Current, n) = {}
    PROVE  IsFiniteSet(Held(n))' /\ HeldByCalls(n)' = HeldByCalls(n)
<1>1. Held(n)' = Held(n) \ At(Len(calls), HeldBy(Current, n))
  BY HeldReturns
<1>2. Held(n)' = Held(n)
  BY <1>1 DEF At
<1> QED BY <1>2, HeldType DEF HeldByCalls

\* A call that holds one data returns.
LEMMA ReturnsOne ==
    ASSUME TypeOK, CallsOK, Outermost, HeldFinite, calls # <<>>, calls' = Front(calls), NEW n \in Names,
           NEW k, HeldBy(Current, n) = {k}
    PROVE  IsFiniteSet(Held(n))' /\ HeldByCalls(n)' = HeldByCalls(n) - 1
<1> DEFINE x == <<Len(calls), k>>
<1>1. /\ Held(n)' = Held(n) \ At(Len(calls), HeldBy(Current, n))
      /\ At(Len(calls), HeldBy(Current, n)) \subseteq Held(n)
  BY HeldReturns
<1>2. At(Len(calls), HeldBy(Current, n)) = {x}
  BY DEF At
<1> HIDE DEF x
<1>3. x \in Held(n) /\ Held(n)' = Held(n) \ {x}
  BY <1>1, <1>2
<1>4. IsFiniteSet(Held(n) \ {x}) /\ Cardinality(Held(n) \ {x}) = Cardinality(Held(n)) - 1
  BY <1>3, HeldType, FS_RemoveElement
<1> QED BY <1>3, <1>4 DEF HeldByCalls

\* Nothing is held when no call is in progress.
LEMMA NoCallHolds ==
    ASSUME NEW n, calls = <<>>
    PROVE  IsFiniteSet(Held(n)) /\ HeldByCalls(n) = 0
<1>1. Held(n) = {}
  BY DEF Held
<1> QED BY <1>1, FS_EmptySet DEF HeldByCalls

LEMMA NoCallHoldsNext ==
    ASSUME NEW n, calls' = <<>>
    PROVE  IsFiniteSet(Held(n)') /\ HeldByCalls(n)' = 0
<1>1. Held(n)' = {}
  BY DEF Held
<1> QED BY <1>1, FS_EmptySet DEF HeldByCalls

-----------------------------------------------------------------------------
(* Counts in the list of deferred data *)

Places(s, i, n) == {j \in 1 .. i : s[j] = n}

LEMMA PlacesFinite ==
    ASSUME NEW s, NEW i \in Nat, NEW n
    PROVE  IsFiniteSet(Places(s, i, n)) /\ Cardinality(Places(s, i, n)) \in Nat
<1>1. IsFiniteSet(1 .. i)
  BY FS_Interval
<1>2. Places(s, i, n) \subseteq 1 .. i
  BY DEF Places
<1>3. IsFiniteSet(Places(s, i, n))
  BY <1>1, <1>2, FS_Subset
<1> QED BY <1>3, FS_CardinalityType

LEMMA PlacesNext ==
    ASSUME NEW s, NEW i \in Nat, i > 0, NEW n
    PROVE  Cardinality(Places(s, i, n)) = Cardinality(Places(s, i - 1, n)) + (IF s[i] = n THEN 1 ELSE 0)
<1>1. i - 1 \in Nat
  OBVIOUS
<1>2. IsFiniteSet(Places(s, i - 1, n)) /\ Cardinality(Places(s, i - 1, n)) \in Nat
  BY ONLY <1>1, PlacesFinite
<1>3. i \notin Places(s, i - 1, n)
  BY DEF Places
<1>4. CASE s[i] = n
  <2>1. Places(s, i, n) = Places(s, i - 1, n) \cup {i}
    BY <1>4 DEF Places
  <2>2. Cardinality(Places(s, i - 1, n) \cup {i}) = Cardinality(Places(s, i - 1, n)) + 1
    BY <1>2, <1>3, FS_AddElement
  <2> QED BY <1>4, <2>1, <2>2
<1>5. CASE s[i] # n
  <2>1. Places(s, i, n) = Places(s, i - 1, n)
    <3>1. \A j \in 1 .. i : j \in 1 .. (i - 1) \/ j = i
      OBVIOUS
    <3>2. 1 .. (i - 1) \subseteq 1 .. i
      OBVIOUS
    <3> QED BY <1>5, <3>1, <3>2 DEF Places
  <2> QED BY <1>2, <1>5, <2>1
<1> QED BY <1>4, <1>5

LEMMA CountPlaces ==
    ASSUME NEW s \in Seq(Names), NEW n
    PROVE  Count(s, n) = Cardinality(Places(s, Len(s), n)) /\ Count(s, n) \in Nat
<1>1. DOMAIN s = 1 .. Len(s) /\ Len(s) \in Nat
  OBVIOUS
<1>2. Count(s, n) = Cardinality(Places(s, Len(s), n))
  BY <1>1 DEF Count, Places
<1> QED BY <1>1, <1>2, PlacesFinite

LEMMA CountEmpty ==
    ASSUME NEW n
    PROVE  Count(<<>>, n) = 0
<1>1. {i \in DOMAIN <<>> : <<>>[i] = n} = {}
  OBVIOUS
<1> QED BY <1>1, FS_EmptySet DEF Count

LEMMA CountAppend ==
    ASSUME NEW s \in Seq(Names), NEW x \in Names, NEW n
    PROVE  Count(Append(s, x), n) = Count(s, n) + (IF x = n THEN 1 ELSE 0)
<1> DEFINE t == Append(s, x)
           l == Len(s)
<1>1. t \in Seq(Names) /\ Len(t) = l + 1 /\ t[l + 1] = x /\ l \in Nat /\ \A i \in 1 .. l : t[i] = s[i]
  OBVIOUS
<1> HIDE DEF t
<1>2. Count(t, n) = Cardinality(Places(t, l + 1, n))
  BY <1>1, CountPlaces
<1>3. Count(s, n) = Cardinality(Places(s, l, n))
  BY CountPlaces
<1> HIDE DEF l
<1>4. Places(t, l, n) = Places(s, l, n)
  BY <1>1 DEF Places
<1>5. l + 1 \in Nat /\ l + 1 > 0 /\ (l + 1) - 1 = l
  BY <1>1
<1>6. Cardinality(Places(t, l + 1, n)) = Cardinality(Places(t, (l + 1) - 1, n)) + (IF t[l + 1] = n THEN 1 ELSE 0)
  BY ONLY <1>5, PlacesNext
<1> QED BY <1>1, <1>2, <1>3, <1>4, <1>5, <1>6 DEF t

\* The data before a place of the list.
LEMMA CountPrefix ==
    ASSUME NEW s \in Seq(Names), NEW i \in 0 .. Len(s), NEW n
    PROVE  /\ SubSeq(s, 1, i) \in Seq(Names)
           /\ Count(SubSeq(s, 1, i), n) = Cardinality(Places(s, i, n))
<1> DEFINE t == SubSeq(s, 1, i)
           f == [j \in 1 .. i |-> s[j]]
<1>1. i \in Nat /\ \A j \in 1 .. i : s[j] \in Names
  OBVIOUS
<1>2. t = f
  BY <1>1
<1>3. f \in [1 .. i -> Names]
  BY <1>1
<1>4. f \in Seq(Names)
  BY <1>1, <1>3, SeqDef
<1>5. Len(f) = i
  <2> HIDE DEF f
  <2> QED BY <1>1, <1>3, <1>4, LenProperties
<1>6. Places(f, i, n) = Places(s, i, n)
  BY DEF Places
<1> HIDE DEF f
<1>7. Count(f, n) = Cardinality(Places(f, i, n))
  BY <1>4, <1>5, CountPlaces
<1> QED BY <1>2, <1>4, <1>6, <1>7

LEMMA CountWhole ==
    ASSUME NEW s \in Seq(Names), NEW i \in 1 .. Len(s), NEW n
    PROVE  /\ Count(SubSeq(s, 1, i), n) = Count(SubSeq(s, 1, i - 1), n) + (IF s[i] = n THEN 1 ELSE 0)
           /\ Count(SubSeq(s, 1, Len(s)), n) = Count(s, n)
           /\ SubSeq(s, 1, i) \in Seq(Names) /\ SubSeq(s, 1, i - 1) \in Seq(Names)
           /\ Count(SubSeq(s, 1, 0), n) = 0
<1>1. i \in Nat /\ i > 0 /\ i \in 0 .. Len(s) /\ i - 1 \in 0 .. Len(s) /\ Len(s) \in 0 .. Len(s) /\ 0 \in 0 .. Len(s)
  OBVIOUS
<1>2. Count(SubSeq(s, 1, i), n) = Cardinality(Places(s, i, n)) /\ SubSeq(s, 1, i) \in Seq(Names)
  BY <1>1, CountPrefix
<1>3. Count(SubSeq(s, 1, i - 1), n) = Cardinality(Places(s, i - 1, n)) /\ SubSeq(s, 1, i - 1) \in Seq(Names)
  BY <1>1, CountPrefix
<1>4. Count(SubSeq(s, 1, Len(s)), n) = Cardinality(Places(s, Len(s), n))
  BY <1>1, CountPrefix
<1>5. Count(s, n) = Cardinality(Places(s, Len(s), n))
  BY CountPlaces
<1>6. Cardinality(Places(s, i, n)) = Cardinality(Places(s, i - 1, n)) + (IF s[i] = n THEN 1 ELSE 0)
  BY ONLY <1>1, PlacesNext
<1>7. Count(SubSeq(s, 1, 0), n) = 0
  <2>1. Places(s, 0, n) = {}
    BY DEF Places
  <2>2. Count(SubSeq(s, 1, 0), n) = Cardinality(Places(s, 0, n))
    BY <1>1, CountPrefix
  <2> QED BY <2>1, <2>2, FS_EmptySet
<1> QED BY <1>2, <1>3, <1>4, <1>5, <1>6, <1>7

-----------------------------------------------------------------------------
(* Frames *)

\* What a frame holds depends on a few fields.
LEMMA HeldByDone ==
    ASSUME NEW f \in Frames, NEW n
    PROVE  /\ f.pc # "share" => HeldBy(f, n) = {k \in 1 .. Len(f.done) : f.done[k] = n}
           /\ f.pc # "share" /\ f.done = <<>> => HeldBy(f, n) = {}
           /\ f.pc # "share" /\ f.done = <<n>> => HeldBy(f, n) = {1}
           /\ \A m : m # n /\ f.pc # "share" /\ f.done = <<m>> => HeldBy(f, n) = {}
           /\ f.pc = "share" => HeldBy(f, n) = {k \in 1 .. Len(f.done) : f.done[k] = n}
                                               \cup (IF ~f.refused /\ f.name = n THEN {0} ELSE {})
<1>1. f.done \in Seq(Names)
  BY DEF Frames
<1>2. DOMAIN f.done = 1 .. Len(f.done)
  BY <1>1
<1>3. f.pc # "share" => HeldBy(f, n) = {k \in 1 .. Len(f.done) : f.done[k] = n}
  BY <1>2 DEF HeldBy, Sharing
<1>4. f.pc = "share" => HeldBy(f, n) = {k \in 1 .. Len(f.done) : f.done[k] = n}
                                               \cup (IF ~f.refused /\ f.name = n THEN {0} ELSE {})
  BY <1>2 DEF HeldBy, Sharing
<1>5. f.pc # "share" /\ f.done = <<>> => HeldBy(f, n) = {}
  BY <1>3
<1>6. ASSUME NEW m, f.pc # "share", f.done = <<m>>
      PROVE  HeldBy(f, n) = IF m = n THEN {1} ELSE {}
  <2>1. Len(<<m>>) = 1 /\ <<m>>[1] = m
    OBVIOUS
  <2>2. HeldBy(f, n) = {k \in 1 .. 1 : f.done[k] = n}
    BY <1>3, <1>6, <2>1
  <2>3. f.done[1] = m
    BY <1>6, <2>1
  <2>4. 1 .. 1 = {1}
    OBVIOUS
  <2> QED BY <2>2, <2>3, <2>4
<1> QED BY <1>3, <1>4, <1>5, <1>6

-----------------------------------------------------------------------------
(* PDI_transaction_end and the other calls *)

Walks(cs) == cs # <<>> /\ cs[1].op = "end" /\ cs[1].name # NoName

LEMMA NotWalking ==
    /\ ~Walks(calls) => Deferred = g_transaction_data
    /\ ~Walks(calls') => Deferred' = g_transaction_data'
  BY DEF Walks, Deferred

\* While PDI_transaction_end reclaims, no other call is in progress.
LEMMA BecomesElsewhere ==
    ASSUME TypeOK, CallsOK, Outermost, WalkOK, calls # <<>>, NEW g \in Frames, FrameOK(g), Become(g),
           g.op = Current.op, Current.op # "end", g_transaction' = g_transaction
    PROVE  ~Walks(calls) /\ ~Walks(calls') /\ WalkOK'
<1> DEFINE l == Len(calls)
<1>1. /\ DOMAIN calls' = 1 .. l /\ l \in Nat /\ l > 0 /\ calls'[l] = g /\ Current = calls[l]
      /\ (\A i \in 1 .. (l - 1) : calls'[i] = calls[i]) /\ calls' # <<>>
  BY Becomes DEF Below
<1> HIDE DEF l
<1>2. CASE l = 1
  <2>1. calls'[1].op # "end" /\ calls[1].op # "end" /\ calls'[1].op = calls[1].op
    BY <1>1, <1>2
  <2>2. Open' = Open
    BY DEF Open
  <2> QED BY <2>1, <2>2 DEF Walks, WalkOK
<1>3. CASE l # 1
  <2>1. calls'[1] = calls[1]
    BY <1>1, <1>3
  <2>2. calls[1].op = "end" => calls[1].name = NoName /\ calls[1].pc # "reclaim" /\ calls[1].base = 0 /\ Open
    BY <1>3 DEF WalkOK, l
  <2>3. Open' = Open
    BY DEF Open
  <2> QED BY <2>1, <2>2, <2>3 DEF Walks, WalkOK
<1> QED BY <1>2, <1>3

LEMMA ReturnsElsewhere ==
    ASSUME TypeOK, CallsOK, Outermost, WalkOK, calls # <<>>, calls' = Front(calls),
           Current.op # "end", g_transaction' = g_transaction
    PROVE  ~Walks(calls) /\ ~Walks(calls') /\ WalkOK'
<1> DEFINE l == Len(calls)
<1>1. /\ l \in Nat /\ l > 0 /\ Current = calls[l]
      /\ (\A i \in 1 .. (l - 1) : calls'[i] = calls[i]) /\ (calls' = <<>> <=> l = 1)
  BY Returns DEF Below
<1> HIDE DEF l
<1>2. CASE l = 1
  <2>1. calls' = <<>> /\ calls[1].op # "end"
    BY <1>1, <1>2
  <2> QED BY <2>1 DEF Walks, WalkOK
<1>3. CASE l # 1
  <2>1. calls'[1] = calls[1]
    BY <1>1, <1>3
  <2>2. calls[1].op = "end" => calls[1].name = NoName /\ calls[1].pc # "reclaim" /\ calls[1].base = 0 /\ Open
    BY <1>3 DEF WalkOK, l
  <2>3. Open' = Open
    BY DEF Open
  <2> QED BY <2>1, <2>2, <2>3 DEF Walks, WalkOK
<1> QED BY <1>2, <1>3

\* A callback calls the API.
LEMMA PushesElsewhere ==
    ASSUME "reclaim" \notin Callers, TypeOK, CallsOK, Outermost, WalkOK, NEW g \in Frames, FrameOK(g), Start(g), MayCall,
           g.op \notin {"init", "finalize", "end"}, g_transaction' = g_transaction
    PROVE  ~Walks(calls) /\ ~Walks(calls') /\ WalkOK'
<1>1. calls' # <<>> /\ (calls = <<>> => calls'[1] = g) /\ (calls # <<>> => calls'[1] = calls[1])
  BY Pushes
<1>2. CASE calls = <<>>
  <2>1. calls'[1].op \notin {"end", "finalize"}
    BY <1>1, <1>2
  <2> QED BY <1>2, <2>1 DEF Walks, WalkOK
<1>3. CASE calls # <<>>
  <2>1. calls'[1] = calls[1]
    BY <1>1, <1>3
  <2>2. ~Walks(calls)
    <3> SUFFICES ASSUME calls[1].op = "end", calls[1].name # NoName
                 PROVE  FALSE
      BY DEF Walks
    <3>1. Len(calls) = 1 /\ calls[1].pc # "event" /\ Open
      BY <1>3 DEF WalkOK
    <3>2. Current = calls[1]
      BY <1>3, <3>1, CurrentCall
    <3>3. calls[1].pc \in Callers
      BY <1>3, <3>1, <3>2 DEF MayCall
    <3>4. calls[1].pc \in {"event", "iterate", "reclaim"}
      <4>1. 1 \in DOMAIN calls
        BY <1>3, CurrentCall
      <4> QED BY <4>1 DEF CallsOK, FrameOK
    <3> QED BY <3>1, <3>3, <3>4, TransactionAssumption
  <2>3. Open' = Open
    BY DEF Open
  <2> QED BY <1>1, <1>3, <2>1, <2>2, <2>3 DEF Walks, WalkOK
<1> QED BY <1>2, <1>3

\* The accounts stay balanced when their changes are.
LEMMA AccountsBalance ==
    ASSUME TypeOK, TypeOK', HeldFinite, HeldFinite', EveryShareHasAReclaimer,
           Deferred \in Seq(Names), Deferred' \in Seq(Names),
           \A n \in Names : shared'[n] - shared[n]
                              = (mine'[n] - mine[n]) + (left'[n] - left[n])
                                + (Count(Deferred', n) - Count(Deferred, n)) + (HeldByCalls(n)' - HeldByCalls(n))
    PROVE  EveryShareHasAReclaimer'
<1> SUFFICES ASSUME NEW n \in Names
             PROVE  shared'[n] = mine'[n] + left'[n] + Count(Deferred', n) + HeldByCalls(n)'
  BY DEF EveryShareHasAReclaimer
<1>1. shared[n] \in Int /\ shared'[n] \in Int /\ mine[n] \in Nat /\ mine'[n] \in Nat /\ left[n] \in Nat /\ left'[n] \in Nat
  BY DEF TypeOK
<1>2. Count(Deferred, n) \in Nat /\ Count(Deferred', n) \in Nat
  BY CountPlaces
<1>3. HeldByCalls(n) \in Nat
  BY HeldType
<1>4. HeldByCalls(n)' \in Nat
  <2>1. IsFiniteSet(Held(n)')
    BY DEF HeldFinite
  <2> QED BY <2>1, FS_CardinalityType DEF HeldByCalls
<1>5. shared[n] = mine[n] + left[n] + Count(Deferred, n) + HeldByCalls(n)
  BY DEF EveryShareHasAReclaimer
<1>6. shared'[n] - shared[n]
                              = (mine'[n] - mine[n]) + (left'[n] - left[n])
                                + (Count(Deferred', n) - Count(Deferred, n)) + (HeldByCalls(n)' - HeldByCalls(n))
  OBVIOUS
<1>7. /\ mine[n] \in Int /\ mine'[n] \in Int /\ left[n] \in Int /\ left'[n] \in Int
      /\ Count(Deferred, n) \in Int /\ Count(Deferred', n) \in Int /\ HeldByCalls(n) \in Int /\ HeldByCalls(n)' \in Int
  BY <1>1, <1>2, <1>3, <1>4
<1> DEFINE s == shared[n]
           a == mine[n]
           b == left[n]
           c == Count(Deferred, n)
           d == HeldByCalls(n)
           t == shared'[n]
           u == mine'[n]
           v == left'[n]
           w == Count(Deferred', n)
           x == HeldByCalls(n)'
<1>8. s = a + b + c + d /\ t - s = (u - a) + (v - b) + (w - c) + (x - d)
  BY ONLY <1>5, <1>6, Zenon
<1>9. /\ s \in Int /\ t \in Int /\ a \in Int /\ u \in Int /\ b \in Int /\ v \in Int
      /\ c \in Int /\ w \in Int /\ d \in Int /\ x \in Int
  BY ONLY <1>1, <1>7, Zenon
<1> HIDE DEF s, a, b, c, d, t, u, v, w, x
<1>10. t = u + v + w + x
  BY <1>8, <1>9
<1> QED BY <1>10, Zenon DEF t, u, v, w, x

-----------------------------------------------------------------------------
(* The invariant is preserved when a call that is not PDI_transaction_end ... *)

\* ... goes on,
LEMMA BecomesInv ==
    ASSUME ShareInv, calls # <<>>, NEW g \in Frames, FrameOK(g), Become(g), g.op = Current.op, Current.op # "end",
           UNCHANGED <<g_transaction, g_transaction_data>>, initialized' \in BOOLEAN,
           shared' \in [Names -> Int], mine' \in [Names -> Nat], left' \in [Names -> Nat], HeldFinite',
           \A n \in Names : shared'[n] - shared[n]
                              = (mine'[n] - mine[n]) + (left'[n] - left[n]) + (HeldByCalls(n)' - HeldByCalls(n))
    PROVE  ShareInv'
<1>1. TypeOK /\ CallsOK /\ Outermost /\ WalkOK /\ DataInTransaction /\ HeldFinite /\ EveryShareHasAReclaimer
  BY DEF ShareInv
<1>2. calls' \in Seq(Frames) /\ CallsOK' /\ Outermost'
  BY <1>1, Becomes
<1>3. ~Walks(calls) /\ ~Walks(calls') /\ WalkOK'
  BY <1>1, BecomesElsewhere
<1>4. TypeOK'
  BY <1>1, <1>2 DEF TypeOK
<1>5. DataInTransaction'
  BY <1>1 DEF DataInTransaction, Open
<1>6. Deferred = g_transaction_data /\ Deferred' = g_transaction_data /\ g_transaction_data \in Seq(Names)
  BY <1>1, <1>3, NotWalking DEF TypeOK
<1>7. \A n \in Names : shared'[n] - shared[n]
                         = (mine'[n] - mine[n]) + (left'[n] - left[n])
                           + (Count(Deferred', n) - Count(Deferred, n)) + (HeldByCalls(n)' - HeldByCalls(n))
  <2> SUFFICES ASSUME NEW n \in Names
               PROVE  shared'[n] - shared[n]
                         = (mine'[n] - mine[n]) + (left'[n] - left[n])
                           + (Count(Deferred', n) - Count(Deferred, n)) + (HeldByCalls(n)' - HeldByCalls(n))
    OBVIOUS
  <2>1. Count(Deferred', n) = Count(Deferred, n) /\ Count(Deferred, n) \in Nat
    BY <1>6, CountPlaces
  <2>2. mine'[n] - mine[n] \in Int /\ left'[n] - left[n] \in Int
    BY <1>1 DEF TypeOK
  <2> QED BY <2>1, <2>2
<1>8. EveryShareHasAReclaimer'
  BY <1>1, <1>4, <1>6, <1>7, AccountsBalance
<1> QED BY <1>2, <1>3, <1>4, <1>5, <1>8 DEF ShareInv

LEMMA BecomesQuietly ==
    ASSUME ShareInv, calls # <<>>, NEW g \in Frames, FrameOK(g), Become(g), g.op = Current.op, Current.op # "end",
           \A n \in Names : HeldBy(g, n) = HeldBy(Current, n),
           UNCHANGED <<initialized, shared, g_transaction, g_transaction_data, mine, left>>
    PROVE  ShareInv'
<1>1. TypeOK /\ CallsOK /\ Outermost /\ HeldFinite
  BY DEF ShareInv
<1>2. \A n \in Names : IsFiniteSet(Held(n))' /\ HeldByCalls(n)' = HeldByCalls(n) /\ HeldByCalls(n) \in Nat
  BY <1>1, BecomesSame, HeldType
<1>3. HeldFinite'
  BY <1>2 DEF HeldFinite
<1>4. \A n \in Names : shared'[n] - shared[n]
                         = (mine'[n] - mine[n]) + (left'[n] - left[n]) + (HeldByCalls(n)' - HeldByCalls(n))
  BY <1>1, <1>2 DEF TypeOK
<1>5. initialized' \in BOOLEAN /\ shared' \in [Names -> Int] /\ mine' \in [Names -> Nat] /\ left' \in [Names -> Nat]
  BY <1>1 DEF TypeOK
<1> QED BY <1>3, <1>4, <1>5, BecomesInv

\* ... returns, and maybe defers data,
LEMMA ReturnsInv ==
    ASSUME ShareInv, calls # <<>>, calls' = Front(calls), Current.op # "end",
           UNCHANGED <<initialized, shared, g_transaction, left>>, mine' \in [Names -> Nat],
           g_transaction_data' \in Seq(Names), ~Open => g_transaction_data' = g_transaction_data, HeldFinite',
           \A n \in Names : (mine'[n] - mine[n]) + (Count(g_transaction_data', n) - Count(g_transaction_data, n))
                              + (HeldByCalls(n)' - HeldByCalls(n)) = 0
    PROVE  ShareInv'
<1>1. TypeOK /\ CallsOK /\ Outermost /\ WalkOK /\ DataInTransaction /\ HeldFinite /\ EveryShareHasAReclaimer
  BY DEF ShareInv
<1>2. calls' \in Seq(Frames) /\ CallsOK' /\ Outermost'
  BY <1>1, Returns
<1>3. ~Walks(calls) /\ ~Walks(calls') /\ WalkOK'
  BY <1>1, ReturnsElsewhere
<1>4. TypeOK'
  BY <1>1, <1>2 DEF TypeOK
<1>5. DataInTransaction'
  BY <1>1 DEF DataInTransaction, Open
<1>6. Deferred = g_transaction_data /\ Deferred' = g_transaction_data' /\ g_transaction_data \in Seq(Names)
  BY <1>1, <1>3, NotWalking DEF TypeOK
<1>7. \A n \in Names : shared'[n] - shared[n]
                         = (mine'[n] - mine[n]) + (left'[n] - left[n])
                           + (Count(Deferred', n) - Count(Deferred, n)) + (HeldByCalls(n)' - HeldByCalls(n))
  <2> SUFFICES ASSUME NEW n \in Names
               PROVE  shared'[n] - shared[n]
                         = (mine'[n] - mine[n]) + (left'[n] - left[n])
                           + (Count(Deferred', n) - Count(Deferred, n)) + (HeldByCalls(n)' - HeldByCalls(n))
    OBVIOUS
  <2>1. shared'[n] - shared[n] = 0 /\ left'[n] - left[n] = 0 /\ mine'[n] - mine[n] \in Int
    BY <1>1 DEF TypeOK
  <2>2. /\ (mine'[n] - mine[n]) + (Count(g_transaction_data', n) - Count(g_transaction_data, n))
                              + (HeldByCalls(n)' - HeldByCalls(n)) = 0
    OBVIOUS
  <2> DEFINE a == mine'[n] - mine[n]
             b == Count(g_transaction_data', n) - Count(g_transaction_data, n)
             c == HeldByCalls(n)' - HeldByCalls(n)
             d == left'[n] - left[n]
             e == shared'[n] - shared[n]
  <2>3. a + b + c = 0 /\ d = 0 /\ e = 0 /\ a \in Int
    BY <2>1, <2>2
  <2> HIDE DEF a, b, c, d, e
  <2>4. e = a + d + b + c
    BY <2>3
  <2> QED BY <1>6, <2>4 DEF a, b, c, d, e
<1>8. EveryShareHasAReclaimer'
  BY <1>1, <1>4, <1>6, <1>7, AccountsBalance
<1> QED BY <1>2, <1>3, <1>4, <1>5, <1>8 DEF ShareInv

LEMMA ReturnsQuietly ==
    ASSUME ShareInv, calls # <<>>, calls' = Front(calls), Current.op # "end", \A n \in Names : HeldBy(Current, n) = {},
           UNCHANGED <<initialized, shared, g_transaction, g_transaction_data, mine, left>>
    PROVE  ShareInv'
<1>1. TypeOK /\ CallsOK /\ Outermost /\ HeldFinite
  BY DEF ShareInv
<1>2. \A n \in Names : IsFiniteSet(Held(n))' /\ HeldByCalls(n)' = HeldByCalls(n) /\ HeldByCalls(n) \in Nat
  BY <1>1, ReturnsNothing, HeldType
<1>3. HeldFinite'
  BY <1>2 DEF HeldFinite
<1>4. g_transaction_data \in Seq(Names) /\ mine \in [Names -> Nat]
  BY <1>1 DEF TypeOK
<1>5. \A n \in Names : (mine'[n] - mine[n]) + (Count(g_transaction_data', n) - Count(g_transaction_data, n))
                         + (HeldByCalls(n)' - HeldByCalls(n)) = 0
  <2> SUFFICES ASSUME NEW n \in Names
               PROVE  (mine'[n] - mine[n]) + (Count(g_transaction_data', n) - Count(g_transaction_data, n))
                         + (HeldByCalls(n)' - HeldByCalls(n)) = 0
    OBVIOUS
  <2>1. Count(g_transaction_data', n) = Count(g_transaction_data, n) /\ Count(g_transaction_data, n) \in Nat
    BY <1>4, CountPlaces
  <2> QED BY <1>2, <1>4, <2>1
<1> QED BY <1>3, <1>4, <1>5, ReturnsInv

\* ... or is started.
LEMMA StartsInv ==
    ASSUME "reclaim" \notin Callers, ShareInv, NEW g \in Frames, FrameOK(g), Start(g), MayCall,
           g.op \notin {"init", "finalize", "end"},
           UNCHANGED <<initialized, shared, g_transaction, g_transaction_data, left>>, mine' \in [Names -> Nat],
           HeldFinite', \A n \in Names : (mine'[n] - mine[n]) + (HeldByCalls(n)' - HeldByCalls(n)) = 0
    PROVE  ShareInv'
<1>1. TypeOK /\ CallsOK /\ Outermost /\ WalkOK /\ DataInTransaction /\ HeldFinite /\ EveryShareHasAReclaimer
  BY DEF ShareInv
<1>2. calls' \in Seq(Frames) /\ CallsOK' /\ Outermost'
  BY <1>1, Pushes
<1>3. ~Walks(calls) /\ ~Walks(calls') /\ WalkOK'
  BY <1>1, PushesElsewhere
<1>4. TypeOK'
  BY <1>1, <1>2 DEF TypeOK
<1>5. DataInTransaction'
  BY <1>1 DEF DataInTransaction, Open
<1>6. Deferred = g_transaction_data /\ Deferred' = g_transaction_data /\ g_transaction_data \in Seq(Names)
  BY <1>1, <1>3, NotWalking DEF TypeOK
<1>7. \A n \in Names : shared'[n] - shared[n]
                         = (mine'[n] - mine[n]) + (left'[n] - left[n])
                           + (Count(Deferred', n) - Count(Deferred, n)) + (HeldByCalls(n)' - HeldByCalls(n))
  <2> SUFFICES ASSUME NEW n \in Names
               PROVE  shared'[n] - shared[n]
                         = (mine'[n] - mine[n]) + (left'[n] - left[n])
                           + (Count(Deferred', n) - Count(Deferred, n)) + (HeldByCalls(n)' - HeldByCalls(n))
    OBVIOUS
  <2>1. Count(Deferred', n) = Count(Deferred, n) /\ Count(Deferred, n) \in Nat
    BY <1>6, CountPlaces
  <2>2. shared'[n] - shared[n] = 0 /\ left'[n] - left[n] = 0 /\ mine'[n] - mine[n] \in Int
    BY <1>1 DEF TypeOK
  <2> QED BY <2>1, <2>2
<1>8. EveryShareHasAReclaimer'
  BY <1>1, <1>4, <1>6, <1>7, AccountsBalance
<1> QED BY <1>2, <1>3, <1>4, <1>5, <1>8 DEF ShareInv

LEMMA StartsQuietly ==
    ASSUME "reclaim" \notin Callers, ShareInv, NEW g \in Frames, FrameOK(g), Start(g), MayCall,
           g.op \notin {"init", "finalize", "end"}, g.pc # "share", g.done = <<>>,
           UNCHANGED <<initialized, shared, g_transaction, g_transaction_data, mine, left>>
    PROVE  ShareInv'
<1>1. TypeOK /\ CallsOK /\ Outermost /\ HeldFinite
  BY DEF ShareInv
<1>2. \A n \in Names : HeldBy(g, n) = {}
  BY HeldByDone
<1>3. \A n \in Names : IsFiniteSet(Held(n))' /\ HeldByCalls(n)' = HeldByCalls(n) /\ HeldByCalls(n) \in Nat
  BY <1>1, <1>2, PushesNothing, HeldType
<1>4. HeldFinite'
  BY <1>3 DEF HeldFinite
<1>5. mine' \in [Names -> Nat] /\ \A n \in Names : (mine'[n] - mine[n]) + (HeldByCalls(n)' - HeldByCalls(n)) = 0
  BY <1>1, <1>3 DEF TypeOK
<1> QED BY <1>4, <1>5, StartsInv

-----------------------------------------------------------------------------
(* The calls that start *)

LEMMA EventStarts ==
    ASSUME "reclaim" \notin Callers, ShareInv, PDI_event
    PROVE  ShareInv'
<1> DEFINE f == Frame("event", <<>>, <<>>)
           g == Enter(f, "event", NoName, FALSE)
<1>1. "event" \in Ops /\ <<>> \in Seq(Names) /\ initialized \in BOOLEAN
  BY DEF Ops, ShareInv, TypeOK
<1>2. f \in Frames /\ f.op = "event" /\ f.todo = <<>> /\ f.done = <<>>
  <2>1. f = Frame("event", <<>>, <<>>)
    OBVIOUS
  <2> HIDE DEF f
  <2> QED BY ONLY <1>1, <2>1, TransactionAssumption DEF Frame, Frames, Status
<1>3. MayCall /\ Start(g) /\ UNCHANGED <<initialized, shared, g_transaction, g_transaction_data, mine, left>>
  BY DEF PDI_event, UserCall, transaction, accounts
<1>6. g = Enter(f, "event", NoName, FALSE)
  OBVIOUS
<1> HIDE DEF f, g
<1>4. g \in Frames /\ g.op = "event" /\ g.todo = <<>> /\ g.done = <<>> /\ g.pc = "event"
  <2>1. "event" \in {"share", "event", "reclaim"} /\ NoName \in Names \cup {NoName} /\ FALSE \in BOOLEAN
    OBVIOUS
  <2> QED BY ONLY <1>1, <1>2, <1>6, <2>1 DEF Enter, Frames
<1>5. FrameOK(g)
  BY <1>4 DEF FrameOK
<1>7. g.op \notin {"init", "finalize", "end"} /\ g.pc # "share"
  BY <1>4
<1> QED BY <1>3, <1>4, <1>5, <1>7, StartsQuietly

LEMMA ShareStarts ==
    ASSUME "reclaim" \notin Callers, ShareInv, NEW n \in Names, PDI_share(n)
    PROVE  ShareInv'
<1> DEFINE g == Frame("share", <<n>>, <<>>)
<1>1. "share" \in Ops /\ <<>> \in Seq(Names) /\ <<n>> \in Seq(Names)
  BY DEF Ops
<1>2. MayCall /\ Start(g) /\ UNCHANGED <<initialized, shared, g_transaction, g_transaction_data, mine, left>>
  BY DEF PDI_share, UserCall, transaction, accounts
<1>3. /\ g \in Frames /\ g.op = "share" /\ g.todo = <<n>> /\ g.done = <<>> /\ g.pc = "next"
      /\ g.status = "ok" /\ g.fired = FALSE
  <2>1. g = Frame("share", <<n>>, <<>>)
    OBVIOUS
  <2> HIDE DEF g
  <2> QED BY ONLY <1>1, <2>1, TransactionAssumption DEF Frame, Frames, Status
<1> HIDE DEF g
<1>4. Len(<<n>>) = 1 /\ <<n>> # <<>>
  OBVIOUS
<1>5. FrameOK(g)
  BY <1>3, <1>4 DEF FrameOK, SingleOK
<1>6. g.op \notin {"init", "finalize", "end"} /\ g.pc # "share"
  BY <1>3
<1> QED BY <1>2, <1>3, <1>5, <1>6, StartsQuietly

LEMMA ExposeStarts ==
    ASSUME "reclaim" \notin Callers, ShareInv, NEW n \in Names, PDI_expose(n)
    PROVE  ShareInv'
<1> DEFINE g == Frame("expose", <<n>>, <<>>)
<1>1. "expose" \in Ops /\ <<>> \in Seq(Names) /\ <<n>> \in Seq(Names)
  BY DEF Ops
<1>2. MayCall /\ Start(g) /\ UNCHANGED <<initialized, shared, g_transaction, g_transaction_data, mine, left>>
  BY DEF PDI_expose, UserCall, transaction, accounts
<1>3. /\ g \in Frames /\ g.op = "expose" /\ g.todo = <<n>> /\ g.done = <<>> /\ g.pc = "next"
      /\ g.status = "ok" /\ g.fired = FALSE
  <2>1. g = Frame("expose", <<n>>, <<>>)
    OBVIOUS
  <2> HIDE DEF g
  <2> QED BY ONLY <1>1, <2>1, TransactionAssumption DEF Frame, Frames, Status
<1> HIDE DEF g
<1>4. Len(<<n>>) = 1 /\ <<n>> # <<>>
  OBVIOUS
<1>5. FrameOK(g)
  BY <1>3, <1>4 DEF FrameOK, SingleOK
<1>6. g.op \notin {"init", "finalize", "end"} /\ g.pc # "share"
  BY <1>3
<1> QED BY <1>2, <1>3, <1>5, <1>6, StartsQuietly

LEMMA MultiStarts ==
    ASSUME "reclaim" \notin Callers, ShareInv, NEW s \in Multi, PDI_multi_expose(s)
    PROVE  ShareInv'
<1> DEFINE g == Frame("multi", s, <<>>)
<1>1. "multi" \in Ops /\ <<>> \in Seq(Names) /\ s \in Seq(Names)
  BY TransactionAssumption DEF Ops
<1>2. MayCall /\ Start(g) /\ UNCHANGED <<initialized, shared, g_transaction, g_transaction_data, mine, left>>
  BY DEF PDI_multi_expose, UserCall, transaction, accounts
<1>3. g \in Frames /\ g.op = "multi" /\ g.done = <<>> /\ g.pc = "next"
  <2>1. g = Frame("multi", s, <<>>)
    OBVIOUS
  <2> HIDE DEF g
  <2> QED BY ONLY <1>1, <2>1, TransactionAssumption DEF Frame, Frames, Status
<1> HIDE DEF g
<1>4. FrameOK(g)
  BY <1>3 DEF FrameOK
<1>5. g.op \notin {"init", "finalize", "end"} /\ g.pc # "share"
  BY <1>3
<1> QED BY <1>2, <1>3, <1>4, <1>5, StartsQuietly

LEMMA ReclaimStarts ==
    ASSUME "reclaim" \notin Callers, ShareInv, NEW n \in Names, PDI_reclaim(n)
    PROVE  ShareInv'
<1>1. TypeOK /\ CallsOK /\ Outermost /\ HeldFinite
  BY DEF ShareInv
<1>2. /\ initialized \in BOOLEAN /\ mine \in [Names -> Nat] /\ "reclaim" \in Ops
      /\ <<>> \in Seq(Names) /\ <<n>> \in Seq(Names) /\ (shared[n] = 0) \in BOOLEAN
      /\ n \in Names \cup {NoName} /\ "reclaim" \in {"share", "event", "reclaim"}
  BY <1>1 DEF TypeOK, Ops
<1>3. MayCall /\ UNCHANGED <<initialized, shared, g_transaction, g_transaction_data, left>>
  BY DEF PDI_reclaim, transaction
<1>4. \A m \in Names : HeldByCalls(m) \in Nat
  BY <1>1, HeldType
<1>5. CASE mine[n] > 0
  <2> DEFINE f == Frame("reclaim", <<>>, <<n>>)
             g == Enter(f, "reclaim", n, shared[n] = 0)
  <2>1. Start(g) /\ mine' = [mine EXCEPT ![n] = @ - 1]
    BY <1>5 DEF PDI_reclaim
  <2>2. f = Frame("reclaim", <<>>, <<n>>) /\ g = Enter(f, "reclaim", n, shared[n] = 0)
    OBVIOUS
  <2> HIDE DEF f, g
  <2>11. f \in Frames /\ f.op = "reclaim" /\ f.todo = <<>> /\ f.done = <<n>>
    BY ONLY <1>2, <2>2, TransactionAssumption DEF Frame, Frames, Status
  <2>3. g \in Frames /\ g.op = "reclaim" /\ g.todo = <<>> /\ g.done = <<n>> /\ g.pc = "reclaim" /\ g.name = n
    BY ONLY <1>2, <2>2, <2>11 DEF Enter, Frames
  <2>4. FrameOK(g)
    BY <2>3 DEF FrameOK
  <2>5. g.op \notin {"init", "finalize", "end"}
    BY <2>3
  <2>6. HeldBy(g, n) = {1} /\ \A m \in Names \ {n} : HeldBy(g, m) = {}
    BY <2>3, HeldByDone
  <2>7. IsFiniteSet(Held(n))' /\ HeldByCalls(n)' = HeldByCalls(n) + 1
    BY <1>1, <2>1, <2>3, <2>4, <2>5, <2>6, PushesOne
  <2>8. \A m \in Names \ {n} : IsFiniteSet(Held(m))' /\ HeldByCalls(m)' = HeldByCalls(m)
    BY <1>1, <2>1, <2>3, <2>4, <2>5, <2>6, PushesNothing
  <2>9. HeldFinite'
    BY <2>7, <2>8 DEF HeldFinite
  <2>10. mine' \in [Names -> Nat] /\ \A m \in Names : (mine'[m] - mine[m]) + (HeldByCalls(m)' - HeldByCalls(m)) = 0
    BY <1>2, <1>4, <1>5, <2>1, <2>7, <2>8
  <2> QED BY <1>3, <2>1, <2>3, <2>4, <2>5, <2>9, <2>10, StartsInv
<1>6. CASE ~(mine[n] > 0)
  <2> DEFINE f == Frame("reclaim", <<>>, <<>>)
             g == Enter(f, "reclaim", n, shared[n] = 0)
  <2>1. Start(g) /\ mine' = mine /\ shared[n] = 0
    BY <1>6 DEF PDI_reclaim
  <2>2. f = Frame("reclaim", <<>>, <<>>) /\ g = Enter(f, "reclaim", n, shared[n] = 0)
    OBVIOUS
  <2> HIDE DEF f, g
  <2>11. f \in Frames /\ f.op = "reclaim" /\ f.todo = <<>> /\ f.done = <<>>
    BY ONLY <1>2, <2>2, TransactionAssumption DEF Frame, Frames, Status
  <2>3. /\ g \in Frames /\ g.op = "reclaim" /\ g.todo = <<>> /\ g.done = <<>> /\ g.pc = "reclaim" /\ g.name = n
        /\ g.refused = (shared[n] = 0 \/ ~initialized)
    BY ONLY <1>2, <2>2, <2>11 DEF Enter, Frames
  <2>4. g.refused
    BY <2>1, <2>3
  <2>5. FrameOK(g)
    BY <2>3, <2>4 DEF FrameOK
  <2>6. g.op \notin {"init", "finalize", "end"} /\ g.pc # "share"
    BY <2>3
  <2> QED BY <1>3, <2>1, <2>3, <2>5, <2>6, StartsQuietly
<1> QED BY <1>5, <1>6

-----------------------------------------------------------------------------
(* The inner calls of the functions other than PDI_transaction_end *)

LEMMA CurrentOK ==
    ASSUME ShareInv, calls # <<>>
    PROVE  /\ TypeOK /\ CallsOK /\ Outermost /\ HeldFinite /\ initialized \in BOOLEAN
           /\ Current \in Frames /\ FrameOK(Current)
<1>1. TypeOK /\ CallsOK /\ Outermost /\ HeldFinite
  BY DEF ShareInv
<1>2. Len(calls) \in DOMAIN calls /\ Current = calls[Len(calls)] /\ Current \in Frames
  BY <1>1, CurrentCall
<1>3. FrameOK(Current)
  BY <1>1, <1>2 DEF CallsOK
<1> QED BY <1>1, <1>2, <1>3 DEF TypeOK

\* A data that is in `done' or being shared is held.
LEMMA HeldBySharing ==
    ASSUME NEW f \in Frames, NEW g \in Frames, f.pc # "share", g.pc = "share", g.done = f.done, NEW n
    PROVE  /\ ~g.refused /\ g.name = n => Adds(HeldBy(g, n), HeldBy(f, n), 0)
           /\ g.refused \/ g.name # n => HeldBy(g, n) = HeldBy(f, n)
<1> DEFINE D == {k \in 1 .. Len(f.done) : f.done[k] = n}
<1>1. HeldBy(f, n) = D
  BY HeldByDone
<1>2. HeldBy(g, n) = D \cup (IF ~g.refused /\ g.name = n THEN {0} ELSE {})
  BY HeldByDone
<1>3. 0 \notin D
  BY DEF Frames
<1> HIDE DEF D
<1> QED BY <1>1, <1>2, <1>3 DEF Adds

\* The data that was being shared is recorded.
LEMMA HeldByAppend ==
    ASSUME NEW f \in Frames, NEW g \in Frames, f.pc = "share", ~f.refused, g.pc # "share", NEW x, x = f.name,
           g.done = Append(f.done, x), NEW n
    PROVE  /\ x = n => Moves(HeldBy(g, n), HeldBy(f, n), 0, Len(f.done) + 1)
           /\ x # n => HeldBy(g, n) = HeldBy(f, n)
<1> DEFINE l == Len(f.done)
           s == f.done
<1>1. s \in Seq(Names) /\ g.done \in Seq(Names)
  BY DEF Frames
<1>2. l \in Nat /\ Len(g.done) = l + 1 /\ g.done[l + 1] = x /\ \A i \in 1 .. l : g.done[i] = s[i]
  BY <1>1
<1>3. /\ HeldBy(f, n) = {k \in 1 .. l : s[k] = n} \cup (IF ~f.refused /\ f.name = n THEN {0} ELSE {})
      /\ HeldBy(g, n) = {k \in 1 .. (l + 1) : g.done[k] = n}
  BY <1>2, HeldByDone
<1> HIDE DEF l, s
<1>4. l + 1 \notin HeldBy(f, n) /\ 0 \notin HeldBy(g, n)
  BY <1>2, <1>3
<1>5. \A k : k \in 1 .. (l + 1) <=> k \in 1 .. l \/ k = l + 1
  BY <1>2
<1>6. 0 \notin 1 .. l
  BY <1>2
<1>7. ASSUME x = n
      PROVE  Moves(HeldBy(g, n), HeldBy(f, n), 0, l + 1)
  BY <1>2, <1>3, <1>4, <1>5, <1>6, <1>7 DEF Moves
<1>8. ASSUME x # n
      PROVE  HeldBy(g, n) = HeldBy(f, n)
  BY <1>2, <1>3, <1>5, <1>8
<1> QED BY <1>7, <1>8 DEF l

\* The last data is reclaimed.
LEMMA HeldByFront ==
    ASSUME NEW f \in Frames, NEW g \in Frames, f.pc # "share", g.pc # "share", f.done # <<>>, g.done = Front(f.done), NEW n
    PROVE  /\ Last(f.done) = n => Drops(HeldBy(g, n), HeldBy(f, n), Len(f.done))
           /\ Last(f.done) # n => HeldBy(g, n) = HeldBy(f, n)
<1> DEFINE l == Len(f.done)
           s == f.done
<1>1. s \in Seq(Names) /\ g.done \in Seq(Names)
  BY DEF Frames
<1>2. l \in Nat /\ l > 0 /\ Last(f.done) = s[l] /\ g.done = SubSeq(s, 1, l - 1)
  BY <1>1 DEF Last, Front
<1>3. Len(g.done) = l - 1 /\ \A i \in 1 .. (l - 1) : g.done[i] = s[i]
  BY <1>1, <1>2
<1>4. HeldBy(f, n) = {k \in 1 .. l : s[k] = n} /\ HeldBy(g, n) = {k \in 1 .. (l - 1) : g.done[k] = n}
  BY <1>3, HeldByDone
<1> HIDE DEF l, s
<1>5. \A k : k \in 1 .. l <=> (k \in 1 .. (l - 1) \/ k = l)
  BY <1>2
<1>6. l \notin 1 .. (l - 1)
  BY <1>2
<1>7. \A k : k \in HeldBy(f, n) <=> k \in HeldBy(g, n) \/ (k = l /\ s[l] = n)
  BY <1>3, <1>4, <1>5
<1>8. l \notin HeldBy(g, n)
  BY <1>4, <1>6
<1>9. s[l] = n => Drops(HeldBy(g, n), HeldBy(f, n), l)
  BY <1>7, <1>8 DEF Drops
<1>10. s[l] # n => HeldBy(g, n) = HeldBy(f, n)
  BY <1>7
<1> QED BY <1>2, <1>9, <1>10 DEF l, s

\* The data that was being shared is popped.
LEMMA HeldByPopped ==
    ASSUME NEW f \in Frames, NEW g \in Frames, f.pc = "share", g.pc # "share", g.done = f.done, NEW n
    PROVE  /\ ~f.refused /\ f.name = n => Drops(HeldBy(g, n), HeldBy(f, n), 0)
           /\ f.refused \/ f.name # n => HeldBy(g, n) = HeldBy(f, n)
<1>1. /\ ~f.refused /\ f.name = n => Adds(HeldBy(f, n), HeldBy(g, n), 0)
      /\ f.refused \/ f.name # n => HeldBy(f, n) = HeldBy(g, n)
  BY HeldBySharing
<1> QED BY <1>1 DEF Adds, Drops

LEMMA DeferredType ==
    ASSUME ShareInv
    PROVE  Deferred \in Seq(Names) /\ \A n \in Names : Count(Deferred, n) \in Nat
<1>1. TypeOK /\ WalkOK /\ CallsOK /\ g_transaction_data \in Seq(Names)
  BY DEF ShareInv, TypeOK
<1>2. CASE ~Walks(calls)
  BY <1>1, <1>2, NotWalking, CountPlaces
<1>3. CASE Walks(calls)
  <2> DEFINE s == g_transaction_data
             i == Position(calls[1])
  <2>1. i \in 1 .. Len(s)
    BY <1>1, <1>3 DEF WalkOK, Walks
  <2>2. Deferred = SubSeq(s, 1, IF calls[1].pc = "iterate" THEN i - 1 ELSE i)
    BY <1>3 DEF Walks, Deferred, Position
  <2> HIDE DEF i
  <2>3. SubSeq(s, 1, i) \in Seq(Names) /\ SubSeq(s, 1, i - 1) \in Seq(Names)
    BY <1>1, <2>1, CountWhole
  <2>4. Deferred \in Seq(Names)
    BY <2>2, <2>3
  <2> QED BY <2>4, CountPlaces
<1> QED BY <1>2, <1>3

\* A data that the innermost call holds is in the store.
LEMMA HeldIsShared ==
    ASSUME ShareInv, calls # <<>>, NEW n \in Names, NEW k \in HeldBy(Current, n)
    PROVE  shared[n] > 0
<1>1. TypeOK /\ HeldFinite /\ EveryShareHasAReclaimer
  BY DEF ShareInv
<1>2. Len(calls) \in DOMAIN calls /\ Current = calls[Len(calls)]
  BY <1>1, CurrentCall
<1>3. <<Len(calls), k>> \in Held(n)
  BY <1>2, HeldMember DEF Held
<1>4. IsFiniteSet(Held(n)) /\ HeldByCalls(n) \in Nat
  BY <1>1, HeldType
<1>5. HeldByCalls(n) # 0
  BY <1>3, <1>4, FS_EmptySet DEF HeldByCalls
<1>6. Count(Deferred, n) \in Nat
  BY DeferredType
<1>7. mine[n] \in Nat /\ left[n] \in Nat /\ shared[n] = mine[n] + left[n] + Count(Deferred, n) + HeldByCalls(n)
  BY <1>1 DEF TypeOK, EveryShareHasAReclaimer
<1> DEFINE a == mine[n]
           b == left[n]
           c == Count(Deferred, n)
           d == HeldByCalls(n)
<1>8. a \in Nat /\ b \in Nat /\ c \in Nat /\ d \in Nat /\ d # 0 /\ shared[n] = a + b + c + d
  BY <1>4, <1>5, <1>6, <1>7
<1> HIDE DEF a, b, c, d
<1> QED BY <1>8

LEMMA ShareNextInv ==
    ASSUME ShareInv, ShareNext
    PROVE  ShareInv'
<1> DEFINE f == Current
           n == Head(f.todo)
           h == [f EXCEPT !.todo = Tail(@)]
           g == Enter(h, "share", n, FALSE)
<1>1. calls # <<>> /\ f.pc = "next" /\ f.todo # <<>> /\ f.status = "ok" /\ Become(g)
  BY DEF ShareNext
<1>2. /\ TypeOK /\ CallsOK /\ Outermost /\ HeldFinite /\ initialized \in BOOLEAN
      /\ f \in Frames /\ FrameOK(f)
  BY <1>1, CurrentOK
<1>3. /\ shared' = IF initialized THEN [shared EXCEPT ![n] = @ + 1] ELSE shared
      /\ UNCHANGED <<initialized, g_transaction, g_transaction_data, mine, left>>
  BY DEF ShareNext, transaction, accounts
<1>4. h = [f EXCEPT !.todo = Tail(@)] /\ g = Enter(h, "share", n, FALSE)
  OBVIOUS
<1>5. f.todo \in Seq(Names)
  BY <1>2 DEF Frames
<1>6. Tail(f.todo) \in Seq(Names) /\ n \in Names /\ (Len(f.todo) = 1 => Tail(f.todo) = <<>>)
  <2> DEFINE s == f.todo
  <2>1. s \in Seq(Names) /\ s # <<>>
    BY <1>1, <1>5
  <2> HIDE DEF s
  <2>2. Tail(s) \in Seq(Names) /\ Head(s) \in Names /\ (Len(s) = 1 => Len(Tail(s)) = 0)
    BY <2>1
  <2>3. Len(s) = 1 => Tail(s) = <<>>
    BY <2>2, EmptySeq
  <2> QED BY <2>2, <2>3 DEF s
<1> HIDE DEF f, n, h, g
<1>7. /\ h \in Frames /\ h.op = f.op /\ h.todo = Tail(f.todo) /\ h.done = f.done /\ h.fired = f.fired
      /\ h.status = f.status
  BY ONLY <1>2, <1>4, <1>6 DEF Frames
<1>8. /\ g \in Frames /\ g.op = f.op /\ g.todo = Tail(f.todo) /\ g.done = f.done /\ g.fired = f.fired
      /\ g.status = f.status /\ g.pc = "share" /\ g.name = n /\ g.refused = ~initialized
  BY ONLY <1>2, <1>4, <1>6, <1>7 DEF Enter, Frames
<1>9. f.op \in {"share", "expose", "multi"}
  BY <1>1, <1>2 DEF FrameOK, Frames, Ops
<1>10. FrameOK(g)
  BY <1>1, <1>2, <1>6, <1>8, <1>9 DEF FrameOK, SingleOK
<1>11. \A m \in Names : HeldByCalls(m) \in Nat
  BY <1>2, HeldType
<1>12. g.op = Current.op /\ Current.op # "end" /\ f = Current
  BY <1>8, <1>9 DEF f
<1>13. \A m \in Names : /\ initialized /\ m = n => Adds(HeldBy(g, m), HeldBy(Current, m), 0)
                        /\ ~initialized \/ m # n => HeldBy(g, m) = HeldBy(Current, m)
  BY <1>1, <1>2, <1>8, <1>12, HeldBySharing
<1>14. \A m \in Names : ~initialized \/ m # n => IsFiniteSet(Held(m))' /\ HeldByCalls(m)' = HeldByCalls(m)
  BY <1>1, <1>2, <1>8, <1>10, <1>12, <1>13, BecomesSame
<1>15. \A m \in Names : initialized /\ m = n => IsFiniteSet(Held(m))' /\ HeldByCalls(m)' = HeldByCalls(m) + 1
  BY <1>1, <1>2, <1>8, <1>10, <1>12, <1>13, BecomesMore
<1>16. HeldFinite'
  BY <1>14, <1>15 DEF HeldFinite
<1>17. shared \in [Names -> Int] /\ mine \in [Names -> Nat] /\ left \in [Names -> Nat]
  BY <1>2 DEF TypeOK
<1>18. shared' \in [Names -> Int] /\ mine' \in [Names -> Nat] /\ left' \in [Names -> Nat] /\ initialized' \in BOOLEAN
  BY <1>2, <1>3, <1>6, <1>17
<1>19. \A m \in Names : shared'[m] - shared[m]
                          = (mine'[m] - mine[m]) + (left'[m] - left[m]) + (HeldByCalls(m)' - HeldByCalls(m))
  BY <1>3, <1>6, <1>11, <1>14, <1>15, <1>17
<1> QED BY <1>1, <1>3, <1>8, <1>10, <1>12, <1>16, <1>18, <1>19, BecomesInv

LEMMA ShareEndsInv ==
    ASSUME ShareInv, NEW e \in Status, ShareEnds(e)
    PROVE  ShareInv'
<1> DEFINE f == Current
           g == [f EXCEPT !.pc = "next", !.status = e, !.done = IF e = "ok" THEN Append(@, f.name) ELSE @]
<1>1. calls # <<>> /\ f.pc = "share" /\ (f.refused => e = "state") /\ Become(g)
  BY DEF ShareEnds
<1>2. /\ TypeOK /\ CallsOK /\ Outermost /\ HeldFinite /\ initialized \in BOOLEAN
      /\ f \in Frames /\ FrameOK(f)
  BY <1>1, CurrentOK
<1>3. /\ shared' = IF e = "ok" \/ f.refused THEN shared ELSE [shared EXCEPT ![f.name] = @ - 1]
      /\ UNCHANGED <<initialized, g_transaction, g_transaction_data, mine, left>>
  BY DEF ShareEnds, transaction, accounts
<1>4. g = [f EXCEPT !.pc = "next", !.status = e, !.done = IF e = "ok" THEN Append(@, f.name) ELSE @]
  OBVIOUS
<1> HIDE DEF f, g
<1>5. f.name \in Names /\ f.done \in Seq(Names) /\ f.op \in {"share", "expose", "multi"}
  BY <1>1, <1>2 DEF FrameOK, Frames, Ops
<1>6. Append(f.done, f.name) \in Seq(Names)
  BY <1>5
<1>7. /\ g \in Frames /\ g.op = f.op /\ g.todo = f.todo /\ g.fired = f.fired
      /\ g.status = e /\ g.pc = "next" /\ g.name = f.name /\ g.refused = f.refused
      /\ e = "ok" => g.done = Append(f.done, f.name)
      /\ e # "ok" => g.done = f.done
  BY ONLY <1>2, <1>4, <1>5, <1>6, e \in Status DEF Frames
<1>9. f.done = <<>> => Len(Append(f.done, f.name)) = 1
  BY <1>5
<1>10. FrameOK(g)
  BY <1>1, <1>2, <1>5, <1>7, <1>9 DEF FrameOK, SingleOK
<1>11. \A m \in Names : HeldByCalls(m) \in Nat
  BY <1>2, HeldType
<1>12. g.op = Current.op /\ Current.op # "end" /\ f = Current /\ "state" # "ok"
  BY <1>5, <1>7 DEF f
<1>14. shared \in [Names -> Int] /\ mine \in [Names -> Nat] /\ left \in [Names -> Nat]
  BY <1>2 DEF TypeOK
<1>15. CASE e = "ok"
  <2>1. ~f.refused /\ g.pc # "share" /\ g.done = Append(f.done, f.name)
    BY <1>1, <1>7, <1>12, <1>15
  <2>2. \A m \in Names : /\ m = f.name => Moves(HeldBy(g, m), HeldBy(Current, m), 0, Len(f.done) + 1)
                         /\ m # f.name => HeldBy(g, m) = HeldBy(Current, m)
    BY ONLY <1>1, <1>2, <1>7, <1>12, <2>1, HeldByAppend
  <2>3. \A m \in Names : m # f.name => IsFiniteSet(Held(m))' /\ HeldByCalls(m)' = HeldByCalls(m)
    BY <1>1, <1>2, <1>7, <1>10, <1>12, <2>2, BecomesSame
  <2>4. \A m \in Names : m = f.name => IsFiniteSet(Held(m))' /\ HeldByCalls(m)' = HeldByCalls(m)
    BY <1>1, <1>2, <1>7, <1>10, <1>12, <2>2, BecomesMoved
  <2>5. HeldFinite'
    BY <2>3, <2>4 DEF HeldFinite
  <2>6. shared' \in [Names -> Int] /\ mine' \in [Names -> Nat] /\ left' \in [Names -> Nat] /\ initialized' \in BOOLEAN
    BY <1>2, <1>3, <1>14, <1>15
  <2>7. \A m \in Names : shared'[m] - shared[m]
                          = (mine'[m] - mine[m]) + (left'[m] - left[m]) + (HeldByCalls(m)' - HeldByCalls(m))
    BY <1>3, <1>11, <1>14, <1>15, <2>3, <2>4
  <2> QED BY <1>1, <1>3, <1>7, <1>10, <1>12, <2>5, <2>6, <2>7, BecomesInv
<1>16. CASE e # "ok"
  <2>1. \A m \in Names : /\ ~f.refused /\ m = f.name => Drops(HeldBy(g, m), HeldBy(Current, m), 0)
                         /\ f.refused \/ m # f.name => HeldBy(g, m) = HeldBy(Current, m)
    BY <1>1, <1>2, <1>7, <1>12, <1>16, HeldByPopped
  <2>2. \A m \in Names : f.refused \/ m # f.name => IsFiniteSet(Held(m))' /\ HeldByCalls(m)' = HeldByCalls(m)
    BY <1>1, <1>2, <1>7, <1>10, <1>12, <2>1, BecomesSame
  <2>3. \A m \in Names : ~f.refused /\ m = f.name => IsFiniteSet(Held(m))' /\ HeldByCalls(m)' = HeldByCalls(m) - 1
    BY <1>1, <1>2, <1>7, <1>10, <1>12, <2>1, BecomesLess
  <2>4. HeldFinite'
    BY <2>2, <2>3 DEF HeldFinite
  <2>5. shared' \in [Names -> Int] /\ mine' \in [Names -> Nat] /\ left' \in [Names -> Nat] /\ initialized' \in BOOLEAN
    BY <1>2, <1>3, <1>5, <1>14, <1>16
  <2>6. \A m \in Names : shared'[m] - shared[m]
                          = (mine'[m] - mine[m]) + (left'[m] - left[m]) + (HeldByCalls(m)' - HeldByCalls(m))
    BY <1>3, <1>5, <1>11, <1>14, <1>16, <2>2, <2>3
  <2> QED BY <1>1, <1>3, <1>7, <1>10, <1>12, <2>4, <2>5, <2>6, BecomesInv
<1> QED BY <1>15, <1>16

LEMMA EventEndsInv ==
    ASSUME ShareInv, NEW e \in Status, EventEnds(e)
    PROVE  ShareInv'
<1> DEFINE f == Current
           g == [f EXCEPT !.pc = "next", !.status = e]
<1>1. /\ calls # <<>> /\ f.pc = "event" /\ f.op \in {"event", "init", "multi"}
      /\ f.op = "multi" => Become(g)
      /\ f.op # "multi" => calls' = Front(calls)
      /\ UNCHANGED <<initialized, shared, g_transaction, g_transaction_data, mine, left>>
  BY DEF EventEnds, Return, transaction, accounts
<1>2. /\ f \in Frames /\ FrameOK(f)
  BY <1>1, CurrentOK
<1>3. g = [f EXCEPT !.pc = "next", !.status = e] /\ f = Current
  OBVIOUS
<1> HIDE DEF f, g
<1>4. CASE f.op = "multi"
  <2>1. g \in Frames /\ g.op = f.op /\ g.done = f.done /\ g.pc = "next"
    BY ONLY <1>2, <1>3, e \in Status DEF Frames
  <2>2. FrameOK(g)
    BY <1>4, <2>1 DEF FrameOK
  <2>3. \A n \in Names : HeldBy(g, n) = HeldBy(Current, n)
    BY <1>1, <1>2, <1>3, <2>1 DEF HeldBy, Sharing
  <2> QED BY <1>1, <1>3, <1>4, <2>1, <2>2, <2>3, BecomesQuietly
<1>5. CASE f.op # "multi"
  <2>1. f.done = <<>>
    BY <1>1, <1>2, <1>5 DEF FrameOK
  <2>2. \A n \in Names : HeldBy(Current, n) = {}
    BY <1>1, <1>2, <1>3, <2>1, HeldByDone
  <2> QED BY <1>1, <1>3, <1>5, <2>2, ReturnsQuietly
<1> QED BY <1>4, <1>5

LEMMA ExposeReclaimsInv ==
    ASSUME ShareInv, ExposeReclaims
    PROVE  ShareInv'
<1> DEFINE f == Current
           n == f.done[1]
           h == [f EXCEPT !.fired = TRUE]
           r == (shared[n] = 0)
           g == Enter(h, "reclaim", n, r)
<1>1. /\ calls # <<>> /\ f.op = "expose" /\ f.pc = "next" /\ f.done # <<>> /\ Become(g)
      /\ UNCHANGED <<initialized, shared, g_transaction, g_transaction_data, mine, left>>
  BY DEF ExposeReclaims, Ready, transaction, accounts
<1>2. initialized \in BOOLEAN /\ f \in Frames /\ FrameOK(f)
  BY <1>1, CurrentOK
<1>3. h = [f EXCEPT !.fired = TRUE] /\ f = Current /\ g = Enter(h, "reclaim", n, r) /\ n = f.done[1] /\ r \in BOOLEAN
  OBVIOUS
<1> HIDE DEF f, g, h, n, r
<1>4. f.todo = <<>> /\ Len(f.done) = 1 /\ f.done \in Seq(Names)
  BY <1>1, <1>2 DEF FrameOK, SingleOK, Frames
<1>5. n \in Names /\ f.done = <<n>>
  BY <1>3, <1>4
<1>6. /\ h \in Frames /\ h.op = f.op /\ h.todo = f.todo /\ h.done = f.done /\ h.fired = TRUE
  BY ONLY <1>2, <1>3 DEF Frames
<1>7. /\ g \in Frames /\ g.op = f.op /\ g.todo = f.todo /\ g.done = f.done /\ g.fired = TRUE
      /\ g.pc = "reclaim" /\ g.name = n
  BY ONLY <1>2, <1>3, <1>5, <1>6 DEF Enter, Frames
<1>8. FrameOK(g)
  BY <1>1, <1>4, <1>5, <1>7 DEF FrameOK, SingleOK
<1>9. \A m \in Names : HeldBy(g, m) = HeldBy(Current, m)
  BY <1>1, <1>3, <1>7 DEF HeldBy, Sharing
<1> QED BY <1>1, <1>3, <1>7, <1>8, <1>9, BecomesQuietly

LEMMA MultiEventInv ==
    ASSUME ShareInv, MultiEvent
    PROVE  ShareInv'
<1> DEFINE f == Current
           h == [f EXCEPT !.fired = TRUE]
           g == Enter(h, "event", NoName, FALSE)
<1>1. /\ calls # <<>> /\ f.op = "multi" /\ f.pc = "next" /\ Become(g)
      /\ UNCHANGED <<initialized, shared, g_transaction, g_transaction_data, mine, left>>
  BY DEF MultiEvent, Ready, transaction, accounts
<1>2. initialized \in BOOLEAN /\ f \in Frames
  BY <1>1, CurrentOK
<1>3. h = [f EXCEPT !.fired = TRUE] /\ f = Current /\ g = Enter(h, "event", NoName, FALSE)
  OBVIOUS
<1> HIDE DEF f, g, h
<1>4. h \in Frames /\ h.op = f.op /\ h.done = f.done
  BY ONLY <1>2, <1>3 DEF Frames
<1>5. g \in Frames /\ g.op = f.op /\ g.done = f.done /\ g.pc = "event"
  BY ONLY <1>2, <1>3, <1>4 DEF Enter, Frames
<1>6. FrameOK(g)
  BY <1>1, <1>5 DEF FrameOK
<1>7. \A m \in Names : HeldBy(g, m) = HeldBy(Current, m)
  BY <1>1, <1>3, <1>5 DEF HeldBy, Sharing
<1> QED BY <1>1, <1>3, <1>5, <1>6, <1>7, BecomesQuietly

LEMMA MultiReclaimInv ==
    ASSUME ShareInv, MultiReclaim
    PROVE  ShareInv'
<1> DEFINE f == Current
           n == Last(f.done)
           h == [f EXCEPT !.fired = TRUE]
           r == (shared[n] = 0)
           g == Enter(h, "reclaim", n, r)
<1>1. /\ calls # <<>> /\ f.op = "multi" /\ f.pc = "next" /\ f.done # <<>> /\ Become(g)
      /\ UNCHANGED <<initialized, shared, g_transaction, g_transaction_data, mine, left>>
  BY DEF MultiReclaim, Ready, transaction, accounts
<1>2. initialized \in BOOLEAN /\ f \in Frames
  BY <1>1, CurrentOK
<1>3. h = [f EXCEPT !.fired = TRUE] /\ f = Current /\ g = Enter(h, "reclaim", n, r) /\ n = Last(f.done) /\ r \in BOOLEAN
  OBVIOUS
<1> HIDE DEF f, g, h, n, r
<1>4. n \in Names
  <2> DEFINE s == f.done
  <2>1. s \in Seq(Names) /\ s # <<>> /\ n = s[Len(s)]
    BY <1>1, <1>2, <1>3 DEF Frames, Last
  <2> HIDE DEF s
  <2> QED BY <2>1
<1>5. h \in Frames /\ h.op = f.op /\ h.done = f.done
  BY ONLY <1>2, <1>3 DEF Frames
<1>6. g \in Frames /\ g.op = f.op /\ g.done = f.done /\ g.pc = "reclaim" /\ g.name = n
  BY ONLY <1>2, <1>3, <1>4, <1>5 DEF Enter, Frames
<1>7. FrameOK(g)
  BY <1>1, <1>3, <1>4, <1>6 DEF FrameOK
<1>8. \A m \in Names : HeldBy(g, m) = HeldBy(Current, m)
  BY <1>1, <1>3, <1>6 DEF HeldBy, Sharing
<1> QED BY <1>1, <1>3, <1>6, <1>7, <1>8, BecomesQuietly

\* A data that an inner PDI_reclaim could not reclaim is left, or is given
\* back to the user.
LEMMA ReclaimEndsInv ==
    ASSUME ShareInv, NEW e \in Status, ReclaimEnds(e), Current.op # "end"
    PROVE  ShareInv'
<1> DEFINE f == Current
           s == f.done
           t == IF s = <<>> THEN s ELSE Front(s)
           g == [f EXCEPT !.pc = "next", !.status = First(@, e), !.done = t]
<1>1. calls # <<>> /\ f.pc = "reclaim" /\ (f.refused => e = "state") /\ f.op # "end"
  BY DEF ReclaimEnds
<1>2. Become(g)
  BY DEF ReclaimEnds
<1>3. /\ shared' = IF e = "ok" THEN [shared EXCEPT ![f.name] = @ - 1] ELSE shared
      /\ mine' = IF e # "ok" /\ f.op = "reclaim" /\ s # <<>> THEN [mine EXCEPT ![f.name] = @ + 1] ELSE mine
      /\ left' = IF e # "ok" /\ f.op # "reclaim" /\ shared[f.name] > 0 THEN [left EXCEPT ![f.name] = @ + 1] ELSE left
      /\ UNCHANGED <<initialized, g_transaction, g_transaction_data>>
  BY DEF ReclaimEnds
<1>4. /\ TypeOK /\ CallsOK /\ Outermost /\ HeldFinite /\ initialized \in BOOLEAN
      /\ f \in Frames /\ FrameOK(f)
  BY <1>1, CurrentOK
<1>5. /\ g = [f EXCEPT !.pc = "next", !.status = First(@, e), !.done = t] /\ f = Current /\ s = f.done
      /\ (s = <<>> => t = <<>>) /\ (s # <<>> => t = Front(s))
  OBVIOUS
<1> HIDE DEF f, g, s, t
<1>6. f.name \in Names /\ s \in Seq(Names) /\ f.op \in {"reclaim", "expose", "multi"} /\ f.status \in Status
  BY <1>1, <1>4, <1>5 DEF FrameOK, SingleOK, Frames, Ops
<1>7. /\ t \in Seq(Names) /\ (Len(s) = 1 => t = <<>>)
  <2>1. CASE s = <<>>
    BY <1>5, <2>1
  <2>2. CASE s # <<>>
    <3>1. t = SubSeq(s, 1, Len(s) - 1)
      BY <1>5, <1>6, <2>2 DEF Front
    <3>2. Len(s) - 1 \in 0 .. Len(s)
      BY <1>6, <2>2
    <3>3. t \in Seq(Names)
      BY <1>6, <3>1, <3>2, CountPrefix
    <3>4. SubSeq(s, 1, 0) = <<>>
      OBVIOUS
    <3>5. Len(s) = 1 => Len(s) - 1 = 0
      OBVIOUS
    <3> QED BY <3>1, <3>3, <3>4, <3>5
  <2> QED BY <2>1, <2>2
<1>8. First(f.status, e) \in Status
  BY <1>6 DEF First
<1>9. /\ g \in Frames /\ g.op = f.op /\ g.todo = f.todo /\ g.done = t /\ g.fired = f.fired /\ g.pc = "next"
  BY ONLY <1>4, <1>5, <1>7, <1>8 DEF Frames
<1>10. s # <<>> => Last(s) = f.name /\ (f.op # "multi" => Len(s) = 1)
  <2>1. f.op \in {"reclaim", "expose"} => s = <<>> \/ s = <<f.name>>
    BY <1>1, <1>4, <1>5 DEF FrameOK, SingleOK
  <2>2. f.op = "multi" => Last(s) = f.name
    BY <1>1, <1>4, <1>5 DEF FrameOK
  <2>3. Len(<<f.name>>) = 1 /\ Last(<<f.name>>) = f.name
    BY DEF Last
  <2> QED BY <1>6, <2>1, <2>2, <2>3
<1>11. s = <<>> => f.op = "reclaim" /\ f.refused
  <2>1. <<f.name>> # <<>>
    OBVIOUS
  <2> QED BY <1>1, <1>4, <1>5, <1>6, <2>1 DEF FrameOK, SingleOK
<1>12. FrameOK(g)
  BY <1>1, <1>4, <1>5, <1>6, <1>7, <1>9, <1>10 DEF FrameOK, SingleOK
<1>13. \A m \in Names : HeldByCalls(m) \in Nat
  BY <1>4, HeldType
<1>14. g.op = Current.op /\ Current.op # "end" /\ f.pc # "share" /\ g.pc # "share"
  BY <1>1, <1>5, <1>9
<1>15. shared \in [Names -> Int] /\ mine \in [Names -> Nat] /\ left \in [Names -> Nat]
  BY <1>4 DEF TypeOK
<1>16. shared' \in [Names -> Int] /\ mine' \in [Names -> Nat] /\ left' \in [Names -> Nat] /\ initialized' \in BOOLEAN
  <2>1. shared' \in [Names -> Int]
    BY <1>3, <1>6, <1>15
  <2>2. mine' \in [Names -> Nat]
    BY <1>3, <1>6, <1>15, SMTT(30)
  <2>3. left' \in [Names -> Nat]
    BY <1>3, <1>6, <1>15, SMTT(30)
  <2> QED BY <1>3, <1>4, <2>1, <2>2, <2>3
<1>17. CASE s = <<>>
  <2>1. \A m \in Names : HeldBy(g, m) = HeldBy(Current, m)
    <3>1. f.done = g.done /\ ~Sharing(f, NoName) /\ \A m : ~Sharing(f, m) /\ ~Sharing(g, m)
      BY <1>5, <1>9, <1>14, <1>17 DEF Sharing
    <3> QED BY <1>5, <3>1, Zenon DEF HeldBy
  <2>2. e # "ok" /\ f.op = "reclaim"
    BY <1>1, <1>11, <1>17
  <2>3. UNCHANGED <<initialized, shared, g_transaction, g_transaction_data, mine, left>>
    BY <1>3, <1>17, <2>2
  <2> QED BY <1>1, <1>2, <1>9, <1>12, <1>14, <2>1, <2>3, BecomesQuietly
<1>18. CASE s # <<>>
  <2>1. \A m \in Names : /\ m = f.name => Drops(HeldBy(g, m), HeldBy(Current, m), Len(s))
                         /\ m # f.name => HeldBy(g, m) = HeldBy(Current, m)
    <3>1. f.done # <<>> /\ g.done = Front(f.done) /\ Last(f.done) = f.name /\ s = f.done /\ f = Current
      BY ONLY <1>5, <1>9, <1>10, <1>18
    <3> QED BY ONLY <1>4, <1>9, <1>14, <3>1, HeldByFront, Zenon
  <2>2. \A m \in Names : m # f.name => IsFiniteSet(Held(m))' /\ HeldByCalls(m)' = HeldByCalls(m)
    BY <1>1, <1>2, <1>4, <1>9, <1>12, <1>14, <2>1, BecomesSame
  <2>3. \A m \in Names : m = f.name => IsFiniteSet(Held(m))' /\ HeldByCalls(m)' = HeldByCalls(m) - 1
    BY <1>1, <1>2, <1>4, <1>9, <1>12, <1>14, <2>1, BecomesLess
  <2>4. HeldFinite'
    BY <2>2, <2>3 DEF HeldFinite
  <2>5. shared[f.name] > 0
    <3>1. Len(s) \in HeldBy(Current, f.name)
      BY <1>6, <2>1 DEF Drops
    <3> QED BY <1>1, <1>6, <3>1, HeldIsShared
  <2>6. \A m \in Names : shared'[m] - shared[m]
                          = (mine'[m] - mine[m]) + (left'[m] - left[m]) + (HeldByCalls(m)' - HeldByCalls(m))
    <3> SUFFICES ASSUME NEW m \in Names
                 PROVE  shared'[m] - shared[m]
                          = (mine'[m] - mine[m]) + (left'[m] - left[m]) + (HeldByCalls(m)' - HeldByCalls(m))
      OBVIOUS
    <3> DEFINE d == HeldByCalls(m)' - HeldByCalls(m)
    <3>1. (m = f.name => d = -1) /\ (m # f.name => d = 0)
      BY <1>13, <2>2, <2>3
    <3> HIDE DEF d
    <3>2. shared[m] \in Int /\ mine[m] \in Int /\ left[m] \in Int
      BY <1>15
    <3>3. shared'[m] - shared[m] = (mine'[m] - mine[m]) + (left'[m] - left[m]) + d
      <4>1. CASE e = "ok"
        <5>1. shared'[m] = (IF m = f.name THEN shared[m] - 1 ELSE shared[m]) /\ mine' = mine /\ left' = left
          BY <1>3, <1>6, <1>15, <4>1
        <5> QED BY <3>1, <3>2, <5>1
      <4>2. CASE e # "ok" /\ f.op = "reclaim"
        <5>1. mine'[m] = (IF m = f.name THEN mine[m] + 1 ELSE mine[m]) /\ shared' = shared /\ left' = left
          BY <1>3, <1>6, <1>15, <1>18, <4>2
        <5> QED BY <3>1, <3>2, <5>1
      <4>3. CASE e # "ok" /\ f.op # "reclaim"
        <5>1. left'[m] = (IF m = f.name THEN left[m] + 1 ELSE left[m]) /\ shared' = shared /\ mine' = mine
          BY <1>3, <1>6, <1>15, <2>5, <4>3
        <5> QED BY <3>1, <3>2, <5>1
      <4> QED BY <4>1, <4>2, <4>3
    <3> QED BY <3>3 DEF d
  <2> QED BY <1>1, <1>2, <1>3, <1>9, <1>12, <1>14, <1>16, <2>4, <2>6, BecomesInv
<1> QED BY <1>17, <1>18

-----------------------------------------------------------------------------
(* The functions other than PDI_transaction_end return *)

\* The user has to reclaim what it shared.
LEMMA ShareReturnsInv ==
    ASSUME ShareInv, ShareReturns
    PROVE  ShareInv'
<1> DEFINE f == Current
           n == f.done[1]
<1>1. /\ calls # <<>> /\ f.op = "share" /\ f.pc = "next" /\ f.todo = <<>> /\ calls' = Front(calls)
      /\ mine' = IF f.status = "ok" THEN [mine EXCEPT ![n] = @ + 1] ELSE mine
      /\ UNCHANGED <<initialized, shared, g_transaction, g_transaction_data, left>>
  BY DEF ShareReturns, Ready, Return, transaction
<1>2. TypeOK /\ CallsOK /\ Outermost /\ HeldFinite /\ f \in Frames /\ FrameOK(f)
  BY <1>1, CurrentOK
<1>3. f = Current /\ n = f.done[1]
  OBVIOUS
<1> HIDE DEF f, n
<1>4. f.op # "end" /\ f.pc # "share"
  BY <1>1
<1>5. CASE f.status = "ok"
  <2>1. Len(f.done) = 1 /\ f.done \in Seq(Names)
    BY <1>1, <1>2, <1>5 DEF FrameOK, SingleOK, Frames
  <2>2. n \in Names /\ f.done = <<n>>
    BY <1>3, <2>1
  <2>3. \A m \in Names : (m = n => HeldBy(Current, m) = {1}) /\ (m # n => HeldBy(Current, m) = {})
    BY <1>2, <1>3, <1>4, <2>2, HeldByDone
  <2>4. \A m \in Names : m = n => IsFiniteSet(Held(m))' /\ HeldByCalls(m)' = HeldByCalls(m) - 1
    BY <1>1, <1>2, <2>3, ReturnsOne
  <2>5. \A m \in Names : m # n => IsFiniteSet(Held(m))' /\ HeldByCalls(m)' = HeldByCalls(m)
    BY <1>1, <1>2, <2>3, ReturnsNothing
  <2>6. HeldFinite'
    BY <2>4, <2>5 DEF HeldFinite
  <2>7. mine \in [Names -> Nat] /\ mine' = [mine EXCEPT ![n] = @ + 1] /\ g_transaction_data \in Seq(Names)
    BY <1>1, <1>2, <1>5 DEF TypeOK
  <2>8. mine' \in [Names -> Nat]
    BY <2>2, <2>7
  <2>9. \A m \in Names : (mine'[m] - mine[m]) + (Count(g_transaction_data', m) - Count(g_transaction_data, m))
                            + (HeldByCalls(m)' - HeldByCalls(m)) = 0
    <3> SUFFICES ASSUME NEW m \in Names
                 PROVE  (mine'[m] - mine[m]) + (Count(g_transaction_data', m) - Count(g_transaction_data, m))
                            + (HeldByCalls(m)' - HeldByCalls(m)) = 0
      OBVIOUS
    <3>1. Count(g_transaction_data', m) = Count(g_transaction_data, m) /\ Count(g_transaction_data, m) \in Nat
      BY <1>1, <2>7, CountPlaces
    <3>2. HeldByCalls(m) \in Nat
      BY <1>2, HeldType
    <3> QED BY <2>2, <2>4, <2>5, <2>7, <3>1, <3>2
  <2> QED BY <1>1, <1>3, <1>4, <2>6, <2>7, <2>8, <2>9, ReturnsInv
<1>6. CASE f.status # "ok"
  <2>1. f.done = <<>>
    BY <1>1, <1>2, <1>6 DEF FrameOK, SingleOK
  <2>2. \A m \in Names : HeldBy(Current, m) = {}
    BY <1>2, <1>3, <1>4, <2>1, HeldByDone
  <2> QED BY <1>1, <1>3, <1>4, <1>6, <2>2, ReturnsQuietly
<1> QED BY <1>5, <1>6

\* The transaction has to reclaim what was exposed in it.
LEMMA ExposeDefersInv ==
    ASSUME ShareInv, ExposeDefers
    PROVE  ShareInv'
<1> DEFINE f == Current
           n == f.done[1]
           s == g_transaction_data
<1>1. /\ calls # <<>> /\ f.op = "expose" /\ f.pc = "next" /\ f.done # <<>> /\ Open /\ calls' = Front(calls)
      /\ g_transaction_data' = Append(s, n)
      /\ UNCHANGED <<initialized, shared, g_transaction, mine, left>>
  BY DEF ExposeDefers, Ready, Return, accounts
<1>2. TypeOK /\ CallsOK /\ Outermost /\ HeldFinite /\ f \in Frames /\ FrameOK(f)
  BY <1>1, CurrentOK
<1>3. f = Current /\ n = f.done[1]
  OBVIOUS
<1> HIDE DEF f, n
<1>4. f.op # "end" /\ f.pc # "share"
  BY <1>1
<1>5. Len(f.done) = 1 /\ f.done \in Seq(Names)
  BY <1>1, <1>2 DEF FrameOK, SingleOK, Frames
<1>6. n \in Names /\ f.done = <<n>>
  BY <1>3, <1>5
<1>7. \A m \in Names : (m = n => HeldBy(Current, m) = {1}) /\ (m # n => HeldBy(Current, m) = {})
  BY <1>2, <1>3, <1>4, <1>6, HeldByDone
<1>8. \A m \in Names : m = n => IsFiniteSet(Held(m))' /\ HeldByCalls(m)' = HeldByCalls(m) - 1
  BY <1>1, <1>2, <1>7, ReturnsOne
<1>9. \A m \in Names : m # n => IsFiniteSet(Held(m))' /\ HeldByCalls(m)' = HeldByCalls(m)
  BY <1>1, <1>2, <1>7, ReturnsNothing
<1>10. HeldFinite'
  BY <1>8, <1>9 DEF HeldFinite
<1>11. mine \in [Names -> Nat] /\ mine' = mine /\ s \in Seq(Names)
  BY <1>1, <1>2 DEF TypeOK
<1>12. g_transaction_data' \in Seq(Names)
  BY <1>1, <1>6, <1>11
<1>13. \A m \in Names : (mine'[m] - mine[m]) + (Count(g_transaction_data', m) - Count(s, m))
                          + (HeldByCalls(m)' - HeldByCalls(m)) = 0
  <2> SUFFICES ASSUME NEW m \in Names
               PROVE  (mine'[m] - mine[m]) + (Count(g_transaction_data', m) - Count(s, m))
                          + (HeldByCalls(m)' - HeldByCalls(m)) = 0
    OBVIOUS
  <2>1. Count(g_transaction_data', m) = Count(s, m) + (IF n = m THEN 1 ELSE 0)
    BY <1>1, <1>6, <1>11, CountAppend
  <2>2. Count(s, m) \in Nat
    BY <1>11, CountPlaces
  <2>3. HeldByCalls(m) \in Nat
    BY <1>2, HeldType
  <2> QED BY <1>8, <1>9, <1>11, <2>1, <2>2, <2>3
<1> QED BY <1>1, <1>3, <1>4, <1>10, <1>11, <1>12, <1>13, ReturnsInv

\* The other calls return when they hold nothing.
LEMMA QuietReturnsInv ==
    ASSUME ShareInv,
           ReclaimReturns \/ ExposeFails \/ ExposeReturns \/ MultiReturns
             \/ \E e \in Errors : FinalizeEnds(e)
    PROVE  ShareInv'
<1> DEFINE f == Current
<1>1. /\ calls # <<>> /\ calls' = Front(calls)
      /\ UNCHANGED <<initialized, shared, g_transaction, g_transaction_data, mine, left>>
  BY TransactionAssumption
     DEF ReclaimReturns, ExposeFails, ExposeReturns, MultiReturns, FinalizeEnds, Ready, Return, transaction, accounts
<1>2. f \in Frames /\ FrameOK(f)
  BY <1>1, CurrentOK
<1>3. /\ f.op \in {"reclaim", "expose", "multi", "finalize"} /\ f.pc # "share"
      /\ f.op = "reclaim" => f.pc = "next"
      /\ f.op = "multi" => f.done = <<>>
      /\ f.op = "expose" => f.pc = "next" /\ ((f.status # "ok" /\ ~f.fired) \/ f.fired)
  BY DEF ReclaimReturns, ExposeFails, ExposeReturns, MultiReturns, FinalizeEnds, Ready
<1>4. f.done = <<>>
  BY <1>2, <1>3 DEF FrameOK, SingleOK
<1>5. \A m \in Names : HeldBy(Current, m) = {}
  BY <1>2, <1>3, <1>4, HeldByDone
<1>6. Current.op # "end"
  BY <1>3
<1> QED BY <1>1, <1>5, <1>6, ReturnsQuietly

-----------------------------------------------------------------------------
(* PDI_init, PDI_finalize and PDI_transaction_begin *)

\* No transaction is open.
LEMMA ClosedInv ==
    ASSUME TypeOK', CallsOK', Outermost', HeldFinite', ~Open', g_transaction_data' = <<>>,
           calls' # <<>> => calls'[1].op # "end",
           \A n \in Names : shared'[n] = mine'[n] + left'[n] + HeldByCalls(n)'
    PROVE  ShareInv'
<1>1. WalkOK' /\ ~Walks(calls')
  BY DEF WalkOK, Walks
<1>2. Deferred' = <<>>
  BY <1>1, NotWalking
<1>3. DataInTransaction'
  BY DEF DataInTransaction
<1>4. EveryShareHasAReclaimer'
  <2> SUFFICES ASSUME NEW n \in Names
               PROVE  shared'[n] = mine'[n] + left'[n] + Count(Deferred', n) + HeldByCalls(n)'
    BY DEF EveryShareHasAReclaimer
  <2>1. Count(Deferred', n) = 0
    BY <1>2, CountEmpty
  <2>2. shared'[n] = mine'[n] + left'[n] + HeldByCalls(n)' /\ mine'[n] \in Nat /\ left'[n] \in Nat
    BY DEF TypeOK
  <2> QED BY <2>1, <2>2
<1> QED BY <1>1, <1>3, <1>4 DEF ShareInv

\* The accounts when no call is in progress.
LEMMA IdleAccounts ==
    ASSUME ShareInv, calls = <<>>
    PROVE  /\ TypeOK /\ CallsOK /\ Outermost /\ HeldFinite
           /\ \A n \in Names : /\ HeldByCalls(n) = 0 /\ Count(g_transaction_data, n) \in Nat
                               /\ shared[n] = mine[n] + left[n] + Count(g_transaction_data, n)
<1>1. TypeOK /\ CallsOK /\ Outermost /\ HeldFinite /\ EveryShareHasAReclaimer
  BY DEF ShareInv
<1>2. \A n \in Names : HeldByCalls(n) = 0
  BY NoCallHolds
<1>3. Deferred = g_transaction_data
  BY NotWalking DEF Walks
<1>4. \A n \in Names : shared[n] = mine[n] + left[n] + Count(g_transaction_data, n)
  <2> SUFFICES ASSUME NEW n \in Names
               PROVE  shared[n] = mine[n] + left[n] + Count(g_transaction_data, n)
    OBVIOUS
  <2>1. shared[n] = mine[n] + left[n] + Count(g_transaction_data, n) + HeldByCalls(n)
    BY <1>1, <1>3 DEF EveryShareHasAReclaimer
  <2>2. mine[n] \in Nat /\ left[n] \in Nat /\ Count(g_transaction_data, n) \in Nat
    BY <1>1, CountPlaces DEF TypeOK
  <2> QED BY <1>2, <2>1, <2>2
<1>5. \A n \in Names : Count(g_transaction_data, n) \in Nat
  BY <1>1, CountPlaces DEF TypeOK
<1> QED BY <1>1, <1>2, <1>4, <1>5

\* A first call that holds nothing.
LEMMA FirstCall ==
    ASSUME ShareInv, calls = <<>>, NEW g \in Frames, FrameOK(g), Start(g), g.pc # "share", g.done = <<>>
    PROVE  /\ calls' \in Seq(Frames) /\ CallsOK' /\ Outermost' /\ HeldFinite' /\ calls' # <<>> /\ calls'[1] = g
           /\ \A n \in Names : HeldByCalls(n)' = 0
           /\ Len(calls') = 1
<1>1. TypeOK /\ CallsOK /\ Outermost /\ HeldFinite /\ \A n \in Names : HeldByCalls(n) = 0
  BY IdleAccounts
<1>2. \A n \in Names : HeldBy(g, n) = {}
  BY HeldByDone
<1>3. \A n \in Names : IsFiniteSet(Held(n))' /\ HeldByCalls(n)' = HeldByCalls(n)
  BY <1>1, <1>2, PushesNothing
<1>4. HeldFinite'
  BY <1>3 DEF HeldFinite
<1>5. calls' \in Seq(Frames) /\ CallsOK' /\ Outermost' /\ calls' # <<>> /\ calls'[1] = g
  BY <1>1, Pushes
<1>6. Len(calls') = 1
  BY DEF Start
<1> QED BY <1>1, <1>3, <1>4, <1>5, <1>6

LEMMA InitInv ==
    ASSUME ShareInv, PDI_init
    PROVE  ShareInv'
<1> DEFINE f == Frame("init", <<>>, <<>>)
           g == [f EXCEPT !.pc = "event"]
<1>1. /\ calls = <<>> /\ Start(g) /\ initialized' = TRUE
      /\ g_transaction' = NoName /\ g_transaction_data' = <<>>
      /\ shared' = [n \in Names |-> 0] /\ mine' = [n \in Names |-> 0] /\ left' = [n \in Names |-> 0]
  BY DEF PDI_init, Emptied
<1>2. g \in Frames /\ g.op = "init" /\ g.todo = <<>> /\ g.done = <<>> /\ g.pc = "event"
  <2>1. f \in Frames /\ f.op = "init" /\ f.todo = <<>> /\ f.done = <<>>
    BY DEF Frame, Frames, Status, Ops
  <2> HIDE DEF f
  <2> QED BY <2>1 DEF Frames
<1> HIDE DEF f, g
<1>3. FrameOK(g)
  BY <1>2 DEF FrameOK
<1>4. /\ calls' \in Seq(Frames) /\ CallsOK' /\ Outermost' /\ HeldFinite' /\ calls'[1] = g
      /\ \A n \in Names : HeldByCalls(n)' = 0
  BY <1>1, <1>2, <1>3, FirstCall
<1>5. TypeOK'
  BY <1>1, <1>4 DEF TypeOK, Transactions
<1>6. calls'[1].op # "end" /\ ~Open'
  BY <1>1, <1>2, <1>4 DEF Open
<1>7. \A n \in Names : shared'[n] = mine'[n] + left'[n] + HeldByCalls(n)'
  BY <1>1, <1>4
<1> QED BY <1>1, <1>4, <1>5, <1>6, <1>7, ClosedInv

\* The data of the forgotten transaction is left.
LEMMA Forgotten ==
    ASSUME ShareInv, calls = <<>>, ForgetTransaction, UNCHANGED <<shared, mine>>
    PROVE  /\ ~Open' /\ g_transaction' \in Transactions /\ g_transaction_data' = <<>> /\ g_transaction_data' \in Seq(Names)
           /\ left' \in [Names -> Nat]
           /\ \A n \in Names : shared'[n] = mine'[n] + left'[n]
<1>1. /\ TypeOK /\ \A n \in Names : /\ Count(g_transaction_data, n) \in Nat
                                    /\ shared[n] = mine[n] + left[n] + Count(g_transaction_data, n)
  BY IdleAccounts
<1>2. /\ g_transaction' = NoName /\ g_transaction_data' = <<>>
      /\ left' = [n \in Names |-> left[n] + Count(g_transaction_data, n)]
  BY DEF ForgetTransaction
<1>3. left \in [Names -> Nat] /\ mine \in [Names -> Nat]
  BY <1>1 DEF TypeOK
<1>4. left' \in [Names -> Nat]
  BY <1>1, <1>2, <1>3
<1>5. \A n \in Names : shared'[n] = mine'[n] + left'[n]
  <2> SUFFICES ASSUME NEW n \in Names
               PROVE  shared'[n] = mine'[n] + left'[n]
    OBVIOUS
  <2>1. left'[n] = left[n] + Count(g_transaction_data, n) /\ left[n] \in Nat /\ mine[n] \in Nat
    BY <1>2, <1>3
  <2> QED BY <1>1, <2>1
<1> QED BY <1>2, <1>4, <1>5 DEF Open, Transactions

LEMMA InitFailsInv ==
    ASSUME ShareInv, NEW e, PDI_initFails(e)
    PROVE  ShareInv'
<1>1. calls = <<>> /\ ForgetTransaction /\ UNCHANGED <<initialized, shared, calls, mine>>
  BY DEF PDI_initFails
<1>2. /\ ~Open' /\ g_transaction' \in Transactions /\ g_transaction_data' = <<>> /\ g_transaction_data' \in Seq(Names)
      /\ left' \in [Names -> Nat]
      /\ \A n \in Names : shared'[n] = mine'[n] + left'[n]
  BY <1>1, Forgotten
<1>3. TypeOK /\ CallsOK /\ Outermost /\ HeldFinite /\ \A n \in Names : HeldByCalls(n) = 0
  BY <1>1, IdleAccounts
<1>4. CallsOK' /\ Outermost' /\ HeldFinite' /\ \A n \in Names : HeldByCalls(n)' = 0
  BY <1>1, <1>3, NoCallHoldsNext DEF CallsOK, Outermost, HeldFinite
<1>5. TypeOK'
  BY <1>1, <1>2, <1>3 DEF TypeOK
<1>6. \A n \in Names : shared'[n] = mine'[n] + left'[n] + HeldByCalls(n)'
  BY <1>2, <1>4, <1>5 DEF TypeOK
<1> QED BY <1>1, <1>2, <1>4, <1>5, <1>6, ClosedInv

LEMMA FinalizeInv ==
    ASSUME ShareInv, PDI_finalize
    PROVE  ShareInv'
<1> DEFINE f == Frame("finalize", <<>>, <<>>)
           g == Enter(f, "event", NoName, FALSE)
<1>1. calls = <<>> /\ ForgetTransaction /\ Start(g) /\ UNCHANGED <<initialized, shared, mine>>
  BY DEF PDI_finalize
<1>2. /\ ~Open' /\ g_transaction' \in Transactions /\ g_transaction_data' = <<>> /\ g_transaction_data' \in Seq(Names)
      /\ left' \in [Names -> Nat]
      /\ \A n \in Names : shared'[n] = mine'[n] + left'[n]
  BY <1>1, Forgotten
<1>3. TypeOK /\ initialized \in BOOLEAN
  BY <1>1, IdleAccounts DEF TypeOK
<1>4. f \in Frames /\ f.op = "finalize" /\ f.todo = <<>> /\ f.done = <<>>
  BY DEF Frame, Frames, Status, Ops
<1>5. g = Enter(f, "event", NoName, FALSE)
  OBVIOUS
<1> HIDE DEF f, g
<1>6. g \in Frames /\ g.op = "finalize" /\ g.todo = <<>> /\ g.done = <<>> /\ g.pc = "event"
  BY ONLY <1>3, <1>4, <1>5 DEF Enter, Frames
<1>7. FrameOK(g)
  BY <1>6 DEF FrameOK
<1>8. /\ calls' \in Seq(Frames) /\ CallsOK' /\ Outermost' /\ HeldFinite' /\ calls'[1] = g
      /\ \A n \in Names : HeldByCalls(n)' = 0
  BY <1>1, <1>6, <1>7, FirstCall
<1>9. TypeOK'
  BY <1>1, <1>2, <1>3, <1>8 DEF TypeOK
<1>10. calls'[1].op # "end"
  BY <1>6, <1>8
<1>11. \A n \in Names : shared'[n] = mine'[n] + left'[n] + HeldByCalls(n)'
  BY <1>2, <1>8, <1>9 DEF TypeOK
<1> QED BY <1>2, <1>8, <1>9, <1>10, <1>11, ClosedInv

\* Only the last call was in progress.
LEMMA LastCall ==
    ASSUME ShareInv, calls # <<>>, Current.op \in {"finalize", "end"}
    PROVE  Len(calls) = 1 /\ Current = calls[1]
<1>1. TypeOK /\ Outermost
  BY DEF ShareInv
<1>2. Len(calls) \in DOMAIN calls /\ Current = calls[Len(calls)]
  BY <1>1, CurrentCall
<1>3. Len(calls) = 1
  BY <1>1, <1>2 DEF Outermost
<1> QED BY <1>2, <1>3

LEMMA FinalizeEndsInv ==
    ASSUME ShareInv, FinalizeEnds("ok")
    PROVE  ShareInv'
<1>1. /\ calls # <<>> /\ Current.op = "finalize" /\ calls' = Front(calls) /\ initialized' = FALSE
      /\ shared' = [n \in Names |-> 0] /\ mine' = [n \in Names |-> 0] /\ left' = [n \in Names |-> 0]
      /\ UNCHANGED <<g_transaction, g_transaction_data>>
  BY DEF FinalizeEnds, Emptied, Return, transaction
<1>2. Len(calls) = 1 /\ Current = calls[1]
  BY <1>1, LastCall
<1>3. TypeOK /\ CallsOK /\ Outermost /\ WalkOK /\ DataInTransaction
  BY DEF ShareInv
<1>4. calls' \in Seq(Frames) /\ CallsOK' /\ Outermost' /\ calls' = <<>>
  BY <1>1, <1>2, <1>3, Returns
<1>5. ~Open' /\ g_transaction_data' = <<>>
  BY <1>1, <1>2, <1>3 DEF WalkOK, DataInTransaction, Open
<1>6. TypeOK'
  <2>1. initialized' \in BOOLEAN
    BY <1>1
  <2>2. /\ shared' \in [Names -> Int] /\ mine' \in [Names -> Nat] /\ left' \in [Names -> Nat]
        /\ g_transaction' \in Transactions /\ g_transaction_data' \in Seq(Names)
    BY <1>1, <1>3 DEF TypeOK
  <2> QED BY <1>4, <2>1, <2>2 DEF TypeOK
<1>7. \A n : IsFiniteSet(Held(n)') /\ HeldByCalls(n)' = 0
  BY <1>4, NoCallHoldsNext
<1>8. HeldFinite' /\ \A n \in Names : shared'[n] = mine'[n] + left'[n] + HeldByCalls(n)'
  BY <1>1, <1>7 DEF HeldFinite
<1> QED BY <1>4, <1>5, <1>6, <1>8, ClosedInv

LEMMA BeginInv ==
    ASSUME ShareInv, (\E t \in {NoName, "t"} : PDI_transaction_begin(t)) \/ TransactionEndRefused
    PROVE  ShareInv'
<1>1. /\ calls = <<>> /\ UNCHANGED <<initialized, shared, g_transaction_data, calls, mine, left>>
      /\ g_transaction' \in Transactions /\ (Open => g_transaction' = g_transaction)
  BY DEF PDI_transaction_begin, TransactionEndRefused, accounts, ShareInv, TypeOK, Transactions
<1>2. TypeOK /\ CallsOK /\ Outermost /\ DataInTransaction /\ HeldFinite /\ EveryShareHasAReclaimer
  BY DEF ShareInv
<1>3. TypeOK' /\ CallsOK' /\ Outermost'
  BY <1>1, <1>2 DEF TypeOK, CallsOK, Outermost
<1>4. WalkOK'
  BY <1>1 DEF WalkOK
<1>5. DataInTransaction'
  BY <1>1, <1>2 DEF DataInTransaction, Open
<1>6. Deferred' = Deferred /\ \A n : Held(n)' = Held(n) /\ HeldByCalls(n)' = HeldByCalls(n)
  BY <1>1 DEF Deferred, Held, HeldByCalls
<1>7. HeldFinite'
  BY <1>2, <1>6 DEF HeldFinite
<1>8. EveryShareHasAReclaimer'
  BY <1>1, <1>2, <1>6 DEF EveryShareHasAReclaimer
<1> QED BY <1>3, <1>4, <1>5, <1>7, <1>8 DEF ShareInv

-----------------------------------------------------------------------------
(* PDI_transaction_end *)

LEMMA EndStarts ==
    ASSUME ShareInv, PDI_transaction_end
    PROVE  ShareInv'
<1> DEFINE f == Frame("end", <<>>, <<>>)
           g == IF g_transaction_status = "ok" THEN Enter(f, "event", NoName, FALSE) ELSE [f EXCEPT !.pc = "iterate"]
<1>1. /\ calls = <<>> /\ Open /\ Start(g)
      /\ UNCHANGED <<initialized, shared, g_transaction, g_transaction_data, mine, left>>
  BY DEF PDI_transaction_end, transaction, accounts
<1>2. TypeOK /\ initialized \in BOOLEAN
  BY DEF ShareInv, TypeOK
<1>3. /\ f \in Frames /\ f.op = "end" /\ f.todo = <<>> /\ f.done = <<>> /\ f.base = 0 /\ f.name = NoName
  BY DEF Frame, Frames, Status, Ops
<1>4. g = IF g_transaction_status = "ok" THEN Enter(f, "event", NoName, FALSE) ELSE [f EXCEPT !.pc = "iterate"]
  OBVIOUS
<1> HIDE DEF f, g
<1>5. /\ g \in Frames /\ g.op = "end" /\ g.todo = <<>> /\ g.done = <<>> /\ g.base = 0 /\ g.name = NoName
      /\ g.pc \in {"event", "iterate"}
  BY ONLY <1>2, <1>3, <1>4 DEF Enter, Frames
<1>6. FrameOK(g)
  BY <1>5 DEF FrameOK
<1>7. /\ calls' \in Seq(Frames) /\ CallsOK' /\ Outermost' /\ HeldFinite' /\ calls' # <<>> /\ calls'[1] = g
      /\ \A n \in Names : HeldByCalls(n)' = 0
  BY <1>1, <1>5, <1>6, FirstCall
<1>8. TypeOK'
  BY <1>1, <1>2, <1>7 DEF TypeOK
<1>9. Open' = Open
  BY <1>1 DEF Open
<1>10. WalkOK' /\ ~Walks(calls') /\ DataInTransaction'
  BY <1>1, <1>5, <1>7, <1>9 DEF WalkOK, Walks, DataInTransaction
<1>11. Deferred' = g_transaction_data
  BY <1>1, <1>10, NotWalking
<1>12. EveryShareHasAReclaimer'
  <2> SUFFICES ASSUME NEW n \in Names
               PROVE  shared'[n] = mine'[n] + left'[n] + Count(Deferred', n) + HeldByCalls(n)'
    BY DEF EveryShareHasAReclaimer
  <2>1. /\ Count(g_transaction_data, n) \in Nat
        /\ shared[n] = mine[n] + left[n] + Count(g_transaction_data, n)
    BY <1>1, IdleAccounts
  <2>2. HeldByCalls(n)' = 0 /\ Count(Deferred', n) = Count(g_transaction_data, n) /\ mine[n] \in Nat /\ left[n] \in Nat
    BY <1>2, <1>7, <1>11 DEF TypeOK
  <2> QED BY <1>1, <2>1, <2>2
<1> QED BY <1>7, <1>8, <1>10, <1>12 DEF ShareInv

\* What PDI_transaction_end has still to reclaim when its frame is f.
Remaining(f) ==
    IF f.name = NoName THEN g_transaction_data
    ELSE SubSeq(g_transaction_data, 1, IF f.pc = "iterate" THEN Position(f) - 1 ELSE Position(f))

LEMMA RemainingType ==
    ASSUME g_transaction_data \in Seq(Names), NEW f,
           f.name # NoName => Position(f) \in 1 .. Len(g_transaction_data)
    PROVE  Remaining(f) \in Seq(Names)
<1>1. CASE f.name = NoName
  BY <1>1 DEF Remaining
<1>2. CASE f.name # NoName
  <2> DEFINE s == g_transaction_data
             i == Position(f)
  <2>1. SubSeq(s, 1, i) \in Seq(Names) /\ SubSeq(s, 1, i - 1) \in Seq(Names)
    BY <1>2, CountWhole
  <2> HIDE DEF i
  <2>2. Remaining(f) = SubSeq(s, 1, IF f.pc = "iterate" THEN i - 1 ELSE i)
    BY <1>2 DEF Remaining, i
  <2> QED BY <2>1, <2>2
<1> QED BY <1>1, <1>2

\* PDI_transaction_end goes on.
LEMMA EndBecomes ==
    ASSUME ShareInv, calls # <<>>, Current.op = "end", NEW g \in Frames, Become(g), FrameOK(g), g.op = "end",
           UNCHANGED <<initialized, g_transaction, g_transaction_data, mine>>,
           shared' \in [Names -> Int], left' \in [Names -> Nat],
           g.name = NoName => g.pc # "reclaim" /\ g.base = 0,
           g.name # NoName => /\ g.pc # "event"
                              /\ Position(g) \in 1 .. Len(g_transaction_data)
                              /\ g_transaction_data[Position(g)] = g.name,
           \A n \in Names : shared'[n] - shared[n]
                              = (left'[n] - left[n]) + (Count(Remaining(g), n) - Count(Remaining(Current), n))
    PROVE  ShareInv'
<1>1. TypeOK /\ CallsOK /\ Outermost /\ WalkOK /\ DataInTransaction /\ HeldFinite /\ EveryShareHasAReclaimer
  BY DEF ShareInv
<1>2. Len(calls) = 1 /\ Current = calls[1]
  BY LastCall
<1>3. calls' \in Seq(Frames) /\ CallsOK' /\ Outermost' /\ calls' # <<>> /\ calls'[1] = g /\ DOMAIN calls' = 1 .. 1
  BY <1>1, <1>2, Becomes
<1>4. Len(calls') = 1
  BY <1>3
<1>5. TypeOK'
  BY <1>1, <1>3 DEF TypeOK
<1>6. Open /\ Open' = Open
  BY <1>1, <1>2 DEF WalkOK, Open
<1>7. Position(calls[1])' = Position(g)
  BY <1>3 DEF Position
<1>8. DataInTransaction'
  BY <1>6 DEF DataInTransaction
<1>9. WalkOK'
  BY <1>3, <1>4, <1>6, <1>7 DEF WalkOK
<1>10. Deferred = Remaining(Current)
  BY <1>2 DEF Deferred, Remaining, Position
<1>11. Deferred' = Remaining(g)
  BY <1>3 DEF Deferred, Remaining, Position
<1>12. Remaining(g) \in Seq(Names) /\ Remaining(Current) \in Seq(Names)
  <2>1. Current.name # NoName => Position(Current) \in 1 .. Len(g_transaction_data)
    BY <1>1, <1>2 DEF WalkOK
  <2> QED BY <1>1, <2>1, RemainingType DEF TypeOK
<1>13. \A n \in Names : HeldBy(g, n) = HeldBy(Current, n)
  <2>1. Current \in Frames /\ FrameOK(Current)
    BY CurrentOK
  <2>2. g.done = <<>> /\ Current.done = <<>> /\ g.pc # "share" /\ Current.pc # "share"
    BY <2>1 DEF FrameOK
  <2>3. \A n \in Names : HeldBy(g, n) = {}
    BY <2>2, HeldByDone
  <2>4. \A n \in Names : HeldBy(Current, n) = {}
    BY <2>1, <2>2, HeldByDone
  <2> QED BY <2>3, <2>4
<1>14. \A n \in Names : IsFiniteSet(Held(n))' /\ HeldByCalls(n)' = HeldByCalls(n) /\ HeldByCalls(n) \in Nat
  BY <1>1, <1>13, BecomesSame, HeldType
<1>15. HeldFinite'
  BY <1>14 DEF HeldFinite
<1>16. \A n \in Names : shared'[n] - shared[n]
                         = (mine'[n] - mine[n]) + (left'[n] - left[n])
                           + (Count(Deferred', n) - Count(Deferred, n)) + (HeldByCalls(n)' - HeldByCalls(n))
  <2> SUFFICES ASSUME NEW n \in Names
               PROVE  shared'[n] - shared[n]
                         = (mine'[n] - mine[n]) + (left'[n] - left[n])
                           + (Count(Deferred', n) - Count(Deferred, n)) + (HeldByCalls(n)' - HeldByCalls(n))
    OBVIOUS
  <2>1. mine'[n] - mine[n] = 0 /\ HeldByCalls(n)' - HeldByCalls(n) = 0 /\ left[n] \in Int /\ left'[n] \in Int
    BY <1>1, <1>14 DEF TypeOK
  <2>2. Count(Deferred', n) \in Nat /\ Count(Deferred, n) \in Nat
    BY <1>10, <1>11, <1>12, CountPlaces
  <2>3. shared'[n] - shared[n] = (left'[n] - left[n]) + (Count(Deferred', n) - Count(Deferred, n))
    BY <1>10, <1>11
  <2> DEFINE a == mine'[n] - mine[n]
             b == HeldByCalls(n)' - HeldByCalls(n)
             c == Count(Deferred', n) - Count(Deferred, n)
             d == left'[n] - left[n]
             e == shared'[n] - shared[n]
  <2>4. a = 0 /\ b = 0 /\ c \in Int /\ d \in Int /\ e = d + c
    BY <2>1, <2>2, <2>3
  <2> HIDE DEF a, b, c, d, e
  <2>5. e = a + d + c + b
    BY <2>4
  <2> QED BY <2>5 DEF a, b, c, d, e
<1>17. EveryShareHasAReclaimer'
  BY <1>1, <1>5, <1>10, <1>11, <1>12, <1>15, <1>16, AccountsBalance
<1> QED BY <1>3, <1>5, <1>8, <1>9, <1>15, <1>17 DEF ShareInv

LEMMA EndEventEnds ==
    ASSUME ShareInv, NEW e \in Status, TransactionEventEnds(e)
    PROVE  ShareInv'
<1> DEFINE f == Current
           g == [f EXCEPT !.pc = "iterate"]
<1>1. /\ calls # <<>> /\ f.pc = "event" /\ f.op = "end" /\ Become(g)
      /\ UNCHANGED <<initialized, shared, g_transaction, g_transaction_data, mine, left>>
  BY DEF TransactionEventEnds
<1>2. TypeOK /\ f \in Frames /\ FrameOK(f)
  BY <1>1, CurrentOK
<1>3. f = Current /\ g = [f EXCEPT !.pc = "iterate"]
  OBVIOUS
<1> HIDE DEF f, g
<1>4. /\ g \in Frames /\ g.op = "end" /\ g.todo = f.todo /\ g.done = f.done /\ g.base = f.base /\ g.name = f.name
      /\ g.pc = "iterate"
  BY ONLY <1>1, <1>2, <1>3 DEF Frames
<1>5. f.name = NoName /\ f.base = 0
  <2>1. Current = calls[1]
    BY <1>1, <1>3, LastCall
  <2> QED BY <1>1, <1>3, <2>1 DEF ShareInv, WalkOK
<1>6. FrameOK(g)
  BY <1>1, <1>2, <1>4, <1>5 DEF FrameOK
<1>7. Remaining(g) = g_transaction_data /\ Remaining(Current) = g_transaction_data
  BY <1>3, <1>4, <1>5 DEF Remaining
<1>8. shared \in [Names -> Int] /\ left \in [Names -> Nat] /\ g_transaction_data \in Seq(Names)
  BY <1>2 DEF TypeOK
<1>9. \A n \in Names : Count(g_transaction_data, n) \in Nat
  BY <1>8, CountPlaces
<1>10. \A n \in Names : shared'[n] - shared[n]
                          = (left'[n] - left[n]) + (Count(Remaining(g), n) - Count(Remaining(Current), n))
  BY <1>1, <1>7, <1>8, <1>9
<1>11. shared' \in [Names -> Int] /\ left' \in [Names -> Nat]
  BY <1>1, <1>8
<1>12. g.name = NoName /\ g.pc # "reclaim" /\ g.base = 0 /\ Current.op = "end"
  BY <1>1, <1>3, <1>4, <1>5
<1> QED BY <1>1, <1>4, <1>6, <1>10, <1>11, <1>12, EndBecomes

\* The next data that PDI_transaction_end reclaims is the last one that
\* remains.
LEMMA EndReclaims ==
    ASSUME ShareInv, TransactionReclaims
    PROVE  ShareInv'
<1> DEFINE f == Current
           s == g_transaction_data
           b == IF f.name = NoName THEN 0 ELSE IF f.base = 0 THEN Len(s) ELSE f.base - 1
           i == IF b = 0 THEN Len(s) ELSE b - 1
           h == [f EXCEPT !.base = b]
           r == (shared[s[i]] = 0)
           g == Enter(h, "reclaim", s[i], r)
<1>1. /\ calls # <<>> /\ f.pc = "iterate" /\ i # 0 /\ Become(g)
      /\ UNCHANGED <<initialized, shared, g_transaction, g_transaction_data, mine, left>>
  BY DEF TransactionReclaims, transaction, accounts
<1>2. TypeOK /\ initialized \in BOOLEAN /\ f \in Frames /\ FrameOK(f)
  BY <1>1, CurrentOK
<1>3. /\ f = Current /\ h = [f EXCEPT !.base = b] /\ g = Enter(h, "reclaim", s[i], r) /\ r \in BOOLEAN
      /\ b = (IF f.name = NoName THEN 0 ELSE IF f.base = 0 THEN Len(s) ELSE f.base - 1)
      /\ i = (IF b = 0 THEN Len(s) ELSE b - 1)
  OBVIOUS
<1> HIDE DEF f, b, i, h, r, g
<1>4. f.op = "end" /\ f.todo = <<>> /\ f.done = <<>> /\ f.base \in Nat
  BY <1>1, <1>2 DEF FrameOK, SingleOK, Frames, Ops
<1>5. /\ f.name # NoName => Position(f) \in 1 .. Len(s)
      /\ f.name = NoName => f.base = 0
  <2>1. Current = calls[1]
    BY <1>1, <1>3, <1>4, LastCall
  <2> QED BY <1>1, <1>3, <1>4, <2>1 DEF ShareInv, WalkOK
<1>6. s \in Seq(Names) /\ Len(s) \in Nat
  BY <1>2 DEF TypeOK
<1>7. /\ b \in Nat /\ i \in 1 .. Len(s)
      /\ f.name # NoName => b = Position(f) /\ b # 0 /\ i = Position(f) - 1
      /\ f.name = NoName => b = 0 /\ i = Len(s)
      /\ i = IF b = 0 THEN Len(s) ELSE b - 1
  <2> DEFINE l == Len(s)
             p == Position(f)
  <2>1. l \in Nat /\ p = (IF f.base = 0 THEN l ELSE f.base - 1) /\ i = (IF b = 0 THEN l ELSE b - 1)
    BY <1>3, <1>6 DEF Position
  <2>2. (f.name # NoName => p \in 1 .. l /\ b = p) /\ (f.name = NoName => b = 0)
    BY <1>3, <1>5, <2>1
  <2> HIDE DEF l, p
  <2>3. CASE f.name = NoName
    BY <1>1, <2>1, <2>2, <2>3 DEF l
  <2>4. CASE f.name # NoName
    <3>1. b \in 1 .. l /\ b = p /\ i = b - 1 /\ b # 0
      BY <2>1, <2>2, <2>4
    <3>2. i # 0 /\ l \in Nat
      BY <1>1, <2>1
    <3>3. b \in Nat /\ b - 1 \in 1 .. l
      BY ONLY <3>1, <3>2
    <3> QED BY <2>4, <3>1, <3>3 DEF l, p
  <2> QED BY <2>3, <2>4
<1>8. s[i] \in Names /\ s[i] # NoName
  BY <1>6, <1>7, TransactionAssumption
<1>9. /\ h \in Frames /\ h.op = f.op /\ h.todo = f.todo /\ h.done = f.done /\ h.base = b
  BY ONLY <1>2, <1>3, <1>7 DEF Frames
<1>10. /\ g \in Frames /\ g.op = f.op /\ g.todo = f.todo /\ g.done = f.done /\ g.base = b
       /\ g.pc = "reclaim" /\ g.name = s[i]
  <2> DEFINE x == s[i]
             q == r \/ ~initialized
  <2>1. x \in Names \cup {NoName} /\ q \in BOOLEAN /\ g = [h EXCEPT !.pc = "reclaim", !.name = x, !.refused = q]
    BY <1>2, <1>3, <1>8 DEF Enter
  <2> HIDE DEF x, q
  <2>2. /\ g \in Frames /\ g.op = h.op /\ g.todo = h.todo /\ g.done = h.done /\ g.base = h.base
        /\ g.pc = "reclaim" /\ g.name = x
    BY ONLY <1>9, <2>1 DEF Frames
  <2> QED BY <1>9, <2>2 DEF x
<1>11. FrameOK(g)
  BY <1>4, <1>8, <1>10 DEF FrameOK
<1>12. Position(g) = i
  BY <1>7, <1>10 DEF Position
<1>13. Remaining(g) = SubSeq(s, 1, i)
  BY <1>8, <1>10, <1>12 DEF Remaining
<1>14. \A n \in Names : Count(Remaining(g), n) = Count(Remaining(Current), n) /\ Count(Remaining(g), n) \in Nat
  <2> SUFFICES ASSUME NEW n \in Names
               PROVE  Count(Remaining(g), n) = Count(Remaining(Current), n) /\ Count(Remaining(g), n) \in Nat
    OBVIOUS
  <2>1. Count(SubSeq(s, 1, Len(s)), n) = Count(s, n) /\ SubSeq(s, 1, i) \in Seq(Names)
    BY <1>6, <1>7, CountWhole
  <2>2. Count(Remaining(g), n) \in Nat
    BY <1>13, <2>1, CountPlaces
  <2>3. CASE f.name = NoName
    <3>1. Remaining(Current) = s
      BY <1>3, <2>3 DEF Remaining
    <3> QED BY <1>7, <1>13, <2>1, <2>2, <2>3, <3>1
  <2>4. CASE f.name # NoName
    <3>1. Remaining(Current) = SubSeq(s, 1, Position(f) - 1)
      BY <1>1, <1>3, <2>4 DEF Remaining
    <3> QED BY <1>7, <1>13, <2>2, <2>4, <3>1
  <2> QED BY <2>3, <2>4
<1>15. shared \in [Names -> Int] /\ left \in [Names -> Nat]
  BY <1>2 DEF TypeOK
<1>16. \A n \in Names : shared'[n] - shared[n]
                          = (left'[n] - left[n]) + (Count(Remaining(g), n) - Count(Remaining(Current), n))
  BY <1>1, <1>14, <1>15
<1>17. shared' \in [Names -> Int] /\ left' \in [Names -> Nat] /\ Current.op = "end" /\ g.op = "end"
  BY <1>1, <1>3, <1>4, <1>10, <1>15
<1>18. g.name # NoName /\ g.pc # "event" /\ Position(g) \in 1 .. Len(g_transaction_data)
       /\ g_transaction_data[Position(g)] = g.name
  BY <1>7, <1>8, <1>10, <1>12
<1> QED BY <1>1, <1>10, <1>11, <1>16, <1>17, <1>18, EndBecomes

\* The data that PDI_transaction_end could not reclaim is left.
LEMMA EndReclaimEnds ==
    ASSUME ShareInv, NEW e \in Status, ReclaimEnds(e), Current.op = "end"
    PROVE  ShareInv'
<1> DEFINE f == Current
           s == g_transaction_data
           i == Position(f)
           g == [f EXCEPT !.pc = "iterate", !.status = First(@, e), !.done = <<>>]
<1>1. calls # <<>> /\ f.pc = "reclaim" /\ f.op = "end"
  BY DEF ReclaimEnds
<1>2. /\ TypeOK /\ CallsOK /\ Outermost /\ HeldFinite /\ f \in Frames /\ FrameOK(f)
  BY <1>1, CurrentOK
<1>3. f.done = <<>> /\ f.todo = <<>> /\ f.name \in Names /\ f.status \in Status
  BY <1>1, <1>2 DEF FrameOK, Frames
<1>4. Become(g)
  BY <1>1, <1>3 DEF ReclaimEnds
<1>5. /\ shared' = IF e = "ok" THEN [shared EXCEPT ![f.name] = @ - 1] ELSE shared
      /\ left' = IF e # "ok" /\ shared[f.name] > 0 THEN [left EXCEPT ![f.name] = @ + 1] ELSE left
      /\ UNCHANGED <<initialized, g_transaction, g_transaction_data, mine>>
  BY <1>1 DEF ReclaimEnds
<1>6. f = Current /\ g = [f EXCEPT !.pc = "iterate", !.status = First(@, e), !.done = <<>>]
  OBVIOUS
<1> HIDE DEF f, g
<1>7. f.name # NoName /\ i \in 1 .. Len(s) /\ s[i] = f.name
  <2>1. Current = calls[1]
    BY <1>1, <1>6, LastCall
  <2>2. f.name # NoName
    BY <1>3, TransactionAssumption
  <2> QED BY <1>1, <1>6, <2>1, <2>2 DEF ShareInv, WalkOK
<1>8. First(f.status, e) \in Status /\ <<>> \in Seq(Names)
  BY <1>3 DEF First
<1>9. /\ g \in Frames /\ g.op = f.op /\ g.todo = f.todo /\ g.done = <<>> /\ g.base = f.base /\ g.name = f.name
      /\ g.pc = "iterate"
  BY ONLY <1>2, <1>6, <1>8 DEF Frames
<1>10. FrameOK(g)
  BY <1>1, <1>3, <1>9 DEF FrameOK
<1>11. Position(g) = i
  BY <1>9 DEF Position
<1>12. Remaining(g) = SubSeq(s, 1, i - 1) /\ Remaining(Current) = SubSeq(s, 1, i)
  BY <1>1, <1>6, <1>7, <1>9, <1>11 DEF Remaining
<1>13. s \in Seq(Names) /\ shared \in [Names -> Int] /\ left \in [Names -> Nat] /\ mine \in [Names -> Nat]
  BY <1>2 DEF TypeOK
<1> HIDE DEF i
<1>14. \A n \in Names : /\ Count(Remaining(Current), n) = Count(Remaining(g), n) + (IF f.name = n THEN 1 ELSE 0)
                        /\ Count(Remaining(g), n) \in Nat
  <2>1. \A n \in Names : Count(SubSeq(s, 1, i), n) = Count(SubSeq(s, 1, i - 1), n) + (IF s[i] = n THEN 1 ELSE 0)
    BY <1>7, <1>13, CountWhole
  <2>2. SubSeq(s, 1, i - 1) \in Seq(Names)
    BY <1>7, <1>13, CountWhole
  <2>3. \A n \in Names : Count(SubSeq(s, 1, i - 1), n) \in Nat
    BY <2>2, CountPlaces
  <2> QED BY <1>7, <1>12, <2>1, <2>3
<1>15. shared[f.name] > 0
  <2> DEFINE n == f.name
  <2>1. Deferred = Remaining(Current)
    <3>1. Current = calls[1]
      BY <1>1, <1>6, LastCall
    <3> QED BY <1>1, <1>6, <1>7, <3>1 DEF Deferred, Remaining, Position
  <2>2. shared[n] = mine[n] + left[n] + Count(Deferred, n) + HeldByCalls(n)
    BY <1>3 DEF ShareInv, EveryShareHasAReclaimer
  <2>3. HeldByCalls(n) \in Nat
    BY <1>2, <1>3, HeldType
  <2>4. Count(Deferred, n) \in Nat /\ Count(Deferred, n) > 0
    BY <1>3, <1>14, <2>1
  <2> DEFINE a == mine[n]
             b == left[n]
             c == Count(Deferred, n)
             d == HeldByCalls(n)
  <2>5. a \in Nat /\ b \in Nat /\ c \in Nat /\ c > 0 /\ d \in Nat /\ shared[n] = a + b + c + d
    BY <1>3, <1>13, <2>2, <2>3, <2>4
  <2> HIDE DEF a, b, c, d
  <2> QED BY <2>5
<1>16. shared' \in [Names -> Int] /\ left' \in [Names -> Nat]
  <2>1. shared' \in [Names -> Int]
    BY <1>3, <1>5, <1>13
  <2>2. left' \in [Names -> Nat]
    BY <1>3, <1>5, <1>13, SMTT(30)
  <2> QED BY <2>1, <2>2
<1>17. \A n \in Names : shared'[n] - shared[n]
                          = (left'[n] - left[n]) + (Count(Remaining(g), n) - Count(Remaining(Current), n))
  <2> SUFFICES ASSUME NEW n \in Names
               PROVE  shared'[n] - shared[n]
                          = (left'[n] - left[n]) + (Count(Remaining(g), n) - Count(Remaining(Current), n))
    OBVIOUS
  <2> DEFINE d == Count(Remaining(g), n) - Count(Remaining(Current), n)
  <2>1. d = IF f.name = n THEN -1 ELSE 0
    BY <1>14
  <2> HIDE DEF d
  <2>2. shared[n] \in Int /\ left[n] \in Int
    BY <1>13
  <2>3. shared'[n] - shared[n] = (left'[n] - left[n]) + d
    <3>1. CASE e = "ok"
      <4>1. shared'[n] = (IF n = f.name THEN shared[n] - 1 ELSE shared[n]) /\ left' = left
        BY <1>3, <1>5, <1>13, <3>1
      <4> QED BY <2>1, <2>2, <4>1
    <3>2. CASE e # "ok"
      <4>1. left'[n] = (IF n = f.name THEN left[n] + 1 ELSE left[n]) /\ shared' = shared
        BY <1>3, <1>5, <1>13, <1>15, <3>2
      <4> QED BY <2>1, <2>2, <4>1
    <3> QED BY <3>1, <3>2
  <2> QED BY <2>3 DEF d
<1>18. /\ g.name # NoName /\ g.pc # "event" /\ Position(g) \in 1 .. Len(g_transaction_data)
       /\ g_transaction_data[Position(g)] = g.name /\ g.op = "end" /\ Current.op = "end"
  BY <1>1, <1>6, <1>7, <1>9, <1>11
<1> QED BY <1>1, <1>4, <1>5, <1>9, <1>10, <1>16, <1>17, <1>18, EndBecomes

\* When PDI_transaction_end returns nothing remains.
LEMMA EndReturns ==
    ASSUME ShareInv, TransactionEnds
    PROVE  ShareInv'
<1> DEFINE f == Current
           s == g_transaction_data
<1>1. /\ calls # <<>> /\ f.pc = "iterate" /\ calls' = Front(calls)
      /\ f.name = NoName => s = <<>>
      /\ f.name # NoName => Position(f) = 1
      /\ g_transaction' = NoName /\ g_transaction_data' = <<>>
      /\ UNCHANGED <<initialized, shared, mine, left>>
  BY DEF TransactionEnds, Return, Position, accounts
<1>2. TypeOK /\ CallsOK /\ Outermost /\ HeldFinite /\ f \in Frames /\ FrameOK(f)
  BY <1>1, CurrentOK
<1>3. f.op = "end" /\ f.done = <<>>
  BY <1>1, <1>2 DEF FrameOK, SingleOK, Frames, Ops
<1>4. Len(calls) = 1 /\ f = calls[1]
  BY <1>1, <1>3, LastCall
<1>5. f = Current
  OBVIOUS
<1> HIDE DEF f
<1>6. s \in Seq(Names) /\ shared \in [Names -> Int] /\ mine \in [Names -> Nat] /\ left \in [Names -> Nat]
  BY <1>2 DEF TypeOK
<1>7. \A n \in Names : Count(Deferred, n) = 0
  <2> SUFFICES ASSUME NEW n \in Names
               PROVE  Count(Deferred, n) = 0
    OBVIOUS
  <2>1. CASE f.name = NoName
    <3>1. Deferred = <<>>
      BY <1>1, <1>4, <2>1 DEF Deferred
    <3> QED BY <3>1, CountEmpty
  <2>2. CASE f.name # NoName
    <3>1. Position(f) \in 1 .. Len(s)
      BY <1>1, <1>3, <1>4, <2>2 DEF ShareInv, WalkOK
    <3>2. Deferred = SubSeq(s, 1, Position(f) - 1)
      BY <1>1, <1>3, <1>4, <2>2 DEF Deferred, Position
    <3>3. Position(f) - 1 = 0
      BY <1>1, <2>2
    <3>4. Count(SubSeq(s, 1, 0), n) = 0
      BY <1>6, <3>1, CountWhole
    <3> QED BY <3>2, <3>3, <3>4
  <2> QED BY <2>1, <2>2
<1>8. calls' \in Seq(Frames) /\ CallsOK' /\ Outermost' /\ calls' = <<>>
  BY <1>1, <1>2, <1>4, Returns
<1>9. \A n \in Names : HeldBy(Current, n) = {}
  BY <1>1, <1>2, <1>3, <1>5, HeldByDone
<1>10. \A n \in Names : IsFiniteSet(Held(n)') /\ HeldByCalls(n)' = 0
  BY <1>8, NoCallHoldsNext
<1>11. \A n \in Names : HeldByCalls(n)' = HeldByCalls(n)
  BY <1>1, <1>2, <1>9, ReturnsNothing
<1>12. HeldFinite'
  BY <1>10 DEF HeldFinite
<1>13. TypeOK' /\ ~Open'
  BY <1>1, <1>2, <1>8 DEF TypeOK, Transactions, Open
<1>14. \A n \in Names : shared'[n] = mine'[n] + left'[n] + HeldByCalls(n)'
  <2> SUFFICES ASSUME NEW n \in Names
               PROVE  shared'[n] = mine'[n] + left'[n] + HeldByCalls(n)'
    OBVIOUS
  <2>1. shared[n] = mine[n] + left[n] + Count(Deferred, n) + HeldByCalls(n)
    BY DEF ShareInv, EveryShareHasAReclaimer
  <2>2. Count(Deferred, n) = 0 /\ HeldByCalls(n) = 0 /\ HeldByCalls(n)' = 0 /\ mine[n] \in Int /\ left[n] \in Int
    BY <1>6, <1>7, <1>10, <1>11
  <2> QED BY <1>1, <2>1, <2>2
<1> QED BY <1>1, <1>8, <1>12, <1>13, <1>14, ClosedInv

-----------------------------------------------------------------------------
(* The theorems *)

LEMMA ShareInvInit ==
    Init => ShareInv
<1> SUFFICES ASSUME Init
             PROVE  ShareInv
  OBVIOUS
<1>1. /\ calls = <<>> /\ initialized = FALSE /\ g_transaction = NoName /\ g_transaction_data = <<>>
      /\ shared = [n \in Names |-> 0] /\ mine = [n \in Names |-> 0] /\ left = [n \in Names |-> 0]
  BY DEF Init
<1>2. TypeOK
  <2>1. initialized \in BOOLEAN
    BY <1>1
  <2> QED BY <1>1, <2>1 DEF TypeOK, Transactions
<1>3. CallsOK /\ Outermost /\ WalkOK /\ DataInTransaction
  BY <1>1 DEF CallsOK, Outermost, WalkOK, DataInTransaction
<1>4. \A n \in Names : IsFiniteSet(Held(n)) /\ HeldByCalls(n) = 0 /\ Count(Deferred, n) = 0
  <2>1. Deferred = <<>>
    BY <1>1 DEF Deferred
  <2> QED BY <1>1, <2>1, NoCallHolds, CountEmpty
<1>5. HeldFinite /\ EveryShareHasAReclaimer
  BY <1>1, <1>4 DEF HeldFinite, EveryShareHasAReclaimer
<1> QED BY <1>2, <1>3, <1>5 DEF ShareInv

LEMMA ShareInvNext ==
    ASSUME "reclaim" \notin Callers, ShareInv, [Next]_vars
    PROVE  ShareInv'
<1>1. CASE PDI_init
  BY <1>1, InitInv
<1>2. CASE PDI_finalize
  BY <1>2, FinalizeInv
<1>3. CASE \E e \in Errors : PDI_initFails(e)
  BY <1>3, InitFailsInv
<1>4. CASE PDI_event
  BY <1>4, EventStarts
<1>5. CASE \E n \in Names : PDI_share(n) \/ PDI_reclaim(n) \/ PDI_expose(n)
  BY <1>5, ShareStarts, ReclaimStarts, ExposeStarts
<1>6. CASE \E s \in Multi : PDI_multi_expose(s)
  BY <1>6, MultiStarts
<1>7. CASE (\E t \in {NoName, "t"} : PDI_transaction_begin(t)) \/ TransactionEndRefused
  BY <1>7, BeginInv
<1>8. CASE PDI_transaction_end
  BY <1>8, EndStarts
<1>9. CASE ShareNext
  BY <1>9, ShareNextInv
<1>10. ASSUME NEW e \in Status, ShareEnds(e) \/ EventEnds(e) \/ ReclaimEnds(e) \/ FinalizeEnds(e) \/ TransactionEventEnds(e)
       PROVE  ShareInv'
  <2>1. CASE ShareEnds(e)
    BY <2>1, ShareEndsInv
  <2>2. CASE EventEnds(e)
    BY <2>2, EventEndsInv
  <2>3. CASE ReclaimEnds(e)
    BY <2>3, ReclaimEndsInv, EndReclaimEnds
  <2>4. CASE FinalizeEnds(e)
    <3>1. CASE e = "ok"
      BY <2>4, <3>1, FinalizeEndsInv
    <3>2. CASE e \in Errors
      BY <2>4, <3>2, QuietReturnsInv
    <3> QED BY <3>1, <3>2 DEF Status
  <2>5. CASE TransactionEventEnds(e)
    BY <2>5, EndEventEnds
  <2> QED BY <1>10, <2>1, <2>2, <2>3, <2>4, <2>5
<1>11. CASE ShareReturns
  BY <1>11, ShareReturnsInv
<1>12. CASE ReclaimReturns \/ ExposeFails \/ ExposeReturns \/ MultiReturns
  BY <1>12, QuietReturnsInv
<1>13. CASE ExposeDefers
  BY <1>13, ExposeDefersInv
<1>14. CASE ExposeReclaims
  BY <1>14, ExposeReclaimsInv
<1>15. CASE MultiEvent \/ MultiReclaim
  BY <1>15, MultiEventInv, MultiReclaimInv
<1>16. CASE TransactionReclaims
  BY <1>16, EndReclaims
<1>17. CASE TransactionEnds
  BY <1>17, EndReturns
<1>18. CASE UNCHANGED vars
  <2>1. UNCHANGED <<initialized, shared, g_transaction, g_transaction_data, calls, mine, left>>
    BY <1>18 DEF vars, transaction, accounts
  <2>2. Deferred' = Deferred /\ \A n : Held(n)' = Held(n) /\ HeldByCalls(n)' = HeldByCalls(n)
    BY <2>1 DEF Deferred, Held, HeldByCalls
  <2> QED BY <2>1, <2>2 DEF ShareInv, TypeOK, CallsOK, Outermost, WalkOK, Position, DataInTransaction, Open,
                            HeldFinite, EveryShareHasAReclaimer
<1> QED BY <1>1, <1>2, <1>3, <1>4, <1>5, <1>6, <1>7, <1>8, <1>9, <1>10, <1>11, <1>12, <1>13, <1>14, <1>15,
           <1>16, <1>17, <1>18 DEF Next

\* The inductive invariant of the accounts holds when no callback of
\* PDI_reclaim calls the API while a transaction is open.
THEOREM ShareInvHolds ==
    ASSUME "reclaim" \notin Callers
    PROVE  Spec => []ShareInv
<1>1. ShareInv /\ [Next]_vars => ShareInv'
  BY ShareInvNext
<1> QED BY <1>1, ShareInvInit, PTL DEF Spec

\* Every data that PDI_share, PDI_expose and PDI_multi_expose put in the store
\* has exactly one place that reclaims it, or an error was returned for it:
\* for every set of names and every nesting of calls, when no callback of
\* PDI_reclaim calls the API while a transaction is open.
THEOREM EveryShareReclaimed ==
    ASSUME "reclaim" \notin Callers
    PROVE  Spec => []EveryShareHasAReclaimer
<1>1. ShareInv => EveryShareHasAReclaimer
  BY DEF ShareInv
<1> QED BY <1>1, ShareInvHolds, PTL

\* PDI_expose is PDI_share and PDI_reclaim: when no call and no transaction is
\* in progress, only what the user shared, and what an error left, is shared.
THEOREM NothingLeft ==
    ASSUME "reclaim" \notin Callers
    PROVE  Spec => []ExposeLeavesNothing
<1>1. ShareInv => ExposeLeavesNothing
  <2> SUFFICES ASSUME ShareInv, calls = <<>>, ~Open, NEW n \in Names
               PROVE  shared[n] = mine[n] + left[n]
    BY DEF ExposeLeavesNothing
  <2>1. /\ TypeOK /\ shared[n] = mine[n] + left[n] + Count(g_transaction_data, n)
    BY IdleAccounts
  <2>2. Count(g_transaction_data, n) = 0
    BY CountEmpty DEF ShareInv, DataInTransaction
  <2>3. mine[n] \in Nat /\ left[n] \in Nat
    BY <2>1 DEF TypeOK
  <2> QED BY <2>1, <2>2, <2>3
<1> QED BY <1>1, ShareInvHolds, PTL

-----------------------------------------------------------------------------
(* The status that PDI_transaction_end returns *)

\* While PDI_transaction_end waits for its event, nothing failed.
EventFirst ==
    calls # <<>> /\ calls[1].op = "end" /\ calls[1].pc = "event" =>
        Len(calls) = 1 /\ g_transaction_status = "ok"

FirstInv ==
    /\ Open => g_transaction_status = first
    /\ EventFirst

\* The innermost call goes on, and does not wait for the event of a transaction.
LEMMA EventFirstBecomes ==
    ASSUME TypeOK, EventFirst, calls # <<>>, NEW g, Become(g), g.op # "end" \/ g.pc # "event"
    PROVE  EventFirst'
<1> DEFINE l == Len(calls)
<1>1. l \in Nat /\ l > 0 /\ DOMAIN calls = 1 .. l /\ l \in 1 .. l
  BY CurrentCall
<1>2. calls' = [calls EXCEPT ![l] = g]
  BY DEF Become
<1>3. calls[1].op = "end" /\ calls[1].pc = "event" => l = 1
  BY DEF EventFirst
<1> HIDE DEF l
<1>4. calls'[1] = IF l = 1 THEN g ELSE calls[1]
  BY <1>1, <1>2
<1>5. ~(calls'[1].op = "end" /\ calls'[1].pc = "event")
  BY <1>3, <1>4
<1> QED BY <1>5 DEF EventFirst

LEMMA EventFirstReturns ==
    ASSUME ShareInv, EventFirst, calls # <<>>, calls' = Front(calls)
    PROVE  EventFirst'
<1> DEFINE l == Len(calls)
<1>1. TypeOK /\ CallsOK /\ Outermost
  BY DEF ShareInv
<1>2. l \in Nat /\ l > 0 /\ (\A i \in 1 .. (l - 1) : calls'[i] = calls[i]) /\ (calls' = <<>> <=> l = 1)
  BY <1>1, Returns DEF Below
<1>3. calls[1].op = "end" /\ calls[1].pc = "event" => l = 1
  BY DEF EventFirst
<1> HIDE DEF l
<1>4. calls' # <<>> => calls'[1] = calls[1] /\ l # 1
  BY <1>2
<1> QED BY <1>3, <1>4 DEF EventFirst

\* No callback of the event of a transaction calls the API.
LEMMA EventFirstStarts ==
    ASSUME "event" \notin Callers, ShareInv, EventFirst, MayCall, NEW g, g.op # "end", Start(g)
    PROVE  EventFirst'
<1>1. TypeOK /\ WalkOK /\ calls \in Seq(Frames)
  BY DEF ShareInv, TypeOK
<1>2. CASE calls = <<>>
  <2>1. calls'[1] = g
    BY <1>2 DEF Start
  <2> QED BY <2>1 DEF EventFirst
<1>3. CASE calls # <<>>
  <2>1. Len(calls) > 0 /\ calls'[1] = calls[1]
    BY <1>1, <1>3 DEF Start
  <2>2. ASSUME calls[1].op = "end", calls[1].pc = "event"
        PROVE  FALSE
    <3>1. Len(calls) = 1 /\ Open
      BY <1>1, <1>3, <2>2 DEF EventFirst, WalkOK
    <3>2. Current = calls[1]
      BY <1>1, <1>3, <3>1, CurrentCall
    <3> QED BY <1>3, <2>2, <3>1, <3>2 DEF MayCall
  <2> QED BY <2>1, <2>2 DEF EventFirst
<1> QED BY <1>2, <1>3

\* The calls that start or return, with no error to record.
LEMMA EventFirstCalls ==
    ASSUME "event" \notin Callers, ShareInv, EventFirst,
           \/ PDI_event \/ ShareReturns \/ ReclaimReturns \/ ExposeDefers \/ ExposeReturns \/ MultiReturns
           \/ \E n \in Names : PDI_share(n) \/ PDI_reclaim(n) \/ PDI_expose(n)
           \/ \E s \in Multi : PDI_multi_expose(s)
    PROVE  EventFirst' /\ UNCHANGED <<g_transaction, g_transaction_status, first>>
<1>1. UNCHANGED <<g_transaction, g_transaction_status, first>>
  BY DEF PDI_event, PDI_share, PDI_reclaim, PDI_expose, PDI_multi_expose, UserCall, ShareReturns, ReclaimReturns,
         ExposeDefers, ExposeReturns, MultiReturns, transaction, accounts
<1>2. CASE ShareReturns \/ ReclaimReturns \/ ExposeDefers \/ ExposeReturns \/ MultiReturns
  <2>1. calls # <<>> /\ calls' = Front(calls)
    BY <1>2 DEF ShareReturns, ReclaimReturns, ExposeDefers, ExposeReturns, MultiReturns, Ready, Return
  <2> QED BY <1>1, <2>1, EventFirstReturns
<1>3. CASE PDI_event
  <2> DEFINE f == Frame("event", <<>>, <<>>)
             g == Enter(f, "event", NoName, FALSE)
  <2>1. MayCall /\ Start(g)
    BY <1>3 DEF PDI_event, UserCall
  <2>2. g.op # "end"
    BY DEF Enter, Frame
  <2> HIDE DEF g
  <2> QED BY <1>1, <2>1, <2>2, EventFirstStarts
<1>4. ASSUME NEW n \in Names, PDI_share(n) \/ PDI_expose(n)
      PROVE  EventFirst'
  <2>1. PICK o \in {"share", "expose"} : MayCall /\ Start(Frame(o, <<n>>, <<>>))
    BY <1>4 DEF PDI_share, PDI_expose, UserCall
  <2> DEFINE g == Frame(o, <<n>>, <<>>)
  <2>2. g.op # "end"
    BY DEF Frame
  <2>3. MayCall /\ Start(g)
    BY <2>1
  <2> HIDE DEF g
  <2> QED BY <2>2, <2>3, EventFirstStarts
<1>5. ASSUME NEW n \in Names, PDI_reclaim(n)
      PROVE  EventFirst'
  <2> DEFINE d == IF mine[n] > 0 THEN <<n>> ELSE <<>>
             f == Frame("reclaim", <<>>, d)
             r == (shared[n] = 0)
             g == Enter(f, "reclaim", n, r)
  <2>1. MayCall /\ Start(g)
    BY <1>5 DEF PDI_reclaim
  <2> HIDE DEF d, r
  <2>2. g.op # "end"
    BY DEF Enter, Frame
  <2> HIDE DEF g
  <2> QED BY <2>1, <2>2, EventFirstStarts
<1>6. ASSUME NEW s \in Multi, PDI_multi_expose(s)
      PROVE  EventFirst'
  <2> DEFINE g == Frame("multi", s, <<>>)
  <2>1. MayCall /\ Start(g)
    BY <1>6 DEF PDI_multi_expose, UserCall
  <2>2. g.op # "end"
    BY DEF Frame
  <2> HIDE DEF g
  <2> QED BY <2>1, <2>2, EventFirstStarts
<1> QED BY <1>1, <1>2, <1>3, <1>4, <1>5, <1>6

\* The calls that go on, with no error to record.
LEMMA EventFirstGoesOn ==
    ASSUME ShareInv, EventFirst,
           \/ ShareNext \/ ExposeReclaims \/ MultiEvent \/ MultiReclaim \/ TransactionReclaims
           \/ \E e \in Status : ShareEnds(e) \/ EventEnds(e)
    PROVE  EventFirst' /\ UNCHANGED <<g_transaction, g_transaction_status, first>>
<1>1. UNCHANGED <<g_transaction, g_transaction_status, first>>
  BY ZenonT(60) DEF ShareNext, ExposeReclaims, MultiEvent, MultiReclaim, TransactionReclaims, ShareEnds, EventEnds,
         transaction, accounts
<1>2. calls # <<>>
  BY Zenon DEF ShareNext, ExposeReclaims, MultiEvent, MultiReclaim, TransactionReclaims, ShareEnds, EventEnds, Ready
<1>3. TypeOK /\ Current \in Frames
  BY <1>2, CurrentOK
<1> DEFINE f == Current
<1>4. ASSUME NEW h \in Frames, NEW pc \in {"share", "reclaim"}, NEW n, NEW r, Become(Enter(h, pc, n, r))
      PROVE  EventFirst'
  <2> DEFINE g == Enter(h, pc, n, r)
  <2>1. g.pc # "event"
    BY <1>4 DEF Enter, Frames
  <2> HIDE DEF g
  <2>2. Become(g)
    BY <1>4 DEF g
  <2> QED BY <1>2, <1>3, <2>1, <2>2, EventFirstBecomes
<1>5. CASE ShareNext
  <2> DEFINE h == [f EXCEPT !.todo = Tail(@)]
  <2>1. f.todo \in Seq(Names) /\ f.todo # <<>> /\ Become(Enter(h, "share", Head(f.todo), FALSE))
    BY <1>3, <1>5 DEF ShareNext, Frames
  <2>2. Tail(f.todo) \in Seq(Names)
    BY <2>1
  <2>3. h \in Frames
    BY <1>3, <2>2 DEF Frames
  <2> HIDE DEF h
  <2> QED BY <1>1, <1>4, <2>1, <2>3
<1>6. CASE ExposeReclaims
  <2> DEFINE h == [f EXCEPT !.fired = TRUE]
             n == f.done[1]
             r == (shared[n] = 0)
  <2>1. Become(Enter(h, "reclaim", n, r))
    BY <1>6 DEF ExposeReclaims
  <2>2. h \in Frames
    BY <1>3 DEF Frames
  <2> HIDE DEF h, n, r
  <2> QED BY <1>1, <1>4, <2>1, <2>2
<1>7. CASE MultiReclaim
  <2> DEFINE h == [f EXCEPT !.fired = TRUE]
             n == Last(f.done)
             r == (shared[n] = 0)
  <2>1. Become(Enter(h, "reclaim", n, r))
    BY <1>7 DEF MultiReclaim
  <2>2. h \in Frames
    BY <1>3 DEF Frames
  <2> HIDE DEF h, n, r
  <2> QED BY <1>1, <1>4, <2>1, <2>2
<1>8. CASE MultiEvent
  <2> DEFINE h == [f EXCEPT !.fired = TRUE]
             g == Enter(h, "event", NoName, FALSE)
  <2>1. f.op = "multi" /\ Become(g)
    BY <1>8 DEF MultiEvent, Ready
  <2>2. h \in Frames /\ h.op = "multi"
    BY <1>3, <2>1 DEF Frames
  <2> HIDE DEF h
  <2>3. g.op # "end"
    BY <2>2 DEF Enter, Frames
  <2> HIDE DEF g
  <2> QED BY <1>1, <1>2, <1>3, <2>1, <2>3, EventFirstBecomes
<1>9. CASE TransactionReclaims
  <2> DEFINE s == g_transaction_data
             b == IF f.name = NoName THEN 0 ELSE IF f.base = 0 THEN Len(s) ELSE f.base - 1
             i == IF b = 0 THEN Len(s) ELSE b - 1
             g == Enter([f EXCEPT !.base = b], "reclaim", s[i], shared[s[i]] = 0)
  <2>1. Become(g)
    BY <1>9 DEF TransactionReclaims
  <2> HIDE DEF b, i
  <2>2. g.pc # "event"
    BY <1>3 DEF Enter, Frames
  <2> HIDE DEF g
  <2> QED BY <1>1, <1>2, <1>3, <2>1, <2>2, EventFirstBecomes
<1>10. ASSUME NEW e \in Status, ShareEnds(e)
       PROVE  EventFirst'
  <2> DEFINE d == IF e = "ok" THEN Append(f.done, f.name) ELSE f.done
             g == [f EXCEPT !.pc = "next", !.status = e, !.done = d]
  <2>1. Become(g)
    BY <1>10 DEF ShareEnds
  <2> HIDE DEF d
  <2>2. g.pc # "event"
    BY <1>3 DEF Frames
  <2> HIDE DEF g
  <2> QED BY <1>2, <1>3, <2>1, <2>2, EventFirstBecomes
<1>11. ASSUME NEW e \in Status, EventEnds(e)
       PROVE  EventFirst'
  <2> DEFINE g == [f EXCEPT !.pc = "next", !.status = e]
  <2>1. Become(g) \/ calls' = Front(calls)
    BY <1>11 DEF EventEnds, Return
  <2>2. g.pc # "event"
    BY <1>3 DEF Frames
  <2> HIDE DEF g
  <2> QED BY <1>2, <1>3, <2>1, <2>2, EventFirstBecomes, EventFirstReturns
<1> QED BY <1>1, <1>5, <1>6, <1>7, <1>8, <1>9, <1>10, <1>11, ZenonT(60)

\* The calls of the program, which forget or open the transaction.
LEMMA FirstInvProgram ==
    ASSUME ShareInv, FirstInv,
           \/ PDI_init \/ PDI_finalize \/ TransactionEndRefused \/ TransactionEnds
           \/ \E e \in Errors : PDI_initFails(e)
           \/ \E t \in {NoName, "t"} : PDI_transaction_begin(t)
    PROVE  FirstInv'
<1>1. Open' => g_transaction_status' = first'
  BY DEF PDI_init, PDI_finalize, TransactionEndRefused, TransactionEnds, PDI_initFails, PDI_transaction_begin,
         ForgetTransaction, Open, accounts, FirstInv
<1>2. EventFirst'
  <2>1. CASE PDI_init
    <3> DEFINE g == [Frame("init", <<>>, <<>>) EXCEPT !.pc = "event"]
    <3>1. calls' = <<g>>
      BY <2>1 DEF PDI_init, Start
    <3>2. g.op # "end"
      BY DEF Frame
    <3> HIDE DEF g
    <3>3. calls'[1] = g
      BY <3>1
    <3> QED BY <3>2, <3>3 DEF EventFirst
  <2>2. CASE PDI_finalize
    <3> DEFINE g == Enter(Frame("finalize", <<>>, <<>>), "event", NoName, FALSE)
    <3>1. calls' = <<g>>
      BY <2>2 DEF PDI_finalize, Start
    <3>2. g.op # "end"
      BY DEF Frame, Enter
    <3> HIDE DEF g
    <3>3. calls'[1] = g
      BY <3>1
    <3> QED BY <3>2, <3>3 DEF EventFirst
  <2>3. CASE TransactionEnds
    <3>1. calls # <<>> /\ calls' = Front(calls)
      BY <2>3 DEF TransactionEnds, Return
    <3> QED BY <3>1, EventFirstReturns DEF FirstInv
  <2>4. CASE \/ TransactionEndRefused \/ \E e \in Errors : PDI_initFails(e)
             \/ \E t \in {NoName, "t"} : PDI_transaction_begin(t)
    <3>1. calls' = <<>>
      BY <2>4 DEF TransactionEndRefused, PDI_initFails, PDI_transaction_begin
    <3> QED BY <3>1 DEF EventFirst
  <2> QED BY <2>1, <2>2, <2>3, <2>4
<1> QED BY <1>1, <1>2 DEF FirstInv

\* The event of PDI_transaction_end is triggered only if nothing failed.
LEMMA FirstInvEnd ==
    ASSUME ShareInv, FirstInv, PDI_transaction_end
    PROVE  FirstInv'
<1> DEFINE f == Frame("end", <<>>, <<>>)
           g == IF g_transaction_status = "ok" THEN Enter(f, "event", NoName, FALSE) ELSE [f EXCEPT !.pc = "iterate"]
<1>1. calls = <<>> /\ calls' = Append(calls, g) /\ UNCHANGED <<g_transaction, g_transaction_status, first>>
  BY DEF PDI_transaction_end, Start, transaction, accounts
<1>2. g_transaction_status # "ok" => g.pc # "event"
  BY DEF Frame
<1> HIDE DEF g
<1>3. calls' = <<g>> /\ Len(calls') = 1 /\ calls'[1] = g
  BY <1>1
<1> QED BY <1>1, <1>2, <1>3 DEF FirstInv, EventFirst, Open

\* An error is recorded if it is the first one.
LEMMA FirstInvErrors ==
    ASSUME ShareInv, FirstInv, NEW e \in Status, ExposeFails \/ FinalizeEnds(e) \/ ReclaimEnds(e) \/ TransactionEventEnds(e)
    PROVE  FirstInv'
<1> DEFINE f == Current
<1>1. calls # <<>>
  BY DEF ExposeFails, FinalizeEnds, ReclaimEnds, TransactionEventEnds, Ready
<1>2. TypeOK /\ f \in Frames
  BY <1>1, CurrentOK
<1>3. Open' => g_transaction_status' = first'
  <2>1. CASE ExposeFails \/ FinalizeEnds(e) \/ ReclaimEnds(e)
    BY <2>1 DEF ExposeFails, FinalizeEnds, ReclaimEnds, transaction, Open, FirstInv
  <2>2. CASE TransactionEventEnds(e)
    <3>1. f.op = "end" /\ f.pc = "event" /\ g_transaction_status' = e /\ first' = First(first, e)
      BY <2>2 DEF TransactionEventEnds
    <3>2. f = calls[1]
      BY <1>1, <3>1, LastCall
    <3>3. g_transaction_status = "ok" /\ Open
      BY <1>1, <3>1, <3>2 DEF FirstInv, EventFirst, ShareInv, WalkOK
    <3> QED BY <3>1, <3>3 DEF FirstInv, First
  <2> QED BY <2>1, <2>2
<1>4. EventFirst'
  <2>1. CASE ExposeFails \/ FinalizeEnds(e)
    <3>1. calls' = Front(calls)
      BY <2>1 DEF ExposeFails, FinalizeEnds, Return
    <3> QED BY <1>1, <3>1, EventFirstReturns DEF FirstInv
  <2>2. CASE ReclaimEnds(e)
    <3> DEFINE p == IF f.op = "end" THEN "iterate" ELSE "next"
               d == IF f.done = <<>> THEN f.done ELSE Front(f.done)
               g == [f EXCEPT !.pc = p, !.status = First(@, e), !.done = d]
    <3>1. Become(g)
      BY <2>2 DEF ReclaimEnds
    <3>2. p # "event"
      OBVIOUS
    <3> HIDE DEF p, d
    <3>3. g.pc # "event"
      BY <1>2, <3>2 DEF Frames
    <3> HIDE DEF g
    <3> QED BY <1>1, <1>2, <3>1, <3>3, EventFirstBecomes DEF FirstInv
  <2>3. CASE TransactionEventEnds(e)
    <3> DEFINE g == [f EXCEPT !.pc = "iterate"]
    <3>1. Become(g)
      BY <2>3 DEF TransactionEventEnds
    <3>2. g.pc # "event"
      BY <1>2 DEF Frames
    <3> HIDE DEF g
    <3> QED BY <1>1, <1>2, <3>1, <3>2, EventFirstBecomes DEF FirstInv
  <2> QED BY <2>1, <2>2, <2>3
<1> QED BY <1>3, <1>4 DEF FirstInv

LEMMA FirstInvNext ==
    ASSUME "event" \notin Callers, ShareInv, FirstInv, [Next]_vars
    PROVE  FirstInv'
<1>1. EventFirst /\ (Open => g_transaction_status = first)
  BY DEF FirstInv
<1>2. ASSUME EventFirst', UNCHANGED <<g_transaction, g_transaction_status, first>>
      PROVE  FirstInv'
  BY <1>1, <1>2 DEF FirstInv, Open
<1>3. CASE \/ PDI_event \/ ShareReturns \/ ReclaimReturns \/ ExposeDefers \/ ExposeReturns \/ MultiReturns
           \/ \E n \in Names : PDI_share(n) \/ PDI_reclaim(n) \/ PDI_expose(n)
           \/ \E s \in Multi : PDI_multi_expose(s)
  BY <1>1, <1>2, <1>3, EventFirstCalls
<1>4. CASE \/ ShareNext \/ ExposeReclaims \/ MultiEvent \/ MultiReclaim \/ TransactionReclaims
           \/ \E e \in Status : ShareEnds(e) \/ EventEnds(e)
  BY <1>1, <1>2, <1>4, EventFirstGoesOn
<1>5. CASE \/ PDI_init \/ PDI_finalize \/ TransactionEndRefused \/ TransactionEnds
           \/ \E e \in Errors : PDI_initFails(e)
           \/ \E t \in {NoName, "t"} : PDI_transaction_begin(t)
  BY <1>5, FirstInvProgram
<1>6. CASE PDI_transaction_end
  BY <1>6, FirstInvEnd
<1>7. CASE ExposeFails \/ \E e \in Status : FinalizeEnds(e) \/ ReclaimEnds(e) \/ TransactionEventEnds(e)
  <2>1. Status # {}
    BY DEF Status
  <2> QED BY <1>7, <2>1, FirstInvErrors
<1>8. CASE UNCHANGED vars
  BY <1>8 DEF vars, transaction, accounts, FirstInv, EventFirst, Open
<1> QED BY <1>3, <1>4, <1>5, <1>6, <1>7, <1>8 DEF Next

\* PDI_transaction_end returns the first error of the transaction's exposes,
\* its event and its reclaims, when neither the callbacks of the event nor
\* those of PDI_reclaim call the API while the transaction is open.
THEOREM FirstErrorKept ==
    ASSUME "event" \notin Callers, "reclaim" \notin Callers
    PROVE  Spec => FirstErrorReturned
<1>1. Init => FirstInv
  BY DEF Init, FirstInv, EventFirst
<1>2. ShareInv /\ FirstInv /\ [Next]_vars => FirstInv'
  BY FirstInvNext
<1>3. ASSUME ShareInv, FirstInv, Next, g_transaction # NoName, g_transaction' = NoName, calls # <<>>
      PROVE  returned' = first
  <2>1. TransactionEnds
    BY <1>3
       DEF Next, PDI_init, PDI_finalize, PDI_initFails, PDI_event, PDI_share, PDI_reclaim, PDI_expose, PDI_multi_expose,
           UserCall, PDI_transaction_begin, PDI_transaction_end, TransactionEndRefused, ShareNext, ShareEnds, EventEnds,
           ReclaimEnds, FinalizeEnds, TransactionEventEnds, ShareReturns, ReclaimReturns, ExposeFails, ExposeDefers,
           ExposeReclaims, ExposeReturns, MultiEvent, MultiReclaim, MultiReturns, TransactionReclaims, transaction
  <2>2. Current.pc = "iterate" /\ Current \in Frames /\ FrameOK(Current)
    BY <1>3, <2>1, CurrentOK DEF TransactionEnds
  <2>3. Current.op = "end"
    BY <2>2 DEF FrameOK, SingleOK, Frames, Ops
  <2>4. returned' = g_transaction_status
    BY <2>1, <2>3 DEF TransactionEnds, Return, Returned
  <2> QED BY <1>3, <2>4, SMTT(30) DEF FirstInv, Open
<1>4. ShareInv /\ FirstInv /\ [Next]_vars
        => [g_transaction # NoName /\ g_transaction' = NoName /\ calls # <<>> => returned' = first]_vars
  BY <1>3
<1> QED BY <1>1, <1>2, <1>4, ShareInvHolds, PTL DEF Spec, FirstErrorReturned

=============================================================================

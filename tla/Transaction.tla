---------------------------- MODULE Transaction ----------------------------
(***************************************************************************)
(* The C API of PDI (pdi/src/pdi.cxx) above the data store: PDI_expose,    *)
(* PDI_multi_expose and the transactions, which share several data and     *)
(* must reclaim every one of them, whatever fails in between.              *)
(*                                                                         *)
(* The store is reduced to how many times each data is shared;             *)
(* DataDescriptor has the details.  Each call of the API that runs the     *)
(* callbacks of the plugins (PDI_share, PDI_event, PDI_reclaim) waits for  *)
(* them in a frame of the stack `calls'; a callback may call the API, as   *)
(* user_code and pycall make possible, and its error is any status.        *)
(***************************************************************************)
EXTENDS Integers, SequencesExt

CONSTANTS
    Names,       \* the data
    Multi,       \* the lists of names given to PDI_multi_expose
    Errors,      \* the statuses other than PDI_OK
    Callers,     \* the callbacks that call the API: "share", "event", "reclaim"
    IdleCallers, \* those that call it only when no transaction is open
    MaxCalls,    \* bound on the nesting of calls in callbacks
    MaxShared,   \* bound on the shares of the user
    MaxLeft,     \* bound on the data that errors leave shared
    MaxExposed   \* bound on the exposes of a transaction

\* The empty string: no transaction, or an inner call on no data.
NoName == ""

ASSUME TransactionAssumption ==
    /\ NoName \notin Names
    /\ Multi \subseteq Seq(Names) \ {<<>>}
    /\ "state" \in Errors /\ "ok" \notin Errors
    /\ Callers \cup IdleCallers \subseteq {"share", "event", "reclaim"}
    /\ MaxCalls \in Nat /\ MaxShared \in Nat /\ MaxLeft \in Nat /\ MaxExposed \in Nat

VARIABLES
    initialized,           \* s_context is set
    shared,                \* for each name the size of its stack in the store
    g_transaction,         \* the name of the open transaction, NoName if none
    g_transaction_status,
    g_transaction_data,    \* the data whose reclaim is deferred
    calls,                 \* the calls of the API in progress, the innermost last
    returned,              \* the status returned last, if by PDI_transaction_end
    mine,                  \* shares of the user that no call of the user reclaims
    left,                  \* data that an error, which was returned, left shared
    first                  \* the first error met in the open transaction

transaction == <<g_transaction, g_transaction_status, g_transaction_data>>

accounts == <<mine, left, first>>

vars == <<initialized, shared, transaction, calls, returned, accounts>>

Status == {"ok"} \cup Errors

Ops == {"init", "finalize", "event", "share", "reclaim", "expose", "multi", "begin", "end"}

\* A call in progress.  todo, done: the names it has still to share, and the
\* ones it shared and has to reclaim.  fired: it triggered its event.  base:
\* the base of the reverse iterator of PDI_transaction_end, 0 for end().
\* pc: the inner call it is in, on `name', or "next" between two of them.
\* refused: this inner call fails before any callback.
Frames ==
    [op : Ops, todo : Seq(Names), done : Seq(Names), fired : BOOLEAN, base : Nat, status : Status,
     pc : {"next", "share", "event", "reclaim", "iterate"},
     name : Names \cup {NoName}, refused : BOOLEAN]

Init ==
    /\ initialized = FALSE
    /\ shared = [n \in Names |-> 0]
    /\ g_transaction = NoName
    /\ g_transaction_status = "ok"
    /\ g_transaction_data = <<>>
    /\ calls = <<>>
    /\ returned = "none"
    /\ mine = [n \in Names |-> 0]
    /\ left = [n \in Names |-> 0]
    /\ first = "ok"

-----------------------------------------------------------------------------
(* Calls and their frames *)

\* The first status that is an error, if any.
First(s, e) == IF s = "ok" THEN e ELSE s

Current == Last(calls)

Open == g_transaction # NoName

\* The program, or a callback of the innermost call, may call the API.
MayCall ==
    /\ Len(calls) < MaxCalls
    /\ calls # <<>> =>
          /\ ~Current.refused
          /\ Current.pc \in Callers \cup (IF Open THEN {} ELSE IdleCallers)

\* The innermost call is between two inner calls.
Ready(op) == calls # <<>> /\ Current.op = op /\ Current.pc = "next"

Frame(op, todo, done) ==
    [op |-> op, todo |-> todo, done |-> done, fired |-> FALSE, base |-> 0,
     status |-> "ok", pc |-> "next", name |-> NoName, refused |-> FALSE]

\* The frame f enters PDI_<pc>(n), which starts with Global_context::context().
Enter(f, pc, n, refused) ==
    [f EXCEPT !.pc = pc, !.name = n, !.refused = refused \/ ~initialized]

Become(f) == calls' = [calls EXCEPT ![Len(calls)] = f]

Returned(o, s) == returned' = IF o = "end" THEN s ELSE "none"

Return(s) == calls' = Front(calls) /\ Returned(Current.op, s)

\* Start a call whose frame is f.
Start(f) == calls' = Append(calls, f)

-----------------------------------------------------------------------------
(* PDI_init and PDI_finalize, by the program only *)

Count(s, n) == Cardinality({i \in DOMAIN s : s[i] = n})

\* Both start by forgetting the open transaction; ghost: its data is left.
ForgetTransaction ==
    /\ g_transaction' = NoName /\ g_transaction_data' = <<>>
    /\ left' = [n \in Names |-> left[n] + Count(g_transaction_data, n)]

\* The end of a context takes its data away.
Emptied ==
    /\ shared' = [n \in Names |-> 0]
    /\ mine' = [n \in Names |-> 0]

\* The new context is constructed, replaces a former one, and gets its event.
PDI_init ==
    /\ calls = <<>>
    /\ initialized' = TRUE
    /\ g_transaction' = NoName /\ g_transaction_data' = <<>>
    /\ Emptied
    /\ left' = [n \in Names |-> 0]
    /\ Start([Frame("init", <<>>, <<>>) EXCEPT !.pc = "event"])
    /\ UNCHANGED <<g_transaction_status, returned, first>>

\* Global_context::init throws: a former context stays.
PDI_initFails(e) ==
    /\ calls = <<>>
    /\ ForgetTransaction
    /\ Returned("init", e)
    /\ UNCHANGED <<initialized, shared, g_transaction_status, calls, mine, first>>

PDI_finalize ==
    /\ calls = <<>>
    /\ ForgetTransaction
    /\ Start(Enter(Frame("finalize", <<>>, <<>>), "event", NoName, FALSE))
    /\ UNCHANGED <<initialized, shared, g_transaction_status, returned, mine, first>>

-----------------------------------------------------------------------------
(* The calls that the program and the callbacks make *)

UserCall(f) ==
    /\ MayCall
    /\ Start(f)
    /\ UNCHANGED <<initialized, shared, transaction, returned, accounts>>

PDI_event == UserCall(Enter(Frame("event", <<>>, <<>>), "event", NoName, FALSE))

PDI_share(n) ==
    /\ mine[n] < MaxShared /\ left[n] < MaxLeft
    /\ UserCall(Frame("share", <<n>>, <<>>))

\* The user reclaims what it shared, and no other call of it reclaims; or it
\* finds nothing.
PDI_reclaim(n) ==
    /\ MayCall
    /\ mine[n] > 0 \/ shared[n] = 0
    /\ Start(Enter(Frame("reclaim", <<>>, IF mine[n] > 0 THEN <<n>> ELSE <<>>), "reclaim", n,
                   shared[n] = 0))
    /\ mine' = IF mine[n] > 0 THEN [mine EXCEPT ![n] = @ - 1] ELSE mine
    /\ UNCHANGED <<initialized, shared, transaction, returned, left, first>>

PDI_expose(n) ==
    /\ left[n] < MaxLeft
    /\ Open => Len(g_transaction_data) < MaxExposed
    /\ UserCall(Frame("expose", <<n>>, <<>>))

PDI_multi_expose(s) ==
    /\ \A i \in DOMAIN s : left[s[i]] < MaxLeft
    /\ UserCall(Frame("multi", s, <<>>))

\* The transactions are the program's.  An empty name opens none.
PDI_transaction_begin(t) ==
    /\ calls = <<>>
    /\ IF Open THEN /\ Returned("begin", "state")
                    /\ UNCHANGED <<g_transaction, g_transaction_status, first>>
               ELSE /\ g_transaction' = t
                    /\ g_transaction_status' = "ok" /\ Returned("begin", "ok")
                    /\ first' = "ok"
    /\ UNCHANGED <<initialized, shared, g_transaction_data, calls, mine, left>>

\* The event is triggered only if nothing failed yet.
PDI_transaction_end ==
    /\ calls = <<>> /\ Open
    /\ Start(IF g_transaction_status = "ok"
             THEN Enter(Frame("end", <<>>, <<>>), "event", NoName, FALSE)
             ELSE [Frame("end", <<>>, <<>>) EXCEPT !.pc = "iterate"])
    /\ UNCHANGED <<initialized, shared, transaction, returned, accounts>>

\* No transaction: the status of the former one, if it is an error, is returned.
TransactionEndRefused ==
    /\ calls = <<>> /\ ~Open
    /\ g_transaction_status' = First(g_transaction_status, "state")
    /\ Returned("end", g_transaction_status')
    /\ UNCHANGED <<initialized, shared, g_transaction, g_transaction_data, calls, accounts>>

-----------------------------------------------------------------------------
(* The inner calls *)

\* PDI_share of the next name pushes its data, then runs the callbacks.
ShareNext ==
    LET f == Current  n == Head(f.todo)
    IN  /\ calls # <<>> /\ f.pc = "next" /\ f.todo # <<>> /\ f.status = "ok"
        /\ Become(Enter([f EXCEPT !.todo = Tail(@)], "share", n, FALSE))
        /\ shared' = IF initialized THEN [shared EXCEPT ![n] = @ + 1] ELSE shared
        /\ UNCHANGED <<initialized, transaction, returned, accounts>>

\* The inner PDI_share ends; on error its data is popped.
ShareEnds(e) ==
    LET f == Current
    IN  /\ calls # <<>> /\ f.pc = "share"
        /\ f.refused => e = "state"
        /\ Become([f EXCEPT !.pc = "next", !.status = e,
                            !.done = IF e = "ok" THEN Append(@, f.name) ELSE @])
        /\ shared' = IF e = "ok" \/ f.refused THEN shared ELSE [shared EXCEPT ![f.name] = @ - 1]
        /\ UNCHANGED <<initialized, transaction, returned, accounts>>

\* PDI_event ends, in PDI_multi_expose or by itself.
EventEnds(e) ==
    LET f == Current
    IN  /\ calls # <<>> /\ f.pc = "event" /\ f.op \in {"event", "init", "multi"}
        /\ f.refused => e = "state"
        /\ IF f.op = "multi"
           THEN Become([f EXCEPT !.pc = "next", !.status = e]) /\ UNCHANGED returned
           ELSE Return(e)
        /\ UNCHANGED <<initialized, shared, transaction, accounts>>

\* The context is destroyed, unless its last event failed.
FinalizeEnds(e) ==
    /\ calls # <<>> /\ Current.pc = "event" /\ Current.op = "finalize"
    /\ Current.refused => e = "state"
    /\ Return(e)
    /\ IF e = "ok"
       THEN /\ initialized' = FALSE
            /\ Emptied
            /\ left' = [n \in Names |-> 0]
       ELSE UNCHANGED <<initialized, shared, mine, left>>
    /\ UNCHANGED <<transaction, first>>

\* The assignment of the status of the event, whatever the status became in
\* its callbacks.
TransactionEventEnds(e) ==
    /\ calls # <<>> /\ Current.pc = "event" /\ Current.op = "end"
    /\ Current.refused => e = "state"
    /\ Become([Current EXCEPT !.pc = "iterate"])
    /\ g_transaction_status' = e
    /\ first' = First(first, e)
    /\ UNCHANGED <<initialized, shared, g_transaction, g_transaction_data, returned, mine, left>>

\* The end of a PDI_reclaim, called by the user or by one of the functions
\* that shared the data.
ReclaimEnds(e) ==
    LET f == Current
    IN  /\ calls # <<>> /\ f.pc = "reclaim"
        /\ f.refused => e = "state"
        /\ shared[f.name] = 0 => e # "ok"
        /\ shared' = IF e = "ok" THEN [shared EXCEPT ![f.name] = @ - 1] ELSE shared
        /\ mine' = IF e # "ok" /\ f.op = "reclaim" /\ f.done # <<>>
                   THEN [mine EXCEPT ![f.name] = @ + 1] ELSE mine
        /\ left' = IF e # "ok" /\ f.op # "reclaim" /\ shared[f.name] > 0
                   THEN [left EXCEPT ![f.name] = @ + 1] ELSE left
        /\ Become([f EXCEPT !.pc = IF f.op = "end" THEN "iterate" ELSE "next",
                            !.status = First(@, e),
                            !.done = IF @ = <<>> THEN @ ELSE Front(@)])
        /\ IF f.op = "end"
           THEN /\ g_transaction_status' = First(g_transaction_status, e)
                /\ first' = First(first, e)
           ELSE UNCHANGED <<g_transaction_status, first>>
        /\ UNCHANGED <<initialized, g_transaction, g_transaction_data, returned>>

-----------------------------------------------------------------------------
(* What the calls do between their inner calls *)

ShareReturns ==
    /\ Ready("share") /\ Current.todo = <<>>
    /\ Return(Current.status)
    /\ mine' = IF Current.status = "ok" THEN [mine EXCEPT ![Current.done[1]] = @ + 1] ELSE mine
    /\ UNCHANGED <<initialized, shared, transaction, left, first>>

ReclaimReturns ==
    /\ Ready("reclaim")
    /\ Return(Current.status)
    /\ UNCHANGED <<initialized, shared, transaction, accounts>>

\* Faulty variant: the last error replaces the first one.
ExposeFailsLast ==
    /\ Ready("expose") /\ Current.status # "ok" /\ ~Current.fired
    /\ Return(Current.status)
    /\ g_transaction_status' = IF Open THEN Current.status ELSE g_transaction_status
    /\ first' = IF Open THEN First(first, Current.status) ELSE first
    /\ UNCHANGED <<initialized, shared, g_transaction, g_transaction_data, mine, left>>

\* PDI_share failed in PDI_expose: the status of the transaction is set if it
\* is its first error.
ExposeFails ==
    /\ Ready("expose") /\ Current.status # "ok" /\ ~Current.fired
    /\ Return(Current.status)
    /\ g_transaction_status' = IF Open THEN First(g_transaction_status, Current.status)
                                       ELSE g_transaction_status
    /\ first' = IF Open THEN First(first, Current.status) ELSE first
    /\ UNCHANGED <<initialized, shared, g_transaction, g_transaction_data, mine, left>>

\* Faulty variant: the data is not recorded once an error was met.
ExposeForgets ==
    /\ Ready("expose") /\ Current.done # <<>> /\ Open
    /\ Return("ok")
    /\ g_transaction_data' = IF g_transaction_status = "ok"
                             THEN Append(g_transaction_data, Current.done[1])
                             ELSE g_transaction_data
    /\ UNCHANGED <<initialized, shared, g_transaction, g_transaction_status, accounts>>

\* In a transaction the reclaim is deferred.
ExposeDefers ==
    /\ Ready("expose") /\ Current.done # <<>> /\ Open
    /\ Return("ok")
    /\ g_transaction_data' = Append(g_transaction_data, Current.done[1])
    /\ UNCHANGED <<initialized, shared, g_transaction, g_transaction_status, accounts>>

\* Otherwise it is done now (fired: the share is over).
ExposeReclaims ==
    /\ Ready("expose") /\ Current.done # <<>> /\ ~Open
    /\ Become(Enter([Current EXCEPT !.fired = TRUE], "reclaim", Current.done[1],
                    shared[Current.done[1]] = 0))
    /\ UNCHANGED <<initialized, shared, transaction, returned, accounts>>

ExposeReturns ==
    /\ Ready("expose") /\ Current.fired
    /\ Return(Current.status)
    /\ UNCHANGED <<initialized, shared, transaction, accounts>>

\* PDI_multi_expose triggers its event when all the data is available.
MultiEvent ==
    /\ Ready("multi") /\ Current.todo = <<>> /\ Current.status = "ok" /\ ~Current.fired
    /\ Become(Enter([Current EXCEPT !.fired = TRUE], "event", NoName, FALSE))
    /\ UNCHANGED <<initialized, shared, transaction, returned, accounts>>

\* It reclaims in reverse order what it shared, after the event or an error.
MultiReclaim ==
    /\ Ready("multi") /\ Current.done # <<>>
    /\ Current.fired \/ Current.status # "ok"
    /\ Become(Enter([Current EXCEPT !.fired = TRUE], "reclaim", Last(Current.done),
                    shared[Last(Current.done)] = 0))
    /\ UNCHANGED <<initialized, shared, transaction, returned, accounts>>

MultiReturns ==
    /\ Ready("multi") /\ Current.done = <<>>
    /\ Current.fired \/ Current.status # "ok"
    /\ Return(Current.status)
    /\ UNCHANGED <<initialized, shared, transaction, accounts>>

\* PDI_transaction_end walks the live list backwards.  Where the base of its
\* reverse iterator goes next: to the node before, from end() to the node
\* that is now the last one.
TransactionReclaims ==
    LET f == Current
        s == g_transaction_data
        b == IF f.name = NoName THEN 0 ELSE IF f.base = 0 THEN Len(s) ELSE f.base - 1
        i == IF b = 0 THEN Len(s) ELSE b - 1
    IN  /\ calls # <<>> /\ f.pc = "iterate"
        /\ i # 0
        /\ Become(Enter([f EXCEPT !.base = b], "reclaim", s[i], shared[s[i]] = 0))
        /\ UNCHANGED <<initialized, shared, transaction, returned, accounts>>

TransactionEnds ==
    LET f == Current
    IN  /\ calls # <<>> /\ f.pc = "iterate"
        /\ IF f.name = NoName THEN g_transaction_data = <<>>
           ELSE (IF f.base = 0 THEN Len(g_transaction_data) ELSE f.base - 1) = 1
        /\ g_transaction' = NoName /\ g_transaction_data' = <<>>
        /\ Return(g_transaction_status)
        /\ UNCHANGED <<initialized, shared, g_transaction_status, accounts>>

Next ==
    \/ PDI_init \/ PDI_finalize
    \/ \E e \in Errors : PDI_initFails(e)
    \/ PDI_event
    \/ \E n \in Names : PDI_share(n) \/ PDI_reclaim(n) \/ PDI_expose(n)
    \/ \E s \in Multi : PDI_multi_expose(s)
    \/ \E t \in {NoName, "t"} : PDI_transaction_begin(t)
    \/ PDI_transaction_end \/ TransactionEndRefused
    \/ ShareNext
    \/ \E e \in Status :
          \/ ShareEnds(e) \/ EventEnds(e) \/ ReclaimEnds(e)
          \/ FinalizeEnds(e) \/ TransactionEventEnds(e)
    \/ ShareReturns \/ ReclaimReturns
    \/ ExposeFails \/ ExposeDefers \/ ExposeReclaims \/ ExposeReturns
    \/ MultiEvent \/ MultiReclaim \/ MultiReturns
    \/ TransactionReclaims \/ TransactionEnds

Spec == Init /\ [][Next]_vars

-----------------------------------------------------------------------------
(* Properties *)

\* The call f is sharing the data n.
Sharing(f, n) == f.pc = "share" /\ ~f.refused /\ f.name = n

\* What the call f holds in the store for the name n: the positions in `done'
\* that it has to reclaim, and 0 for the data it is sharing.
HeldBy(f, n) ==
    {k \in DOMAIN f.done : f.done[k] = n} \cup (IF Sharing(f, n) THEN {0} ELSE {})

\* The same for all the calls, each with its position.
Held(n) == UNION {{i} \X HeldBy(calls[i], n) : i \in DOMAIN calls}

HeldByCalls(n) == Cardinality(Held(n))

\* The deferred data that is not reclaimed yet: PDI_transaction_end, which is
\* the outermost call, has reclaimed the end of the list.
Deferred ==
    IF calls # <<>> /\ calls[1].op = "end" /\ calls[1].name # NoName
    THEN LET f == calls[1]
             i == IF f.base = 0 THEN Len(g_transaction_data) ELSE f.base - 1
         IN  SubSeq(g_transaction_data, 1, IF f.pc = "iterate" THEN i - 1 ELSE i)
    ELSE g_transaction_data

\* Nothing is forgotten and nothing is taken twice: whatever fails and
\* whatever the callbacks do, a data is shared exactly as often as the user
\* shared it, an error left it, or a call or the transaction will reclaim it.
EveryShareHasAReclaimer ==
    \A n \in Names :
        shared[n] = mine[n] + left[n] + Count(Deferred, n) + HeldByCalls(n)

\* PDI_expose is "Equivalent to PDI_share + PDI_reclaim" (pdi.h:277): when
\* no call and no transaction is in progress, all that is shared was shared
\* by the user, or an error was returned for it.
ExposeLeavesNothing ==
    calls = <<>> /\ ~Open => \A n \in Names : shared[n] = mine[n] + left[n]

\* "the status of the first error is returned" (pdi.cxx:423), of all the
\* exposes of the transaction, its event and its reclaims.
FirstErrorReturned ==
    [][g_transaction # NoName /\ g_transaction' = NoName /\ calls # <<>>
          => returned' = first]_vars

=============================================================================

------------------------ MODULE Subscriptions_proofs ------------------------
(* Theorems about Subscriptions, for every set of orders, plans, services   *)
(* and workers and every bound.                                             *)
EXTENDS Subscriptions, SequenceTheorems, TLAPS

-----------------------------------------------------------------------------
(* The rows                                                                 *)

\* A row keeps what it was created with, an expired row stays expired, an end
\* that has passed stays passed, and served calls are only added to.
KeptRow(r, s) ==
    /\ s.order = r.order /\ s.plan = r.plan
    /\ s.checked = r.checked /\ s.scanned = r.scanned
    /\ r.status = "expired" => s.status = "expired"
    /\ r.due => s.due
    /\ \A f \in Feature : r.served[f] <= s.served[f]

\* The rows become those of s: all are kept, and others may follow.
Extends(s) ==
    /\ s \in Seq(Row) /\ Len(subs) <= Len(s)
    /\ \A i \in Rows : KeptRow(subs[i], s[i])

LEMMA RowsType == TypeOK => Len(subs) \in Nat /\ \A i \in Rows : subs[i] \in Row
  BY ElementOfSeq, LenProperties DEF TypeOK, Rows

LEMMA KeptItself == ASSUME NEW r \in Row PROVE KeptRow(r, r)
  BY DEF Row, KeptRow

LEMMA ExpiredRow ==
  ASSUME NEW r \in Row
  PROVE  [r EXCEPT !.status = "expired"] \in Row
         /\ KeptRow(r, [r EXCEPT !.status = "expired"])
  BY DEF Row, KeptRow

LEMMA DueRow ==
  ASSUME NEW r \in Row
  PROVE  LET s == [r EXCEPT !.due = TRUE] IN
         s \in Row /\ KeptRow(r, s) /\ s.status = r.status /\ s.used = r.used
  <1> DEFINE s == [r EXCEPT !.due = TRUE]
  <1>1. s \in Row /\ s.due
    BY DEF Row
  <1>2. /\ s.order = r.order /\ s.plan = r.plan /\ s.checked = r.checked
        /\ s.scanned = r.scanned /\ s.status = r.status /\ s.used = r.used
        /\ s.served = r.served
    BY DEF Row
  <1>3. \A f \in Feature : r.served[f] <= r.served[f]
    BY DEF Row
  <1>4. QED
    BY <1>1, <1>2, <1>3 DEF KeptRow

LEMMA ChargedRow ==
  ASSUME NEW r \in Row, NEW f \in Feature, NEW n \in Nat
  PROVE  LET s == [r EXCEPT !.used[f] = n, !.served[f] = @ + 1] IN
         /\ s \in Row /\ KeptRow(r, s) /\ s.status = r.status
         /\ s.used = [r.used EXCEPT ![f] = n]
         /\ s.served = [r.served EXCEPT ![f] = @ + 1]
  <1> DEFINE used == [r.used EXCEPT ![f] = n]
             served == [r.served EXCEPT ![f] = @ + 1]
             s == [r EXCEPT !.used = used, !.served = served]
  <1>1. r.used \in [Feature -> Nat] /\ r.served \in [Feature -> Nat]
    BY DEF Row
  <1>2. /\ used \in [Feature -> Nat] /\ served \in [Feature -> Nat]
        /\ \A g \in Feature : r.served[g] <= served[g]
    BY <1>1
  <1>3. s = [r EXCEPT !.used[f] = n, !.served[f] = @ + 1]
    BY DEF Row
  <1> HIDE DEF used, served
  <1>4. s \in Row /\ KeptRow(r, s) /\ s.status = r.status /\ s.used = used /\ s.served = served
    BY <1>2 DEF Row, KeptRow
  <1>5. QED
    BY <1>3, <1>4 DEF used, served

LEMMA NewRowType ==
  ASSUME NEW o \in Order \cup {None}, NEW p \in Plan \cup {Free},
         NEW checked \in Nat, NEW scanned \in Nat
  PROVE  NewRow(o, p, checked, scanned) \in Row
  BY DEF NewRow, Nothing, Row

LEMMA ExpireKeeps ==
  ASSUME TypeOK, NEW rows
  PROVE  /\ Extends(Expire(rows)) /\ Len(Expire(rows)) = Len(subs)
         /\ \A i \in Rows : Expire(rows)[i] =
                IF i \in rows THEN [subs[i] EXCEPT !.status = "expired"] ELSE subs[i]
  <1> DEFINE e(i) == IF i \in rows THEN [subs[i] EXCEPT !.status = "expired"] ELSE subs[i]
  <1>1. Len(subs) \in Nat /\ \A i \in Rows : subs[i] \in Row
    BY RowsType
  <1>2. \A i \in Rows : e(i) \in Row /\ KeptRow(subs[i], e(i))
    BY <1>1, ExpiredRow, KeptItself
  <1>3. Expire(rows) = [i \in 1 .. Len(subs) |-> e(i)]
    BY DEF Expire, Rows
  <1>4. [i \in 1 .. Len(subs) |-> e(i)] \in Seq(Row)
    <2> HIDE DEF e
    <2> QED BY <1>1, <1>2 DEF Rows
  <1>5. Len(Expire(rows)) = Len(subs)
    <2> HIDE DEF e
    <2> QED BY <1>1, <1>3, <1>4, LenProperties
  <1> HIDE DEF e
  <1>6. \A i \in Rows : Expire(rows)[i] = e(i)
    BY <1>3 DEF Rows
  <1>7. Extends(Expire(rows))
    BY <1>1, <1>2, <1>3, <1>4, <1>5, <1>6 DEF Extends
  <1>8. QED
    BY <1>5, <1>6, <1>7 DEF e

LEMMA AppendKeeps ==
  ASSUME TypeOK, NEW rows, NEW r \in Row
  PROVE  LET s == Append(Expire(rows), r) IN
         /\ Extends(s) /\ Len(s) = Len(subs) + 1 /\ s[Len(subs) + 1] = r
         /\ \A i \in Rows : s[i] = Expire(rows)[i]
  <1>1. Expire(rows) \in Seq(Row) /\ Len(Expire(rows)) = Len(subs)
        /\ \A i \in Rows : KeptRow(subs[i], Expire(rows)[i])
    BY ExpireKeeps DEF Extends
  <1>2. QED
    BY <1>1, RowsType, AppendProperties DEF Extends, Rows

LEMMA LapseKeeps ==
  ASSUME TypeOK, NEW i \in Rows, Lapse(i)
  PROVE  Extends(subs') /\ Len(subs') = Len(subs)
         /\ \A j \in Rows : subs'[j].status = subs[j].status /\ subs'[j].used = subs[j].used
  <1> DEFINE r == [subs[i] EXCEPT !.due = TRUE]
  <1>1. subs[i] \in Row /\ Len(subs) \in Nat
    BY RowsType
  <1>2. r \in Row /\ KeptRow(subs[i], r) /\ r.status = subs[i].status /\ r.used = subs[i].used
    BY <1>1, DueRow
  <1>3. subs' = [subs EXCEPT ![i] = r]
    BY DEF Lapse
  <1> HIDE DEF r
  <1>4. subs' \in Seq(Row) /\ Len(subs') = Len(subs)
        /\ \A j \in Rows : subs'[j] = IF j = i THEN r ELSE subs[j]
    BY <1>2, <1>3, ExceptSeq DEF TypeOK, Rows
  <1>5. QED
    BY <1>1, <1>2, <1>4, KeptItself, RowsType DEF Extends

\* A calling worker remembers a row, a service and a count below its limit.
Calling(w) ==
    At(w, "calling") =>
        /\ worker[w].row \in Rows /\ worker[w].feature \in Feature
        /\ worker[w].seen < Limit[subs[worker[w].row].plan][worker[w].feature]
        /\ worker[w].seen <= subs[worker[w].row].served[worker[w].feature]

LEMMA ChargeKeeps ==
  ASSUME TypeOK, NEW w \in Worker, Charge(w), Calling(w)
  PROVE  /\ Extends(subs') /\ Len(subs') = Len(subs)
         /\ \A j \in Rows : subs'[j].status = subs[j].status
  <1> DEFINE i == worker[w].row
             f == worker[w].feature
             r == [subs[i] EXCEPT !.used[f] = worker[w].seen + 1, !.served[f] = @ + 1]
  <1>1. i \in Rows /\ f \in Feature /\ worker[w].seen \in Nat
        /\ subs[i] \in Row /\ Len(subs) \in Nat
    BY RowsType DEF Calling, Charge, TypeOK, WorkerState
  <1>2. r \in Row /\ KeptRow(subs[i], r) /\ r.status = subs[i].status
    <2>1. worker[w].seen + 1 \in Nat
      BY <1>1
    <2> HIDE DEF i, f
    <2>2. QED
      BY <1>1, <2>1, ChargedRow
  <1>3. subs' = [subs EXCEPT ![i] = r]
    BY DEF Charge
  <1> HIDE DEF r
  <1>4. subs' \in Seq(Row) /\ Len(subs') = Len(subs)
        /\ \A j \in Rows : subs'[j] = IF j = i THEN r ELSE subs[j]
    BY <1>1, <1>2, <1>3, ExceptSeq DEF TypeOK, Rows
  <1>5. QED
    BY <1>1, <1>2, <1>4, KeptItself, RowsType DEF Extends

-----------------------------------------------------------------------------
(* The inductive invariant                                                  *)

\* Only an order that was created is paid, and its plan is known.
Orders == \A o \in Order :
    /\ txn[o] = "none" => captured[o] = "no"
    /\ txn[o] # "none" => plan[o] \in Plan

\* The order that is being created is nobody else's and has no transaction.
Ordering(w) ==
    At(w, "ordering") => /\ worker[w].order \in Order /\ worker[w].plan \in Plan
                         /\ txn[worker[w].order] = "none"
Apart == \A v, w \in Worker :
    At(v, "ordering") /\ At(w, "ordering") /\ worker[v].order = worker[w].order => v = w

\* verify and the webhook work for a payment; the rows of the order that verify
\* overlooked are younger than its look, and a row that was there when the
\* active rows were taken was taken or had expired.
Paying(w) ==
    worker[w].at \in {"checked", "verifying", "hooking"} =>
        /\ worker[w].order \in Order /\ captured[worker[w].order] # "no"
        /\ worker[w].checked <= Len(subs)
Overlooking(w) ==
    worker[w].at \in {"checked", "verifying"} =>
        \A i \in Rows : subs[i].order = worker[w].order => worker[w].checked < i
Taking(w) ==
    Activating(w) =>
        /\ worker[w].scanned <= Len(subs)
        /\ \A i \in Rows : i <= worker[w].scanned /\ i \notin worker[w].rows
                              => subs[i].status = "expired"

\* The command has rows in hand whose end has passed.
Sweeping(w) ==
    worker[w].at \in {"sweeping", "clearing"} =>
        \A i \in worker[w].rows : i \in Rows /\ subs[i].due

\* An account that was read names a row or nothing.
Saving(w) == At(w, "saving") => worker[w].row <= Len(subs)

WorkerInv(w) ==
    /\ Saving(w)
    /\ Ordering(w) /\ Paying(w) /\ Overlooking(w) /\ Taking(w) /\ Sweeping(w) /\ Calling(w)

IInv ==
    /\ TypeOK /\ Orders /\ Apart /\ \A w \in Worker : WorkerInv(w)
    /\ DoneIsSubscribed /\ OnceUnlessOverlapped /\ SupersededIsExpired
    /\ CurrentIsLast /\ NeverOvercharged

LEMMA IdleInv == ASSUME NEW w \in Worker, worker[w] = Idle PROVE WorkerInv(w)
  BY DEF Idle, WorkerInv, Ordering, Paying, Saving, Overlooking, Taking, Sweeping, Calling, At,
         Activating

LEMMA IdleType == Idle \in WorkerState
  BY SubscriptionsAssumption DEF Idle, WorkerState

LEMMA InitInv == Init => IInv
  <1> SUFFICES ASSUME Init PROVE IInv
    OBVIOUS
  <1> DEFINE first == NewRow(None, Free, 0, 0)
  <1>1. first \in Row /\ first.order = None /\ first.status = "active"
        /\ first.used = Nothing /\ first.served = Nothing /\ first.plan = Free
    BY NewRowType DEF NewRow
  <1> HIDE DEF first
  <1>2. subs = <<first>> /\ subs \in Seq(Row) /\ Len(subs) = 1 /\ subs[1] = first /\ Rows = {1}
    BY <1>1 DEF Init, Rows, first
  <1>3. TypeOK
    <2>1. general \subseteq Order /\ overwritten \in BOOLEAN
      BY DEF Init
    <2>2. QED
      BY <1>2, <2>1, IdleType, SubscriptionsAssumption DEF Init, TypeOK, Status
  <1>4. \A w \in Worker : WorkerInv(w) /\ ~At(w, "ordering")
    BY IdleInv DEF Init, At, Idle
  <1>5. DoneIsSubscribed
    BY <1>1, <1>2, SubscriptionsAssumption DEF Init, DoneIsSubscribed, RowsOf
  <1>6. OnceUnlessOverlapped /\ SupersededIsExpired /\ CurrentIsLast
    BY <1>1, <1>2 DEF Init, OnceUnlessOverlapped, SupersededIsExpired, CurrentIsLast
  <1>7. NeverOvercharged
    BY <1>1, <1>2, SubscriptionsAssumption DEF NeverOvercharged, Nothing
  <1>8. QED
    BY <1>3, <1>4, <1>5, <1>6, <1>7 DEF IInv, Orders, Apart, Init

\* What a worker remembers stays true while the rows are extended, no payment is
\* taken back and the order it creates gets no transaction.
LEMMA WorkerKept ==
  ASSUME TypeOK, Extends(subs'), NEW v \in Worker, WorkerInv(v), worker'[v] = worker[v],
         \A o \in Order : captured[o] # "no" => captured'[o] # "no",
         At(v, "ordering") => txn'[worker[v].order] = "none"
  PROVE  WorkerInv(v)'
  <1> DEFINE here == worker[v]
  <1>1. here \in WorkerState
    BY DEF TypeOK
  <1>2. /\ Len(subs) \in Nat /\ Len(subs') \in Nat /\ Len(subs) <= Len(subs')
        /\ \A i \in Rows : i \in Rows' /\ KeptRow(subs[i], subs'[i]) /\ subs[i] \in Row
        /\ \A i \in Rows' : subs'[i] \in Row /\ i \in Nat /\ (i \in Rows \/ i > Len(subs))
    <2>1. \A i \in Rows' : subs'[i] \in Row
      BY ElementOfSeq DEF Extends, Rows
    <2>2. Len(subs') \in Nat
      BY LenProperties DEF Extends
    <2> QED
      BY <2>1, <2>2, RowsType DEF Extends, Rows
  <1>3. Ordering(v)'
    BY DEF WorkerInv, Ordering, At
  <1>4. Paying(v)'
    BY <1>1, <1>2 DEF WorkerInv, Paying, WorkerState
  <1>5. Overlooking(v)'
    BY <1>1, <1>2 DEF WorkerInv, Overlooking, Paying, WorkerState, KeptRow
  <1>6. Taking(v)'
    BY <1>1, <1>2 DEF WorkerInv, Taking, Activating, WorkerState, KeptRow
  <1>7. Sweeping(v)'
    BY <1>1, <1>2 DEF WorkerInv, Sweeping, KeptRow
  <1>8. Calling(v)'
    <2> SUFFICES ASSUME At(v, "calling") PROVE Calling(v)'
      BY DEF Calling, At
    <2> DEFINE i == here.row  f == here.feature
    <2>1. i \in Rows /\ f \in Feature /\ here.seen < Limit[subs[i].plan][f]
          /\ here.seen <= subs[i].served[f] /\ here.seen \in Nat
      BY <1>1 DEF WorkerInv, Calling, WorkerState
    <2>2. subs'[i].plan = subs[i].plan /\ subs[i].served[f] <= subs'[i].served[f] /\ i \in Rows'
          /\ subs[i].served[f] \in Nat /\ subs'[i].served[f] \in Nat
      <3>1. i \in Rows' /\ KeptRow(subs[i], subs'[i])
        BY <2>1, <1>2
      <3>2. subs[i] \in Row /\ subs'[i] \in Row
        BY <2>1, <3>1, <1>2
      <3>3. ASSUME NEW r \in Row PROVE r.served[f] \in Nat
        BY <2>1 DEF Row
      <3>4. QED
        BY <2>1, <3>1, <3>2, <3>3 DEF KeptRow
    <2>3. QED
      BY <2>1, <2>2 DEF Calling, At
  <1>9. Saving(v)'
    BY <1>1, <1>2 DEF WorkerInv, Saving, At, WorkerState
  <1>10. QED
    BY <1>3, <1>4, <1>5, <1>6, <1>7, <1>8, <1>9 DEF WorkerInv

\* The properties of the rows survive a step that adds no row.
LEMMA SameLength ==
  ASSUME TypeOK, Extends(subs'), Len(subs') = Len(subs),
         OnceUnlessOverlapped, SupersededIsExpired
  PROVE  /\ Rows' = Rows /\ \A o : RowsOf(o)' = RowsOf(o)
         /\ OnceUnlessOverlapped' /\ SupersededIsExpired'
  <1>1. Rows' = Rows /\ \A i \in Rows : KeptRow(subs[i], subs'[i])
    BY DEF Rows, Extends
  <1>2. \A o : RowsOf(o)' = RowsOf(o)
    BY <1>1 DEF RowsOf, KeptRow
  <1>3. OnceUnlessOverlapped' /\ SupersededIsExpired'
    BY <1>1 DEF OnceUnlessOverlapped, SupersededIsExpired, KeptRow
  <1>4. QED
    BY <1>1, <1>2, <1>3

LEMMA SameUse ==
  ASSUME TypeOK, Extends(subs'), Len(subs') = Len(subs), NeverOvercharged,
         \A i \in Rows : subs'[i].used = subs[i].used
  PROVE  NeverOvercharged'
  <1>1. Rows' = Rows /\ \A i \in Rows : KeptRow(subs[i], subs'[i]) /\ subs[i] \in Row /\ subs'[i] \in Row
    BY RowsType, ElementOfSeq DEF Rows, Extends
  <1>2. QED
    BY <1>1 DEF NeverOvercharged, KeptRow, Row

LEMMA SameRows ==
  ASSUME IInv, UNCHANGED subs
  PROVE  /\ Extends(subs') /\ Len(subs') = Len(subs) /\ Rows' = Rows
         /\ \A o : RowsOf(o)' = RowsOf(o)
         /\ OnceUnlessOverlapped' /\ SupersededIsExpired' /\ NeverOvercharged'
  <1>1. Extends(subs') /\ Len(subs') = Len(subs)
    BY RowsType, KeptItself DEF IInv, TypeOK, Extends
  <1>2. QED
    BY <1>1, SameLength, SameUse DEF IInv

\* A step of w that leaves the other workers alone.
LEMMA OthersKept ==
  ASSUME IInv, Extends(subs'), NEW w \in Worker, NEW state, Become(w, state),
         WorkerInv(w)', state \in WorkerState,
         \A o \in Order : captured[o] # "no" => captured'[o] # "no",
         \A v \in Worker \ {w} : At(v, "ordering") => txn'[worker[v].order] = "none"
  PROVE  worker' \in [Worker -> WorkerState] /\ \A v \in Worker : WorkerInv(v)'
  <1>1. worker' \in [Worker -> WorkerState]
    BY DEF IInv, TypeOK, Become
  <1>2. ASSUME NEW v \in Worker, v # w PROVE WorkerInv(v)'
    <2>1. worker'[v] = worker[v]
      BY <1>2 DEF Become, IInv, TypeOK
    <2>2. QED
      BY <1>2, <2>1, WorkerKept DEF IInv
  <1>3. QED
    BY <1>1, <1>2

\* The order that waits for its row is nobody else's after a step, if w does not
\* begin one.
LEMMA ApartKept ==
  ASSUME IInv, NEW w \in Worker, NEW state, Become(w, state),
         state.at # "ordering" \/ state = worker[w]
  PROVE  Apart'
  BY DEF IInv, TypeOK, Apart, At, Become

-----------------------------------------------------------------------------
(* The steps                                                                *)

LEMMA CreateOrderInv ==
  ASSUME IInv, NEW w \in Worker, NEW o \in Order, NEW p \in Plan, CreateOrder(w, o, p)
  PROVE  IInv'
  <1> DEFINE state == [Idle EXCEPT !.at = "ordering", !.order = o, !.plan = p]
  <1>1. state \in WorkerState /\ state.at = "ordering" /\ state.order = o /\ state.plan = p
    BY IdleType DEF WorkerState
  <1>2. Become(w, state) /\ UNCHANGED <<plan, captured, subs, current, crashes, general, overwritten>>
    BY DEF CreateOrder
  <1> HIDE DEF state
  <1>3. worker'[w] = state /\ \A v \in Worker \ {w} : worker'[v] = worker[v]
    BY <1>2 DEF Become, IInv, TypeOK
  <1>4. /\ txn' \in [Order -> Status] /\ txn'[o] = "none"
        /\ \A q \in Order : /\ txn[q] = "none" <=> txn'[q] = "none"
                            /\ txn[q] = "done" <=> txn'[q] = "done"
    BY DEF CreateOrder, Unused, IInv, TypeOK, Status
  <1>5. WorkerInv(w)'
    BY <1>1, <1>3, <1>4 DEF WorkerInv, Ordering, Paying, Saving, Overlooking, Taking, Sweeping, Calling,
       At, Activating
  <1>6. worker' \in [Worker -> WorkerState] /\ \A v \in Worker : WorkerInv(v)'
    <2>1. \A v \in Worker : At(v, "ordering") => txn'[worker[v].order] = "none"
      BY <1>4 DEF IInv, WorkerInv, Ordering
    <2>2. QED
      BY <1>1, <1>2, <1>5, <2>1, SameRows, OthersKept
  <1>7. Apart'
    <2>1. \A v \in Worker : ~(At(v, "ordering") /\ worker[v].order = o)
      BY DEF CreateOrder, Unused
    <2>2. QED
      BY <1>1, <1>3, <2>1 DEF IInv, Apart, At
  <1>8. TypeOK'
    BY <1>2, <1>4, <1>6, SubscriptionsAssumption DEF IInv, TypeOK, CreateOrder, Begins
  <1>9. QED
    BY <1>2, <1>4, <1>6, <1>7, <1>8, SameRows
    DEF IInv, Orders, DoneIsSubscribed, CurrentIsLast

LEMMA InsertOrderInv ==
  ASSUME IInv, NEW w \in Worker, InsertOrder(w)
  PROVE  IInv'
  <1> DEFINE o == worker[w].order
  <1>1. o \in Order /\ worker[w].plan \in Plan /\ txn[o] = "none"
    BY DEF InsertOrder, IInv, WorkerInv, Ordering
  <1>2. Become(w, Idle) /\ UNCHANGED <<captured, subs, current, requests, crashes, general, overwritten>>
    BY DEF InsertOrder
  <1>3. worker'[w] = Idle /\ \A v \in Worker \ {w} : worker'[v] = worker[v]
    BY <1>2 DEF Become, IInv, TypeOK
  <1>4. /\ txn' = [txn EXCEPT ![o] = "created"] /\ plan' = [plan EXCEPT ![o] = worker[w].plan]
        /\ txn' \in [Order -> Status] /\ plan' \in [Order -> Plan \cup {None}]
    BY <1>1 DEF InsertOrder, IInv, TypeOK, Status
  <1>5. WorkerInv(w)'
    BY <1>3, IdleInv DEF Idle, WorkerInv, Ordering, Paying, Saving, Overlooking, Taking, Sweeping,
       Calling, At, Activating
  <1>6. worker' \in [Worker -> WorkerState] /\ \A v \in Worker : WorkerInv(v)'
    <2>1. \A v \in Worker \ {w} : At(v, "ordering") => txn'[worker[v].order] = "none"
      BY <1>4 DEF IInv, TypeOK, WorkerInv, Ordering, Apart, InsertOrder
    <2>2. QED
      BY <1>2, <1>5, <2>1, IdleType, SameRows, OthersKept
  <1>7. Apart'
    BY <1>2, ApartKept DEF Idle
  <1>8. TypeOK'
    BY <1>2, <1>4, <1>6 DEF IInv, TypeOK
  <1>9. DoneIsSubscribed'
    BY <1>1, <1>2, <1>4, SameRows DEF IInv, TypeOK, DoneIsSubscribed
  <1>10. Orders'
    BY <1>1, <1>2, <1>4 DEF IInv, TypeOK, Orders
  <1>11. QED
    BY <1>2, <1>6, <1>7, <1>8, <1>9, <1>10, SameRows DEF IInv, CurrentIsLast

\* A worker moves on, and of the rest only counters change.
LEMMA MovesOn ==
  ASSUME IInv, NEW w \in Worker, NEW state \in WorkerState, Become(w, state),
         state.at # "ordering", UNCHANGED <<txn, plan, captured, subs, current, general, overwritten>>,
         requests' \in 0 .. MaxRequests, crashes' \in 0 .. MaxCrashes, WorkerInv(w)'
  PROVE  IInv'
  <1>1. Apart'
    BY ApartKept
  <1>2. worker' \in [Worker -> WorkerState] /\ \A v \in Worker : WorkerInv(v)'
    <2>1. \A v \in Worker : At(v, "ordering") => txn'[worker[v].order] = "none"
      BY DEF IInv, WorkerInv, Ordering
    <2>2. QED
      BY <2>1, SameRows, OthersKept
  <1>3. TypeOK'
    BY <1>2 DEF IInv, TypeOK
  <1>4. QED
    BY <1>1, <1>2, <1>3, SameRows DEF IInv, Orders, DoneIsSubscribed, CurrentIsLast

LEMMA MovesAt ==
  ASSUME IInv, NEW w \in Worker, NEW state, Become(w, state)
  PROVE  worker'[w] = state
  BY DEF IInv, TypeOK, Become

LEMMA EndsIdle ==
  ASSUME IInv, NEW w \in Worker, Become(w, Idle)
  PROVE  WorkerInv(w)'
  BY MovesAt DEF Idle, WorkerInv, Ordering, Paying, Saving, Overlooking, Taking, Sweeping,
     Calling, At, Activating

LEMMA EndsInv ==
  ASSUME IInv, NEW w \in Worker, OrderFails(w) \/ CallFails(w) \/ Crash(w)
  PROVE  IInv'
  <1>1. Become(w, Idle) /\ UNCHANGED <<txn, plan, captured, subs, current, general, overwritten>>
        /\ requests' \in 0 .. MaxRequests /\ crashes' \in 0 .. MaxCrashes
    BY SubscriptionsAssumption DEF OrderFails, CallFails, Crash, IInv, TypeOK
  <1>2. Idle.at # "ordering"
    BY DEF Idle
  <1>3. QED
    BY <1>1, <1>2, IdleType, EndsIdle, MovesOn

LEMMA LooksInv ==
  ASSUME IInv, NEW w \in Worker, NEW o \in Order, VerifyChecks(w, o) \/ HookCaptured(w, o)
  PROVE  IInv'
  <1>1. CASE VerifyChecks(w, o)
    <2> DEFINE state == [Idle EXCEPT !.at = "checked", !.order = o, !.checked = Len(subs)]
    <2>1. /\ state \in WorkerState /\ state.at = "checked" /\ state.order = o
          /\ state.checked = Len(subs)
      BY IdleType, RowsType DEF WorkerState, IInv
    <2>2. Become(w, state)
      BY <1>1 DEF VerifyChecks
    <2> HIDE DEF state
    <2>3. worker'[w] = state
      BY <2>2, MovesAt
    <2>4. UNCHANGED <<txn, plan, captured, subs, current, general, overwritten>> /\ captured[o] # "no" /\ RowsOf(o) = {}
          /\ requests' \in 0 .. MaxRequests /\ crashes' \in 0 .. MaxCrashes
      BY <1>1, SubscriptionsAssumption DEF VerifyChecks, Begins, IInv, TypeOK
    <2>5. WorkerInv(w)'
      BY <2>1, <2>3, <2>4, RowsType DEF IInv, WorkerInv, Ordering, Paying, Saving, Overlooking, Taking,
         Sweeping, Calling, At, Activating, RowsOf, Rows
    <2>6. QED
      BY <2>1, <2>2, <2>4, <2>5, MovesOn
  <1>2. CASE HookCaptured(w, o)
    <2> DEFINE state == [Idle EXCEPT !.at = "hooking", !.order = o, !.rows = Active,
                                     !.checked = Len(subs), !.scanned = Len(subs)]
    <2>1. /\ state \in WorkerState /\ state.at = "hooking" /\ state.order = o
          /\ state.checked = Len(subs) /\ state.scanned = Len(subs) /\ state.rows = Active
      <3>1. Active \in SUBSET (Nat \ {0}) /\ Len(subs) \in Nat
        BY RowsType DEF IInv, Active, Rows
      <3>2. QED
        BY <3>1, IdleType DEF WorkerState
    <2>2. Become(w, state)
      BY <1>2 DEF HookCaptured
    <2> HIDE DEF state
    <2>3. worker'[w] = state
      BY <2>2, MovesAt
    <2>4. UNCHANGED <<txn, plan, captured, subs, current, general, overwritten>> /\ captured[o] # "no"
          /\ requests' \in 0 .. MaxRequests /\ crashes' \in 0 .. MaxCrashes
      BY <1>2 DEF HookCaptured, IInv, TypeOK
    <2>5. \A i \in Rows : i \notin Active => subs[i].status = "expired"
      BY RowsType DEF IInv, Active, Row
    <2>6. WorkerInv(w)'
      BY <2>1, <2>3, <2>4, <2>5, RowsType DEF IInv, WorkerInv, Ordering, Paying, Saving, Overlooking,
         Taking, Sweeping, Calling, At, Activating, Rows
    <2>7. QED
      BY <2>1, <2>2, <2>4, <2>6, MovesOn
  <1>3. QED
    BY <1>1, <1>2

LEMMA VerifyWritesInv ==
  ASSUME IInv, NEW w \in Worker, VerifyWrites(w)
  PROVE  IInv'
  <1> DEFINE state == [worker[w] EXCEPT !.at = "verifying", !.rows = Active,
                                        !.scanned = Len(subs)]
  <1>1. worker[w] \in WorkerState /\ At(w, "checked")
    BY DEF VerifyWrites, IInv, TypeOK
  <1>2. Active \in SUBSET (Nat \ {0}) /\ Len(subs) \in Nat
    BY RowsType DEF IInv, Active, Rows
  <1>3. /\ state \in WorkerState /\ state.at = "verifying" /\ state.order = worker[w].order
        /\ state.checked = worker[w].checked /\ state.scanned = Len(subs) /\ state.rows = Active
    BY <1>1, <1>2 DEF WorkerState
  <1>4. Become(w, state)
    BY DEF VerifyWrites
  <1> HIDE DEF state
  <1>5. worker'[w] = state
    BY <1>4, MovesAt
  <1>6. UNCHANGED <<txn, plan, captured, subs, current, general, overwritten>>
        /\ requests' \in 0 .. MaxRequests /\ crashes' \in 0 .. MaxCrashes
    BY DEF VerifyWrites, IInv, TypeOK
  <1>7. \A i \in Rows : i \notin Active => subs[i].status = "expired"
    BY RowsType DEF IInv, Active, Row
  <1>8. Paying(w) /\ Overlooking(w)
    BY DEF IInv, WorkerInv
  <1>9. Paying(w)' /\ Overlooking(w)' /\ Taking(w)'
    BY <1>1, <1>2, <1>3, <1>5, <1>6, <1>7, <1>8 DEF Paying, Saving, Overlooking, Taking, At, Activating, Rows
  <1>10. WorkerInv(w)'
    BY <1>3, <1>5, <1>9 DEF WorkerInv, Ordering, Saving, Sweeping, Calling, At
  <1>11. QED
    BY <1>3, <1>4, <1>6, <1>10, MovesOn

LEMMA SweepInv ==
  ASSUME IInv, NEW w \in Worker, Sweep(w)
  PROVE  IInv'
  <1> DEFINE ended == {i \in Active : subs[i].due}
             state == [Idle EXCEPT !.at = "sweeping", !.rows = ended]
  <1>1. ended \in SUBSET (Nat \ {0})
    BY RowsType DEF IInv, Active, Rows
  <1>2. state \in WorkerState /\ state.at = "sweeping" /\ state.rows = ended
    BY <1>1, IdleType DEF WorkerState
  <1>3. Become(w, state)
    BY DEF Sweep
  <1> HIDE DEF state
  <1>4. worker'[w] = state
    BY <1>3, MovesAt
  <1>5. UNCHANGED <<txn, plan, captured, subs, current, general, overwritten>>
        /\ requests' \in 0 .. MaxRequests /\ crashes' \in 0 .. MaxCrashes
    BY SubscriptionsAssumption DEF Sweep, Begins, IInv, TypeOK
  <1>6. WorkerInv(w)'
    BY <1>2, <1>4, <1>5 DEF WorkerInv, Ordering, Paying, Saving, Overlooking, Taking, Sweeping, Calling,
       At, Activating, Active, Rows
  <1>7. QED
    BY <1>2, <1>3, <1>5, <1>6, MovesOn

LEMMA CallInv ==
  ASSUME IInv, NEW w \in Worker, NEW f \in Feature, Call(w, f)
  PROVE  IInv'
  <1> DEFINE n == subs[current].used[f]
             state == [Idle EXCEPT !.at = "calling", !.row = current, !.feature = f, !.seen = n]
  <1>1. current \in Rows /\ subs[current] \in Row /\ current \in Nat
    BY RowsType DEF Call, IInv, TypeOK, Rows
  <1>2. n \in Nat /\ n <= subs[current].served[f] /\ n < Limit[subs[current].plan][f]
    BY <1>1 DEF Call, IInv, NeverOvercharged, Row
  <1>3. /\ state \in WorkerState /\ state.at = "calling" /\ state.row = current
        /\ state.feature = f /\ state.seen = n
    BY <1>1, <1>2, IdleType DEF WorkerState
  <1>4. Become(w, state)
    BY DEF Call
  <1> HIDE DEF state
  <1>5. worker'[w] = state
    BY <1>4, MovesAt
  <1>6. UNCHANGED <<txn, plan, captured, subs, current, general, overwritten>>
        /\ requests' \in 0 .. MaxRequests /\ crashes' \in 0 .. MaxCrashes
    BY SubscriptionsAssumption DEF Call, Begins, IInv, TypeOK
  <1> HIDE DEF n
  <1>7. Calling(w)'
    BY <1>1, <1>2, <1>3, <1>5, <1>6 DEF Calling, Rows
  <1>8. WorkerInv(w)'
    BY <1>3, <1>5, <1>7 DEF WorkerInv, Ordering, Paying, Saving, Overlooking, Taking, Sweeping, At, Activating
  <1>9. QED
    BY <1>3, <1>4, <1>6, <1>8, MovesOn

\* Steps of the gateway, which move no worker.
LEMMA GatewayInv ==
  ASSUME IInv, NEW o \in Order,
         \/ Capture(o) \/ HookTampered(o) \/ HookFailed(o)
         \/ GeneralPaid(o) \/ GeneralFailed(o)
  PROVE  IInv'
  <1>1. UNCHANGED <<plan, subs, current, worker, requests, crashes, overwritten>>
    BY DEF Capture, HookTampered, HookFailed, GeneralPaid, GeneralFailed
  <1>2. /\ txn' \in [Order -> Status] /\ captured' \in [Order -> {"no", "amount", "other"}]
        /\ \A q \in Order : captured[q] # "no" => captured'[q] # "no"
        /\ \A q \in Order : txn[q] = "none" <=> txn'[q] = "none"
        /\ \A q \in Order \ general' : txn[q] = "done" <=> txn'[q] = "done"
        /\ \A q \in Order : txn'[q] = "none" => captured'[q] = "no"
        /\ general \subseteq general' /\ general' \subseteq Order
    <2>1. CASE Capture(o) \/ HookTampered(o) \/ HookFailed(o)
      BY <2>1 DEF Capture, HookTampered, HookFailed, IInv, TypeOK, Orders, Status
    <2>2. CASE GeneralPaid(o) \/ GeneralFailed(o)
      <3>1. txn[o] # "none"
        BY <2>2 DEF GeneralPaid, GeneralFailed, IInv, Orders
      <3>2. PICK status \in Status : status # "none" /\ txn' = [txn EXCEPT ![o] = status]
        BY <2>2 DEF GeneralPaid, GeneralFailed, Status
      <3>3. UNCHANGED captured /\ general' = general \cup {o}
        BY <2>2 DEF GeneralPaid, GeneralFailed
      <3>4. QED
        BY <3>1, <3>2, <3>3 DEF IInv, TypeOK, Orders
    <2>3. QED
      BY <2>1, <2>2
  <1>3. \A v \in Worker : WorkerInv(v)'
    <2> SUFFICES ASSUME NEW v \in Worker PROVE WorkerInv(v)'
      OBVIOUS
    <2>1. At(v, "ordering") => txn'[worker[v].order] = "none"
      BY <1>2 DEF IInv, WorkerInv, Ordering
    <2>2. QED
      BY <1>1, <1>2, <2>1, SameRows, WorkerKept DEF IInv
  <1>4. TypeOK' /\ Apart'
    BY <1>1, <1>2 DEF IInv, TypeOK, Apart, At
  <1>5. QED
    BY <1>1, <1>2, <1>3, <1>4, SameRows DEF IInv, Orders, DoneIsSubscribed, CurrentIsLast

LEMMA ReadUserInv ==
  ASSUME IInv, NEW w \in Worker, ReadUser(w)
  PROVE  IInv'
  <1> DEFINE state == [Idle EXCEPT !.at = "saving", !.row = current]
  <1>1. current \in Nat /\ current <= Len(subs)
    BY RowsType DEF IInv, TypeOK
  <1>2. state \in WorkerState /\ state.at = "saving" /\ state.row = current
    BY <1>1, IdleType DEF WorkerState
  <1>3. Become(w, state)
    BY DEF ReadUser
  <1> HIDE DEF state
  <1>4. worker'[w] = state
    BY <1>3, MovesAt
  <1>5. UNCHANGED <<txn, plan, captured, subs, current, general, overwritten>>
        /\ requests' \in 0 .. MaxRequests /\ crashes' \in 0 .. MaxCrashes
    BY SubscriptionsAssumption DEF ReadUser, Begins, IInv, TypeOK
  <1>6. WorkerInv(w)'
    BY <1>1, <1>2, <1>4, <1>5 DEF WorkerInv, Ordering, Paying, Saving, Overlooking, Taking,
       Sweeping, Calling, At, Activating
  <1>7. QED
    BY <1>2, <1>3, <1>5, <1>6, MovesOn

LEMMA SaveUserInv ==
  ASSUME IInv, NEW w \in Worker, SaveUser(w)
  PROVE  IInv'
  <1>1. worker[w] \in WorkerState /\ worker[w].row <= Len(subs)
    BY DEF SaveUser, IInv, TypeOK, WorkerInv, Saving
  <1>2. /\ Become(w, Idle) /\ current' = worker[w].row
        /\ overwritten' = (overwritten \/ current # worker[w].row)
        /\ UNCHANGED <<txn, plan, captured, subs, requests, crashes, general>>
    BY DEF SaveUser
  <1>3. current' \in 0 .. Len(subs)
    BY <1>1, <1>2, RowsType DEF WorkerState, IInv
  <1>4. Apart'
    BY <1>2, ApartKept DEF Idle
  <1>5. worker' \in [Worker -> WorkerState] /\ \A v \in Worker : WorkerInv(v)'
    <2>1. \A v \in Worker : At(v, "ordering") => txn'[worker[v].order] = "none"
      BY <1>2 DEF IInv, WorkerInv, Ordering
    <2>2. QED
      BY <1>2, <2>1, IdleType, EndsIdle, SameRows, OthersKept
  <1>6. overwritten' \in BOOLEAN
    BY <1>2
  <1>7. TypeOK'
    BY <1>2, <1>3, <1>5, <1>6 DEF IInv, TypeOK
  <1>8. CurrentIsLast'
    <2>1. overwritten' \/ current' = current
      BY <1>2
    <2>2. overwritten => overwritten'
      BY <1>2
    <2>3. QED
      BY <1>2, <2>1, <2>2 DEF IInv, CurrentIsLast
  <1>9. QED
    BY <1>2, <1>4, <1>5, <1>7, <1>8, SameRows DEF IInv, Orders, DoneIsSubscribed

\* A step that changes rows, adds none and leaves the pointer where it was: the
\* row it names is still active, or has ended.
LEMMA ChangesRows ==
  ASSUME IInv, Extends(subs'), Len(subs') = Len(subs), UNCHANGED <<txn, plan, captured, current, general, overwritten>>,
         requests' \in 0 .. MaxRequests, crashes' \in 0 .. MaxCrashes,
         worker' \in [Worker -> WorkerState], Apart', \A v \in Worker : WorkerInv(v)',
         \A i \in Rows : subs[i].status = "active" => subs'[i].status = "active" \/ subs'[i].due,
         NeverOvercharged'
  PROVE  IInv'
  <1>1. TypeOK'
    BY DEF IInv, TypeOK, Extends
  <1>2. CurrentIsLast'
    BY RowsType DEF IInv, TypeOK, CurrentIsLast, Rows, Extends, KeptRow
  <1>3. QED
    BY <1>1, <1>2, SameLength DEF IInv, Orders, DoneIsSubscribed

LEMMA ExpiresEnded ==
  ASSUME IInv, NEW i \in Rows, subs[i].due, subs' = Expire({i})
  PROVE  /\ Extends(subs') /\ Len(subs') = Len(subs)
         /\ \A j \in Rows : subs[j].status = "active" => subs'[j].status = "active" \/ subs'[j].due
         /\ NeverOvercharged'
  <1>1. /\ Extends(subs') /\ Len(subs') = Len(subs)
        /\ \A j \in Rows : subs'[j] = IF j \in {i} THEN [subs[j] EXCEPT !.status = "expired"]
                                      ELSE subs[j]
    BY ExpireKeeps DEF IInv
  <1>2. \A j \in Rows : subs[j] \in Row
    BY RowsType DEF IInv
  <1>3. \A j \in Rows : subs'[j].used = subs[j].used /\ (j # i => subs'[j] = subs[j])
    BY <1>1, <1>2 DEF Row
  <1>4. subs'[i].due
    BY <1>1 DEF Extends, KeptRow
  <1>5. QED
    BY <1>1, <1>3, <1>4, SameUse DEF IInv

LEMMA LapseInv ==
  ASSUME IInv, NEW i \in Rows, Lapse(i)
  PROVE  IInv'
  <1>1. /\ Extends(subs') /\ Len(subs') = Len(subs)
        /\ \A j \in Rows : subs'[j].status = subs[j].status /\ subs'[j].used = subs[j].used
    BY LapseKeeps DEF IInv
  <1>2. UNCHANGED <<txn, plan, captured, current, worker, requests, crashes, general, overwritten>>
    BY DEF Lapse
  <1>3. ASSUME NEW v \in Worker PROVE WorkerInv(v)'
    <2>1. At(v, "ordering") => txn'[worker[v].order] = "none"
      BY <1>2 DEF IInv, WorkerInv, Ordering
    <2>2. QED
      BY <1>1, <1>2, <2>1, WorkerKept DEF IInv
  <1>4. Apart' /\ worker' \in [Worker -> WorkerState]
        /\ requests' \in 0 .. MaxRequests /\ crashes' \in 0 .. MaxCrashes
    BY <1>2 DEF IInv, TypeOK, Apart, At
  <1>5. QED
    BY <1>1, <1>2, <1>3, <1>4, SameUse, ChangesRows DEF IInv

\* Like MovesOn, for a step that expires a row whose end has passed.
LEMMA ExpiresOn ==
  ASSUME IInv, NEW w \in Worker, NEW state \in WorkerState, Become(w, state),
         state.at # "ordering", WorkerInv(w)', UNCHANGED <<txn, plan, captured, current, general, overwritten>>,
         NEW i \in Rows, subs[i].due, subs' = Expire({i}),
         requests' \in 0 .. MaxRequests, crashes' \in 0 .. MaxCrashes
  PROVE  IInv'
  <1>1. /\ Extends(subs') /\ Len(subs') = Len(subs) /\ NeverOvercharged'
        /\ \A j \in Rows : subs[j].status = "active" => subs'[j].status = "active" \/ subs'[j].due
    BY ExpiresEnded
  <1>2. Apart'
    BY ApartKept
  <1>3. worker' \in [Worker -> WorkerState] /\ \A v \in Worker : WorkerInv(v)'
    <2>1. \A v \in Worker : At(v, "ordering") => txn'[worker[v].order] = "none"
      BY DEF IInv, WorkerInv, Ordering
    <2>2. QED
      BY <1>1, <2>1, OthersKept
  <1>4. QED
    BY <1>1, <1>2, <1>3, ChangesRows

LEMMA ViewInv ==
  ASSUME IInv, NEW w \in Worker, NEW i \in Rows, View(w, i)
  PROVE  IInv'
  <1> DEFINE state == [Idle EXCEPT !.at = "clearing"]
  <1>1. state \in WorkerState /\ state.at = "clearing" /\ state.rows = {}
    BY IdleType DEF Idle, WorkerState
  <1>2. Become(w, state) /\ UNCHANGED <<txn, plan, captured, current, crashes, general, overwritten>>
        /\ subs' = Expire({i}) /\ subs[i].due
    BY DEF View
  <1> HIDE DEF state
  <1>3. worker'[w] = state
    BY <1>2, MovesAt
  <1>4. WorkerInv(w)'
    BY <1>1, <1>3 DEF WorkerInv, Ordering, Paying, Saving, Overlooking, Taking, Sweeping, Calling, At, Activating
  <1>5. requests' \in 0 .. MaxRequests /\ crashes' \in 0 .. MaxCrashes
    BY SubscriptionsAssumption DEF View, Begins, IInv, TypeOK
  <1>6. QED
    BY <1>1, <1>2, <1>4, <1>5, ExpiresOn

LEMMA SweepRowInv ==
  ASSUME IInv, NEW w \in Worker, NEW i \in worker[w].rows, SweepRow(w, i)
  PROVE  IInv'
  <1> DEFINE state == [worker[w] EXCEPT !.at = "clearing", !.rows = @ \ {i}]
  <1>1. worker[w] \in WorkerState /\ At(w, "sweeping") /\ Sweeping(w)
    BY DEF SweepRow, IInv, TypeOK, WorkerInv
  <1>2. state \in WorkerState /\ state.at = "clearing" /\ state.rows = worker[w].rows \ {i}
    BY <1>1 DEF WorkerState
  <1>3. Become(w, state) /\ UNCHANGED <<txn, plan, captured, current, requests, crashes, general, overwritten>>
        /\ subs' = Expire({i})
    BY DEF SweepRow
  <1> HIDE DEF state
  <1>4. worker'[w] = state
    BY <1>3, MovesAt
  <1>5. \A j \in worker[w].rows : j \in Rows /\ subs[j].due
    BY <1>1 DEF Sweeping, At
  <1>6. Extends(subs') /\ Len(subs') = Len(subs)
    BY <1>3, <1>5, ExpiresEnded
  <1>7. Sweeping(w)'
    BY <1>2, <1>4, <1>5, <1>6 DEF Sweeping, Extends, KeptRow, Rows
  <1>8. WorkerInv(w)'
    BY <1>2, <1>4, <1>7 DEF WorkerInv, Ordering, Paying, Saving, Overlooking, Taking, Calling, At, Activating
  <1>9. requests' \in 0 .. MaxRequests /\ crashes' \in 0 .. MaxCrashes
    BY <1>3 DEF IInv, TypeOK
  <1>10. QED
    BY <1>2, <1>3, <1>5, <1>8, <1>9, ExpiresOn

LEMMA ClearCurrentInv ==
  ASSUME IInv, NEW w \in Worker, ClearCurrent(w)
  PROVE  IInv'
  <1> DEFINE state == IF worker[w].rows = {} THEN Idle ELSE [worker[w] EXCEPT !.at = "sweeping"]
  <1>1. worker[w] \in WorkerState /\ At(w, "clearing") /\ Sweeping(w)
    BY DEF ClearCurrent, IInv, TypeOK, WorkerInv
  <1>2. state \in WorkerState /\ state.at \in {"idle", "sweeping"} /\ state.rows = worker[w].rows
    BY <1>1, IdleType DEF WorkerState, Idle
  <1>3. Become(w, state) /\ UNCHANGED <<txn, plan, captured, subs, requests, crashes, general>>
        /\ current' = 0 /\ overwritten' = FALSE
    BY DEF ClearCurrent
  <1> HIDE DEF state
  <1>4. worker'[w] = state
    BY <1>3, MovesAt
  <1>5. Sweeping(w)'
    BY <1>1, <1>2, <1>3, <1>4 DEF Sweeping, At, Rows
  <1>6. WorkerInv(w)'
    BY <1>2, <1>4, <1>5 DEF WorkerInv, Ordering, Paying, Saving, Overlooking, Taking, Calling, At, Activating
  <1>7. Apart'
    BY <1>2, <1>3, ApartKept
  <1>8. worker' \in [Worker -> WorkerState] /\ \A v \in Worker : WorkerInv(v)'
    <2>1. \A v \in Worker : At(v, "ordering") => txn'[worker[v].order] = "none"
      BY <1>3 DEF IInv, WorkerInv, Ordering
    <2>2. QED
      BY <1>2, <1>3, <1>6, <2>1, SameRows, OthersKept
  <1>9. TypeOK'
    <2>1. overwritten' \in BOOLEAN
      BY <1>3
    <2>2. QED
      BY <1>3, <1>8, <2>1, RowsType DEF IInv, TypeOK
  <1>10. QED
    BY <1>3, <1>7, <1>8, <1>9, SameRows DEF IInv, Orders, DoneIsSubscribed, CurrentIsLast

LEMMA ChargeInv ==
  ASSUME IInv, NEW w \in Worker, Charge(w)
  PROVE  IInv'
  <1> DEFINE i == worker[w].row
             f == worker[w].feature
             n == worker[w].seen + 1
             r == [subs[i] EXCEPT !.used[f] = n, !.served[f] = @ + 1]
  <1>1. Calling(w) /\ At(w, "calling")
    BY DEF Charge, IInv, WorkerInv
  <1>2. i \in Rows /\ f \in Feature /\ n \in Nat /\ worker[w].seen \in Nat
        /\ worker[w].seen < Limit[subs[i].plan][f] /\ worker[w].seen <= subs[i].served[f]
    BY <1>1 DEF Calling, IInv, TypeOK, WorkerState
  <1>3. /\ Extends(subs') /\ Len(subs') = Len(subs)
        /\ \A j \in Rows : subs'[j].status = subs[j].status
    BY <1>1, ChargeKeeps DEF IInv
  <1>4. Become(w, Idle) /\ UNCHANGED <<txn, plan, captured, current, requests, crashes, general, overwritten>>
    BY DEF Charge
  <1>5. \A j \in Rows : subs[j] \in Row /\ subs'[j] \in Row /\ KeptRow(subs[j], subs'[j])
    BY <1>3, RowsType, ElementOfSeq DEF IInv, Extends, Rows
  <1>6. /\ \A j \in Rows : j # i => subs'[j] = subs[j]
        /\ subs'[i].used = [subs[i].used EXCEPT ![f] = n]
        /\ subs'[i].served = [subs[i].served EXCEPT ![f] = @ + 1]
    <2>1. subs' = [subs EXCEPT ![i] = r]
      BY DEF Charge
    <2>2. subs \in [Rows -> Row]
      BY LenProperties DEF IInv, TypeOK, Rows
    <2>3. r.used = [subs[i].used EXCEPT ![f] = n] /\ r.served = [subs[i].served EXCEPT ![f] = @ + 1]
      <3>1. subs[i] \in Row /\ f \in Feature /\ n \in Nat
        BY <1>2, <1>5
      <3> HIDE DEF i, f, n
      <3>2. r.used = [subs[i].used EXCEPT ![f] = n]
        BY <3>1 DEF Row
      <3>3. r.served = [subs[i].served EXCEPT ![f] = @ + 1]
        BY <3>1 DEF Row
      <3>4. QED
        BY <3>2, <3>3
    <2> HIDE DEF r
    <2>4. QED
      BY <1>2, <2>1, <2>2, <2>3
  <1> HIDE DEF i, f, n
  <1>7. NeverOvercharged'
    <2> SUFFICES ASSUME NEW j \in Rows, NEW g \in Feature
                 PROVE  /\ subs'[j].used[g] <= subs'[j].served[g]
                        /\ subs'[j].used[g] <= Limit[subs'[j].plan][g]
      BY <1>3 DEF NeverOvercharged, Rows
    <2>1. /\ subs[j].used \in [Feature -> Nat] /\ subs[j].served \in [Feature -> Nat]
          /\ subs'[j].plan = subs[j].plan
          /\ subs[j].used[g] <= subs[j].served[g] /\ subs[j].used[g] <= Limit[subs[j].plan][g]
          /\ Limit[subs[j].plan][g] \in Nat
      BY <1>5, SubscriptionsAssumption DEF IInv, NeverOvercharged, Row, KeptRow
    <2>2. CASE j # i
      BY <1>6, <2>1, <2>2
    <2>3. CASE j = i /\ g # f
      BY <1>2, <1>6, <2>1, <2>3
    <2>4. CASE j = i /\ g = f
      <3>1. n = worker[w].seen + 1
        BY DEF n
      <3>2. subs'[j].used[g] = n /\ subs'[j].served[g] = subs[j].served[g] + 1
        BY <1>2, <1>6, <2>1, <2>4
      <3>3. worker[w].seen < Limit[subs[j].plan][g] /\ worker[w].seen <= subs[j].served[g]
        BY <1>2, <2>4 DEF i, f
      <3>4. subs[j].served[g] \in Nat
        BY <2>1
      <3>5. QED
        BY <1>2, <2>1, <3>1, <3>2, <3>3, <3>4
    <2>5. QED
      BY <2>2, <2>3, <2>4
  <1>8. worker' \in [Worker -> WorkerState] /\ \A v \in Worker : WorkerInv(v)'
    <2>1. \A v \in Worker : At(v, "ordering") => txn'[worker[v].order] = "none"
      BY <1>4 DEF IInv, WorkerInv, Ordering
    <2>2. QED
      BY <1>3, <1>4, <2>1, IdleType, EndsIdle, OthersKept
  <1>9. Apart' /\ requests' \in 0 .. MaxRequests /\ crashes' \in 0 .. MaxCrashes
    BY <1>4, ApartKept DEF Idle, IInv, TypeOK
  <1>10. QED
    BY <1>3, <1>4, <1>7, <1>8, <1>9, ChangesRows

LEMMA ActivateInv ==
  ASSUME IInv, NEW w \in Worker, Activate(w)
  PROVE  IInv'
  <1> DEFINE o == worker[w].order
             r == NewRow(o, plan[o], worker[w].checked, worker[w].scanned)
             n == Len(subs)
  <1>1. /\ worker[w] \in WorkerState /\ Activating(w)
        /\ Paying(w) /\ Overlooking(w) /\ Taking(w)
    BY DEF Activate, IInv, TypeOK, WorkerInv
  <1>2. o \in Order /\ plan[o] \in Plan /\ txn[o] # "none" /\ n \in Nat
        /\ \A i \in Rows : subs[i] \in Row /\ i \in Nat
    BY <1>1, RowsType DEF Paying, Activating, IInv, Orders, Rows
  <1>3. Become(w, Idle) /\ UNCHANGED <<plan, captured, requests, crashes>>
        /\ txn' = [txn EXCEPT ![o] = "done"] /\ general' = general \ {o}
    BY DEF Activate
  <1>4. /\ txn' \in [Order -> Status] /\ txn'[o] = "done"
        /\ \A q \in Order : q # o => txn'[q] = txn[q]
        /\ \A q \in Order : txn[q] = "none" => txn'[q] = "none"
        /\ \A q \in Order : txn'[q] = "none" => txn[q] = "none"
    BY <1>2, <1>3 DEF IInv, TypeOK, Status
  <1>5. Apart' /\ Orders' /\ \A v \in Worker : At(v, "ordering") => txn'[worker[v].order] = "none"
    BY <1>2, <1>3, <1>4, ApartKept DEF Idle, IInv, Orders, WorkerInv, Ordering
  <1>6. CASE At(w, "hooking") /\ RowsOf(o) # {}
    <2>1. UNCHANGED <<subs, current, overwritten>>
      BY <1>6 DEF Activate
    <2>2. worker' \in [Worker -> WorkerState] /\ \A v \in Worker : WorkerInv(v)'
      BY <1>3, <1>5, <2>1, IdleType, EndsIdle, SameRows, OthersKept
    <2>3. TypeOK'
      BY <1>3, <1>4, <2>1, <2>2 DEF IInv, TypeOK
    <2>4. DoneIsSubscribed'
      BY <1>3, <1>4, <1>6, <2>1, SameRows DEF IInv, DoneIsSubscribed
    <2>5. QED
      BY <1>5, <2>1, <2>2, <2>3, <2>4, SameRows DEF IInv, CurrentIsLast
  <1>7. CASE ~(At(w, "hooking") /\ RowsOf(o) # {})
    <2>1. subs' = Append(Expire(worker[w].rows), r) /\ current' = n + 1
          /\ overwritten' = FALSE
      BY <1>7 DEF Activate
    <2>2. /\ r \in Row /\ r.order = o /\ r.status = "active"
          /\ r.checked = worker[w].checked /\ r.scanned = worker[w].scanned
          /\ r.used = Nothing /\ r.served = Nothing /\ r.plan \in Plan
      <3>1. worker[w].checked \in Nat /\ worker[w].scanned \in Nat
        BY <1>1 DEF WorkerState
      <3>2. r \in Row
        BY <1>2, <3>1, NewRowType
      <3>3. QED
        BY <1>2, <3>2 DEF NewRow
    <2> HIDE DEF r
    <2>3. /\ Extends(subs') /\ Len(subs') = n + 1 /\ subs'[n + 1] = r
          /\ \A i \in Rows : subs'[i] = Expire(worker[w].rows)[i]
      BY <2>1, <2>2, AppendKeeps DEF IInv
    <2>4. /\ Rows' = Rows \cup {n + 1} /\ \A i \in Rows : i < n + 1 /\ i # n + 1
          /\ \A i \in Rows : KeptRow(subs[i], subs'[i]) /\ subs'[i].used = subs[i].used
                            /\ (i \in worker[w].rows => subs'[i].status = "expired")
      <3>1. \A i \in Rows : subs'[i] = IF i \in worker[w].rows
                                     THEN [subs[i] EXCEPT !.status = "expired"] ELSE subs[i]
        BY <2>3, ExpireKeeps DEF IInv
      <3>2. \A i \in Rows : subs'[i].used = subs[i].used
                           /\ (i \in worker[w].rows => subs'[i].status = "expired")
        BY <1>2, <3>1 DEF Row
      <3>3. QED
        BY <1>2, <2>3, <3>2 DEF Rows, Extends
    <2>5. worker' \in [Worker -> WorkerState] /\ \A v \in Worker : WorkerInv(v)'
      BY <1>3, <1>5, <2>3, IdleType, EndsIdle, OthersKept
    <2>6. TypeOK'
      <3>1. overwritten' \in BOOLEAN
        BY <2>1
      <3>2. general' \subseteq Order
        BY <1>3 DEF IInv, TypeOK
      <3>3. QED
        BY <1>2, <1>3, <1>4, <2>1, <2>3, <2>5, <3>1, <3>2 DEF IInv, TypeOK, Extends
    <2>7. DoneIsSubscribed'
      <3>1. ASSUME NEW q \in Order, q = o PROVE n + 1 \in RowsOf(q)'
        BY <2>2, <2>3, <2>4, <3>1 DEF RowsOf
      <3>2. ASSUME NEW q \in Order, q # o PROVE RowsOf(q)' = RowsOf(q)
        BY <2>2, <2>3, <2>4, <3>2 DEF RowsOf, KeptRow
      <3>3. QED
        BY <1>3, <1>4, <3>1, <3>2 DEF IInv, DoneIsSubscribed
    <2>8. OnceUnlessOverlapped'
      <3> SUFFICES ASSUME NEW i \in Rows', NEW j \in Rows', i < j, subs'[i].order = subs'[j].order
                   PROVE  subs'[j].checked < i
        BY DEF OnceUnlessOverlapped
      <3>1. CASE j \in Rows
        BY <1>2, <2>4, <3>1 DEF IInv, OnceUnlessOverlapped, KeptRow
      <3>2. CASE j = n + 1
        <4>1. i \in Rows /\ subs[i].order = o /\ subs'[j].checked = worker[w].checked
          BY <1>2, <2>2, <2>3, <2>4, <3>2 DEF KeptRow
        <4>2. ~At(w, "hooking")
          BY <1>7, <4>1 DEF RowsOf
        <4>3. QED
          BY <1>1, <4>1, <4>2 DEF Overlooking, Activating, At
      <3>3. QED
        BY <2>4, <3>1, <3>2
    <2>9. SupersededIsExpired'
      <3> SUFFICES ASSUME NEW i \in Rows', NEW j \in Rows', i < j, i <= subs'[j].scanned
                   PROVE  subs'[i].status = "expired"
        BY DEF SupersededIsExpired
      <3>1. CASE j \in Rows
        BY <1>2, <2>4, <3>1 DEF IInv, SupersededIsExpired, KeptRow
      <3>2. CASE j = n + 1
        BY <1>1, <1>2, <2>2, <2>3, <2>4, <3>2 DEF Taking, KeptRow
      <3>3. QED
        BY <2>4, <3>1, <3>2
    <2>10. CurrentIsLast'
      BY <1>2, <2>1, <2>2, <2>3 DEF CurrentIsLast
    <2>11. NeverOvercharged'
      <3> SUFFICES ASSUME NEW i \in Rows', NEW f \in Feature
                   PROVE  /\ subs'[i].used[f] <= subs'[i].served[f]
                          /\ subs'[i].used[f] <= Limit[subs'[i].plan][f]
        BY DEF NeverOvercharged
      <3>1. CASE i \in Rows
        <4>1. /\ subs[i].used[f] \in Nat /\ subs[i].served[f] \in Nat
              /\ subs'[i].served[f] \in Nat /\ subs'[i].plan = subs[i].plan
              /\ subs[i].served[f] <= subs'[i].served[f] /\ subs'[i].used = subs[i].used
          <5>1. subs'[i] \in Row
            BY <2>3, ElementOfSeq DEF Extends, Rows
          <5>2. QED
            BY <1>2, <2>4, <3>1, <5>1 DEF KeptRow, Row
        <4>2. subs[i].used[f] <= subs[i].served[f] /\ subs[i].used[f] <= Limit[subs[i].plan][f]
          BY <3>1 DEF IInv, NeverOvercharged
        <4>3. QED
          BY <4>1, <4>2
      <3>2. CASE i = n + 1
        <4>1. Limit[r.plan][f] \in Nat
          BY <2>2, SubscriptionsAssumption
        <4>2. r.used[f] = 0 /\ r.served[f] = 0
          BY <2>2 DEF Nothing
        <4>3. QED
          BY <2>3, <3>2, <4>1, <4>2
      <3>3. QED
        BY <2>4, <3>1, <3>2
    <2>12. QED
      BY <1>5, <2>5, <2>6, <2>7, <2>8, <2>9, <2>10, <2>11 DEF IInv
  <1>8. QED
    BY <1>6, <1>7

LEMMA NextInv == IInv /\ [Next]_vars => IInv'
  <1> SUFFICES ASSUME IInv, [Next]_vars PROVE IInv'
    OBVIOUS
  <1>1. CASE UNCHANGED vars
    <2>1. UNCHANGED <<txn, plan, captured, subs, current, worker, requests, crashes, general, overwritten>>
      BY <1>1 DEF vars
    <2>2. \A v \in Worker : WorkerInv(v)'
      <3> SUFFICES ASSUME NEW v \in Worker PROVE WorkerInv(v)'
        OBVIOUS
      <3>1. At(v, "ordering") => txn'[worker[v].order] = "none"
        BY <2>1 DEF IInv, WorkerInv, Ordering
      <3>2. QED
        BY <2>1, <3>1, SameRows, WorkerKept DEF IInv
    <2>3. TypeOK' /\ Apart'
      BY <2>1 DEF IInv, TypeOK, Apart, At
    <2>4. QED
      BY <2>1, <2>2, <2>3, SameRows DEF IInv, Orders, DoneIsSubscribed, CurrentIsLast
  <1>2. ASSUME NEW w \in Worker, Begin(w) PROVE IInv'
    BY <1>2, CreateOrderInv, LooksInv, ViewInv, SweepInv, CallInv, ReadUserInv DEF Begin
  <1>3. ASSUME NEW w \in Worker, Continue(w) PROVE IInv'
    BY <1>3, EndsInv, InsertOrderInv, VerifyWritesInv, ActivateInv, SweepRowInv,
       ClearCurrentInv, ChargeInv, SaveUserInv DEF Continue
  <1>4. QED
    BY <1>1, <1>2, <1>3, EndsInv, GatewayInv, LapseInv DEF Next

-----------------------------------------------------------------------------
(* The theorems                                                             *)

LEMMA InvariantHolds == Spec => []IInv
  BY InitInv, NextInv, PTL DEF Spec

\* Every variable keeps its type, whatever requests, webhooks, commands and
\* crashes interleave.
THEOREM TypeCorrect == Spec => []TypeOK
  <1>1. IInv => TypeOK
    BY DEF IInv
  <1>2. QED
    BY <1>1, InvariantHolds, PTL

\* verify and the webhook of the resume builder commit done and the subscription
\* together: no request ever reads one without the other, unless the general
\* webhook wrote the status last.
THEOREM PaymentAndRowTogether == Spec => []DoneIsSubscribed
  <1>1. IInv => DoneIsSubscribed
    BY DEF IInv
  <1>2. QED
    BY <1>1, InvariantHolds, PTL

\* Of any number of verify calls and repeated webhooks of an order, only one
\* that looked before the first row was committed adds a row.
THEOREM SecondRowOnlyByOverlap == Spec => []OnceUnlessOverlapped
  <1>1. IInv => OnceUnlessOverlapped
    BY DEF IInv
  <1>2. QED
    BY <1>1, InvariantHolds, PTL

\* However many orders are activated at once, the rows that were committed when
\* an activation took the active ones stay expired.
THEOREM ActivationSupersedes == Spec => []SupersededIsExpired
  <1>1. IInv => SupersededIsExpired
    BY DEF IInv
  <1>2. QED
    BY <1>1, InvariantHolds, PTL

\* current_subscription never names a row that was superseded, and never a row
\* that was expired before its end, unless an account that was read before an
\* activation or an expiry was saved after it.
THEOREM PointerIsLast == Spec => []CurrentIsLast
  <1>1. IInv => CurrentIsLast
    BY DEF IInv
  <1>2. QED
    BY <1>1, InvariantHolds, PTL

\* Overlapping calls lose counts, but never count a call that was not served, and
\* the stored count stays within the allowance.
THEOREM ChargedAtMostServed == Spec => []NeverOvercharged
  <1>1. IInv => NeverOvercharged
    BY DEF IInv
  <1>2. QED
    BY <1>1, InvariantHolds, PTL
=============================================================================

-------------------------- MODULE Payments_proofs --------------------------
(***************************************************************************)
(* Theorems about Payments: whatever is given is backed by money, and what *)
(* is done is reported, for every number of orders and overlapping requests *)
(* and every order in which the gateway delivers its events.               *)
(***************************************************************************)
EXTENDS Payments, TLAPS

-----------------------------------------------------------------------------
(* Type correctness                                                         *)

LEMMA NoRowType == NoRow \in Row
  BY DEF NoRow, Row, Status

LEMMA IdleType == Idle \in ThreadState /\ Idle.pc = "idle"
  BY PaymentsAssumption, NoRowType DEF Idle, ThreadState

LEMMA EndType ==
  ASSUME TypeOK, NEW t \in Thread, End(t) PROVE thread' \in [Thread -> ThreadState]
  BY IdleType DEF End, TypeOK

LEMMA GotoType ==
  ASSUME TypeOK, NEW t \in Thread,
         NEW label \in {"create", "save", "commit", "invoice", "link", "again", "lookup"},
         Goto(t, label)
  PROVE  thread' \in [Thread -> ThreadState]
  <1>1. [thread[t] EXCEPT !.pc = label] \in ThreadState
    BY DEF TypeOK, ThreadState
  <1>2. QED
    BY <1>1 DEF Goto, TypeOK

LEMMA BeginType ==
  ASSUME TypeOK, NEW t \in Thread, NEW o \in Order, NEW copy \in Row,
         NEW call \in {"create", "verify"} \cup PaidEvent,
         NEW label \in {"create", "read", "commit", "stale"},
         Begin(t, o, call, copy, label)
  PROVE  thread' \in [Thread -> ThreadState]
  <1>1. [Idle EXCEPT !.pc = label, !.order = o, !.call = call, !.copy = copy] \in ThreadState
    BY IdleType DEF ThreadState
  <1>2. QED
    BY <1>1 DEF Begin, TypeOK

LEMMA HoldingType ==
  ASSUME TypeOK, NEW t \in Thread, NEW o \in Order, NEW call \in {"create", "resave"},
         NEW seen \in {"unpaid", "paid"}, NEW label \in {"first", "save"},
         BeginHolding(t, o, call, seen, label)
  PROVE  thread' \in [Thread -> ThreadState]
  <1>1. [Idle EXCEPT !.pc = label, !.order = o, !.call = call, !.seen = seen] \in ThreadState
    BY IdleType DEF ThreadState
  <1>2. QED
    BY <1>1 DEF BeginHolding, TypeOK

LEMMA ReadingType == ASSUME NEW r PROVE Reading(r) \in {"unpaid", "paid"}
  BY DEF Reading

LEMMA HasType ==
  ASSUME TypeOK, NEW o \in Order, NEW thing \in {"student", "invoice"}, Has(o, thing)
  PROVE  /\ txn' \in [Order -> Row]
         /\ \A p \in Order : txn'[p].status = txn[p].status
  <1>1. [txn[o] EXCEPT !.has = @ \cup {thing}] \in Row
    BY DEF TypeOK, Row
  <1>2. [txn[o] EXCEPT !.has = @ \cup {thing}].status = txn[o].status
    BY DEF TypeOK, Row
  <1>3. txn' = [txn EXCEPT ![o] = [txn[o] EXCEPT !.has = @ \cup {thing}]]
    BY DEF Has
  <1>4. QED
    BY <1>1, <1>2, <1>3 DEF TypeOK

LEMMA RaisesType ==
  ASSUME TypeOK, Raises \/ UNCHANGED faults PROVE faults' \in [{"raise", "crash"} -> Nat]
  BY DEF TypeOK, Raises

LEMMA SavedType ==
  ASSUME TypeOK, NEW o \in Order, NEW status \in PaidStatus, NEW invoice \in BOOLEAN
  PROVE  Saved(o, status, invoice) \in Row
  <1>1. txn[o].has \in SUBSET {"student", "invoice"}
    BY DEF TypeOK, Row
  <1>2. QED
    BY <1>1 DEF Saved, Row, Status

LEMMA RegisteredType == ASSUME NEW r \in Row PROVE Registered(r) \in Row
  BY DEF Registered, Row, Status, PaidStatus

LEMMA PaysType ==
  ASSUME TypeOK, NEW t \in Thread, Pays(t)
  PROVE  paid' \in SUBSET Reg /\ overtaken' \in SUBSET Reg
  <1> RegAt(t) \in Reg
    BY PaymentsAssumption DEF TypeOK, ThreadState, OrderAt, RegAt
  <1> QED
    BY DEF Pays, TypeOK

LEMMA RegisterType ==
  ASSUME TypeOK, NEW t \in Thread, Register(t)
  PROVE  /\ paid' \in SUBSET Reg /\ overtaken' \in SUBSET Reg
         /\ enrolled' \in SUBSET Reg /\ reports' \in SUBSET Order
  <1> OrderAt(t) \in Order /\ RegAt(t) \in Reg
    BY PaymentsAssumption DEF TypeOK, ThreadState, OrderAt, RegAt
  <1> QED
    BY PaysType DEF Register, TypeOK

LEMMA InitType == Init => TypeOK
  BY NoRowType, IdleType DEF Init, TypeOK, MailCap

LEMMA NextType == TypeOK /\ [Next]_vars => TypeOK'
  <1> SUFFICES ASSUME TypeOK, [Next]_vars PROVE TypeOK'
    OBVIOUS
  <1>0. \A t \in Thread :
        /\ thread[t] \in ThreadState /\ OrderAt(t) \in Order
        /\ RegAt(t) \in Reg /\ thread[t].copy \in Row
    BY PaymentsAssumption DEF TypeOK, ThreadState, OrderAt, RegAt
  <1>1. ASSUME NEW t \in Thread, NEW o \in Order, CheckRegistered(t, o) PROVE TypeOK'
    <2>1. Begin(t, o, "create", NoRow, "create") \/ BeginHolding(t, o, "create", "unpaid", "first")
      BY <1>1 DEF CheckRegistered
    <2>2. thread' \in [Thread -> ThreadState]
      BY <2>1, BeginType, HoldingType, NoRowType
    <2>3. QED
      BY <1>1, <2>2 DEF CheckRegistered, TypeOK
  <1>1r. ASSUME NEW t \in Thread, NEW o \in Order, ReadToSave(t, o) PROVE TypeOK'
    <2>1. thread' \in [Thread -> ThreadState]
      BY <1>1r, HoldingType, ReadingType DEF ReadToSave
    <2>2. QED
      BY <1>1r, <2>1 DEF ReadToSave, TypeOK
  <1>2. ASSUME NEW t \in Thread, CreateTransaction(t) PROVE TypeOK'
    <2> DEFINE o == OrderAt(t)
               new == [status |-> "pending", has |-> IF Kind[o] = "plain" THEN {"student"} ELSE {}]
               moved == [thread[t] EXCEPT !.pc = "save", !.seen = Reading(RegOf[o])]
    <2>1. new \in Row
      BY DEF Row, Status
    <2>2. txn' = [txn EXCEPT ![o] = new]
      BY <1>2 DEF CreateTransaction
    <2>3. moved \in ThreadState
      BY <1>0, ReadingType DEF ThreadState
    <2>4. thread' = [thread EXCEPT ![t] = moved] \/ Goto(t, "save") \/ End(t)
      BY <1>2 DEF CreateTransaction
    <2> HIDE DEF new, moved
    <2>5. thread' \in [Thread -> ThreadState]
      BY <2>3, <2>4, EndType, GotoType DEF TypeOK
    <2>6. QED
      BY <1>0, <1>2, <2>1, <2>2, <2>5 DEF CreateTransaction, TypeOK
  <1>3. ASSUME NEW t \in Thread, SaveRegistration(t) PROVE TypeOK'
    <2>1. thread' \in [Thread -> ThreadState]
      BY <1>3, EndType, GotoType DEF SaveRegistration
    <2>2. txn' \in [Order -> Row]
      <3>1. Has(OrderAt(t), "student") \/ UNCHANGED txn
        BY <1>3 DEF SaveRegistration, OrderAt
      <3>2. QED
        BY <1>0, <3>1, HasType DEF TypeOK
    <2>3. QED
      BY <1>0, <1>3, <2>1, <2>2 DEF SaveRegistration, TypeOK
  <1>4. ASSUME NEW o \in Order, Gateway(o) PROVE TypeOK'
    <2>1. sent' \in [Order -> SUBSET ({"failed"} \cup PaidEvent)]
      BY <1>4 DEF Gateway, PaymentFails, PaymentAuthorized, PaymentCaptured, PaidEvent, TypeOK
    <2>2. QED
      BY <1>4, <2>1 DEF Gateway, PaymentFails, PaymentAuthorized, PaymentCaptured, TypeOK
  <1>5. ASSUME NEW o \in Order, WebhookFailed(o) PROVE TypeOK'
    <2>1. [txn[o] EXCEPT !.status = "failed"] \in Row
      BY DEF TypeOK, Row, Status
    <2>2. acked' \in [Order -> SUBSET PaidEvent]
      BY <1>5 DEF WebhookFailed, TypeOK
    <2>3. QED
      BY <1>5, <2>1, <2>2 DEF WebhookFailed, TypeOK
  <1>6. ASSUME NEW t \in Thread, NEW o \in Order, NEW e \in PaidEvent, Webhook(t, o, e)
        PROVE TypeOK'
    <2>1. CASE WebhookSkip(o, e)
      <3>1. acked' \in [Order -> SUBSET PaidEvent]
        BY <2>1 DEF WebhookSkip, TypeOK
      <3>2. QED
        BY <2>1, <3>1 DEF WebhookSkip, TypeOK
    <2>2. CASE WebhookRecheck(t, o, e)
      <3>1. thread' \in [Thread -> ThreadState]
        BY <2>2, BeginType DEF WebhookRecheck, TypeOK
      <3>2. QED
        BY <2>2, <3>1 DEF WebhookRecheck, TypeOK
    <2>3. CASE WebhookBegin(t, o, e)
      <3> DEFINE status == IF e = "captured" THEN "captured" ELSE "done"
                 label == IF Kind[o] = "plain" THEN "commit" ELSE "read"
      <3>1. status \in PaidStatus /\ label \in {"read", "commit"}
        BY DEF PaidStatus
      <3>2. PICK invoice \in BOOLEAN :
              InvoiceOrRaise(invoice) /\ Begin(t, o, e, Saved(o, status, invoice), label)
        BY <2>3 DEF WebhookBegin
      <3> HIDE DEF status, label
      <3>3. thread' \in [Thread -> ThreadState]
        BY <3>1, <3>2, BeginType, SavedType
      <3>4. faults' \in [{"raise", "crash"} -> Nat]
        BY <3>2, RaisesType DEF InvoiceOrRaise
      <3>5. QED
        BY <2>3, <3>3, <3>4 DEF WebhookBegin, TypeOK
    <2>4. QED
      BY <1>6, <2>1, <2>2, <2>3 DEF Webhook
  <1>7. ASSUME NEW t \in Thread, NEW o \in Order, VerifyLocked(t, o) PROVE TypeOK'
    <2>1. PICK invoice \in BOOLEAN :
            IF txn[o].status = "done"
            THEN UNCHANGED faults /\ Begin(t, o, "verify", txn[o], "read")
            ELSE /\ InvoiceOrRaise(invoice)
                 /\ Begin(t, o, "verify", Saved(o, "done", invoice), "read")
      BY <1>7 DEF VerifyLocked
    <2>2. Saved(o, "done", invoice) \in Row /\ txn[o] \in Row
      BY SavedType DEF PaidStatus, TypeOK
    <2>3. thread' \in [Thread -> ThreadState]
      BY <2>1, <2>2, BeginType
    <2>4. faults' \in [{"raise", "crash"} -> Nat]
      BY <2>1, RaisesType DEF InvoiceOrRaise
    <2>5. QED
      BY <1>7, <2>3, <2>4 DEF VerifyLocked, TypeOK

  <1>8. ASSUME NEW t \in Thread, ReadRegistration(t) PROVE TypeOK'
    <2> DEFINE seen == Reading(RegAt(t))
               label == CASE thread[t].pc = "lookup" -> "grant"
                          [] Kind[thread[t].order] = "ebook" /\ RegAt(t) \notin paid -> "mail"
                          [] OTHER -> "commit"
               new == [thread[t] EXCEPT !.seen = seen, !.pc = label]
    <2>1. seen \in {"paid", "unpaid"} /\ label \in {"grant", "mail", "commit"}
      BY ReadingType
    <2>2. /\ thread' = [thread EXCEPT ![t].seen = seen, ![t].pc = label]
          /\ UNCHANGED <<txn, paid, reports, enrolled, mails, sent, overtaken, acked, faults>>
      BY <1>8, Zenon DEF ReadRegistration
    <2> HIDE DEF seen, label
    <2>3. new \in ThreadState
      BY <1>0, <2>1 DEF ThreadState
    <2>4. thread' = [thread EXCEPT ![t] = new]
      BY <2>2 DEF TypeOK, ThreadState
    <2> HIDE DEF new
    <2>5. QED
      BY <2>2, <2>3, <2>4 DEF TypeOK
  <1>9. ASSUME NEW t \in Thread, SendMail(t) PROVE TypeOK'
    <2>1. thread' \in [Thread -> ThreadState]
      BY <1>9, GotoType DEF SendMail
    <2>2. mails' \in [Reg -> 0 .. MailCap]
      BY <1>0, <1>9 DEF SendMail, TypeOK, MailCap
    <2>3. QED
      BY <1>9, <2>1, <2>2 DEF SendMail, TypeOK
  <1>10. ASSUME NEW t \in Thread, Commit(t) PROVE TypeOK'
    <2>1. thread' \in [Thread -> ThreadState]
      BY <1>10, EndType DEF Commit
    <2>2. Registered(thread[t].copy) \in Row
      BY <1>0, RegisteredType
    <2>3. txn' \in [Order -> Row]
      BY <1>0, <1>10, <2>2 DEF Commit, TypeOK, OrderAt
    <2>4. /\ paid' \in SUBSET Reg /\ overtaken' \in SUBSET Reg
          /\ enrolled' \in SUBSET Reg /\ reports' \in SUBSET Order
      <3>1. CASE Register(t)
        BY <3>1, RegisterType
      <3>2. CASE ~Register(t)
        <4>1. Pays(t) \/ UNCHANGED <<paid, overtaken>>
          BY <1>10, <3>2 DEF Commit
        <4>2. paid' \in SUBSET Reg /\ overtaken' \in SUBSET Reg
          BY <4>1, PaysType DEF TypeOK
        <4>3. QED
          BY <1>0, <1>10, <3>2, <4>2 DEF Commit, SignalReports, TypeOK, OrderAt
      <3>3. QED
        BY <3>1, <3>2
    <2>5. acked' \in [Order -> SUBSET PaidEvent]
      BY <1>10 DEF Commit, TypeOK
    <2>6. QED
      BY <1>10, <2>1, <2>3, <2>4, <2>5 DEF Commit, TypeOK
  <1>11. ASSUME NEW t \in Thread, NEW o \in Order, VerifyRead(t, o) PROVE TypeOK'
    <2>1. thread' \in [Thread -> ThreadState]
      BY <1>11, BeginType DEF VerifyRead, TypeOK
    <2>2. QED
      BY <1>11, <2>1 DEF VerifyRead, TypeOK
  <1>12. ASSUME NEW t \in Thread, VerifySave(t) PROVE TypeOK'
    <2>1. thread' \in [Thread -> ThreadState]
      BY <1>12, GotoType DEF VerifySave
    <2>2. [thread[t].copy EXCEPT !.status = "done"] \in Row
      BY <1>0 DEF Row, Status, PaidStatus
    <2>3. QED
      BY <1>0, <1>12, <2>1, <2>2 DEF VerifySave, TypeOK, OrderAt
  <1>13. ASSUME NEW t \in Thread, SignalInvoice(t) \/ InvoiceAgain(t) PROVE TypeOK'
    <2>1. thread' \in [Thread -> ThreadState]
      <3>1. Goto(t, "again") \/ Goto(t, "link") \/ End(t)
        BY <1>13 DEF SignalInvoice, InvoiceAgain, AfterInvoice
      <3>2. QED
        BY <3>1, GotoType, EndType
    <2>2. UNCHANGED txn \/ Has(OrderAt(t), "invoice")
      BY <1>13 DEF SignalInvoice, InvoiceAgain
    <2>3. txn' \in [Order -> Row]
      BY <1>0, <2>2, HasType DEF TypeOK
    <2>4. faults' \in [{"raise", "crash"} -> Nat]
      BY <1>13, RaisesType DEF SignalInvoice, InvoiceAgain
    <2>5. QED
      BY <1>13, <2>1, <2>3, <2>4 DEF SignalInvoice, InvoiceAgain, TypeOK
  <1>14. ASSUME NEW t \in Thread, SignalLink(t) PROVE TypeOK'
    <2>1. thread' \in [Thread -> ThreadState]
      BY <1>14, GotoType DEF SignalLink
    <2>2. txn' \in [Order -> Row]
      BY <1>0, <1>14, HasType DEF SignalLink
    <2>3. QED
      BY <1>0, <1>14, <2>1, <2>2 DEF SignalLink, TypeOK
  <1>15. ASSUME NEW t \in Thread, Grant(t) PROVE TypeOK'
    <2>1. thread' \in [Thread -> ThreadState]
      BY <1>15, EndType DEF Grant
    <2>2. /\ paid' \in SUBSET Reg /\ overtaken' \in SUBSET Reg
          /\ enrolled' \in SUBSET Reg /\ reports' \in SUBSET Order
      BY <1>15, RegisterType DEF Grant
    <2>3. Registered(txn[OrderAt(t)]) \in Row
      BY <1>0, RegisteredType DEF TypeOK
    <2>4. QED
      BY <1>0, <1>15, <2>1, <2>2, <2>3 DEF Grant, TypeOK
  <1>16. ASSUME NEW t \in Thread, Fault(t) PROVE TypeOK'
    <2>1. thread' \in [Thread -> ThreadState]
      <3> DEFINE new == [thread[t] EXCEPT !.seen = "raised", !.pc = "commit"]
      <3>1. new \in ThreadState
        BY <1>0 DEF ThreadState
      <3>2. thread' = [thread EXCEPT ![t] = new] \/ End(t) \/ Goto(t, "commit")
        BY <1>16 DEF Fault, RegistrationRaises, DatabaseError, CacheError, Crash
      <3> HIDE DEF new
      <3>3. QED
        BY <3>1, <3>2, EndType, GotoType DEF TypeOK
    <2>2. faults' \in [{"raise", "crash"} -> Nat]
      <3>1. Raises \/ faults' = [faults EXCEPT !["crash"] = @ + 1]
        BY <1>16 DEF Fault, RegistrationRaises, DatabaseError, CacheError, Crash
      <3>2. QED
        BY <3>1, RaisesType DEF TypeOK
    <2>3. acked' \in [Order -> SUBSET PaidEvent]
      <3>1. acked' = acked \/
              acked' = [acked EXCEPT ![thread[t].order] = @ \cup ({thread[t].call} \cap PaidEvent)]
        BY <1>16 DEF Fault, RegistrationRaises, DatabaseError, CacheError, Crash
      <3>2. QED
        BY <3>1 DEF TypeOK
    <2>4. UNCHANGED <<txn, paid, reports, enrolled, mails, sent, overtaken>>
      BY <1>16 DEF Fault, RegistrationRaises, DatabaseError, CacheError, Crash
    <2>5. QED
      BY <2>1, <2>2, <2>3, <2>4 DEF TypeOK
  <1>17. CASE UNCHANGED vars
    BY <1>17 DEF vars, TypeOK
  <1>18. QED
    BY <1>1, <1>1r, <1>2, <1>3, <1>4, <1>5, <1>6, <1>7, <1>8, <1>9, <1>10, <1>11, <1>12, <1>13,
       <1>14, <1>15, <1>16, <1>17 DEF Next, Progress, Client

\* Every row, copy and registration is well typed: no status the code does not
\* know is ever written, by whichever request.
THEOREM TypeCorrect == Spec => []TypeOK
  BY InitType, NextType, PTL DEF Spec

-----------------------------------------------------------------------------
(* Nothing is had without paying                                            *)

Backed(r) == \E o \in Order : RegOf[o] = r /\ Money(o)

\* what is captured was authorized
EventsPaired == \A o \in Order : "captured" \in sent[o] => Money(o)

Registering == {"idle", "first", "create", "save"}

\* a request past its check is about an order that was paid for
RequestsPaid == \A t \in Thread :
    thread[t].pc \notin Registering => Money(OrderAt(t))

\* a registration that was read as paid was paid for
SavesPaid == \A t \in Thread :
    thread[t].pc \in {"first", "save"} /\ thread[t].seen = "paid" => Backed(RegAt(t))

MoneyInv == EventsPaired /\ RequestsPaid /\ SavesPaid /\ NothingForFree

\* what a step may give: only what money backs, by requests that money backs
GivesBacked ==
    /\ sent' = sent
    /\ \A o \in Order : IsPaid(o)' \/ o \in reports' => IsPaid(o) \/ o \in reports \/ Money(o)
    /\ \A r \in Reg : r \in paid' \cup enrolled' \/ mails'[r] > 0 =>
         r \in paid \cup enrolled \/ mails[r] > 0 \/ Backed(r)
    /\ \A t \in Thread :
         \/ thread'[t] = thread[t]
         \/ thread'[t].pc \in {"idle", "create"}
         \/ thread'[t].pc \notin {"first", "save"} /\ Money(thread'[t].order)
         \/ /\ thread'[t].pc \in {"first", "save"}
            /\ thread'[t].seen = "paid" => Backed(RegOf[thread'[t].order])

LEMMA BackedKeeps == ASSUME TypeOK, MoneyInv, GivesBacked PROVE MoneyInv'
  <1>1. \A o \in Order : Money(o)' <=> Money(o)
    BY DEF GivesBacked, Money
  <1>2. \A r \in Reg : Backed(r)' <=> Backed(r)
    BY <1>1 DEF Backed
  <1>3. EventsPaired'
    BY <1>1 DEF MoneyInv, EventsPaired, GivesBacked
  <1>4. \A t \in Thread : thread[t].order \in Order /\ RegOf[thread[t].order] \in Reg
    BY PaymentsAssumption DEF TypeOK, ThreadState
  <1>5. RequestsPaid'
    BY DEF MoneyInv, RequestsPaid, Registering, GivesBacked, OrderAt, Money
  <1>6. SavesPaid'
    <2> SUFFICES ASSUME NEW t \in Thread, thread'[t].pc \in {"first", "save"},
                        thread'[t].seen = "paid"
                 PROVE  Backed(RegAt(t))'
      BY DEF SavesPaid
    <2>1. Backed(RegOf[thread'[t].order])
      BY DEF MoneyInv, SavesPaid, GivesBacked, At, RegAt, OrderAt
    <2>2. QED
      BY <2>1, <1>1 DEF Backed, RegAt, OrderAt
  <1>7. NothingForFree'
    <2>1. \A o \in Order : IsPaid(o)' \/ o \in reports' => Money(o)'
      BY <1>1 DEF MoneyInv, NothingForFree, GivesBacked
    <2>2. \A r \in Reg : r \in paid' \cup enrolled' \/ mails'[r] > 0 => Backed(r)'
      BY <1>2 DEF MoneyInv, NothingForFree, GivesBacked, Backed
    <2>3. QED
      BY <2>1, <2>2 DEF NothingForFree, Backed
  <1>8. QED
    BY <1>3, <1>5, <1>6, <1>7 DEF MoneyInv

\* what an update of one thread says of all of them
LEMMA EndGives ==
  ASSUME TypeOK, NEW t \in Thread, End(t)
  PROVE  thread'[t].pc = "idle" /\ \A u \in Thread \ {t} : thread'[u] = thread[u]
  BY IdleType DEF End, TypeOK

LEMMA GotoGives ==
  ASSUME TypeOK, NEW t \in Thread, NEW label, Goto(t, label)
  PROVE  /\ thread'[t].pc = label /\ thread'[t].order = OrderAt(t)
         /\ \A u \in Thread \ {t} : thread'[u] = thread[u]
  BY DEF Goto, TypeOK, ThreadState, OrderAt

LEMMA BeginGives ==
  ASSUME TypeOK, NEW t \in Thread, NEW o, NEW call, NEW copy, NEW label,
         Begin(t, o, call, copy, label)
  PROVE  /\ thread'[t].pc = label /\ thread'[t].order = o
         /\ \A u \in Thread \ {t} : thread'[u] = thread[u]
  BY IdleType DEF Begin, TypeOK, ThreadState

LEMMA HoldingGives ==
  ASSUME TypeOK, NEW t \in Thread, NEW o, NEW call, NEW seen, NEW label,
         BeginHolding(t, o, call, seen, label)
  PROVE  /\ thread'[t].pc = label /\ thread'[t].order = o /\ thread'[t].seen = seen
         /\ thread'[t].call = call
         /\ \A u \in Thread \ {t} : thread'[u] = thread[u]
  BY IdleType DEF BeginHolding, TypeOK, ThreadState

LEMMA InitMoney == Init => MoneyInv
  <1> SUFFICES ASSUME Init PROVE MoneyInv
    OBVIOUS
  <1>1. EventsPaired /\ RequestsPaid /\ SavesPaid
    BY IdleType DEF Init, EventsPaired, RequestsPaid, Registering, SavesPaid, At
  <1>2. NothingForFree
    BY DEF Init, NothingForFree, IsPaid, NoRow, PaidStatus
  <1>3. QED
    BY <1>1, <1>2 DEF MoneyInv

LEMMA NextMoney == TypeOK /\ TypeOK' /\ MoneyInv /\ [Next]_vars => MoneyInv'
  <1> SUFFICES ASSUME TypeOK, TypeOK', MoneyInv, [Next]_vars PROVE MoneyInv'
    OBVIOUS
  <1> USE DEF Registering
  <1>0. \A t \in Thread :
        /\ thread[t] \in ThreadState /\ OrderAt(t) \in Order
        /\ RegAt(t) \in Reg /\ thread[t].copy \in Row
    BY PaymentsAssumption DEF TypeOK, ThreadState, OrderAt, RegAt
  <1>1. ASSUME NEW o \in Order, Gateway(o) PROVE MoneyInv'
    <2>1. UNCHANGED <<txn, paid, reports, enrolled, mails, thread>>
      BY <1>1 DEF Gateway, PaymentFails, PaymentAuthorized, PaymentCaptured
    <2>2. \A p \in Order : Money(p) => Money(p)'
      BY <1>1 DEF Gateway, PaymentFails, PaymentAuthorized, PaymentCaptured, Money, TypeOK
    <2>3. EventsPaired'
      <3>1. CASE PaymentFails(o)
        BY <3>1 DEF PaymentFails, MoneyInv, EventsPaired, Money, TypeOK
      <3>2. CASE PaymentAuthorized(o)
        BY <3>2 DEF PaymentAuthorized, MoneyInv, EventsPaired, Money, TypeOK
      <3>3. CASE PaymentCaptured(o)
        BY <3>3 DEF PaymentCaptured, MoneyInv, EventsPaired, Money, TypeOK
      <3>4. QED
        BY <1>1, <3>1, <3>2, <3>3 DEF Gateway
    <2>4. RequestsPaid'
      BY <1>0, <2>1, <2>2 DEF MoneyInv, RequestsPaid, OrderAt
    <2>5. \A r \in Reg : Backed(r) => Backed(r)'
      BY <2>2 DEF Backed
    <2>6. SavesPaid'
      BY <1>0, <2>1, <2>5 DEF MoneyInv, SavesPaid, At, RegAt, OrderAt
    <2>7. NothingForFree'
      BY <2>1, <2>2, <2>5 DEF MoneyInv, NothingForFree, IsPaid, Backed
    <2>8. QED
      BY <2>3, <2>4, <2>6, <2>7 DEF MoneyInv
  <1>2. ASSUME UNCHANGED <<txn, paid, reports, enrolled, mails, sent>>, NEW t \in Thread,
               \A u \in Thread \ {t} : thread'[u] = thread[u],
               \/ thread'[t].pc \in {"idle", "create"}
               \/ thread'[t].pc \notin {"first", "save"} /\ Money(thread'[t].order)
               \/ /\ thread'[t].pc \in {"first", "save"}
                  /\ thread'[t].seen = "paid" => Backed(RegOf[thread'[t].order])
        PROVE MoneyInv'
    <2>1. GivesBacked
      BY <1>2 DEF GivesBacked, IsPaid
    <2>2. QED
      BY <2>1, BackedKeeps
  <1>r. ASSUME NEW r \in Reg, r \in paid PROVE Backed(r)
    BY <1>r DEF MoneyInv, NothingForFree, Backed
  <1>3. ASSUME NEW t \in Thread, NEW o \in Order, Client(t, o) PROVE MoneyInv'
    <2>1. CASE CheckRegistered(t, o)
      <3>1. Begin(t, o, "create", NoRow, "create") \/ BeginHolding(t, o, "create", "unpaid", "first")
        BY <2>1 DEF CheckRegistered
      <3>2. /\ thread'[t].pc = "create" \/ (thread'[t].pc = "first" /\ thread'[t].seen = "unpaid")
            /\ \A u \in Thread \ {t} : thread'[u] = thread[u]
        BY <3>1, BeginGives, HoldingGives
      <3>3. QED
        BY <1>2, <2>1, <3>2 DEF CheckRegistered
    <2>1r. CASE ReadToSave(t, o)
      <3>1. /\ thread'[t].pc = "save" /\ thread'[t].order = o
            /\ thread'[t].seen = Reading(RegOf[o])
            /\ \A u \in Thread \ {t} : thread'[u] = thread[u]
        BY <2>1r, HoldingGives DEF ReadToSave
      <3>2. thread'[t].seen = "paid" => Backed(RegOf[o])
        BY <1>r, <3>1, PaymentsAssumption DEF Reading
      <3>3. QED
        BY <1>2, <2>1r, <3>1, <3>2 DEF ReadToSave
    <2>2. CASE VerifyLocked(t, o)
      <3>1. /\ thread'[t].pc = "read" /\ thread'[t].order = o
            /\ \A u \in Thread \ {t} : thread'[u] = thread[u]
        BY <2>2, BeginGives DEF VerifyLocked
      <3>2. QED
        BY <1>2, <2>2, <3>1 DEF VerifyLocked
    <2>3. CASE VerifyRead(t, o)
      BY <1>2, <2>3, BeginGives DEF VerifyRead
    <2>4. QED
      BY <1>3, <2>1, <2>1r, <2>2, <2>3 DEF Client
  <1>4. ASSUME NEW t \in Thread, NEW o \in Order, NEW e \in PaidEvent, Webhook(t, o, e)
        PROVE MoneyInv'
    <2>1. CASE WebhookSkip(o, e)
      <3>1. GivesBacked
        BY <2>1 DEF WebhookSkip, GivesBacked, IsPaid
      <3>2. QED
        BY <3>1, BackedKeeps
    <2>2. CASE WebhookRecheck(t, o, e) \/ WebhookBegin(t, o, e)
      <3>1. Money(o)
        BY <2>2 DEF WebhookRecheck, WebhookBegin, PaidEvent, MoneyInv, EventsPaired, Money
      <3>2. /\ thread'[t].pc \in {"read", "commit"} /\ thread'[t].order = o
            /\ \A u \in Thread \ {t} : thread'[u] = thread[u]
        BY <2>2, BeginGives DEF WebhookRecheck, WebhookBegin
      <3>3. QED
        BY <1>2, <2>2, <3>1, <3>2 DEF WebhookRecheck, WebhookBegin
    <2>3. QED
      BY <1>4, <2>1, <2>2 DEF Webhook
  <1>5. ASSUME NEW o \in Order, WebhookFailed(o) PROVE MoneyInv'
    <2>1. \A p \in Order : IsPaid(p)' => IsPaid(p)
      BY <1>5 DEF WebhookFailed, IsPaid, PaidStatus, TypeOK, Row
    <2>2. GivesBacked
      BY <1>5, <2>1 DEF WebhookFailed, GivesBacked
    <2>3. QED
      BY <2>2, BackedKeeps

  <1>6. ASSUME NEW t \in Thread, CreateTransaction(t) PROVE MoneyInv'
    <2> PICK o \in Order : o = OrderAt(t)
      BY <1>0
    <2>1. \A p \in Order : IsPaid(p)' => IsPaid(p)
      BY <1>6 DEF CreateTransaction, IsPaid, PaidStatus, TypeOK
    <2>2. \/ End(t)
          \/ Goto(t, "save") /\ thread[t].seen = "unpaid"
          \/ thread' = [thread EXCEPT ![t].pc = "save", ![t].seen = Reading(RegOf[o])]
      BY <1>6 DEF CreateTransaction
    <2>3. /\ \A u \in Thread \ {t} : thread'[u] = thread[u]
          /\ \/ thread'[t].pc = "idle"
             \/ /\ thread'[t].pc = "save" /\ thread'[t].order = o
                /\ thread'[t].seen \in {"unpaid", Reading(RegOf[o])}
      <3>1. CASE End(t)
        BY <3>1, EndGives
      <3>2. CASE Goto(t, "save") /\ thread[t].seen = "unpaid"
        BY <1>0, <3>2 DEF Goto, TypeOK, ThreadState, OrderAt
      <3>3. CASE thread' = [thread EXCEPT ![t].pc = "save", ![t].seen = Reading(RegOf[o])]
        BY <1>0, <3>3 DEF TypeOK, ThreadState, OrderAt
      <3>4. QED
        BY <2>2, <3>1, <3>2, <3>3
    <2>4. Reading(RegOf[o]) = "paid" => Backed(RegOf[o])
      BY <1>r, PaymentsAssumption DEF Reading
    <2>5. GivesBacked
      BY <1>6, <2>1, <2>3, <2>4 DEF CreateTransaction, GivesBacked
    <2>6. QED
      BY <2>5, BackedKeeps
  <1>7. ASSUME NEW t \in Thread, SaveRegistration(t) PROVE MoneyInv'
    <2>1. \A p \in Order : IsPaid(p)' <=> IsPaid(p)
      <3>1. Has(OrderAt(t), "student") \/ UNCHANGED txn
        BY <1>7 DEF SaveRegistration, OrderAt
      <3>2. QED
        BY <1>0, <3>1, HasType DEF IsPaid
    <2>2. \A r \in paid' : r \in paid \/ Backed(r)
      <3>1. CASE thread[t].seen = "paid"
        <4>1. thread[t].pc = "save" \/ thread[t].pc = "first"
          BY <1>7 DEF SaveRegistration, At
        <4>2. Backed(RegAt(t))
          BY <1>0, <3>1, <4>1 DEF MoneyInv, SavesPaid, At
        <4>3. QED
          BY <1>7, <3>1, <4>2 DEF SaveRegistration
      <3>2. CASE thread[t].seen # "paid"
        BY <1>7, <3>2 DEF SaveRegistration
      <3>3. QED
        BY <3>1, <3>2
    <2>3. /\ thread'[t].pc \in {"idle", "create"}
          /\ \A u \in Thread \ {t} : thread'[u] = thread[u]
      <3>1. End(t) \/ Goto(t, "create")
        BY <1>7 DEF SaveRegistration
      <3>2. QED
        BY <3>1, EndGives, GotoGives
    <2>4. GivesBacked
      BY <1>7, <2>1, <2>2, <2>3 DEF SaveRegistration, GivesBacked
    <2>5. QED
      BY <2>4, BackedKeeps
  <1>8. ASSUME NEW t \in Thread, thread[t].pc \notin Registering
        PROVE  Money(OrderAt(t)) /\ Backed(RegAt(t))
    BY <1>0, <1>8 DEF MoneyInv, RequestsPaid, Backed, RegAt
  \* every later step of a request: its order was paid for
  <1>9. ASSUME NEW t \in Thread, thread[t].pc \notin Registering,
               sent' = sent,
               \A o \in Order : o # OrderAt(t) =>
                 (IsPaid(o)' => IsPaid(o)) /\ (o \in reports' => o \in reports),
               \A r \in Reg : r # RegAt(t) =>
                 (r \in paid' \cup enrolled' \/ mails'[r] > 0 => r \in paid \cup enrolled \/ mails[r] > 0),
               \A u \in Thread \ {t} : thread'[u] = thread[u],
               \/ thread'[t].pc = "idle"
               \/ thread'[t].pc \notin {"first", "save"} /\ thread'[t].order = OrderAt(t)
        PROVE MoneyInv'
    <2>1. Money(OrderAt(t)) /\ Backed(RegAt(t))
      BY <1>8, <1>9
    <2>2. GivesBacked
      BY <1>9, <2>1 DEF GivesBacked
    <2>3. QED
      BY <2>2, BackedKeeps
  <1>10. ASSUME NEW t \in Thread, Fault(t) PROVE MoneyInv'
    <2>1. UNCHANGED <<txn, paid, reports, enrolled, mails, sent>>
      BY <1>10 DEF Fault, RegistrationRaises, DatabaseError, CacheError, Crash
    <2>2. CASE End(t)
      BY <1>2, <2>1, <2>2, EndGives
    <2>3. CASE ~End(t)
      <3>1. thread[t].pc \in {"read", "mail"}
        BY <1>10, <2>3 DEF Fault, RegistrationRaises, DatabaseError, CacheError, Crash, At
      <3>2. \/ thread' = [thread EXCEPT ![t].seen = "raised", ![t].pc = "commit"]
            \/ Goto(t, "commit")
        BY <1>10, <2>3 DEF Fault, RegistrationRaises, DatabaseError, CacheError, Crash
      <3>3. /\ thread'[t].pc = "commit" /\ thread'[t].order = OrderAt(t)
            /\ \A u \in Thread \ {t} : thread'[u] = thread[u]
        BY <1>0, <3>2, GotoGives DEF TypeOK, ThreadState, OrderAt
      <3>4. Money(OrderAt(t))
        BY <1>8, <3>1
      <3>5. QED
        BY <1>2, <2>1, <3>3, <3>4
    <2>4. QED
      BY <2>2, <2>3
  <1>11. ASSUME NEW t \in Thread, ReadRegistration(t) PROVE MoneyInv'
    <2>1. /\ thread[t].pc \in {"read", "lookup"}
          /\ UNCHANGED <<txn, paid, reports, enrolled, mails, sent>>
      BY <1>11 DEF ReadRegistration, At
    <2> DEFINE seen == Reading(RegAt(t))
               label == CASE thread[t].pc = "lookup" -> "grant"
                          [] Kind[thread[t].order] = "ebook" /\ RegAt(t) \notin paid -> "mail"
                          [] OTHER -> "commit"
    <2>2. thread' = [thread EXCEPT ![t].seen = seen, ![t].pc = label]
      BY <1>11, Zenon DEF ReadRegistration
    <2>3. label \notin {"first", "save"}
      OBVIOUS
    <2> HIDE DEF seen, label
    <2>4. /\ thread'[t].pc \notin {"first", "save"} /\ thread'[t].order = OrderAt(t)
          /\ \A u \in Thread \ {t} : thread'[u] = thread[u]
      BY <1>0, <2>2, <2>3 DEF TypeOK, ThreadState, OrderAt
    <2>5. Money(OrderAt(t))
      BY <1>8, <2>1
    <2>6. QED
      BY <1>2, <2>1, <2>4, <2>5
  <1>12. ASSUME NEW t \in Thread, SendMail(t) PROVE MoneyInv'
    <2>1. \A r \in Reg : r # RegAt(t) => mails'[r] = mails[r]
      BY <1>12 DEF SendMail, TypeOK
    <2>2. /\ thread'[t].pc = "commit" /\ thread'[t].order = OrderAt(t)
          /\ \A u \in Thread \ {t} : thread'[u] = thread[u]
      BY <1>12, GotoGives DEF SendMail
    <2>3. UNCHANGED <<txn, paid, reports, enrolled, sent>> /\ thread[t].pc = "mail"
      BY <1>12 DEF SendMail, At
    <2>4. QED
      BY <1>9, <2>1, <2>2, <2>3 DEF IsPaid
  <1>13. ASSUME NEW t \in Thread, Commit(t) PROVE MoneyInv'
    <2>1. /\ thread'[t].pc = "idle" /\ \A u \in Thread \ {t} : thread'[u] = thread[u]
      BY <1>13, EndGives DEF Commit
    <2>2. UNCHANGED <<mails, sent>> /\ thread[t].pc = "commit"
      BY <1>13 DEF Commit, At
    <2>3. \A o \in Order : o # OrderAt(t) => txn'[o] = txn[o]
      BY <1>0, <1>13 DEF Commit, TypeOK, OrderAt
    <2>4. \A o \in Order : o # OrderAt(t) => (o \in reports' => o \in reports)
      BY <1>13 DEF Commit, Register, SignalReports, OrderAt
    <2>5. \A r \in Reg : r # RegAt(t) => (r \in paid' \cup enrolled' => r \in paid \cup enrolled)
      BY <1>13 DEF Commit, Register, Pays
    <2>6. QED
      BY <1>9, <2>1, <2>2, <2>3, <2>4, <2>5 DEF IsPaid
  <1>14. ASSUME NEW t \in Thread, VerifySave(t) PROVE MoneyInv'
    <2>1. /\ thread'[t].pc = "invoice" /\ thread'[t].order = OrderAt(t)
          /\ \A u \in Thread \ {t} : thread'[u] = thread[u]
      BY <1>14, GotoGives DEF VerifySave
    <2>2. \A o \in Order : o # OrderAt(t) => txn'[o] = txn[o]
      BY <1>14 DEF VerifySave, TypeOK, OrderAt
    <2>3. UNCHANGED <<paid, reports, enrolled, mails, sent>> /\ thread[t].pc = "stale"
      BY <1>14 DEF VerifySave, At
    <2>4. QED
      BY <1>9, <2>1, <2>2, <2>3 DEF IsPaid
  <1>15. ASSUME NEW t \in Thread, SignalInvoice(t) \/ InvoiceAgain(t) PROVE MoneyInv'
    <2>1. /\ thread'[t].pc = "idle" \/ (thread'[t].pc \notin {"first", "save"} /\ thread'[t].order = OrderAt(t))
          /\ \A u \in Thread \ {t} : thread'[u] = thread[u]
      <3>1. Goto(t, "again") \/ Goto(t, "link") \/ End(t)
        BY <1>15 DEF SignalInvoice, InvoiceAgain, AfterInvoice
      <3>2. QED
        BY <3>1, GotoGives, EndGives
    <2>2. \A o \in Order : IsPaid(o)' <=> IsPaid(o)
      <3>1. Has(OrderAt(t), "invoice") \/ UNCHANGED txn
        BY <1>15 DEF SignalInvoice, InvoiceAgain
      <3>2. QED
        BY <1>0, <3>1, HasType DEF IsPaid
    <2>3. /\ UNCHANGED <<paid, reports, enrolled, mails, sent>>
          /\ thread[t].pc \in {"invoice", "again"}
      BY <1>15 DEF SignalInvoice, InvoiceAgain, At
    <2>4. QED
      BY <1>9, <2>1, <2>2, <2>3
  <1>16. ASSUME NEW t \in Thread, SignalLink(t) PROVE MoneyInv'
    <2>1. /\ thread'[t].pc = "lookup" /\ thread'[t].order = OrderAt(t)
          /\ \A u \in Thread \ {t} : thread'[u] = thread[u]
      BY <1>16, GotoGives DEF SignalLink
    <2>2. \A o \in Order : IsPaid(o)' <=> IsPaid(o)
      BY <1>0, <1>16, HasType DEF SignalLink, IsPaid
    <2>3. /\ UNCHANGED <<paid, enrolled, mails, sent>> /\ thread[t].pc = "link"
          /\ reports' = reports \cup {OrderAt(t)}
      BY <1>16 DEF SignalLink, At
    <2>4. QED
      BY <1>9, <2>1, <2>2, <2>3
  <1>17. ASSUME NEW t \in Thread, Grant(t) PROVE MoneyInv'
    <2>1. /\ thread'[t].pc = "idle" /\ \A u \in Thread \ {t} : thread'[u] = thread[u]
      BY <1>17, EndGives DEF Grant
    <2>2. UNCHANGED <<mails, sent>> /\ thread[t].pc = "grant"
      BY <1>17 DEF Grant, At
    <2>3. \A o \in Order : o # OrderAt(t) => txn'[o] = txn[o]
      BY <1>17 DEF Grant, TypeOK
    <2>4. QED
      BY <1>9, <1>17, <2>1, <2>2, <2>3 DEF Grant, Register, Pays, IsPaid
  <1>18. CASE UNCHANGED vars
    <2>1. GivesBacked
      BY <1>18 DEF vars, GivesBacked, IsPaid
    <2>2. QED
      BY <2>1, BackedKeeps
  <1>19. QED
    BY <1>1, <1>3, <1>4, <1>5, <1>6, <1>7, <1>10, <1>11, <1>12, <1>13, <1>14, <1>15, <1>16,
       <1>17, <1>18 DEF Next, Progress

\* Whatever order webhooks, verify calls and registrations overlap in, and
\* whatever fails: no order is paid or reported and no registration is paid,
\* enrolled or confirmed unless the gateway authorized a payment for it.
THEOREM GivenIsPaidFor == Spec => []NothingForFree
  <1>1. Init => TypeOK /\ MoneyInv
    BY InitType, InitMoney
  <1>2. TypeOK /\ MoneyInv /\ [Next]_vars => TypeOK' /\ MoneyInv'
    BY NextType, NextMoney
  <1>3. MoneyInv => NothingForFree
    BY DEF MoneyInv
  <1>4. QED
    BY <1>1, <1>2, <1>3, PTL DEF Spec

-----------------------------------------------------------------------------
(* An ebook that is done is reported                                        *)

\* the path that saves a stale copy is not the one of ebooks
StaleIsNoEbook == \A t \in Thread : At(t, "stale") => Kind[OrderAt(t)] # "ebook"

ReportInv == StaleIsNoEbook /\ DoneIsReported

LEMMA StaleOnlyByRead ==
  ASSUME TypeOK, StaleIsNoEbook, [Next]_vars PROVE StaleIsNoEbook'
  <1>1. ASSUME \A u \in Thread : thread'[u].pc # "stale" \/ thread'[u] = thread[u]
        PROVE StaleIsNoEbook'
    BY <1>1 DEF StaleIsNoEbook, At, OrderAt
  <1>2. ASSUME NEW t \in Thread, End(t) PROVE StaleIsNoEbook'
    BY <1>1, <1>2, EndGives
  <1>3. ASSUME NEW t \in Thread, NEW label, label # "stale", Goto(t, label)
        PROVE StaleIsNoEbook'
    BY <1>1, <1>3, GotoGives
  <1>4. ASSUME NEW t \in Thread, NEW o, NEW call, NEW copy, NEW label,
               label # "stale" \/ Kind[o] # "ebook", Begin(t, o, call, copy, label)
        PROVE StaleIsNoEbook'
    <2>1. /\ thread'[t].pc = label /\ thread'[t].order = o
          /\ \A u \in Thread \ {t} : thread'[u] = thread[u]
      BY <1>4, BeginGives
    <2>2. QED
      BY <1>4, <2>1 DEF StaleIsNoEbook, At, OrderAt
  <1>5. ASSUME NEW t \in Thread, NEW seen, NEW label, label # "stale",
               thread' = [thread EXCEPT ![t].seen = seen, ![t].pc = label]
        PROVE StaleIsNoEbook'
    BY <1>1, <1>5 DEF TypeOK, ThreadState
  <1>6. ASSUME NEW t \in Thread, Progress(t) PROVE StaleIsNoEbook'
    <2>1. CASE CreateTransaction(t)
      <3> DEFINE seen == Reading(RegOf[OrderAt(t)])
      <3>1. End(t) \/ Goto(t, "save") \/ thread' = [thread EXCEPT ![t].pc = "save", ![t].seen = seen]
        BY <2>1 DEF CreateTransaction
      <3> HIDE DEF seen
      <3>2. CASE thread' = [thread EXCEPT ![t].pc = "save", ![t].seen = seen]
        BY <1>1, <3>2 DEF TypeOK, ThreadState
      <3>3. QED
        BY <1>2, <1>3, <3>1, <3>2
    <2>2. CASE ReadRegistration(t)
      <3> DEFINE seen == Reading(RegAt(t))
                 label == CASE thread[t].pc = "lookup" -> "grant"
                            [] Kind[thread[t].order] = "ebook" /\ RegAt(t) \notin paid -> "mail"
                            [] OTHER -> "commit"
      <3>1. thread' = [thread EXCEPT ![t].seen = seen, ![t].pc = label]
        BY <2>2, Zenon DEF ReadRegistration
      <3>2. label # "stale"
        OBVIOUS
      <3> HIDE DEF seen, label
      <3>3. QED
        BY <1>5, <3>1, <3>2
    <2>3. CASE \/ SaveRegistration(t) \/ SendMail(t) \/ Commit(t) \/ VerifySave(t)
               \/ SignalInvoice(t) \/ SignalLink(t) \/ InvoiceAgain(t) \/ Grant(t)
      BY <1>2, <1>3, <2>3
      DEF SaveRegistration, SendMail, Commit, VerifySave, SignalInvoice, AfterInvoice,
          SignalLink, InvoiceAgain, Grant
    <2>4. QED
      BY <1>6, <2>1, <2>2, <2>3 DEF Progress
  <1>7. ASSUME NEW t \in Thread, Fault(t) PROVE StaleIsNoEbook'
    BY <1>2, <1>3, <1>5, <1>7 DEF Fault, RegistrationRaises, DatabaseError, CacheError, Crash
  <1>8. ASSUME NEW t \in Thread, NEW o \in Order, Client(t, o) PROVE StaleIsNoEbook'
    <2>1. ASSUME NEW call, NEW seen, NEW label, label # "stale",
                 BeginHolding(t, o, call, seen, label)
          PROVE StaleIsNoEbook'
      <3>1. thread'[t].pc = label /\ \A u \in Thread \ {t} : thread'[u] = thread[u]
        BY <2>1, HoldingGives
      <3>2. QED
        BY <1>1, <2>1, <3>1
    <2>2. CASE CheckRegistered(t, o) \/ ReadToSave(t, o)
      BY <1>4, <2>1, <2>2 DEF CheckRegistered, ReadToSave
    <2>3. CASE VerifyLocked(t, o) \/ VerifyRead(t, o)
      BY <1>4, <2>3 DEF VerifyLocked, VerifyRead
    <2>4. QED
      BY <1>8, <2>2, <2>3 DEF Client
  <1>9. ASSUME NEW t \in Thread, NEW o \in Order, NEW e \in PaidEvent, Webhook(t, o, e)
        PROVE StaleIsNoEbook'
    <2>1. CASE WebhookSkip(o, e)
      BY <1>1, <2>1 DEF WebhookSkip
    <2>2. CASE WebhookRecheck(t, o, e) \/ WebhookBegin(t, o, e)
      BY <1>4, <2>2 DEF WebhookRecheck, WebhookBegin
    <2>3. QED
      BY <1>9, <2>1, <2>2 DEF Webhook
  <1>10. ASSUME UNCHANGED thread PROVE StaleIsNoEbook'
    BY <1>1, <1>10
  <1>11. QED
    BY <1>6, <1>7, <1>8, <1>9, <1>10
    DEF Next, Gateway, PaymentFails, PaymentAuthorized, PaymentCaptured, WebhookFailed, vars

LEMMA NextReport ==
  ASSUME TypeOK, ReportInv, [Next]_vars PROVE DoneIsReported'
  <1>0. \A t \in Thread : thread[t].order \in Order /\ OrderAt(t) = thread[t].order
    BY DEF TypeOK, ThreadState, OrderAt
  <1>1. ASSUME reports \subseteq reports',
               \A o \in Order : \/ Kind[o] # "ebook" \/ o \in reports'
                                \/ txn'[o].status = "done" => txn[o].status = "done"
        PROVE DoneIsReported'
    BY <1>1 DEF ReportInv, DoneIsReported
  <1>2. ASSUME UNCHANGED <<txn, reports>> PROVE DoneIsReported'
    BY <1>1, <1>2
  <1>3. ASSUME NEW o \in Order, NEW thing \in {"student", "invoice"}, Has(o, thing),
               reports \subseteq reports'
        PROVE DoneIsReported'
    BY <1>1, <1>3, HasType
  <1>4. ASSUME NEW t \in Thread, CreateTransaction(t) PROVE DoneIsReported'
    <2>1. \A o \in Order : txn'[o].status = "done" => txn[o].status = "done"
      BY <1>4 DEF CreateTransaction, TypeOK
    <2>2. QED
      BY <1>1, <1>4, <2>1 DEF CreateTransaction
  <1>5. ASSUME NEW o \in Order, WebhookFailed(o) PROVE DoneIsReported'
    <2>1. \A p \in Order : txn'[p].status = "done" => txn[p].status = "done"
      BY <1>5 DEF WebhookFailed, TypeOK, Row
    <2>2. QED
      BY <1>1, <1>5, <2>1 DEF WebhookFailed
  <1>6. ASSUME NEW t \in Thread, Commit(t) PROVE DoneIsReported'
    <2> PICK o \in Order : o = OrderAt(t) /\ o = thread[t].order
      BY <1>0
    <2>1. \A p \in Order : p # o => txn'[p] = txn[p]
      BY <1>6 DEF Commit, TypeOK
    <2>2. reports \subseteq reports'
      BY <1>6 DEF Commit, Register, SignalReports
    <2>3. Kind[o] = "ebook" /\ txn'[o].status = "done" => txn[o].status = "done" \/ o \in reports'
      <3>1. Kind[o] = "ebook" => txn' = [txn EXCEPT ![o] = thread[t].copy] /\ reports' = SignalReports(t)
        BY <1>6 DEF Commit
      <3>2. QED
        BY <3>1 DEF SignalReports, TypeOK
    <2>4. QED
      BY <1>1, <2>1, <2>2, <2>3
  <1>7. ASSUME NEW t \in Thread, VerifySave(t) PROVE DoneIsReported'
    <2> PICK o \in Order : o = OrderAt(t) /\ o = thread[t].order
      BY <1>0
    <2>1. Kind[o] # "ebook" /\ \A p \in Order : p # o => txn'[p] = txn[p]
      BY <1>7 DEF VerifySave, TypeOK, ReportInv, StaleIsNoEbook
    <2>2. QED
      BY <1>1, <1>7, <2>1 DEF VerifySave
  <1>8. ASSUME NEW t \in Thread, Grant(t) PROVE DoneIsReported'
    <2> PICK o \in Order : o = OrderAt(t)
      BY <1>0
    <2>1. reports' = reports \cup {o} /\ \A p \in Order : p # o => txn'[p] = txn[p]
      BY <1>8 DEF Grant, Register, TypeOK
    <2>2. QED
      BY <1>1, <2>1
  <1>9. ASSUME NEW t \in Thread, SaveRegistration(t) \/ SignalInvoice(t) \/ InvoiceAgain(t) \/ SignalLink(t)
        PROVE DoneIsReported'
    <2> PICK o \in Order : o = OrderAt(t) /\ o = thread[t].order
      BY <1>0
    <2>1. Has(o, "student") \/ Has(o, "invoice") \/ UNCHANGED <<txn, reports>>
      BY <1>9 DEF SaveRegistration, SignalInvoice, InvoiceAgain, SignalLink
    <2>2. reports \subseteq reports'
      BY <1>9 DEF SaveRegistration, SignalInvoice, InvoiceAgain, SignalLink
    <2>3. QED
      BY <1>2, <1>3, <2>1, <2>2
  <1>10. QED
    BY <1>2, <1>4, <1>5, <1>6, <1>7, <1>8, <1>9
    DEF Next, Progress, Fault, Client, Webhook, vars, ReadRegistration, SendMail,
        RegistrationRaises, DatabaseError, CacheError, Crash, CheckRegistered, ReadToSave,
        VerifyLocked, VerifyRead, WebhookSkip, WebhookRecheck, WebhookBegin, Gateway,
        PaymentFails, PaymentAuthorized, PaymentCaptured

\* An ebook order that shows "done" is in the payment reports, whichever of the
\* webhook and the verify endpoint marked it and whatever failed in between.
THEOREM DoneEbooksAreReported == Spec => []DoneIsReported
  <1>1. Init => TypeOK /\ ReportInv
    BY InitType, IdleType DEF Init, NoRow, ReportInv, StaleIsNoEbook, DoneIsReported, At
  <1>2. TypeOK /\ ReportInv /\ [Next]_vars => TypeOK' /\ ReportInv'
    BY NextType, StaleOnlyByRead, NextReport DEF ReportInv
  <1>3. ReportInv => DoneIsReported
    BY DEF ReportInv
  <1>4. QED
    BY <1>1, <1>2, <1>3, PTL DEF Spec

-----------------------------------------------------------------------------
(* Access is kept, and what is paid is fulfilled.  Both rest on what a      *)
(* request is doing, and on the creation of an order being alone with it.   *)

\* who was enrolled has access
Seats == enrolled \subseteq Access

\* what a request is doing fits its order and what it holds
Fits(r) ==
    /\ r.call = "create" => r.pc \in {"first", "create", "save"}
    /\ r.call = "resave" => r.pc = "save"
    /\ r.pc \in {"first", "create"} => r.call = "create"
    /\ r.pc = "save" => r.call \in {"create", "resave"}
    /\ r.pc \in {"read", "mail", "commit"} => r.copy.status \in PaidStatus
    /\ r.pc \in {"stale", "invoice"} => Kind[r.order] # "ebook"
    /\ r.pc \in {"first", "save"} => Kind[r.order] # "plain" /\ r.seen \in {"paid", "unpaid"}
    /\ r.pc = "first" => r.seen = "unpaid" /\ Kind[r.order] = "ebook"
    /\ r.pc = "create" => r.seen = "unread" \/ (Kind[r.order] = "ebook" /\ r.seen = "unpaid")
    /\ r.pc \in {"link", "lookup", "grant"} => Kind[r.order] = "webinar"
    /\ r.pc = "mail" => Kind[r.order] = "ebook"
    /\ r.pc \in {"commit", "grant"} /\ Kind[r.order] = "webinar" => r.seen # "unread"
    /\ r.pc = "grant" => r.seen # "raised"

\* while an order is created nobody else works on it, and nobody has paid for it
Created(t) == thread[t].call = "create" =>
    /\ sent[OrderAt(t)] = {}
    /\ \A u \in Thread \ {t} : OrderAt(u) = OrderAt(t) => At(u, "idle")
    /\ txn[OrderAt(t)].status = (IF At(t, "save") THEN "pending" ELSE "none")

\* what a request has read of its registration: paid means access, and unpaid,
\* to be saved later, that a payment since was noted
Copied(t) ==
    /\ thread[t].seen = "paid" => RegAt(t) \in Access
    /\ HoldsUnpaid(t, RegAt(t)) /\ RegAt(t) \in paid => RegAt(t) \in overtaken

NoneUnsent == \A o \in Order : txn[o].status = "none" => sent[o] = {}

BookInv == /\ \A t \in Thread : Fits(thread[t]) /\ Created(t) /\ Copied(t)
           /\ NoneUnsent /\ Seats

\* the row of t after a step, the rows of the others being unchanged
Moved(t, pc, order, call, copy, seen) ==
    /\ thread'[t].pc = pc /\ thread'[t].order = order /\ thread'[t].call = call
    /\ thread'[t].copy = copy /\ thread'[t].seen = seen
    /\ \A u \in Thread \ {t} : thread'[u] = thread[u]

\* what a step about o does to registrations: it sets is_paid for an order that is
\* paid, noting who will save the registration as unpaid; it enrols who has access;
\* or it saves is_paid as it was read
SetsPaid(r) ==
    /\ paid' = paid \cup {r} /\ overtaken \subseteq overtaken'
    /\ overtaken' \subseteq overtaken \cup {r}
    /\ \A u \in Thread : HoldsUnpaid(u, r) => r \in overtaken'

Saves(r) ==
    /\ UNCHANGED <<overtaken, enrolled>>
    /\ \/ r \in Access /\ paid' = paid \cup {r}
       \/ (r \in paid => r \in overtaken) /\ paid' = paid \ {r}

Gives(o) ==
    \/ UNCHANGED <<paid, overtaken, enrolled>>
    \/ /\ Kind[o] # "plain" /\ txn'[o].status \in PaidStatus /\ SetsPaid(RegOf[o])
       /\ enrolled' \in {enrolled, enrolled \cup {RegOf[o]}}
    \/ /\ Kind[o] # "plain" /\ txn'[o].status \in PaidStatus /\ RegOf[o] \in Access
       /\ enrolled' = enrolled \cup {RegOf[o]} /\ UNCHANGED <<paid, overtaken>>
    \/ Saves(RegOf[o])

\* a step of t about o: it touches no other order and no other registration
Works(t, o) ==
    /\ sent' = sent
    /\ thread[t].pc = "idle" \/ thread[t].order = o
    /\ thread'[t].pc = "idle" \/ thread'[t].order = o
    /\ \A u \in Thread \ {t} : thread'[u] = thread[u]
    /\ \A p \in Order \ {o} : txn'[p] = txn[p]
    /\ txn'[o].status = "none" => txn[o].status = "none"
    /\ txn[o].status = "none" => txn'[o].status \notin PaidStatus
    /\ IsPaid(o) => txn'[o].status \in PaidStatus
    /\ Gives(o)

LEMMA EndMoves ==
  ASSUME TypeOK, NEW t \in Thread, End(t)
  PROVE  /\ Moved(t, "idle", Idle.order, "none", NoRow, "unread")
         /\ Fits(thread'[t])
  <1>1. /\ thread'[t] = Idle /\ \A u \in Thread \ {t} : thread'[u] = thread[u]
    BY DEF End, TypeOK
  <1>2. /\ Idle.pc = "idle" /\ Idle.call = "none" /\ Idle.copy = NoRow /\ Idle.seen = "unread"
    BY DEF Idle
  <1>3. QED
    BY <1>1, <1>2 DEF Moved, Fits

LEMMA GotoMoves ==
  ASSUME TypeOK, NEW t \in Thread, NEW label, Goto(t, label)
  PROVE  Moved(t, label, thread[t].order, thread[t].call, thread[t].copy, thread[t].seen)
  BY DEF Goto, TypeOK, ThreadState, Moved

LEMMA BeginMoves ==
  ASSUME TypeOK, NEW t \in Thread, NEW o, NEW call, NEW copy, NEW label,
         Begin(t, o, call, copy, label)
  PROVE  Moved(t, label, o, call, copy, "unread")
  <1>1. Idle.seen = "unread"
    BY DEF Idle
  <1>2. QED
    BY <1>1, IdleType DEF Begin, TypeOK, ThreadState, Moved

LEMMA SeenMoves ==
  ASSUME TypeOK, NEW t \in Thread, NEW seen, NEW label,
         \/ thread' = [thread EXCEPT ![t].seen = seen, ![t].pc = label]
         \/ thread' = [thread EXCEPT ![t].pc = label, ![t].seen = seen]
  PROVE  Moved(t, label, thread[t].order, thread[t].call, thread[t].copy, seen)
  BY DEF TypeOK, ThreadState, Moved

LEMMA HoldingMoves ==
  ASSUME TypeOK, NEW t \in Thread, NEW o, NEW call, NEW seen, NEW label,
         BeginHolding(t, o, call, seen, label)
  PROVE  Moved(t, label, o, call, NoRow, seen)
  <1>1. Idle.copy = NoRow
    BY DEF Idle
  <1>2. QED
    BY <1>1, IdleType DEF BeginHolding, TypeOK, ThreadState, Moved

\* access and seats after a step about o
LEMMA AccessAfter ==
  ASSUME Seats, NEW o \in Order, Gives(o)
  PROVE  /\ Seats'
         /\ \/ Access' = Access
            \/ Access' = Access \cup {RegOf[o]} /\ Kind[o] # "plain" /\ txn'[o].status \in PaidStatus
  <1> DEFINE r == RegOf[o]
  <1>1. CASE UNCHANGED <<paid, overtaken, enrolled>>
    BY <1>1 DEF Seats, Access
  <1>2. CASE /\ Kind[o] # "plain" /\ txn'[o].status \in PaidStatus
             /\ SetsPaid(r) /\ enrolled' \in {enrolled, enrolled \cup {r}}
    <2>1. Access' = Access \cup {r}
      BY <1>2 DEF SetsPaid, Access
    <2>2. Seats'
      BY <1>2, <2>1 DEF Seats
    <2>3. QED
      BY <1>2, <2>1, <2>2
  <1>3. CASE r \in Access /\ enrolled' = enrolled \cup {r} /\ UNCHANGED <<paid, overtaken>>
    BY <1>3 DEF Seats, Access
  <1>4. CASE Saves(r)
    BY <1>4 DEF Saves, Seats, Access
  <1>5. QED
    BY <1>1, <1>2, <1>3, <1>4 DEF Gives

\* a registration that becomes paid was noted for whoever will save it unpaid
LEMMA NotedAfter ==
  ASSUME NEW o \in Order, Gives(o), NEW u \in Thread, NEW q, HoldsUnpaid(u, q), q \in paid',
         q \in paid => q \in overtaken
  PROVE  q \in overtaken'
  <1>1. CASE UNCHANGED <<paid, overtaken, enrolled>>
    BY <1>1
  <1>2. CASE SetsPaid(RegOf[o])
    BY <1>2 DEF SetsPaid
  <1>3. CASE UNCHANGED <<paid, overtaken>>
    BY <1>3
  <1>4. CASE Saves(RegOf[o])
    BY <1>4 DEF Saves, Access
  <1>5. QED
    BY <1>1, <1>2, <1>3, <1>4 DEF Gives

\* what the other conjuncts of BookInv say once a step of t works on o alone
LEMMA WorkKeeps ==
  ASSUME TypeOK, TypeOK', BookInv, NEW t \in Thread, NEW o \in Order, Works(t, o),
         Fits(thread'[t]), Copied(t)',
         \A u \in Thread \ {t} : thread[u].call = "create" => thread[u].order # o,
         thread'[t].call = "create" => Created(t)'
  PROVE  BookInv'
  <1>0. /\ \A u \in Thread : thread[u].order \in Order
        /\ Gives(o) /\ Seats' /\ Access \subseteq Access'
    <2>1. Gives(o) /\ Seats
      BY DEF Works, BookInv
    <2>2. QED
      BY <2>1, AccessAfter DEF TypeOK, ThreadState
  <1>1. ASSUME NEW u \in Thread \ {t}, thread[u].call = "create" PROVE Created(u)'
    <2> PICK p \in Order : p = thread[u].order
      BY <1>0
    <2>1. p # o /\ p \in Order /\ thread'[u] = thread[u] /\ txn'[p] = txn[p] /\ sent' = sent
      BY <1>0, <1>1 DEF Works
    <2>2. \A v \in Thread \ {u} : thread'[v].order = p => thread'[v].pc = "idle"
      <3>1. ASSUME NEW v \in Thread \ {u}, thread'[v].order = p PROVE thread'[v].pc = "idle"
        <4>1. CASE v = t
          BY <2>1, <3>1, <4>1 DEF Works
        <4>2. CASE v # t
          BY <1>1, <3>1, <4>2 DEF Works, BookInv, Created, At, OrderAt
        <4>3. QED
          BY <4>1, <4>2
      <3>2. QED
        BY <3>1
    <2>3. thread'[u].order = p /\ p = thread[u].order
      BY <2>1
    <2>4. /\ sent[p] = {} /\ txn[p].status = IF thread[u].pc = "save" THEN "pending" ELSE "none"
      BY <1>1, <2>3 DEF BookInv, Created, At, OrderAt
    <2>5. QED
      BY <1>1, <2>1, <2>2, <2>3, <2>4 DEF Created, At, OrderAt
  <1>2. \A u \in Thread : Created(u)'
    <2>1. \A u \in Thread \ {t} : thread[u].call # "create" => Created(u)'
      BY DEF Works, Created
    <2>2. thread'[t].call # "create" => Created(t)'
      BY DEF Created
    <2>3. QED
      BY <1>1, <2>1, <2>2
  <1>3. \A u \in Thread : Fits(thread[u])'
    <2>1. \A u \in Thread : Fits(thread'[u])
      BY DEF BookInv, Works
    <2>2. QED
      BY <2>1 DEF Fits
  <1>4. \A u \in Thread : Copied(u)'
    <2>1. ASSUME NEW u \in Thread \ {t} PROVE Copied(u)'
      <3> PICK q : q = RegAt(u)
        OBVIOUS
      <3>1. thread'[u] = thread[u] /\ q = RegAt(u)' /\ q = RegAt(u)
        BY DEF Works, RegAt, OrderAt
      <3>2. Copied(u) /\ (HoldsUnpaid(u, q)' <=> HoldsUnpaid(u, q))
        BY <3>1 DEF BookInv, HoldsUnpaid
      <3>3. thread'[u].seen = "paid" => q \in Access'
        BY <1>0, <3>1, <3>2 DEF Copied
      <3>4. HoldsUnpaid(u, q)' /\ q \in paid' => q \in overtaken'
        BY <1>0, <3>1, <3>2, NotedAfter DEF Copied
      <3>5. QED
        BY <3>1, <3>3, <3>4 DEF Copied
    <2>2. QED
      BY <2>1
  <1>5. NoneUnsent'
    BY DEF BookInv, NoneUnsent, Works
  <1>6. QED
    BY <1>0, <1>2, <1>3, <1>4, <1>5 DEF BookInv

\* a request that has nothing to save holds no reading that matters
LEMMA CopiedIs ==
  ASSUME NEW t \in Thread, NEW r, RegAt(t)' = r,
         thread'[t].seen = "paid" => r \in Access',
         thread'[t].pc \in {"first", "create", "save"} /\ thread'[t].seen = "unpaid" => r \notin paid'
  PROVE  Copied(t)'
  BY DEF Copied, HoldsUnpaid

LEMMA Alone ==
  ASSUME BookInv, NEW t \in Thread, thread[t].pc # "idle"
  PROVE  \A u \in Thread \ {t} : thread[u].call = "create" => thread[u].order # thread[t].order
  BY DEF BookInv, Created, At, OrderAt

LEMMA NobodyCreates ==
  ASSUME BookInv, NEW o \in Order, Money(o) \/ sent[o] # {}
  PROVE  /\ txn[o].status # "none"
         /\ \A u \in Thread : thread[u].call = "create" => thread[u].order # o
  BY DEF BookInv, Created, NoneUnsent, Money, OrderAt

LEMMA HasWorks ==
  ASSUME TypeOK, NEW o \in Order, NEW thing \in {"student", "invoice"},
         Has(o, thing) \/ UNCHANGED txn
  PROVE  /\ \A p \in Order \ {o} : txn'[p] = txn[p]
         /\ txn'[o].status = txn[o].status
  <1>1. CASE Has(o, thing)
    <2>1. \A p \in Order : txn'[p].status = txn[p].status
      BY <1>1, HasType
    <2>2. \A p \in Order \ {o} : txn'[p] = txn[p]
      BY <1>1 DEF Has, TypeOK
    <2>3. QED
      BY <2>1, <2>2
  <1>2. CASE UNCHANGED txn
    BY <1>2
  <1>3. QED
    BY <1>1, <1>2

\* creating an order
LEMMA CheckBook ==
  ASSUME TypeOK, TypeOK', BookInv, NEW t \in Thread, NEW o \in Order,
         CheckRegistered(t, o)
  PROVE  /\ Works(t, o) /\ BookInv'
         /\ \E label \in {"first", "create"}, seen \in {"unread", "unpaid"} :
              Moved(t, label, o, "create", NoRow, seen)
  <1>1. \/ Moved(t, "create", o, "create", NoRow, "unread")
        \/ /\ Moved(t, "first", o, "create", NoRow, "unpaid")
           /\ Kind[o] = "ebook" /\ RegOf[o] \notin paid
    BY BeginMoves, HoldingMoves DEF CheckRegistered
  <1>2. /\ thread[t].pc = "idle" /\ txn[o].status = "none"
        /\ \A u \in Thread : thread[u].order = o => thread[u].pc = "idle"
        /\ UNCHANGED <<txn, paid, overtaken, enrolled, sent>>
    BY DEF CheckRegistered, At, OrderAt
  <1>3. Works(t, o)
    BY <1>1, <1>2 DEF Works, Gives, Moved, IsPaid, PaidStatus
  <1>4. Created(t)'
    BY <1>1, <1>2 DEF Moved, Created, BookInv, NoneUnsent, At, OrderAt
  <1>5. Fits(thread'[t])
    BY <1>1 DEF Moved, Fits
  <1>6. \A u \in Thread \ {t} : thread[u].call = "create" => thread[u].order # o
    BY <1>2 DEF BookInv, Fits
  <1>7. Copied(t)'
    BY <1>1, <1>2 DEF Moved, Copied, HoldsUnpaid, RegAt, OrderAt
  <1>8. QED
    BY <1>1, <1>3, <1>4, <1>5, <1>6, <1>7, WorkKeeps

LEMMA ResaveBook ==
  ASSUME TypeOK, TypeOK', BookInv, NEW t \in Thread, NEW o \in Order, ReadToSave(t, o)
  PROVE  /\ Works(t, o) /\ BookInv'
         /\ \E seen \in {"paid", "unpaid"} : Moved(t, "save", o, "resave", NoRow, seen)
  <1> DEFINE seen == Reading(RegOf[o])
  <1>1. /\ thread[t].pc = "idle" /\ Kind[o] # "plain" /\ txn[o].status # "none"
        /\ \A u \in Thread : thread[u].order = o => thread[u].call # "create"
        /\ UNCHANGED <<txn, paid, overtaken, enrolled, sent>>
    BY DEF ReadToSave, At, Known, OrderAt
  <1>2. /\ seen \in {"paid", "unpaid"} /\ (seen = "paid" => RegOf[o] \in paid)
        /\ seen = "unpaid" => RegOf[o] \notin paid
    BY DEF Reading
  <1>3. Moved(t, "save", o, "resave", NoRow, seen)
    BY HoldingMoves DEF ReadToSave
  <1> HIDE DEF seen
  <1>4. Works(t, o)
    BY <1>1, <1>3 DEF Works, Gives, Moved, IsPaid
  <1>5. Fits(thread'[t]) /\ thread'[t].call # "create"
    BY <1>1, <1>2, <1>3 DEF Moved, Fits
  <1>6. Copied(t)'
    BY <1>1, <1>2, <1>3 DEF Moved, Copied, HoldsUnpaid, RegAt, OrderAt, Access
  <1>7. QED
    BY <1>1, <1>2, <1>3, <1>4, <1>5, <1>6, WorkKeeps

LEMMA CreateBook ==
  ASSUME TypeOK, TypeOK', BookInv, NEW t \in Thread, CreateTransaction(t)
  PROVE  /\ Works(t, OrderAt(t)) /\ BookInv'
         /\ thread[t].pc = "create" /\ thread'[t].pc \in {"idle", "save"}
         /\ txn[OrderAt(t)].status = "none" /\ txn'[OrderAt(t)].status \notin PaidStatus
         /\ txn'[OrderAt(t)].status # "none"
         /\ thread'[t].seen # "raised"
         /\ Kind[OrderAt(t)] = "plain" => "student" \in txn'[OrderAt(t)].has
  <1> PICK o \in Order : o = thread[t].order
    BY DEF TypeOK, ThreadState
  <1> DEFINE new == [status |-> "pending", has |-> IF Kind[o] = "plain" THEN {"student"} ELSE {}]
             seen == IF Kind[o] = "webinar" THEN Reading(RegOf[o]) ELSE "unpaid"
  <1>0. o \in Order /\ OrderAt(t) = o
    BY DEF OrderAt
  <1>1. /\ thread[t].pc = "create" /\ UNCHANGED <<paid, overtaken, enrolled, sent>>
        /\ txn' = [txn EXCEPT ![o] = new]
    BY DEF CreateTransaction, At, OrderAt
  <1>2. /\ new.status = "pending" /\ (Kind[o] = "plain" => "student" \in new.has)
    OBVIOUS
  <1> HIDE DEF new
  <1>3. /\ txn'[o] = new /\ \A p \in Order \ {o} : txn'[p] = txn[p]
    BY <1>0, <1>1 DEF TypeOK
  <1>4. /\ thread[t].call = "create" /\ Created(t) /\ txn[o].status = "none" /\ sent[o] = {}
        /\ \A u \in Thread \ {t} : thread[u].order = o => thread[u].pc = "idle"
        /\ Copied(t) /\ (thread[t].seen = "unpaid" => Kind[o] = "ebook")
    BY <1>0, <1>1 DEF BookInv, Fits, Created, At, OrderAt
  <1>s. /\ seen \in {"paid", "unpaid"} /\ (seen = "paid" => RegOf[o] \in paid)
        /\ seen = "unpaid" => RegOf[o] \notin paid \/ Kind[o] # "webinar"
    BY DEF Reading
  <1>5. \/ Moved(t, "idle", Idle.order, "none", NoRow, "unread") /\ Fits(thread'[t])
        \/ /\ Kind[o] # "plain" /\ Moved(t, "save", o, "create", thread[t].copy, seen)
           /\ Kind[o] # "webinar" => thread[t].seen = "unpaid"
    <2>1. CASE Kind[o] = "webinar"
      <3>1. seen = Reading(RegOf[o])
        BY <2>1
      <3>2. thread' = [thread EXCEPT ![t].pc = "save", ![t].seen = seen]
        BY <1>0, <1>4, <2>1, <3>1 DEF CreateTransaction
      <3> HIDE DEF seen
      <3>3. QED
        BY <1>4, <2>1, <3>2, SeenMoves
    <2>2. CASE Kind[o] # "webinar" /\ thread[t].seen = "unpaid"
      <3>1. Goto(t, "save") /\ seen = thread[t].seen
        BY <1>0, <2>2 DEF CreateTransaction
      <3> HIDE DEF seen
      <3>2. QED
        BY <1>4, <2>2, <3>1, GotoMoves
    <2>3. CASE Kind[o] # "webinar" /\ thread[t].seen # "unpaid"
      BY <1>0, <2>3, EndMoves DEF CreateTransaction
    <2>4. QED
      BY <2>1, <2>2, <2>3
  <1> HIDE DEF seen
  <1>6. Works(t, o)
    BY <1>1, <1>2, <1>3, <1>4, <1>5 DEF Works, Gives, Moved, IsPaid, PaidStatus
  <1>7. Fits(thread'[t])
    BY <1>5, <1>s DEF Moved, Fits
  <1>8. thread'[t].call = "create" => Created(t)'
    BY <1>1, <1>2, <1>3, <1>4, <1>5 DEF Moved, Created, At, OrderAt
  <1>9. Copied(t)'
    <2>1. CASE thread'[t].pc = "idle"
      BY <1>5, <2>1 DEF Moved, Copied, HoldsUnpaid
    <2>2. CASE thread'[t].pc = "save"
      <3>1. thread'[t].order = o /\ thread'[t].seen = seen
        BY <1>5, <2>2 DEF Moved
      <3>2. thread[t].seen = "unpaid" /\ RegOf[o] \in paid => RegOf[o] \in overtaken
        BY <1>0, <1>1, <1>4 DEF Copied, HoldsUnpaid, RegAt, OrderAt
      <3>3. Kind[o] = "webinar" \/ thread[t].seen = "unpaid"
        BY <1>5, <2>2 DEF Moved
      <3>4. QED
        BY <1>1, <1>s, <3>1, <3>2, <3>3 DEF Copied, HoldsUnpaid, RegAt, OrderAt, Access
    <2>3. QED
      BY <1>5, <2>1, <2>2 DEF Moved
  <1>10. BookInv'
    BY <1>0, <1>1, <1>6, <1>7, <1>8, <1>9, Alone, WorkKeeps
  <1>11. QED
    BY <1>0, <1>1, <1>2, <1>3, <1>4, <1>5, <1>6, <1>10, <1>s DEF Moved, IsPaid, PaidStatus

LEMMA SaveBook ==
  ASSUME TypeOK, TypeOK', BookInv, NEW t \in Thread, SaveRegistration(t)
  PROVE  /\ Works(t, OrderAt(t)) /\ BookInv'
         /\ Has(OrderAt(t), "student") \/ UNCHANGED txn
         /\ thread[t].pc \in {"first", "save"} /\ thread'[t].pc \in {"idle", "create"}
         /\ thread'[t].seen # "raised"
         /\ \A r \in paid \ paid' : HoldsUnpaid(t, r)
  <1> DEFINE o == thread[t].order
             r == RegOf[o]
  <1>0. o \in Order /\ OrderAt(t) = o /\ RegAt(t) = r
    BY DEF TypeOK, ThreadState, OrderAt, RegAt
  <1>1. thread[t].pc \in {"first", "save"} /\ UNCHANGED <<overtaken, enrolled, sent>>
    BY DEF SaveRegistration, At
  <1>2. /\ thread[t].seen \in {"paid", "unpaid"} /\ (thread[t].pc = "first" => thread[t].seen = "unpaid")
        /\ Copied(t) /\ Fits(thread[t]) /\ Created(t)
    BY <1>1 DEF BookInv, Fits
  <1>3. /\ thread[t].seen = "paid" => r \in Access
        /\ thread[t].seen = "unpaid" => HoldsUnpaid(t, r) /\ (r \in paid => r \in overtaken)
    BY <1>0, <1>1, <1>2 DEF Copied, HoldsUnpaid
  <1>4. /\ \/ thread[t].seen = "paid" /\ paid' = paid \cup {r}
           \/ thread[t].seen = "unpaid" /\ paid' = paid \ {r}
        /\ Has(o, "student") \/ UNCHANGED txn
    BY <1>0, <1>2 DEF SaveRegistration
  <1>5. Gives(o)
    BY <1>1, <1>3, <1>4 DEF Gives, Saves
  <1>6. /\ \A p \in Order \ {o} : txn'[p] = txn[p]
        /\ txn'[o].status = txn[o].status
    BY <1>0, <1>4, HasWorks
  <1>7. \/ Moved(t, "idle", Idle.order, "none", NoRow, "unread") /\ Fits(thread'[t])
        \/ /\ Moved(t, "create", o, "create", thread[t].copy, "unpaid")
           /\ thread[t].pc = "first" /\ thread[t].call = "create"
    <2>1. CASE thread[t].pc = "first"
      <3>1. Goto(t, "create") /\ thread[t].call = "create" /\ thread[t].seen = "unpaid"
        BY <1>2, <2>1 DEF SaveRegistration, At, Fits
      <3>2. QED
        BY <2>1, <3>1, GotoMoves
    <2>2. CASE thread[t].pc # "first"
      BY <2>2, EndMoves DEF SaveRegistration, At
    <2>3. QED
      BY <2>1, <2>2
  <1>8. thread[t].pc = "first" => Kind[o] = "ebook"
    BY <1>2 DEF Fits
  <1>9. Works(t, o)
    <2>1. thread[t].order = o /\ (thread'[t].pc = "idle" \/ thread'[t].order = o)
      BY <1>7 DEF Moved
    <2>2. \A u \in Thread \ {t} : thread'[u] = thread[u]
      BY <1>7 DEF Moved
    <2>3. txn[o].status = "none" => txn'[o].status \notin PaidStatus
      BY <1>6 DEF PaidStatus
    <2>4. QED
      BY <1>1, <1>5, <1>6, <2>1, <2>2, <2>3 DEF Works, IsPaid
  <1>10. Fits(thread'[t])
    BY <1>7, <1>8 DEF Moved, Fits
  <1>11. Copied(t)'
    BY <1>0, <1>4, <1>7, <1>2 DEF Moved, Copied, HoldsUnpaid, RegAt, OrderAt, Fits
  <1>12. thread'[t].call = "create" => Created(t)'
    BY <1>0, <1>1, <1>2, <1>6, <1>7 DEF Moved, Created, At, OrderAt
  <1>13. BookInv'
    BY <1>0, <1>1, <1>9, <1>10, <1>11, <1>12, Alone, WorkKeeps
  <1>14. QED
    BY <1>0, <1>1, <1>3, <1>4, <1>7, <1>9, <1>13 DEF Moved

\* a request that only moves on, or begins about an order that was paid for
LEMMA MoveBook ==
  ASSUME TypeOK, TypeOK', BookInv, NEW t \in Thread, NEW o \in Order,
         UNCHANGED <<paid, overtaken, enrolled, sent>>,
         \A p \in Order \ {o} : txn'[p] = txn[p],
         txn'[o].status = txn[o].status \/ txn'[o].status \in PaidStatus,
         Money(o),
         thread[t].pc = "idle" \/ thread[t].order = o,
         NEW pc, NEW call, NEW copy, NEW seen,
         Moved(t, pc, o, call, copy, seen) \/ (Moved(t, "idle", Idle.order, "none", NoRow, "unread")),
         Fits(thread'[t]), thread'[t].call \notin {"create", "resave"},
         thread'[t].seen = "paid" => RegOf[o] \in Access
  PROVE  Works(t, o) /\ BookInv'
  <1>1. /\ txn[o].status # "none"
        /\ \A u \in Thread : thread[u].call = "create" => thread[u].order # o
    BY NobodyCreates
  <1>2. Works(t, o)
    BY <1>1 DEF Works, Gives, Moved, IsPaid, PaidStatus
  <1>3. thread'[t].pc \notin {"first", "create", "save"}
    BY DEF Fits
  <1>4. thread'[t].seen = "paid" => thread'[t].order = o
    BY DEF Moved
  <1>5. Copied(t)'
    BY <1>3, <1>4 DEF Copied, HoldsUnpaid, RegAt, OrderAt, Access
  <1>6. QED
    BY <1>1, <1>2, <1>5, WorkKeeps

Books == TypeOK /\ TypeOK' /\ MoneyInv /\ BookInv

USE DEF Registering

\* requests about an order that was paid for
LEMMA Current ==
  ASSUME Books, NEW t \in Thread
  PROVE  /\ thread[t].order \in Order /\ OrderAt(t) = thread[t].order
         /\ RegAt(t) = RegOf[thread[t].order] /\ thread[t].copy \in Row /\ Fits(thread[t])
         /\ thread[t].pc \notin Registering =>
              Money(thread[t].order) /\ thread[t].call \notin {"create", "resave"}
         /\ thread[t].seen = "paid" => RegOf[thread[t].order] \in Access
  BY DEF Books, TypeOK, ThreadState, OrderAt, RegAt, MoneyInv, RequestsPaid, Registering,
         BookInv, Fits, Copied

\* the request goes to pc, or ends
Goes(t, pc, seen) ==
    \/ Moved(t, pc, thread[t].order, thread[t].call, thread[t].copy, seen)
    \/ Moved(t, "idle", Idle.order, "none", NoRow, "unread")

LEMMA GoesBook ==
  ASSUME Books, NEW t \in Thread, UNCHANGED <<paid, overtaken, enrolled, sent>>,
         thread[t].pc \notin Registering,
         \A p \in Order \ {thread[t].order} : txn'[p] = txn[p],
         txn'[OrderAt(t)].status = txn[OrderAt(t)].status \/ txn'[OrderAt(t)].status \in PaidStatus,
         NEW pc, NEW seen, Goes(t, pc, seen), Fits(thread'[t]), pc \notin Registering,
         seen = "paid" => RegAt(t) \in Access
  PROVE  Works(t, OrderAt(t)) /\ BookInv'
  <1> DEFINE o == thread[t].order
  <1>1. o \in Order /\ OrderAt(t) = o /\ RegAt(t) = RegOf[o] /\ Money(o) /\ thread[t].call \notin {"create", "resave"}
    BY Current
  <1>2. thread'[t].call \notin {"create", "resave"} /\ (thread'[t].seen = "paid" => RegOf[o] \in Access)
    BY <1>1 DEF Goes, Moved
  <1>3. QED
    BY <1>1, <1>2, MoveBook DEF Books, Goes

LEMMA BeginBook ==
  ASSUME Books, NEW t \in Thread, NEW o \in Order, UNCHANGED <<txn, paid, overtaken, enrolled, sent>>,
         thread[t].pc = "idle", Money(o), NEW call \in {"verify"} \cup PaidEvent, NEW copy,
         NEW label \in {"read", "commit", "stale"}, Begin(t, o, call, copy, label),
         label \in {"read", "commit"} => copy.status \in PaidStatus,
         label = "stale" => Kind[o] # "ebook",
         label = "commit" => Kind[o] = "plain"
  PROVE  Works(t, o) /\ BookInv' /\ Moved(t, label, o, call, copy, "unread")
  <1>1. Moved(t, label, o, call, copy, "unread")
    BY BeginMoves DEF Books
  <1>2. Fits(thread'[t]) /\ thread'[t].call \notin {"create", "resave"} /\ thread'[t].seen # "paid"
    BY <1>1 DEF Moved, Fits, PaidEvent
  <1>3. QED
    BY <1>1, <1>2, MoveBook DEF Books

LEMMA VerifyReadBook ==
  ASSUME Books, NEW t \in Thread, NEW o \in Order, VerifyRead(t, o)
  PROVE  Works(t, o) /\ BookInv' /\ Moved(t, "stale", o, "verify", txn[o], "unread")
  BY BeginBook DEF VerifyRead, At

LEMMA VerifyLockedBook ==
  ASSUME Books, NEW t \in Thread, NEW o \in Order, VerifyLocked(t, o)
  PROVE  /\ Works(t, o) /\ BookInv' /\ Kind[o] = "ebook"
         /\ \E copy : /\ Moved(t, "read", o, "verify", copy, "unread")
                      /\ \/ copy = txn[o] /\ IsPaid(o)
                         \/ copy.has = txn[o].has \cup {"student", "invoice"}
                         \/ Raises
  <1>1. PICK invoice \in BOOLEAN :
          \/ txn[o].status = "done" /\ Begin(t, o, "verify", txn[o], "read")
          \/ /\ InvoiceOrRaise(invoice)
             /\ Begin(t, o, "verify", Saved(o, "done", invoice), "read")
    BY DEF VerifyLocked
  <1>2. Saved(o, "done", invoice).status = "done"
    BY DEF Saved
  <1>3. invoice => Saved(o, "done", invoice).has = txn[o].has \cup {"student", "invoice"}
    BY DEF Saved
  <1>4. /\ UNCHANGED <<txn, paid, overtaken, enrolled, sent>> /\ thread[t].pc = "idle" /\ Money(o)
        /\ Kind[o] = "ebook"
    BY DEF VerifyLocked, At
  <1>5. CASE txn[o].status = "done" /\ Begin(t, o, "verify", txn[o], "read")
    BY <1>4, <1>5, BeginBook DEF IsPaid, PaidStatus
  <1>6. CASE InvoiceOrRaise(invoice) /\ Begin(t, o, "verify", Saved(o, "done", invoice), "read")
    <2>1. /\ Works(t, o) /\ BookInv'
          /\ Moved(t, "read", o, "verify", Saved(o, "done", invoice), "unread")
      BY <1>2, <1>4, <1>6, BeginBook DEF PaidStatus
    <2>2. invoice \/ Raises
      BY <1>6 DEF InvoiceOrRaise
    <2>3. QED
      BY <1>3, <1>4, <2>1, <2>2
  <1>7. QED
    BY <1>1, <1>5, <1>6

LEMMA EventPaid == ASSUME MoneyInv, NEW o \in Order, NEW e \in PaidEvent, e \in sent[o] PROVE Money(o)
  BY DEF MoneyInv, EventsPaired, PaidEvent, Money

LEMMA RecheckBook ==
  ASSUME Books, NEW t \in Thread, NEW o \in Order, NEW e \in PaidEvent, WebhookRecheck(t, o, e)
  PROVE  /\ Works(t, o) /\ BookInv' /\ Kind[o] = "ebook" /\ IsPaid(o)
         /\ Moved(t, "read", o, e, txn[o], "unread")
  BY EventPaid, BeginBook DEF WebhookRecheck, At, Books, IsPaid

LEMMA WebhookBook ==
  ASSUME Books, NEW t \in Thread, NEW o \in Order, NEW e \in PaidEvent, WebhookBegin(t, o, e)
  PROVE  /\ Works(t, o) /\ BookInv'
         /\ \E copy, label :
              /\ label \in {"read", "commit"}
              /\ Moved(t, label, o, e, copy, "unread")
              /\ copy.has = txn[o].has \cup {"student", "invoice"} \/ Raises
  <1> DEFINE status == IF e = "captured" THEN "captured" ELSE "done"
             label == IF Kind[o] = "plain" THEN "commit" ELSE "read"
  <1>1. PICK invoice \in BOOLEAN :
          InvoiceOrRaise(invoice) /\ Begin(t, o, e, Saved(o, status, invoice), label)
    BY DEF WebhookBegin
  <1>2. Saved(o, status, invoice).status \in PaidStatus
    BY DEF Saved, PaidStatus
  <1>3. invoice => Saved(o, status, invoice).has = txn[o].has \cup {"student", "invoice"}
    BY DEF Saved
  <1>4. UNCHANGED <<txn, paid, overtaken, enrolled, sent>> /\ thread[t].pc = "idle" /\ Money(o)
    BY EventPaid DEF WebhookBegin, At, Books
  <1>5. label \in {"read", "commit"} /\ (label = "commit" => Kind[o] = "plain")
    OBVIOUS
  <1> HIDE DEF status, label
  <1>6. /\ Works(t, o) /\ BookInv'
        /\ Moved(t, label, o, e, Saved(o, status, invoice), "unread")
    BY <1>1, <1>2, <1>4, <1>5, BeginBook
  <1>7. invoice \/ Raises
    BY <1>1 DEF InvoiceOrRaise
  <1>8. QED
    BY <1>3, <1>5, <1>6, <1>7

LEMMA ReadBook ==
  ASSUME Books, NEW t \in Thread, ReadRegistration(t)
  PROVE  /\ Works(t, OrderAt(t)) /\ BookInv'
         /\ \E label, seen :
              /\ Moved(t, label, thread[t].order, thread[t].call, thread[t].copy, seen)
              /\ seen \in {"paid", "unpaid"}
              /\ \/ thread[t].pc = "lookup" /\ label = "grant"
                 \/ thread[t].pc = "read" /\ label \in {"mail", "commit"}
  <1> DEFINE seen == Reading(RegAt(t))
             label == CASE thread[t].pc = "lookup" -> "grant"
                        [] Kind[thread[t].order] = "ebook" /\ RegAt(t) \notin paid -> "mail"
                        [] OTHER -> "commit"
  <1>1. thread' = [thread EXCEPT ![t].seen = seen, ![t].pc = label]
    BY Zenon DEF ReadRegistration
  <1>2. \/ thread[t].pc = "lookup" /\ label = "grant"
        \/ /\ thread[t].pc = "read"
           /\ label = "commit" \/ (label = "mail" /\ Kind[thread[t].order] = "ebook")
    <2>1. CASE thread[t].pc = "lookup"
      <3>1. ~(Kind[thread[t].order] = "ebook" /\ RegAt(t) \notin paid)
        BY <2>1, Current DEF Fits
      <3>2. QED
        BY <2>1, <3>1
    <2>2. CASE thread[t].pc = "read" /\ Kind[thread[t].order] = "ebook" /\ RegAt(t) \notin paid
      BY <2>2
    <2>3. CASE thread[t].pc = "read" /\ ~(Kind[thread[t].order] = "ebook" /\ RegAt(t) \notin paid)
      BY <2>3
    <2>4. QED
      BY <2>1, <2>2, <2>3 DEF ReadRegistration, At
  <1>3. seen \in {"paid", "unpaid"} /\ (seen = "paid" => RegAt(t) \in Access)
    BY DEF Reading, Access
  <1> HIDE DEF seen, label
  <1>4. Moved(t, label, thread[t].order, thread[t].call, thread[t].copy, seen)
    BY <1>1, SeenMoves DEF Books
  <1>5. Fits(thread'[t])
    BY <1>2, <1>3, <1>4, Current DEF Moved, Fits
  <1>6. UNCHANGED <<txn, paid, overtaken, enrolled, sent>>
    BY DEF ReadRegistration
  <1>7. Works(t, OrderAt(t)) /\ BookInv'
    BY <1>2, <1>3, <1>4, <1>5, <1>6, GoesBook DEF Goes
  <1>8. QED
    BY <1>2, <1>3, <1>4, <1>7

LEMMA SendMailBook ==
  ASSUME Books, NEW t \in Thread, SendMail(t)
  PROVE  /\ Works(t, OrderAt(t)) /\ BookInv'
         /\ thread[t].pc = "mail" /\ Goes(t, "commit", thread[t].seen)
  <1>1. /\ thread[t].pc = "mail" /\ UNCHANGED <<txn, paid, overtaken, enrolled, sent>>
        /\ Moved(t, "commit", thread[t].order, thread[t].call, thread[t].copy, thread[t].seen)
    BY GotoMoves DEF SendMail, At, Books
  <1>2. Fits(thread'[t])
    BY <1>1, Current DEF Moved, Fits
  <1>3. Goes(t, "commit", thread[t].seen) /\ (thread[t].seen = "paid" => RegAt(t) \in Access)
    BY <1>1, Current DEF Goes
  <1>4. txn'[OrderAt(t)].status = txn[OrderAt(t)].status
    BY <1>1
  <1>5. QED
    BY <1>1, <1>2, <1>3, <1>4, GoesBook

\* faults: the request goes on without what failed, or ends
LEMMA FaultBook ==
  ASSUME Books, NEW t \in Thread, Fault(t)
  PROVE  Works(t, OrderAt(t)) /\ BookInv' /\ txn' = txn /\ paid' = paid
  <1> DEFINE o == thread[t].order
  <1>0. /\ UNCHANGED <<txn, paid, overtaken, enrolled, sent>> /\ thread[t].pc # "idle"
        /\ o \in Order /\ OrderAt(t) = o
    BY Current DEF Fault, RegistrationRaises, DatabaseError, CacheError, Crash, At
  <1>1. ASSUME End(t) PROVE Works(t, OrderAt(t)) /\ BookInv'
    <2>1. Moved(t, "idle", Idle.order, "none", NoRow, "unread") /\ Fits(thread'[t])
      BY <1>1, EndMoves DEF Books
    <2>2. Works(t, OrderAt(t)) /\ Copied(t)'
      BY <1>0, <2>1 DEF Works, Gives, Moved, IsPaid, PaidStatus, Copied, HoldsUnpaid
    <2>3. \A u \in Thread \ {t} : thread[u].call = "create" => thread[u].order # OrderAt(t)
      BY <1>0, Alone DEF Books
    <2>4. OrderAt(t) \in Order /\ thread'[t].call # "create" /\ thread'[t].seen # "paid"
      BY <1>0, <2>1 DEF Moved
    <2>5. QED
      BY <2>1, <2>2, <2>3, <2>4, WorkKeeps DEF Books
  <1>2. ASSUME At(t, "read"), Kind[o] = "webinar",
               thread' = [thread EXCEPT ![t].seen = "raised", ![t].pc = "commit"]
        PROVE  Works(t, OrderAt(t)) /\ BookInv'
    <2>1. Moved(t, "commit", o, thread[t].call, thread[t].copy, "raised")
      BY <1>2, SeenMoves DEF Books
    <2>2. Fits(thread'[t])
      BY <1>2, <2>1, Current DEF Moved, Fits, At
    <2>3. Goes(t, "commit", "raised")
      BY <2>1 DEF Goes
    <2>4. QED
      BY <1>0, <1>2, <2>2, <2>3, GoesBook DEF At
  <1>3. ASSUME At(t, "mail"), Goto(t, "commit") PROVE Works(t, OrderAt(t)) /\ BookInv'
    <2>1. Moved(t, "commit", o, thread[t].call, thread[t].copy, thread[t].seen)
      BY <1>3, GotoMoves DEF Books
    <2>2. Fits(thread'[t])
      BY <1>3, <2>1, Current DEF Moved, Fits, At
    <2>3. Goes(t, "commit", thread[t].seen)
      BY <2>1 DEF Goes
    <2>4. thread[t].seen = "paid" => RegAt(t) \in Access
      BY Current
    <2>5. QED
      BY <1>0, <1>3, <2>2, <2>3, <2>4, GoesBook DEF At
  <1>4. \/ End(t)
        \/ /\ At(t, "read") /\ Kind[o] = "webinar"
           /\ thread' = [thread EXCEPT ![t].seen = "raised", ![t].pc = "commit"]
        \/ At(t, "mail") /\ Goto(t, "commit")
    BY <1>0 DEF Fault, RegistrationRaises, DatabaseError, CacheError, Crash
  <1>5. QED
    BY <1>0, <1>1, <1>2, <1>3, <1>4

\* the plain and the webinar verify endpoint
LEMMA VerifySaveBook ==
  ASSUME Books, NEW t \in Thread, VerifySave(t)
  PROVE  /\ Works(t, OrderAt(t)) /\ BookInv' /\ Kind[OrderAt(t)] # "ebook"
         /\ thread[t].pc = "stale" /\ txn'[OrderAt(t)].has = thread[t].copy.has
         /\ Moved(t, "invoice", thread[t].order, thread[t].call, thread[t].copy, thread[t].seen)
  <1> DEFINE o == thread[t].order
             new == [thread[t].copy EXCEPT !.status = "done"]
  <1>1. /\ thread[t].pc = "stale" /\ UNCHANGED <<paid, overtaken, enrolled, sent>>
        /\ txn' = [txn EXCEPT ![o] = new]
        /\ Moved(t, "invoice", o, thread[t].call, thread[t].copy, thread[t].seen)
    BY GotoMoves DEF VerifySave, At, Books
  <1>2. new.status = "done" /\ new.has = thread[t].copy.has
    BY Current DEF Row
  <1> HIDE DEF new
  <1>3. txn'[o] = new /\ \A p \in Order \ {o} : txn'[p] = txn[p]
    BY <1>1, Current DEF Books, TypeOK
  <1>4. Fits(thread'[t])
    BY <1>1, Current DEF Moved, Fits
  <1>5. Works(t, OrderAt(t)) /\ BookInv'
    <2>1. Goes(t, "invoice", thread[t].seen)
      BY <1>1 DEF Goes
    <2>2. /\ txn'[OrderAt(t)].status \in PaidStatus
          /\ thread[t].seen = "paid" => RegAt(t) \in Access
      BY <1>2, <1>3, Current DEF PaidStatus
    <2>3. QED
      BY <1>1, <1>3, <1>4, <2>1, <2>2, GoesBook
  <1>6. QED
    BY <1>1, <1>2, <1>3, <1>5, Current DEF Fits

LEMMA InvoiceBook ==
  ASSUME Books, NEW t \in Thread, SignalInvoice(t)
  PROVE  /\ Works(t, OrderAt(t)) /\ BookInv' /\ thread[t].pc = "invoice"
         /\ Kind[OrderAt(t)] = "webinar" => thread'[t].pc = "link" /\ thread'[t].order = OrderAt(t)
         /\ thread'[t].order = OrderAt(t)
         /\ thread'[t].pc \in {"link", "again"}
         /\ thread'[t].copy = thread[t].copy /\ thread'[t].seen = thread[t].seen
  <1> DEFINE o == thread[t].order
             label == AfterInvoice(t)
  <1>1. /\ thread[t].pc = "invoice" /\ UNCHANGED <<paid, overtaken, enrolled, sent>>
        /\ Has(o, "invoice") \/ UNCHANGED txn
        /\ Moved(t, label, o, thread[t].call, thread[t].copy, thread[t].seen)
    BY GotoMoves DEF SignalInvoice, At, Books, OrderAt
  <1>2. /\ label \in {"link", "again"}
        /\ label = "link" => Kind[o] # "plain"
        /\ Kind[o] = "webinar" => label = "link"
    BY Current DEF AfterInvoice
  <1> HIDE DEF label
  <1>3. /\ \A p \in Order \ {o} : txn'[p] = txn[p]
        /\ txn'[o].status = txn[o].status
    BY <1>1, Current, HasWorks DEF Books
  <1>4. Kind[o] \in {"plain", "webinar", "ebook"}
    BY Current, PaymentsAssumption
  <1>5. Fits(thread'[t])
    BY <1>1, <1>2, <1>4, Current DEF Moved, Fits
  <1>6. Works(t, OrderAt(t)) /\ BookInv'
    BY <1>1, <1>2, <1>3, <1>5, Current, GoesBook DEF Goes
  <1>7. QED
    BY <1>1, <1>2, <1>6, Current DEF Moved

LEMMA LinkBook ==
  ASSUME Books, NEW t \in Thread, SignalLink(t)
  PROVE  /\ Works(t, OrderAt(t)) /\ BookInv' /\ thread[t].pc = "link"
         /\ Moved(t, "lookup", thread[t].order, thread[t].call, thread[t].copy, thread[t].seen)
  <1> DEFINE o == thread[t].order
  <1>1. /\ thread[t].pc = "link" /\ UNCHANGED <<paid, overtaken, enrolled, sent>> /\ Has(o, "student")
        /\ Moved(t, "lookup", o, thread[t].call, thread[t].copy, thread[t].seen)
    BY GotoMoves DEF SignalLink, At, Books, OrderAt
  <1>2. /\ \A p \in Order \ {o} : txn'[p] = txn[p]
        /\ txn'[o].status = txn[o].status
    BY <1>1, Current, HasWorks DEF Books
  <1>3. Fits(thread'[t])
    BY <1>1, Current DEF Moved, Fits
  <1>4. Goes(t, "lookup", thread[t].seen)
    BY <1>1 DEF Goes
  <1>5. /\ txn'[OrderAt(t)].status = txn[OrderAt(t)].status
        /\ thread[t].seen = "paid" => RegAt(t) \in Access
    BY <1>2, Current
  <1>6. QED
    BY <1>1, <1>2, <1>3, <1>4, <1>5, GoesBook

LEMMA AgainBook ==
  ASSUME Books, NEW t \in Thread, InvoiceAgain(t)
  PROVE  /\ Works(t, OrderAt(t)) /\ BookInv' /\ thread[t].pc = "again"
         /\ Moved(t, "idle", Idle.order, "none", NoRow, "unread")
  <1> DEFINE o == thread[t].order
  <1>1. /\ thread[t].pc = "again" /\ UNCHANGED <<paid, overtaken, enrolled, sent>>
        /\ Has(o, "invoice") \/ UNCHANGED txn
        /\ Moved(t, "idle", Idle.order, "none", NoRow, "unread") /\ Fits(thread'[t])
    BY EndMoves DEF InvoiceAgain, At, Books, OrderAt
  <1>2. /\ \A p \in Order \ {o} : txn'[p] = txn[p]
        /\ txn'[o].status = txn[o].status
    BY <1>1, Current, HasWorks DEF Books
  <1>3. QED
    BY <1>1, <1>2, Current, GoesBook DEF Goes

\* a request that gives what was paid for, and ends
LEMMA GiveBook ==
  ASSUME Books, NEW t \in Thread, thread[t].pc \in {"commit", "grant"}, sent' = sent,
         \A p \in Order \ {OrderAt(t)} : txn'[p] = txn[p],
         txn'[OrderAt(t)].status \in PaidStatus,
         Gives(OrderAt(t)), End(t)
  PROVE  Works(t, OrderAt(t)) /\ BookInv'
  <1> DEFINE o == OrderAt(t)
  <1>1. o \in Order /\ thread[t].order = o /\ Money(o)
    BY Current
  <1>2. Moved(t, "idle", Idle.order, "none", NoRow, "unread") /\ Fits(thread'[t])
    BY EndMoves DEF Books
  <1>3. /\ txn[o].status # "none"
        /\ \A u \in Thread : thread[u].call = "create" => thread[u].order # o
    BY <1>1, NobodyCreates DEF Books
  <1>4. thread'[t].call # "create" /\ thread'[t].seen # "paid" /\ "none" \notin PaidStatus
    BY <1>2 DEF Moved, PaidStatus
  <1>5. Works(t, OrderAt(t)) /\ Copied(t)'
    BY <1>1, <1>2, <1>3, <1>4 DEF Works, Moved, Copied, HoldsUnpaid
  <1>6. QED
    BY <1>1, <1>2, <1>3, <1>4, <1>5, WorkKeeps DEF Books

LEMMA PaysSets == ASSUME NEW t \in Thread, Pays(t) PROVE SetsPaid(RegAt(t))
  BY DEF Pays, SetsPaid

LEMMA RegisterGives ==
  ASSUME NEW t \in Thread, NEW o \in Order, Register(t), RegAt(t) = RegOf[o], OrderAt(t) = o,
         Kind[o] = "webinar", txn'[o].status \in PaidStatus,
         thread[t].seen = "unpaid" \/ RegOf[o] \in Access
  PROVE  Gives(o) /\ RegOf[o] \in enrolled' /\ o \in reports'
  <1>1. CASE thread[t].seen = "unpaid"
    <2>1. Pays(t) /\ enrolled' = enrolled \cup {RegOf[o]} /\ o \in reports'
      BY <1>1 DEF Register
    <2>2. SetsPaid(RegOf[o])
      BY <2>1, PaysSets
    <2>3. QED
      BY <2>1, <2>2 DEF Gives
  <1>2. CASE thread[t].seen # "unpaid"
    BY <1>2 DEF Register, Gives
  <1>3. QED
    BY <1>1, <1>2

LEMMA CommitBook ==
  ASSUME Books, NEW t \in Thread, Commit(t)
  PROVE  /\ Works(t, OrderAt(t)) /\ BookInv' /\ thread[t].pc = "commit"
         /\ Moved(t, "idle", Idle.order, "none", NoRow, "unread")
         /\ thread[t].copy.has \subseteq txn'[OrderAt(t)].has
         /\ Kind[OrderAt(t)] = "ebook" => RegOf[OrderAt(t)] \in Access'
         /\ Kind[OrderAt(t)] = "webinar" /\ thread[t].seen # "raised" =>
              /\ "student" \in txn'[OrderAt(t)].has /\ OrderAt(t) \in reports'
              /\ RegOf[OrderAt(t)] \in enrolled'
  <1> DEFINE o == OrderAt(t)
             registers == Kind[o] = "webinar" /\ thread[t].seen # "raised"
             new == IF registers THEN Registered(thread[t].copy) ELSE thread[t].copy
  <1>1. thread[t].pc = "commit" /\ End(t) /\ sent' = sent
    BY DEF Commit, At
  <1>2. o \in Order /\ o = thread[t].order /\ RegAt(t) = RegOf[o]
    BY Current
  <1>3. /\ txn' = [txn EXCEPT ![o] = new]
        /\ registers => Register(t)
        /\ ~registers => /\ IF Kind[o] = "ebook" THEN Pays(t) ELSE UNCHANGED <<paid, overtaken>>
                         /\ enrolled' = enrolled
    BY <1>2 DEF Commit
  <1>4. thread[t].copy.status \in PaidStatus
    BY <1>1, Current DEF Fits
  <1>5. /\ new.status \in PaidStatus /\ thread[t].copy.has \subseteq new.has
        /\ registers => "student" \in new.has
    BY <1>4 DEF Registered, PaidStatus
  <1>6. txn'[o] = new /\ \A p \in Order \ {o} : txn'[p] = txn[p]
    BY <1>2, <1>3 DEF Books, TypeOK
  <1> HIDE DEF new
  <1>7. ASSUME registers
        PROVE  Gives(o) /\ RegOf[o] \in enrolled' /\ o \in reports'
    <2>1. thread[t].seen = "unpaid" \/ RegOf[o] \in Access
      <3>1. thread[t].seen \in {"unread", "unpaid", "paid", "raised"}
        BY DEF Books, TypeOK, ThreadState
      <3>2. QED
        BY <1>1, <1>2, <1>7, <3>1, Current DEF Fits
    <2>2. txn'[o].status \in PaidStatus
      BY <1>5, <1>6
    <2>3. QED
      BY <1>2, <1>3, <1>7, <2>1, <2>2, RegisterGives
  <1>8. ASSUME ~registers PROVE Gives(o) /\ (Kind[o] = "ebook" => RegOf[o] \in Access')
    <2>1. CASE Kind[o] = "ebook"
      <3>1. Pays(t) /\ enrolled' = enrolled /\ txn'[o].status \in PaidStatus
        BY <1>3, <1>5, <1>6, <1>8, <2>1
      <3>2. SetsPaid(RegOf[o])
        BY <1>2, <3>1, PaysSets
      <3>3. QED
        BY <2>1, <3>1, <3>2 DEF Gives, SetsPaid, Access
    <2>2. CASE Kind[o] # "ebook"
      BY <1>3, <1>8, <2>2 DEF Gives
    <2>3. QED
      BY <2>1, <2>2
  <1>9. Gives(o) /\ (Kind[o] = "ebook" => RegOf[o] \in Access')
    BY <1>7, <1>8
  <1>10. Works(t, OrderAt(t)) /\ BookInv'
    BY <1>1, <1>5, <1>6, <1>9, GiveBook
  <1>11. QED
    BY <1>1, <1>5, <1>6, <1>7, <1>9, <1>10, EndMoves DEF Books

LEMMA GrantBook ==
  ASSUME Books, NEW t \in Thread, Grant(t)
  PROVE  /\ Works(t, OrderAt(t)) /\ BookInv' /\ thread[t].pc = "grant"
         /\ Moved(t, "idle", Idle.order, "none", NoRow, "unread")
         /\ txn[OrderAt(t)].has \subseteq txn'[OrderAt(t)].has /\ Kind[OrderAt(t)] = "webinar"
         /\ "student" \in txn'[OrderAt(t)].has /\ OrderAt(t) \in reports'
         /\ RegOf[OrderAt(t)] \in enrolled'
  <1> DEFINE o == OrderAt(t)
             new == Registered(txn[o])
  <1>1. thread[t].pc = "grant" /\ End(t) /\ sent' = sent /\ Register(t)
    BY DEF Grant, At
  <1>2. /\ o \in Order /\ o = thread[t].order /\ RegAt(t) = RegOf[o]
        /\ Kind[o] = "webinar"
    BY <1>1, Current DEF Fits
  <1>3. txn' = [txn EXCEPT ![o] = new]
    BY <1>2 DEF Grant, Books, TypeOK
  <1>4. /\ new.status \in PaidStatus /\ txn[o].has \subseteq new.has /\ "student" \in new.has
    BY DEF Registered, PaidStatus
  <1> HIDE DEF new
  <1>5. txn'[o] = new /\ \A p \in Order \ {o} : txn'[p] = txn[p]
    BY <1>2, <1>3 DEF Books, TypeOK
  <1>6. thread[t].seen = "unpaid" \/ RegOf[o] \in Access
    <2>1. thread[t].seen \in {"unread", "unpaid", "paid", "raised"}
      BY DEF Books, TypeOK, ThreadState
    <2>2. QED
      BY <1>1, <1>2, <2>1, Current DEF Fits
  <1>7. Gives(o) /\ RegOf[o] \in enrolled' /\ o \in reports'
    <2>1. txn'[o].status \in PaidStatus
      BY <1>4, <1>5
    <2>2. QED
      BY <1>1, <1>2, <1>6, <2>1, RegisterGives
  <1>8. Works(t, OrderAt(t)) /\ BookInv'
    BY <1>1, <1>4, <1>5, <1>7, GiveBook
  <1>9. QED
    BY <1>1, <1>2, <1>4, <1>5, <1>7, <1>8, EndMoves DEF Books

\* the gateway, and webhook calls that start nothing
LEMMA EventBook ==
  ASSUME TypeOK, TypeOK', BookInv, NEW o \in Order,
         Gateway(o)
  PROVE  BookInv' /\ UNCHANGED <<txn, paid, overtaken, enrolled>>
  <1>1. /\ UNCHANGED <<txn, paid, overtaken, enrolled, thread>>
        /\ \A p \in Order \ {o} : sent'[p] = sent[p]
    BY DEF Gateway, PaymentFails, PaymentAuthorized, PaymentCaptured, TypeOK
  <1>2. /\ \A t \in Thread : thread[t].order \in Order
        /\ txn[o].status # "none" /\ \A t \in Thread : thread[t].order = o => thread[t].call # "create"
    <2>1. CASE Known(o)
      BY <2>1 DEF Known, OrderAt, TypeOK, ThreadState
    <2>2. CASE Money(o)
      BY <2>2, NobodyCreates DEF TypeOK, ThreadState
    <2>3. QED
      BY <2>1, <2>2 DEF Gateway, PaymentFails, PaymentAuthorized, PaymentCaptured
  <1>3. NoneUnsent' /\ Seats'
    BY <1>1, <1>2 DEF BookInv, NoneUnsent, Seats, Access
  <1>4. \A t \in Thread : Created(t)'
    BY <1>1, <1>2 DEF BookInv, Created, OrderAt, At
  <1>5. \A t \in Thread : Fits(thread[t])' /\ Copied(t)'
    BY <1>1 DEF BookInv, Fits, Copied, HoldsUnpaid, RegAt, OrderAt, Access
  <1>6. QED
    BY <1>1, <1>3, <1>4, <1>5 DEF BookInv

LEMMA FailedBook ==
  ASSUME TypeOK, TypeOK', BookInv, NEW o \in Order, WebhookFailed(o)
  PROVE  /\ BookInv' /\ \A p \in Order \ {o} : txn'[p] = txn[p]
         /\ txn'[o].status = "failed" /\ txn'[o].has = txn[o].has
         /\ txn[o].status # "none" /\ UNCHANGED <<paid, overtaken, enrolled, thread>>
  <1>1. /\ UNCHANGED <<paid, overtaken, enrolled, sent, thread>> /\ sent[o] # {}
        /\ txn' = [txn EXCEPT ![o].status = "failed"]
    BY DEF WebhookFailed
  <1>2. /\ \A p \in Order \ {o} : txn'[p] = txn[p]
        /\ txn'[o].status = "failed" /\ txn'[o].has = txn[o].has
    BY <1>1 DEF TypeOK, Row
  <1>3. \A t \in Thread : thread[t].order \in Order
    BY DEF TypeOK, ThreadState
  <1>4. /\ txn[o].status # "none"
        /\ \A u \in Thread : thread[u].call = "create" => thread[u].order # o
    BY <1>1, NobodyCreates
  <1>5. NoneUnsent' /\ Seats'
    <2>1. Gives(o)
      BY <1>1 DEF Gives
    <2>2. Seats'
      BY <2>1, AccessAfter DEF BookInv
    <2>3. QED
      BY <1>1, <1>2, <2>2 DEF BookInv, NoneUnsent
  <1>6. ASSUME NEW t \in Thread, thread[t].call = "create" PROVE Created(t)'
    <2>1. thread[t].order # o /\ thread[t].order \in Order /\ Created(t)
      BY <1>3, <1>4, <1>6 DEF BookInv
    <2>2. QED
      BY <1>1, <1>2, <1>6, <2>1 DEF Created, OrderAt, At
  <1>7. \A t \in Thread : Created(t)'
    BY <1>1, <1>6 DEF Created
  <1>8. \A t \in Thread : Fits(thread[t])' /\ Copied(t)'
    BY <1>1 DEF BookInv, Fits, Copied, HoldsUnpaid, RegAt, OrderAt, Access
  <1>9. QED
    BY <1>1, <1>2, <1>4, <1>5, <1>7, <1>8 DEF BookInv

\* every step works on one order, or leaves the book alone, or records a failure
LEMMA NextBook ==
  ASSUME Books, [Next]_vars
  PROVE  /\ BookInv'
         /\ \/ \E t \in Thread, o \in Order : Works(t, o)
            \/ UNCHANGED <<txn, paid, overtaken, enrolled>>
            \/ \E o \in Order : WebhookFailed(o)
  <1> USE DEF Books
  <1>0. \A t \in Thread : OrderAt(t) \in Order
    BY Current
  <1>1. ASSUME NEW t \in Thread, Progress(t)
        PROVE  BookInv' /\ \E o \in Order : Works(t, o)
    BY <1>0, <1>1, CreateBook, SaveBook, ReadBook, SendMailBook, CommitBook, VerifySaveBook,
       InvoiceBook, LinkBook, AgainBook, GrantBook DEF Progress
  <1>2. ASSUME NEW t \in Thread, Fault(t) PROVE BookInv' /\ \E o \in Order : Works(t, o)
    BY <1>0, <1>2, FaultBook
  <1>3. ASSUME NEW t \in Thread, NEW o \in Order, Client(t, o) PROVE BookInv' /\ Works(t, o)
    BY <1>3, CheckBook, ResaveBook, VerifyLockedBook, VerifyReadBook DEF Client
  <1>4. ASSUME NEW t \in Thread, NEW o \in Order, NEW e \in PaidEvent,
               WebhookRecheck(t, o, e) \/ WebhookBegin(t, o, e)
        PROVE  BookInv' /\ Works(t, o)
    BY <1>4, RecheckBook, WebhookBook
  <1>5. ASSUME UNCHANGED <<txn, paid, overtaken, enrolled, sent, thread>> PROVE BookInv' /\ UNCHANGED <<txn, paid, overtaken, enrolled>>
    BY <1>5 DEF BookInv, Fits, Created, Copied, HoldsUnpaid, NoneUnsent, At, OrderAt, RegAt,
       Seats, Access
  <1>6. ASSUME NEW o \in Order, NEW e \in PaidEvent, WebhookSkip(o, e)
        PROVE  BookInv' /\ UNCHANGED <<txn, paid, overtaken, enrolled>>
    BY <1>5, <1>6 DEF WebhookSkip
  <1>7. ASSUME NEW o \in Order, Gateway(o)
        PROVE  BookInv' /\ UNCHANGED <<txn, paid, overtaken, enrolled>>
    BY <1>7, EventBook
  <1>8. ASSUME NEW o \in Order, WebhookFailed(o) PROVE BookInv'
    BY <1>8, FailedBook
  <1>9. CASE UNCHANGED vars
    BY <1>5, <1>9 DEF vars
  <1>10. QED
    BY <1>1, <1>2, <1>3, <1>4, <1>6, <1>7, <1>8, <1>9 DEF Next, Webhook

-----------------------------------------------------------------------------
(* The order book                                                           *)

StateOf(row) == CASE row.status = "none" -> "absent"
                  [] row.status \in PaidStatus -> "paid"
                  [] OTHER -> "open"

LEMMA StateIs ==
  ASSUME NEW row
  PROVE  /\ row.status = "none" => StateOf(row) = "absent"
         /\ row.status \in PaidStatus => StateOf(row) = "paid"
         /\ row.status # "none" /\ row.status \notin PaidStatus => StateOf(row) = "open"
  <1>1. "none" \notin PaidStatus
    BY DEF PaidStatus
  <1>2. CASE row.status = "none"
    BY <1>1, <1>2 DEF StateOf
  <1>3. CASE row.status \in PaidStatus
    BY <1>1, <1>3 DEF StateOf
  <1>4. CASE row.status # "none" /\ row.status \notin PaidStatus
    BY <1>4 DEF StateOf
  <1>5. QED
    BY <1>1, <1>2, <1>3, <1>4

BookStates == [o \in Order |-> StateOf(txn[o])]

LEMMA InitRefines == Init => BookStates = [o \in Order |-> "absent"] /\ Access = {}
  <1> SUFFICES ASSUME Init PROVE BookStates = [o \in Order |-> "absent"] /\ Access = {}
    OBVIOUS
  <1>1. \A o \in Order : txn[o].status = "none"
    BY DEF Init, NoRow
  <1>2. \A o \in Order : StateOf(txn[o]) = "absent"
    BY <1>1, StateIs
  <1>3. QED
    BY <1>2 DEF Init, BookStates, Access

BookStep ==
    \/ UNCHANGED <<BookStates, Access>>
    \/ \E o \in Order :
         \/ /\ BookStates[o] = "absent"
            /\ BookStates' = [BookStates EXCEPT ![o] = "open"] /\ UNCHANGED Access
         \/ /\ BookStates[o] = "open"
            /\ BookStates' = [BookStates EXCEPT ![o] = "paid"]
            /\ Access' \in {Access, Access \cup {RegOf[o]}}
         \/ /\ BookStates[o] = "paid"
            /\ Access' = Access \cup {RegOf[o]} /\ UNCHANGED BookStates

LEMMA WorksHold ==
  ASSUME Books, NEW t \in Thread, NEW o \in Order, Works(t, o)
  PROVE  /\ Access \subseteq Access'
         /\ \/ Access' = Access
            \/ Access' = Access \cup {RegOf[o]} /\ txn'[o].status \in PaidStatus
  <1>1. Gives(o) /\ Seats
    BY DEF Works, Books, BookInv
  <1>2. QED
    BY <1>1, AccessAfter

LEMMA NextBookStep == ASSUME Books, FailuresFirst, [Next]_vars PROVE BookStep
  <1>1. CASE UNCHANGED <<txn, paid, overtaken, enrolled>>
    BY <1>1 DEF BookStep, BookStates, Access
  <1>2. ASSUME NEW t \in Thread, NEW o \in Order, Works(t, o) PROVE BookStep
    <2>0. \/ Access' = Access
          \/ Access' = Access \cup {RegOf[o]} /\ txn'[o].status \in PaidStatus
      BY <1>2, WorksHold
    <2>1. /\ BookStates \in [Order -> {"absent", "open", "paid"}]
          /\ BookStates' = [BookStates EXCEPT ![o] = StateOf(txn'[o])]
      <3>1. \A p \in Order : StateOf(txn[p]) \in {"absent", "open", "paid"}
        BY StateIs
      <3>2. \A p \in Order : BookStates'[p] = StateOf(txn'[p])
        BY DEF BookStates
      <3>3. \A p \in Order \ {o} : StateOf(txn'[p]) = StateOf(txn[p])
        BY <1>2 DEF Works
      <3>4. QED
        BY <3>1, <3>2, <3>3 DEF BookStates
    <2>2. BookStates[o] = StateOf(txn[o])
      BY DEF BookStates
    <2>3. BookStates[o] = StateOf(txn'[o]) => BookStates' = BookStates
      BY <2>1
    <2>4. CASE txn[o].status = "none"
      <3>1. txn'[o].status \notin PaidStatus /\ Access' = Access /\ BookStates[o] = "absent"
        BY <1>2, <2>0, <2>2, <2>4, StateIs DEF Works
      <3>2. StateOf(txn'[o]) \in {"absent", "open"}
        BY <3>1, StateIs
      <3>3. QED
        BY <2>1, <2>3, <3>1, <3>2 DEF BookStep
    <2>5. CASE txn[o].status \in PaidStatus
      <3>1. /\ txn'[o].status \in PaidStatus /\ BookStates[o] = "paid"
            /\ Access' = Access \/ Access' = Access \cup {RegOf[o]}
        BY <1>2, <2>0, <2>2, <2>5, StateIs DEF Works, IsPaid
      <3>2. BookStates' = BookStates
        BY <2>3, <3>1, StateIs
      <3>3. QED
        BY <3>1, <3>2 DEF BookStep
    <2>6. CASE txn[o].status # "none" /\ txn[o].status \notin PaidStatus
      <3>1. /\ txn'[o].status # "none" /\ BookStates[o] = "open"
            /\ txn'[o].status \notin PaidStatus => Access' = Access
            /\ Access' \in {Access, Access \cup {RegOf[o]}}
        BY <1>2, <2>0, <2>2, <2>6, StateIs DEF Works
      <3>2. CASE txn'[o].status \in PaidStatus
        BY <2>1, <3>1, <3>2, StateIs DEF BookStep
      <3>3. CASE txn'[o].status \notin PaidStatus
        BY <2>3, <3>1, <3>3, StateIs DEF BookStep
      <3>4. QED
        BY <3>2, <3>3
    <2>7. QED
      BY <2>4, <2>5, <2>6
  <1>3. ASSUME NEW o \in Order, WebhookFailed(o) PROVE BookStep
    <2>1. /\ \A p \in Order \ {o} : txn'[p] = txn[p]
          /\ txn'[o].status = "failed" /\ txn[o].status # "none" /\ Access' = Access
      BY <1>3, FailedBook DEF Books, Access
    <2>2. ~IsPaid(o)
      BY <1>3 DEF WebhookFailed, Books, MoneyInv, NothingForFree
    <2>3. StateOf(txn[o]) = "open" /\ StateOf(txn'[o]) = "open"
      BY <2>1, <2>2, StateIs DEF IsPaid, PaidStatus
    <2>4. \A p \in Order : StateOf(txn'[p]) = StateOf(txn[p])
      BY <2>1, <2>3
    <2>5. QED
      BY <2>1, <2>4 DEF BookStep, BookStates
  <1>4. QED
    BY <1>1, <1>2, <1>3, NextBook

LEMMA InitBook == Init => BookInv
  <1> SUFFICES ASSUME Init PROVE BookInv
    OBVIOUS
  <1>1. /\ Idle.pc = "idle" /\ Idle.call = "none" /\ Idle.seen = "unread"
        /\ \A t \in Thread : thread[t] = Idle
    BY DEF Init, Idle
  <1>2. QED
    BY <1>1 DEF Init, BookInv, Fits, Created, Copied, HoldsUnpaid, NoneUnsent, Seats

LEMMA BookInvariant == Spec => [](TypeOK /\ MoneyInv /\ BookInv)
  <1>1. Init => TypeOK /\ MoneyInv /\ BookInv
    BY InitType, InitMoney, InitBook
  <1>2. TypeOK /\ MoneyInv /\ BookInv /\ [Next]_vars => TypeOK' /\ MoneyInv' /\ BookInv'
    BY NextType, NextMoney, NextBook DEF Books
  <1>3. QED
    BY <1>1, <1>2, PTL DEF Spec

\* What a customer may rely on: orders go from absent over open to paid, never
\* back, and access comes from a paid order and stays, whichever of the webhook
\* and the verify endpoints is first and whatever raises or dies. Access is is_paid,
\* or that a payment came while a request was still to save the registration as it
\* had read it. It needs that failures are delivered before authorizations.
THEOREM ImplementsOrderBook == ASSUME FailuresFirst PROVE Spec => KeepsTheBook
  <1>1. Init => Abstract!Init
    BY InitRefines DEF Abstract!Init, BookStates, StateOf, IsPaid
  <1>2. BookStep => [Abstract!Next]_<<BookStates, Access>>
    BY DEF BookStep, Abstract!Next, Abstract!Open, Abstract!Pay, Abstract!Grant,
           BookStates, StateOf, IsPaid
  <1>3. TypeOK /\ MoneyInv /\ BookInv /\ TypeOK' /\ [Next]_vars => BookStep
    BY NextBookStep DEF Books
  <1>4. QED
    BY <1>1, <1>2, <1>3, BookInvariant, PTL
    DEF Spec, KeepsTheBook, Abstract!Spec, BookStates, StateOf, IsPaid

\* What is left of that when a failure may be delivered after the authorization:
\* it alone takes back that an order is paid; is_paid is taken back only by a
\* request that had read the registration unpaid before it was paid and saves it
\* after; and nobody is taken out of a course.
Undone ==
    /\ \A o \in Order : IsPaid(o) => IsPaid(o)' \/ WebhookFailed(o)
    /\ \A r \in paid \ paid' : \E t \in Thread : HoldsUnpaid(t, r) /\ SaveRegistration(t)
    /\ enrolled \subseteq enrolled' /\ Access \subseteq Access'

UndoneByFailuresOnly == [][Undone]_vars

LEMMA NextKeeps == ASSUME Books, [Next]_vars PROVE Undone
  <1>1. ASSUME NEW t \in Thread, NEW o \in Order, Works(t, o)
        PROVE  /\ Access \subseteq Access' /\ enrolled \subseteq enrolled'
               /\ \A p \in Order : IsPaid(p) => IsPaid(p)'
    <2>1. \A p \in Order \ {o} : IsPaid(p) => IsPaid(p)'
      BY <1>1 DEF Works, IsPaid
    <2>2. IsPaid(o) => IsPaid(o)'
      BY <1>1 DEF Works, IsPaid
    <2>3. enrolled \subseteq enrolled'
      BY <1>1 DEF Works, Gives, Saves
    <2>4. QED
      BY <1>1, <2>1, <2>2, <2>3, WorksHold
  <1>2. CASE UNCHANGED <<txn, paid, overtaken, enrolled>>
    BY <1>2 DEF Undone, Access, IsPaid
  <1>3. ASSUME NEW o \in Order, WebhookFailed(o)
        PROVE  /\ UNCHANGED <<paid, overtaken, enrolled>>
               /\ \A p \in Order \ {o} : IsPaid(p) => IsPaid(p)'
    BY <1>3, FailedBook DEF Books, IsPaid
  <1>4. \A r \in paid \ paid' : \E t \in Thread : HoldsUnpaid(t, r) /\ SaveRegistration(t)
    <2>1. ASSUME NEW t \in Thread, SaveRegistration(t)
          PROVE  \A r \in paid \ paid' : HoldsUnpaid(t, r)
      BY <2>1, SaveBook DEF Books
    <2>2. ASSUME NEW t \in Thread, Progress(t), ~SaveRegistration(t) PROVE paid \subseteq paid'
      BY <2>2 DEF Progress, CreateTransaction, ReadRegistration, SendMail, Commit, Register, Pays,
         VerifySave, SignalInvoice, SignalLink, InvoiceAgain, Grant
    <2>3. ASSUME NEW t \in Thread, Fault(t) PROVE paid' = paid
      BY <2>3 DEF Fault, RegistrationRaises, DatabaseError, CacheError, Crash
    <2>4. ASSUME NEW t \in Thread, NEW o \in Order, Client(t, o) PROVE paid' = paid
      BY <2>4 DEF Client, CheckRegistered, ReadToSave, VerifyLocked, VerifyRead
    <2>5. ASSUME NEW t \in Thread, NEW o \in Order, NEW e \in PaidEvent, Webhook(t, o, e)
          PROVE  paid' = paid
      BY <2>5 DEF Webhook, WebhookSkip, WebhookRecheck, WebhookBegin
    <2>6. ASSUME NEW o \in Order, Gateway(o) \/ WebhookFailed(o) PROVE paid' = paid
      BY <2>6 DEF Gateway, PaymentFails, PaymentAuthorized, PaymentCaptured, WebhookFailed
    <2>7. QED
      BY <2>1, <2>2, <2>3, <2>4, <2>5, <2>6 DEF Next, vars
  <1>5. \A o \in Order : IsPaid(o) => IsPaid(o)' \/ WebhookFailed(o)
    BY <1>1, <1>2, <1>3, NextBook DEF IsPaid
  <1>6. enrolled \subseteq enrolled' /\ Access \subseteq Access'
    BY <1>1, <1>2, <1>3, NextBook DEF Access
  <1>7. QED
    BY <1>4, <1>5, <1>6 DEF Undone

\* An order is unpaid again only by a payment.failed event (razorpay_service.py:173);
\* a registration only by a request that saves the row it had read before the
\* payment (ebook/views.py:775-813, 331, webinar/views.py:1971, 2466); and a seat in
\* a course stays, in whatever order events come and requests overlap.
THEOREM AccessIsKept == Spec => UndoneByFailuresOnly
  <1>1. TypeOK /\ MoneyInv /\ BookInv /\ TypeOK' /\ [Next]_vars => [Undone]_vars
    BY NextKeeps DEF Books
  <1>2. QED
    BY <1>1, BookInvariant, PTL DEF Spec, UndoneByFailuresOnly

-----------------------------------------------------------------------------
(* What is paid is fulfilled: as long as nothing raised or died, whatever a *)
(* paid order still lacks is about to be given by a request about it.      *)

NoFault == faults["raise"] + faults["crash"] = 0
Whole == {"student", "invoice"}
Granting == {"invoice", "link", "lookup", "grant"}
About(o) == \E t \in Thread : thread[t].order = o /\ thread[t].pc \in Granting

Invoiced(o) == \/ "invoice" \in txn[o].has
               \/ \E t \in Thread : /\ thread[t].order = o /\ thread[t].pc = "invoice"
                                    /\ "invoice" \notin thread[t].copy.has

Given(o) == /\ Kind[o] = "plain" => "student" \in txn[o].has
            /\ Kind[o] = "ebook" => Whole \subseteq txn[o].has /\ RegOf[o] \in Access
            /\ Kind[o] = "webinar" =>
                 \/ /\ "student" \in txn[o].has /\ o \in reports
                    /\ RegOf[o] \in enrolled
                 \/ About(o)

\* an order that is paid, or for which a request is about to give something
Served(o) == /\ IsPaid(o) \/ About(o) => Invoiced(o)
             /\ IsPaid(o) => Given(o)
             /\ Kind[o] = "plain" /\ txn[o].status # "none" => "student" \in txn[o].has

\* what a request will write is complete, as far as it does not see to the rest
Complete(r) == /\ r.seen # "raised"
               /\ r.pc \in {"read", "mail", "commit"} => Whole \subseteq r.copy.has
               /\ r.pc = "stale" /\ Kind[r.order] = "plain" => "student" \in r.copy.has

FulfilInv == NoFault => /\ \A o \in Order : Served(o)
                        /\ \A t \in Thread : Complete(thread[t])

LEMMA FaultsCount ==
  ASSUME TypeOK, TypeOK', [Next]_vars, NoFault'
  PROVE  NoFault /\ ~Raises /\ faults' = faults
  <1>1. /\ faults \in [{"raise", "crash"} -> Nat] /\ faults' \in [{"raise", "crash"} -> Nat]
        /\ faults'["raise"] = 0 /\ faults'["crash"] = 0
    BY DEF TypeOK, NoFault
  <1>2. ~Raises
    BY <1>1 DEF Raises
  <1>3. ASSUME NEW t \in Thread, Crash(t) PROVE FALSE
    BY <1>1, <1>3 DEF Crash
  <1>4. ASSUME NEW t \in Thread, Progress(t) PROVE faults' = faults
    BY <1>2, <1>4 DEF Progress, CreateTransaction, SaveRegistration, ReadRegistration, SendMail,
       Commit, VerifySave, SignalInvoice, SignalLink, InvoiceAgain, Grant
  <1>5. ASSUME NEW t \in Thread, Fault(t) PROVE faults' = faults
    BY <1>2, <1>3, <1>5 DEF Fault, RegistrationRaises, DatabaseError, CacheError
  <1>6. ASSUME NEW t \in Thread, NEW o \in Order, Client(t, o) PROVE faults' = faults
    BY <1>2, <1>6 DEF Client, CheckRegistered, ReadToSave, VerifyLocked, VerifyRead, InvoiceOrRaise
  <1>7. ASSUME NEW t \in Thread, NEW o \in Order, NEW e \in PaidEvent, Webhook(t, o, e)
        PROVE  faults' = faults
    BY <1>2, <1>7 DEF Webhook, WebhookSkip, WebhookRecheck, WebhookBegin, InvoiceOrRaise
  <1>8. ASSUME NEW o \in Order, Gateway(o) \/ WebhookFailed(o)
        PROVE  faults' = faults
    BY <1>8 DEF Gateway, PaymentFails, PaymentAuthorized, PaymentCaptured, WebhookFailed
  <1>9. faults' = faults
    BY <1>4, <1>5, <1>6, <1>7, <1>8 DEF Next, vars
  <1>10. QED
    BY <1>1, <1>2, <1>9 DEF NoFault

\* orders that a step does not work on
LEMMA OthersServed ==
  ASSUME Books, NEW t \in Thread, NEW o \in Order, Works(t, o),
         reports \subseteq reports', enrolled \subseteq enrolled',
         NEW p \in Order, p # o, Served(p)
  PROVE  Served(p)'
  <1>1. txn'[p] = txn[p] /\ Access \subseteq Access'
    BY WorksHold DEF Works
  <1>2. About(p)' <=> About(p)
    BY DEF About, Works, Granting
  <1>3. Invoiced(p) => Invoiced(p)'
    BY <1>1 DEF Invoiced, Works
  <1>4. Given(p) => Given(p)'
    BY <1>1, <1>2 DEF Given
  <1>5. QED
    BY <1>1, <1>2, <1>3, <1>4 DEF Served, IsPaid

\* a step of one request keeps the invariant if it serves its order and
\* leaves the request complete
LEMMA WorkServes ==
  ASSUME Books, NoFault, FulfilInv, NEW t \in Thread, NEW o \in Order, Works(t, o),
         reports \subseteq reports', enrolled \subseteq enrolled',
         Served(o)', Complete(thread'[t])
  PROVE  FulfilInv'
  <1>1. \A p \in Order : Served(p)'
    BY OthersServed DEF FulfilInv
  <1>2. \A u \in Thread : Complete(thread'[u])
    BY DEF FulfilInv, Works
  <1>3. QED
    BY <1>1, <1>2 DEF FulfilInv, Complete

\* its order is served as before if what is given stays, and neither what the
\* request was about to give nor that it was about to give it matters
LEMMA StillServed ==
  ASSUME Books, NoFault, FulfilInv, NEW t \in Thread, NEW o \in Order, Works(t, o),
         thread[t].pc \notin {"create", "stale", "invoice", "grant", "commit"},
         thread'[t].pc \notin {"invoice"},
         thread[t].pc \in Granting => thread'[t].pc \in Granting,
         thread'[t].pc \in Granting => thread[t].pc \in Granting,
         txn[o].has \subseteq txn'[o].has, txn'[o].status = txn[o].status,
         reports \subseteq reports', enrolled \subseteq enrolled'
  PROVE  Served(o)'
  <1>1. Served(o) /\ Access \subseteq Access'
    BY WorksHold DEF FulfilInv
  <1>2. About(o)' <=> About(o)
    BY DEF About, Works, Granting
  <1>3. Invoiced(o) => Invoiced(o)'
    BY DEF Invoiced, Works
  <1>4. Given(o) => Given(o)'
    BY <1>1, <1>2 DEF Given, Whole
  <1>5. QED
    BY <1>1, <1>2, <1>3, <1>4 DEF Served, IsPaid

Works0 == Books /\ NoFault /\ NoFault' /\ FulfilInv /\ ~Raises /\ faults' = faults

LEMMA CreateServes ==
  ASSUME Works0, NEW t \in Thread, CreateTransaction(t) PROVE FulfilInv'
  <1> PICK o \in Order : o = OrderAt(t)
    BY Current DEF Works0
  <1>1. /\ Works(t, o) /\ thread[t].pc = "create" /\ thread'[t].pc \in {"idle", "save"}
        /\ txn'[o].status \notin PaidStatus /\ thread'[t].seen # "raised"
        /\ Kind[o] = "plain" => "student" \in txn'[o].has
    BY CreateBook DEF Works0, Books
  <1>2. \A u \in Thread : thread'[u].order = o => thread'[u].pc \notin Granting
    <2>1. thread[t].call = "create" /\ Created(t)
      BY <1>1 DEF Works0, Books, BookInv, Fits
    <2>2. \A u \in Thread \ {t} : thread'[u] = thread[u]
                                 /\ (thread[u].order = o => thread[u].pc = "idle")
      BY <1>1, <2>1 DEF Created, Works, At, OrderAt
    <2>3. QED
      BY <1>1, <2>2 DEF Granting
  <1>3. Served(o)'
    BY <1>1, <1>2 DEF Served, IsPaid, About
  <1>4. Complete(thread'[t]) /\ UNCHANGED <<reports, enrolled>>
    BY <1>1 DEF Complete, CreateTransaction
  <1>5. QED
    BY <1>1, <1>3, <1>4, WorkServes DEF Works0

LEMMA MovesServe ==
  ASSUME Works0, NEW t \in Thread,
         SaveRegistration(t) \/ ReadRegistration(t) \/ SendMail(t) \/ SignalLink(t) \/ InvoiceAgain(t)
  PROVE  FulfilInv'
  <1> PICK o \in Order : o = OrderAt(t) /\ o = thread[t].order
    BY Current DEF Works0
  <1>0. Complete(thread[t]) /\ Books
    BY DEF Works0, FulfilInv
  <1>a. ASSUME Has(o, "student") \/ Has(o, "invoice") \/ UNCHANGED txn
        PROVE  txn[o].has \subseteq txn'[o].has /\ txn'[o].status = txn[o].status
    <2>1. txn'[o].status = txn[o].status
      BY <1>0, <1>a, HasWorks DEF Books
    <2>2. txn[o].has \subseteq txn'[o].has
      BY <1>0, <1>a DEF Has, Books, TypeOK, Row
    <2>3. QED
      BY <2>1, <2>2
  <1>1. CASE SaveRegistration(t)
    <2>1. /\ Works(t, o) /\ thread[t].pc \in {"first", "save"} /\ thread'[t].pc \in {"idle", "create"}
          /\ Has(o, "student") \/ UNCHANGED txn
          /\ UNCHANGED <<reports, enrolled>> /\ thread'[t].seen # "raised"
      BY <1>0, <1>1, SaveBook DEF Books, SaveRegistration
    <2>2. Served(o)' /\ Complete(thread'[t])
      BY <1>a, <2>1, StillServed DEF Works0, Granting, Complete
    <2>3. QED
      BY <2>1, <2>2, WorkServes DEF Works0
  <1>2. CASE ReadRegistration(t)
    <2>1. Works(t, o) /\ UNCHANGED <<txn, reports, enrolled>>
      BY <1>0, <1>2, ReadBook DEF ReadRegistration
    <2>2. /\ thread'[t].seen # "raised" /\ thread'[t].copy = thread[t].copy
          /\ \/ thread[t].pc = "lookup" /\ thread'[t].pc = "grant"
             \/ thread[t].pc = "read" /\ thread'[t].pc \in {"mail", "commit"}
      BY <1>0, <1>2, ReadBook DEF Moved
    <2>3. Served(o)'
      BY <2>1, <2>2, StillServed DEF Works0, Granting
    <2>4. Complete(thread'[t])
      BY <1>0, <2>2 DEF Complete
    <2>5. QED
      BY <2>1, <2>3, <2>4, WorkServes DEF Works0
  <1>3. CASE SendMail(t)
    <2>1. /\ Works(t, o) /\ UNCHANGED <<txn, reports, enrolled>> /\ thread[t].pc = "mail"
          /\ Goes(t, "commit", thread[t].seen)
      BY <1>0, <1>3, SendMailBook DEF SendMail
    <2>2. Served(o)'
      BY <2>1, StillServed DEF Works0, Granting, Goes, Moved
    <2>3. Complete(thread'[t])
      BY <1>0, <2>1 DEF Complete, Goes, Moved
    <2>4. QED
      BY <2>1, <2>2, <2>3, WorkServes DEF Works0
  <1>4. CASE SignalLink(t)
    <2>1. /\ Works(t, o) /\ Has(o, "student") /\ thread[t].pc = "link"
          /\ reports \subseteq reports' /\ enrolled' = enrolled
          /\ Moved(t, "lookup", thread[t].order, thread[t].call, thread[t].copy, thread[t].seen)
      BY <1>0, <1>4, LinkBook DEF SignalLink
    <2>2. Served(o)'
      BY <1>a, <2>1, StillServed DEF Works0, Granting, Moved
    <2>3. Complete(thread'[t])
      BY <1>0, <2>1 DEF Complete, Moved
    <2>4. QED
      BY <2>1, <2>2, <2>3, WorkServes DEF Works0
  <1>5. CASE InvoiceAgain(t)
    <2>1. /\ Works(t, o)
          /\ Has(o, "invoice") \/ UNCHANGED txn
          /\ UNCHANGED <<reports, enrolled>> /\ thread[t].pc = "again"
          /\ Moved(t, "idle", Idle.order, "none", NoRow, "unread")
      BY <1>0, <1>5, AgainBook DEF InvoiceAgain
    <2>2. Served(o)'
      BY <1>a, <2>1, StillServed DEF Works0, Granting, Moved
    <2>3. Complete(thread'[t])
      BY <2>1 DEF Complete, Moved
    <2>4. QED
      BY <2>1, <2>2, <2>3, WorkServes DEF Works0
  <1>6. QED
    BY <1>1, <1>2, <1>3, <1>4, <1>5

LEMMA CommitServes ==
  ASSUME Works0, NEW t \in Thread, Commit(t) PROVE FulfilInv'
  <1> PICK o \in Order : o = OrderAt(t) /\ o = thread[t].order
    BY Current DEF Works0
  <1>0. Complete(thread[t]) /\ Books
    BY DEF Works0, FulfilInv
  <1>1. /\ Works(t, o) /\ thread[t].pc = "commit"
        /\ Moved(t, "idle", Idle.order, "none", NoRow, "unread")
        /\ thread[t].copy.has \subseteq txn'[o].has
        /\ Kind[o] = "ebook" => RegOf[o] \in Access'
        /\ Kind[o] = "webinar" /\ thread[t].seen # "raised" =>
             "student" \in txn'[o].has /\ o \in reports' /\ RegOf[o] \in enrolled'
    BY <1>0, CommitBook
  <1>2. Whole \subseteq txn'[o].has /\ thread[t].seen # "raised"
    BY <1>0, <1>1 DEF Complete
  <1>3. Invoiced(o)' /\ Given(o)'
    BY <1>1, <1>2 DEF Invoiced, Given, Whole
  <1>4. Served(o)'
    BY <1>2, <1>3 DEF Served, Whole
  <1>5. Complete(thread'[t])
    BY <1>1 DEF Complete, Moved
  <1>6. reports \subseteq reports' /\ enrolled \subseteq enrolled'
    BY DEF Commit, Register, SignalReports
  <1>7. QED
    BY <1>1, <1>4, <1>5, <1>6, WorkServes DEF Works0

LEMMA VerifySaveServes ==
  ASSUME Works0, NEW t \in Thread, VerifySave(t) PROVE FulfilInv'
  <1> PICK o \in Order : o = OrderAt(t) /\ o = thread[t].order
    BY Current DEF Works0
  <1>0. Complete(thread[t]) /\ Books
    BY DEF Works0, FulfilInv
  <1>1. /\ Works(t, o) /\ thread[t].pc = "stale" /\ Kind[o] # "ebook"
        /\ txn'[o].has = thread[t].copy.has
        /\ Moved(t, "invoice", o, thread[t].call, thread[t].copy, thread[t].seen)
    BY <1>0, VerifySaveBook
  <1>2. About(o)' /\ Invoiced(o)'
    BY <1>1 DEF About, Invoiced, Granting, Moved
  <1>3. Kind[o] = "plain" => "student" \in txn'[o].has
    BY <1>0, <1>1 DEF Complete
  <1>4. Served(o)'
    BY <1>1, <1>2, <1>3 DEF Served, Given
  <1>5. Complete(thread'[t]) /\ UNCHANGED <<reports, enrolled>>
    BY <1>0, <1>1 DEF Complete, Moved, VerifySave
  <1>6. QED
    BY <1>1, <1>4, <1>5, WorkServes DEF Works0

LEMMA InvoiceServes ==
  ASSUME Works0, NEW t \in Thread, SignalInvoice(t) PROVE FulfilInv'
  <1> PICK o \in Order : o = OrderAt(t) /\ o = thread[t].order
    BY Current DEF Works0
  <1>0. Complete(thread[t]) /\ Books /\ Served(o)
    BY DEF Works0, FulfilInv
  <1>1. /\ Works(t, o) /\ thread[t].pc = "invoice"
        /\ Kind[o] = "webinar" => thread'[t].pc = "link" /\ thread'[t].order = o
        /\ thread'[t].pc \in {"link", "again"} /\ thread'[t].seen = thread[t].seen
    BY <1>0, InvoiceBook
  <1>2. \/ Has(o, "invoice")
        \/ "invoice" \in thread[t].copy.has /\ txn' = txn
    BY DEF SignalInvoice, Works0
  <1>3. /\ txn[o].has \subseteq txn'[o].has /\ txn'[o].status = txn[o].status
        /\ Has(o, "invoice") => "invoice" \in txn'[o].has
    <2>1. txn'[o].status = txn[o].status
      BY <1>0, <1>2, HasWorks DEF Books
    <2>2. /\ txn[o].has \subseteq txn'[o].has
          /\ Has(o, "invoice") => "invoice" \in txn'[o].has
      BY <1>0, <1>2 DEF Has, Books, TypeOK, Row
    <2>3. QED
      BY <2>1, <2>2
  <1>4. Invoiced(o)'
    <2>1. Invoiced(o)
      BY <1>0, <1>1 DEF Served, About, Granting
    <2>2. CASE Has(o, "invoice")
      BY <1>3, <2>2 DEF Invoiced
    <2>3. CASE "invoice" \in thread[t].copy.has /\ txn' = txn
      BY <1>1, <2>1, <2>3 DEF Invoiced, Works
    <2>4. QED
      BY <1>2, <2>2, <2>3
  <1>5. Kind[o] # "ebook" /\ (Kind[o] = "webinar" => About(o)')
    BY <1>0, <1>1, Current DEF Fits, About, Granting
  <1>6. Served(o)'
    BY <1>0, <1>3, <1>4, <1>5 DEF Served, Given, IsPaid
  <1>7. Complete(thread'[t]) /\ UNCHANGED <<reports, enrolled>>
    BY <1>0, <1>1 DEF Complete, SignalInvoice
  <1>8. QED
    BY <1>1, <1>6, <1>7, WorkServes DEF Works0

LEMMA GrantServes ==
  ASSUME Works0, NEW t \in Thread, Grant(t) PROVE FulfilInv'
  <1> PICK o \in Order : o = OrderAt(t) /\ o = thread[t].order
    BY Current DEF Works0
  <1>0. Books /\ Served(o)
    BY DEF Works0, FulfilInv
  <1>1. /\ Works(t, o) /\ thread[t].pc = "grant" /\ Kind[o] = "webinar"
        /\ Moved(t, "idle", Idle.order, "none", NoRow, "unread")
        /\ txn[o].has \subseteq txn'[o].has
        /\ "student" \in txn'[o].has /\ o \in reports' /\ RegOf[o] \in enrolled'
    BY <1>0, GrantBook
  <1>2. Invoiced(o)'
    <2>1. Invoiced(o)
      BY <1>0, <1>1 DEF Served, About, Granting
    <2>2. QED
      BY <1>1, <2>1 DEF Invoiced, Works
  <1>3. Served(o)'
    BY <1>1, <1>2 DEF Served, Given
  <1>4. Complete(thread'[t])
    BY <1>1 DEF Complete, Moved
  <1>5. reports \subseteq reports' /\ enrolled \subseteq enrolled'
    BY DEF Grant, Register
  <1>6. QED
    BY <1>1, <1>3, <1>4, <1>5, WorkServes DEF Works0

\* requests that begin: what they copied or saved is complete
LEMMA BeginServes ==
  ASSUME Works0, NEW t \in Thread, NEW o \in Order, Works(t, o), thread[t].pc = "idle",
         UNCHANGED <<txn, reports, enrolled>>,
         NEW label \in {"first", "create", "save", "read", "commit", "stale"}, NEW call, NEW copy,
         NEW seen, seen # "raised", Moved(t, label, o, call, copy, seen),
         label \in {"read", "commit"} => Whole \subseteq copy.has,
         label = "stale" /\ Kind[o] = "plain" => "student" \in copy.has
  PROVE  FulfilInv'
  <1>1. Complete(thread'[t])
    BY DEF Complete, Moved
  <1>2. Served(o)'
    BY StillServed DEF Works0, Granting, Moved
  <1>3. QED
    BY <1>1, <1>2, WorkServes DEF Works0

LEMMA ClientServes ==
  ASSUME Works0, NEW t \in Thread, NEW o \in Order, Client(t, o) PROVE FulfilInv'
  <1>0. Served(o) /\ Books /\ ~Raises
    BY DEF Works0, FulfilInv
  <1>1. CASE CheckRegistered(t, o)
    <2>1. Works(t, o) /\ thread[t].pc = "idle" /\ UNCHANGED <<txn, reports, enrolled>>
      BY <1>0, <1>1, CheckBook DEF Books, CheckRegistered, At
    <2>2. PICK label \in {"first", "create"}, seen \in {"unread", "unpaid"} :
            Moved(t, label, o, "create", NoRow, seen)
      BY <1>0, <1>1, CheckBook DEF Books
    <2>3. QED
      BY <2>1, <2>2, BeginServes
  <1>1r. CASE ReadToSave(t, o)
    <2>1. Works(t, o) /\ thread[t].pc = "idle" /\ UNCHANGED <<txn, reports, enrolled>>
      BY <1>0, <1>1r, ResaveBook DEF Books, ReadToSave, At
    <2>2. PICK seen \in {"paid", "unpaid"} : Moved(t, "save", o, "resave", NoRow, seen)
      BY <1>0, <1>1r, ResaveBook DEF Books
    <2>3. QED
      BY <2>1, <2>2, BeginServes
  <1>2. CASE VerifyLocked(t, o)
    <2>1. /\ Works(t, o) /\ Kind[o] = "ebook" /\ thread[t].pc = "idle"
          /\ UNCHANGED <<txn, reports, enrolled>>
      BY <1>0, <1>2, VerifyLockedBook DEF VerifyLocked, At
    <2>2. PICK copy : /\ Moved(t, "read", o, "verify", copy, "unread")
                      /\ \/ copy = txn[o] /\ IsPaid(o)
                         \/ copy.has = txn[o].has \cup {"student", "invoice"}
      BY <1>0, <1>2, VerifyLockedBook
    <2>3. Whole \subseteq copy.has
      BY <1>0, <2>1, <2>2 DEF Served, Given, Whole
    <2>4. QED
      BY <2>1, <2>2, <2>3, BeginServes
  <1>3. CASE VerifyRead(t, o)
    <2>1. /\ Works(t, o) /\ Moved(t, "stale", o, "verify", txn[o], "unread")
          /\ thread[t].pc = "idle" /\ UNCHANGED <<txn, reports, enrolled>> /\ Money(o)
      BY <1>0, <1>3, VerifyReadBook DEF VerifyRead, At
    <2>2. Kind[o] = "plain" => "student" \in txn[o].has
      BY <1>0, <2>1, NobodyCreates DEF Served, Books
    <2>3. QED
      BY <2>1, <2>2, BeginServes
  <1>4. QED
    BY <1>1, <1>1r, <1>2, <1>3 DEF Client

LEMMA StaysServed ==
  ASSUME FulfilInv, NoFault, UNCHANGED <<txn, paid, overtaken, reports, enrolled, thread>> PROVE FulfilInv'
  BY DEF FulfilInv, Served, Complete, About, Invoiced, Given, IsPaid, Access

LEMMA WebhookServes ==
  ASSUME Works0, NEW t \in Thread, NEW o \in Order, NEW e \in PaidEvent, Webhook(t, o, e)
  PROVE  FulfilInv'
  <1>0. Served(o) /\ Books /\ ~Raises /\ NoFault /\ FulfilInv
    BY DEF Works0, FulfilInv
  <1>1. CASE WebhookSkip(o, e)
    BY <1>0, <1>1, StaysServed DEF WebhookSkip
  <1>2. CASE WebhookRecheck(t, o, e)
    <2>1. /\ Works(t, o) /\ Kind[o] = "ebook" /\ IsPaid(o)
          /\ Moved(t, "read", o, e, txn[o], "unread")
          /\ thread[t].pc = "idle" /\ UNCHANGED <<txn, reports, enrolled>>
      BY <1>0, <1>2, RecheckBook DEF WebhookRecheck, At
    <2>2. QED
      BY <1>0, <2>1, BeginServes DEF Served, Given
  <1>3. CASE WebhookBegin(t, o, e)
    <2>1. /\ Works(t, o) /\ thread[t].pc = "idle" /\ UNCHANGED <<txn, reports, enrolled>>
      BY <1>0, <1>3, WebhookBook DEF WebhookBegin, At
    <2>2. PICK copy, label : /\ label \in {"read", "commit"}
                             /\ Moved(t, label, o, e, copy, "unread")
                             /\ copy.has = txn[o].has \cup {"student", "invoice"}
      BY <1>0, <1>3, WebhookBook
    <2>3. Whole \subseteq copy.has
      BY <2>2 DEF Whole
    <2>4. QED
      BY <2>1, <2>2, <2>3, BeginServes
  <1>4. QED
    BY <1>1, <1>2, <1>3 DEF Webhook

LEMMA FailedServes ==
  ASSUME Works0, NEW o \in Order, WebhookFailed(o) PROVE FulfilInv'
  <1>1. /\ \A p \in Order \ {o} : txn'[p] = txn[p]
        /\ txn'[o].status = "failed" /\ txn'[o].has = txn[o].has /\ txn[o].status # "none"
        /\ UNCHANGED <<paid, overtaken, reports, enrolled, thread>>
    BY FailedBook DEF Works0, Books, WebhookFailed
  <1>2. txn'[o].status \notin PaidStatus
    BY <1>1 DEF PaidStatus
  <1>3. ASSUME NEW p \in Order PROVE Served(p)'
    <2>1. Served(p) /\ txn'[p].has = txn[p].has
      BY <1>1 DEF Works0, FulfilInv
    <2>2. (About(p)' <=> About(p)) /\ (Invoiced(p) => Invoiced(p)') /\ (Given(p) => Given(p)')
      BY <1>1, <2>1 DEF About, Invoiced, Given, Access
    <2>3. /\ IsPaid(p)' => IsPaid(p)
          /\ txn'[p].status # "none" => txn[p].status # "none"
      BY <1>1, <1>2 DEF IsPaid
    <2>4. QED
      BY <2>1, <2>2, <2>3 DEF Served
  <1>4. \A t \in Thread : Complete(thread[t])'
    BY <1>1 DEF Works0, FulfilInv, Complete
  <1>5. QED
    BY <1>3, <1>4 DEF FulfilInv

LEMMA NextFulfil == ASSUME Books, FulfilInv, [Next]_vars PROVE FulfilInv'
  <1> SUFFICES ASSUME NoFault' PROVE FulfilInv'
    BY DEF FulfilInv
  <1>1. Works0
    BY FaultsCount DEF Works0, Books
  <1>2. ASSUME NEW t \in Thread, Progress(t) PROVE FulfilInv'
    BY <1>1, <1>2, CreateServes, MovesServe, CommitServes, VerifySaveServes, InvoiceServes,
       GrantServes DEF Progress
  <1>3. ASSUME NEW t \in Thread, Fault(t) PROVE FulfilInv'
    <2>1. ~Crash(t)
      BY <1>1 DEF Works0, Crash, Books, TypeOK
    <2>2. QED
      BY <1>1, <1>3, <2>1
      DEF Works0, Fault, RegistrationRaises, DatabaseError, CacheError
  <1>4. ASSUME NEW o \in Order, Gateway(o) PROVE FulfilInv'
    BY <1>1, <1>4, StaysServed DEF Works0, Gateway, PaymentFails, PaymentAuthorized, PaymentCaptured
  <1>5. CASE UNCHANGED vars
    BY <1>1, <1>5, StaysServed DEF Works0, vars
  <1>6. QED
    BY <1>1, <1>2, <1>3, <1>4, <1>5, ClientServes, WebhookServes, FailedServes DEF Next

LEMMA FulfilInvariant == Spec => [](TypeOK /\ MoneyInv /\ BookInv /\ FulfilInv)
  <1>1. Init => TypeOK /\ MoneyInv /\ BookInv /\ FulfilInv
    <2>1. Init => FulfilInv
      <3> SUFFICES ASSUME Init PROVE FulfilInv
        OBVIOUS
      <3>1. /\ \A o \in Order : txn[o].status = "none"
            /\ \A t \in Thread : thread[t].pc = "idle" /\ thread[t].seen = "unread"
        BY DEF Init, NoRow, Idle
      <3>2. \A o \in Order : ~IsPaid(o) /\ ~About(o)
        BY <3>1 DEF IsPaid, About, PaidStatus, Granting
      <3>3. \A o \in Order : Served(o)
        BY <3>1, <3>2 DEF Served
      <3>4. \A t \in Thread : Complete(thread[t])
        BY <3>1 DEF Complete
      <3>5. QED
        BY <3>3, <3>4 DEF FulfilInv
    <2>2. QED
      BY <2>1, InitType, InitMoney, InitBook
  <1>2. /\ TypeOK /\ MoneyInv /\ BookInv /\ FulfilInv /\ [Next]_vars
        => TypeOK' /\ MoneyInv' /\ BookInv' /\ FulfilInv'
    BY NextType, NextMoney, NextBook, NextFulfil DEF Books
  <1>3. QED
    BY <1>1, <1>2, PTL DEF Spec

\* Without faults, once the requests about a paid order have ended, nothing of
\* what was bought is missing, in whatever order webhooks and verify calls
\* overlapped (razorpay_service.py, payments/views.py and the post_save signals).
THEOREM PaidOrdersAreFulfilled == Spec => []PaidIsFulfilled
  <1>1. TypeOK /\ BookInv /\ FulfilInv => PaidIsFulfilled
    <2> SUFFICES ASSUME TypeOK, BookInv, FulfilInv, NEW o \in Order, IsPaid(o), NoFault,
                        \A t \in Thread : At(t, "idle") \/ OrderAt(t) # o
                 PROVE  /\ txn[o].has = {"student", "invoice"}
                        /\ Kind[o] # "plain" => RegOf[o] \in Access
                        /\ Kind[o] = "webinar" => o \in reports /\ RegOf[o] \in enrolled
      BY DEF PaidIsFulfilled, NoFault
    <2>1. Served(o) /\ ~About(o) /\ "invoice" \in txn[o].has
      BY DEF FulfilInv, Served, Invoiced, About, Granting, At, OrderAt
    <2>2. Kind[o] \in {"plain", "webinar", "ebook"} /\ txn[o].has \subseteq {"student", "invoice"}
      BY PaymentsAssumption DEF TypeOK, Row
    <2>3. enrolled \subseteq Access
      BY DEF BookInv, Seats
    <2>4. QED
      BY <2>1, <2>2, <2>3 DEF Served, Given, Whole
  <1>2. QED
    BY <1>1, FulfilInvariant, PTL
=============================================================================

------------------------------ MODULE Payments ------------------------------
(***************************************************************************)
(* Razorpay orders and what they buy (src/Aryu/payments, webinar, ebook):  *)
(* PaymentTransaction rows written by the create, verify and webhook       *)
(* endpoints, and the registrations, reports and mails that follow.        *)
(*                                                                         *)
(* A thread is a request in progress.  The webhook and the ebook verify    *)
(* endpoint lock the row (select_for_update) and commit at the end; the    *)
(* plain and the webinar verify endpoint read the row, save all of it      *)
(* later and commit statement by statement (ATOMIC_REQUESTS is not set).   *)
(* The gateway is external: it delivers every event it has sent any number *)
(* of times, in any order; it captures an authorized payment later or not  *)
(* at all, and the code does not wait for that.  Customers give an email   *)
(* address.  Amounts, documents, leads and message texts are abstracted.   *)
(***************************************************************************)
EXTENDS Naturals

CONSTANTS
    Order,         \* Razorpay orders, one PaymentTransaction each
    Reg,           \* registrations: (webinar, phone) or (ebook, customer)
    Thread,        \* requests in progress
    Kind,          \* Kind[o]: plain, webinar or ebook
    RegOf,         \* RegOf[o]: the registration that o pays for
    Retried,       \* the orders whose payment may fail before it succeeds
    FailuresFirst, \* payment.failed is never delivered after the authorization
    MaxRaises,     \* bound: exceptions in the invoice or in the registration
    MaxCrashes     \* bound: requests that end at any point

ASSUME PaymentsAssumption ==
    /\ Order # {}
    /\ Kind \in [Order -> {"plain", "webinar", "ebook"}]
    /\ RegOf \in [Order -> Reg]
    \* registrations of webinars and of ebooks are rows of two tables
    /\ \A o, p \in Order : Kind[o] = "webinar" /\ Kind[p] = "ebook" => RegOf[o] # RegOf[p]
    /\ Retried \subseteq Order /\ FailuresFirst \in BOOLEAN
    /\ MaxRaises \in Nat /\ MaxCrashes \in Nat

VARIABLES
    txn,       \* txn[o]: the PaymentTransaction row, as committed
    paid,      \* the registrations with is_paid
    reports,   \* the orders with a PaymentReport (transaction_id is unique)
    enrolled,  \* the registrations with an active StudentCourse
    mails,     \* mails[r]: ebook confirmation mails, two meaning several
    sent,      \* sent[o]: the events the gateway has emitted
    overtaken, \* the registrations paid while a request that had read them as
               \* unpaid was still to save them (history for Access)
    acked,     \* acked[o]: the paid events that were answered (history for FairSpec)
    thread,    \* thread[t]: program counter and locals
    faults     \* faults so far, by kind

vars == <<txn, paid, reports, enrolled, mails, sent, overtaken, acked, thread, faults>>

PaidStatus == {"captured", "done"}
Status == {"none", "pending", "failed"} \cup PaidStatus
Row == [status : Status, has : SUBSET {"student", "invoice"}]
PaidEvent == {"authorized", "captured"}
MailCap == 2

NoRow == [status |-> "none", has |-> {}]
Idle == [pc |-> "idle", order |-> CHOOSE o \in Order : TRUE, call |-> "none",
         copy |-> NoRow, seen |-> "unread"]
ThreadState ==
    [pc : {"idle", "first", "create", "save", "read", "mail", "commit",
           "stale", "invoice", "link", "again", "lookup", "grant"},
     order : Order, call : {"none", "create", "resave", "verify"} \cup PaidEvent,
     copy : Row, seen : {"unread", "unpaid", "paid", "raised"}]

TypeOK ==
    /\ txn \in [Order -> Row]
    /\ paid \in SUBSET Reg /\ enrolled \in SUBSET Reg /\ reports \in SUBSET Order
    /\ mails \in [Reg -> 0 .. MailCap]
    /\ sent \in [Order -> SUBSET ({"failed"} \cup PaidEvent)]
    /\ overtaken \in SUBSET Reg /\ acked \in [Order -> SUBSET PaidEvent]
    /\ thread \in [Thread -> ThreadState]
    /\ faults \in [{"raise", "crash"} -> Nat]

Init ==
    /\ txn = [o \in Order |-> NoRow]
    /\ paid = {} /\ enrolled = {} /\ reports = {}
    /\ mails = [r \in Reg |-> 0]
    /\ sent = [o \in Order |-> {}] /\ acked = [o \in Order |-> {}] /\ overtaken = {}
    /\ thread = [t \in Thread |-> Idle]
    /\ faults = [k \in {"raise", "crash"} |-> 0]

At(t, label) == thread[t].pc = label
OrderAt(t) == thread[t].order
RegAt(t) == RegOf[OrderAt(t)]
Goto(t, label) == thread' = [thread EXCEPT ![t].pc = label]
End(t) == thread' = [thread EXCEPT ![t] = Idle]
Begin(t, o, call, copy, label) ==
    thread' = [thread EXCEPT ![t] = [Idle EXCEPT
        !.pc = label, !.order = o, !.call = call, !.copy = copy]]
BeginHolding(t, o, call, seen, label) ==
    thread' = [thread EXCEPT ![t] = [Idle EXCEPT
        !.pc = label, !.order = o, !.call = call, !.seen = seen]]

\* the row lock of select_for_update, held to the end of the transaction
Locked(o) == \E t \in Thread :
    OrderAt(t) = o /\ thread[t].pc \in {"read", "mail", "commit"}

IsPaid(o) == txn[o].status \in PaidStatus
\* the customer's payment was authorized: from here on the code gives, and does
\* not wait for the capture
Money(o) == "authorized" \in sent[o]
Captured(o) == "captured" \in sent[o]
Has(o, thing) == txn' = [txn EXCEPT ![o].has = @ \cup {thing}]
Raises == /\ faults["raise"] < MaxRaises
          /\ faults' = [faults EXCEPT !["raise"] = @ + 1]

-----------------------------------------------------------------------------
(* Creating an order                                                        *)

\* the client knows an order when its creation is answered
Known(o) == /\ txn[o].status # "none"
            /\ \A t \in Thread : OrderAt(t) = o => thread[t].call # "create"

Reading(r) == IF r \in paid THEN "paid" ELSE "unpaid"

\* POST register or create-order.  The register endpoints check "Already
\* registered" or "Already paid"; that of ebooks makes an order for a registration
\* that has none, or whose link to it a stale save took back (the link is not
\* modelled), and keeps the row it has read
CheckRegistered(t, o) == LET r == RegOf[o] IN
    /\ At(t, "idle") /\ txn[o].status = "none"
    /\ \A u \in Thread : OrderAt(u) = o => At(u, "idle")
    /\ \/ /\ Kind[o] = "webinar" => r \notin paid
          /\ Begin(t, o, "create", NoRow, "create")
       \/ /\ Kind[o] = "ebook" /\ r \notin paid
          /\ BeginHolding(t, o, "create", "unpaid", "first")
    /\ UNCHANGED <<txn, paid, reports, enrolled, mails, sent, overtaken, acked, faults>>

\* a customer presses the reminder button, changes the password of an ebook, or
\* registers again for one and gets the order there is: the registration is read
\* and all of it will be saved
ReadToSave(t, o) ==
    /\ At(t, "idle") /\ Kind[o] # "plain" /\ Known(o)
    /\ BeginHolding(t, o, "resave", Reading(RegOf[o]), "save")
    /\ UNCHANGED <<txn, paid, reports, enrolled, mails, sent, overtaken, acked, faults>>

\* the pending row; a plain order belongs to a student who is signed in.  The
\* webinar endpoint then reads the registration (or is about to create it), and
\* the register endpoint of ebooks saves the one it has
CreateTransaction(t) == LET o == OrderAt(t) IN
    /\ At(t, "create")
    /\ txn' = [txn EXCEPT ![o] = [status |-> "pending",
                 has |-> IF Kind[o] = "plain" THEN {"student"} ELSE {}]]
    /\ IF Kind[o] = "webinar"
       THEN thread' = [thread EXCEPT ![t].pc = "save", ![t].seen = Reading(RegOf[o])]
       ELSE IF thread[t].seen = "unpaid" THEN Goto(t, "save") ELSE End(t)
    /\ UNCHANGED <<paid, reports, enrolled, mails, sent, overtaken, acked, faults>>

\* registration.save() writes every column, is_paid as it was read; the
\* post_save signal links the student of a paid webinar registration.  Ebooks
\* save before the order as well as after it
SaveRegistration(t) == LET me == thread[t] IN
    /\ At(t, "first") \/ At(t, "save")
    /\ paid' = IF me.seen = "paid" THEN paid \cup {RegAt(t)} ELSE paid \ {RegAt(t)}
    /\ IF me.seen = "paid" /\ Kind[me.order] = "webinar"
       THEN Has(me.order, "student")
       ELSE UNCHANGED txn
    /\ IF At(t, "first") THEN Goto(t, "create") ELSE End(t)
    /\ UNCHANGED <<reports, enrolled, mails, sent, overtaken, acked, faults>>

-----------------------------------------------------------------------------
(* The gateway                                                              *)

PaymentFails(o) ==
    /\ o \in Retried /\ Known(o) /\ ~Money(o) /\ "failed" \notin sent[o]
    /\ sent' = [sent EXCEPT ![o] = @ \cup {"failed"}]
    /\ UNCHANGED <<txn, paid, reports, enrolled, mails, overtaken, acked, thread, faults>>

PaymentAuthorized(o) ==
    /\ Known(o) /\ ~Money(o)
    /\ sent' = [sent EXCEPT ![o] = @ \cup {"authorized"}]
    /\ UNCHANGED <<txn, paid, reports, enrolled, mails, overtaken, acked, thread, faults>>

\* some time later, or never
PaymentCaptured(o) ==
    /\ Money(o) /\ ~Captured(o)
    /\ sent' = [sent EXCEPT ![o] = @ \cup {"captured"}]
    /\ UNCHANGED <<txn, paid, reports, enrolled, mails, overtaken, acked, thread, faults>>

-----------------------------------------------------------------------------
(* Webhook: process_razorpay_webhook_event                                  *)

\* mutant: the failure is recorded as a capture
WebhookFailedCaptures(o) ==
    /\ "failed" \in sent[o] /\ ~Locked(o)
    /\ FailuresFirst => ~Money(o)
    /\ txn' = [txn EXCEPT ![o].status = "captured"]
    /\ UNCHANGED <<paid, reports, enrolled, mails, sent, overtaken, acked, thread, faults>>

\* payment.failed: an unconditional update of the status
WebhookFailed(o) ==
    /\ "failed" \in sent[o] /\ ~Locked(o)
    /\ FailuresFirst => ~Money(o)
    /\ txn' = [txn EXCEPT ![o].status = "failed"]
    /\ UNCHANGED <<paid, reports, enrolled, mails, sent, overtaken, acked, thread, faults>>

\* already processed: acknowledged, except that ebooks are checked again
WebhookSkip(o, e) ==
    /\ e \in sent[o] \cap PaidEvent /\ ~Locked(o)
    /\ IsPaid(o) /\ Kind[o] # "ebook"
    /\ acked' = [acked EXCEPT ![o] = @ \cup {e}]
    /\ UNCHANGED <<txn, paid, reports, enrolled, mails, sent, overtaken, thread, faults>>

\* an ebook that is already paid: its registration is looked at once more
WebhookRecheck(t, o, e) ==
    /\ At(t, "idle") /\ e \in sent[o] \cap PaidEvent /\ ~Locked(o)
    /\ IsPaid(o) /\ Kind[o] = "ebook"
    /\ Begin(t, o, e, txn[o], "read")
    /\ UNCHANGED <<txn, paid, reports, enrolled, mails, sent, overtaken, acked, faults>>

\* mutant: the signal generates an invoice only when the row is created
SavedUninvoiced(o, status, invoice) ==
    [status |-> status, has |-> txn[o].has \cup {"student"}]

\* the row as txn.save() and its post_save signal leave it: an invoice, unless
\* generating it raised, and the student of the email address
Saved(o, status, invoice) == [status |-> status,
    has |-> txn[o].has \cup {"student"} \cup (IF invoice THEN {"invoice"} ELSE {})]

InvoiceOrRaise(invoice) == IF invoice THEN UNCHANGED faults ELSE Raises

\* mutant: only a pending order is processed, a failed attempt is final
WebhookBeginPending(t, o, e) == \E invoice \in BOOLEAN :
    /\ At(t, "idle") /\ e \in sent[o] \cap PaidEvent /\ ~Locked(o)
    /\ txn[o].status = "pending"
    /\ InvoiceOrRaise(invoice)
    /\ Begin(t, o, e, Saved(o, IF e = "captured" THEN "captured" ELSE "done", invoice),
             IF Kind[o] = "plain" THEN "commit" ELSE "read")
    /\ UNCHANGED <<txn, paid, reports, enrolled, mails, sent, overtaken, acked>>

WebhookBegin(t, o, e) == \E invoice \in BOOLEAN :
    /\ At(t, "idle") /\ e \in sent[o] \cap PaidEvent /\ ~Locked(o) /\ ~IsPaid(o)
    /\ InvoiceOrRaise(invoice)
    /\ Begin(t, o, e, Saved(o, IF e = "captured" THEN "captured" ELSE "done", invoice),
             IF Kind[o] = "plain" THEN "commit" ELSE "read")
    /\ UNCHANGED <<txn, paid, reports, enrolled, mails, sent, overtaken, acked>>

\* ebook verify: its list of final statuses lacks "captured"
VerifyLocked(t, o) == \E invoice \in BOOLEAN :
    /\ At(t, "idle") /\ Kind[o] = "ebook" /\ Money(o) /\ ~Locked(o)
    /\ IF txn[o].status = "done"
       THEN invoice /\ UNCHANGED faults /\ Begin(t, o, "verify", txn[o], "read")
       ELSE /\ InvoiceOrRaise(invoice)
            /\ Begin(t, o, "verify", Saved(o, "done", invoice), "read")
    /\ UNCHANGED <<txn, paid, reports, enrolled, mails, sent, overtaken, acked>>

\* the registration as it is now: create_registration_from_transaction and
\* update_registration_after_payment look at is_paid before they write
ReadRegistration(t) == LET me == thread[t] IN
    /\ At(t, "read") \/ At(t, "lookup")
    /\ thread' = [thread EXCEPT
         ![t].seen = Reading(RegAt(t)),
         ![t].pc = CASE me.pc = "lookup" -> "grant"
                     [] Kind[me.order] = "ebook" /\ RegAt(t) \notin paid -> "mail"
                     [] OTHER -> "commit"]
    /\ UNCHANGED <<txn, paid, reports, enrolled, mails, sent, overtaken, acked, faults>>

\* the confirmation mail goes out before the transaction commits
SendMail(t) ==
    /\ At(t, "mail") /\ Goto(t, "commit")
    /\ mails' = [mails EXCEPT ![RegAt(t)] = IF @ < MailCap THEN @ + 1 ELSE @]
    /\ UNCHANGED <<txn, paid, reports, enrolled, sent, overtaken, acked, faults>>

\* u will save registration r as it had read it, unpaid
HoldsUnpaid(u, r) == /\ thread[u].pc \in {"first", "create", "save"}
                     /\ thread[u].seen = "unpaid" /\ RegAt(u) = r

\* is_paid is set
Pays(t) ==
    /\ paid' = paid \cup {RegAt(t)}
    /\ overtaken' = IF \E u \in Thread : HoldsUnpaid(u, RegAt(t))
                     THEN overtaken \cup {RegAt(t)} ELSE overtaken

\* mutant: the "not" of "elif not payment_done and registration.is_paid" is lost
RegisterDropsNot(t) ==
    /\ IF thread[t].seen = "unpaid"
       THEN Pays(t) ELSE paid' = paid \ {RegAt(t)} /\ UNCHANGED overtaken
    /\ enrolled' = enrolled \cup {RegAt(t)}
    /\ reports' = reports \cup {OrderAt(t)}

\* webinar: the registration, the enrolment and the report, with status done
Register(t) ==
    /\ IF thread[t].seen = "unpaid" THEN Pays(t) ELSE UNCHANGED <<paid, overtaken>>
    /\ enrolled' = enrolled \cup {RegAt(t)}
    /\ reports' = reports \cup {OrderAt(t)}

Registered(row) == [status |-> "done", has |-> row.has \cup {"student"}]

\* the signal reports a payment only when its status is "done"
SignalReports(t) == LET me == thread[t] IN
    IF me.copy.status = "done" /\ txn[me.order].status # "done" /\ Kind[me.order] # "plain"
    THEN reports \cup {me.order} ELSE reports

\* the end of the webhook's or the ebook endpoint's transaction
Commit(t) == LET me == thread[t]  o == me.order IN
    /\ At(t, "commit")
    /\ IF Kind[o] = "webinar" /\ me.seen # "raised"
       THEN txn' = [txn EXCEPT ![o] = Registered(me.copy)] /\ Register(t)
       ELSE /\ txn' = [txn EXCEPT ![o] = me.copy]
            /\ IF Kind[o] = "ebook" THEN Pays(t) ELSE UNCHANGED <<paid, overtaken>>
            /\ reports' = SignalReports(t)
            /\ UNCHANGED enrolled
    /\ acked' = [acked EXCEPT ![o] = @ \cup ({me.call} \cap PaidEvent)]
    /\ End(t)
    /\ UNCHANGED <<mails, sent, faults>>

-----------------------------------------------------------------------------
(* Plain and webinar verify: RazorpayPaymentViewSet.verify_payment          *)

VerifyRead(t, o) ==
    /\ At(t, "idle") /\ Kind[o] # "ebook" /\ Money(o)
    /\ Begin(t, o, "verify", txn[o], "stale")
    /\ UNCHANGED <<txn, paid, reports, enrolled, mails, sent, overtaken, acked, faults>>

\* save() writes every column: what was committed since the read is lost
VerifySave(t) == LET me == thread[t] IN
    /\ At(t, "stale") /\ ~Locked(me.order)
    /\ txn' = [txn EXCEPT ![me.order] = [me.copy EXCEPT !.status = "done"]]
    /\ Goto(t, "invoice")
    /\ UNCHANGED <<paid, reports, enrolled, mails, sent, overtaken, acked, faults>>

AfterInvoice(t) == IF Kind[OrderAt(t)] = "plain" THEN "again" ELSE "link"

\* mutant: the signal generates an invoice only when the row is created
SignalInvoiceNever(t) ==
    /\ At(t, "invoice") /\ Goto(t, AfterInvoice(t))
    /\ UNCHANGED <<txn, paid, reports, enrolled, mails, sent, overtaken, acked, faults>>

\* post_save: an invoice if the saved copy has none, and if none is there
SignalInvoice(t) == LET o == OrderAt(t) IN
    /\ At(t, "invoice") /\ ~Locked(o)
    /\ \/ /\ "invoice" \in thread[t].copy.has /\ UNCHANGED <<txn, faults>>
       \/ /\ "invoice" \notin thread[t].copy.has
          /\ (Has(o, "invoice") /\ UNCHANGED faults) \/ (Raises /\ UNCHANGED txn)
    /\ Goto(t, AfterInvoice(t))
    /\ UNCHANGED <<paid, reports, enrolled, mails, sent, overtaken, acked>>

\* post_save, webinar: the student found by email and the payment report
SignalLink(t) == LET o == OrderAt(t) IN
    /\ At(t, "link") /\ ~Locked(o)
    /\ Has(o, "student") /\ reports' = reports \cup {o}
    /\ Goto(t, "lookup")
    /\ UNCHANGED <<paid, enrolled, mails, sent, overtaken, acked, faults>>

\* plain: the endpoint generates the invoice itself, which may raise
InvoiceAgain(t) == LET o == OrderAt(t) IN
    /\ At(t, "again") /\ ~Locked(o)
    /\ (Has(o, "invoice") /\ UNCHANGED faults) \/ (Raises /\ UNCHANGED txn)
    /\ End(t)
    /\ UNCHANGED <<paid, reports, enrolled, mails, sent, overtaken, acked>>

\* create_registration_from_transaction in a transaction of its own
Grant(t) == LET o == OrderAt(t) IN
    /\ At(t, "grant") /\ ~Locked(o)
    /\ txn' = [txn EXCEPT ![o] = Registered(@)]
    /\ Register(t) /\ End(t)
    /\ UNCHANGED <<mails, sent, acked, faults>>

-----------------------------------------------------------------------------
(* Failures                                                                 *)

\* webinar: logged; its savepoint is rolled back and the rest goes on
RegistrationRaises(t) ==
    /\ Kind[OrderAt(t)] = "webinar" /\ Raises
    /\ \/ /\ At(t, "read")
          /\ thread' = [thread EXCEPT ![t].seen = "raised", ![t].pc = "commit"]
       \/ At(t, "lookup") /\ End(t)
    /\ UNCHANGED <<txn, paid, reports, enrolled, mails, sent, overtaken, acked>>

\* ebook: a database error aborts the whole transaction although the webhook
\* logs it and answers 200
DatabaseError(t) == LET me == thread[t] IN
    /\ At(t, "read") /\ Kind[me.order] = "ebook" /\ Raises
    /\ acked' = [acked EXCEPT ![me.order] = @ \cup ({me.call} \cap PaidEvent)]
    /\ End(t)
    /\ UNCHANGED <<txn, paid, reports, enrolled, mails, sent, overtaken>>

\* ebook: the cache cannot be reached; no mail is sent, the webhook commits
CacheError(t) ==
    /\ At(t, "mail") /\ Raises
    /\ IF thread[t].call = "verify" THEN End(t) ELSE Goto(t, "commit")
    /\ UNCHANGED <<txn, paid, reports, enrolled, mails, sent, overtaken, acked>>

\* the process ends: an open transaction is rolled back
Crash(t) ==
    /\ ~At(t, "idle") /\ faults["crash"] < MaxCrashes
    /\ faults' = [faults EXCEPT !["crash"] = @ + 1]
    /\ End(t)
    /\ UNCHANGED <<txn, paid, reports, enrolled, mails, sent, overtaken, acked>>

-----------------------------------------------------------------------------
Progress(t) ==
    \/ CreateTransaction(t) \/ SaveRegistration(t)
    \/ ReadRegistration(t) \/ SendMail(t) \/ Commit(t)
    \/ VerifySave(t) \/ SignalInvoice(t) \/ SignalLink(t) \/ InvoiceAgain(t) \/ Grant(t)

Fault(t) == RegistrationRaises(t) \/ DatabaseError(t) \/ CacheError(t) \/ Crash(t)

Gateway(o) == PaymentFails(o) \/ PaymentAuthorized(o) \/ PaymentCaptured(o)

Client(t, o) == \/ CheckRegistered(t, o) \/ ReadToSave(t, o)
                \/ VerifyLocked(t, o) \/ VerifyRead(t, o)

Webhook(t, o, e) == WebhookSkip(o, e) \/ WebhookRecheck(t, o, e) \/ WebhookBegin(t, o, e)

Next ==
    \/ \E t \in Thread : Progress(t) \/ Fault(t)
    \/ \E t \in Thread, o \in Order : Client(t, o)
    \/ \E t \in Thread, o \in Order, e \in PaidEvent : Webhook(t, o, e)
    \/ \E o \in Order : Gateway(o) \/ WebhookFailed(o)

Spec == Init /\ [][Next]_vars

\* requests run to their end; the gateway repeats an event until it is answered
FairSpec ==
    /\ Spec
    /\ \A t \in Thread : WF_vars(Progress(t))
    /\ \A o \in Order, e \in PaidEvent :
         SF_vars(e \notin acked[o] /\ \E t \in Thread : Webhook(t, o, e))

-----------------------------------------------------------------------------
(* Properties                                                               *)

\* Nothing is had without paying: a row says paid, a report exists, a registration
\* is paid or enrolled or confirmed only after the gateway authorized a payment
\* for it.  (Not only after its capture: the code completes an order before.)
NothingForFree ==
    /\ \A o \in Order : IsPaid(o) \/ o \in reports => Money(o)
    /\ \A r \in Reg : r \in paid \cup enrolled \/ mails[r] > 0 =>
         \E o \in Order : RegOf[o] = r /\ Money(o)

\* the registrations with access: is_paid, unless a request that had read the
\* registration before the payment saved it after, which takes is_paid back
Access == paid \cup overtaken

\* Without faults, once the requests about a paid order have ended, in
\* whatever order webhooks and verify calls overlapped, nothing is missing:
\* invoice, student, registration, and for webinars enrolment and report.
PaidIsFulfilled == \A o \in Order :
    /\ IsPaid(o) /\ faults["raise"] + faults["crash"] = 0
    /\ \A t \in Thread : At(t, "idle") \/ OrderAt(t) # o
    => /\ txn[o].has = {"student", "invoice"}
       /\ Kind[o] # "plain" => RegOf[o] \in Access
       /\ Kind[o] = "webinar" => o \in reports /\ RegOf[o] \in enrolled

\* An ebook that shows "done" is in the payment reports, whatever failed: the
\* row and the report are written by one transaction.
DoneIsReported == \A o \in Order :
    Kind[o] = "ebook" /\ txn[o].status = "done" => o \in reports

\* Money that was captured leads to access, even if one request dies and another
\* one meets an error: the second event and the recheck make up for it.
AccessFollowsMoney == \A o \in Order :
    Captured(o) /\ Kind[o] # "plain" ~> RegOf[o] \in Access

\* razorpay_service.py:87 "Process verified Razorpay webhook payload
\* idempotently": what was paid stays paid, whichever event is delivered next.
PaidStaysPaid == [][\A o \in Order : IsPaid(o) => IsPaid(o)']_vars

\* What a customer may rely on while failures are delivered before authorizations.
Abstract == INSTANCE OrderBook WITH
    access <- Access,
    state <- [o \in Order |-> CASE txn[o].status = "none" -> "absent"
                                 [] IsPaid(o) -> "paid"
                                 [] OTHER -> "open"]
KeepsTheBook == Abstract!Spec
=============================================================================

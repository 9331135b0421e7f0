---------------------------- MODULE Subscriptions ----------------------------
(***************************************************************************)
(* The subscriptions of one user of the resume builder (src/Aryu/resume):  *)
(* orders, the verify call and the webhook that turn a captured payment    *)
(* into a UserSubscription row, the pointer current_subscription, expiry   *)
(* by my_subscription and by the command, and the services whose calls are *)
(* charged to the row that the pointer named when they began.  The general *)
(* Razorpay webhook of src/Aryu/payments writes the same transactions, and *)
(* a request for a password reset saves the whole account row.             *)
(*                                                                         *)
(* A worker is a request or a command in progress.  verify and the webhook *)
(* write in a transaction: it locks the PaymentTransaction first, then     *)
(* takes the active rows it is going to expire, and commits at the end.    *)
(* Everything else commits statement by statement.  Rows are numbered in   *)
(* the order of their commits.  Mails and their flags, reminders, prices   *)
(* and the payment history are abstracted.                                 *)
(***************************************************************************)
EXTENDS Integers, Sequences

CONSTANTS
    Order,       \* numbers of the Razorpay orders the user may create
    Plan,        \* plans for sale
    Free,        \* the plan of a new account
    Feature,     \* services with an allowance: resume parsing, ATS scans
    Limit,       \* Limit[p][f]: the allowance
    Worker,      \* requests and commands in progress
    None,        \* no order, plan or feature
    MaxRequests, \* bound: requests and commands that are begun, besides webhooks
    MaxCrashes   \* bound: workers that die between two steps

ASSUME SubscriptionsAssumption ==
    /\ Order \subseteq Nat
    /\ Free \notin Plan /\ None \notin Order /\ None \notin Plan \cup {Free}
    /\ None \notin Feature
    /\ Limit \in [Plan \cup {Free} -> [Feature -> Nat]]
    /\ MaxRequests \in Nat /\ MaxCrashes \in Nat

VARIABLES
    txn,       \* txn[o]: payment_status of the order's transaction
    plan,      \* plan[o]: what the order buys
    captured,  \* captured[o]: what the gateway took: nothing, the amount, another
    subs,      \* the UserSubscription rows
    current,   \* number of the row in current_subscription, 0 for NULL
    worker,    \* worker[w]: program counter and locals
    requests, crashes,
    general,    \* history: orders whose status the general webhook wrote last
    overwritten \* history: current is what an account saved as it was read earlier

vars == <<txn, plan, captured, subs, current, worker, requests, crashes, general,
          overwritten>>

Status == {"none", "created", "expired", "failed", "amount_tampered",
           "captured", "done"}

\* served counts the successful calls themselves; checked and scanned are how
\* many rows there were when the row's request looked for the order's row, and
\* when it took the rows to expire (history, never read by an action)
Row == [order : Order \cup {None}, plan : Plan \cup {Free},
        status : {"active", "expired"}, due : BOOLEAN,
        used : [Feature -> Nat], served : [Feature -> Nat],
        checked : Nat, scanned : Nat]

WorkerState ==
    [at : {"idle", "ordering", "checked", "verifying", "hooking",
           "sweeping", "clearing", "calling", "saving"},
     order : Order \cup {None}, plan : Plan \cup {None}, rows : SUBSET (Nat \ {0}),
     row : Nat, feature : Feature \cup {None}, seen : Nat,
     checked : Nat, scanned : Nat]

Idle == [at |-> "idle", order |-> None, plan |-> None, rows |-> {}, row |-> 0,
         feature |-> None, seen |-> 0, checked |-> 0, scanned |-> 0]

TypeOK ==
    /\ txn \in [Order -> Status]
    /\ plan \in [Order -> Plan \cup {None}]
    /\ captured \in [Order -> {"no", "amount", "other"}]
    /\ subs \in Seq(Row)
    /\ current \in 0 .. Len(subs)
    /\ worker \in [Worker -> WorkerState]
    /\ requests \in 0 .. MaxRequests /\ crashes \in 0 .. MaxCrashes
    /\ general \subseteq Order /\ overwritten \in BOOLEAN

Nothing == [f \in Feature |-> 0]
NewRow(o, p, checked, scanned) ==
    [order |-> o, plan |-> p, status |-> "active", due |-> FALSE,
     used |-> Nothing, served |-> Nothing, checked |-> checked, scanned |-> scanned]

\* signing up creates the free subscription and points to it
Init ==
    /\ txn = [o \in Order |-> "none"] /\ plan = [o \in Order |-> None]
    /\ captured = [o \in Order |-> "no"]
    /\ subs = <<NewRow(None, Free, 0, 0)>> /\ current = 1
    /\ worker = [w \in Worker |-> Idle]
    /\ requests = 0 /\ crashes = 0
    /\ general = {} /\ overwritten = FALSE

Rows == 1 .. Len(subs)
Active == {i \in Rows : subs[i].status = "active"}
RowsOf(o) == {i \in Rows : subs[i].order = o}
Expire(rows) ==
    [i \in Rows |-> IF i \in rows THEN [subs[i] EXCEPT !.status = "expired"] ELSE subs[i]]

At(w, label) == worker[w].at = label
Unused(o) == /\ txn[o] = "none"
             /\ \A w \in Worker : ~(At(w, "ordering") /\ worker[w].order = o)
Become(w, state) == worker' = [worker EXCEPT ![w] = state]
Begins(w) == At(w, "idle") /\ requests < MaxRequests /\ requests' = requests + 1
Activating(w) == worker[w].at \in {"verifying", "hooking"}
\* the row lock on the transaction, taken by save or by select_for_update
Locked(o) == \E w \in Worker : Activating(w) /\ worker[w].order = o

-----------------------------------------------------------------------------
(* Buying                                                                   *)

\* create_order, as far as the call of the gateway: refused while a row of
\* the same plan is active; the orders that wait for a payment expire
CreateOrder(w, o, p) ==
    /\ Begins(w) /\ Unused(o) /\ \A q \in Order : Unused(q) => o <= q
    /\ \A i \in Active : subs[i].plan # p
    /\ \A q \in Order : txn[q] = "created" => ~Locked(q)
    /\ txn' = [q \in Order |-> IF txn[q] = "created" THEN "expired" ELSE txn[q]]
    /\ Become(w, [Idle EXCEPT !.at = "ordering", !.order = o, !.plan = p])
    /\ UNCHANGED <<plan, captured, subs, current, crashes, general, overwritten>>

\* "Unable to create payment order."
OrderFails(w) ==
    /\ At(w, "ordering") /\ Become(w, Idle)
    /\ UNCHANGED <<txn, plan, captured, subs, current, requests, crashes, general, overwritten>>

InsertOrder(w) == LET o == worker[w].order IN
    /\ At(w, "ordering")
    /\ txn' = [txn EXCEPT ![o] = "created"]
    /\ plan' = [plan EXCEPT ![o] = worker[w].plan]
    /\ Become(w, Idle)
    /\ UNCHANGED <<captured, subs, current, requests, crashes, general, overwritten>>

\* the customer pays at Razorpay, which does not know that an order expired.
\* Nothing here tells a payment that is authorized from one that is captured
\* except the status the general webhook writes
Capture(o) ==
    /\ txn[o] # "none" /\ captured[o] = "no"
    /\ \E amount \in {"amount", "other"} : captured' = [captured EXCEPT ![o] = amount]
    /\ UNCHANGED <<txn, plan, subs, current, worker, requests, crashes, general, overwritten>>

-----------------------------------------------------------------------------
(* From a payment to a subscription                                         *)

\* mutant: no look for a subscription of the order
VerifyUnchecked(w, o) ==
    /\ Begins(w) /\ captured[o] # "no"
    /\ Become(w, [Idle EXCEPT !.at = "checked", !.order = o, !.checked = Len(subs)])
    /\ UNCHANGED <<txn, plan, captured, subs, current, crashes, general, overwritten>>

\* verify_payment: the transaction is read without a lock; a subscription
\* that exists for it is returned
VerifyChecks(w, o) ==
    /\ Begins(w) /\ captured[o] # "no"
    /\ RowsOf(o) = {}
    /\ Become(w, [Idle EXCEPT !.at = "checked", !.order = o, !.checked = Len(subs)])
    /\ UNCHANGED <<txn, plan, captured, subs, current, crashes, general, overwritten>>

\* mutant: no transaction around the save and the new row
VerifyCommitsFirst(w) ==
    /\ At(w, "checked") /\ ~Locked(worker[w].order)
    /\ txn' = [txn EXCEPT ![worker[w].order] = "done"]
    /\ Become(w, [worker[w] EXCEPT !.at = "verifying", !.rows = Active,
                                   !.scanned = Len(subs)])
    /\ UNCHANGED <<plan, captured, subs, current, requests, crashes, general, overwritten>>

\* txn.save waits for the row lock; then the UPDATE takes the active rows
VerifyWrites(w) ==
    /\ At(w, "checked") /\ ~Locked(worker[w].order)
    /\ Become(w, [worker[w] EXCEPT !.at = "verifying", !.rows = Active,
                                   !.scanned = Len(subs)])
    /\ UNCHANGED <<txn, plan, captured, subs, current, requests, crashes, general, overwritten>>

\* mutant: only an order that waits for its payment is activated
HookOnlyOpen(w, o) ==
    /\ At(w, "idle") /\ captured[o] = "amount" /\ ~Locked(o)
    /\ txn[o] = "created"
    /\ Become(w, [Idle EXCEPT !.at = "hooking", !.order = o, !.rows = Active,
                              !.checked = Len(subs), !.scanned = Len(subs)])
    /\ UNCHANGED <<txn, plan, captured, subs, current, requests, crashes, general, overwritten>>

\* resume_razorpay_webhook, payment.captured: under the row lock
HookCaptured(w, o) ==
    /\ At(w, "idle") /\ captured[o] = "amount" /\ ~Locked(o)
    /\ txn[o] # "done"
    /\ Become(w, [Idle EXCEPT !.at = "hooking", !.order = o, !.rows = Active,
                              !.checked = Len(subs), !.scanned = Len(subs)])
    /\ UNCHANGED <<txn, plan, captured, subs, current, requests, crashes, general, overwritten>>

\* ... with an amount that is not the order's
HookTampered(o) ==
    /\ captured[o] = "other" /\ ~Locked(o)
    /\ txn[o] # "done"
    /\ txn' = [txn EXCEPT ![o] = "amount_tampered"]
    /\ UNCHANGED <<plan, captured, subs, current, worker, requests, crashes, general, overwritten>>

\* payment.failed of an attempt: one UPDATE, which waits for the row lock
HookFailed(o) ==
    /\ txn[o] \notin {"none", "done"} /\ ~Locked(o)
    /\ txn' = [txn EXCEPT ![o] = "failed"]
    /\ UNCHANGED <<plan, captured, subs, current, worker, requests, crashes, general, overwritten>>

\* the general webhook of payments: payment.authorized or payment.captured,
\* which creates no subscription
GeneralPaid(o) ==
    /\ captured[o] # "no" /\ ~Locked(o)
    /\ txn[o] \notin {"captured", "done"}
    /\ \E status \in {"captured", "done"} : txn' = [txn EXCEPT ![o] = status]
    /\ general' = general \cup {o}
    /\ UNCHANGED <<plan, captured, subs, current, worker, requests, crashes, overwritten>>

\* ... and payment.failed of an attempt, whatever the status is by now
GeneralFailed(o) ==
    /\ txn[o] # "none" /\ ~Locked(o)
    /\ txn' = [txn EXCEPT ![o] = "failed"]
    /\ general' = general \cup {o}
    /\ UNCHANGED <<plan, captured, subs, current, worker, requests, crashes, overwritten>>

\* mutants: the old rows stay active; the pointer stays where it was
ActivateBeside(w) ==
    LET o == worker[w].order IN
    /\ Activating(w)
    /\ txn' = [txn EXCEPT ![o] = "done"]
    /\ IF At(w, "hooking") /\ RowsOf(o) # {}
       THEN UNCHANGED <<subs, current, overwritten>>
       ELSE /\ subs' = Append(subs, NewRow(o, plan[o], worker[w].checked, worker[w].scanned))
            /\ current' = Len(subs) + 1 /\ overwritten' = FALSE
    /\ general' = general \ {o}
    /\ Become(w, Idle)
    /\ UNCHANGED <<plan, captured, requests, crashes>>
ActivateUnpointed(w) ==
    LET o == worker[w].order IN
    /\ Activating(w)
    /\ txn' = [txn EXCEPT ![o] = "done"]
    /\ IF At(w, "hooking") /\ RowsOf(o) # {}
       THEN UNCHANGED subs
       ELSE subs' = Append(Expire(worker[w].rows),
                           NewRow(o, plan[o], worker[w].checked, worker[w].scanned))
    /\ general' = general \ {o}
    /\ Become(w, Idle)
    /\ UNCHANGED <<plan, captured, current, requests, crashes, overwritten>>

\* the end of the transaction: rows that were active when they were taken, a
\* new row, the pointer to it.  Only the webhook looks again for a row
Activate(w) ==
    LET o == worker[w].order IN
    /\ Activating(w)
    /\ txn' = [txn EXCEPT ![o] = "done"]
    /\ IF At(w, "hooking") /\ RowsOf(o) # {}
       THEN UNCHANGED <<subs, current, overwritten>>
       ELSE /\ subs' = Append(Expire(worker[w].rows),
                              NewRow(o, plan[o], worker[w].checked, worker[w].scanned))
            /\ current' = Len(subs) + 1 /\ overwritten' = FALSE
    /\ general' = general \ {o}
    /\ Become(w, Idle)
    /\ UNCHANGED <<plan, captured, requests, crashes>>

-----------------------------------------------------------------------------
(* Expiry                                                                   *)

\* a row's end_date passes
Lapse(i) ==
    /\ ~subs[i].due /\ (i \in Active \/ i = current)
    /\ subs' = [subs EXCEPT ![i].due = TRUE]
    /\ UNCHANGED <<txn, plan, captured, current, worker, requests, crashes, general, overwritten>>

\* my_subscription: an active row that has ended is saved as expired, and in a
\* statement of its own the user, read in between, points to nothing
View(w, i) ==
    /\ Begins(w) /\ i \in Active /\ subs[i].due
    /\ subs' = Expire({i})
    /\ Become(w, [Idle EXCEPT !.at = "clearing"])
    /\ UNCHANGED <<txn, plan, captured, current, crashes, general, overwritten>>

\* the command expire_subscriptions: a list of rows, then each in turn
Sweep(w) == LET ended == {i \in Active : subs[i].due} IN
    /\ Begins(w) /\ ended # {}
    /\ Become(w, [Idle EXCEPT !.at = "sweeping", !.rows = ended])
    /\ UNCHANGED <<txn, plan, captured, subs, current, crashes, general, overwritten>>

SweepRow(w, i) ==
    /\ At(w, "sweeping") /\ i \in worker[w].rows
    /\ subs' = Expire({i})
    /\ Become(w, [worker[w] EXCEPT !.at = "clearing", !.rows = @ \ {i}])
    /\ UNCHANGED <<txn, plan, captured, current, requests, crashes, general, overwritten>>

\* current_subscription = None, whatever it is by now
ClearCurrent(w) ==
    /\ At(w, "clearing")
    /\ current' = 0 /\ overwritten' = FALSE
    /\ Become(w, IF worker[w].rows = {} THEN Idle
                 ELSE [worker[w] EXCEPT !.at = "sweeping"])
    /\ UNCHANGED <<txn, plan, captured, subs, requests, crashes, general>>

-----------------------------------------------------------------------------
(* The account                                                              *)

\* forgot_password reads the account ...
ReadUser(w) ==
    /\ Begins(w)
    /\ Become(w, [Idle EXCEPT !.at = "saving", !.row = current])
    /\ UNCHANGED <<txn, plan, captured, subs, current, crashes, general, overwritten>>

\* ... and after hashing a code saves every column of it, the pointer too
SaveUser(w) ==
    /\ At(w, "saving")
    /\ current' = worker[w].row
    /\ overwritten' = (overwritten \/ current # worker[w].row)
    /\ Become(w, Idle)
    /\ UNCHANGED <<txn, plan, captured, subs, requests, crashes, general>>

-----------------------------------------------------------------------------
(* Allowances                                                               *)

\* can_parse_resume, can_run_ats: then the request to the service starts
Call(w, f) == LET row == subs[current] IN
    /\ Begins(w) /\ current # 0
    /\ ~row.due
    /\ row.used[f] < Limit[row.plan][f]
    /\ Become(w, [Idle EXCEPT !.at = "calling", !.row = current,
                              !.feature = f, !.seen = row.used[f]])
    /\ UNCHANGED <<txn, plan, captured, subs, current, crashes, general, overwritten>>

\* increase_parse_count, increase_ats_count: the object read before the call
Charge(w) == LET i == worker[w].row  f == worker[w].feature IN
    /\ At(w, "calling")
    /\ subs' = [subs EXCEPT ![i].used[f] = worker[w].seen + 1, ![i].served[f] = @ + 1]
    /\ Become(w, Idle)
    /\ UNCHANGED <<txn, plan, captured, current, requests, crashes, general, overwritten>>

\* a timeout, an error, or a status that is not 2xx
CallFails(w) ==
    /\ At(w, "calling") /\ Become(w, Idle)
    /\ UNCHANGED <<txn, plan, captured, subs, current, requests, crashes, general, overwritten>>

\* a worker dies: a transaction is rolled back, what was committed stays
Crash(w) ==
    /\ ~At(w, "idle") /\ crashes < MaxCrashes
    /\ crashes' = crashes + 1
    /\ Become(w, Idle)
    /\ UNCHANGED <<txn, plan, captured, subs, current, requests, general, overwritten>>

-----------------------------------------------------------------------------

Begin(w) ==
    \/ \E o \in Order, p \in Plan : CreateOrder(w, o, p)
    \/ \E o \in Order : VerifyChecks(w, o) \/ HookCaptured(w, o)
    \/ \E i \in Rows : View(w, i)
    \/ Sweep(w)
    \/ \E f \in Feature : Call(w, f)
    \/ ReadUser(w)
Continue(w) ==
    \/ OrderFails(w) \/ InsertOrder(w)
    \/ VerifyWrites(w) \/ Activate(w)
    \/ \E i \in worker[w].rows : SweepRow(w, i)
    \/ ClearCurrent(w)
    \/ Charge(w) \/ CallFails(w)
    \/ SaveUser(w)

Next ==
    \/ \E w \in Worker : Begin(w) \/ Continue(w) \/ Crash(w)
    \/ \E o \in Order : \/ Capture(o) \/ HookTampered(o) \/ HookFailed(o)
                        \/ GeneralPaid(o) \/ GeneralFailed(o)
    \/ \E i \in Rows : Lapse(i)

Spec == Init /\ [][Next]_vars

\* requests that began end or die; the gateway repeats a captured event until
\* it is answered, so a worker takes it in the end
FairSpec ==
    /\ Spec
    /\ \A w \in Worker : WF_vars(Continue(w))
    /\ \A o \in Order : SF_vars(\E w \in Worker : HookCaptured(w, o))

-----------------------------------------------------------------------------
(* Properties                                                               *)

\* An order is done exactly when a subscription was created for it, in every
\* state that another request can read: both handlers of the resume builder
\* commit the two together.  Not said of an order whose status the general
\* webhook wrote and no activation has written since: it is done without a row,
\* or failed with one.
DoneIsSubscribed == \A o \in Order \ general : txn[o] = "done" <=> RowsOf(o) # {}

\* An order gets a second row only from a request that had looked for the
\* order's row before the first was committed.
OnceUnlessOverlapped ==
    \A i, j \in Rows : i < j /\ subs[i].order = subs[j].order => subs[j].checked < i

\* A row that was committed before a later one was activated is never active
\* again, so two rows are active only if their transactions overlapped.
SupersededIsExpired ==
    \A i, j \in Rows : i < j /\ i <= subs[j].scanned => subs[i].status = "expired"

\* The pointer names the row of the last activation or nothing, and a row it
\* names is active, or else it ended before it was expired: a plan that runs
\* is never expired under its user, even if a worker dies half-way.  Only an
\* account that was saved as it was read before another request moved the
\* pointer makes it name an older row, until the next activation or expiry.
CurrentIsLast ==
    current # 0 => \/ overwritten
                   \/ /\ current = Len(subs)
                      /\ subs[current].status = "active" \/ subs[current].due

\* No call is charged that was not served, and no allowance is exceeded by the
\* count that is stored.
NeverOvercharged == \A i \in Rows, f \in Feature :
    subs[i].used[f] <= subs[i].served[f] /\ subs[i].used[f] <= Limit[subs[i].plan][f]

\* What was paid in full becomes a subscription although workers die, other
\* orders are created, the order itself has expired, or the general webhook
\* wrote captured or failed.  Once that webhook has written done, the resume
\* webhook takes the order for activated: it gets a row only from verify.
PaidIsActivated == \A o \in Order :
    captured[o] = "amount" ~> \/ RowsOf(o) # {}
                              \/ o \in general /\ txn[o] = "done"
==============================================================================

----------------------------- MODULE Broadcast -----------------------------
(***************************************************************************)
(* One WhatsApp campaign (src/Aryu/lead/whatsapp): the trigger and cancel  *)
(* endpoints, the orchestrator task that fans the recipients out, one send *)
(* task per recipient and the task that completes the campaign.            *)
(*                                                                         *)
(* A worker is a process of the whatsapp_broadcast queue.  Every database  *)
(* statement (or atomic block), cache access, published message and call   *)
(* of the Meta API is a step.  Countdowns are abstracted: a message may be *)
(* taken at any time.  Tasks acknowledge late, so a worker that is lost    *)
(* leaves its message to another one.                                      *)
(***************************************************************************)
EXTENDS Integers, FiniteSets

CONSTANTS
    Lead,          \* the leads with a phone number
    Worker,
    Admin,         \* requests that trigger the campaign
    Batch,         \* RECIPIENT_BATCH_SIZE
    SendRetries,   \* RATE_LIMIT_MAX_RETRIES
    ErrorRetries,  \* TRANSIENT_MAX_RETRIES
    CheckRetries,  \* max_retries of finalize_campaign_task
    MaxDisturbed   \* bound: further triggers, cancellations, exceptions, lost workers

ASSUME BroadcastAssumption ==
    /\ IsFiniteSet(Lead) /\ Lead # {} /\ Batch \in Nat \ {0}
    /\ {SendRetries, ErrorRetries, CheckRetries, MaxDisturbed} \subseteq Nat

VARIABLES
    campaign,   \* the WhatsAppCampaign row: status and counters
    recipient,  \* recipient[l]: status of the WhatsAppCampaignRecipient row
    breaker,    \* meta_rate_limit_lock: set in the cache
    mail,       \* mail[m]: copies of m the broker holds
    worker,     \* worker[w]: program counter, message and rest of the page
    request,    \* request[a]: where a trigger request is, and what it seeded
    cancel,     \* the status a cancel request has read
    received,   \* received[l]: messages Meta accepted for l
    abandoned,  \* work that was dropped: nobody will come back to it
    spent       \* further triggers, cancellations, errors and lost workers so far

vars == <<campaign, recipient, breaker, mail, worker, request, cancel, received,
          abandoned, spent>>

CampaignStatus == {"draft", "queued", "running", "completed", "failed", "cancelled"}
InFlight == {"pending", "queued", "sending"}
Settled == {"sent", "failed", "skipped"}
RecipientStatus == {"none"} \cup InFlight \cup Settled
Cancellable == {"queued", "running"}     \* no code sets STATUS_PAUSED

AnyLead == CHOOSE l \in Lead : TRUE    \* the other tasks name no lead
Tries == (0 .. SendRetries) \cup (0 .. ErrorRetries) \cup (0 .. CheckRetries)
Message == [job : {"send"}, lead : Lead, try : Tries]
             \cup [job : {"trigger", "finalize"}, lead : {AnyLead}, try : Tries]
Job(j) == [job |-> j, lead |-> AnyLead, try |-> 0]
Send(l) == [job |-> "send", lead |-> l, try |-> 0]
Label == {"idle", "page", "publish", "mark", "call", "revert", "store", "fail", "count", "complete"}
Idle == [pc |-> "idle", msg |-> Job("trigger"), page |-> {}]

TypeOK ==
    /\ campaign \in [status : CampaignStatus, total : 0 .. Cardinality(Lead),
                     sent : Nat, failed : Nat]
    /\ recipient \in [Lead -> RecipientStatus]
    /\ breaker \in BOOLEAN /\ abandoned \in BOOLEAN
    /\ mail \in [Message -> Nat]
    /\ worker \in [Worker -> [pc : Label, msg : Message, page : SUBSET Lead]]
    /\ request \in [Admin -> [pc : {"idle", "seed", "enqueue", "publish", "done"},
                              count : 0 .. Cardinality(Lead)]]
    /\ cancel \in {"none"} \cup Cancellable
    /\ received \in [Lead -> Nat]
    /\ spent \in [{"triggers", "cancels", "errors", "lost"} -> 0 .. MaxDisturbed]

Init ==
    /\ campaign = [status |-> "draft", total |-> 0, sent |-> 0, failed |-> 0]
    /\ recipient = [l \in Lead |-> "none"]
    /\ breaker = FALSE /\ abandoned = FALSE
    /\ mail = [m \in Message |-> 0]
    /\ worker = [w \in Worker |-> Idle]
    /\ request = [a \in Admin |-> [pc |-> "idle", count |-> 0]]
    /\ cancel = "none"
    /\ received = [l \in Lead |-> 0]
    /\ spent = [triggers |-> 0, cancels |-> 0, errors |-> 0, lost |-> 0]

With(status) == {l \in Lead : recipient[l] = status}
Disturbed(kind) ==
    /\ spent.triggers + spent.cancels + spent.errors + spent.lost < MaxDisturbed
    /\ spent' = [spent EXCEPT ![kind] = @ + 1]
Error == Disturbed("errors")
Plus(box, m) == [box EXCEPT ![m] = @ + 1]
-----------------------------------------------------------------------------
(* TriggerBroadcastView.post and CampaignCancelView.post                    *)

Trigger(a) ==
    /\ request[a].pc = "idle" /\ campaign.status = "draft"
    /\ request' = [request EXCEPT ![a].pc = "seed"]
    /\ IF \A b \in Admin : request[b].pc = "idle" THEN UNCHANGED spent
                                                  ELSE Disturbed("triggers")
    /\ UNCHANGED <<campaign, recipient, breaker, mail, worker, cancel, received, abandoned>>

\* _seed_recipients: bulk_create ignores the rows that exist and still
\* returns one object for every lead of the audience
Seed(a, audience) ==
    /\ request[a].pc = "seed"
    /\ recipient' = [l \in Lead |->
         IF l \in audience /\ recipient[l] = "none" THEN "pending" ELSE recipient[l]]
    /\ request' = [request EXCEPT ![a] =
         [pc |-> IF audience = {} THEN "done" ELSE "enqueue", count |-> Cardinality(audience)]]
    /\ UNCHANGED <<campaign, breaker, mail, worker, cancel, received, abandoned, spent>>

\* the update is not conditional on the status read before
Enqueue(a) ==
    /\ request[a].pc = "enqueue"
    /\ campaign' = [status |-> "queued", total |-> request[a].count, sent |-> 0, failed |-> 0]
    /\ request' = [request EXCEPT ![a].pc = "publish"]
    /\ UNCHANGED <<recipient, breaker, mail, worker, cancel, received, abandoned, spent>>

Fire(a) ==
    /\ request[a].pc = "publish" /\ mail' = Plus(mail, Job("trigger"))
    /\ request' = [request EXCEPT ![a].pc = "done"]
    /\ UNCHANGED <<campaign, recipient, breaker, worker, cancel, received, abandoned, spent>>

\* the exception leaves the request: the campaign stays queued
FireFails(a) ==
    /\ request[a].pc = "publish" /\ Error
    /\ request' = [request EXCEPT ![a].pc = "done"] /\ abandoned' = TRUE
    /\ UNCHANGED <<campaign, recipient, breaker, mail, worker, cancel, received>>

AskCancel ==
    /\ cancel = "none" /\ campaign.status \in Cancellable
    /\ Disturbed("cancels") /\ cancel' = campaign.status
    /\ UNCHANGED <<campaign, recipient, breaker, mail, worker, request, received, abandoned>>

\* one transaction; a status that changed since is answered with 409
Cancel ==
    /\ cancel # "none" /\ cancel' = "none"
    /\ IF campaign.status = cancel
       THEN /\ campaign' = [campaign EXCEPT !.status = "cancelled"]
            /\ recipient' = [l \in Lead |->
                 IF recipient[l] \in {"pending", "queued"} THEN "skipped" ELSE recipient[l]]
       ELSE UNCHANGED <<campaign, recipient>>
    /\ UNCHANGED <<breaker, mail, worker, request, received, abandoned, spent>>
-----------------------------------------------------------------------------
(* A worker and its message                                                 *)

At(w, label) == worker[w].pc = label
Goto(w, label) == worker' = [worker EXCEPT ![w].pc = label]
Its(w) == worker[w].msg
To(w) == worker[w].msg.lead

\* a worker takes m and makes its first step
Take(w, m, label) ==
    /\ At(w, "idle") /\ mail[m] > 0
    /\ mail' = [mail EXCEPT ![m] = @ - 1]
    /\ worker' = [worker EXCEPT ![w] = [pc |-> label, msg |-> m, page |-> {}]]

\* The task ends, box is what the broker holds then, and m is acknowledged,
\* unless the worker is lost before that and m is delivered again.
End(w, m, box) ==
    /\ worker' = [worker EXCEPT ![w] = Idle]
    /\ \/ mail' = box /\ UNCHANGED spent
       \/ mail' = Plus(box, m) /\ Disturbed("lost")

\* the same after an error
EndInError(w, box) ==
    Error /\ worker' = [worker EXCEPT ![w] = Idle] /\ mail' = box

\* self.retry: the message with one more try; with the retries used up the
\* exception ends the task and the row keeps its status
Retried(m, limit) ==
    IF m.try < limit THEN Plus(mail, [m EXCEPT !.try = @ + 1]) ELSE mail
GivesUp(m, limit) == abandoned' = (abandoned \/ m.try >= limit)

\* A worker process is lost.  finalize_campaign_task does not ask for
\* reject_on_worker_lost: its message may be acknowledged all the same.
Lose(w) ==
    /\ ~At(w, "idle") /\ Disturbed("lost")
    /\ \/ mail' = Plus(mail, Its(w))
       \/ Its(w).job = "finalize" /\ UNCHANGED mail
    /\ worker' = [worker EXCEPT ![w] = Idle]
    /\ abandoned' = (abandoned \/ Its(w).job = "trigger")
    /\ UNCHANGED <<campaign, recipient, breaker, request, cancel, received>>
-----------------------------------------------------------------------------
(* trigger_broadcast_task                                                   *)

\* transition_to_running
Start(w, m) ==
    /\ m.job = "trigger" /\ campaign.status = "queued" /\ Take(w, m, "page")
    /\ campaign' = [campaign EXCEPT !.status = "running"]
    /\ UNCHANGED <<recipient, breaker, request, cancel, received, abandoned, spent>>

\* the campaign is not queued: the task ends
Skip(w, m) ==
    /\ m.job = "trigger" /\ campaign.status # "queued" /\ At(w, "idle") /\ mail[m] > 0
    /\ End(w, m, [mail EXCEPT ![m] = @ - 1])
    /\ UNCHANGED <<campaign, recipient, breaker, request, cancel, received, abandoned>>

\* mutant: the rows of the page stay pending until they are sent
PageUnmarked(w, page) ==
    /\ At(w, "page") /\ page # {} /\ page \subseteq With("pending")
    /\ Cardinality(page) <= Batch
    /\ worker' = [worker EXCEPT ![w].pc = "publish", ![w].page = page]
    /\ UNCHANGED <<campaign, recipient, breaker, mail, request, cancel, received,
                   abandoned, spent>>

\* _pending_recipients_cursor: the page is locked and marked in one
\* transaction.  A page takes the first ids and no row becomes pending again,
\* so id > last_id never hides a pending row.
Page(w, page) ==
    /\ At(w, "page") /\ page # {} /\ page \subseteq With("pending")
    /\ \/ Cardinality(page) = Batch
       \/ page = With("pending") /\ Cardinality(page) < Batch
    /\ recipient' = [l \in Lead |-> IF l \in page THEN "queued" ELSE recipient[l]]
    /\ worker' = [worker EXCEPT ![w].pc = "publish", ![w].page = page]
    /\ UNCHANGED <<campaign, breaker, mail, request, cancel, received, abandoned, spent>>

\* mutant: the last row of a page is not published
PublishSendForgets(w, l) ==
    /\ At(w, "publish") /\ l \in worker[w].page
    /\ mail' = IF worker[w].page = {l} THEN mail ELSE Plus(mail, Send(l))
    /\ worker' = [worker EXCEPT ![w].page = @ \ {l},
                                ![w].pc = IF worker[w].page = {l} THEN "page" ELSE "publish"]
    /\ UNCHANGED <<campaign, recipient, breaker, request, cancel, received, abandoned, spent>>

PublishSend(w, l) ==
    /\ At(w, "publish") /\ l \in worker[w].page /\ mail' = Plus(mail, Send(l))
    /\ worker' = [worker EXCEPT ![w].page = @ \ {l},
                                ![w].pc = IF worker[w].page = {l} THEN "page" ELSE "publish"]
    /\ UNCHANGED <<campaign, recipient, breaker, request, cancel, received, abandoned, spent>>

\* mark_failed and self.retry: the next try finds the campaign failed
EnqueueRaises(w) ==
    /\ worker[w].pc \in {"page", "publish"}
    /\ EndInError(w, Retried(Its(w), ErrorRetries)) /\ abandoned' = TRUE
    /\ campaign' = [campaign EXCEPT !.status = "failed"] /\ breaker' = FALSE
    /\ UNCHANGED <<recipient, request, cancel, received>>

\* no page is left: finalize_campaign_task is scheduled; if that raises, the
\* campaign stays running
Schedule(w) ==
    /\ At(w, "page") /\ With("pending") = {}
    /\ End(w, Its(w), Plus(mail, Job("finalize"))) \/ EndInError(w, mail)
    /\ UNCHANGED <<campaign, recipient, breaker, request, cancel, received, abandoned>>
-----------------------------------------------------------------------------
(* send_single_recipient_task and BroadcastProcessor.dispatch_single        *)

\* neither the status of the row nor that of the campaign is looked at
Load(w, m) ==
    /\ m.job = "send" /\ Take(w, m, IF breaker THEN "revert" ELSE "mark")
    /\ UNCHANGED <<campaign, recipient, breaker, request, cancel, received, abandoned, spent>>

MarkSending(w) ==
    /\ At(w, "mark") /\ Goto(w, "call")
    /\ recipient' = [recipient EXCEPT ![To(w)] = "sending"]
    /\ UNCHANGED <<campaign, breaker, mail, request, cancel, received, abandoned, spent>>

\* MetaClient.send_template_message
Accepted(w) ==
    /\ At(w, "call") /\ Goto(w, "store")
    /\ received' = [received EXCEPT ![To(w)] = @ + 1]
    /\ UNCHANGED <<campaign, recipient, breaker, mail, request, cancel, abandoned, spent>>

\* MetaAPIError: any answer that is not a success
Refused(w) ==
    /\ At(w, "call") /\ Goto(w, "fail")
    /\ UNCHANGED <<campaign, recipient, breaker, mail, request, cancel, received,
                   abandoned, spent>>

RateLimited(w) ==
    /\ At(w, "call") /\ Goto(w, "revert") /\ breaker' = TRUE
    /\ UNCHANGED <<campaign, recipient, mail, request, cancel, received, abandoned, spent>>

\* Meta accepts the message and the answer is an error or never arrives: the
\* session's Retry posts it again, or gives up and the exception is recorded
ReplyLost(w) ==
    /\ At(w, "call") /\ Error
    /\ received' = [received EXCEPT ![To(w)] = @ + 1]
    /\ worker' \in {worker, [worker EXCEPT ![w].pc = "fail"]}
    /\ UNCHANGED <<campaign, recipient, breaker, mail, request, cancel, abandoned>>

\* _revert_to_queued, then MetaRateLimitError reaches the task
Revert(w) ==
    /\ At(w, "revert")
    /\ recipient' = [recipient EXCEPT ![To(w)] = "queued"]
    /\ End(w, Its(w), Retried(Its(w), SendRetries)) /\ GivesUp(Its(w), SendRetries)
    /\ UNCHANGED <<campaign, breaker, request, cancel, received>>

\* mutant: the counter is incremented before the transaction
OnSuccessCountsFirst(w) ==
    /\ At(w, "store")
    /\ \/ End(w, Its(w), mail) /\ recipient' = [recipient EXCEPT ![To(w)] = "sent"]
       \/ Error /\ Goto(w, "fail") /\ UNCHANGED <<recipient, mail>>
    /\ campaign' = [campaign EXCEPT !.sent = @ + 1]
    /\ UNCHANGED <<breaker, request, cancel, received, abandoned>>

\* _on_success: message, row and counter in one transaction; if it raises
\* after all, the failure is recorded
OnSuccess(w) ==
    /\ At(w, "store")
    /\ \/ /\ End(w, Its(w), mail)
          /\ recipient' = [recipient EXCEPT ![To(w)] = "sent"]
          /\ campaign' = [campaign EXCEPT !.sent = @ + 1]
       \/ Error /\ Goto(w, "fail") /\ UNCHANGED <<recipient, campaign, mail>>
    /\ UNCHANGED <<breaker, request, cancel, received, abandoned>>

\* _on_failure
OnFailure(w) ==
    /\ At(w, "fail") /\ End(w, Its(w), mail)
    /\ recipient' = [recipient EXCEPT ![To(w)] = "failed"]
    /\ campaign' = [campaign EXCEPT !.failed = @ + 1]
    /\ UNCHANGED <<breaker, request, cancel, received, abandoned>>

\* "Any other Exception": the database fails outside the inner handlers
Transient(w) ==
    /\ worker[w].pc \in {"mark", "revert", "fail"}
    /\ EndInError(w, Retried(Its(w), ErrorRetries)) /\ GivesUp(Its(w), ErrorRetries)
    /\ UNCHANGED <<campaign, recipient, breaker, request, cancel, received>>

\* the key of the circuit breaker expires after 60 seconds
Expire ==
    /\ breaker /\ breaker' = FALSE
    /\ UNCHANGED <<campaign, recipient, mail, worker, request, cancel, received,
                   abandoned, spent>>
-----------------------------------------------------------------------------
(* finalize_campaign_task                                                   *)

Check(w, m) ==
    /\ m.job = "finalize" /\ Take(w, m, "count")
    /\ UNCHANGED <<campaign, recipient, breaker, request, cancel, received, abandoned, spent>>

\* recipients are still in flight: checked again later, or never
Recheck(w) ==
    /\ At(w, "count") /\ \E l \in Lead : recipient[l] \in InFlight
    /\ End(w, Its(w), Retried(Its(w), CheckRetries))
    /\ UNCHANGED <<campaign, recipient, breaker, request, cancel, received, abandoned>>

\* mutant: recipients that are being sent are not counted
NoneInFlightUnsent(w) ==
    /\ At(w, "count") /\ \A l \in Lead : recipient[l] \notin {"pending", "queued"}
    /\ Goto(w, "complete")
    /\ UNCHANGED <<campaign, recipient, breaker, mail, request, cancel, received,
                   abandoned, spent>>

NoneInFlight(w) ==
    /\ At(w, "count") /\ \A l \in Lead : recipient[l] \notin InFlight
    /\ Goto(w, "complete")
    /\ UNCHANGED <<campaign, recipient, breaker, mail, request, cancel, received,
                   abandoned, spent>>

\* finalize: whatever the status has become
Complete(w) ==
    /\ At(w, "complete") /\ End(w, Its(w), mail)
    /\ campaign' = [campaign EXCEPT !.status = "completed"] /\ breaker' = FALSE
    /\ UNCHANGED <<recipient, request, cancel, received, abandoned>>
-----------------------------------------------------------------------------
Ask(a) == Trigger(a) \/ FireFails(a) \/ \E audience \in SUBSET Lead : Seed(a, audience)

Serve(a) == Enqueue(a) \/ Fire(a)

Work(w) ==
    \/ \E m \in Message : Start(w, m) \/ Skip(w, m) \/ Load(w, m) \/ Check(w, m)
    \/ \E page \in SUBSET Lead : Page(w, page)
    \/ \E l \in Lead : PublishSend(w, l)
    \/ Schedule(w)
    \/ MarkSending(w) \/ Accepted(w) \/ Refused(w) \/ RateLimited(w)
    \/ Revert(w) \/ OnSuccess(w) \/ OnFailure(w)
    \/ Recheck(w) \/ NoneInFlight(w) \/ Complete(w)

Fault(w) == ReplyLost(w) \/ EnqueueRaises(w) \/ Transient(w) \/ Lose(w)

Next ==
    \/ \E a \in Admin : Ask(a) \/ Serve(a)
    \/ AskCancel \/ Cancel \/ Expire
    \/ \E w \in Worker : Work(w) \/ Fault(w)

\* Requests that have seeded recipients go on, and some worker does while
\* there is work; new requests, cancellations and faults may never come.
Spec ==
    /\ Init /\ [][Next]_vars
    /\ WF_vars(\E a \in Admin : Serve(a)) /\ WF_vars(\E w \in Worker : Work(w))
-----------------------------------------------------------------------------
(* Properties                                                               *)

OneTrigger == spent.triggers = 0

\* tasks.py:99-101 and broadcast_engine.py:73-76: however triggers race, a
\* rate limit is retried and the campaign is cancelled, a lead receives the
\* message once; only a lost worker or an error may send it again.
ReceivedOnce == \A l \in Lead : received[l] <= 1 + spent.lost + spent.errors

\* broadcast_engine.py:276 "one UPDATE, zero SELECT, zero lock race": the
\* counters of a campaign that was triggered once are those of its recipients,
\* but for what a lost worker's message does again.
CountersAgree == OneTrigger =>
    /\ Cardinality(With("sent")) <= campaign.sent
    /\ Cardinality(With("failed")) <= campaign.failed
    /\ campaign.sent + campaign.failed
         <= Cardinality(With("sent")) + Cardinality(With("failed")) + spent.lost

\* tasks.py:231-254: a campaign completes when every recipient has its
\* outcome, and its counters then add up to its total; triggered once, never
\* cancelled and with no worker lost.
CompletedAddsUp ==
    OneTrigger /\ spent.cancels = 0 /\ spent.lost = 0 /\ campaign.status = "completed" =>
        /\ \A l \in Lead : recipient[l] \in {"none", "sent", "failed"}
        /\ campaign.sent + campaign.failed = campaign.total

\* tasks.py:233-250 waits for it: a campaign triggered once comes to a state
\* in which every recipient has an outcome, unless the fan-out broke off or
\* retries were used up.
EveryoneAnswered ==
    (\E l \in Lead : recipient[l] \in InFlight)
        ~> (\A l \in Lead : recipient[l] \notin InFlight) \/ abandoned \/ ~OneTrigger
=============================================================================

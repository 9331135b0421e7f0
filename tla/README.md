# Formal models of the Aryu LMS backend

TLA+ models of the Django project in `src/Aryu`, which serves a learning
management system: courses and batches, payments, webinars, ebooks, a resume
builder sold by subscription, coding assessments, live quizzes, leads and a
WhatsApp messaging gateway. The models cover the parts where several processes
work on the same rows: Celery workers, overlapping requests, payment gateways
that repeat themselves, Kafka consumers, WebSocket consumers. Every definition is
translated from the Python source; `PROJECT.json` maps each one to its lines.

## 1. The system

Django views (REST), Channels consumers (WebSocket), Celery tasks and two Kafka
consumers share one PostgreSQL database and one Redis. `ATOMIC_REQUESTS` is not
set, so a request commits statement by statement except inside `atomic`.

| Component | State it keeps | Operations | Interacts with | Hard behaviour | What makes it correct |
|---|---|---|---|---|---|
| code assessment: submissions | `CodeSubmission`, `SubmissionTestCaseResult`, counters of `CodingProblem` | submit, evaluate task, retry, fallback | Celery, runner | retries, redelivery, partial failure, test cases edited meanwhile | graded once, statistics equal grades, always settles |
| code assessment: attempts | `AssessmentAttempt` | summary | submissions | a stale summary stored last | progress is not taken back |
| code assessment: problems, runners | problems, test cases | CRUD, run | submissions | edits during an evaluation | (see submissions) |
| payments: orders | `PaymentTransaction`, `PaymentReport` | create, verify, webhook, signals | Razorpay, webinar, ebook | repeated and reordered events, unlocked rows | nothing for free, nothing paid is missing |
| payments: gateways, links, settlements | links, settlements | CRUD, other gateways | orders | none found beyond orders | rows written by one request each |
| payments: invoices | `invoice_number` of a transaction | numbering, document | orders | two savers take one number | one number per invoice |
| webinar registration | `WebinarRegistration`, `StudentCourse` | register, remind, grant after payment | orders | stale `is_paid` written back | paid means registered and enrolled |
| ebook registration | `EbookRegistration` | register again, remind, grant, confirmation mail | orders | `already_paid` read unlocked, stale `is_paid` written back | access follows payment |
| live quiz: room | Redis keys of a room, `Answer` rows, sockets | send, start, end, answer, connect | channel layer | interleaving at every `await` | one award per start, boards agree but for lost rows, clients see the state |
| live quiz: REST | rooms, participants, final board | create, join, end | room | capacity compared without a lock | room not overfull |
| WhatsApp campaigns | campaign, recipients, cache flag | trigger, fan out, send, cancel, complete | Celery, Meta API | racing triggers, lost workers, rate limits, retries | one message per lead, counters add up, everyone answered |
| WhatsApp inbox | chats, messages, two topics, a cache per web process | webhook, queue, consume, push | campaigns, Kafka, Meta | repeats, publication before commit, a producer that only buffers, rival keys of one chat | answered means stored, stored means shown, sent means received |
| leads and telecrm | leads | CRUD, reports | external CRM | none found | - |
| resume: subscriptions | subscriptions, transactions, pointer of the account | buy, verify, webhook, expire, charge | Razorpay, AI services, the webhook of payments | verify races webhook, two webhooks on one row, two orders at once, stale account saved | payment and row together, one row that counts, what is paid is activated |
| resume: editor, AI usage | resumes, usage log | edit, log, render | subscriptions | none (row locks) | - |
| webinar sessions | webinar, session, logs, summaries, feedback, certificates | start, end, edit, sync, feedback, send | Zoom, WhatsApp, certificates of students | repeated syncs, racing numbers in one table | summaries add up, feedback is certified, certificates kept |
| webinar integrations, bonus | none, bonus deliveries | calls, one loop | Zoom, mail | none of their own | - |
| users, students, dashboards | attendance rows, people | mark, list, report | batches | look and insert, two calendars | one login a day, hours that agree |
| chat rooms | rooms, messages, sockets | connect, load, send, mark, edit | channel layer | history against pushes, whole-row saves | no gap, flags as last asked for |
| notifications | rows, badge of each page | create, push, count, mark | every component | count and push are two steps | the badge misses nothing |
| exams, referrals, reports, batches, courses, resources | rows of their own | CRUD | - | none found | - |
| sign-in, middleware | tokens, throttle history | checks | every endpoint | throttle history read and written unlocked | - |
| maintenance, mock interviews, settings | none | commands; none | - | none found | - |

`PROJECT.json` lists all thirty-one components with their files and status, and
under `hazards` the places where each of them can go wrong, with the property
that covers it or the reason none does.

## 2. Modules

| Module | Role |
|---|---|
| `CodeAssessment` | submissions: submit, dispatch, evaluate, retry, fall back, crash, redeliver |
| `GradeOnce` | abstract: a submission is graded once, together with its statistics |
| `AssessmentProgress` | extends `CodeAssessment` by the stored progress that is computed from the submissions |
| `Payments` | orders, events, verify calls, registrations, reports, mails |
| `OrderBook` | abstract: an order is opened, paid once, and access follows a payment |
| `Subscriptions` | orders, rows, pointer and allowances of one account of the resume builder |
| `LiveQuiz` | one room: consumers, Redis, channel layer, stored answers |
| `Broadcast` | one campaign: requests, orchestrator, senders, finalizer |
| `Inbox` | the chats of one number: webhook, dashboard, Kafka consumers, what campaigns create |
| `WebinarSession` | one webinar: session, attendance report, certificates |
| `Attendance` | the attendance rows of one person and the hours computed from them |
| `Chat` | one room of a student and a trainer |
| `Notifications` | rows, pushes and the badge of each page |
| `CodeAssessment_proofs`, `Payments_proofs`, `Subscriptions_proofs`, `LiveQuiz_proofs`, `Broadcast_proofs`, `Inbox_proofs`, `WebinarSession_proofs` | theorems and their proofs |
| `Aryuapp_proofs` | theorems about `Chat`, `Notifications` and `Attendance`, with their proofs |
| `MCCodeAssessment`, `MCAssessmentProgress`, `MCPayments`, `MCSubscriptions`, `MCLiveQuiz`, `MCBroadcast`, `MCInbox`, `MCWebinarSession`, `MCAttendance`, `MCConsumers` | instances for TLC |

Where components share state, one module composes them. `Payments` contains the
webinar and ebook registrations, whose services run inside the payment's
transaction. `AssessmentProgress` extends `CodeAssessment`: its summaries read
the rows that evaluations write. `Inbox` contains the one thing campaigns do to
it, creating a chat. The `PaymentTransaction` rows of the resume builder are written
by the general webhook of `payments` as well as by its own; what the general one
does to them (`GeneralPaid`, `GeneralFailed`) is in `Subscriptions`, and what it does
to the rows of webinars and ebooks in `Payments`. `WebinarSession` contains what
students and other webinars do to the certificates, taking numbers. The other
modules share no state that a step of another one reads; `MCConsumers` checks the
two kinds of sockets of `aryuapp/consumers.py` side by side, a behaviour being one
of either.

Each module has a `TypeOK` (`RoomTypeOK`, `BadgeTypeOK`). Those of the proved
modules are theorems; a run checks none, since what it would catch there, the
other properties catch as well.

Variables that the code does not have are marked as history in the modules; no
action's guard reads them. They record what a property needs to speak about: who
overlapped with whom (`behind`, `checked`, `scanned`, `sure`, `overlapped`,
`overtaken`, `overwritten`, `beaten`), who wrote last (`general`), or what was lost
(`lost`, `faults`). A property that excepts one of them says that the code goes
wrong there and nowhere else.
Definitions commented `mutant:` are deliberate mistakes that no specification
uses; each property is known to reject one of them.

### CodeAssessment

`row[s]` is the `CodeSubmission`, `results[s]` its result rows, `counted` and
`accepted` what `s` contributed to the problem's two counters, `queue` the
messages in the broker by number of retries, `thread` a request or a worker
process with its locals, `faults` what went wrong so far.

| Actions | Code |
|---|---|
| `Submit`, `Dispatch`, `DispatchFails` | `create_submission`: row, `delay`, direct evaluation when `delay` raises |
| `Receive`, `Return`, `Retry`, `MarkSystemError`, `MarkFails` | `evaluate_submission_task`: `self.retry`, whose `Retry` the inner `except` swallows |
| `Load` ... `RunCase`, `StoreResults`, `Finalise` | `evaluate_submission`: count, loop query, runs, bulk insert, final transaction |
| `IntegrityError`, `Raise`, `Killed`, `Redeliver` | a test case deleted under its results; any exception; a process that dies before or after acknowledging |
| `AddCase`, `DeleteCase` | the administrator's test case endpoints |

A runner's answer is one of the outcomes the loop tells apart. Scores are whole
percentages in the model.

### AssessmentProgress

`attempt` is the `AssessmentAttempt` row, `reader[q]` a request of the summary
endpoint: what it computed, and whether another summary was stored since.

| Actions | Code |
|---|---|
| `Read` | `get_assessment_summary` up to the computation: one query of all submissions, the best score |
| `Store` | `update_or_create` of score, `is_passed`, `is_completed` |

### Payments

`txn[o]` is the committed `PaymentTransaction` (status, and whether student and
invoice are set), `paid`, `enrolled`, `reports`, `mails` what was given, `sent`
and `acked` the gateway's events, `thread` the requests in progress with the
stale copy of the row that some of them hold.

| Actions | Code |
|---|---|
| `CheckRegistered`, `CreateTransaction`, `SaveRegistration` | the order endpoints; those of ebooks save the registration before the order and after it |
| `ReadToSave` | registering again, reminder buttons and passwords of ebooks: a registration is read, and all of it saved (`SaveRegistration`) |
| `PaymentFails`, `PaymentAuthorized`, `PaymentCaptured` | Razorpay (external) |
| `WebhookSkip`, `WebhookRecheck`, `WebhookBegin`, `WebhookFailed` | `process_razorpay_webhook_event`, split by the status it finds |
| `VerifyLocked` | the ebook verify endpoint, which locks the row |
| `VerifyRead`, `VerifySave`, `SignalInvoice`, `SignalLink`, `InvoiceAgain` | the plain and the webinar verify endpoints, which save every column of a row read earlier, and the `post_save` signals this fires |
| `ReadRegistration`, `SendMail`, `Commit`, `Grant` | `update_registration_after_payment`, `create_registration_from_transaction` |
| `RegistrationRaises`, `DatabaseError`, `CacheError`, `Crash` | exceptions by what the code around them catches; a process that ends |

The row lock is `Locked`: a request in the middle of a locked transaction keeps
others out until it ends. A locked transaction changes the row in `Commit` only.

The code completes an order when a payment is authorized (`razorpay_service.py:96`,
126, and every verify endpoint, which checks the signature only), before it is
captured and whether it ever is. `Money` is therefore the authorization, and
`NothingForFree` says no more than that: an authorized payment that Razorpay never
captures buys what a captured one does. Orders are created with
`payment_capture: 1`, so that Razorpay captures by itself; that is its contract and
not the code's. `AccessFollowsMoney` starts from the capture.

Webinars and ebooks save whole rows of registrations they have read
(`webinar/views.py:1971`, 2476; `ebook/views.py:331`, 689, 725, 775-813, 1140), so that
`is_paid` is written back as it was. `overtaken` records the registrations that were
paid while a request that had read them as unpaid was still to save them. `Access`
is `is_paid`, or that: `PaidIsFulfilled`, `AccessFollowsMoney` and the refinement of
`OrderBook` speak of it, and so say that no registration loses `is_paid` in any other
way. With `paid` in the place of `Access` TLC finds them violated by one such
request. The course that came with a webinar stays in any case (`AccessIsKept`).
`acked` is read by no action: it is there for the fairness of deliveries.

### Subscriptions

`txn`, `plan`, `captured` belong to an order, `subs` is the sequence of
`UserSubscription` rows in the order of their commits, `current` the account's
pointer. A worker is a request, a webhook call or a run of the command.

| Actions | Code |
|---|---|
| `CreateOrder`, `OrderFails`, `InsertOrder` | the order endpoint: pending orders expire, then Razorpay is called, then the row is inserted |
| `Capture` | the customer pays (external), in full or another amount, even an expired order; authorized and captured are told apart by the status `GeneralPaid` writes only |
| `VerifyChecks`, `VerifyWrites`, `HookCaptured`, `Activate` | both handlers: look for a row, lock the transaction, take the active rows, commit expiry, new row, pointer and status |
| `HookTampered`, `HookFailed` | the webhook's other branches |
| `GeneralPaid`, `GeneralFailed` | `process_razorpay_webhook_event` of `payments`, which sets the same row captured, done or failed and creates no subscription |
| `ReadUser`, `SaveUser` | `forgot_password` reads the account and saves every column of it |
| `Lapse`, `View`, `Sweep`, `SweepRow`, `ClearCurrent` | the end date passes; `my_subscription` and the command `expire_subscriptions` |
| `Call`, `Charge`, `CallFails` | a service that reads the allowance, calls out, and saves the count it read plus one |
| `Crash` | a worker dies; an open transaction is rolled back |

Both webhooks may be registered at Razorpay: the docstring of the general one counts
resume plans among what it supports (`razorpay_service.py:89`). If it has written
`done` first, the webhook of the resume builder answers 200 at `resume/views.py:3284`
without activating anything, and only verify still adds the row. `general` holds the
orders whose status the general webhook wrote last; `DoneIsSubscribed` says nothing
of them, and `PaidIsActivated` excepts those that it has called done. The stale pointer
of `SaveUser` (`resume/views.py:1647-1688`; verifying an address and setting a
password, at 343 and 2203, save the same way, and are the same step) is `overwritten` until the next activation or expiry.

### LiveQuiz

`current`, `answered`, `results`, `board`, `ranked` are the room's Redis keys.
`conn[s]` is a consumer, `inbox[s]` what the channel layer holds for it,
`screen[s]` what its client shows. `saving` holds the `_save_answer` tasks that
were created and have not run; `answers` the `Answer` rows, `lost` (history) the tasks whose
row was not stored: `_save_answer` passes over every exception (`consumers.py:600`), so
that the stored board may fall short of the one in Redis. A consumer runs one
handler at a time, so each socket is a process and every `await` on Redis is a
step: `StartQuestion`, `ClearAnswered`, `Run`; `EndQuestion`, `EndStatus`,
`StoreResult`; `Submit`, `CheckAnswered`, `MarkAnswered`, `ReadRank`,
`EnterBoard`, `Award`; `Announce` is the broadcast that follows a command.
A right answer is worth one point. `awarded` counts how
often an answer of a participant to a question entered the board (history).
An owner may have any number of sockets, which nothing in the code prevents: two
tabs, or two administrators. `overlapped` (history, set by `Begin`) holds the owners
two of whose sockets have had a message in hand at once; what two such handlers
write may be lost, and the properties promise nothing to those participants, and
nothing in the room once two hosts are among them.

### Broadcast

`campaign` and `recipient` are the database rows, `mail` the broker's messages
(a bag), `worker` the tasks in progress, `request` and `cancel` the endpoints in
progress, `breaker` the rate limit flag in the cache, `received` what Meta
accepted for each lead. `abandoned` records that work was dropped in a way the
code never comes back to; `spent` counts disturbances.

| Actions | Code |
|---|---|
| `Trigger`, `Seed`, `Enqueue`, `Fire`, `FireFails` | the trigger endpoint: read the status, insert recipients, update to queued, publish |
| `AskCancel`, `Cancel` | the cancel endpoint |
| `Start`, `Skip`, `Page`, `PublishSend`, `Schedule`, `EnqueueRaises` | `trigger_broadcast_task` and the recipients' cursor |
| `Load`, `MarkSending`, `Accepted`, `Refused`, `RateLimited`, `ReplyLost`, `Revert`, `OnSuccess`, `OnFailure`, `Transient` | `send_single_recipient_task`, `dispatch_single`, the Meta client |
| `Check`, `Recheck`, `NoneInFlight`, `Complete` | `finalize_campaign_task` |
| `Lose`, `Expire` | a lost worker process; the flag's time to live |

Countdowns are abstracted: a message may be taken at any time. Taking a message
and the task's first step are one action. A worker that ends a task may be lost
before it acknowledges (`End`).

### Inbox

`chats` are the rows of one number by how their unique id was made, `row[m]` the
chat a customer message is stored in, `acked` what the webhook answered 200,
`cache[p]` the wamids process `p` remembers, `buffer` what the Kafka producers of the
web processes hold, `events` both topics, `lost` (history) what a producer dropped,
`consumer[c]` the message in hand. `open[x]` is an agent's transaction between publishing and
committing, `out[x]` the committed status, `got[x]` what the customer received.

| Actions | Code |
|---|---|
| `Deliver`, `DeliverRaises`, `DeliverAmbiguous` | the webhook: deduplicate, store, leave to the consumer or push; every exception is answered 200 |
| `Echo`, `Toggle`, `Restart` | an answer on the phone, the automation switch, a new web process |
| `Queue`, `Commit`, `Rollback` | `queue_outbound_message`, which publishes inside its transaction |
| `Send`, `Drop` | `publish_event` only enqueues, and nothing flushes the producer: a message reaches the topic later, twice if an acknowledgement is lost, or not at all, when the process ends or the delivery fails, which is logged (`apps.py:74`) |
| `CampaignChat`, `SpreadsheetChat` | the other two ways a chat comes about |
| `Poll`, `Inbound`, `Outbound`, `Update`, `UpdateRaises`, `Kill` | the consumer command: push and store, send, record; exceptions inside and outside its `try` |

### WebinarSession

`session` is the session row; `reports` counts how often Zoom's whole report was
inserted, `summary`, `attended` what was computed from it; `feedback`, `cert`, `sent`,
`delivered` belong to registrations, `elsewhere` holds the numbers of the certificates
that students and other webinars have in the same table.

| Actions | Code |
|---|---|
| `Start`, `End` | the REST views, as far as the session row goes |
| `Sync`, `SyncSums`, `SyncStores`, `SyncMarks` | the attendance synchronisation: insert, aggregate, bulk update, mark |
| `Feedback`, `Send`, `Create`, `Issue`, `Insert`, `SendPdf`, `SendFails`, `Flag` | three endpoints that issue a certificate: find or number, insert, deliver, flag |
| `IssueElsewhere` | a certificate of a student or of another webinar takes the next number |
| `Crash` | a request dies between two statements |

`beaten` (history) holds the registrations whose feedback had looked up a number and
lost it to another certificate before its own `INSERT`. `FeedbackCertified` excepts
them, faults, and feedback whose request is still running (`Certifying`), and no
others: many certificates may exist, here and elsewhere.

The status of the webinar is not modelled. Of the three ways to change it, the socket's
start and end cannot succeed, because they look up an integer key by the UUID of the
socket's url (`signaling.py:32`, 61; `consumers.py:120`), the only route of cancel
passes `uuid` to a method that takes `slug` (`urls.py:23`, `views.py:2557`), which
raises `TypeError`, and what is left, the REST start and end beside an edit that saves
every column (`views.py:678`), is a stale save: it may put back the status it read,
and there is nothing to promise. `certificate_sent` may be taken back likewise by the
saves of a registration at 1971 and 2476, which are in `Payments` for `is_paid` only.
Registrations and certificates are not deleted in the model.

`Match` is the assignment of Zoom's participants to registrations, by address, by
name, by first name.

### Attendance

Time is a number of ticks; `Day` is the day of the Indian calendar, `UtcDay` that
of UTC, `Lag` ticks apart. `rows` are the attendance rows of one trainer or student.

| Definitions | Code |
|---|---|
| `TrainerMarks`, `DatedMarks`, `UndeterminedMarks`, `Insert`, `Fails` | the trainer's and the administrator's endpoints: a look for a row of the day, then the `INSERT` |
| `StudentMarks` | the student's endpoint, which looks for nothing |
| `ListHours`, `FullLogHours`, `ReportHours` | three views that add up a trainer's day |
| `Sessions` | the student's list, which pairs logins with logouts |

### Chat and Notifications

`Chat`: `messages` are the rows of a room, each with the set of its `flags`
(`is_read`, `is_deleted`), `socket[c]` a consumer with what its client shows,
`inbox[c]` its channel, `request[r]` a `PUT` or `PATCH` that holds a copy of a row.
`Connect`, `History`, `LoadMore`, `SendMessage`, `Push`, `Receive`, `MarkRead`,
`Disconnect` are the `ChatConsumer`; `Upload`, `MarkRoomRead`, `Fetch`, `Save` the
viewset. Both flags are writable (`chats/serializers.py:169`), so a body may carry each
as true, as false, or leave it out; the form of a `PUT` carries what it leaves out as
false (`Body`). A request may therefore restore a deleted message, by asking for it.
What must not happen is that one that does not carry a flag changes it; it does where
another wrote the flag after its query (`behind`), and that is all: `asked` (history) is
what was asked for last, `undone` are the flags that such a save wrote back, and
`FlagsAsAsked` relates the two. Bodies that move a message to another room or change
its sender, which the serializer allows too, are not modelled.

`Notifications`: `notes` are the rows with the users still to be pushed to,
`client[c]` a page with its badge, `queue[c]` its channel. `Create`, `SendToGroup`
are the signals; `Join`, `SendCount`, `Notify`, `MarkNote`, `MarkAll`, `SendZero`,
`Leave` the `NotificationConsumer`; `RestMarkRead` the endpoint.

Channels keep what waits for a consumer until it is read. The code's channel layer
drops it after 10 seconds, or beyond 1500 messages (`settings.py:147-150`), which none
of the models has: `NoGap`, `BadgeCovers` and, of `LiveQuiz`, `ScreensAgree` hold of
messages that a consumer takes in time. The steps concerned are `Chat!Push`,
`Notifications!SendToGroup` and `LiveQuiz!Announce`.

## 3. Runs

Two threads, workers or requests are enough for every hazard listed: each is a
race of two actors on one row. Where a third actor matters (the gateway, the
host, the administrator) it is an action of its own and needs no thread.

| Run | Instance | Shows |
|---|---|---|
| `submission_eager` | inline tasks, 2 submissions, 2 threads, a test case that is added and deleted, 2 exceptions, 1 killed process, 2 summaries, pass mark 60 | `StatisticsMatchGrade` at every moment; `GradesOnce`, the refinement of `GradeOnce`; `NeverTakenBack`: only an overlapping summary lowers progress |
| `submission_settles` | broker, fairness, 1 submission, 2 threads, 2 retries, 2 exceptions, and 1 disturbance: a killed process, a redelivery, or a test case added or deleted | `CountedOnce`, `GradedIsCounted`, `AcceptedIsBacked`, and `Settles`: every submission reaches a terminal status for good, but for `TooMuchFailed` |
| `orders_book` | two of a plain order and two webinar orders of one seat, 2 threads, failed attempts of one order delivered before authorizations, that order captured, 1 exception | `PaidIsFulfilled`, and the refinement `KeepsTheBook` of `OrderBook` |
| `orders_access` | an ebook order, 2 threads, failures in any order, 1 exception, 1 crash, saves of the registration as it was read, fairness | `NothingForFree`, `PaidIsFulfilled`, `AccessFollowsMoney` |
| `paid_then_failed` | an ebook order, 1 thread | finding: `PaidStaysPaid` does not hold |
| `subscriptions` | 2 orders, the free plan and one for sale, 1 service with an allowance, 2 workers, 3 requests besides webhook calls, 1 crash, fairness | `DoneIsSubscribed`, `OnceUnlessOverlapped`, `SupersededIsExpired`, `CurrentIsLast`, `PaidIsActivated` |
| `quiz_room` | 2 questions; a host and a participant who come and go, 4 commands; two tabs of the participant, 2 commands; two hosts, 2 commands | `AwardedOncePerStart`, `BoardsAgree`, `EndedHasResult`, `ScreensAgree` |
| `broadcast_sends` | 2 leads, 2 workers, 2 trigger requests, pages of 1, 1 retry of each kind, 1 disturbance | `ReceivedOnce`, `CountersAgree`, `CompletedAddsUp`, `EveryoneAnswered` |
| `inbox` | any 2 of 2 customer messages and 2 of an agent, 2 web processes, 2 consumers, 1 fault | `InboundKept`, `StoredIsShown`, `SentIsReceived`, `PendingIsUnderway` |
| `webinar` | 2 registrations that share a first name, a report with 4 participants, 2 requests at a time and 5 in all, 1 fault, certificates elsewhere | `SummaryIsOfReports`, `FeedbackCertified`, `CertificateKept` |
| `attendance` | days of 4 ticks, UTC 1 tick behind, times 0 to 4, 4 rows, 2 requests at a time | `OncePerDay`, `HoursWithinPresence`, `ViewsAgree`, `SessionsAddUp`, `HoursKept` |
| `sockets` | a socket on each side, history pages of 1, 2 messages, 2 requests on the first with 4 kinds of body, 1 message without a push; 2 pages (a student, a super admin), 2 notifications, 1 failed push | `NoGap`, `FlagsAsAsked`; `BadgeCovers` |

### Bounds

- `MaxRaises`, `MaxLost`, `MaxRedelivered`, `MaxCrashes`, `MaxFaults`, `MaxFailed`,
  `MaxUnsent`: faults of each kind. One fault can strike at every step, so a run
  with one covers every place where the code can be interrupted;
  both submission runs have two exceptions so that the fallback after a failed
  dispatch may itself raise.
- `MaxRetries`, `SendRetries`, `ErrorRetries`, `CheckRetries`: the code's limits
  (2 to 10) made small. A retry starts from a state that differs from the one
  before only in its number, so first, repeated and last try are the cases.
- `MaxDisturbed` of `CodeAssessment`: killed processes, redeliveries and edits of
  test cases together. One is enough for `submission_settles`, where each meets two
  exceptions; `submission_eager` allows three (add, delete, kill).
- `MaxDisturbed` of `Broadcast`: further triggers, cancellations, exceptions and
  lost workers of a campaign: each kind is counted for itself in `spent`, and the
  sum is bounded.
- `MaxRequests`: requests begun. In `subscriptions` three are an order and two that
  meet in the middle, or two orders and one request beside the webhook calls, which
  are not counted; in `webinar` five are start, end, synchronise and two more of any
  kind, or five about certificates, those elsewhere among them.
- `MaxOrders` 2 (the constraint `FewOrders`), of three: a plain and a webinar order, or two webinar orders. Orders
  share a row only when they are of one registration. `Retried` has one of them, so
  that an order whose attempt failed meets one that had none. `Capturable` names the
  orders that may be captured besides being authorized: of two orders one is, so that
  both events of one meet the single event of the other.
- `MaxCommands` 4: send, start, end of one question, and one more to send or start
  another one or the same again; `Few` 2 in the rooms with three sockets: two commands
  that overlap, or one question that both tabs answer.
- `MaxBegun` 2 in `inbox` (the constraint `FewBegun`): two messages from the customer,
  two from agents, or one of each. What messages share is a chat, a producer or a
  consumer, and two of them meet in each.
- `MaxBusy` 4 in `sockets` (the constraint `FewBusy`) bounds the sockets that are
  connected with twice the requests in progress: both sockets and a request, or two
  requests without sockets, between which only the endpoints write.
- `MaxMessages`, `MaxNotes` 2 with pages of 1: a message inside and one outside the
  first page; one notification marked while another arrives. `Edited` says which
  messages `PUT` and `PATCH` are sent for: rows do not affect each other.
- `MaxTime`, `MaxRows` 4: a day, its last tick before and its first after midnight,
  here and at UTC; two logins and two logouts.
- Two leads with pages of one give a full page, a second page and an empty one.
- `MailCap` 2 in `Payments` and 2 in `got` of `Inbox` stand for "more than one".
- Symmetry is used for processes of one kind, in runs whose action properties
  name none or treat all alike; no run of a liveness property uses it.

`CHECK_DEADLOCK FALSE` in every configuration: a submission that is graded, an
order that is fulfilled, a campaign that is over, a host who sends nothing more,
or bounded requests that are used up leave nothing to do.

### Fairness

- `CodeAssessment!FairSpec`: weak fairness of each thread's own steps (a process
  that runs keeps running; killing it is a fault), strong fairness of taking each
  message (a Celery queue is served in order, so a message that waits is taken even
  though workers are busy in between). Nobody is obliged to submit.
- `Payments!FairSpec`: weak fairness of the steps of a request in progress, strong
  fairness of the delivery of an event that was not answered (Razorpay repeats an
  event until it gets a 2xx answer). Customers need not verify.
- `Subscriptions!FairSpec`: the same of each worker's own steps, and of a webhook
  call for each order captured in full. Views, commands and customers are not fair.
- `Broadcast!Spec`: weak fairness of requests that have seeded recipients, as a
  whole, and of the workers, as a whole. New triggers, cancellations, the expiry of
  the flag and faults are not fair.
- The other modules have no liveness property and no fairness. Their code gives
  none: a WebSocket client may leave, a Kafka offset may be committed before the work,
  a request that died is not repeated.

### Finding

`paid_then_failed` (`razorpay_service.py:173`): a late `payment.failed` of an earlier
attempt overwrites a paid status, although the docstring at line 87 promises
idempotent processing.

What else the code does is in the hazards, and the properties name it as their
exceptions: they show that nothing else goes wrong, and not that this does. Two of the
exceptions contradict a comment of the code, although no run has them as its finding:

- `live_quiz/consumers.py:333` says 'Atomic "mark as answered" — prevents duplicate
  submissions'; check and mark are two Redis commands, and two tabs of one participant
  that answer at once are both awarded (`overlapped` in `AwardedOncePerStart`);
- `broadcast_engine.py:147` says 'Guards against duplicate triggers from concurrent API
  requests'; two triggers that both read draft both queue the campaign, and the second
  resets the counters of a campaign that is being sent. `CountersAgree` excepts it.

The others:

- a swallowed `Retry` shows `system_error` while the retry is on its way
  (`code_assessment/tasks.py:35`); `Settles` speaks of the last status;
- a test case added between count and loop may fail in an accepted submission
  (`execution_service.py:230`); `AcceptedIsBacked` excepts additions;
- two hosts of a quiz at once leave screens behind and questions without a result
  (`live_quiz/consumers.py:299`), and a stored answer is lost to any exception (600);
- a redelivered orchestrator skips a campaign, exhausted retries leave a recipient
  queued;
- an order is complete when its payment is authorized, captured or not
  (`razorpay_service.py:126`);
- verify and webhook may both add a row for one payment (`resume/views.py:3116`),
  and two captures at once leave two rows active (3341);
- the general webhook calls an order of the resume builder done without a row, and then
  the other webhook skips it (3284); a password reset saves a stale pointer (1688);
- a request that had read a registration as unpaid takes `is_paid` back
  (`webinar/views.py:1971`, `ebook/views.py:813`); the course stays;
- a number with two chats loses messages (`lead/whatsapp/views.py:1174`), an event is
  lost in the producer's memory (`apps.py:107`), and a consumer may die over a message
  it got before its row was committed;
- a second synchronisation doubles every attendance total (`webinar/views.py:2301`), and
  feedback stays without a certificate when another one took its number (2607);
- a `PUT` or `PATCH` writes back flags that were marked since its query
  (`chats/urls.py:14`);
- between midnight here and at UTC a trainer may log in twice (`aryuapp/views.py:9642`);
- a super admin's `mark_all_read` shows 0 and reads nothing (`aryuapp/consumers.py`).

## 4. Theorems

The proofs hold for all values of the constants that satisfy the modules' named
assumptions: any number of submissions, orders, registrations, messages,
overlapping processes, requests and faults. Those assumptions say of which kind a
constant is, and nothing about the system; what is assumed beyond them stands in
the column "Assumes".

| Theorem | Assumes | Argument |
|---|---|---|
| `CodeAssessment_proofs!TypeCorrect` | - | `TypeInv` adds to `TypeOK` that no thread past the empty-problem test has a total of zero, so that `Score` never divides by zero |
| `GradesAreCounted` | - | `GradedIsCounted` is inductive with `TypeInv`: grade and counter are written by one step, and no step takes a counter back |
| `AcceptedIsEarned` | - | `BackedInv`: as long as no test case was added, each worker has passed and still has to run no more cases than it counted (`Promises`), and exactly as many only if every case that exists is among them. So a worker that passed as many as it counted has passed all that exist, whatever was deleted meanwhile |
| `CountedAtMostOnce` | tasks inline, or no redelivery | `OnceInv`: for each submission at most one thread or one message can still count it, and none once it is counted. `CountedOnce` alone is not inductive: nothing in it excludes two threads that are about to grade |
| `StatisticsAgree`, `GradesAreFinal` | tasks inline | `InlineInv`: nothing is queued, and what is being evaluated has no grade, so a grade and its statistics come and stay together |
| `ImplementsGradeOnce` | tasks inline | each step of `CodeAssessment` is a step of `GradeOnce` or leaves grade, counted and accepted alone; rests on `InlineInv` and `OnceInv` |
| `ProgressIsKept` | tasks inline | `ProgressInv`: what is stored or will be is no more than the present submissions give, and what a request that was not overtaken will store is at least what is stored. Grades are final and an ungraded row has score 0 (`UngradedIsZero`), so scores only grow (`RowsGrow`) |
| `Payments_proofs!TypeCorrect` | - | `TypeOK` is inductive |
| `GivenIsPaidFor` | - | `MoneyInv`: what is captured was authorized (`EventsPaired`), a request past its check works for an order whose payment was authorized (`RequestsPaid`), and a request that saves a registration saves `is_paid` only if that is backed (`SavesPaid`). Each action is shown to give only what is backed (`GivesBacked`) |
| `DoneEbooksAreReported` | - | `ReportInv`: no request with a stale copy works for an ebook order, so its row and report are written by `Commit` alone |
| `ImplementsOrderBook` | `FailuresFirst` | every step of a request works on one order (`Works`), which it opens, pays, grants or saves, or leaves as the abstract book has it. `BookInv`: what a request holds fits its order (`Fits`); while an order is created nobody else works on it (`Created`); a request that read its registration as paid, and will save that, read one with access, and one that will save it as unpaid although it is paid by now was noted (`Copied`); an order without a row has no events (`NoneUnsent`), and who is enrolled has access (`Seats`) |
| `AccessIsKept` | - | the same invariant without `FailuresFirst`: only `payment.failed` makes a paid order unpaid, only a save of what was read before the payment takes `is_paid` back, and access and enrolments stay |
| `PaidOrdersAreFulfilled` | - | `FulfilInv`: as long as nothing raised or died, whatever a paid order lacks, a request about it is about to give (`Served`), and what a request is going to write back is complete (`Complete`); a request that reads a row reads it with all that its order was given |
| `Subscriptions_proofs!TypeCorrect`, `PaymentAndRowTogether`, `SecondRowOnlyByOverlap`, `ActivationSupersedes`, `PointerIsLast`, `ChargedAtMostServed` | - | one invariant `IInv`: besides the properties, what each kind of worker knows between its steps (`Ordering`, `Paying`, `Overlooking`, `Taking`, `Sweeping`, `Calling`). The rows that an activation overlooked are younger than its look; a row older than its scan was taken or had expired. An account that was read names a row there was (`Saving`). Rows are only appended and changed in place (`Extends`), so what a worker knows stays true of the longer sequence |
| `LiveQuiz_proofs!TypeCorrect` | - | inductive with `Roles`: a socket of a host never answers and one of a participant never runs a command |
| `ResultIsStored`, `ScreensShowTheState` | - | `QuizInv`: two sockets of one owner are in the middle of something only after they overlapped (`Alone`), so a host about to write is the only one. Unless the host is about to announce a change, the last message that waits for a client announces the current state, and a client for which none waits shows it (`Shown`); a question that has ended has its result, or the host is about to store it (`Stored`) |
| `AwardsAreOnce`, `BoardsAreOne` | - | `QuizInv`, for each participant who has not overlapped: his tab that answers is the only one (`TabKeeps`), and what other owners do leaves his share alone (`ElsewhereKeeps`). An answer that is marked and not counted yet has a start left for it (`Awarding`); while no question is started twice, a participant has one row at most of a question, stored or to be saved, in `answers`, in `saving` or in `lost`, and those that are right are the points on the board (`Boards`) |
| `Broadcast_proofs!TypeCorrect`, `MessagesAreOnce` | - | `Once`: for each lead, what Meta has, the copies of its message that may still reach Meta (in the broker, with a worker, on a page) and the row still to be paged make one at most, plus one for each lost worker and error. A copy passes from row to page to broker to worker, and is never on two of them |
| `CountersAreThoseOfTheRows`, `CompletionAddsUp` | - | `Counting`: the counters, with the copies that will still count, are no more than the leads that are counted or will be, plus the lost workers; `Completing`: nothing is pending or in flight when the finalizer completes. Together the counters equal the rows |
| `Inbox_proofs!TypeCorrect` | - | no two chats under one id (`Distinct`), so that there are at most three; needs what a consumer has in hand (`HandOk`) |
| `AnsweredIsStored`, `StoredIsPushed` | - | each action keeps rows, and hands a stored message on, from the producer's memory to the topic, to a consumer, to the dashboards, or to what the producer dropped |
| `StatusIsTrue`, `PendingIsSent` | - | `HandedOver`, `OpenIsUnderway`: a message without a row that is on its way belongs to an open transaction; it is on its way still unless the producer dropped it or a consumer died over it |
| `WebinarSession_proofs!TypeCorrect` | - | with `Types`, which gives the summaries their type; `RepeatedSum` and `CountLogs` bound what `Total` computes |
| `SummariesAddUp` | - | `AttendanceOk`: what a synchronisation counted is between one and the reports there are |
| `FlagTellsTruth`, `FeedbackIsCertified`, `CertificatesAreKept` | - | `CertificateInv`: a request about to deliver works for a certificate that exists, and one about to flag it has delivered it; the number it will insert is not zero; if that of a feedback's request is taken by now, its registration has a certificate or was beaten (`FreeOrBeaten`); numbers are unique, here and elsewhere (`Unique`), since `Insert` tests both unique columns and a number that is inserted elsewhere is new (`LastIsGreatest`) |
| `Aryuapp_proofs!RoomTypes`, `NoMessageIsMissed`, `FlagsAreAsAsked` | - | `RoomInv`: `NoGap` is inductive with the ids that a channel and a socket refer to (`Refers`); a request knows the flags of its row as they were last asked for, but for those written since its query or undone (`Fetched`), and any step that writes flags keeps that (`FetchedStays`); what is marked deleted was deleted (`DeletedIsGone`) |
| `BadgeTypes`, `BadgeIsCovered` | - | `BadgeInv`: the badge of a page is at least the number of unread rows whose push was sent, did not fail, and does not wait in its channel; when it is about to show 0 there are none (`Covered`) |
| `AttendanceTypes`, `MarkedOncePerDay` | - | `MarkInv`: a request that compared its own day, with nothing inserted since (`Looked`), still finds no row of its status on that day |
| `HoursWithin`, `HoursAgree`, `SessionsAdd`, `HoursAreKept` | - | `OwnTimes`: no two rows and no request about to insert one have the same time, so that a day has one order (`SortExists`, `ByTimeSorts`). Each fold over it is a run of its steps (`FoldExists`, `FoldRuns`), and what holds of a run is shown along its positions (`UpTo`): the hours so far lie between the first login and the open one, or the last logout (`Within`); the account of alternating rows is the sum over their visits (`AccountOfVisits`), and the pairing takes the same visits (`PairingOfVisits`); an order of more and later rows begins with the order of the old ones (`SortExtends`, `HoursGrow`) |

What is assumed beyond the kinds of the constants, and why:

- *Tasks inline, or no redelivery* (`Eager`, `MaxRedelivered = 0`): with a broker that
  delivers again, a submission is counted twice; the settings decide.
- `FailuresFirst`: Razorpay reports a failed attempt before a later authorization of
  the same order. Otherwise a paid order may be failed again, which is the finding of section 3.
- In `PaymentsAssumption`: a webinar order and an ebook order have different
  registrations, which are rows of two tables.

`GradesAreFinal`, `DoneEbooksAreReported`, `AccessIsKept`, `ChargedAtMostServed`, `FlagTellsTruth` and
the type theorems state properties that no run lists.

Only model-checked:

- the liveness properties `Settles`, `AccessFollowsMoney`, `PaidIsActivated` and
  `EveryoneAnswered`: the prover has no support for fairness and `ENABLED`.

Everything else that a passing run checks is also a theorem. The proved modules
use no `RECURSIVE` operator. The library's induction theorems take an operator as a
parameter, which no installed prover can instantiate. Where a proof needs induction
over data (the folds of `Attendance`), it takes the least counterexample instead:
every set of naturals that is not empty has a least element (`LeastNat`, from the
library's `WFMin`). That is also why `ByTime` says what the order is, and does not
call a sorting operator.

## 5. Not modelled

- **Abstracted inside the modelled components.** Texts, amounts, documents, leads,
  timings.
  - `Payments`: EMI links, invoice numbers, students known by other keys, and the
    pointers between registrations and transactions; a stale save may take such a
    pointer back, so that an ebook gets another order. An ebook registration exists
    before its order. Customers give an email address.
  - `Subscriptions`: sign-in, reminders, CRUD of plans, and whether a payment is
    captured besides being authorized.
  - `LiveQuiz`: leaderboard broadcasts and their throttle, timers, streaks, expiry of
    keys, a consumer that dies; as for all sockets, the limits of the channel layer
    (see Chat and Notifications).
  - `Broadcast`: campaigns from a spreadsheet, deleting a campaign, tasks run inline (a
    schedule of the model's).
  - `Inbox`: templates, media, unread counters, the 24-hour rule, lists.
  - `WebinarSession`: the status of a webinar and its edits (see there), presence and
    chat of the socket, reminders (mail only), free registration, CRUD, deletions.
  - `Attendance`: breaks, which pair as logins do, and the checks of batch and
    schedule, which only refuse.
  - `Chat`: bodies that change the room or the sender of a message, creating rooms, logs
    that only read. `Notifications`: which event notifies whom, lists, announcements.
- **Exams.** As the code stands, nothing gets past the first step: the `post_save`
  signals of answers and results read `test.course`, a field that `Test` does not
  have (`aryuapp/signals.py:343`, 421), so that every answer is stored with an
  error and a finalised result is rolled back. There is no behaviour to check.
- **Left out.** CRUD by single requests on single rows, which is most of the code
  by lines (courses, batches, leads, referrals, resources, the resume editor, the
  bonus, the REST side of the quiz), read-only reports, calls to mail, Zoom and CRM
  services, layout of documents, sandboxes of the runners: no two steps of theirs
  meet. Three small exceptions are known and recorded as components: the throttle's
  history, a quiz room's capacity, and invoice numbers, each one look followed by
  one write.

## 6. Plan

Done, in order of importance: submissions (grades), orders (money), the live quiz
room, WhatsApp campaigns; then progress, subscriptions, the inbox, webinar sessions
and certificates, attendance, chat rooms and the badge. What would come next:

1. `Broadcast`: deleting a campaign and campaigns from a spreadsheet; an abstract
   specification of a campaign (each lead pending, then answered once).
2. `LiveQuiz`: a consumer that dies, the throttled leaderboard, joining against
   `max_participants`, ending the quiz into the final board.
3. Invoice numbers, and links and settlements, in `Payments`.
4. Exams, once their signals work.

Theorems to prove next: a refinement of the abstract campaign of item 1, whose
steps the copies of `Broadcast_proofs` already tell apart.

---------------------------- MODULE Notifications ----------------------------
(***************************************************************************)
(* The unread badge: the rows that the signals store (aryuapp/signals.py),  *)
(* the push that follows each of them, and the NotificationConsumer of each *)
(* open page (aryuapp/consumers.py), which answers with a count.            *)
(***************************************************************************)
EXTENDS Naturals, Sequences, FiniteSets

CONSTANTS
    User,       \* who has notifications; each has a group of his own
    SuperAdmin, \* those of them with user_type super_admin
    Client,     \* connected pages
    Owner,      \* Owner[c]: the user whose token page c sends
    MaxNotes,   \* bound: notifications
    MaxFailed   \* bound: pushes that fail

ASSUME NotificationsAssumption ==
    /\ Owner \in [Client -> User] /\ SuperAdmin \subseteq User
    /\ {MaxNotes, MaxFailed} \subseteq Nat

VARIABLES
    notes,  \* the rows by id
    client, \* client[c]: handler in progress and the badge that the page shows
    queue,  \* queue[c]: pushes that wait for the consumer of c
    failed  \* <<i, u>>: the push of row i to u failed
badgeVars == <<notes, client, queue, failed>>

NoteId == 1 .. Len(notes)
Away == [pc |-> "closed", badge |-> 0]

Note == [to : SUBSET User, is_read : BOOLEAN, unsent : SUBSET User]
ClientState == [pc : {"closed", "joined", "open", "marked", "cleared"}, badge : Nat]

BadgeTypeOK ==
    /\ notes \in Seq(Note)
    /\ client \in [Client -> ClientState]
    /\ queue \in [Client -> Seq(NoteId)]
    /\ failed \subseteq NoteId \X User /\ Cardinality(failed) <= MaxFailed

BadgeInit ==
    /\ notes = <<>> /\ failed = {}
    /\ client = [c \in Client |-> Away] /\ queue = [c \in Client |-> <<>>]

\* _get_unread_count
Unread(u) == {i \in NoteId : u \in notes[i].to /\ ~notes[i].is_read}

Group(u) == {c \in Client : Owner[c] = u /\ client[c].pc # "closed"}

-----------------------------------------------------------------------------
(* Signals: one row may be for a student and for his trainer at once, and   *)
(* has one is_read for both                                                 *)

\* Notification.objects.create, outside any transaction
Create(to) ==
    /\ Len(notes) < MaxNotes
    /\ notes' = Append(notes, [to |-> to, is_read |-> FALSE, unsent |-> to])
    /\ UNCHANGED <<client, queue, failed>>

\* the row's post_save signal, group after group; a failure is passed over
SendToGroup(i, u, fails) ==
    /\ u \in notes[i].unsent
    /\ notes' = [notes EXCEPT ![i].unsent = @ \ {u}]
    /\ queue' = [c \in Client |-> IF c \in Group(u) /\ ~fails THEN Append(queue[c], i) ELSE queue[c]]
    /\ failed' = failed \cup (IF fails THEN {<<i, u>>} ELSE {})
    /\ Cardinality(failed') <= MaxFailed
    /\ UNCHANGED client

-----------------------------------------------------------------------------
(* NotificationConsumer                                                     *)

\* connect: into the group, then accept
Join(c) ==
    /\ client[c].pc = "closed"
    /\ client' = [client EXCEPT ![c].pc = "joined"]
    /\ UNCHANGED <<notes, queue, failed>>

\* what connect and mark_read end with: the page is sent a fresh count
SendCount(c) ==
    /\ client[c].pc \in {"joined", "marked"}
    /\ client' = [client EXCEPT ![c] = [pc |-> "open", badge |-> Cardinality(Unread(Owner[c]))]]
    /\ UNCHANGED <<notes, queue, failed>>

\* notify
Notify(c) ==
    /\ client[c].pc = "open" /\ queue[c] # <<>>
    /\ client' = [client EXCEPT ![c].badge = Cardinality(Unread(Owner[c]))]
    /\ queue' = [queue EXCEPT ![c] = Tail(@)]
    /\ UNCHANGED <<notes, failed>>

Read(ids) == notes' = [i \in NoteId |-> [notes[i] EXCEPT !.is_read = @ \/ i \in ids]]

\* mark_read, of any id
MarkNote(c, i) ==
    /\ client[c].pc = "open" /\ Read({i})
    /\ client' = [client EXCEPT ![c].pc = "marked"]
    /\ UNCHANGED <<queue, failed>>

\* mutant: everyone's rows are looked for under the wrong key
MarkAllElsewhere(c) ==
    /\ client[c].pc = "open" /\ Read({})
    /\ client' = [client EXCEPT ![c].pc = "cleared"]
    /\ UNCHANGED <<queue, failed>>

\* mark_all_read; for a super admin it looks for the rows of a trainer
MarkAll(c) ==
    /\ client[c].pc = "open"
    /\ Read(IF Owner[c] \in SuperAdmin THEN {} ELSE Unread(Owner[c]))
    /\ client' = [client EXCEPT ![c].pc = "cleared"]
    /\ UNCHANGED <<queue, failed>>

\* ... and sends 0
SendZero(c) ==
    /\ client[c].pc = "cleared"
    /\ client' = [client EXCEPT ![c] = [pc |-> "open", badge |-> 0]]
    /\ UNCHANGED <<notes, queue, failed>>

Leave(c) ==
    /\ client[c].pc # "closed"
    /\ client' = [client EXCEPT ![c] = Away] /\ queue' = [queue EXCEPT ![c] = <<>>]
    /\ UNCHANGED <<notes, failed>>

\* REST: mark_notification_read
RestMarkRead(i) == Read({i}) /\ UNCHANGED <<client, queue, failed>>

BadgeNext ==
    \/ \E to \in SUBSET User \ {{}} : Create(to)
    \/ \E i \in NoteId : \/ RestMarkRead(i)
                         \/ \E u \in User, fails \in BOOLEAN : SendToGroup(i, u, fails)
    \/ \E c \in Client : \/ Join(c) \/ SendCount(c) \/ Notify(c) \/ MarkAll(c) \/ SendZero(c)
                         \/ Leave(c) \/ \E i \in NoteId : MarkNote(c, i)

BadgeSpec == BadgeInit /\ [][BadgeNext]_badgeVars

-----------------------------------------------------------------------------
(* Property                                                                 *)

\* The badge of an open page is never below the number of its user's unread
\* rows but those whose push is to come, waits or failed: no order of counting,
\* reading and pushing loses one.  A super admin is left out, whose mark_all_read
\* shows 0 and reads nothing.
BadgeCovers == \A c \in Client : LET u == Owner[c] IN
    client[c].pc \in {"open", "marked"} /\ u \notin SuperAdmin =>
        client[c].badge >= Cardinality({i \in Unread(u) :
            /\ u \notin notes[i].unsent /\ <<i, u>> \notin failed
            /\ \A n \in 1 .. Len(queue[c]) : queue[c][n] # i})
=============================================================================

-------------------------------- MODULE Chat --------------------------------
(***************************************************************************)
(* A chat room of a student and a trainer: the ChatConsumer of each open    *)
(* socket (aryuapp/consumers.py) and the REST endpoints that write the same *)
(* rows (chats/views.py).  A consumer runs one handler at a time; what the  *)
(* channel layer holds for it waits in its inbox.                           *)
(***************************************************************************)
EXTENDS Naturals, Sequences, FiniteSets

CONSTANTS
    Socket,      \* WebSocket connections to the room
    Side,        \* Side[c]: the participant behind socket c
    Request,     \* PUT and PATCH requests
    Body,        \* what a body carries: flags on as true and off as false.  The form of
                 \* a PUT carries all, one left out as false; a PATCH or JSON any
    Page,        \* messages of a history page (30 in the code)
    MaxMessages, \* bound: messages in the room
    Edited,      \* bound: the messages that requests edit
    MaxUnsent    \* bound: uploads, and consumers that die in the middle of a handler

Flag == {"is_read", "is_deleted"}

ASSUME ChatAssumption ==
    /\ Side \in [Socket -> {"student", "trainer"}]
    /\ Body \subseteq [on : SUBSET Flag, off : SUBSET Flag]
    /\ \A body \in Body : body.on \cap body.off = {}
    /\ Page \in Nat \ {0} /\ {MaxMessages, MaxUnsent} \subseteq Nat

VARIABLES
    messages,   \* the rows of the room by id; histories of each: gone, it was
                \* deleted before; asked, its flags as they were last asked for;
                \* undone, flags that a save wrote back from an older query
    socket,     \* socket[c]: handler in progress and what its client shows
    inbox,      \* inbox[c]: messages pushed to socket c
    request,    \* request[r]: a PUT or PATCH between its query and its save;
                \* behind: history, flags that were written since its query
    unsent      \* stored messages that are never pushed
chatVars == <<messages, socket, inbox, request, unsent>>

Person == {"student", "trainer"}
Id == 1 .. Len(messages)
NewMessage(person, flags) == [sender |-> person, flags |-> flags,
    gone |-> "is_deleted" \in flags, asked |-> flags, undone |-> {}]
Closed == [pc |-> "closed", id |-> 0, shown |-> {}, oldest |-> 0]
NoRequest == [id |-> 0, flags |-> {}, on |-> {}, off |-> {}, behind |-> {}]

Message == [sender : Person, flags : SUBSET Flag, gone : BOOLEAN, asked : SUBSET Flag,
            undone : SUBSET Flag]
SocketState == [pc : {"closed", "joined", "open", "created"}, id : Nat, shown : SUBSET Id,
                oldest : Nat]
RequestState == [id : Nat, flags : SUBSET Flag, on : SUBSET Flag, off : SUBSET Flag,
                 behind : SUBSET Flag]

RoomTypeOK ==
    /\ messages \in Seq(Message)
    /\ socket \in [Socket -> SocketState]
    /\ inbox \in [Socket -> Seq(Id)]
    /\ request \in [Request -> RequestState]
    /\ unsent \subseteq Id /\ Cardinality(unsent) <= MaxUnsent

RoomInit ==
    /\ messages = <<>>
    /\ socket = [c \in Socket |-> Closed] /\ inbox = [c \in Socket |-> <<>>]
    /\ request = [r \in Request |-> NoRequest]
    /\ unsent = {}

-----------------------------------------------------------------------------
(* Flags                                                                    *)

Deleted(i) == "is_deleted" \in messages[i].flags

\* the row with flags on and without flags off; the others are as they were read,
\* which is behind what was asked for those that were written since
Written(row, read, on, off, behind) ==
    [sender |-> row.sender, flags |-> (read \cup on) \ off,
     gone |-> row.gone \/ "is_deleted" \in on,
     asked |-> (row.asked \cup on) \ off,
     undone |-> (row.undone \cup behind) \ (on \cup off)]

\* requests that have read one of ids do not know of flags that are written now
Overtaken(ids, flags) == [r \in Request |->
    IF request[r].id \in ids THEN [request[r] EXCEPT !.behind = @ \cup flags] ELSE request[r]]

\* one UPDATE sets is_read of these rows
Mark(unread) ==
    /\ unread # {}
    /\ messages' = [i \in Id |->
         IF i \in unread THEN Written(messages[i], messages[i].flags, {"is_read"}, {}, {})
         ELSE messages[i]]
    /\ request' = Overtaken(unread, {"is_read"})

-----------------------------------------------------------------------------
(* Sockets                                                                  *)

\* the room's group in the channel layer
Members == {c \in Socket : socket[c].pc # "closed"}

\* the newest messages among ids that are not deleted
Newest(ids) == {i \in ids : /\ ~Deleted(i)
                            /\ Cardinality({j \in ids : j > i /\ ~Deleted(j)}) < Page}

Connect(c) ==
    /\ socket[c].pc = "closed"
    /\ socket' = [socket EXCEPT ![c].pc = "joined"]
    /\ UNCHANGED <<messages, inbox, request, unsent>>

Least(ids) == CHOOSE i \in ids : \A j \in ids : i <= j
Show(c, page) == socket' = [socket EXCEPT
    ![c].pc = "open", ![c].shown = @ \cup page,
    ![c].oldest = IF page = {} THEN @ ELSE Least(page)]

\* connect goes on: the last page of the history
History(c) ==
    /\ socket[c].pc = "joined" /\ Show(c, Newest(Id))
    /\ UNCHANGED <<messages, inbox, request, unsent>>

\* load_more, before the oldest message of the history so far
LoadMore(c) ==
    /\ socket[c].pc = "open" /\ socket[c].oldest # 0
    /\ Show(c, Newest(1 .. socket[c].oldest - 1))
    /\ UNCHANGED <<messages, inbox, request, unsent>>

\* send_message: the row, then the push to the group
SendMessage(c) ==
    /\ socket[c].pc = "open" /\ Len(messages) < MaxMessages
    /\ messages' = Append(messages, NewMessage(Side[c], {}))
    /\ socket' = [socket EXCEPT ![c].pc = "created", ![c].id = Len(messages')]
    /\ UNCHANGED <<inbox, request, unsent>>

\* mutant: the push leaves out its sender, who has the text already
PushToOthers(c) ==
    /\ socket[c].pc = "created"
    /\ inbox' = [d \in Socket |-> IF d \in Members \ {c} THEN Append(inbox[d], socket[c].id)
                                  ELSE inbox[d]]
    /\ socket' = [socket EXCEPT ![c].pc = "open", ![c].id = 0]
    /\ UNCHANGED <<messages, request, unsent>>

\* ... to the sender's own socket, too
Push(c) ==
    /\ socket[c].pc = "created"
    /\ inbox' = [d \in Socket |-> IF d \in Members THEN Append(inbox[d], socket[c].id)
                                  ELSE inbox[d]]
    /\ socket' = [socket EXCEPT ![c].pc = "open", ![c].id = 0]
    /\ UNCHANGED <<messages, request, unsent>>

\* chat_message
Receive(c) ==
    /\ socket[c].pc = "open" /\ inbox[c] # <<>>
    /\ socket' = [socket EXCEPT ![c].shown = @ \cup {Head(inbox[c])}]
    /\ inbox' = [inbox EXCEPT ![c] = Tail(@)]
    /\ UNCHANGED <<messages, request, unsent>>

\* mark_read of the socket: the messages of the other side
MarkRead(c) ==
    /\ socket[c].pc = "open"
    /\ Mark({i \in Id : messages[i].sender # Side[c] /\ "is_read" \notin messages[i].flags})
    /\ UNCHANGED <<socket, inbox, unsent>>

\* the client goes between two handlers, or the consumer dies within one
Disconnect(c) ==
    /\ socket[c].pc # "closed"
    /\ unsent' = unsent \cup (IF socket[c].pc = "created" THEN {socket[c].id} ELSE {})
    /\ Cardinality(unsent') <= MaxUnsent
    /\ socket' = [socket EXCEPT ![c] = Closed] /\ inbox' = [inbox EXCEPT ![c] = <<>>]
    /\ UNCHANGED <<messages, request>>

-----------------------------------------------------------------------------
(* REST                                                                     *)

\* MessageViewSet.create stores a message (an upload) without a push
Upload(person, body) ==
    /\ Len(messages) < MaxMessages /\ Cardinality(unsent) < MaxUnsent
    /\ messages' = Append(messages, NewMessage(person, body.on))
    /\ unsent' = unsent \cup {Len(messages')}
    /\ UNCHANGED <<socket, inbox, request>>

\* mark_as_read does not ask who sent the message
MarkRoomRead ==
    /\ Mark({i \in Id : "is_read" \notin messages[i].flags})
    /\ UNCHANGED <<socket, inbox, unsent>>

\* mutant: a flag that the body does not carry is taken for false
FetchClears(r, i, body) ==
    /\ request[r].id = 0 /\ i \in Edited
    /\ request' = [request EXCEPT ![r] =
         [id |-> i, flags |-> {}, on |-> body.on, off |-> body.off, behind |-> {}]]
    /\ UNCHANGED <<messages, socket, inbox, unsent>>

\* update and partial_update read the row
Fetch(r, i, body) ==
    /\ request[r].id = 0 /\ i \in Edited
    /\ request' = [request EXCEPT ![r] = [id |-> i, flags |-> messages[i].flags,
         on |-> body.on, off |-> body.off, behind |-> {}]]
    /\ UNCHANGED <<messages, socket, inbox, unsent>>

\* ... and save all columns
Save(r) == LET me == request[r] IN
    /\ me.id # 0
    /\ messages' = [messages EXCEPT ![me.id] = Written(@, me.flags, me.on, me.off, me.behind)]
    /\ request' = [Overtaken({me.id}, me.on \cup me.off) EXCEPT ![r] = NoRequest]
    /\ UNCHANGED <<socket, inbox, unsent>>

RoomNext ==
    \/ \E c \in Socket : \/ Connect(c) \/ History(c) \/ LoadMore(c) \/ SendMessage(c)
                         \/ Push(c) \/ Receive(c) \/ MarkRead(c) \/ Disconnect(c)
    \/ \E person \in Person, body \in Body : Upload(person, body)
    \/ MarkRoomRead
    \/ \E r \in Request : \/ \E i \in Id, body \in Body : Fetch(r, i, body)
                          \/ Save(r)

RoomSpec == RoomInit /\ [][RoomNext]_chatVars

-----------------------------------------------------------------------------
(* Properties                                                               *)

Coming(c, i) == \/ \E n \in 1 .. Len(inbox[c]) : inbox[c][n] = i
                \/ \E d \in Socket : socket[d].pc = "created" /\ socket[d].id = i

\* History and pushes leave no gap: from the oldest message of the history that
\* a client loaded, it shows every message, or the message is on its way; but
\* not one that was stored without a push, or deleted.
NoGap == \A c \in Socket : socket[c].pc \in {"open", "created"} =>
    \A i \in Id : \/ i < socket[c].oldest \/ i \in socket[c].shown \/ Coming(c, i)
                  \/ i \in unsent \/ messages[i].gone

\* That a message is read or deleted is what was last asked for, by a mark or by
\* a request that carries the flag, whatever requests without it are under way at
\* once: but for a flag that one of those wrote back from a query before that.
FlagsAsAsked == \A i \in Id, f \in Flag :
    f \in messages[i].undone \/ (f \in messages[i].flags <=> f \in messages[i].asked)
=============================================================================

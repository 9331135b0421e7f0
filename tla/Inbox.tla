------------------------------- MODULE Inbox --------------------------------
(***************************************************************************)
(* The WhatsApp conversations of one customer (src/Aryu/lead/whatsapp):    *)
(* Meta's webhook in several web processes, the agents' dashboard, two     *)
(* Kafka topics with the consumer command, and the campaigns that open     *)
(* conversations of their own.                                             *)
(*                                                                         *)
(* Every WhatsAppChat row here has the customer's phone number; rows are   *)
(* told apart by how their unique whatsapp_id is made.  The webhook runs   *)
(* in one transaction that it publishes from last, so it is one step.  An  *)
(* agent's transaction publishes before it commits, which is two.  Unread  *)
(* counters, queue names, texts, leads and the 24-hour rule, which only    *)
(* refuses, are abstracted.                                                *)
(***************************************************************************)
EXTENDS Integers, Sequences, FiniteSets

CONSTANTS
    In,         \* messages the customer sends, by their wamid
    Out,        \* messages agents send from the dashboard
    Process,    \* web processes, each with a cache of the wamids it has seen
    Consumer,   \* consumer processes of the group whatsapp_live_group
    None,
    MaxFaults   \* bound: exceptions, killed processes, lost acknowledgements

\* "wa_chat_<phone>": webhook and dashboard; "<phone>": consumer, spreadsheets;
\* "bc_<lead>": campaigns
Key == {"wa_chat", "phone", "bc"}

ASSUME InboxAssumption ==
    /\ In \cap Out = {} /\ None \notin In \cup Out \cup Key
    /\ MaxFaults \in Nat

VARIABLES
    chats,      \* the WhatsAppChat rows, in the order of their ids
    automated,  \* automated[k]: is_automated
    row,        \* row[m]: the chat of the stored message m, or None
    acked,      \* messages whose webhook was answered 200
    cache,      \* cache[p]: message_deduplicator
    open,       \* open[x]: the chat that x's transaction holds, or None
    out,        \* out[x]: status of the row of x, as committed
    buffer,     \* messages that the Kafka producers of the web processes hold
    events,     \* messages in the two Kafka topics
    lost,       \* history: messages that a producer dropped
    consumer,   \* consumer[c]: the message in hand and how far it is
    shown,      \* customer's messages that were pushed to the dashboards
    got,        \* got[x]: how often the customer received x, two for several
    died,       \* a consumer met an exception that nothing catches
    faults

vars == <<chats, automated, row, acked, cache, open, out, buffer, events, lost,
          consumer, shown, got, died, faults>>

Hand == [msg : In \cup Out \cup {None}, at : {"idle", "polled", "sent", "failed"}]
Free == [msg |-> None, at |-> "idle"]

TypeOK ==
    /\ chats \in Seq(Key) /\ Len(chats) <= 3
    /\ automated \in [Key -> BOOLEAN]
    /\ row \in [In -> Key \cup {None}]
    /\ acked \subseteq In /\ shown \subseteq In
    /\ cache \in [Process -> SUBSET In]
    /\ open \in [Out -> Key \cup {None}]
    /\ out \in [Out -> {"none", "pending", "sent", "failed"}]
    /\ buffer \subseteq In \cup Out /\ events \subseteq In \cup Out
    /\ lost \subseteq In \cup Out
    /\ consumer \in [Consumer -> Hand]
    /\ got \in [Out -> 0 .. 2]
    /\ died \in BOOLEAN /\ faults \in 0 .. MaxFaults

Init ==
    /\ chats = <<>> /\ automated = [k \in Key |-> TRUE]
    /\ row = [m \in In |-> None] /\ acked = {} /\ shown = {}
    /\ cache = [p \in Process |-> {}]
    /\ open = [x \in Out |-> None] /\ out = [x \in Out |-> "none"]
    /\ buffer = {} /\ events = {} /\ lost = {}
    /\ consumer = [c \in Consumer |-> Free]
    /\ got = [x \in Out |-> 0]
    /\ died = FALSE /\ faults = 0

Exists(k) == \E i \in 1 .. Len(chats) : chats[i] = k
GetOrCreate(k) == chats' = IF Exists(k) THEN chats ELSE Append(chats, k)
\* the row lock of select_for_update; an uncommitted chat blocks its unique id
Locked(k) == \E x \in Out : open[x] = k
\* the chat of the number, which webhook and dashboard create if there is none
First == IF chats = <<>> THEN "wa_chat" ELSE chats[1]
Fault == /\ faults < MaxFaults
         /\ faults' = faults + 1

-----------------------------------------------------------------------------
(* The webhook                                                              *)

Seen(p, m) == /\ cache' = [cache EXCEPT ![p] = @ \cup {m}]
              /\ acked' = acked \cup {m}

\* mutant: an automated message is left to the consumer to store
DeliverUnstored(p, m) ==
    /\ m \notin cache[p] /\ Len(chats) <= 1 /\ ~Locked(First)
    /\ Seen(p, m)
    /\ GetOrCreate(First)
    /\ IF automated[First]
       THEN buffer' = buffer \cup {m} /\ UNCHANGED <<row, shown>>
       ELSE /\ row' = [row EXCEPT ![m] = IF @ = None THEN First ELSE @]
            /\ shown' = shown \cup {m} /\ UNCHANGED buffer
    /\ UNCHANGED <<automated, open, out, events, lost, consumer, got, died, faults>>

\* a message that this process has not seen, for a number with at most one
\* chat: stored under its wamid unless it is, then left to the consumer of the
\* automation topic or shown at once
Deliver(p, m) ==
    /\ m \notin cache[p] /\ Len(chats) <= 1 /\ ~Locked(First)
    /\ Seen(p, m)
    /\ GetOrCreate(First)
    /\ row' = [row EXCEPT ![m] = IF @ = None THEN First ELSE @]
    /\ IF automated[First]
       THEN buffer' = buffer \cup {m} /\ UNCHANGED shown
       ELSE shown' = shown \cup {m} /\ UNCHANGED buffer
    /\ UNCHANGED <<automated, open, out, events, lost, consumer, got, died, faults>>

\* ... or any exception: rolled back, logged, and answered 200.  The event may
\* have been handed to the producer
DeliverRaises(p, m) ==
    /\ m \notin cache[p] /\ Fault
    /\ Seen(p, m)
    /\ buffer' \in {buffer, buffer \cup {m}}
    /\ UNCHANGED <<chats, automated, row, open, out, events, lost, consumer, shown,
                   got, died>>

\* ... or MultipleObjectsReturned, since the number has two chats
DeliverAmbiguous(p, m) ==
    /\ m \notin cache[p] /\ Len(chats) >= 2
    /\ \A i \in 1 .. Len(chats) : ~Locked(chats[i])
    /\ Seen(p, m)
    /\ UNCHANGED <<chats, automated, row, open, out, buffer, events, lost, consumer, shown,
                   got, died, faults>>

\* an agent answers on the phone: automation stops
Echo ==
    /\ Len(chats) <= 1 /\ ~Locked(First)
    /\ GetOrCreate(First)
    /\ automated' = [automated EXCEPT ![First] = FALSE]
    /\ UNCHANGED <<row, acked, cache, open, out, buffer, events, lost, consumer, shown, got,
                   died, faults>>

\* a web process starts afresh, with an empty cache; see Drop for its producer
Restart(p) ==
    /\ cache[p] # {}
    /\ cache' = [cache EXCEPT ![p] = {}]
    /\ UNCHANGED <<chats, automated, row, acked, open, out, buffer, events, lost, consumer,
                   shown, got, died, faults>>

-----------------------------------------------------------------------------
(* The dashboard and the campaigns                                          *)

\* queue_outbound_message: the chat is locked or created, the message is
\* inserted and handed to the producer
Queue(x) ==
    /\ open[x] = None /\ out[x] = "none" /\ x \notin buffer \cup events \cup lost
    /\ got[x] = 0 /\ \A c \in Consumer : consumer[c].msg # x
    /\ ~Locked(First)
    /\ open' = [open EXCEPT ![x] = First]
    /\ buffer' = buffer \cup {x}
    /\ UNCHANGED <<chats, automated, row, acked, cache, out, events, lost, consumer,
                   shown, got, died, faults>>

\* its commit; the agent's message ends automation
Commit(x) ==
    /\ open[x] # None
    /\ GetOrCreate(open[x])
    /\ automated' = [automated EXCEPT ![open[x]] = FALSE]
    /\ out' = [out EXCEPT ![x] = "pending"]
    /\ open' = [open EXCEPT ![x] = None]
    /\ UNCHANGED <<row, acked, cache, buffer, events, lost, consumer, shown, got, died, faults>>

\* the process dies, or the commit fails, after the event was published
Rollback(x) ==
    /\ open[x] # None /\ Fault
    /\ open' = [open EXCEPT ![x] = None]
    /\ UNCHANGED <<chats, automated, row, acked, cache, out, buffer, events, lost, consumer,
                   shown, got, died>>

Toggle(k) ==
    /\ Exists(k) /\ ~Locked(k)
    /\ automated' = [automated EXCEPT ![k] = ~@]
    /\ UNCHANGED <<chats, row, acked, cache, open, out, buffer, events, lost, consumer, shown,
                   got, died, faults>>

\* a campaign takes the lead's chat or makes one, a spreadsheet the number's
CampaignChat ==
    /\ chats = <<>> /\ chats' = <<"bc">>
    /\ UNCHANGED <<automated, row, acked, cache, open, out, buffer, events, lost, consumer,
                   shown, got, died, faults>>
SpreadsheetChat ==
    /\ ~Exists("phone") /\ GetOrCreate("phone")
    /\ UNCHANGED <<automated, row, acked, cache, open, out, buffer, events, lost, consumer,
                   shown, got, died, faults>>

-----------------------------------------------------------------------------
(* The producers: publish_event only puts the event into the memory of its  *)
(* process and returns, and nothing flushes it                              *)

\* within 20 ms the broker has it; if its acknowledgement is lost, again
Send(m) ==
    /\ m \in buffer
    /\ events' = events \cup {m}
    /\ \/ buffer' = buffer \ {m} /\ UNCHANGED faults
       \/ UNCHANGED buffer /\ Fault
    /\ UNCHANGED <<chats, automated, row, acked, cache, open, out, lost, consumer,
                   shown, got, died>>

\* ... or its process ends, or the delivery fails for good, which is logged
Drop(m) ==
    /\ m \in buffer
    /\ buffer' = buffer \ {m} /\ lost' = lost \cup {m}
    /\ UNCHANGED <<chats, automated, row, acked, cache, open, out, events, consumer,
                   shown, got, died, faults>>

-----------------------------------------------------------------------------
(* The consumer                                                             *)

Take(c, hand) == consumer' = [consumer EXCEPT ![c] = hand]

Poll(c, m) ==
    /\ consumer[c] = Free /\ m \in events
    /\ events' = events \ {m}
    /\ Take(c, [msg |-> m, at |-> "polled"])
    /\ UNCHANGED <<chats, automated, row, acked, cache, open, out, buffer, lost,
                   shown, got, died, faults>>

\* mutant: a message that is stored already is not pushed
InboundOnce(c) == LET m == consumer[c].msg IN
    /\ m \in In
    /\ GetOrCreate("phone")
    /\ row' = [row EXCEPT ![m] = IF @ = None THEN "phone" ELSE @]
    /\ shown' = IF row[m] = None THEN shown \cup {m} ELSE shown
    /\ Take(c, Free)
    /\ UNCHANGED <<automated, acked, cache, open, out, buffer, events, lost, got, died, faults>>

\* process_and_broadcast: its own chat row, the message unless it is stored.
\* An exception is logged and the message passed over, as if it were killed
Inbound(c) == LET m == consumer[c].msg IN
    /\ m \in In
    /\ GetOrCreate("phone")
    /\ row' = [row EXCEPT ![m] = IF @ = None THEN "phone" ELSE @]
    /\ shown' = shown \cup {m}
    /\ Take(c, Free)
    /\ UNCHANGED <<automated, acked, cache, open, out, buffer, events, lost, got, died, faults>>

\* mutant: a refusal is not told from an acceptance
OutboundUnread(c) == LET x == consumer[c].msg IN
    /\ x \in Out /\ consumer[c].at = "polled"
    /\ got' \in {got, [got EXCEPT ![x] = IF @ = 2 THEN 2 ELSE @ + 1]}
    /\ Take(c, [msg |-> x, at |-> "sent"])
    /\ UNCHANGED <<chats, automated, row, acked, cache, open, out, buffer, events, lost, shown,
                   died, faults>>

\* process_and_deliver_outbound: Meta accepts, refuses, or accepts and the
\* answer is lost
Outbound(c) == LET x == consumer[c].msg IN
    /\ x \in Out /\ consumer[c].at = "polled"
    /\ \/ /\ got' = [got EXCEPT ![x] = IF @ = 2 THEN 2 ELSE @ + 1]
          /\ \E at \in {"sent", "failed"} : Take(c, [msg |-> x, at |-> at])
       \/ /\ Take(c, [msg |-> x, at |-> "failed"]) /\ UNCHANGED got
    /\ UNCHANGED <<chats, automated, row, acked, cache, open, out, buffer, events, lost, shown,
                   died, faults>>

Updating(c) == consumer[c].at \in {"sent", "failed"}

\* update_outbound_state
Update(c) == LET x == consumer[c].msg IN
    /\ Updating(c) /\ out[x] # "none"
    /\ out' = [out EXCEPT ![x] = consumer[c].at]
    /\ Take(c, Free)
    /\ UNCHANGED <<chats, automated, row, acked, cache, open, buffer, events, lost, shown, got,
                   died, faults>>

\* mutant: a row that is not there is passed over
UpdatePassedOver(c) ==
    /\ Updating(c) /\ out[consumer[c].msg] = "none"
    /\ Take(c, Free)
    /\ UNCHANGED <<chats, automated, row, acked, cache, open, out, buffer, events, lost, shown,
                   got, died, faults>>

\* the row is not there, or another exception: "sent" is tried again as
\* "failed", and when that raises too the process ends
UpdateRaises(c) ==
    /\ Updating(c)
    /\ IF out[consumer[c].msg] = "none" THEN UNCHANGED faults ELSE Fault
    /\ IF consumer[c].at = "sent"
       THEN Take(c, [consumer[c] EXCEPT !.at = "failed"]) /\ UNCHANGED died
       ELSE Take(c, Free) /\ died' = TRUE
    /\ UNCHANGED <<chats, automated, row, acked, cache, open, out, buffer, events, lost, shown, got>>

\* a consumer is killed: its offset was committed already, or it was not
Kill(c) ==
    /\ consumer[c] # Free /\ Fault
    /\ events' \in {events, events \cup {consumer[c].msg}}
    /\ Take(c, Free)
    /\ UNCHANGED <<chats, automated, row, acked, cache, open, out, buffer, lost,
                   shown, got, died>>

-----------------------------------------------------------------------------

Next ==
    \/ \E p \in Process : \/ \E m \in In : \/ Deliver(p, m) \/ DeliverRaises(p, m)
                                           \/ DeliverAmbiguous(p, m)
                          \/ Restart(p)
    \/ Echo
    \/ \E x \in Out : Queue(x) \/ Commit(x) \/ Rollback(x)
    \/ \E k \in Key : Toggle(k)
    \/ CampaignChat \/ SpreadsheetChat
    \/ \E m \in In \cup Out : Send(m) \/ Drop(m)
    \/ \E c \in Consumer : \/ \E m \in In \cup Out : Poll(c, m)
                           \/ Inbound(c) \/ Outbound(c) \/ Update(c)
                           \/ UpdateRaises(c) \/ Kill(c)

Spec == Init /\ [][Next]_vars

-----------------------------------------------------------------------------
(* Properties                                                               *)

Underway(m) == m \in buffer \cup events \/ \E c \in Consumer : consumer[c].msg = m

\* An answered message is stored, whatever process it reached and whoever
\* created the chat first, unless an exception was raised or the number has
\* two chats: then the webhook drops it and Meta is told that all is well.
InboundKept ==
    \A m \in acked : row[m] # None \/ faults > 0 \/ Len(chats) >= 2

\* A stored message has been pushed to the dashboards or is on its way to a
\* consumer that will: of the messages that are handed over, only those that
\* the producer dropped are missing, whoever stored the message first and
\* whatever became of automation in between.
StoredIsShown == \A m \in In :
    row[m] # None => m \in shown \/ Underway(m) \/ m \in lost \/ faults > 0

\* The status of an agent's message tells the truth as far as it goes: "sent"
\* was received, and nothing is received that has no row, but for a commit
\* that is still to come or did not come.
SentIsReceived == \A x \in Out :
    /\ out[x] = "sent" => got[x] > 0
    /\ got[x] > 0 /\ out[x] = "none" => open[x] # None \/ faults > 0

\* A pending message is on its way, unless the producer dropped it, or a consumer
\* died over one whose row it could not find yet, or was killed.
PendingIsUnderway == \A x \in Out :
    out[x] = "pending" => Underway(x) \/ x \in lost \/ died \/ faults > 0
=============================================================================

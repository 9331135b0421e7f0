---------------------------- MODULE Inbox_proofs ----------------------------
(* Theorems about Inbox, for every set of messages, processes and consumers *)
(* and any number of faults.                                                *)
EXTENDS Inbox, SequenceTheorems, TLAPS

-----------------------------------------------------------------------------
(* The inductive invariant                                                  *)

\* No two chats were made under the same unique id.
Distinct == \A i, j \in 1 .. Len(chats) : chats[i] = chats[j] => i = j

\* A consumer has nothing in hand, a customer's message it just polled, or an
\* agent's message; one it is about to record as sent was received.
HandOk(c) ==
    \/ consumer[c] = Free
    \/ consumer[c].msg \in In /\ consumer[c].at = "polled"
    \/ /\ consumer[c].msg \in Out /\ consumer[c].at \in {"polled", "sent", "failed"}
       /\ consumer[c].at = "sent" => got[consumer[c].msg] > 0

Types == TypeOK /\ Distinct /\ \A c \in Consumer : HandOk(c)

SentTruly(x) == out[x] = "sent" => got[x] > 0

\* A message without a row that is on its way, or was received, belongs to a
\* transaction that is still open.
HandedOver(x) ==
    (Underway(x) \/ got[x] > 0) /\ out[x] = "none" => open[x] # None \/ faults > 0

\* Until its transaction commits, a published message has no row, and it is on
\* its way unless the producer dropped it or a consumer died over it.
OpenIsUnderway(x) ==
    open[x] # None => out[x] = "none" /\ (Underway(x) \/ x \in lost \/ died \/ faults > 0)

PendingTruly(x) == out[x] = "pending" => Underway(x) \/ x \in lost \/ died \/ faults > 0

KeptTruly(m) == m \in acked => row[m] # None \/ faults > 0 \/ Len(chats) >= 2
ShownTruly(m) == row[m] # None => m \in shown \/ Underway(m) \/ m \in lost \/ faults > 0

IInv ==
    /\ Types
    /\ \A m \in In : KeptTruly(m) /\ ShownTruly(m)
    /\ \A x \in Out : SentTruly(x) /\ HandedOver(x) /\ OpenIsUnderway(x) /\ PendingTruly(x)

-----------------------------------------------------------------------------
(* Chats                                                                    *)

LEMMA FirstIsKey == TypeOK => First \in Key
  BY ElementOfSeq, LenProperties, EmptySeq DEF TypeOK, First, Key

\* get_or_create leaves every chat there is and makes at most one for an id.
LEMMA Created ==
  ASSUME TypeOK, Distinct, NEW k \in Key, GetOrCreate(k)
  PROVE  /\ chats' \in Seq(Key) /\ Len(chats') <= 3 /\ Distinct'
         /\ Len(chats) <= Len(chats')
  <1>1. chats \in Seq(Key) /\ Len(chats) \in Nat
        /\ \A i \in 1 .. Len(chats) : chats[i] \in Key
    BY ElementOfSeq, LenProperties DEF TypeOK
  <1>2. CASE Exists(k)
    BY <1>1, <1>2 DEF GetOrCreate, TypeOK, Distinct
  <1>3. CASE ~Exists(k)
    <2>1. chats' = Append(chats, k)
      BY <1>3 DEF GetOrCreate
    <2>2. /\ chats' \in Seq(Key) /\ Len(chats') = Len(chats) + 1
          /\ chats'[Len(chats) + 1] = k
          /\ \A i \in 1 .. Len(chats) : chats'[i] = chats[i]
      BY <1>1, <2>1, AppendProperties
    <2>3. Distinct'
      BY <1>1, <1>3, <2>2 DEF Distinct, Exists
    <2>4. Len(chats) # 3
      <3>1. SUFFICES ASSUME Len(chats) = 3 PROVE FALSE
        OBVIOUS
      <3>2. /\ chats[1] \in Key /\ chats[2] \in Key /\ chats[3] \in Key
            /\ chats[1] # chats[2] /\ chats[1] # chats[3] /\ chats[2] # chats[3]
            /\ chats[1] # k /\ chats[2] # k /\ chats[3] # k
        BY <1>1, <1>3, <3>1 DEF Distinct, Exists
      <3>3. QED
        BY <3>2 DEF Key
    <2>5. Len(chats) <= 3
      BY DEF TypeOK
    <2>6. Len(chats') <= 3 /\ Len(chats) <= Len(chats')
      <3>1. \A n, m \in Nat : n # 3 /\ n <= 3 /\ m = n + 1 => m <= 3 /\ n <= m
        OBVIOUS
      <3>2. Len(chats) \in Nat /\ Len(chats') \in Nat /\ Len(chats') = Len(chats) + 1
        BY <1>1, <2>2, LenProperties
      <3>3. QED
        BY <2>4, <2>5, <3>1, <3>2
    <2>7. QED
      BY <2>2, <2>3, <2>6
  <1>4. QED
    BY <1>2, <1>3

-----------------------------------------------------------------------------
(* Types                                                                    *)

LEMMA HandType ==
  ASSUME TypeOK, NEW c \in Consumer
  PROVE  consumer[c].msg \in In \cup Out \cup {None}
         /\ consumer[c].at \in {"idle", "polled", "sent", "failed"}
  BY DEF TypeOK, Hand

\* What a step of a consumer leaves in its hand.
LEMMA Taken ==
  ASSUME TypeOK, NEW c \in Consumer, NEW hand \in Hand, Take(c, hand)
  PROVE  /\ consumer' \in [Consumer -> Hand] /\ consumer'[c] = hand
         /\ \A d \in Consumer : d # c => consumer'[d] = consumer[d]
  BY DEF TypeOK, Take

LEMMA FreeIsHand == Free \in Hand
  BY DEF Free, Hand

LEMMA Initially == Init => IInv
  <1> SUFFICES ASSUME Init PROVE IInv
    OBVIOUS
  <1>1. <<>> \in Seq(Key) /\ Len(<<>>) = 0
    BY EmptySeq
  <1>2. TypeOK
    <2>1. chats \in Seq(Key) /\ Len(chats) <= 3 /\ consumer \in [Consumer -> Hand]
      BY <1>1, FreeIsHand DEF Init
    <2>2. /\ row \in [In -> Key \cup {None}] /\ acked \subseteq In /\ shown \subseteq In
          /\ cache \in [Process -> SUBSET In] /\ open \in [Out -> Key \cup {None}]
          /\ out \in [Out -> {"none", "pending", "sent", "failed"}]
          /\ events \subseteq In \cup Out /\ got \in [Out -> 0 .. 2]
          /\ buffer \subseteq In \cup Out /\ lost \subseteq In \cup Out
      BY DEF Init
    <2>3. automated \in [Key -> BOOLEAN] /\ died \in BOOLEAN
      BY Zenon DEF Init
    <2>4. faults \in 0 .. MaxFaults
      BY InboxAssumption DEF Init
    <2>5. QED
      BY <2>1, <2>2, <2>3, <2>4 DEF TypeOK
  <1>3. Distinct /\ \A c \in Consumer : HandOk(c)
    BY <1>1 DEF Init, Distinct, HandOk
  <1>4. \A m \in In : KeptTruly(m) /\ ShownTruly(m)
    BY DEF Init, KeptTruly, ShownTruly
  <1>5. \A m \in In \cup Out : ~Underway(m)
    BY InboxAssumption DEF Init, Underway, Free
  <1>6. \A x \in Out : SentTruly(x) /\ HandedOver(x) /\ OpenIsUnderway(x) /\ PendingTruly(x)
    BY <1>5 DEF Init, SentTruly, HandedOver, OpenIsUnderway, PendingTruly
  <1>7. QED
    BY <1>2, <1>3, <1>4, <1>6 DEF IInv, Types

\* The parts of TypeOK that are about a message's way.
Rest == /\ row \in [In -> Key \cup {None}] /\ acked \subseteq In /\ shown \subseteq In
        /\ cache \in [Process -> SUBSET In] /\ open \in [Out -> Key \cup {None}]
        /\ out \in [Out -> {"none", "pending", "sent", "failed"}]
        /\ events \subseteq In \cup Out /\ got \in [Out -> 0 .. 2]
        /\ buffer \subseteq In \cup Out /\ lost \subseteq In \cup Out
Chats == chats \in Seq(Key) /\ Len(chats) <= 3 /\ Distinct
Flags == automated \in [Key -> BOOLEAN] /\ died \in BOOLEAN
Hands == consumer \in [Consumer -> Hand] /\ \A c \in Consumer : HandOk(c)
Count == faults \in 0 .. MaxFaults

LEMMA TypesSplit == /\ Types <=> Rest /\ Chats /\ Flags /\ Hands /\ Count
                    /\ Types' <=> Rest' /\ Chats' /\ Flags' /\ Hands' /\ Count'
  BY DEF Types, TypeOK, Rest, Chats, Flags, Hands, Count

LEMMA ChatsSame == Chats /\ UNCHANGED chats => Chats'
  BY DEF Chats, Distinct
LEMMA FlagsSame == Flags /\ UNCHANGED <<automated, died>> => Flags'
  BY DEF Flags
LEMMA HandsSame == Hands /\ UNCHANGED <<consumer, got>> => Hands'
  BY DEF Hands, HandOk
LEMMA CountUp == Count /\ (Fault \/ UNCHANGED faults) => Count'
  BY InboxAssumption DEF Count, Fault

\* One consumer's hand changes, and nobody receives less than before.
LEMMA HandsTaken ==
  ASSUME Types, NEW c \in Consumer, NEW hand \in Hand, Take(c, hand),
         \A x \in Out : got[x] > 0 => got'[x] > 0,
         HandOk(c)'
  PROVE  Hands'
  <1>1. /\ consumer' \in [Consumer -> Hand] /\ consumer'[c] = hand
        /\ \A d \in Consumer : d # c => consumer'[d] = consumer[d]
    BY Taken DEF Types
  <1>2. ASSUME NEW d \in Consumer, d # c PROVE HandOk(d)'
    BY <1>1, <1>2 DEF Types, HandOk
  <1>3. QED
    BY <1>1, <1>2 DEF Hands

\* Letting go of what is in hand.
LEMMA HandsFreed ==
  ASSUME Types, NEW c \in Consumer, Take(c, Free), UNCHANGED got
  PROVE  Hands'
  <1>1. HandOk(c)'
    BY Taken, FreeIsHand DEF Types, HandOk
  <1>2. QED
    BY <1>1, HandsTaken, FreeIsHand

LEMMA TypesOfWebhook ==
  ASSUME Types, NEW p \in Process, NEW m \in In,
         Deliver(p, m) \/ DeliverRaises(p, m) \/ DeliverAmbiguous(p, m)
  PROVE  Types'
  <1>1. Rest /\ Chats /\ Flags /\ Hands /\ Count /\ TypeOK /\ Distinct
    BY TypesSplit DEF Types
  <1>2. First \in Key
    BY <1>1, FirstIsKey
  <1>3. Chats'
    <2>1. CASE Deliver(p, m)
      BY <1>1, <1>2, <2>1, Created DEF Deliver, Chats
    <2>2. CASE ~Deliver(p, m)
      BY <1>1, <2>2, ChatsSame DEF DeliverRaises, DeliverAmbiguous
    <2>3. QED
      BY <2>1, <2>2
  <1>4. Rest'
    BY <1>1, <1>2 DEF Rest, Deliver, DeliverRaises, DeliverAmbiguous, Seen
  <1>5. /\ UNCHANGED <<automated, died>> /\ UNCHANGED <<consumer, got>>
        /\ Fault \/ UNCHANGED faults
    BY DEF Deliver, DeliverRaises, DeliverAmbiguous
  <1>6. QED
    BY <1>1, <1>3, <1>4, <1>5, FlagsSame, HandsSame, CountUp, TypesSplit

LEMMA TypesOfChats ==
  ASSUME Types,
         \/ Echo \/ CampaignChat \/ SpreadsheetChat
         \/ \E k \in Key : Toggle(k)
         \/ \E p \in Process : Restart(p)
  PROVE  Types'
  <1>1. Rest /\ Chats /\ Flags /\ Hands /\ Count /\ TypeOK /\ Distinct
    BY TypesSplit DEF Types
  <1>2. First \in Key
    BY <1>1, FirstIsKey
  <1>3. Chats'
    <2>1. CASE Echo
      BY <1>1, <1>2, <2>1, Created DEF Echo, Chats
    <2>2. CASE CampaignChat
      <3>1. chats = <<>> /\ chats' = <<"bc">> /\ "bc" \in Key
        BY <2>2 DEF CampaignChat, Key
      <3>2. Len(chats') = 1 /\ chats' \in Seq(Key)
        BY <3>1
      <3>3. QED
        BY <3>2 DEF Chats, Distinct
    <2>3. CASE SpreadsheetChat
      BY <1>1, <2>3, Created DEF SpreadsheetChat, Chats, Key
    <2>4. CASE (\E k \in Key : Toggle(k)) \/ \E p \in Process : Restart(p)
      BY <1>1, <2>4, ChatsSame DEF Toggle, Restart
    <2>5. QED
      BY <2>1, <2>2, <2>3, <2>4
  <1>4. Rest'
    BY <1>1 DEF Rest, Echo, CampaignChat, SpreadsheetChat, Toggle, Restart
  <1>5. Flags'
    <2>1. CASE Echo
      BY <1>1, <1>2, <2>1 DEF Flags, Echo
    <2>2. CASE \E k \in Key : Toggle(k)
      <3>1. PICK k \in Key : Toggle(k)
        BY <2>2
      <3>2. automated' = [automated EXCEPT ![k] = ~automated[k]] /\ died' = died
        BY <3>1 DEF Toggle
      <3>3. QED
        BY <1>1, <3>2, Zenon DEF Flags
    <2>3. CASE CampaignChat \/ SpreadsheetChat \/ \E p \in Process : Restart(p)
      BY <1>1, <2>3, FlagsSame DEF CampaignChat, SpreadsheetChat, Restart
    <2>4. QED
      BY <2>1, <2>2, <2>3
  <1>6. UNCHANGED <<consumer, got>> /\ UNCHANGED faults
    BY DEF Echo, CampaignChat, SpreadsheetChat, Toggle, Restart
  <1>7. QED
    BY <1>1, <1>3, <1>4, <1>5, <1>6, HandsSame, CountUp, TypesSplit

LEMMA TypesOfDashboard ==
  ASSUME Types, NEW x \in Out, Queue(x) \/ Commit(x) \/ Rollback(x)
  PROVE  Types'
  <1>1. Rest /\ Chats /\ Flags /\ Hands /\ Count /\ TypeOK /\ Distinct
    BY TypesSplit DEF Types
  <1>2. First \in Key
    BY <1>1, FirstIsKey
  <1>3. open[x] # None => open[x] \in Key
    BY <1>1 DEF Rest
  <1>4. Chats'
    <2>1. CASE Commit(x)
      BY <1>1, <1>3, <2>1, Created DEF Commit, Chats
    <2>2. CASE ~Commit(x)
      BY <1>1, <2>2, ChatsSame DEF Queue, Rollback
    <2>3. QED
      BY <2>1, <2>2
  <1>5. Rest'
    BY <1>1, <1>2 DEF Rest, Queue, Commit, Rollback
  <1>6. Flags'
    BY <1>1, <1>3 DEF Flags, Queue, Commit, Rollback
  <1>7. UNCHANGED <<consumer, got>> /\ (Fault \/ UNCHANGED faults)
    BY DEF Queue, Commit, Rollback
  <1>8. QED
    BY <1>1, <1>4, <1>5, <1>6, <1>7, HandsSame, CountUp, TypesSplit

LEMMA TypesOfPoll ==
  ASSUME Types, NEW c \in Consumer, NEW m \in In \cup Out, Poll(c, m)
  PROVE  Types'
  <1> DEFINE hand == [msg |-> m, at |-> "polled"]
  <1>1. Rest /\ Chats /\ Flags /\ Hands /\ Count
    BY TypesSplit
  <1>2. hand \in Hand /\ Take(c, hand) /\ UNCHANGED got
    BY DEF Hand, Poll
  <1>3. consumer'[c] = hand
    BY <1>2, Taken DEF Types
  <1>4. HandOk(c)'
    BY <1>3 DEF HandOk
  <1>5. Hands'
    <2> HIDE DEF hand
    <2> QED BY <1>2, <1>4, HandsTaken
  <1>6. Rest'
    BY <1>1 DEF Rest, Poll
  <1>7. UNCHANGED chats /\ UNCHANGED <<automated, died>> /\ UNCHANGED faults
    BY DEF Poll
  <1>8. QED
    BY <1>1, <1>5, <1>6, <1>7, ChatsSame, FlagsSame, CountUp, TypesSplit

LEMMA TypesOfInbound ==
  ASSUME Types, NEW c \in Consumer, Inbound(c)
  PROVE  Types'
  <1>1. Rest /\ Chats /\ Flags /\ Hands /\ Count /\ TypeOK /\ Distinct
    BY TypesSplit DEF Types
  <1>2. Chats'
    BY <1>1, Created DEF Inbound, Chats, Key
  <1>3. Hands'
    BY HandsFreed DEF Inbound
  <1>4. Rest'
    BY <1>1 DEF Rest, Inbound, Key
  <1>5. UNCHANGED <<automated, died>> /\ UNCHANGED faults
    BY DEF Inbound
  <1>6. QED
    BY <1>1, <1>2, <1>3, <1>4, <1>5, FlagsSame, CountUp, TypesSplit

LEMMA TypesOfOutbound ==
  ASSUME Types, NEW c \in Consumer, Outbound(c)
  PROVE  Types'
  <1> DEFINE x == consumer[c].msg
             hand(at) == [msg |-> x, at |-> at]
  <1>1. Rest /\ Chats /\ Flags /\ Hands /\ Count
    BY TypesSplit
  <1>2. x \in Out
    BY DEF Outbound
  <1>3. /\ got' \in [Out -> 0 .. 2]
        /\ \A y \in Out : got[y] > 0 => got'[y] > 0
    BY <1>1, <1>2 DEF Rest, Outbound
  <1>4. PICK at \in {"sent", "failed"} : Take(c, hand(at)) /\ (at = "sent" => got'[x] > 0)
    <2>1. got[x] \in 0 .. 2
      BY <1>1, <1>2 DEF Rest
    <2>2. CASE Take(c, hand("failed"))
      BY <2>2
    <2>3. CASE Take(c, hand("sent")) /\ got' = [got EXCEPT ![x] = IF @ = 2 THEN 2 ELSE @ + 1]
      <3>1. got'[x] > 0
        BY <1>1, <1>2, <2>1, <2>3 DEF Rest
      <3>2. QED
        BY <2>3, <3>1
    <2>4. QED
      BY <2>2, <2>3 DEF Outbound
  <1>5. hand(at) \in Hand
    BY <1>2 DEF Hand
  <1>6. consumer'[c] = hand(at)
    BY <1>4, <1>5, Taken DEF Types
  <1>7. HandOk(c)'
    BY <1>2, <1>4, <1>6 DEF HandOk
  <1>8. Hands'
    <2> HIDE DEF hand
    <2> QED BY <1>3, <1>4, <1>5, <1>7, HandsTaken
  <1>9. Rest'
    BY <1>1, <1>3 DEF Rest, Outbound
  <1>10. UNCHANGED chats /\ UNCHANGED <<automated, died>> /\ UNCHANGED faults
    BY DEF Outbound
  <1>11. QED
    BY <1>1, <1>8, <1>9, <1>10, ChatsSame, FlagsSame, CountUp, TypesSplit

LEMMA UpdatingOut ==
  ASSUME Types, NEW c \in Consumer, Updating(c)
  PROVE  consumer[c].msg \in Out /\ (consumer[c].at = "sent" => got[consumer[c].msg] > 0)
  BY DEF Types, HandOk, Updating, Free

LEMMA TypesOfUpdate ==
  ASSUME Types, NEW c \in Consumer, Update(c)
  PROVE  Types'
  <1>1. Rest /\ Chats /\ Flags /\ Hands /\ Count
    BY TypesSplit
  <1>2. consumer[c].msg \in Out
    BY UpdatingOut DEF Update
  <1>3. Rest'
    BY <1>1, <1>2 DEF Rest, Update, Updating
  <1>4. Hands'
    BY HandsFreed DEF Update
  <1>5. UNCHANGED chats /\ UNCHANGED <<automated, died>> /\ UNCHANGED faults
    BY DEF Update
  <1>6. QED
    BY <1>1, <1>3, <1>4, <1>5, ChatsSame, FlagsSame, CountUp, TypesSplit

LEMMA TypesOfUpdateRaises ==
  ASSUME Types, NEW c \in Consumer, UpdateRaises(c)
  PROVE  Types'
  <1> DEFINE hand == [consumer[c] EXCEPT !.at = "failed"]
  <1>1. Rest /\ Chats /\ Flags /\ Hands /\ Count
    BY TypesSplit
  <1>2. consumer[c].msg \in Out /\ consumer[c] \in Hand
    BY <1>1, UpdatingOut DEF UpdateRaises, Hands
  <1>3. hand \in Hand /\ hand.msg = consumer[c].msg /\ hand.at = "failed"
    BY <1>2 DEF Hand
  <1>4. Hands'
    <2>1. CASE consumer[c].at = "sent"
      <3>1. Take(c, hand) /\ UNCHANGED got
        BY <2>1 DEF UpdateRaises
      <3>2. consumer'[c] = hand
        BY <1>3, <3>1, Taken DEF Types
      <3>3. HandOk(c)'
        BY <1>2, <1>3, <3>2 DEF HandOk
      <3>4. QED
        <4> HIDE DEF hand
        <4> QED BY <1>3, <3>1, <3>3, HandsTaken
    <2>2. CASE consumer[c].at # "sent"
      BY <2>2, HandsFreed DEF UpdateRaises
    <2>3. QED
      BY <2>1, <2>2
  <1>5. Rest'
    BY <1>1 DEF Rest, UpdateRaises
  <1>6. Flags'
    <2>1. UNCHANGED automated /\ (UNCHANGED died \/ died' = TRUE)
      BY DEF UpdateRaises
    <2>2. QED
      BY <1>1, <2>1, Zenon DEF Flags
  <1>7. UNCHANGED chats /\ (Fault \/ UNCHANGED faults)
    BY DEF UpdateRaises
  <1>8. QED
    BY <1>1, <1>4, <1>5, <1>6, <1>7, ChatsSame, CountUp, TypesSplit

LEMMA TypesOfKill ==
  ASSUME Types, NEW c \in Consumer, Kill(c)
  PROVE  Types'
  <1>1. Rest /\ Chats /\ Flags /\ Hands /\ Count
    BY TypesSplit
  <1>2. consumer[c].msg \in In \cup Out
    BY DEF Types, HandOk, Kill
  <1>3. Rest'
    BY <1>1, <1>2 DEF Rest, Kill
  <1>4. Hands'
    BY HandsFreed DEF Kill
  <1>5. UNCHANGED chats /\ UNCHANGED <<automated, died>> /\ Fault
    BY DEF Kill
  <1>6. QED
    BY <1>1, <1>3, <1>4, <1>5, ChatsSame, FlagsSame, CountUp, TypesSplit

LEMMA TypesOfProducer ==
  ASSUME Types, NEW m \in In \cup Out, Send(m) \/ Drop(m)
  PROVE  Types'
  <1>1. Rest /\ Chats /\ Flags /\ Hands /\ Count
    BY TypesSplit
  <1>2. Rest'
    BY <1>1 DEF Rest, Send, Drop
  <1>3. /\ UNCHANGED chats /\ UNCHANGED <<automated, died>> /\ UNCHANGED <<consumer, got>>
        /\ Fault \/ UNCHANGED faults
    BY DEF Send, Drop
  <1>4. QED
    BY <1>1, <1>2, <1>3, ChatsSame, FlagsSame, HandsSame, CountUp, TypesSplit

\* Every step keeps the types: one lemma above for each group of actions.
LEMMA TypesKept == Types /\ [Next]_vars => Types'
  <1> SUFFICES ASSUME Types, [Next]_vars PROVE Types'
    OBVIOUS
  <1>1. CASE UNCHANGED vars
    BY <1>1 DEF vars, Types, TypeOK, Distinct, HandOk
  <1>2. CASE Next
    BY <1>2, TypesOfWebhook, TypesOfChats, TypesOfDashboard, TypesOfPoll, TypesOfInbound,
       TypesOfOutbound, TypesOfUpdate, TypesOfUpdateRaises, TypesOfKill, TypesOfProducer
    DEF Next
  <1>3. QED
    BY <1>1, <1>2

-----------------------------------------------------------------------------
(* What a step does to one message                                          *)

\* Nothing that happened is undone.
LEMMA Onward ==
  ASSUME Types, [Next]_vars
  PROVE  /\ faults > 0 => faults' > 0
         /\ died => died'
         /\ Len(chats) >= 2 => Len(chats') >= 2
         /\ \A m \in In : (m \in shown => m \in shown') /\ (row[m] # None => row'[m] # None)
         /\ \A x \in Out : got[x] > 0 => got'[x] > 0
         /\ \A m \in In \cup Out : m \in lost => m \in lost'
  <1>1. faults > 0 => faults' > 0
    <2>1. UNCHANGED faults \/ Fault
      BY DEF Next, vars, Deliver, DeliverRaises, DeliverAmbiguous, Restart, Send, Drop, Echo,
             Queue, Commit, Rollback, Toggle, CampaignChat, SpreadsheetChat, Poll, Inbound,
             Outbound, Update, UpdateRaises, Kill
    <2>2. QED
      BY <2>1 DEF Types, TypeOK, Fault
  <1>2. died => died'
    BY DEF Next, vars, Deliver, DeliverRaises, DeliverAmbiguous, Restart, Send, Drop, Echo,
           Queue, Commit, Rollback, Toggle, CampaignChat, SpreadsheetChat, Poll, Inbound,
           Outbound, Update, UpdateRaises, Kill
  <1>3. Len(chats) >= 2 => Len(chats') >= 2
    <2>1. UNCHANGED chats \/ CampaignChat \/ (\E k \in Key : GetOrCreate(k))
      BY FirstIsKey DEF Types, TypeOK, Key, Next, vars, Deliver, DeliverRaises, DeliverAmbiguous,
        
            Restart, Send, Drop, Echo, Queue, Commit, Rollback, Toggle, SpreadsheetChat, Poll, Inbound,
         Outbound, Update, UpdateRaises, Kill
    <2>2. CASE CampaignChat
      BY <2>2 DEF CampaignChat
    <2>3. CASE \E k \in Key : GetOrCreate(k)
      <3>1. Len(chats) \in Nat /\ Len(chats') \in Nat /\ Len(chats) <= Len(chats')
        BY <2>3, Created, LenProperties DEF Types, TypeOK
      <3>2. QED
        BY <3>1
    <2>4. QED
      BY <2>1, <2>2, <2>3
  <1>4. ASSUME NEW m \in In
        PROVE  (m \in shown => m \in shown') /\ (row[m] # None => row'[m] # None)
    <2>1. \/ UNCHANGED row
          \/ \E n \in In, k \in Key : row' = [row EXCEPT ![n] = IF @ = None THEN k ELSE @]
      BY FirstIsKey DEF Key, Types, TypeOK, Next, vars, Deliver, DeliverRaises,
         DeliverAmbiguous, Restart, Send, Drop, Echo,
         Queue, Commit, Rollback, Toggle, CampaignChat, SpreadsheetChat, Poll, Inbound,
         Outbound, Update, UpdateRaises, Kill
    <2>2. row[m] # None => row'[m] # None
      BY <2>1, InboxAssumption DEF Types, TypeOK
    <2>3. m \in shown => m \in shown'
      BY DEF Next, vars, Deliver, DeliverRaises, DeliverAmbiguous, Restart, Send, Drop, Echo,
             Queue, Commit, Rollback, Toggle, CampaignChat, SpreadsheetChat, Poll, Inbound,
             Outbound, Update, UpdateRaises, Kill
    <2>4. QED
      BY <2>2, <2>3
  <1>5. ASSUME NEW x \in Out PROVE got[x] > 0 => got'[x] > 0
    <2>1. \/ UNCHANGED got
          \/ \E y \in Out : got' = [got EXCEPT ![y] = IF @ = 2 THEN 2 ELSE @ + 1]
      BY DEF Next, vars, Deliver, DeliverRaises, DeliverAmbiguous, Restart, Send, Drop, Echo,
             Queue, Commit, Rollback, Toggle, CampaignChat, SpreadsheetChat, Poll, Inbound,
             Outbound, Update, UpdateRaises, Kill
    <2>2. QED
      BY <2>1 DEF Types, TypeOK
  <1>6. lost \subseteq lost'
    BY DEF Next, vars, Deliver, DeliverRaises, DeliverAmbiguous, Restart, Send, Drop, Echo,
           Queue, Commit, Rollback, Toggle, CampaignChat, SpreadsheetChat, Poll, Inbound,
           Outbound, Update, UpdateRaises, Kill
  <1>7. QED
    BY <1>1, <1>2, <1>3, <1>4, <1>5, <1>6

\* What becomes of a consumer's hand.
LEMMA HandSteps ==
  ASSUME Types, [Next]_vars, NEW c \in Consumer, consumer[c].msg # None
  PROVE  \/ consumer'[c].msg = consumer[c].msg
         \/ consumer[c].msg \in In /\ consumer[c].msg \in shown'
         \/ consumer[c].msg \in Out /\ (died' \/ out'[consumer[c].msg] \in {"sent", "failed"})
         \/ faults' > 0
  <1>1. CASE UNCHANGED vars
    BY <1>1 DEF vars
  <1>2. ASSUME UNCHANGED consumer PROVE consumer'[c].msg = consumer[c].msg
    BY <1>2
  <1>3. CASE \E d \in Consumer, m \in In \cup Out : Poll(d, m)
    <2>1. PICK d \in Consumer, m \in In \cup Out : Poll(d, m)
      BY <1>3
    <2>2. consumer[d].msg = None
      BY <2>1 DEF Poll, Free
    <2>3. [msg |-> m, at |-> "polled"] \in Hand
      BY DEF Hand
    <2>4. QED
      BY <2>1, <2>2, <2>3, Taken DEF Poll, Types
  <1>4. CASE \E d \in Consumer : Inbound(d)
    BY <1>4, Taken, FreeIsHand DEF Inbound, Types
  <1>5. CASE \E d \in Consumer : Outbound(d)
    <2>1. PICK d \in Consumer : Outbound(d)
      BY <1>5
    <2>2. PICK at \in {"sent", "failed"} : Take(d, [msg |-> consumer[d].msg, at |-> at])
      BY <2>1 DEF Outbound
    <2>3. [msg |-> consumer[d].msg, at |-> at] \in Hand
      BY HandType DEF Hand, Types
    <2>4. QED
      BY <2>2, <2>3, Taken DEF Types
  <1>6. CASE \E d \in Consumer : Update(d)
    <2>1. PICK d \in Consumer : Update(d)
      BY <1>6
    <2>2. consumer[d].msg \in Out
      BY <2>1, UpdatingOut DEF Update
    <2>3. out'[consumer[d].msg] \in {"sent", "failed"}
      BY <2>1, <2>2 DEF Update, Updating, Types, TypeOK
    <2>4. QED
      BY <2>1, <2>2, <2>3, Taken, FreeIsHand DEF Update, Types
  <1>7. CASE \E d \in Consumer : UpdateRaises(d)
    <2>1. PICK d \in Consumer : UpdateRaises(d)
      BY <1>7
    <2>2. consumer[d].msg \in Out /\ consumer[d] \in Hand
      BY <2>1, UpdatingOut DEF UpdateRaises, Types, TypeOK
    <2>3. CASE consumer[d].at = "sent"
      <3>1. /\ [consumer[d] EXCEPT !.at = "failed"] \in Hand
            /\ [consumer[d] EXCEPT !.at = "failed"].msg = consumer[d].msg
        BY <2>2 DEF Hand
      <3>2. Take(d, [consumer[d] EXCEPT !.at = "failed"])
        BY <2>1, <2>3 DEF UpdateRaises
      <3>3. QED
        BY <3>1, <3>2, Taken DEF Types
    <2>4. CASE consumer[d].at # "sent"
      BY <2>1, <2>2, <2>4, Taken, FreeIsHand DEF UpdateRaises, Types
    <2>5. QED
      BY <2>3, <2>4
  <1>8. CASE \E d \in Consumer : Kill(d)
    BY <1>8 DEF Kill, Fault, Types, TypeOK
  <1>9. QED
    BY <1>1, <1>2, <1>3, <1>4, <1>5, <1>6, <1>7, <1>8
    DEF Next, Deliver, DeliverRaises, DeliverAmbiguous, Restart, Send, Drop, Echo,
        Queue, Commit, Rollback, Toggle, CampaignChat, SpreadsheetChat

\* A message that is on its way stays so until its producer drops it or a
\* consumer is done with it.
LEMMA WayKept ==
  ASSUME Types, [Next]_vars, NEW m \in In \cup Out, Underway(m)
  PROVE  \/ Underway(m)' \/ faults' > 0 \/ m \in lost'
         \/ m \in In /\ m \in shown'
         \/ m \in Out /\ (died' \/ out'[m] \in {"sent", "failed"})
  <1>0. CASE m \in buffer
    <2>1. m \in buffer' \/ m \in events' \/ m \in lost'
      <3>1. \/ buffer \subseteq buffer'
            \/ \E n \in In \cup Out : Send(n) \/ Drop(n)
        BY DEF Next, vars, Deliver, DeliverRaises, DeliverAmbiguous, Restart, Echo, Queue,
           Commit, Rollback, Toggle, CampaignChat, SpreadsheetChat, Poll, Inbound, Outbound,
           Update, UpdateRaises, Kill
      <3>2. QED
        BY <1>0, <3>1 DEF Send, Drop
    <2>2. QED
      BY <2>1 DEF Underway
  <1>1. CASE m \in events
    <2>1. m \in events' \/ (\E c \in Consumer : Poll(c, m))
      BY <1>1 DEF Next, vars, Deliver, DeliverRaises, DeliverAmbiguous,
         Restart, Send, Drop, Echo, Queue,
         Commit, Rollback, Toggle, CampaignChat, SpreadsheetChat, Poll, Inbound, Outbound,
         Update, UpdateRaises, Kill
    <2>2. CASE m \in events'
      BY <2>2 DEF Underway
    <2>3. CASE \E c \in Consumer : Poll(c, m)
      <3>1. PICK c \in Consumer : Poll(c, m)
        BY <2>3
      <3>2. [msg |-> m, at |-> "polled"] \in Hand
        BY DEF Hand
      <3>3. consumer'[c].msg = m
        BY <3>1, <3>2, Taken DEF Poll, Types
      <3>4. QED
        BY <3>3 DEF Underway
    <2>4. QED
      BY <2>1, <2>2, <2>3
  <1>2. CASE \E c \in Consumer : consumer[c].msg = m
    <2>1. m # None
      BY InboxAssumption
    <2>2. QED
      BY <1>2, <2>1, HandSteps DEF Underway
  <1>3. QED
    BY <1>0, <1>1, <1>2 DEF Underway

\* An agent's message gets under way by its transaction, or by a consumer that
\* was killed before its offset was committed.
LEMMA WayNew ==
  ASSUME Types, [Next]_vars, NEW x \in Out, Underway(x)', ~Underway(x)
  PROVE  open'[x] # None \/ faults' > 0
  <1>1. CASE x \in buffer' \cup events'
    <2>1. \/ x \in buffer \cup events \/ Queue(x)
          \/ \E c \in Consumer : Kill(c)
      <3>1. \/ buffer' \cup events' \subseteq buffer \cup events \cup In
            \/ \E y \in Out : Queue(y)
            \/ \E c \in Consumer : Kill(c)
        <4>1. CASE \E n \in In \cup Out : Send(n) \/ Drop(n)
          BY <4>1 DEF Send, Drop
        <4>2. \/ \E n \in In \cup Out : Send(n) \/ Drop(n)
              \/ buffer' \subseteq buffer \cup In /\ events' \subseteq events
              \/ \E y \in Out : Queue(y)
              \/ \E c \in Consumer : Kill(c)
          BY DEF Next, vars, Deliver, DeliverRaises, DeliverAmbiguous, Restart, Echo, Commit,
             Rollback, Toggle, CampaignChat, SpreadsheetChat, Poll, Inbound, Outbound, Update,
             UpdateRaises
        <4>3. QED
          BY <4>1, <4>2
      <3>2. ASSUME NEW y \in Out, Queue(y)
            PROVE  buffer' = buffer \cup {y} /\ events' = events
        BY <3>2 DEF Queue
      <3>3. QED
        BY <1>1, <3>1, <3>2, InboxAssumption
    <2>2. CASE Queue(x)
      BY <2>2, FirstIsKey, InboxAssumption DEF Queue, Types, TypeOK
    <2>3. CASE \E c \in Consumer : Kill(c)
      BY <2>3 DEF Kill, Fault, Types, TypeOK
    <2>4. QED
      BY <2>1, <2>2, <2>3 DEF Underway
  <1>2. ASSUME NEW c \in Consumer, consumer'[c].msg = x
        PROVE  Underway(x)
    <2>1. \/ consumer'[c].msg \in {consumer[c].msg, None}
          \/ consumer'[c].msg \in events
      <3>1. \/ UNCHANGED consumer
            \/ \E d \in Consumer, hand \in Hand :
                 /\ Take(d, hand)
                 /\ hand.msg \in {consumer[d].msg, None} \/ hand.msg \in events
        <4>1. ASSUME NEW d \in Consumer, NEW m \in In \cup Out, Poll(d, m)
              PROVE  m \in events /\ [msg |-> m, at |-> "polled"] \in Hand
                     /\ [msg |-> m, at |-> "polled"].msg = m
                     /\ Take(d, [msg |-> m, at |-> "polled"])
          BY <4>1 DEF Poll, Hand
        <4>2. Free \in Hand /\ Free.msg = None
          BY FreeIsHand DEF Free
        <4>3. ASSUME NEW d \in Consumer, Outbound(d)
              PROVE  \E at \in {"sent", "failed"} : Take(d, [msg |-> consumer[d].msg, at |-> at])
          BY <4>3 DEF Outbound
        <4>4. \A d \in Consumer, at \in {"sent", "failed"} :
                [msg |-> consumer[d].msg, at |-> at] \in Hand
          BY HandType DEF Hand, Types
        <4>5. \A d \in Consumer : [consumer[d] EXCEPT !.at = "failed"] \in Hand
                /\ [consumer[d] EXCEPT !.at = "failed"].msg = consumer[d].msg
          BY DEF Hand, Types, TypeOK
        <4>6. ASSUME NEW d \in Consumer, UpdateRaises(d)
              PROVE  Take(d, [consumer[d] EXCEPT !.at = "failed"]) \/ Take(d, Free)
          BY <4>6 DEF UpdateRaises
        <4>7. \/ UNCHANGED consumer
              \/ \E d \in Consumer : \/ Take(d, Free)
                                     \/ \E m \in In \cup Out : Poll(d, m)
                                     \/ Outbound(d) \/ UpdateRaises(d)
          BY DEF Next, vars, Deliver, DeliverRaises, DeliverAmbiguous,
             Restart, Send, Drop, Echo, Queue,
             Commit, Rollback, Toggle, CampaignChat, SpreadsheetChat, Inbound, Update, Kill
        <4>8. ASSUME NEW d \in Consumer, Take(d, Free)
              PROVE  \E hand \in Hand : Take(d, hand) /\ hand.msg \in {consumer[d].msg, None}
          BY <4>2, <4>8
        <4>9. ASSUME NEW d \in Consumer, NEW m \in In \cup Out, Poll(d, m)
              PROVE  \E hand \in Hand : Take(d, hand) /\ hand.msg \in events
          BY <4>1, <4>9
        <4>10. ASSUME NEW d \in Consumer, Outbound(d)
               PROVE  \E hand \in Hand : Take(d, hand) /\ hand.msg \in {consumer[d].msg, None}
          <5>1. PICK at \in {"sent", "failed"} : Take(d, [msg |-> consumer[d].msg, at |-> at])
            BY <4>3, <4>10
          <5>2. [msg |-> consumer[d].msg, at |-> at].msg = consumer[d].msg
            OBVIOUS
          <5>3. QED
            BY <4>4, <5>1, <5>2
        <4>11. ASSUME NEW d \in Consumer, UpdateRaises(d)
               PROVE  \E hand \in Hand : Take(d, hand) /\ hand.msg \in {consumer[d].msg, None}
          BY <4>2, <4>5, <4>6, <4>11
        <4>12. QED
          BY <4>7, <4>8, <4>9, <4>10, <4>11
      <3>2. QED
        BY <3>1, Taken DEF Types
    <2>2. QED
      BY <1>2, <2>1, InboxAssumption DEF Underway
  <1>3. QED
    BY <1>1, <1>2 DEF Underway

\* A message that is received was on its way.
LEMMA GotNew ==
  ASSUME Types, [Next]_vars, NEW x \in Out, got'[x] > 0
  PROVE  got[x] > 0 \/ Underway(x)
  <1>1. \/ UNCHANGED got
        \/ \E c \in Consumer : /\ consumer[c].msg \in Out
                               /\ got' = [got EXCEPT ![consumer[c].msg] =
                                            IF @ = 2 THEN 2 ELSE @ + 1]
    BY DEF Next, vars, Deliver, DeliverRaises, DeliverAmbiguous,
       Restart, Send, Drop, Echo, Queue, Commit,
       Rollback, Toggle, CampaignChat, SpreadsheetChat, Poll, Inbound, Outbound, Update,
       UpdateRaises, Kill
  <1>2. QED
    BY <1>1 DEF Underway, Types, TypeOK

\* What becomes of the status of an agent's message.
LEMMA OutSteps ==
  ASSUME Types, [Next]_vars, NEW x \in Out
  PROVE  \/ out'[x] = out[x]
         \/ /\ open[x] # None /\ open'[x] = None /\ out'[x] = "pending"
            /\ UNCHANGED <<buffer, events, consumer, died, faults>>
         \/ /\ out[x] # "none" /\ out'[x] \in {"sent", "failed"}
            /\ out'[x] = "sent" => got'[x] > 0
  <1>1. \/ UNCHANGED out \/ (\E y \in Out : Commit(y)) \/ (\E c \in Consumer : Update(c))
    BY DEF Next, vars, Deliver, DeliverRaises, DeliverAmbiguous,
       Restart, Send, Drop, Echo, Queue, Rollback,
       Toggle, CampaignChat, SpreadsheetChat, Poll, Inbound, Outbound, UpdateRaises, Kill
  <1>2. CASE \E y \in Out : Commit(y)
    BY <1>2 DEF Commit, Types, TypeOK
  <1>3. CASE \E c \in Consumer : Update(c)
    <2>1. PICK c \in Consumer : Update(c)
      BY <1>3
    <2>2. consumer[c].msg \in Out /\ (consumer[c].at = "sent" => got[consumer[c].msg] > 0)
      BY <2>1, UpdatingOut DEF Update
    <2>3. QED
      BY <2>1, <2>2 DEF Update, Updating, Types, TypeOK
  <1>4. QED
    BY <1>1, <1>2, <1>3

\* What becomes of its transaction.
LEMMA OpenSteps ==
  ASSUME Types, [Next]_vars, NEW x \in Out
  PROVE  \/ open'[x] = open[x]
         \/ open'[x] = None /\ (out'[x] = "pending" \/ faults' > 0)
         \/ open'[x] # None /\ Underway(x)' /\ out'[x] = "none"
  <1>1. \/ UNCHANGED open
        \/ \E y \in Out : Queue(y) \/ Commit(y) \/ Rollback(y)
    BY DEF Next, vars, Deliver, DeliverRaises, DeliverAmbiguous, Restart, Send, Drop, Echo,
       Toggle, CampaignChat, SpreadsheetChat, Poll, Inbound, Outbound, Update, UpdateRaises, Kill
  <1>2. CASE \E y \in Out : Queue(y)
    BY <1>2, FirstIsKey, InboxAssumption DEF Queue, Underway, Types, TypeOK
  <1>3. CASE \E y \in Out : Commit(y)
    BY <1>3 DEF Commit, Types, TypeOK
  <1>4. CASE \E y \in Out : Rollback(y)
    BY <1>4 DEF Rollback, Fault, Types, TypeOK
  <1>5. QED
    BY <1>1, <1>2, <1>3, <1>4

\* What newly becomes of a customer's message.
LEMMA InSteps ==
  ASSUME Types, [Next]_vars, NEW m \in In
  PROVE  /\ m \in acked' /\ m \notin acked => row'[m] # None \/ faults' > 0 \/ Len(chats') >= 2
         /\ row'[m] # None /\ row[m] = None => m \in shown' \/ Underway(m)'
  <1>1. m \in acked' /\ m \notin acked =>
          \E p \in Process : Deliver(p, m) \/ DeliverRaises(p, m) \/ DeliverAmbiguous(p, m)
    BY DEF Next, vars, Deliver, DeliverRaises, DeliverAmbiguous, Seen,
       Restart, Send, Drop, Echo, Queue,
       Commit, Rollback, Toggle, CampaignChat, SpreadsheetChat, Poll, Inbound, Outbound, Update,
       UpdateRaises, Kill
  <1>2. ASSUME NEW p \in Process, Deliver(p, m)
        PROVE  row'[m] # None /\ (m \in shown' \/ Underway(m)')
    <2>1. First # None
      BY FirstIsKey, InboxAssumption DEF Types
    <2>2. row'[m] # None
      BY <1>2, <2>1 DEF Deliver, Types, TypeOK
    <2>3. m \in shown' \/ m \in buffer'
      BY <1>2 DEF Deliver
    <2>4. QED
      BY <2>2, <2>3 DEF Underway
  <1>3. ASSUME NEW p \in Process, DeliverRaises(p, m) PROVE faults' > 0
    BY <1>3 DEF DeliverRaises, Fault, Types, TypeOK
  <1>4. ASSUME NEW p \in Process, DeliverAmbiguous(p, m) PROVE Len(chats') >= 2
    BY <1>4 DEF DeliverAmbiguous
  <1>5. row'[m] # row[m] =>
          (\E p \in Process : Deliver(p, m)) \/ (\E c \in Consumer : Inbound(c) /\ consumer[c].msg = m)
    <2>1. \/ UNCHANGED row
          \/ \E p \in Process, n \in In : Deliver(p, n)
          \/ \E c \in Consumer : Inbound(c)
      BY DEF Next, vars, DeliverRaises, DeliverAmbiguous,
         Restart, Send, Drop, Echo, Queue, Commit,
         Rollback, Toggle, CampaignChat, SpreadsheetChat, Poll, Outbound, Update,
         UpdateRaises, Kill
    <2>2. ASSUME NEW p \in Process, NEW n \in In, Deliver(p, n), row'[m] # row[m] PROVE n = m
      BY <2>2 DEF Deliver, Types, TypeOK
    <2>3. ASSUME NEW c \in Consumer, Inbound(c), row'[m] # row[m] PROVE consumer[c].msg = m
      BY <2>3 DEF Inbound, Types, TypeOK
    <2>4. QED
      BY <2>1, <2>2, <2>3
  <1>6. ASSUME NEW c \in Consumer, Inbound(c), consumer[c].msg = m PROVE m \in shown'
    BY <1>6 DEF Inbound
  <1>7. QED
    BY <1>1, <1>2, <1>3, <1>4, <1>5, <1>6

-----------------------------------------------------------------------------
(* The invariant is inductive                                               *)

LEMMA InvariantKept == IInv /\ [Next]_vars => IInv'
  <1> SUFFICES ASSUME IInv, [Next]_vars PROVE IInv'
    OBVIOUS
  <1>1. Types /\ Types'
    BY TypesKept DEF IInv
  <1>2. ASSUME NEW m \in In PROVE KeptTruly(m)'
    <2>1. KeptTruly(m)
      BY DEF IInv
    <2>2. QED
      BY <1>1, <2>1, Onward, InSteps DEF KeptTruly
  <1>3. ASSUME NEW m \in In PROVE ShownTruly(m)'
    <2>1. ShownTruly(m)
      BY DEF IInv
    <2>2. m \notin Out
      BY InboxAssumption
    <2>3. Underway(m) => Underway(m)' \/ faults' > 0 \/ m \in lost' \/ m \in shown'
      BY <1>1, <2>2, WayKept
    <2>4. QED
      BY <1>1, <2>1, <2>3, Onward, InSteps DEF ShownTruly
  <1>4. ASSUME NEW x \in Out
        PROVE  (SentTruly(x) /\ HandedOver(x) /\ OpenIsUnderway(x) /\ PendingTruly(x))'
    <2>1. SentTruly(x) /\ HandedOver(x) /\ OpenIsUnderway(x) /\ PendingTruly(x)
      BY DEF IInv
    <2>2. x \notin In
      BY InboxAssumption
    <2>3. Underway(x) => \/ Underway(x)' \/ faults' > 0 \/ died' \/ x \in lost'
                         \/ out'[x] \in {"sent", "failed"}
      BY <1>1, <2>2, WayKept
    <2>4. ~Underway(x) /\ Underway(x)' => open'[x] # None \/ faults' > 0
      BY <1>1, WayNew
    <2>5. got'[x] > 0 => got[x] > 0 \/ Underway(x)
      BY <1>1, GotNew
    <2>6. UNCHANGED <<buffer, events, consumer>> => (Underway(x) => Underway(x)')
      BY DEF Underway
    <2>7. SentTruly(x)'
      BY <1>1, <2>1, Onward, OutSteps DEF SentTruly
    <2>8. HandedOver(x)'
      BY <1>1, <2>1, <2>4, <2>5, Onward, OutSteps, OpenSteps DEF HandedOver
    <2>9. OpenIsUnderway(x)'
      BY <1>1, <2>1, <2>3, Onward, OutSteps, OpenSteps DEF OpenIsUnderway
    <2>10. PendingTruly(x)'
      BY <1>1, <2>1, <2>3, <2>6, Onward, OutSteps DEF PendingTruly, OpenIsUnderway
    <2>11. QED
      BY <2>7, <2>8, <2>9, <2>10
  <1>5. QED
    BY <1>1, <1>2, <1>3, <1>4 DEF IInv

LEMMA Invariant == Spec => []IInv
  BY Initially, InvariantKept, PTL DEF Spec

-----------------------------------------------------------------------------
(* Theorems                                                                 *)

\* Every reachable state is well typed; in particular three unique ids make at
\* most three chats, whoever creates them at once.
THEOREM TypeCorrect == Spec => []TypeOK
  <1>1. IInv => TypeOK
    BY DEF IInv, Types
  <1>2. QED
    BY <1>1, Invariant, PTL

\* views.py:1107-1250, whatever process a message reached and whoever created
\* the chat: it is stored unless an exception was raised or there are two chats.
THEOREM AnsweredIsStored == Spec => []InboundKept
  <1>1. IInv => InboundKept
    BY DEF IInv, Types, TypeOK, InboundKept, KeptTruly
  <1>2. QED
    BY <1>1, Invariant, PTL

\* run_kafka_consumer.py:75-149: what the webhook stored and left to a consumer
\* is pushed by one, or still waits, unless the producer dropped its event
\* (apps.py:69-80, 107).
THEOREM StoredIsPushed == Spec => []StoredIsShown
  <1>1. IInv => StoredIsShown
    BY DEF IInv, StoredIsShown, ShownTruly
  <1>2. QED
    BY <1>1, Invariant, PTL

\* run_kafka_consumer.py:151-201: no message is recorded as sent that was not
\* received, and none is received before its row unless its commit is to come
\* or failed.
THEOREM StatusIsTrue == Spec => []SentIsReceived
  <1>1. IInv => SentIsReceived
    BY DEF IInv, SentIsReceived, SentTruly, HandedOver
  <1>2. QED
    BY <1>1, Invariant, PTL

\* chat_engine.py:71-171: a pending message is on its way, unless the producer
\* dropped its event, or a consumer died over it or was killed.
THEOREM PendingIsSent == Spec => []PendingIsUnderway
  <1>1. IInv => PendingIsUnderway
    BY DEF IInv, PendingIsUnderway, PendingTruly
  <1>2. QED
    BY <1>1, Invariant, PTL
=============================================================================

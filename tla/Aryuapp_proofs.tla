--------------------------- MODULE Aryuapp_proofs ---------------------------
(***************************************************************************)
(* Theorems about what the app aryuapp keeps: chat rooms and badges        *)
(* (consumers.py; Chat, Notifications) and attendance rows with the hours  *)
(* computed from them (views.py; Attendance), for every number of sockets, *)
(* requests, messages and rows.                                            *)
(***************************************************************************)
EXTENDS Chat, Notifications, Attendance, SequenceTheorems, FiniteSetTheorems,
        WellFoundedInduction, TLAPS

-----------------------------------------------------------------------------
(* Chat: the invariant                                                      *)

\* what is stored as deleted was deleted
DeletedIsGone == \A i \in Id : Deleted(i) => messages[i].gone

\* what a request between its query and its save knows of its row: the flags as
\* they were last asked for, but for those that were written since or undone
Fetched(r) == LET me == request[r] IN
    /\ me.id \in Id /\ me.on \cap me.off = {}
    /\ "is_deleted" \in me.flags => messages[me.id].gone
    /\ \A f \in Flag \ me.behind :
         f \in messages[me.id].undone \/ (f \in me.flags <=> f \in messages[me.id].asked)

\* what a socket refers to
Refers(c) ==
    /\ socket[c].pc = "created" => socket[c].id \in Id
    /\ socket[c].oldest \in Id \cup {0}
    /\ socket[c].pc \in {"closed", "joined"} => socket[c].oldest = 0

RoomInv ==
    /\ RoomTypeOK
    /\ DeletedIsGone
    /\ \A r \in Request : request[r].id # 0 => Fetched(r)
    /\ \A c \in Socket : Refers(c)
    /\ NoGap
    /\ FlagsAsAsked

-----------------------------------------------------------------------------
(* Notifications: the invariant                                             *)

\* rows that a page has no other sign of than its badge
Counted(c) == {i \in Unread(Owner[c]) :
    /\ Owner[c] \notin notes[i].unsent /\ <<i, Owner[c]>> \notin failed
    /\ \A n \in 1 .. Len(queue[c]) : queue[c][n] # i}

\* an open page shows them all; while mark_all_read is about to show 0, there are none
Covered(c) == Owner[c] \notin SuperAdmin =>
    /\ client[c].pc \in {"open", "marked"} => client[c].badge >= Cardinality(Counted(c))
    /\ client[c].pc = "cleared" => Counted(c) = {}

BadgeInv == BadgeTypeOK /\ \A c \in Client : Covered(c)

-----------------------------------------------------------------------------
(* Sets of ids, and the page of the history                                 *)

LEMMA LeastExists ==
  ASSUME NEW S \in SUBSET Nat, S # {}
  PROVE  Least(S) \in S /\ \A x \in S : Least(S) <= x
  <1>1. PICK s \in S : \A u \in S : ~ (<<u, s>> \in OpToRel(<, Nat))
    BY WFMin, NatLessThanWellFounded
  <1>2. \A u \in S : ~ (u < s)
    BY <1>1 DEF OpToRel
  <1>3. \A u \in S : s <= u
    BY <1>2
  <1>4. QED
    BY <1>3 DEF Least

LEMMA GreatestExists ==
  ASSUME NEW S \in SUBSET Nat, S # {}, NEW b \in Nat, \A x \in S : x <= b
  PROVE  \E x \in S : \A y \in S : y <= x
  <1> DEFINE T == {b - x : x \in S}
  <1>1. T \in SUBSET Nat /\ T # {}
    <2>1. \A x \in S : b - x \in Nat
      OBVIOUS
    <2>2. QED
      BY <2>1
  <1>2. Least(T) \in T /\ \A u \in T : Least(T) <= u
    <2> HIDE DEF T
    <2> QED BY <1>1, LeastExists
  <1>3. PICK x \in S : Least(T) = b - x
    BY <1>2
  <1>4. ASSUME NEW y \in S PROVE y <= x
    <2>1. b - x <= b - y
      BY <1>2, <1>3
    <2>2. QED
      BY <2>1
  <1>5. QED
    BY <1>4

\* A page has no gap: from its oldest message on it has all that are not deleted,
\* and it is empty only if all are.
LEMMA PageIsWhole ==
  ASSUME RoomTypeOK, NEW ids \in SUBSET Id
  PROVE  /\ Newest(ids) \subseteq ids
         /\ Newest(ids) = {} => \A i \in ids : Deleted(i)
         /\ Newest(ids) # {} =>
              /\ Least(Newest(ids)) \in ids
              /\ \A i \in ids : \/ i < Least(Newest(ids)) \/ i \in Newest(ids)
                                \/ Deleted(i)
  <1> DEFINE After(i) == {j \in ids : j > i /\ ~Deleted(j)}
             page == Newest(ids)
  <1>1. Len(messages) \in Nat /\ Id \subseteq Nat /\ IsFiniteSet(Id) /\ Page \in Nat \ {0}
    BY FS_Interval, LenProperties, ChatAssumption DEF RoomTypeOK, Id
  <1>2. \A i \in ids : /\ IsFiniteSet(After(i)) /\ Cardinality(After(i)) \in Nat
                       /\ i \in page <=> ~Deleted(i) /\ Cardinality(After(i)) < Page
    BY <1>1, FS_Subset, FS_CardinalityType DEF Newest
  <1>3. page \subseteq ids
    BY DEF Newest
  <1>4. ASSUME page = {}, NEW i \in ids, ~Deleted(i) PROVE FALSE
    <2> DEFINE live == {j \in ids : ~Deleted(j)}
    <2>0. \A j \in ids : j \in Nat /\ j <= Len(messages)
      BY <1>1 DEF Id
    <2>1. live \in SUBSET Nat /\ i \in live /\ \A j \in live : j <= Len(messages)
      BY <1>4, <2>0
    <2>2. PICK top \in live : \A j \in live : j <= top
      <3> HIDE DEF live
      <3> QED BY <1>1, <2>1, GreatestExists
    <2>3. After(top) = {}
      <3>1. ASSUME NEW j \in ids, j > top, ~Deleted(j) PROVE FALSE
        <4>1. j \in live /\ j \in Nat /\ top \in Nat
          BY <2>0, <2>2, <3>1
        <4>2. j <= top
          BY <2>2, <4>1
        <4>3. QED
          BY <3>1, <4>1, <4>2
      <3>2. QED
        BY <3>1
    <2>4. Cardinality(After(top)) = 0
      BY <2>3, FS_EmptySet
    <2>5. top \in page
      <3>1. top \in ids /\ ~Deleted(top)
        BY <2>2
      <3>2. 0 < Page
        BY <1>1
      <3>3. QED
        BY <1>2, <2>4, <3>1, <3>2
    <2>6. QED
      BY <1>4, <2>5
  <1>5. ASSUME page # {}
        PROVE  /\ Least(page) \in ids
               /\ \A i \in ids : i < Least(page) \/ i \in page \/ Deleted(i)
    <2>1. Least(page) \in page
      <3> HIDE DEF page
      <3> QED BY <1>1, <1>3, <1>5, LeastExists
    <2>2. ASSUME NEW i \in ids, ~(i < Least(page)), ~Deleted(i) PROVE i \in page
      <3>1. i \in Nat /\ Least(page) \in ids /\ Least(page) \in Nat
        BY <1>1, <1>3, <2>1
      <3>2. After(i) \subseteq After(Least(page))
        <4>1. ASSUME NEW j \in ids, j > i PROVE j > Least(page)
          <5>1. j \in Nat
            BY <1>1
          <5>2. QED
            BY <2>2, <3>1, <4>1, <5>1
        <4>2. QED
          BY <4>1
      <3>3. Cardinality(After(i)) <= Cardinality(After(Least(page)))
        BY <1>2, <3>1, <3>2, FS_Subset
      <3>4. Cardinality(After(Least(page))) < Page
        BY <1>2, <2>1, <3>1
      <3> HIDE DEF After
      <3>5. Cardinality(After(i)) < Page
        BY <1>1, <1>2, <3>1, <3>3, <3>4
      <3>6. QED
        BY <1>2, <2>2, <3>5
    <2>3. QED
      BY <1>3, <2>1, <2>2
  <1>6. QED
    BY <1>3, <1>4, <1>5

-----------------------------------------------------------------------------
(* Chat: steps that write rows                                              *)

LEMMA IdType == RoomTypeOK => Len(messages) \in Nat /\ Id \subseteq Nat \ {0} /\ IsFiniteSet(Id)
  <1>1. RoomTypeOK => Len(messages) \in Nat
    BY LenProperties DEF RoomTypeOK
  <1>2. RoomTypeOK => IsFiniteSet(Id)
    BY <1>1, FS_Interval DEF Id
  <1>3. RoomTypeOK => Id \subseteq Nat \ {0}
    BY <1>1 DEF Id
  <1>4. QED
    BY <1>1, <1>2, <1>3

LEMMA SameLength ==
  ASSUME NEW S, NEW n \in Nat, NEW f \in [1 .. n -> S]
  PROVE  f \in Seq(S) /\ Len(f) = n
  <1>1. f \in Seq(S)
    BY SeqDef
  <1>2. QED
    BY <1>1, LenProperties

\* a row may change in place if nothing that was deleted comes back
Rewritten == /\ messages' \in [Id -> Message]
             /\ \A i \in Id : messages[i].gone => messages'[i].gone
             /\ UNCHANGED <<socket, inbox, unsent>>

LEMMA RewrittenKeeps ==
  ASSUME RoomInv, Rewritten
  PROVE  /\ Id' = Id /\ messages' \in Seq(Message)
         /\ \A c \in Socket : Refers(c)'
         /\ NoGap'
  <1>1. messages' \in Seq(Message) /\ Len(messages') = Len(messages)
    BY IdType, SameLength DEF RoomInv, Rewritten, Id
  <1>2. Id' = Id
    BY <1>1 DEF Id
  <1>3. \A c \in Socket : Refers(c)'
    BY <1>2 DEF RoomInv, Rewritten, Refers
  <1>4. NoGap'
    BY <1>2 DEF RoomInv, Rewritten, NoGap, Coming
  <1>5. QED
    BY <1>1, <1>2, <1>3, <1>4

\* a row that is marked as read
LEMMA ReadIs ==
  ASSUME NEW row \in Message
  PROVE  /\ Written(row, row.flags, {"is_read"}, {}, {}) \in Message
         /\ Written(row, row.flags, {"is_read"}, {}, {}).flags = row.flags \cup {"is_read"}
         /\ Written(row, row.flags, {"is_read"}, {}, {}).gone = row.gone
         /\ Written(row, row.flags, {"is_read"}, {}, {}).asked = row.asked \cup {"is_read"}
         /\ Written(row, row.flags, {"is_read"}, {}, {}).undone = row.undone \ {"is_read"}
  <1>1. row.flags \in SUBSET Flag /\ row.gone \in BOOLEAN /\ {"is_read"} \in SUBSET Flag
    BY DEF Message, Flag
  <1>2. /\ {} \in SUBSET Flag /\ (row.gone \/ "is_deleted" \in {"is_read"}) = row.gone
        /\ (row.flags \cup {"is_read"}) \ {} = row.flags \cup {"is_read"}
        /\ (row.asked \cup {"is_read"}) \ {} = row.asked \cup {"is_read"}
        /\ (row.undone \cup {}) \ ({"is_read"} \cup {}) = row.undone \ {"is_read"}
    BY <1>1
  <1>3. QED
    BY <1>1, <1>2 DEF Written, Message

\* requests keep what they know of a row but for flags that are written now
LEMMA OvertakenIs ==
  ASSUME RoomInv, NEW ids \in SUBSET Id, NEW flags \in SUBSET Flag, NEW r \in Request
  PROVE  /\ Overtaken(ids, flags)[r] \in RequestState
         /\ Overtaken(ids, flags)[r].id = request[r].id
         /\ Overtaken(ids, flags)[r].flags = request[r].flags
         /\ Overtaken(ids, flags)[r].on = request[r].on
         /\ Overtaken(ids, flags)[r].off = request[r].off
         /\ request[r].behind \subseteq Overtaken(ids, flags)[r].behind
         /\ request[r].id \in ids => flags \subseteq Overtaken(ids, flags)[r].behind
  <1>1. request[r] \in RequestState
    BY DEF RoomInv, RoomTypeOK
  <1>2. CASE request[r].id \in ids
    <2> DEFINE new == [request[r] EXCEPT !.behind = @ \cup flags]
    <2>1. Overtaken(ids, flags)[r] = new
      BY <1>2 DEF Overtaken
    <2>2. /\ new \in RequestState /\ new.behind = request[r].behind \cup flags
          /\ new.id = request[r].id /\ new.flags = request[r].flags
          /\ new.on = request[r].on /\ new.off = request[r].off
      BY <1>1 DEF RequestState
    <2> HIDE DEF new
    <2>3. QED
      BY <2>1, <2>2
  <1>3. CASE request[r].id \notin ids
    <2>1. Overtaken(ids, flags)[r] = request[r]
      BY <1>3 DEF Overtaken
    <2>2. QED
      BY <1>1, <1>3, <2>1
  <1>4. QED
    BY <1>2, <1>3

\* a write of flags on and off to some rows, which requests other than it must learn
Wrote(ids, on, off) == \A i \in Id :
    /\ i \notin ids => messages'[i] = messages[i]
    /\ i \in ids => /\ messages'[i].asked = (messages[i].asked \cup on) \ off
                    /\ messages[i].undone \ (on \cup off) \subseteq messages'[i].undone
                    /\ messages[i].gone => messages'[i].gone

\* what a request knows stays true
LEMMA FetchedStays ==
  ASSUME RoomInv, Rewritten, NEW ids \in SUBSET Id, NEW on \in SUBSET Flag,
         NEW off \in SUBSET Flag, Wrote(ids, on, off), NEW r \in Request, Fetched(r),
         /\ request'[r].id = request[r].id /\ request'[r].flags = request[r].flags
         /\ request'[r].on = request[r].on /\ request'[r].off = request[r].off
         /\ request[r].behind \subseteq request'[r].behind
         /\ request[r].id \in ids => on \cup off \subseteq request'[r].behind
  PROVE  Fetched(r)'
  <1> DEFINE k == request[r].id
  <1>1. Id' = Id /\ k \in Id /\ k = request'[r].id
    BY RewrittenKeeps DEF Fetched
  <1>2. request[r].on \cap request[r].off = {}
    BY DEF Fetched
  <1>3. "is_deleted" \in request[r].flags => messages'[k].gone
    BY <1>1 DEF Fetched, Rewritten
  <1>4. ASSUME NEW f \in Flag \ request'[r].behind
        PROVE  f \in messages'[k].undone \/ (f \in request[r].flags <=> f \in messages'[k].asked)
    <2>1. f \in messages[k].undone \/ (f \in request[r].flags <=> f \in messages[k].asked)
      BY <1>4 DEF Fetched
    <2>2. CASE k \notin ids
      BY <1>1, <2>1, <2>2 DEF Wrote
    <2>3. CASE k \in ids
      <3>1. f \notin on \cup off
        BY <1>4, <2>3
      <3>2. /\ f \in messages'[k].asked <=> f \in messages[k].asked
            /\ f \in messages[k].undone => f \in messages'[k].undone
        BY <1>1, <2>3, <3>1 DEF Wrote
      <3>3. QED
        BY <2>1, <3>2
    <2>4. QED
      BY <2>2, <2>3
  <1> HIDE DEF k
  <1>5. QED
    BY <1>1, <1>2, <1>3, <1>4 DEF Fetched, k

\* rows that are marked as read
LEMMA MarkKeeps ==
  ASSUME RoomInv, NEW unread \in SUBSET Id, Mark(unread), UNCHANGED <<socket, inbox, unsent>>
  PROVE  RoomInv'
  <1> DEFINE read == {"is_read"}
             new(i) == Written(messages[i], messages[i].flags, read, {}, {})
  <1>1. \A i \in Id : messages[i] \in Message
    BY ElementOfSeq DEF RoomInv, RoomTypeOK, Id
  <1>2. read \in SUBSET Flag /\ {} \in SUBSET Flag /\ "is_deleted" \notin read
    BY DEF Flag
  <1>3. \A i \in Id : /\ new(i) \in Message
                      /\ new(i).flags = messages[i].flags \cup read
                      /\ new(i).gone = messages[i].gone
                      /\ new(i).asked = messages[i].asked \cup read
                      /\ new(i).undone = messages[i].undone \ read
    BY <1>1, ReadIs
  <1>4. \A i \in Id : messages'[i] = IF i \in unread THEN new(i) ELSE messages[i]
    BY DEF Mark
  <1>5. messages' \in [Id -> Message]
    <2> HIDE DEF new, read
    <2>1. messages' = [i \in Id |-> IF i \in unread THEN new(i) ELSE messages[i]]
      BY DEF Mark, new, read
    <2>2. QED
      BY <1>1, <1>3, <2>1
  <1> HIDE DEF new
  <1>6. Rewritten
    BY <1>3, <1>4, <1>5 DEF Rewritten
  <1>7. Wrote(unread, read, {})
    BY <1>3, <1>4 DEF Wrote
  <1>8. request' = Overtaken(unread, read)
    BY DEF Mark
  <1> HIDE DEF read
  <1>9. request' \in [Request -> RequestState]
    <2>1. \A r \in Request : request'[r] \in RequestState
      BY <1>2, <1>8, OvertakenIs
    <2>2. QED
      BY <1>8, <2>1 DEF Overtaken
  <1>10. ASSUME NEW r \in Request, request'[r].id # 0 PROVE Fetched(r)'
    <2>1. /\ request'[r].id = request[r].id /\ request'[r].flags = request[r].flags
          /\ request'[r].on = request[r].on /\ request'[r].off = request[r].off
          /\ request[r].behind \subseteq request'[r].behind
          /\ request[r].id \in unread => read \cup {} \subseteq request'[r].behind
      BY <1>2, <1>8, OvertakenIs
    <2>2. Fetched(r)
      BY <1>10, <2>1 DEF RoomInv
    <2>3. QED
      BY <1>2, <1>6, <1>7, <2>1, <2>2, FetchedStays
  <1>11. Id' = Id
    BY <1>6, RewrittenKeeps
  <1>12. DeletedIsGone'
    <2>1. ASSUME NEW i \in Id, "is_deleted" \in messages'[i].flags PROVE messages'[i].gone
      <3>1. "is_deleted" \in messages[i].flags
        BY <1>2, <1>3, <1>4, <2>1
      <3>2. messages[i].gone
        BY <3>1 DEF RoomInv, DeletedIsGone, Deleted
      <3>3. QED
        BY <1>6, <3>2 DEF Rewritten
    <2>2. QED
      BY <1>11, <2>1 DEF DeletedIsGone, Deleted
  <1>13. FlagsAsAsked'
    <2>1. ASSUME NEW i \in Id, NEW f \in Flag
          PROVE  f \in messages'[i].undone \/ (f \in messages'[i].flags <=> f \in messages'[i].asked)
      <3>1. f \in messages[i].undone \/ (f \in messages[i].flags <=> f \in messages[i].asked)
        BY DEF RoomInv, FlagsAsAsked
      <3>2. QED
        BY <1>3, <1>4, <3>1
    <2>2. QED
      BY <1>11, <2>1 DEF FlagsAsAsked
  <1>14. RoomTypeOK'
    BY <1>6, <1>9, RewrittenKeeps DEF RoomInv, RoomTypeOK, SocketState
  <1>15. QED
    BY <1>6, <1>10, <1>12, <1>13, <1>14, RewrittenKeeps DEF RoomInv

LEMMA FetchKeeps ==
  ASSUME RoomInv, NEW r \in Request, NEW i \in Id, NEW body \in Body, Fetch(r, i, body)
  PROVE  RoomInv'
  <1> DEFINE row == [id |-> i, flags |-> messages[i].flags, on |-> body.on, off |-> body.off,
                     behind |-> {}]
  <1>1. messages[i] \in Message /\ i \in Nat
    BY IdType, ElementOfSeq DEF RoomInv, RoomTypeOK, Id
  <1>2. row \in RequestState /\ body.on \cap body.off = {}
    BY <1>1, ChatAssumption DEF RequestState, Message
  <1>3. request' = [request EXCEPT ![r] = row] /\ UNCHANGED <<messages, socket, inbox, unsent>>
    BY DEF Fetch
  <1>4. /\ row.id = i /\ row.flags = messages[i].flags
        /\ row.on = body.on /\ row.off = body.off
    OBVIOUS
  <1> HIDE DEF row
  <1>5. /\ request' \in [Request -> RequestState] /\ request'[r] = row
        /\ \A q \in Request \ {r} : request'[q] = request[q]
    BY <1>2, <1>3 DEF RoomInv, RoomTypeOK
  <1>6. Id' = Id
    BY <1>3 DEF Id
  <1>7. Fetched(r)'
    <2>1. /\ "is_deleted" \in messages[i].flags => messages[i].gone
          /\ \A f \in Flag : f \in messages[i].undone
                             \/ (f \in messages[i].flags <=> f \in messages[i].asked)
      BY DEF RoomInv, DeletedIsGone, Deleted, FlagsAsAsked
    <2>2. QED
      BY <1>2, <1>3, <1>4, <1>5, <1>6, <2>1 DEF Fetched
  <1>8. \A q \in Request : request'[q].id # 0 => Fetched(q)'
    BY <1>3, <1>5, <1>6, <1>7 DEF RoomInv, Fetched
  <1>9. RoomTypeOK'
    BY <1>3, <1>5, <1>6 DEF RoomInv, RoomTypeOK, SocketState
  <1>10. QED
    BY <1>3, <1>6, <1>8, <1>9
       DEF RoomInv, DeletedIsGone, Deleted, FlagsAsAsked, Refers, NoGap, Coming

LEMMA SaveKeeps ==
  ASSUME RoomInv, NEW r \in Request, Save(r)
  PROVE  RoomInv'
  <1> DEFINE me == request[r]
             k == me.id
             row == Written(messages[k], me.flags, me.on, me.off, me.behind)
  <1>1. /\ me.id # 0 /\ Fetched(r) /\ k \in Id /\ me \in RequestState
        /\ me.on \in SUBSET Flag /\ me.off \in SUBSET Flag /\ me.flags \in SUBSET Flag
        /\ me.behind \in SUBSET Flag
    BY DEF Save, RoomInv, RoomTypeOK, Fetched, RequestState
  <1>2. messages[k] \in Message /\ \A i \in Id : messages[i] \in Message
    BY <1>1, ElementOfSeq DEF RoomInv, RoomTypeOK, Id
  <1>3. /\ row \in Message
        /\ row.flags = (me.flags \cup me.on) \ me.off
        /\ row.gone = (messages[k].gone \/ "is_deleted" \in me.on)
        /\ row.asked = (messages[k].asked \cup me.on) \ me.off
        /\ row.undone = (messages[k].undone \cup me.behind) \ (me.on \cup me.off)
    <2> HIDE DEF me, k
    <2> QED BY <1>1, <1>2 DEF Written, Message
  <1>4. messages' = [messages EXCEPT ![k] = row] /\ UNCHANGED <<socket, inbox, unsent>>
    BY DEF Save
  <1>5. request' = [Overtaken({k}, me.on \cup me.off) EXCEPT ![r] = NoRequest]
    BY DEF Save
  <1> HIDE DEF row
  <1>6. messages \in [Id -> Message]
    BY <1>2, LenProperties DEF RoomInv, RoomTypeOK, Id
  <1>7. /\ messages' \in [Id -> Message] /\ messages'[k] = row
        /\ \A i \in Id \ {k} : messages'[i] = messages[i]
    BY <1>1, <1>3, <1>4, <1>6
  <1>8. Rewritten
    BY <1>1, <1>3, <1>4, <1>7 DEF Rewritten
  <1>9. Wrote({k}, me.on, me.off)
    BY <1>3, <1>7 DEF Wrote
  <1>10. NoRequest \in RequestState /\ NoRequest.id = 0
    BY DEF NoRequest, RequestState
  <1>11. /\ request' \in [Request -> RequestState] /\ request'[r] = NoRequest
         /\ \A q \in Request \ {r} : request'[q] = Overtaken({k}, me.on \cup me.off)[q]
    <2> DEFINE over == Overtaken({k}, me.on \cup me.off)
    <2>1. over \in [Request -> RequestState]
      <3>1. \A q \in Request : over[q] \in RequestState
        BY <1>1, OvertakenIs
      <3>2. QED
        BY <3>1 DEF Overtaken
    <2> HIDE DEF over
    <2>2. request' = [over EXCEPT ![r] = NoRequest]
      BY <1>5 DEF over
    <2>3. /\ request' \in [Request -> RequestState] /\ request'[r] = NoRequest
          /\ \A q \in Request \ {r} : request'[q] = over[q]
      BY <1>10, <2>1, <2>2
    <2>4. QED
      BY <2>3 DEF over
  <1>12. ASSUME NEW q \in Request, request'[q].id # 0 PROVE Fetched(q)'
    <2>1. q # r /\ request'[q] = Overtaken({k}, me.on \cup me.off)[q]
      BY <1>10, <1>11, <1>12
    <2>2. /\ request'[q].id = request[q].id /\ request'[q].flags = request[q].flags
          /\ request'[q].on = request[q].on /\ request'[q].off = request[q].off
          /\ request[q].behind \subseteq request'[q].behind
          /\ request[q].id \in {k} => me.on \cup me.off \subseteq request'[q].behind
      <3>1. {k} \in SUBSET Id /\ me.on \cup me.off \in SUBSET Flag
        BY <1>1
      <3> HIDE DEF me, k
      <3>2. QED
        BY <2>1, <3>1, OvertakenIs
    <2>3. Fetched(q)
      BY <1>12, <2>2 DEF RoomInv
    <2>4. {k} \in SUBSET Id
      BY <1>1
    <2> HIDE DEF me, k
    <2>5. QED
      BY <1>1, <1>8, <1>9, <2>2, <2>3, <2>4, FetchedStays
  <1>13. Id' = Id
    BY <1>8, RewrittenKeeps
  <1>14. /\ "is_deleted" \in row.flags => row.gone
         /\ \A f \in Flag : f \in row.undone \/ (f \in row.flags <=> f \in row.asked)
    <2>1. /\ "is_deleted" \in me.flags => messages[k].gone
          /\ me.on \cap me.off = {}
          /\ \A f \in Flag \ me.behind :
               f \in messages[k].undone \/ (f \in me.flags <=> f \in messages[k].asked)
      BY <1>1 DEF Fetched
    <2> HIDE DEF me, k
    <2>2. QED
      BY <1>3, <2>1
  <1> HIDE DEF me, k
  <1>15. DeletedIsGone'
    <2>1. ASSUME NEW i \in Id, "is_deleted" \in messages'[i].flags PROVE messages'[i].gone
      BY <1>7, <1>14, <2>1 DEF RoomInv, DeletedIsGone, Deleted
    <2>2. QED
      BY <1>13, <2>1 DEF DeletedIsGone, Deleted
  <1>16. FlagsAsAsked'
    <2>1. ASSUME NEW i \in Id, NEW f \in Flag
          PROVE  f \in messages'[i].undone \/ (f \in messages'[i].flags <=> f \in messages'[i].asked)
      BY <1>7, <1>14 DEF RoomInv, FlagsAsAsked
    <2>2. QED
      BY <1>13, <2>1 DEF FlagsAsAsked
  <1>17. RoomTypeOK'
    BY <1>4, <1>8, <1>11, RewrittenKeeps DEF RoomInv, RoomTypeOK, SocketState
  <1>18. QED
    BY <1>8, <1>12, <1>15, <1>16, <1>17, RewrittenKeeps DEF RoomInv

-----------------------------------------------------------------------------
(* Chat: steps that store a row                                             *)

\* a row at the end refers to nothing and nothing refers to it
LEMMA AppendDoes ==
  ASSUME RoomInv, NEW person \in Person, NEW flags \in SUBSET Flag,
         messages' = Append(messages, NewMessage(person, flags)), UNCHANGED <<inbox, request>>
  PROVE  /\ messages' \in Seq(Message) /\ inbox' \in [Socket -> Seq(Id')]
         /\ Len(messages') \in Nat \ {0}
         /\ Id' = Id \cup {Len(messages')} /\ Len(messages') \notin Id
         /\ \A i \in Id : messages'[i] = messages[i]
         /\ DeletedIsGone' /\ FlagsAsAsked'
         /\ \A r \in Request : request'[r].id # 0 => Fetched(r)'
  <1> DEFINE new == NewMessage(person, flags)
  <1>1. /\ new \in Message /\ new.gone = ("is_deleted" \in new.flags)
        /\ new.asked = new.flags
    BY DEF NewMessage, Message
  <1>2. messages \in Seq(Message) /\ Len(messages) \in Nat
    BY IdType DEF RoomInv, RoomTypeOK
  <1> HIDE DEF new
  <1>3. /\ messages' \in Seq(Message) /\ Len(messages') = Len(messages) + 1
        /\ \A i \in 1 .. Len(messages) : messages'[i] = messages[i]
        /\ messages'[Len(messages) + 1] = new
    BY <1>1, <1>2, AppendProperties DEF new
  <1>4. Id' = Id \cup {Len(messages')} /\ Len(messages') \notin Id /\ Len(messages') \in Nat \ {0}
    BY <1>2, <1>3 DEF Id
  <1>5. \A i \in Id : messages'[i] = messages[i]
    BY <1>3 DEF Id
  <1>6. inbox' \in [Socket -> Seq(Id')]
    <2>1. inbox \in [Socket -> Seq(Id)] /\ inbox' = inbox
      BY DEF RoomInv, RoomTypeOK
    <2>2. Seq(Id) \subseteq Seq(Id')
      BY <1>4, SeqMonotonic
    <2>3. QED
      BY <2>1, <2>2
  <1>7. ASSUME NEW i \in Id'
        PROVE  /\ "is_deleted" \in messages'[i].flags => messages'[i].gone
               /\ \A f \in Flag : f \in messages'[i].undone
                                  \/ (f \in messages'[i].flags <=> f \in messages'[i].asked)
    <2>1. CASE i \in Id
      BY <1>5, <2>1 DEF DeletedIsGone, Deleted, FlagsAsAsked, RoomInv
    <2>2. CASE i = Len(messages')
      <3>1. messages'[i] = new
        BY <1>3, <2>2
      <3>2. QED
        BY <1>1, <3>1
    <2>3. QED
      BY <1>4, <1>7, <2>1, <2>2
  <1>8. DeletedIsGone' /\ FlagsAsAsked'
    BY <1>7 DEF DeletedIsGone, Deleted, FlagsAsAsked
  <1>9. \A r \in Request : request'[r].id # 0 => Fetched(r)'
    BY <1>4, <1>5 DEF RoomInv, Fetched
  <1>10. QED
    BY <1>3, <1>4, <1>5, <1>6, <1>7, <1>8, <1>9

\* a socket goes on to another handler
LEMMA HandlerChanges ==
  ASSUME socket \in [Socket -> SocketState], NEW c \in Socket, NEW p, NEW n,
         socket' = [socket EXCEPT ![c].pc = p, ![c].id = n]
  PROVE  socket' = [socket EXCEPT ![c] = [pc |-> p, id |-> n, shown |-> socket[c].shown,
                                          oldest |-> socket[c].oldest]]
  <1> DEFINE mid == [socket[c] EXCEPT !.pc = p]
             row == [pc |-> p, id |-> n, shown |-> socket[c].shown, oldest |-> socket[c].oldest]
  <1>1. socket[c] \in SocketState
    OBVIOUS
  <1>2. mid = [pc |-> p, id |-> socket[c].id, shown |-> socket[c].shown,
               oldest |-> socket[c].oldest]
    BY <1>1 DEF SocketState
  <1>3. [mid EXCEPT !.id = n] = row
    <2>1. mid \in [pc : {p}, id : Nat, shown : SUBSET Id, oldest : Nat]
      BY <1>1, <1>2 DEF SocketState
    <2>2. mid.pc = p /\ mid.shown = socket[c].shown /\ mid.oldest = socket[c].oldest
      BY <1>2
    <2> HIDE DEF mid
    <2>3. QED
      BY <2>1, <2>2
  <1>4. socket' = [[socket EXCEPT ![c] = mid] EXCEPT ![c].id = n]
    OBVIOUS
  <1> HIDE DEF mid, row
  <1>5. [socket EXCEPT ![c] = mid][c] = mid
    OBVIOUS
  <1>6. socket' = [[socket EXCEPT ![c] = mid] EXCEPT ![c] = row]
    BY <1>3, <1>4, <1>5
  <1>7. QED
    BY <1>6 DEF row

LEMMA SendKeeps ==
  ASSUME RoomInv, NEW c \in Socket, SendMessage(c)
  PROVE  RoomInv'
  <1> DEFINE new == Len(messages')
  <1>1. /\ socket[c].pc = "open" /\ messages' = Append(messages, NewMessage(Side[c], {}))
        /\ socket' = [socket EXCEPT ![c].pc = "created", ![c].id = new]
        /\ UNCHANGED <<inbox, request, unsent>>
    BY DEF SendMessage
  <1>2. Side[c] \in Person /\ {} \in SUBSET Flag
    BY ChatAssumption DEF Person
  <1>3. /\ messages' \in Seq(Message) /\ inbox' \in [Socket -> Seq(Id')] /\ new \in Nat \ {0}
        /\ Id' = Id \cup {new} /\ new \notin Id
        /\ \A i \in Id : messages'[i] = messages[i]
        /\ DeletedIsGone' /\ FlagsAsAsked' /\ \A r \in Request : request'[r].id # 0 => Fetched(r)'
    BY <1>1, <1>2, AppendDoes
  <1>4. /\ socket \in [Socket -> SocketState]
        /\ \A d \in Socket : /\ socket[d].pc \in {"closed", "joined", "open", "created"}
                             /\ socket[d].id \in Nat /\ socket[d].shown \subseteq Id
                             /\ socket[d].oldest \in Nat
    BY DEF RoomInv, RoomTypeOK, SocketState
  <1> HIDE DEF new
  <1> DEFINE row == [pc |-> "created", id |-> new, shown |-> socket[c].shown,
                     oldest |-> socket[c].oldest]
  <1>5. socket' = [socket EXCEPT ![c] = row]
    BY <1>1, <1>4, HandlerChanges
  <1>6. /\ row.pc = "created" /\ row.id = new
        /\ row.shown = socket[c].shown /\ row.oldest = socket[c].oldest
    OBVIOUS
  <1>7. row \in SocketState'
    BY <1>3, <1>4 DEF SocketState
  <1>8. SocketState \subseteq SocketState'
    BY <1>3 DEF SocketState
  <1> HIDE DEF row
  <1>9. /\ socket' \in [Socket -> SocketState'] /\ socket'[c] = row
         /\ \A d \in Socket \ {c} : socket'[d] = socket[d]
    BY <1>4, <1>5, <1>7, <1>8
  <1>10. RoomTypeOK'
    <2>1. unsent' \subseteq Id' /\ Cardinality(unsent') <= MaxUnsent
      BY <1>1, <1>3 DEF RoomInv, RoomTypeOK
    <2>2. request' \in [Request -> RequestState]
      BY <1>1 DEF RoomInv, RoomTypeOK
    <2>3. QED
      BY <1>3, <1>9, <2>1, <2>2 DEF RoomTypeOK, RequestState, Message
  <1>11. \A d \in Socket : Refers(d)'
    BY <1>1, <1>3, <1>9, <1>6 DEF RoomInv, Refers
  <1>12. ASSUME NEW d \in Socket, socket'[d].pc \in {"open", "created"}, NEW i \in Id'
        PROVE  \/ i < socket'[d].oldest \/ i \in socket'[d].shown \/ Coming(d, i)'
               \/ i \in unsent' \/ messages'[i].gone
    <2>1. CASE i = new
      BY <1>6, <1>9, <2>1 DEF Coming
    <2>2. CASE i \in Id
      <3>1. socket[d].pc \in {"open", "created"}
        BY <1>1, <1>9, <1>12
      <3>2. socket'[d].oldest = socket[d].oldest /\ socket'[d].shown = socket[d].shown
        BY <1>6, <1>9
      <3>3. Coming(d, i) => Coming(d, i)'
        BY <1>1, <1>9 DEF Coming
      <3>4. QED
        BY <1>1, <1>3, <2>2, <3>1, <3>2, <3>3 DEF RoomInv, NoGap
    <2>3. QED
      BY <1>3, <1>12, <2>1, <2>2
  <1>13. QED
    BY <1>3, <1>10, <1>11, <1>12 DEF RoomInv, NoGap

LEMMA UploadKeeps ==
  ASSUME RoomInv, NEW person \in Person, NEW body \in Body, Upload(person, body)
  PROVE  RoomInv'
  <1> DEFINE new == Len(messages')
  <1>1. /\ Cardinality(unsent) < MaxUnsent /\ unsent' = unsent \cup {new}
        /\ messages' = Append(messages, NewMessage(person, body.on))
        /\ UNCHANGED <<socket, inbox, request>>
        /\ body.on \in SUBSET Flag
    BY ChatAssumption DEF Upload
  <1>2. /\ messages' \in Seq(Message) /\ inbox' \in [Socket -> Seq(Id')] /\ new \in Nat \ {0}
        /\ Id' = Id \cup {new} /\ new \notin Id
        /\ \A i \in Id : messages'[i] = messages[i]
        /\ DeletedIsGone' /\ FlagsAsAsked' /\ \A r \in Request : request'[r].id # 0 => Fetched(r)'
    BY <1>1, AppendDoes
  <1> HIDE DEF new
  <1>3. unsent' \subseteq Id' /\ Cardinality(unsent') <= MaxUnsent
    <2>1. unsent \subseteq Id /\ IsFiniteSet(unsent) /\ MaxUnsent \in Nat
      BY IdType, FS_Subset, ChatAssumption DEF RoomInv, RoomTypeOK
    <2>2. Cardinality(unsent) \in Nat /\ Cardinality(unsent) + 1 <= MaxUnsent
      BY <1>1, <2>1, FS_CardinalityType
    <2>3. Cardinality(unsent') <= Cardinality(unsent) + 1
      <3>1. Cardinality(unsent') = IF new \in unsent THEN Cardinality(unsent)
                                                    ELSE Cardinality(unsent) + 1
        BY <1>1, <2>1, FS_AddElement
      <3>2. QED
        BY <2>2, <3>1
    <2>4. Cardinality(unsent') \in Nat
      BY <1>1, <2>1, FS_AddElement, FS_CardinalityType
    <2>5. QED
      BY <1>1, <1>2, <2>1, <2>2, <2>3, <2>4
  <1>4. RoomTypeOK'
    <2>1. socket' \in [Socket -> SocketState']
      BY <1>1, <1>2 DEF RoomInv, RoomTypeOK, SocketState
    <2>2. request' \in [Request -> RequestState]
      BY <1>1 DEF RoomInv, RoomTypeOK
    <2>3. QED
      BY <1>2, <1>3, <2>1, <2>2 DEF RoomTypeOK, RequestState, Message
  <1>5. \A d \in Socket : Refers(d)'
    BY <1>1, <1>2 DEF RoomInv, Refers
  <1>6. ASSUME NEW d \in Socket, socket'[d].pc \in {"open", "created"}, NEW i \in Id'
        PROVE  \/ i < socket'[d].oldest \/ i \in socket'[d].shown \/ Coming(d, i)'
               \/ i \in unsent' \/ messages'[i].gone
    <2>1. CASE i = new
      BY <1>1, <2>1
    <2>2. CASE i \in Id
      <3>1. Coming(d, i) => Coming(d, i)'
        BY <1>1 DEF Coming
      <3>2. QED
        BY <1>1, <1>2, <1>6, <2>2, <3>1 DEF RoomInv, NoGap
    <2>3. QED
      BY <1>2, <1>6, <2>1, <2>2
  <1>7. QED
    BY <1>2, <1>4, <1>5, <1>6 DEF RoomInv, NoGap

-----------------------------------------------------------------------------
(* Chat: steps of one socket                                                *)

LEMMA SocketStepKeeps ==
  ASSUME RoomInv, NEW c \in Socket, UNCHANGED <<messages, request>>,
         socket' \in [Socket -> SocketState], \A d \in Socket \ {c} : socket'[d] = socket[d],
         inbox' \in [Socket -> Seq(Id)],
         unsent' \subseteq Id, Cardinality(unsent') <= MaxUnsent,
         /\ socket'[c].pc = "created" => socket'[c].id \in Id
         /\ socket'[c].oldest \in Id \cup {0}
         /\ socket'[c].pc \in {"closed", "joined"} => socket'[c].oldest = 0,
         NoGap'
  PROVE  RoomInv'
  <1>1. Id' = Id
    BY DEF Id
  <1>2. RoomTypeOK'
    BY <1>1 DEF RoomInv, RoomTypeOK, SocketState
  <1>3. \A d \in Socket : Refers(d)'
    BY <1>1 DEF RoomInv, Refers
  <1>4. /\ DeletedIsGone' /\ FlagsAsAsked'
        /\ \A r \in Request : request'[r].id # 0 => Fetched(r)'
    BY <1>1 DEF RoomInv, DeletedIsGone, Deleted, FlagsAsAsked, Fetched
  <1>5. QED
    BY <1>2, <1>3, <1>4 DEF RoomInv

LEMMA SocketType ==
  ASSUME RoomInv
  PROVE  /\ socket \in [Socket -> SocketState] /\ inbox \in [Socket -> Seq(Id)]
         /\ unsent \subseteq Id /\ Cardinality(unsent) <= MaxUnsent
         /\ \A c \in Socket :
              /\ socket[c] \in SocketState
              /\ socket[c].pc \in {"closed", "joined", "open", "created"} /\ socket[c].id \in Nat
              /\ socket[c].shown \subseteq Id /\ socket[c].oldest \in Nat
  BY DEF RoomInv, RoomTypeOK, SocketState

LEMMA ConnectKeeps ==
  ASSUME RoomInv, NEW c \in Socket, Connect(c)
  PROVE  RoomInv'
  <1> DEFINE row == [socket[c] EXCEPT !.pc = "joined"]
  <1>1. /\ socket[c].pc = "closed" /\ socket' = [socket EXCEPT ![c] = row]
        /\ UNCHANGED <<messages, inbox, request, unsent>>
    BY DEF Connect
  <1>2. row \in SocketState /\ row.pc = "joined" /\ row.oldest = socket[c].oldest
    BY SocketType DEF SocketState
  <1> HIDE DEF row
  <1>3. /\ socket' \in [Socket -> SocketState] /\ socket'[c] = row
        /\ \A d \in Socket \ {c} : socket'[d] = socket[d]
    BY <1>1, <1>2, SocketType
  <1>4. socket'[c].oldest = 0
    BY <1>1, <1>2, <1>3 DEF RoomInv, Refers
  <1>5. NoGap'
    <2>1. ASSUME NEW d \in Socket, socket'[d].pc \in {"open", "created"}, NEW i \in Id
          PROVE  \/ i < socket'[d].oldest \/ i \in socket'[d].shown \/ Coming(d, i)'
                 \/ i \in unsent' \/ messages'[i].gone
      <3>1. d # c
        BY <1>2, <1>3, <2>1
      <3>2. Coming(d, i) => Coming(d, i)'
        BY <1>1, <1>3 DEF Coming
      <3>3. QED
        BY <1>1, <1>3, <2>1, <3>1, <3>2 DEF RoomInv, NoGap
    <2>2. QED
      BY <1>1, <2>1 DEF NoGap, Id
  <1>6. QED
    BY <1>1, <1>2, <1>3, <1>4, <1>5, SocketType, SocketStepKeeps

\* history: a page of all messages, or of those before the oldest one shown
LEMMA ShowKeeps ==
  ASSUME RoomInv, NEW c \in Socket, NEW ids \in SUBSET Id, Show(c, Newest(ids)),
         UNCHANGED <<messages, inbox, request, unsent>>,
         \/ socket[c].pc = "joined" /\ ids = Id
         \/ socket[c].pc = "open" /\ socket[c].oldest # 0 /\ ids = 1 .. socket[c].oldest - 1
  PROVE  RoomInv'
  <1> DEFINE page == Newest(ids)
             old == IF page = {} THEN socket[c].oldest ELSE Least(page)
             row == [pc |-> "open", id |-> socket[c].id, shown |-> socket[c].shown \cup page,
                     oldest |-> old]
  <1>1. /\ page \subseteq ids
        /\ page = {} => \A i \in ids : Deleted(i)
        /\ page # {} => /\ Least(page) \in ids
                        /\ \A i \in ids : \/ i < Least(page) \/ i \in page \/ Deleted(i)
    BY PageIsWhole DEF RoomInv
  <1>2. /\ Id \subseteq Nat \ {0} /\ socket[c] \in SocketState /\ socket[c].id \in Nat
        /\ socket[c].shown \subseteq Id /\ socket[c].oldest \in Id \cup {0}
    BY IdType, SocketType DEF RoomInv, Refers
  <1> HIDE DEF page
  <1>3. old \in Id \cup {0} /\ old \in Nat
    <2>1. page # {} => Least(page) \in Id
      BY <1>1
    <2>2. 0 \in Nat
      OBVIOUS
    <2>3. old \in Id \cup {0}
      BY <1>2, <2>1
    <2> HIDE DEF old
    <2>4. QED
      BY <1>2, <2>2, <2>3
  <1>4. socket' = [socket EXCEPT ![c] = row]
    <2> DEFINE opened == [socket[c] EXCEPT !.pc = "open"]
               grown == [opened EXCEPT !.shown = socket[c].shown \cup page]
    <2>1. /\ opened \in SocketState /\ opened.pc = "open" /\ opened.id = socket[c].id
          /\ opened.shown = socket[c].shown /\ opened.oldest = socket[c].oldest
      BY <1>2 DEF SocketState
    <2>2. socket' = [[[socket EXCEPT ![c] = opened] EXCEPT ![c].shown = @ \cup page]
                       EXCEPT ![c].oldest = IF page = {} THEN @ ELSE Least(page)]
      BY DEF Show, page
    <2> HIDE DEF opened
    <2>3. /\ grown \in SocketState /\ grown.pc = "open" /\ grown.id = socket[c].id
          /\ grown.shown = socket[c].shown \cup page /\ grown.oldest = socket[c].oldest
      BY <1>1, <1>2, <2>1 DEF SocketState
    <2> HIDE DEF grown
    <2>4. [socket EXCEPT ![c] = opened][c] = opened
      BY SocketType
    <2>5. [[socket EXCEPT ![c] = opened] EXCEPT ![c].shown = @ \cup page]
            = [socket EXCEPT ![c] = grown]
      BY SocketType, <2>1, <2>4 DEF grown
    <2>6. [socket EXCEPT ![c] = grown][c] = grown
      BY SocketType
    <2>7. [grown EXCEPT !.oldest = old] = row
      <3>1. grown \in SocketState /\ old \in Nat
        BY <1>3, <2>3
      <3> HIDE DEF old
      <3>2. [grown EXCEPT !.oldest = old]
              = [pc |-> grown.pc, id |-> grown.id, shown |-> grown.shown, oldest |-> old]
        BY <3>1 DEF SocketState
      <3>3. QED
        BY <2>3, <3>2
    <2>8. socket' = [[socket EXCEPT ![c] = grown]
                       EXCEPT ![c].oldest = IF page = {} THEN @ ELSE Least(page)]
      BY <2>2, <2>5
    <2> HIDE DEF row
    <2>9. socket' = [socket EXCEPT ![c] = [grown EXCEPT !.oldest = old]]
      BY SocketType, <2>3, <2>6, <2>8
    <2>10. QED
      BY <2>7, <2>9
  <1>5. row \in SocketState /\ row.pc = "open" /\ row.oldest = old
        /\ row.shown = socket[c].shown \cup page
    BY <1>1, <1>2, <1>3 DEF SocketState
  <1> HIDE DEF row
  <1>6. /\ socket' \in [Socket -> SocketState] /\ socket'[c] = row
        /\ \A d \in Socket \ {c} : socket'[d] = socket[d]
    BY <1>4, <1>5, SocketType
  <1>7. \A d \in Socket, i \in Id : Coming(d, i) => Coming(d, i)'
    BY <1>6 DEF Coming
  <1>8. ASSUME NEW i \in Id
        PROVE  \/ i < old \/ i \in row.shown \/ Coming(c, i)'
               \/ i \in unsent' \/ messages'[i].gone
    <2>1. Deleted(i) => messages'[i].gone
      BY DEF RoomInv, DeletedIsGone
    <2>2. CASE i \in ids
      <3>1. CASE page = {}
        BY <1>1, <2>1, <2>2, <3>1
      <3>2. CASE page # {}
        BY <1>1, <1>5, <2>1, <2>2, <3>2
      <3>3. QED
        BY <3>1, <3>2
    <2>3. CASE i \notin ids
      <3>1. socket[c].pc = "open" /\ ids = 1 .. socket[c].oldest - 1
        BY <2>3
      <3>2. ~(i < socket[c].oldest)
        <4>1. i \in Nat \ {0}
          BY <1>2
        <4>2. socket[c].oldest \in Nat
          <5>1. CASE socket[c].oldest = 0
            BY <5>1
          <5>2. CASE socket[c].oldest \in Id
            BY <1>2, <5>2
          <5>3. QED
            BY <1>2, <5>1, <5>2
        <4>3. i < socket[c].oldest => i \in ids
          BY <3>1, <4>1, <4>2
        <4>4. QED
          BY <2>3, <4>3
      <3>3. i \in socket[c].shown \/ Coming(c, i) \/ i \in unsent \/ messages[i].gone
        BY <3>1, <3>2 DEF RoomInv, NoGap
      <3>4. QED
        BY <1>5, <1>7, <3>3
    <2>4. QED
      BY <2>2, <2>3
  <1>9. ASSUME NEW d \in Socket \ {c}, socket'[d].pc \in {"open", "created"}, NEW i \in Id
        PROVE  \/ i < socket'[d].oldest \/ i \in socket'[d].shown \/ Coming(d, i)'
               \/ i \in unsent' \/ messages'[i].gone
    BY <1>6, <1>7, <1>9 DEF RoomInv, NoGap
  <1>10. NoGap'
    <2>1. Id' = Id
      BY DEF Id
    <2> HIDE DEF old
    <2>2. QED
      BY <1>5, <1>6, <1>8, <1>9, <2>1 DEF NoGap
  <1>11. QED
    <2> HIDE DEF old
    <2> QED BY <1>3, <1>5, <1>6, <1>10, SocketType, SocketStepKeeps

LEMMA HistoryKeeps ==
  ASSUME RoomInv, NEW c \in Socket, History(c)
  PROVE  RoomInv'
  BY ShowKeeps DEF History

LEMMA LoadMoreKeeps ==
  ASSUME RoomInv, NEW c \in Socket, LoadMore(c)
  PROVE  RoomInv'
  <1> DEFINE ids == 1 .. socket[c].oldest - 1
  <1>1. socket[c].oldest \in Id \cup {0} /\ Len(messages) \in Nat
    BY IdType DEF RoomInv, Refers
  <1>2. ids \subseteq Id
    BY <1>1 DEF Id
  <1>3. /\ socket[c].pc = "open" /\ socket[c].oldest # 0 /\ Show(c, Newest(ids))
        /\ UNCHANGED <<messages, inbox, request, unsent>>
    BY DEF LoadMore
  <1>4. socket[c].pc = "open" /\ socket[c].oldest # 0 /\ ids = 1 .. socket[c].oldest - 1
    BY <1>3
  <1> HIDE DEF ids
  <1>5. QED
    BY <1>2, <1>3, <1>4, ShowKeeps

LEMMA PushKeeps ==
  ASSUME RoomInv, NEW c \in Socket, Push(c)
  PROVE  RoomInv'
  <1> DEFINE sent == socket[c].id
             row == [pc |-> "open", id |-> 0, shown |-> socket[c].shown,
                     oldest |-> socket[c].oldest]
  <1>1. /\ socket[c].pc = "created"
        /\ inbox' = [d \in Socket |-> IF d \in Members THEN Append(inbox[d], sent) ELSE inbox[d]]
        /\ UNCHANGED <<messages, request, unsent>>
    BY DEF Push
  <1>2. socket' = [socket EXCEPT ![c] = row]
    BY SocketType, HandlerChanges DEF Push
  <1>3. /\ row \in SocketState /\ row.pc = "open" /\ row.shown = socket[c].shown
        /\ row.oldest = socket[c].oldest
    BY SocketType DEF SocketState
  <1>4. sent \in Id /\ socket[c].oldest \in Id \cup {0}
    BY <1>1 DEF RoomInv, Refers
  <1> HIDE DEF row, sent
  <1>5. /\ socket' \in [Socket -> SocketState] /\ socket'[c] = row
        /\ \A d \in Socket \ {c} : socket'[d] = socket[d]
    BY <1>2, <1>3, SocketType
  <1>6. \A d \in Socket : /\ inbox[d] \in Seq(Id) /\ Len(inbox[d]) \in Nat
                          /\ Append(inbox[d], sent) \in Seq(Id)
                          /\ Len(Append(inbox[d], sent)) = Len(inbox[d]) + 1
                          /\ \A n \in 1 .. Len(inbox[d]) : Append(inbox[d], sent)[n] = inbox[d][n]
                          /\ Append(inbox[d], sent)[Len(inbox[d]) + 1] = sent
    BY <1>4, SocketType, AppendProperties, LenProperties
  <1>7. inbox' \in [Socket -> Seq(Id)]
    BY <1>1, <1>6
  <1>8. ASSUME NEW d \in Socket, socket'[d].pc \in {"open", "created"}, NEW i \in Id, Coming(d, i)
        PROVE  Coming(d, i)'
    <2>1. d \in Members
      BY <1>1, <1>5, <1>8 DEF Members
    <2>2. inbox'[d] = Append(inbox[d], sent) /\ Len(inbox'[d]) = Len(inbox[d]) + 1
      BY <1>1, <1>6, <2>1
    <2>3. CASE \E n \in 1 .. Len(inbox[d]) : inbox[d][n] = i
      <3>1. PICK n \in 1 .. Len(inbox[d]) : inbox[d][n] = i
        BY <2>3
      <3>2. n \in 1 .. Len(inbox'[d]) /\ inbox'[d][n] = i
        BY <1>6, <2>2, <3>1
      <3>3. QED
        BY <3>2 DEF Coming
    <2>4. CASE i = sent
      <3>1. Len(inbox'[d]) \in 1 .. Len(inbox'[d]) /\ inbox'[d][Len(inbox'[d])] = i
        BY <1>6, <2>2, <2>4
      <3>2. QED
        BY <3>1 DEF Coming
    <2>5. CASE \E e \in Socket : e # c /\ socket[e].pc = "created" /\ socket[e].id = i
      BY <1>5, <2>5 DEF Coming
    <2>6. QED
      BY <1>8, <2>3, <2>4, <2>5 DEF Coming, sent
  <1>9. NoGap'
    <2>1. ASSUME NEW d \in Socket, socket'[d].pc \in {"open", "created"}, NEW i \in Id
          PROVE  \/ i < socket'[d].oldest \/ i \in socket'[d].shown \/ Coming(d, i)'
                 \/ i \in unsent' \/ messages'[i].gone
      <3>1. socket[d].pc \in {"open", "created"}
        BY <1>1, <1>5, <2>1
      <3>2. socket'[d].oldest = socket[d].oldest /\ socket'[d].shown = socket[d].shown
        BY <1>3, <1>5
      <3>3. QED
        BY <1>1, <1>8, <2>1, <3>1, <3>2 DEF RoomInv, NoGap
    <2>2. QED
      BY <1>1, <2>1 DEF NoGap, Id
  <1>10. QED
    BY <1>1, <1>3, <1>4, <1>5, <1>7, <1>9, SocketType, SocketStepKeeps

LEMMA ReceiveKeeps ==
  ASSUME RoomInv, NEW c \in Socket, Receive(c)
  PROVE  RoomInv'
  <1> DEFINE row == [socket[c] EXCEPT !.shown = socket[c].shown \cup {Head(inbox[c])}]
  <1>1. /\ socket[c].pc = "open" /\ inbox[c] # <<>>
        /\ socket' = [socket EXCEPT ![c] = row] /\ inbox' = [inbox EXCEPT ![c] = Tail(inbox[c])]
        /\ UNCHANGED <<messages, request, unsent>>
    BY DEF Receive
  <1>2. /\ inbox[c] \in Seq(Id) /\ Len(inbox[c]) \in Nat \ {0}
        /\ Head(inbox[c]) \in Id /\ Tail(inbox[c]) \in Seq(Id)
        /\ Head(inbox[c]) = inbox[c][1] /\ Len(Tail(inbox[c])) = Len(inbox[c]) - 1
        /\ \A n \in 1 .. Len(Tail(inbox[c])) : Tail(inbox[c])[n] = inbox[c][n + 1]
    BY <1>1, SocketType, HeadTailProperties, EmptySeq, LenProperties
  <1>3. /\ row \in SocketState /\ row.pc = socket[c].pc /\ row.id = socket[c].id
        /\ row.oldest = socket[c].oldest /\ row.shown = socket[c].shown \cup {Head(inbox[c])}
    BY <1>2, SocketType DEF SocketState
  <1> HIDE DEF row
  <1>4. /\ socket' \in [Socket -> SocketState] /\ socket'[c] = row
        /\ \A d \in Socket \ {c} : socket'[d] = socket[d]
    BY <1>1, <1>3, SocketType
  <1>5. /\ inbox' \in [Socket -> Seq(Id)] /\ inbox'[c] = Tail(inbox[c])
        /\ \A d \in Socket \ {c} : inbox'[d] = inbox[d]
    BY <1>1, <1>2, SocketType
  <1>6. ASSUME NEW d \in Socket, NEW i \in Id, Coming(d, i)
        PROVE  Coming(d, i)' \/ (d = c /\ i = Head(inbox[c]))
    <2>1. CASE \E e \in Socket : socket[e].pc = "created" /\ socket[e].id = i
      <3>1. PICK e \in Socket : socket[e].pc = "created" /\ socket[e].id = i
        BY <2>1
      <3>2. socket'[e].pc = "created" /\ socket'[e].id = i
        BY <1>1, <1>4, <3>1
      <3>3. QED
        BY <3>2 DEF Coming
    <2>2. CASE \E n \in 1 .. Len(inbox[d]) : inbox[d][n] = i
      <3>1. PICK n \in 1 .. Len(inbox[d]) : inbox[d][n] = i
        BY <2>2
      <3>2. CASE d # c
        <4>1. inbox'[d] = inbox[d]
          BY <1>5, <3>2
        <4>2. n \in 1 .. Len(inbox'[d]) /\ inbox'[d][n] = i
          BY <3>1, <4>1
        <4>3. QED
          BY <4>2 DEF Coming
      <3>3. CASE d = c /\ n = 1
        BY <1>2, <3>1, <3>3
      <3>4. CASE d = c /\ n # 1
        <4>1. n - 1 \in 1 .. Len(Tail(inbox[c])) /\ (n - 1) + 1 = n
          BY <1>2, <3>1, <3>4
        <4>2. inbox'[d][n - 1] = i
          BY <1>2, <1>5, <3>1, <3>4, <4>1
        <4>3. QED
          <5>1. n - 1 \in 1 .. Len(inbox'[d])
            BY <1>5, <3>4, <4>1
          <5>2. QED
            BY <4>2, <5>1 DEF Coming
      <3>5. QED
        BY <3>2, <3>3, <3>4
    <2>3. QED
      BY <1>6, <2>1, <2>2 DEF Coming
  <1>7. NoGap'
    <2>1. ASSUME NEW d \in Socket, socket'[d].pc \in {"open", "created"}, NEW i \in Id
          PROVE  \/ i < socket'[d].oldest \/ i \in socket'[d].shown \/ Coming(d, i)'
                 \/ i \in unsent' \/ messages'[i].gone
      <3>1. socket[d].pc \in {"open", "created"} /\ socket'[d].oldest = socket[d].oldest
        BY <1>3, <1>4, <2>1
      <3>2. \/ i < socket[d].oldest \/ i \in socket[d].shown \/ Coming(d, i)
            \/ i \in unsent \/ messages[i].gone
        BY <2>1, <3>1 DEF RoomInv, NoGap
      <3>3. /\ i \in socket[d].shown => i \in socket'[d].shown
            /\ d = c /\ i = Head(inbox[c]) => i \in socket'[d].shown
        BY <1>3, <1>4
      <3>4. QED
        BY <1>1, <1>6, <3>1, <3>2, <3>3
    <2>2. QED
      BY <1>1, <2>1 DEF NoGap, Id
  <1>8. QED
    <2>1. /\ socket'[c].pc = "open" /\ socket'[c].oldest \in Id \cup {0}
      BY <1>1, <1>3, <1>4 DEF RoomInv, Refers
    <2>2. QED
      BY <1>1, <1>4, <1>5, <1>7, <2>1, SocketType, SocketStepKeeps

LEMMA DisconnectKeeps ==
  ASSUME RoomInv, NEW c \in Socket, Disconnect(c)
  PROVE  RoomInv'
  <1>1. /\ unsent' = unsent \cup (IF socket[c].pc = "created" THEN {socket[c].id} ELSE {})
        /\ Cardinality(unsent') <= MaxUnsent
        /\ socket' = [socket EXCEPT ![c] = Closed] /\ inbox' = [inbox EXCEPT ![c] = <<>>]
        /\ UNCHANGED <<messages, request>>
    BY DEF Disconnect
  <1>2. Closed \in SocketState /\ Closed.pc = "closed" /\ Closed.oldest = 0
    BY DEF Closed, SocketState
  <1>3. /\ socket' \in [Socket -> SocketState] /\ socket'[c] = Closed
        /\ \A d \in Socket \ {c} : socket'[d] = socket[d]
    BY <1>1, <1>2, SocketType
  <1>4. <<>> \in Seq(Id)
    BY EmptySeq
  <1>5. inbox' \in [Socket -> Seq(Id)] /\ \A d \in Socket \ {c} : inbox'[d] = inbox[d]
    BY <1>1, <1>4, SocketType
  <1>6. unsent' \subseteq Id
    <2>1. socket[c].pc = "created" => socket[c].id \in Id
      BY DEF RoomInv, Refers
    <2>2. QED
      BY <1>1, <2>1, SocketType
  <1>7. NoGap'
    <2>1. ASSUME NEW d \in Socket, socket'[d].pc \in {"open", "created"}, NEW i \in Id
          PROVE  \/ i < socket'[d].oldest \/ i \in socket'[d].shown \/ Coming(d, i)'
                 \/ i \in unsent' \/ messages'[i].gone
      <3>1. d # c
        BY <1>2, <1>3, <2>1
      <3>2. \/ i < socket[d].oldest \/ i \in socket[d].shown \/ Coming(d, i)
            \/ i \in unsent \/ messages[i].gone
        BY <1>3, <2>1, <3>1 DEF RoomInv, NoGap
      <3>3. Coming(d, i) => Coming(d, i)' \/ i \in unsent'
        BY <1>1, <1>3, <1>5, <3>1 DEF Coming
      <3>4. QED
        BY <1>1, <1>3, <3>1, <3>2, <3>3
    <2>2. QED
      BY <1>1, <2>1 DEF NoGap, Id
  <1>8. QED
    BY <1>1, <1>2, <1>3, <1>5, <1>6, <1>7, SocketStepKeeps

-----------------------------------------------------------------------------
(* Chat: theorems                                                           *)

LEMMA MarkReadKeeps ==
  ASSUME RoomInv, NEW c \in Socket, MarkRead(c)
  PROVE  RoomInv'
  <1> DEFINE unread == {i \in Id : messages[i].sender # Side[c]
                                   /\ "is_read" \notin messages[i].flags}
  <1>1. Mark(unread) /\ UNCHANGED <<socket, inbox, unsent>> /\ unread \in SUBSET Id
    BY DEF MarkRead
  <1> HIDE DEF unread
  <1>2. QED
    BY <1>1, MarkKeeps

LEMMA MarkRoomKeeps ==
  ASSUME RoomInv, MarkRoomRead
  PROVE  RoomInv'
  <1> DEFINE unread == {i \in Id : "is_read" \notin messages[i].flags}
  <1>1. Mark(unread) /\ UNCHANGED <<socket, inbox, unsent>> /\ unread \in SUBSET Id
    BY DEF MarkRoomRead
  <1> HIDE DEF unread
  <1>2. QED
    BY <1>1, MarkKeeps

LEMMA RoomInitHolds == RoomInit => RoomInv
  <1> SUFFICES ASSUME RoomInit PROVE RoomInv
    OBVIOUS
  <1>1. Id = {} /\ messages \in Seq(Message) /\ messages = <<>>
    BY EmptySeq DEF RoomInit, Id
  <1>2. Closed \in SocketState /\ Closed.pc = "closed" /\ Closed.oldest = 0
    BY DEF Closed, SocketState
  <1>3. NoRequest \in RequestState /\ NoRequest.id = 0
    BY DEF NoRequest, RequestState
  <1>4. inbox \in [Socket -> Seq(Id)]
    BY EmptySeq DEF RoomInit
  <1>5. unsent \subseteq Id /\ Cardinality(unsent) <= MaxUnsent
    BY FS_EmptySet, ChatAssumption DEF RoomInit
  <1>6. RoomTypeOK
    BY <1>1, <1>2, <1>3, <1>4, <1>5 DEF RoomInit, RoomTypeOK
  <1>7. QED
    BY <1>1, <1>2, <1>3, <1>6 DEF RoomInit, RoomInv, DeletedIsGone, FlagsAsAsked, Refers, NoGap

LEMMA RoomNextKeeps == RoomInv /\ [RoomNext]_chatVars => RoomInv'
  <1> SUFFICES ASSUME RoomInv, [RoomNext]_chatVars PROVE RoomInv'
    OBVIOUS
  <1>1. ASSUME NEW c \in Socket, Connect(c) PROVE RoomInv'
    BY <1>1, ConnectKeeps
  <1>2. ASSUME NEW c \in Socket, History(c) PROVE RoomInv'
    BY <1>2, HistoryKeeps
  <1>3. ASSUME NEW c \in Socket, LoadMore(c) PROVE RoomInv'
    BY <1>3, LoadMoreKeeps
  <1>4. ASSUME NEW c \in Socket, SendMessage(c) PROVE RoomInv'
    BY <1>4, SendKeeps
  <1>5. ASSUME NEW c \in Socket, Push(c) PROVE RoomInv'
    BY <1>5, PushKeeps
  <1>6. ASSUME NEW c \in Socket, Receive(c) PROVE RoomInv'
    BY <1>6, ReceiveKeeps
  <1>7. ASSUME NEW c \in Socket, MarkRead(c) PROVE RoomInv'
    BY <1>7, MarkReadKeeps
  <1>8. ASSUME NEW c \in Socket, Disconnect(c) PROVE RoomInv'
    BY <1>8, DisconnectKeeps
  <1>9. ASSUME NEW person \in Person, NEW body \in Body, Upload(person, body) PROVE RoomInv'
    BY <1>9, UploadKeeps
  <1>10. ASSUME MarkRoomRead PROVE RoomInv'
    BY <1>10, MarkRoomKeeps
  <1>11. ASSUME NEW r \in Request, NEW i \in Id, NEW body \in Body, Fetch(r, i, body)
         PROVE  RoomInv'
    BY <1>11, FetchKeeps
  <1>12. ASSUME NEW r \in Request, Save(r) PROVE RoomInv'
    BY <1>12, SaveKeeps
  <1>13. CASE UNCHANGED chatVars
    BY <1>13 DEF chatVars, RoomInv, RoomTypeOK, SocketState, DeletedIsGone, Deleted,
                 FlagsAsAsked, Fetched, Refers, NoGap, Coming, Id
  <1>14. QED
    BY <1>1, <1>2, <1>3, <1>4, <1>5, <1>6, <1>7, <1>8, <1>9, <1>10, <1>11, <1>12, <1>13
       DEF RoomNext

\* The rows, sockets and requests of a room have their types: what is shown,
\* waits or is never pushed is always a row of the room.
THEOREM RoomTypes == RoomSpec => []RoomTypeOK
  <1>1. RoomInv => RoomTypeOK
    BY DEF RoomInv
  <1>2. QED
    BY <1>1, RoomInitHolds, RoomNextKeeps, PTL DEF RoomSpec

\* A client shows every message from the oldest one that it loaded, or the message
\* is on its way (connect, load_more and chat_message of ChatConsumer).
THEOREM NoMessageIsMissed == RoomSpec => []NoGap
  <1>1. RoomInv => NoGap
    BY DEF RoomInv
  <1>2. QED
    BY <1>1, RoomInitHolds, RoomNextKeeps, PTL DEF RoomSpec

\* A message is read and deleted as it was last asked for (mark_read, mark_as_read,
\* update, partial_update), unless a save wrote a flag back that it did not carry and
\* that was asked for after its query.
THEOREM FlagsAreAsAsked == RoomSpec => []FlagsAsAsked
  <1>1. RoomInv => FlagsAsAsked
    BY DEF RoomInv
  <1>2. QED
    BY <1>1, RoomInitHolds, RoomNextKeeps, PTL DEF RoomSpec

-----------------------------------------------------------------------------
(* Notifications: what a page has only its badge for                        *)

LEMMA CountedIsFinite ==
  ASSUME BadgeTypeOK
  PROVE  /\ Len(notes) \in Nat /\ NoteId \subseteq Nat \ {0} /\ IsFiniteSet(NoteId)
         /\ \A u \in User : IsFiniteSet(Unread(u)) /\ Cardinality(Unread(u)) \in Nat
         /\ \A c \in Client :
              /\ IsFiniteSet(Counted(c)) /\ Cardinality(Counted(c)) \in Nat
              /\ Cardinality(Counted(c)) <= Cardinality(Unread(Owner[c]))
  <1>1. Len(notes) \in Nat
    BY LenProperties DEF BadgeTypeOK
  <1>2. IsFiniteSet(NoteId)
    BY <1>1, FS_Interval DEF NoteId
  <1>3. NoteId \subseteq Nat \ {0}
    BY <1>1 DEF NoteId
  <1>4. ASSUME NEW u \in User PROVE IsFiniteSet(Unread(u)) /\ Cardinality(Unread(u)) \in Nat
    <2>1. Unread(u) \subseteq NoteId
      BY DEF Unread
    <2>2. QED
      BY <1>2, <2>1, FS_Subset, FS_CardinalityType
  <1>5. ASSUME NEW c \in Client
        PROVE  /\ IsFiniteSet(Counted(c)) /\ Cardinality(Counted(c)) \in Nat
               /\ Cardinality(Counted(c)) <= Cardinality(Unread(Owner[c]))
    <2>1. Counted(c) \subseteq Unread(Owner[c]) /\ Owner[c] \in User
      BY NotificationsAssumption DEF Counted
    <2>2. QED
      BY <1>4, <2>1, FS_Subset, FS_CardinalityType
  <1>6. QED
    BY <1>1, <1>2, <1>3, <1>4, <1>5

\* a step that leaves the badge alone and gives the page nothing more to count
LEMMA CoveredStays ==
  ASSUME BadgeTypeOK, NEW c \in Client, Covered(c), Counted(c)' \subseteq Counted(c),
         client'[c].pc \in {"open", "marked"} =>
           client[c].pc \in {"open", "marked"} /\ client'[c].badge = client[c].badge,
         client'[c].pc = "cleared" => client[c].pc = "cleared"
  PROVE  Covered(c)'
  <1>1. client[c].badge \in Nat
    BY DEF BadgeTypeOK, ClientState
  <1>2. IsFiniteSet(Counted(c)) /\ Cardinality(Counted(c)) \in Nat
    BY CountedIsFinite
  <1>3. Cardinality(Counted(c)') \in Nat /\ Cardinality(Counted(c)') <= Cardinality(Counted(c))
    BY <1>2, FS_Subset, FS_CardinalityType
  <1>4. Counted(c) = {} => Counted(c)' = {}
    OBVIOUS
  <1>5. client[c].badge >= Cardinality(Counted(c)) => client[c].badge >= Cardinality(Counted(c)')
    BY <1>1, <1>2, <1>3
  <1>6. QED
    BY <1>4, <1>5 DEF Covered

\* a fresh count covers everything
LEMMA CountCovers ==
  ASSUME BadgeTypeOK, NEW c \in Client, UNCHANGED notes, client'[c].pc = "open",
         client'[c].badge = Cardinality(Unread(Owner[c]))
  PROVE  Covered(c)'
  <1>1. Counted(c)' \subseteq Unread(Owner[c])
    BY DEF Counted, Unread, NoteId
  <1>2. Owner[c] \in User
    BY NotificationsAssumption
  <1>3. Cardinality(Unread(Owner[c])) \in Nat /\ IsFiniteSet(Unread(Owner[c]))
    BY <1>2, CountedIsFinite
  <1>4. /\ Cardinality(Counted(c)') \in Nat
        /\ Cardinality(Counted(c)') <= Cardinality(Unread(Owner[c]))
    BY <1>1, <1>3, FS_Subset, FS_CardinalityType
  <1>5. QED
    BY <1>3, <1>4 DEF Covered

LEMMA ReadShrinks ==
  ASSUME BadgeTypeOK, NEW ids, Read(ids), UNCHANGED <<queue, failed>>
  PROVE  /\ notes' \in Seq(Note) /\ NoteId' = NoteId
         /\ \A u \in User : Unread(u)' = Unread(u) \ ids
         /\ \A c \in Client : Counted(c)' \subseteq Counted(c)
  <1>1. \A i \in NoteId : notes[i] \in Note
    BY ElementOfSeq DEF BadgeTypeOK, NoteId
  <1>2. \A i \in NoteId : /\ notes'[i] \in Note /\ notes'[i].to = notes[i].to
                          /\ notes'[i].unsent = notes[i].unsent
                          /\ notes'[i].is_read = (notes[i].is_read \/ i \in ids)
    BY <1>1 DEF Read, Note
  <1>3. Len(notes) \in Nat
    BY CountedIsFinite
  <1>4. notes' \in [1 .. Len(notes) -> Note]
    BY <1>2 DEF Read, NoteId
  <1>5. notes' \in Seq(Note) /\ Len(notes') = Len(notes)
    BY <1>3, <1>4, SameLength
  <1>6. NoteId' = NoteId
    BY <1>5 DEF NoteId
  <1>7. ASSUME NEW u \in User PROVE Unread(u)' = Unread(u) \ ids
    BY <1>2, <1>6 DEF Unread
  <1>8. ASSUME NEW c \in Client PROVE Counted(c)' \subseteq Counted(c)
    <2>1. Owner[c] \in User
      BY NotificationsAssumption
    <2>2. Unread(Owner[c])' \subseteq Unread(Owner[c]) /\ Unread(Owner[c]) \subseteq NoteId
      BY <1>7, <2>1 DEF Unread
    <2>3. QED
      BY <1>2, <2>2 DEF Counted
  <1>9. QED
    BY <1>5, <1>6, <1>7, <1>8

-----------------------------------------------------------------------------
(* Notifications: steps                                                     *)

LEMMA CreateKeeps ==
  ASSUME BadgeInv, NEW to \in SUBSET User, Create(to)
  PROVE  BadgeInv'
  <1> DEFINE note == [to |-> to, is_read |-> FALSE, unsent |-> to]
  <1>1. notes' = Append(notes, note) /\ UNCHANGED <<client, queue, failed>>
    BY DEF Create
  <1>2. note \in Note /\ note.to = to /\ note.unsent = to
    BY DEF Note
  <1>3. notes \in Seq(Note) /\ Len(notes) \in Nat
    BY CountedIsFinite DEF BadgeInv, BadgeTypeOK
  <1> HIDE DEF note
  <1>4. /\ notes' \in Seq(Note) /\ Len(notes') = Len(notes) + 1
        /\ \A i \in 1 .. Len(notes) : notes'[i] = notes[i]
        /\ notes'[Len(notes')] = note
    BY <1>1, <1>2, <1>3, AppendProperties
  <1>5. NoteId' = NoteId \cup {Len(notes')} /\ \A i \in NoteId : notes'[i] = notes[i]
    BY <1>3, <1>4 DEF NoteId
  <1>6. BadgeTypeOK'
    <2>1. Seq(NoteId) \subseteq Seq(NoteId')
      BY <1>5, SeqMonotonic
    <2>2. queue' \in [Client -> Seq(NoteId')]
      BY <1>1, <2>1 DEF BadgeInv, BadgeTypeOK
    <2>3. failed' \subseteq NoteId' \X User
      BY <1>1, <1>5 DEF BadgeInv, BadgeTypeOK
    <2>4. QED
      BY <1>1, <1>4, <2>2, <2>3 DEF BadgeInv, BadgeTypeOK, Note, ClientState
  <1>7. ASSUME NEW c \in Client PROVE Covered(c)'
    <2>1. ASSUME NEW i \in Counted(c)' PROVE i \in Counted(c)
      <3>1. i \in NoteId' /\ Owner[c] \in notes'[i].to /\ Owner[c] \notin notes'[i].unsent
        BY <2>1 DEF Counted, Unread
      <3>2. i \in NoteId /\ notes'[i] = notes[i]
        BY <1>2, <1>4, <1>5, <3>1
      <3>3. QED
        BY <1>1, <2>1, <3>2 DEF Counted, Unread
    <2>2. QED
      BY <1>1, <2>1, CoveredStays DEF BadgeInv
  <1>8. QED
    BY <1>6, <1>7 DEF BadgeInv

LEMMA SendToGroupKeeps ==
  ASSUME BadgeInv, NEW i \in NoteId, NEW u \in User, NEW fails \in BOOLEAN,
         SendToGroup(i, u, fails)
  PROVE  BadgeInv'
  <1> DEFINE sent == [notes[i] EXCEPT !.unsent = @ \ {u}]
  <1>1. /\ notes' = [notes EXCEPT ![i] = sent]
        /\ queue' = [c \in Client |-> IF c \in Group(u) /\ ~fails THEN Append(queue[c], i)
                                      ELSE queue[c]]
        /\ failed' = failed \cup (IF fails THEN {<<i, u>>} ELSE {})
        /\ Cardinality(failed') <= MaxFailed
        /\ UNCHANGED client
    BY DEF SendToGroup
  <1>2. notes[i] \in Note /\ \A j \in NoteId : notes[j] \in Note
    BY ElementOfSeq DEF BadgeInv, BadgeTypeOK, NoteId
  <1>3. /\ sent \in Note /\ sent.to = notes[i].to /\ sent.is_read = notes[i].is_read
        /\ sent.unsent = notes[i].unsent \ {u}
    BY <1>2 DEF Note
  <1>4. Len(notes) \in Nat /\ notes \in [NoteId -> Note]
    BY <1>2, CountedIsFinite, LenProperties DEF BadgeInv, BadgeTypeOK, NoteId
  <1> HIDE DEF sent
  <1>5. /\ notes' \in [NoteId -> Note] /\ notes'[i] = sent
        /\ \A j \in NoteId \ {i} : notes'[j] = notes[j]
    BY <1>1, <1>3, <1>4
  <1>6. notes' \in Seq(Note) /\ NoteId' = NoteId
    <2>1. notes' \in Seq(Note) /\ Len(notes') = Len(notes)
      BY <1>4, <1>5, SameLength DEF NoteId
    <2>2. QED
      BY <2>1 DEF NoteId
  <1>7. \A c \in Client : /\ queue[c] \in Seq(NoteId) /\ Len(queue[c]) \in Nat
                          /\ Append(queue[c], i) \in Seq(NoteId)
                          /\ Len(Append(queue[c], i)) = Len(queue[c]) + 1
                          /\ \A n \in 1 .. Len(queue[c]) : Append(queue[c], i)[n] = queue[c][n]
                          /\ Append(queue[c], i)[Len(queue[c]) + 1] = i
    BY AppendProperties, LenProperties DEF BadgeInv, BadgeTypeOK
  <1>8. BadgeTypeOK'
    <2>1. queue' \in [Client -> Seq(NoteId)]
      BY <1>1, <1>7
    <2>2. failed' \subseteq NoteId \X User
      BY <1>1 DEF BadgeInv, BadgeTypeOK
    <2>3. QED
      BY <1>1, <1>6, <2>1, <2>2 DEF BadgeInv, BadgeTypeOK, Note, ClientState
  <1>9. ASSUME NEW c \in Client PROVE Covered(c)'
    <2>1. CASE client[c].pc = "closed"
      BY <1>1, <2>1 DEF Covered
    <2>2. CASE client[c].pc # "closed"
      <3>1. ASSUME NEW j \in Counted(c)' PROVE j \in Counted(c)
        <4>1. /\ j \in NoteId /\ Owner[c] \in notes'[j].to /\ ~notes'[j].is_read
              /\ Owner[c] \notin notes'[j].unsent /\ <<j, Owner[c]>> \notin failed'
              /\ \A n \in 1 .. Len(queue'[c]) : queue'[c][n] # j
          BY <1>6, <3>1 DEF Counted, Unread
        <4>2. /\ Owner[c] \in notes[j].to /\ ~notes[j].is_read /\ <<j, Owner[c]>> \notin failed
          BY <1>1, <1>3, <1>5, <4>1
        <4>3. \A n \in 1 .. Len(queue[c]) : queue[c][n] # j
          <5>1. CASE queue'[c] = queue[c]
            BY <4>1, <5>1
          <5>2. CASE queue'[c] = Append(queue[c], i)
            <6>1. \A n \in 1 .. Len(queue[c]) : n \in 1 .. Len(queue'[c])
              BY <1>7, <5>2
            <6>2. QED
              BY <1>7, <4>1, <5>2, <6>1
          <5>3. QED
            BY <1>1, <5>1, <5>2
        <4>4. Owner[c] \notin notes[j].unsent
          <5>1. CASE j # i
            BY <1>5, <4>1, <5>1
          <5>2. CASE j = i /\ Owner[c] # u
            BY <1>3, <1>5, <4>1, <5>2
          <5>3. CASE j = i /\ Owner[c] = u
            <6>1. c \in Group(u) /\ ~fails
              BY <1>1, <2>2, <4>1, <5>3 DEF Group
            <6>2. queue'[c] = Append(queue[c], i)
              BY <1>1, <6>1
            <6>3. Len(queue[c]) + 1 \in 1 .. Len(queue'[c]) /\ queue'[c][Len(queue[c]) + 1] = j
              BY <1>7, <5>3, <6>2
            <6>4. QED
              BY <4>1, <6>3
          <5>4. QED
            BY <5>1, <5>2, <5>3
        <4>5. QED
          BY <4>1, <4>2, <4>3, <4>4 DEF Counted, Unread
      <3>2. QED
        BY <1>1, <3>1, CoveredStays DEF BadgeInv
    <2>3. QED
      BY <2>1, <2>2
  <1>10. QED
    BY <1>8, <1>9 DEF BadgeInv

\* a step of one page, which may mark rows
LEMMA PageStepKeeps ==
  ASSUME BadgeInv, NEW c \in Client, NEW row \in ClientState,
         client' = [client EXCEPT ![c] = row],
         notes' \in Seq(Note), NoteId' = NoteId, UNCHANGED failed,
         queue' \in [Client -> Seq(NoteId)],
         \A d \in Client \ {c} : Counted(d)' \subseteq Counted(d),
         client'[c] = row => Covered(c)'
  PROVE  BadgeInv'
  <1>1. /\ client' \in [Client -> ClientState] /\ client'[c] = row
        /\ \A d \in Client \ {c} : client'[d] = client[d]
    BY DEF BadgeInv, BadgeTypeOK
  <1>2. BadgeTypeOK'
    BY <1>1 DEF BadgeInv, BadgeTypeOK, ClientState, Note
  <1>3. ASSUME NEW d \in Client \ {c} PROVE Covered(d)'
    BY <1>1, CoveredStays DEF BadgeInv
  <1>4. QED
    BY <1>1, <1>2, <1>3 DEF BadgeInv

LEMMA BadgeParts ==
  ASSUME BadgeInv
  PROVE  /\ BadgeTypeOK /\ notes \in Seq(Note) /\ client \in [Client -> ClientState]
         /\ queue \in [Client -> Seq(NoteId)]
         /\ \A c \in Client : /\ client[c] \in ClientState /\ client[c].badge \in Nat
                              /\ Owner[c] \in User /\ Cardinality(Unread(Owner[c])) \in Nat
  <1>1. \A c \in Client : Owner[c] \in User
    BY NotificationsAssumption
  <1>2. \A c \in Client : Cardinality(Unread(Owner[c])) \in Nat
    BY <1>1, CountedIsFinite DEF BadgeInv
  <1>3. QED
    BY <1>1, <1>2 DEF BadgeInv, BadgeTypeOK, ClientState

LEMMA JoinKeeps ==
  ASSUME BadgeInv, NEW c \in Client, Join(c)
  PROVE  BadgeInv'
  <1> DEFINE row == [client[c] EXCEPT !.pc = "joined"]
  <1>1. client' = [client EXCEPT ![c] = row] /\ UNCHANGED <<notes, queue, failed>>
    BY DEF Join
  <1>2. row \in ClientState /\ row.pc = "joined"
    BY BadgeParts DEF ClientState
  <1> HIDE DEF row
  <1>3. client'[c] = row => Covered(c)'
    BY <1>2 DEF Covered
  <1>4. \A d \in Client \ {c} : Counted(d)' \subseteq Counted(d)
    BY <1>1 DEF Counted, Unread, NoteId
  <1>5. NoteId' = NoteId
    BY <1>1 DEF NoteId
  <1>6. QED
    BY <1>1, <1>2, <1>3, <1>4, <1>5, BadgeParts, PageStepKeeps

LEMMA SendCountKeeps ==
  ASSUME BadgeInv, NEW c \in Client, SendCount(c)
  PROVE  BadgeInv'
  <1> DEFINE row == [pc |-> "open", badge |-> Cardinality(Unread(Owner[c]))]
  <1>1. client' = [client EXCEPT ![c] = row] /\ UNCHANGED <<notes, queue, failed>>
    BY DEF SendCount
  <1>2. row \in ClientState /\ row.pc = "open" /\ row.badge = Cardinality(Unread(Owner[c]))
    BY BadgeParts DEF ClientState
  <1> HIDE DEF row
  <1>3. client'[c] = row => Covered(c)'
    BY <1>1, <1>2, BadgeParts, CountCovers
  <1>4. \A d \in Client \ {c} : Counted(d)' \subseteq Counted(d)
    BY <1>1 DEF Counted, Unread, NoteId
  <1>5. NoteId' = NoteId
    BY <1>1 DEF NoteId
  <1>6. QED
    BY <1>1, <1>2, <1>3, <1>4, <1>5, BadgeParts, PageStepKeeps

LEMMA NotifyKeeps ==
  ASSUME BadgeInv, NEW c \in Client, Notify(c)
  PROVE  BadgeInv'
  <1> DEFINE row == [client[c] EXCEPT !.badge = Cardinality(Unread(Owner[c]))]
  <1>1. /\ client[c].pc = "open" /\ queue[c] # <<>>
        /\ client' = [client EXCEPT ![c] = row] /\ queue' = [queue EXCEPT ![c] = Tail(queue[c])]
        /\ UNCHANGED <<notes, failed>>
    BY DEF Notify
  <1>2. row \in ClientState /\ row.pc = "open" /\ row.badge = Cardinality(Unread(Owner[c]))
    BY <1>1, BadgeParts DEF ClientState
  <1> HIDE DEF row
  <1>3. client'[c] = row => Covered(c)'
    BY <1>1, <1>2, BadgeParts, CountCovers
  <1>4. NoteId' = NoteId
    BY <1>1 DEF NoteId
  <1>5. /\ queue' \in [Client -> Seq(NoteId)]
        /\ \A d \in Client \ {c} : queue'[d] = queue[d]
    <2>1. Tail(queue[c]) \in Seq(NoteId)
      BY <1>1, BadgeParts, HeadTailProperties
    <2>2. QED
      BY <1>1, <2>1, BadgeParts
  <1>6. \A d \in Client \ {c} : Counted(d)' \subseteq Counted(d)
    BY <1>1, <1>4, <1>5 DEF Counted, Unread
  <1>7. QED
    BY <1>1, <1>2, <1>3, <1>4, <1>5, <1>6, BadgeParts, PageStepKeeps

LEMMA MarkNoteKeeps ==
  ASSUME BadgeInv, NEW c \in Client, NEW i \in NoteId, MarkNote(c, i)
  PROVE  BadgeInv'
  <1> DEFINE row == [client[c] EXCEPT !.pc = "marked"]
  <1>1. /\ client[c].pc = "open" /\ Read({i})
        /\ client' = [client EXCEPT ![c] = row] /\ UNCHANGED <<queue, failed>>
    BY DEF MarkNote
  <1>2. row \in ClientState /\ row.pc = "marked" /\ row.badge = client[c].badge
    BY BadgeParts DEF ClientState
  <1> HIDE DEF row
  <1>3. /\ notes' \in Seq(Note) /\ NoteId' = NoteId
        /\ \A d \in Client : Counted(d)' \subseteq Counted(d)
    BY <1>1, BadgeParts, ReadShrinks
  <1>4. client'[c] = row => Covered(c)'
    BY <1>1, <1>2, <1>3, CoveredStays DEF BadgeInv
  <1>5. QED
    BY <1>1, <1>2, <1>3, <1>4, BadgeParts, PageStepKeeps

LEMMA MarkAllKeeps ==
  ASSUME BadgeInv, NEW c \in Client, MarkAll(c)
  PROVE  BadgeInv'
  <1> DEFINE row == [client[c] EXCEPT !.pc = "cleared"]
             ids == IF Owner[c] \in SuperAdmin THEN {} ELSE Unread(Owner[c])
  <1>1. /\ Read(ids) /\ client' = [client EXCEPT ![c] = row] /\ UNCHANGED <<queue, failed>>
    BY DEF MarkAll
  <1>2. row \in ClientState /\ row.pc = "cleared"
    BY BadgeParts DEF ClientState
  <1>3. Owner[c] \notin SuperAdmin => ids = Unread(Owner[c])
    OBVIOUS
  <1> HIDE DEF row, ids
  <1>4. /\ notes' \in Seq(Note) /\ NoteId' = NoteId
        /\ Unread(Owner[c])' = Unread(Owner[c]) \ ids
        /\ \A d \in Client : Counted(d)' \subseteq Counted(d)
    BY <1>1, BadgeParts, ReadShrinks
  <1>5. Counted(c)' \subseteq Unread(Owner[c])'
    BY DEF Counted
  <1>6. client'[c] = row => Covered(c)'
    BY <1>2, <1>3, <1>4, <1>5 DEF Covered
  <1>7. QED
    BY <1>1, <1>2, <1>4, <1>6, BadgeParts, PageStepKeeps

LEMMA SendZeroKeeps ==
  ASSUME BadgeInv, NEW c \in Client, SendZero(c)
  PROVE  BadgeInv'
  <1> DEFINE row == [pc |-> "open", badge |-> 0]
  <1>1. /\ client[c].pc = "cleared" /\ client' = [client EXCEPT ![c] = row]
        /\ UNCHANGED <<notes, queue, failed>>
    BY DEF SendZero
  <1>2. row \in ClientState /\ row.pc = "open" /\ row.badge = 0
    BY DEF ClientState
  <1> HIDE DEF row
  <1>3. NoteId' = NoteId
    BY <1>1 DEF NoteId
  <1>4. \A d \in Client : Counted(d)' = Counted(d)
    BY <1>1, <1>3 DEF Counted, Unread
  <1>5. client'[c] = row => Covered(c)'
    <2>1. Owner[c] \notin SuperAdmin => Counted(c)' = {}
      BY <1>1, <1>4 DEF BadgeInv, Covered
    <2>2. Owner[c] \notin SuperAdmin => Cardinality(Counted(c)') = 0
      BY <2>1, FS_EmptySet
    <2>3. QED
      BY <1>2, <2>2 DEF Covered
  <1>6. QED
    BY <1>1, <1>2, <1>3, <1>4, <1>5, BadgeParts, PageStepKeeps

LEMMA LeaveKeeps ==
  ASSUME BadgeInv, NEW c \in Client, Leave(c)
  PROVE  BadgeInv'
  <1>1. /\ client' = [client EXCEPT ![c] = Away] /\ queue' = [queue EXCEPT ![c] = <<>>]
        /\ UNCHANGED <<notes, failed>>
    BY DEF Leave
  <1>2. Away \in ClientState /\ Away.pc = "closed"
    BY DEF Away, ClientState
  <1>3. client'[c] = Away => Covered(c)'
    BY <1>2 DEF Covered
  <1>4. NoteId' = NoteId
    BY <1>1 DEF NoteId
  <1>5. /\ queue' \in [Client -> Seq(NoteId)] /\ \A d \in Client \ {c} : queue'[d] = queue[d]
    <2>1. <<>> \in Seq(NoteId)
      BY EmptySeq
    <2>2. QED
      BY <1>1, <2>1, BadgeParts
  <1>6. \A d \in Client \ {c} : Counted(d)' \subseteq Counted(d)
    BY <1>1, <1>4, <1>5 DEF Counted, Unread
  <1>7. QED
    BY <1>1, <1>2, <1>3, <1>4, <1>5, <1>6, BadgeParts, PageStepKeeps

LEMMA RestMarkReadKeeps ==
  ASSUME BadgeInv, NEW i \in NoteId, RestMarkRead(i)
  PROVE  BadgeInv'
  <1>1. Read({i}) /\ UNCHANGED <<client, queue, failed>>
    BY DEF RestMarkRead
  <1>2. /\ notes' \in Seq(Note) /\ NoteId' = NoteId
        /\ \A d \in Client : Counted(d)' \subseteq Counted(d)
    BY <1>1, BadgeParts, ReadShrinks
  <1>3. BadgeTypeOK'
    BY <1>1, <1>2 DEF BadgeInv, BadgeTypeOK, ClientState, Note
  <1>4. ASSUME NEW d \in Client PROVE Covered(d)'
    BY <1>1, <1>2, CoveredStays DEF BadgeInv
  <1>5. QED
    BY <1>3, <1>4 DEF BadgeInv

-----------------------------------------------------------------------------
(* Notifications: theorems                                                  *)

LEMMA BadgeInitHolds == BadgeInit => BadgeInv
  <1> SUFFICES ASSUME BadgeInit PROVE BadgeInv
    OBVIOUS
  <1>1. Away \in ClientState /\ Away.pc = "closed"
    BY DEF Away, ClientState
  <1>2. notes \in Seq(Note) /\ queue \in [Client -> Seq(NoteId)]
    BY EmptySeq DEF BadgeInit
  <1>3. Cardinality(failed) <= MaxFailed
    BY FS_EmptySet, NotificationsAssumption DEF BadgeInit
  <1>4. QED
    BY <1>1, <1>2, <1>3 DEF BadgeInit, BadgeInv, BadgeTypeOK, Covered

LEMMA BadgeNextKeeps == BadgeInv /\ [BadgeNext]_badgeVars => BadgeInv'
  <1> SUFFICES ASSUME BadgeInv, [BadgeNext]_badgeVars PROVE BadgeInv'
    OBVIOUS
  <1>1. ASSUME NEW to \in SUBSET User, Create(to) PROVE BadgeInv'
    BY <1>1, CreateKeeps
  <1>2. ASSUME NEW i \in NoteId, RestMarkRead(i) PROVE BadgeInv'
    BY <1>2, RestMarkReadKeeps
  <1>3. ASSUME NEW i \in NoteId, NEW u \in User, NEW fails \in BOOLEAN, SendToGroup(i, u, fails)
        PROVE  BadgeInv'
    BY <1>3, SendToGroupKeeps
  <1>4. ASSUME NEW c \in Client, Join(c) PROVE BadgeInv'
    BY <1>4, JoinKeeps
  <1>5. ASSUME NEW c \in Client, SendCount(c) PROVE BadgeInv'
    BY <1>5, SendCountKeeps
  <1>6. ASSUME NEW c \in Client, Notify(c) PROVE BadgeInv'
    BY <1>6, NotifyKeeps
  <1>7. ASSUME NEW c \in Client, MarkAll(c) PROVE BadgeInv'
    BY <1>7, MarkAllKeeps
  <1>8. ASSUME NEW c \in Client, SendZero(c) PROVE BadgeInv'
    BY <1>8, SendZeroKeeps
  <1>9. ASSUME NEW c \in Client, Leave(c) PROVE BadgeInv'
    BY <1>9, LeaveKeeps
  <1>10. ASSUME NEW c \in Client, NEW i \in NoteId, MarkNote(c, i) PROVE BadgeInv'
    BY <1>10, MarkNoteKeeps
  <1>11. CASE UNCHANGED badgeVars
    <2>1. BadgeTypeOK'
      BY <1>11 DEF badgeVars, BadgeInv, BadgeTypeOK, ClientState, Note, NoteId
    <2>2. ASSUME NEW c \in Client PROVE Counted(c)' = Counted(c)
      BY <1>11 DEF badgeVars, Counted, Unread, NoteId
    <2>3. ASSUME NEW c \in Client PROVE Covered(c)'
      BY <1>11, <2>2, CoveredStays DEF BadgeInv, badgeVars
    <2>4. QED
      BY <2>1, <2>3 DEF BadgeInv
  <1>12. QED
    BY <1>1, <1>2, <1>3, <1>4, <1>5, <1>6, <1>7, <1>8, <1>9, <1>10, <1>11 DEF BadgeNext

\* Rows, pages and what waits for them have their types: a push that waits or
\* failed is always of a stored row.
THEOREM BadgeTypes == BadgeSpec => []BadgeTypeOK
  <1>1. BadgeInv => BadgeTypeOK
    BY DEF BadgeInv
  <1>2. QED
    BY <1>1, BadgeInitHolds, BadgeNextKeeps, PTL DEF BadgeSpec

\* The badge of an open page covers every unread row whose push it has had, in
\* whatever order rows are stored, pushed, counted and read (the handlers of
\* NotificationConsumer and the signals).
THEOREM BadgeIsCovered == BadgeSpec => []BadgeCovers
  <1>1. BadgeInv => BadgeCovers
    BY DEF BadgeInv, BadgeCovers, Covered, Counted
  <1>2. QED
    BY <1>1, BadgeInitHolds, BadgeNextKeeps, PTL DEF BadgeSpec

-----------------------------------------------------------------------------
(* Induction over numbers and sets                                          *)

\* A set of naturals that is not empty has a least element: this is how the
\* proofs below do induction, by a least counterexample.
LEMMA LeastNat == ASSUME NEW S, S \subseteq Nat, S # {} PROVE \E n \in S : \A m \in S : n <= m
  <1> DEFINE R == {ss \in Nat \X Nat : ss[1] < ss[2]}
  <1>1. IsWellFoundedOn(R, Nat)
    BY NatLessThanWellFounded DEF OpToRel
  <1>2. PICK n \in S : \A m \in S : ~(<<m, n>> \in R)
    <2> HIDE DEF R
    <2> QED BY <1>1, WFMin
  <1>3. \A m \in S : ~(m < n)
    BY <1>2
  <1> QED BY <1>3

\* Induction over the positions of a sequence.
LEMMA UpTo ==
  ASSUME NEW n \in Nat, NEW Good, 0 \in Good, \A k \in 1 .. n : k - 1 \in Good => k \in Good
  PROVE  \A k \in 0 .. n : k \in Good
  <1> DEFINE Bad == {k \in Nat : k <= n /\ k \notin Good}
  <1>1. SUFFICES ASSUME Bad # {} PROVE FALSE
    <2>1. ASSUME NEW k \in 0 .. n, k \notin Good PROVE k \in Bad
      BY <2>1
    <2> HIDE DEF Bad
    <2> QED BY <2>1
  <1>2. PICK k \in Bad : \A j \in Bad : k <= j
    <2>1. Bad \subseteq Nat
      OBVIOUS
    <2> HIDE DEF Bad
    <2> QED BY <1>1, <2>1, LeastNat
  <1>3. k \in Nat /\ k <= n /\ k \notin Good /\ k # 0
    BY <1>2
  <1>4. k - 1 \in Nat /\ k - 1 <= n /\ k - 1 < k /\ k \in 1 .. n
    BY <1>3
  <1>5. k - 1 \notin Bad
    <2> HIDE DEF Bad
    <2> QED BY <1>2, <1>3, <1>4
  <1>6. k - 1 \in Good
    BY <1>4, <1>5
  <1> QED BY <1>3, <1>4, <1>6

\* Of finitely many members the one with the greatest time.
LEMMA LatestOf ==
  ASSUME NEW B \in Nat, NEW S, NEW T \in [S -> 0 .. B], S # {}
  PROVE  \E x \in S : \A y \in S : T[y] <= T[x]
  <1> DEFINE Back == {B - T[y] : y \in S}
  <1>1. Back \subseteq Nat /\ Back # {}
    OBVIOUS
  <1>2. PICK n \in Back : \A m \in Back : n <= m
    BY <1>1, LeastNat
  <1>3. PICK x \in S : n = B - T[x]
    BY <1>2
  <1>4. ASSUME NEW y \in S PROVE T[y] <= T[x]
    <2>1. B - T[y] \in Back /\ T[y] \in Int /\ T[x] \in Int
      OBVIOUS
    <2>2. n <= B - T[y]
      BY <1>2, <2>1
    <2> QED BY <1>3, <2>1, <2>2
  <1> QED BY <1>4

-----------------------------------------------------------------------------
(* Sorting                                                                  *)

Increasing(T, s, n) == \A k, l \in 1 .. n : k < l => T[s[k]] < T[s[l]]

\* A finite set whose members have times of their own can be put in order.
LEMMA SortExists ==
  ASSUME NEW B \in Nat, NEW U, IsFiniteSet(U), NEW T \in [U -> 0 .. B],
         \A x, y \in U : T[x] = T[y] => x = y
  PROVE  \A S \in SUBSET U : \E s \in [1 .. Cardinality(S) -> S] :
            Increasing(T, s, Cardinality(S))
  <1> DEFINE Sorts(S) == \E s \in [1 .. Cardinality(S) -> S] : Increasing(T, s, Cardinality(S))
             Bad == {n \in Nat : \E S \in SUBSET U : Cardinality(S) = n /\ ~Sorts(S)}
  <1>1. \A S \in SUBSET U : IsFiniteSet(S) /\ Cardinality(S) \in Nat
    BY FS_Subset, FS_CardinalityType
  <1>2. SUFFICES ASSUME Bad # {} PROVE FALSE
    <2>1. \A S \in SUBSET U : Cardinality(S) \in Nat /\ ~Sorts(S) => Cardinality(S) \in Bad
      OBVIOUS
    <2> HIDE DEF Bad
    <2> QED BY <1>1, <2>1
  <1>3. PICK n \in Bad : \A m \in Bad : n <= m
    <2>1. Bad \subseteq Nat
      OBVIOUS
    <2> HIDE DEF Bad
    <2> QED BY <1>2, <2>1, LeastNat
  <1>4. PICK S \in SUBSET U : Cardinality(S) = n /\ ~Sorts(S)
    BY <1>3
  <1>5. CASE S = {}
    <2>1. n = 0
      BY <1>4, <1>5, FS_EmptySet
    <2>2. [k \in 1 .. 0 |-> k] \in [1 .. 0 -> S] /\ Increasing(T, [k \in 1 .. 0 |-> k], 0)
      BY DEF Increasing
    <2> QED BY <1>4, <2>1, <2>2
  <1>6. CASE S # {}
    <2>1. PICK x \in S : \A y \in S : T[y] <= T[x]
      <3> DEFINE V == [y \in S |-> T[y]]
      <3>1. V \in [S -> 0 .. B] /\ \A y \in S : V[y] = T[y]
        OBVIOUS
      <3> HIDE DEF V
      <3>2. PICK x \in S : \A y \in S : V[y] <= V[x]
        BY <1>6, <3>1, LatestOf
      <3> QED BY <3>1, <3>2
    <2> DEFINE R == S \ {x}
    <2>2. Cardinality(R) = n - 1 /\ n \in Nat /\ n - 1 \in Nat
      <3>1. IsFiniteSet(S) /\ IsFiniteSet(R) /\ Cardinality(R) \in Nat
        BY <1>1
      <3>2. Cardinality(R) = Cardinality(S) - 1
        BY <3>1, FS_RemoveElement
      <3>3. n \in Nat
        BY <1>3
      <3> HIDE DEF R
      <3> QED BY <1>4, <3>1, <3>2, <3>3
    <2>3. Sorts(R)
      <3>1. ~Sorts(R) => n - 1 \in Bad
        BY <2>2
      <3> HIDE DEF Bad, Sorts
      <3> QED BY <1>3, <2>2, <3>1
    <2>4. PICK s \in [1 .. n - 1 -> R] : Increasing(T, s, n - 1)
      BY <2>2, <2>3
    <2> DEFINE u == [k \in 1 .. n |-> IF k = n THEN x ELSE s[k]]
    <2>5. u \in [1 .. n -> S]
      BY <2>2, <2>4
    <2>6. ASSUME NEW k \in 1 .. n, NEW l \in 1 .. n, k < l PROVE T[u[k]] < T[u[l]]
      <3>1. CASE l = n
        <4>1. k \in 1 .. n - 1 /\ u[k] = s[k] /\ u[l] = x /\ s[k] \in R
          BY <2>2, <2>4, <2>6, <3>1
        <4>2. T[s[k]] <= T[x] /\ T[s[k]] # T[x] /\ T[x] \in Int /\ T[s[k]] \in Int
          BY <2>1, <4>1
        <4> QED BY <4>1, <4>2
      <3>2. CASE l # n
        <4>1. k \in 1 .. n - 1 /\ l \in 1 .. n - 1 /\ u[k] = s[k] /\ u[l] = s[l]
          BY <2>2, <2>6, <3>2
        <4> QED BY <2>4, <2>6, <4>1 DEF Increasing
      <3> QED BY <3>1, <3>2
    <2>7. Increasing(T, u, n)
      BY <2>6 DEF Increasing
    <2> HIDE DEF u
    <2> QED BY <1>4, <2>5, <2>7
  <1> QED BY <1>5, <1>6

TimesUpTo(S, T, bound) == bound \in Nat /\ \A x \in S : T[x] \in 0 .. bound
Reaches(s, n, S) == \A x \in S : \E k \in 1 .. n : s[k] = x

\* It reaches every member.
LEMMA SortIsOnto ==
  ASSUME NEW S, IsFiniteSet(S), NEW T, NEW B, TimesUpTo(S, T, B),
         NEW s \in [1 .. Cardinality(S) -> S], Increasing(T, s, Cardinality(S))
  PROVE  Reaches(s, Cardinality(S), S)
  <1> DEFINE n == Cardinality(S)
  <1>1. n \in Nat /\ IsFiniteSet(1 .. n) /\ Cardinality(1 .. n) = n
    <2>1. n \in Nat
      BY FS_CardinalityType
    <2> HIDE DEF n
    <2> QED BY <2>1, FS_Interval
  <1>2. s \in Injection(1 .. n, S)
    <2>1. ASSUME NEW k \in 1 .. n, NEW l \in 1 .. n, k # l PROVE s[k] # s[l]
      <3>1. k < l \/ l < k
        BY <1>1, <2>1
      <3>2. T[s[k]] < T[s[l]] \/ T[s[l]] < T[s[k]]
        BY <3>1 DEF Increasing
      <3>3. T[s[k]] \in Int
        <4>1. s[k] \in S
          OBVIOUS
        <4> QED BY <4>1 DEF TimesUpTo
      <3> QED BY <3>2, <3>3
    <2> HIDE DEF n
    <2>2. s \in [1 .. n -> S]
      BY DEF n
    <2> QED BY <2>1, <2>2 DEF Injection, IsInjective
  <1>3. s \in Surjection(1 .. n, S)
    BY <1>1, <1>2, FS_Injection
  <1> QED BY <1>3 DEF Surjection, Reaches

\* s is S in the order of its times
Ordered(S, T, s, n) ==
    /\ s \in [1 .. n -> S] /\ Increasing(T, s, n)
    /\ \A x \in S : \E k \in 1 .. n : s[k] = x
Apart(S, T, bound) == \A x \in S :
    T[x] \in 0 .. bound /\ \A y \in S : T[x] = T[y] => x = y
Precede(S, V, T) == \A x \in S, y \in V \ S : T[x] < T[y]

\* the n members of s are the first of those of u
Begins(s, n, u, m) == n <= m /\ \A k \in 1 .. n : u[k] = s[k]

\* Two orders agree as far as the members of the first go, when those of the
\* second that the first has not are later.
LEMMA SortExtends ==
  ASSUME NEW S, NEW V, S \subseteq V, NEW B \in Nat, NEW T, Apart(V, T, B), Precede(S, V, T),
         NEW n \in Nat, NEW m \in Nat, NEW s, NEW u, Ordered(S, T, s, n), Ordered(V, T, u, m)
  PROVE  Begins(s, n, u, m)
  <1>a. /\ s \in [1 .. n -> S] /\ \A x \in S : \E k \in 1 .. n : s[k] = x
        /\ u \in [1 .. m -> V] /\ \A x \in V : \E k \in 1 .. m : u[k] = x
        /\ Increasing(T, s, n) /\ Increasing(T, u, m)
    BY DEF Ordered
  <1>b. /\ \A x \in V : T[x] \in 0 .. B
        /\ \A x, y \in V : T[x] = T[y] => x = y
        /\ \A x \in S, y \in V \ S : T[x] < T[y]
    BY DEF Apart, Precede
  <1> USE <1>a, <1>b
  <1> DEFINE Bad == {k \in Nat : k \in 1 .. n /\ ~(k \in 1 .. m /\ u[k] = s[k])}
  <1>1. ASSUME Bad = {} PROVE n <= m /\ \A k \in 1 .. n : u[k] = s[k]
    <2>1. ASSUME NEW k \in 1 .. n PROVE k \in 1 .. m /\ u[k] = s[k]
      <3>1. k \in Nat
        OBVIOUS
      <3>2. k \notin Bad
        <4> HIDE DEF Bad
        <4> QED BY <1>1
      <3> QED BY <3>1, <3>2
    <2>2. n \in 1 .. n => n \in 1 .. m
      BY <2>1
    <2> QED BY <2>1, <2>2
  <1>2. SUFFICES ASSUME Bad # {} PROVE FALSE
    BY <1>1 DEF Begins
  <1>3. PICK k \in Bad : \A l \in Bad : k <= l
    <2>1. Bad \subseteq Nat
      OBVIOUS
    <2> HIDE DEF Bad
    <2> QED BY <1>2, <2>1, LeastNat
  <1>4. k \in 1 .. n /\ s[k] \in S /\ s[k] \in V
    BY <1>3
  <1>5. \A l \in 1 .. n : l < k => l \in 1 .. m /\ u[l] = s[l]
    <2> SUFFICES ASSUME NEW l \in 1 .. n, l < k PROVE l \notin Bad
      OBVIOUS
    <2> QED BY <1>3, <1>4
  <1>6. PICK j \in 1 .. m : u[j] = s[k]
    BY <1>4
  <1>7. j >= k
    <2>1. SUFFICES ASSUME j < k PROVE FALSE
      OBVIOUS
    <2>2. j \in 1 .. n /\ u[j] = s[j]
      BY <1>4, <1>5, <2>1
    <2>3. T[s[j]] < T[s[k]]
      BY <1>4, <2>1, <2>2 DEF Increasing, Ordered
    <2>4. T[s[k]] \in Int /\ s[j] = s[k]
      BY <1>4, <1>6, <2>2
    <2> QED BY <2>3, <2>4
  <1>8. k \in 1 .. m /\ u[k] \in V
    BY <1>4, <1>7
  <1>9. T[u[k]] <= T[s[k]] /\ T[u[k]] \in Int /\ T[s[k]] \in Int
    <2>1. T[u[k]] \in Int /\ T[s[k]] \in Int
      BY <1>4, <1>8
    <2>2. CASE j = k
      BY <1>6, <2>1, <2>2
    <2>3. CASE k < j
      BY <1>6, <1>8, <2>1, <2>3 DEF Increasing, Ordered
    <2> QED BY <1>7, <1>8, <2>2, <2>3
  <1>10. u[k] \in S
    <2>1. SUFFICES ASSUME u[k] \notin S PROVE FALSE
      OBVIOUS
    <2>2. T[s[k]] < T[u[k]]
      BY <1>4, <1>8, <2>1
    <2> QED BY <1>9, <2>2
  <1>11. PICK i \in 1 .. n : s[i] = u[k]
    BY <1>10
  <1>12. i >= k
    <2>1. SUFFICES ASSUME i < k PROVE FALSE
      OBVIOUS
    <2>2. i \in 1 .. m /\ u[i] = s[i]
      BY <1>5, <2>1
    <2>3. T[u[i]] < T[u[k]]
      BY <1>8, <2>1, <2>2 DEF Increasing, Ordered
    <2> QED BY <1>9, <1>11, <2>2, <2>3
  <1>13. u[k] = s[k]
    <2>1. CASE i = k
      BY <1>11, <2>1
    <2>2. CASE k < i
      <3>1. T[s[k]] < T[s[i]]
        BY <1>4, <2>2 DEF Increasing, Ordered
      <3> QED BY <1>9, <1>11, <3>1
    <2> QED BY <1>4, <1>12, <2>1, <2>2
  <1> QED BY <1>3, <1>8, <1>13

-----------------------------------------------------------------------------
(* Folding                                                                  *)

LEMMA MaxIsIn ==
  ASSUME NEW n \in Nat, NEW T \in SUBSET (1 .. n), T # {}
  PROVE  Max(T) \in T /\ \A k \in T : k <= Max(T)
  <1> DEFINE Id1 == [k \in T |-> k]
  <1>1. Id1 \in [T -> 0 .. n] /\ \A k \in T : Id1[k] = k
    OBVIOUS
  <1> HIDE DEF Id1
  <1>2. PICK m \in T : \A k \in T : Id1[k] <= Id1[m]
    BY <1>1, LatestOf
  <1>3. \A k \in T : k <= m
    BY <1>1, <1>2
  <1> QED BY <1>3 DEF Max

LEMMA MaxOfInterval == ASSUME NEW k \in Nat \ {0} PROVE Max(1 .. k) = k
  <1>1. k \in Nat /\ k \in 1 .. k /\ 1 .. k \in SUBSET (1 .. k) /\ 1 .. k # {}
    OBVIOUS
  <1>2. Max(1 .. k) \in 1 .. k /\ \A j \in 1 .. k : j <= Max(1 .. k)
    BY <1>1, MaxIsIn
  <1>3. Max(1 .. k) \in Int /\ Max(1 .. k) <= k /\ k <= Max(1 .. k)
    BY <1>1, <1>2
  <1> QED BY <1>3

\* f is what the steps make of every set of positions: what a fold is made of
FoldOf(D, base, n, step, f) ==
    /\ f \in [SUBSET (1 .. n) -> D]
    /\ \A T \in SUBSET (1 .. n) :
          f[T] = IF T = {} THEN base ELSE step[<<f[T \ {Max(T)}], Max(T)>>]

\* f is a run of the steps along the positions, which ends in last
RunOf(D, base, n, step, f, last) ==
    /\ f \in [0 .. n -> D] /\ f[0] = base /\ f[n] = last
    /\ \A k \in 1 .. n : f[k] = step[<<f[k - 1], k>>]

\* iter unfolds into its steps along the positions
Unfolds(D, base, n, step, iter) ==
    /\ iter[{}] = base
    /\ \A k \in 1 .. n : iter[1 .. k - 1] \in D
                           => iter[1 .. k] = step[<<iter[1 .. k - 1], k>>]

LEMMA FoldExists ==
  ASSUME NEW D, NEW base \in D, NEW n \in Nat, NEW step \in [D \X (1 .. n) -> D]
  PROVE  \E f : FoldOf(D, base, n, step, f)
  <1> DEFINE Folds(m) == \E f \in [SUBSET (1 .. m) -> D] : \A T \in SUBSET (1 .. m) :
                 f[T] = IF T = {} THEN base ELSE step[<<f[T \ {Max(T)}], Max(T)>>]
             Bad == {m \in Nat : m <= n /\ ~Folds(m)}
  <1>1. SUFFICES ASSUME Bad # {} PROVE FALSE
    <2>1. ~Folds(n) => n \in Bad
      <3> HIDE DEF Folds
      <3> QED OBVIOUS
    <2>2. Folds(n)
      <3> HIDE DEF Bad, Folds
      <3> QED BY <2>1
    <2> QED BY <2>2 DEF FoldOf
  <1>2. PICK m \in Bad : \A k \in Bad : m <= k
    <2>1. Bad \subseteq Nat
      OBVIOUS
    <2> HIDE DEF Bad
    <2> QED BY <1>1, <2>1, LeastNat
  <1>3. m \in Nat /\ m <= n /\ ~Folds(m)
    BY <1>2
  <1>4. CASE m = 0
    <2> DEFINE f == [T \in SUBSET (1 .. 0) |-> base]
    <2>1. f \in [SUBSET (1 .. 0) -> D] /\ \A T \in SUBSET (1 .. 0) : T = {} /\ f[T] = base
      OBVIOUS
    <2>2. Folds(0)
      <3> HIDE DEF f
      <3> QED BY <2>1
    <2> QED BY <1>3, <1>4, <2>2
  <1>5. CASE m # 0
    <2> DEFINE l == m - 1
    <2>1. l \in Nat /\ l <= n /\ l < m /\ m \in 1 .. n /\ 1 .. l = (1 .. m) \ {m}
      BY <1>3, <1>5
    <2>2. Folds(l)
      <3>1. l \notin Bad
        <4> HIDE DEF Bad
        <4> QED BY <1>2, <1>3, <2>1
      <3> HIDE DEF l, Folds
      <3> QED BY <2>1, <3>1
    <2> HIDE DEF l
    <2>3. PICK f \in [SUBSET (1 .. l) -> D] : \A T \in SUBSET (1 .. l) :
                 f[T] = IF T = {} THEN base ELSE step[<<f[T \ {Max(T)}], Max(T)>>]
      BY <2>2
    <2> DEFINE g == [T \in SUBSET (1 .. m) |->
                       IF m \in T THEN step[<<f[T \ {m}], m>>] ELSE f[T]]
    <2>4. ASSUME NEW T \in SUBSET (1 .. m)
          PROVE  /\ T \ {m} \in SUBSET (1 .. l)
                 /\ f[T \ {m}] \in D
                 /\ g[T] \in D
                 /\ m \notin T => g[T] = f[T] /\ T \in SUBSET (1 .. l)
                 /\ m \in T => g[T] = step[<<f[T \ {m}], m>>]
      <3>1. T \ {m} \in SUBSET (1 .. l)
        BY <2>1
      <3>2. f[T \ {m}] \in D
        BY <2>3, <3>1
      <3>3. CASE m \in T
        <4>1. g[T] = step[<<f[T \ {m}], m>>]
          BY <3>3
        <4>2. <<f[T \ {m}], m>> \in D \X (1 .. n)
          BY <2>1, <3>2
        <4> HIDE DEF g
        <4> QED BY <3>1, <3>2, <3>3, <4>1, <4>2
      <3>4. CASE m \notin T
        <4>1. g[T] = f[T] /\ T = T \ {m}
          BY <3>4
        <4> HIDE DEF g
        <4> QED BY <3>1, <3>2, <3>4, <4>1
      <3> QED BY <3>3, <3>4
    <2>5. g \in [SUBSET (1 .. m) -> D]
      <3>1. \A T \in SUBSET (1 .. m) : g[T] \in D
        BY <2>4
      <3>2. g = [T \in SUBSET (1 .. m) |-> g[T]]
        OBVIOUS
      <3> HIDE DEF g
      <3> QED BY <3>1, <3>2
    <2> HIDE DEF g
    <2>6. ASSUME NEW T \in SUBSET (1 .. m)
          PROVE  g[T] = IF T = {} THEN base ELSE step[<<g[T \ {Max(T)}], Max(T)>>]
      <3>1. CASE m \in T
        <4>1. Max(T) \in T /\ \A k \in T : k <= Max(T)
          BY <1>3, <3>1, MaxIsIn
        <4>2. Max(T) = m
          <5>1. m <= Max(T) /\ Max(T) \in 1 .. m
            BY <3>1, <4>1
          <5> QED BY <1>3, <5>1
        <4>3. g[T \ {m}] = f[T \ {m}]
          <5>1. T \ {m} \in SUBSET (1 .. m) /\ m \notin T \ {m}
            OBVIOUS
          <5> QED BY <2>4, <5>1
        <4> QED BY <2>4, <3>1, <4>2, <4>3
      <3>2. CASE m \notin T
        <4>1. g[T] = f[T] /\ T \in SUBSET (1 .. l)
          BY <2>4, <3>2
        <4>2. g[T \ {Max(T)}] = f[T \ {Max(T)}]
          <5>1. T \ {Max(T)} \in SUBSET (1 .. m) /\ m \notin T \ {Max(T)}
            BY <3>2
          <5> QED BY <2>4, <5>1
        <4> QED BY <2>3, <4>1, <4>2
      <3> QED BY <3>1, <3>2
    <2>7. Folds(m)
      BY <2>5, <2>6
    <2> HIDE DEF Folds
    <2> QED BY <1>3, <2>7
  <1> QED BY <1>4, <1>5

\* Along the initial positions the fold is a run of its steps.
LEMMA FoldRuns ==
  ASSUME NEW D, NEW base \in D, NEW n \in Nat, NEW step \in [D \X (1 .. n) -> D],
         NEW iter, Unfolds(D, base, n, step, iter)
  PROVE  \E f : RunOf(D, base, n, step, f, iter[1 .. n])
  <1> DEFINE Bad == {k \in Nat : k <= n /\ iter[1 .. k] \notin D}
             f == [k \in 0 .. n |-> iter[1 .. k]]
  <1>1. iter[1 .. 0] = base
    <2>1. 1 .. 0 = {}
      OBVIOUS
    <2> QED BY <2>1 DEF Unfolds
  <1>2. ASSUME Bad # {} PROVE FALSE
    <2>1. PICK k \in Bad : \A j \in Bad : k <= j
      <3>1. Bad \subseteq Nat
        OBVIOUS
      <3> HIDE DEF Bad
      <3> QED BY <1>2, <3>1, LeastNat
    <2>2. k \in Nat /\ k <= n /\ iter[1 .. k] \notin D
      BY <2>1
    <2>3. k # 0
      BY <1>1, <2>2
    <2>4. k - 1 \in Nat /\ k - 1 <= n /\ k - 1 < k /\ k \in 1 .. n
      BY <2>2, <2>3
    <2>5. k - 1 \notin Bad
      <3> HIDE DEF Bad
      <3> QED BY <2>1, <2>2, <2>4
    <2>6. iter[1 .. k - 1] \in D
      BY <2>4, <2>5
    <2>7. iter[1 .. k] = step[<<iter[1 .. k - 1], k>>]
      BY <2>4, <2>6 DEF Unfolds
    <2> QED BY <2>2, <2>4, <2>6, <2>7
  <1>3. \A k \in 0 .. n : iter[1 .. k] \in D
    <2> SUFFICES ASSUME NEW k \in 0 .. n PROVE iter[1 .. k] \in D
      OBVIOUS
    <2>1. k \notin Bad /\ k \in Nat /\ k <= n
      <3>1. k \in Nat /\ k <= n
        OBVIOUS
      <3> HIDE DEF Bad
      <3> QED BY <1>2, <3>1
    <2> QED BY <2>1
  <1>4. f \in [0 .. n -> D] /\ f[0] = base /\ f[n] = iter[1 .. n]
    BY <1>1, <1>3
  <1>5. ASSUME NEW k \in 1 .. n PROVE f[k] = step[<<f[k - 1], k>>]
    <2>1. k \in 0 .. n /\ k - 1 \in 0 .. n
      OBVIOUS
    <2>2. f[k] = iter[1 .. k] /\ f[k - 1] = iter[1 .. k - 1] /\ iter[1 .. k - 1] \in D
      BY <1>3, <2>1
    <2> QED BY <2>2 DEF Unfolds
  <1> HIDE DEF f
  <1> QED BY <1>4, <1>5 DEF RunOf

-----------------------------------------------------------------------------
(* Sums over sets                                                           *)

Some(T) == CHOOSE x \in T : TRUE

\* f adds up h over every subset of P, in the order in which CHOOSE takes them
SumsUp(P, h, f) == \A T \in SUBSET P :
    f[T] = IF T = {} THEN 0 ELSE h[Some(T)] + f[T \ {Some(T)}]

LEMMA SmallerSet ==
  ASSUME NEW P, IsFiniteSet(P), NEW T \in SUBSET P, NEW x \in T
  PROVE  /\ T \ {x} \in SUBSET P /\ Cardinality(T) \in Nat
         /\ Cardinality(T \ {x}) = Cardinality(T) - 1 /\ Cardinality(T) # 0
  <1>1. IsFiniteSet(T)
    BY FS_Subset
  <1>2. Cardinality(T) \in Nat /\ Cardinality(T \ {x}) = Cardinality(T) - 1
    BY <1>1, FS_CardinalityType, FS_RemoveElement
  <1>3. Cardinality(T) # 0
    BY <1>1, FS_EmptySet
  <1> QED BY <1>2, <1>3

LEMMA SumExists ==
  ASSUME NEW P, IsFiniteSet(P), NEW h \in [P -> Int]
  PROVE  \E f : f \in [SUBSET P -> Int] /\ SumsUp(P, h, f)
  <1> DEFINE Small(m) == {T \in SUBSET P : Cardinality(T) <= m}
             Sum(f, m) == \A T \in Small(m) :
                 f[T] = IF T = {} THEN 0 ELSE h[Some(T)] + f[T \ {Some(T)}]
             n == Cardinality(P)
             Good == {m \in 0 .. n : \E f \in [Small(m) -> Int] : Sum(f, m)}
  <1>1. n \in Nat /\ \A T \in SUBSET P : IsFiniteSet(T) /\ Cardinality(T) \in Nat /\ Cardinality(T) <= n
    BY FS_Subset, FS_CardinalityType
  <1>2. \A T \in SUBSET P : T # {} => Some(T) \in T /\ h[Some(T)] \in Int
    BY DEF Some
  <1>3. 0 \in Good
    <2> DEFINE f == [T \in Small(0) |-> 0]
    <2>1. ASSUME NEW T \in Small(0) PROVE T = {}
      <3>1. Cardinality(T) = 0
        BY <1>1
      <3> QED BY <1>1, <3>1, FS_EmptySet
    <2>2. f \in [Small(0) -> Int] /\ Sum(f, 0)
      BY <2>1
    <2> HIDE DEF f
    <2>3. \E g \in [Small(0) -> Int] : Sum(g, 0)
      BY <2>2
    <2>4. 0 \in 0 .. n
      BY <1>1
    <2> HIDE DEF Small, n
    <2> QED BY <2>3, <2>4
  <1>4. ASSUME NEW m \in 1 .. n, m - 1 \in Good PROVE m \in Good
    <2>1. PICK f \in [Small(m - 1) -> Int] : Sum(f, m - 1)
      BY <1>4
    <2> DEFINE g == [T \in Small(m) |-> IF T \in Small(m - 1) THEN f[T]
                                          ELSE h[Some(T)] + f[T \ {Some(T)}]]
    <2>2. \A T \in Small(m) : T # {} => T \ {Some(T)} \in Small(m - 1)
      <3> SUFFICES ASSUME NEW T \in Small(m), T # {} PROVE T \ {Some(T)} \in Small(m - 1)
        OBVIOUS
      <3>1. Cardinality(T \ {Some(T)}) = Cardinality(T) - 1 /\ T \ {Some(T)} \in SUBSET P
            /\ Cardinality(T) \in Nat
        BY <1>2, SmallerSet
      <3>2. Cardinality(T) <= m /\ m \in Nat
        BY <1>1
      <3> QED BY <3>1, <3>2
    <2>3. \A T \in Small(m - 1) : T \in Small(m)
      BY <1>1
    <2>4. \A T \in Small(m) : T = {} => T \in Small(m - 1)
      <3>1. Cardinality({}) = 0
        BY FS_EmptySet
      <3> QED BY <1>1, <3>1
    <2>5. g \in [Small(m) -> Int]
      <3>1. ASSUME NEW T \in Small(m), T \notin Small(m - 1)
            PROVE  h[Some(T)] + f[T \ {Some(T)}] \in Int
        <4>1. T # {}
          BY <2>4, <3>1
        <4>2. f[T \ {Some(T)}] \in Int /\ h[Some(T)] \in Int
          <5> HIDE DEF Small
          <5>1. T \ {Some(T)} \in Small(m - 1)
            BY <2>2, <4>1
          <5>2. T \in SUBSET P
            BY DEF Small
          <5> QED BY <1>2, <2>1, <4>1, <5>1, <5>2
        <4> QED BY <4>2
      <3> HIDE DEF Small
      <3> QED BY <2>1, <3>1
    <2>6. ASSUME NEW T \in Small(m)
          PROVE  g[T] = IF T = {} THEN 0 ELSE h[Some(T)] + g[T \ {Some(T)}]
      <3> HIDE DEF Small
      <3>1. \A V \in Small(m - 1) : g[V] = f[V]
        BY <2>3
      <3>2. T # {} => g[T \ {Some(T)}] = f[T \ {Some(T)}]
        <4> HIDE DEF g
        <4> QED BY <2>2, <3>1
      <3>3. T \notin Small(m - 1) => T # {} /\ g[T] = h[Some(T)] + f[T \ {Some(T)}]
        BY <2>4
      <3> HIDE DEF g
      <3> QED BY <2>1, <3>1, <3>2, <3>3
    <2> HIDE DEF g, Small
    <2>7. \E e \in [Small(m) -> Int] : Sum(e, m)
      BY <2>5, <2>6
    <2>8. m \in 0 .. n
      BY <1>1
    <2> QED BY <2>7, <2>8
  <1> HIDE DEF Good
  <1>5. \A m \in 0 .. n : m \in Good
    BY <1>1, <1>3, <1>4, UpTo
  <1>6. n \in Good
    <2> HIDE DEF n
    <2> QED BY <1>1, <1>5
  <1>7. PICK f \in [Small(n) -> Int] : Sum(f, n)
    BY <1>6 DEF Good
  <1>8. Small(n) = SUBSET P
    BY <1>1
  <1> QED BY <1>7, <1>8 DEF SumsUp

\* whichever member is taken first
LEMMA SumAdds ==
  ASSUME NEW P, IsFiniteSet(P), NEW h \in [P -> Int], NEW f, SumsUp(P, h, f)
  PROVE  /\ f[{}] = 0
         /\ \A T \in SUBSET P : f[T] \in Int /\ \A x \in T : f[T] = h[x] + f[T \ {x}]
  <1> DEFINE Ok(T) == f[T] \in Int /\ \A x \in T : f[T] = h[x] + f[T \ {x}]
             n == Cardinality(P)
             Good == {m \in 0 .. n : \A T \in SUBSET P : Cardinality(T) <= m => Ok(T)}
  <1>1. n \in Nat /\ \A T \in SUBSET P : IsFiniteSet(T) /\ Cardinality(T) \in Nat /\ Cardinality(T) <= n
    BY FS_Subset, FS_CardinalityType
  <1>2. f[{}] = 0
    BY DEF SumsUp
  <1>3. 0 \in Good
    <2>1. ASSUME NEW T \in SUBSET P, Cardinality(T) <= 0 PROVE Ok(T)
      <3>1. T = {}
        BY <1>1, <2>1, FS_EmptySet
      <3> QED BY <1>2, <3>1
    <2> HIDE DEF Ok
    <2> QED BY <1>1, <2>1
  <1>4. ASSUME NEW m \in 1 .. n, m - 1 \in Good PROVE m \in Good
    <2>1. ASSUME NEW T \in SUBSET P, Cardinality(T) <= m PROVE Ok(T)
      <3>1. m \in Nat /\ m - 1 \in Nat
        BY <1>1
      <3>2. \A V \in SUBSET P : Cardinality(V) <= m - 1 => Ok(V)
        BY <1>4
      <3>3. CASE T = {}
        BY <1>2, <3>3
      <3>4. CASE T # {}
        <4> DEFINE c == Some(T)
        <4>1. c \in T /\ f[T] = h[c] + f[T \ {c}]
          BY <3>4 DEF SumsUp, Some
        <4> HIDE DEF c
        <4>2. \A x \in T : T \ {x} \in SUBSET P /\ Ok(T \ {x})
          <5> SUFFICES ASSUME NEW x \in T PROVE T \ {x} \in SUBSET P /\ Ok(T \ {x})
            OBVIOUS
          <5>1. T \ {x} \in SUBSET P /\ Cardinality(T \ {x}) = Cardinality(T) - 1
                  /\ Cardinality(T) \in Nat
            BY SmallerSet
          <5>2. Cardinality(T \ {x}) <= m - 1
            BY <2>1, <3>1, <5>1
          <5> HIDE DEF Ok
          <5> QED BY <3>2, <5>1, <5>2
        <4>3. \A x \in T : h[x] \in Int
          OBVIOUS
        <4>4. f[T] \in Int
          <5>1. f[T \ {c}] \in Int /\ h[c] \in Int
            BY <4>1, <4>2, <4>3
          <5> QED BY <4>1, <5>1
        <4>5. ASSUME NEW x \in T PROVE f[T] = h[x] + f[T \ {x}]
          <5>1. CASE x = c
            BY <4>1, <5>1
          <5>2. CASE x # c
            <6>1. x \in T \ {c} /\ c \in T \ {x}
              BY <4>1, <5>2
            <6>2. f[T \ {c}] = h[x] + f[(T \ {c}) \ {x}]
              BY <4>1, <4>2, <6>1
            <6>3. f[T \ {x}] = h[c] + f[(T \ {x}) \ {c}]
              BY <4>2, <6>1
            <6>4. (T \ {c}) \ {x} = (T \ {x}) \ {c}
              OBVIOUS
            <6> DEFINE V == (T \ {x}) \ {c}
            <6>5. f[V] \in Int
              <7>1. V \in SUBSET P /\ Cardinality(V) <= m - 1
                <8>1. /\ T \ {x} \in SUBSET P /\ Cardinality(T \ {x}) = Cardinality(T) - 1
                      /\ Cardinality(T) \in Nat
                  BY SmallerSet
                <8>2. V \in SUBSET P /\ Cardinality(V) = Cardinality(T \ {x}) - 1
                  <9> DEFINE W == T \ {x}
                  <9>1. W \in SUBSET P /\ c \in W
                    BY <6>1, <8>1
                  <9> HIDE DEF W
                  <9>2. W \ {c} \in SUBSET P /\ Cardinality(W \ {c}) = Cardinality(W) - 1
                    BY <9>1, SmallerSet
                  <9> QED BY <9>2 DEF W
                <8> HIDE DEF V
                <8> QED BY <2>1, <3>1, <8>1, <8>2
              <7> QED BY <3>2, <7>1
            <6> HIDE DEF V
            <6>6. f[T \ {c}] = h[x] + f[V] /\ f[T \ {x}] = h[c] + f[V]
              BY <6>2, <6>3, <6>4 DEF V
            <6> QED BY <4>1, <4>3, <6>5, <6>6
          <5> QED BY <5>1, <5>2
        <4> QED BY <4>4, <4>5
      <3> QED BY <3>3, <3>4
    <2>2. m \in 0 .. n
      BY <1>1
    <2> HIDE DEF Ok
    <2> QED BY <2>1, <2>2
  <1> HIDE DEF Good
  <1>5. \A m \in 0 .. n : m \in Good
    BY <1>1, <1>3, <1>4, UpTo
  <1>6. n \in Good
    <2> HIDE DEF n
    <2> QED BY <1>1, <1>5
  <1>7. \A T \in SUBSET P : Ok(T)
    <2> HIDE DEF Ok
    <2> QED BY <1>1, <1>6 DEF Good
  <1> QED BY <1>2, <1>7

-----------------------------------------------------------------------------
(* Attendance                                                               *)

\* what a request that compared its day with the rows knows, as long as no row
\* was inserted since
Looked(w) ==
    worker[w].at = "checked" /\ worker[w].own /\ worker[w].seen = Len(rows) =>
        \A i \in Numbers : ~(/\ rows[i].status = worker[w].status
                             /\ Day(rows[i].time) = Day(worker[w].time))

MarkInv == /\ TypeOK /\ OncePerDay
           /\ \A w \in Worker : worker[w].seen <= Len(rows) /\ Looked(w)

\* what one insert leaves as it was
LEMMA RowAdded ==
  ASSUME MarkInv, NEW row \in Row, Len(rows) < MaxRows, rows' = Append(rows, row)
  PROVE  /\ rows' \in Seq(Row) /\ Len(rows') = Len(rows) + 1 /\ Len(rows') <= MaxRows
         /\ Len(rows) \in Nat
         /\ \A i \in Numbers : i \in Numbers' /\ rows'[i] = rows[i]
         /\ Numbers' = Numbers \cup {Len(rows')} /\ rows'[Len(rows')] = row
  <1>1. rows \in Seq(Row) /\ Len(rows) \in Nat /\ MaxRows \in Nat
    BY AttendanceAssumption DEF MarkInv, TypeOK
  <1>2. /\ rows' \in Seq(Row) /\ Len(rows') = Len(rows) + 1
        /\ \A i \in 1 .. Len(rows) : rows'[i] = rows[i]
        /\ rows'[Len(rows) + 1] = row
    BY <1>1
  <1>3. QED
    BY <1>1, <1>2 DEF Numbers

\* a request that looked before an insert does not count as sure after it
LEMMA LookIsOver ==
  ASSUME MarkInv, NEW row \in Row, Len(rows) < MaxRows, rows' = Append(rows, row),
         NEW w \in Worker, worker'[w] = worker[w] \/ worker'[w] = Idle
  PROVE  worker'[w].seen <= Len(rows') /\ Looked(w)'
  <1>1. /\ Len(rows') = Len(rows) + 1 /\ Len(rows) \in Nat
        /\ worker[w].seen \in Nat /\ worker[w].seen <= Len(rows)
    BY RowAdded DEF MarkInv, TypeOK
  <1>2. worker'[w].seen # Len(rows') /\ worker'[w].seen <= Len(rows')
    BY <1>1 DEF Idle
  <1>3. QED
    BY <1>2 DEF Looked

LEMMA CheckMarks ==
  ASSUME MarkInv, NEW w \in Worker, NEW time \in Time, NEW status \in Status,
         NEW own \in BOOLEAN, Check(w, time, status, own),
         own => ~Marked(status, Day(time))
  PROVE  MarkInv'
  <1> DEFINE new == [at |-> "checked", time |-> time, status |-> status, own |-> own,
                     seen |-> Len(rows)]
  <1>1. /\ worker' = [worker EXCEPT ![w] = new]
        /\ UNCHANGED <<who, now, rows>> /\ Len(rows) \in Nat /\ Len(rows) <= MaxRows
        /\ MaxRows \in Nat
    BY AttendanceAssumption DEF Check, MarkInv, TypeOK
  <1>2. /\ new.seen = Len(rows) /\ new.own = own /\ new.status = status /\ new.time = time
        /\ new \in [at : {"idle", "checked"}, time : Time, status : Status,
                    own : BOOLEAN, seen : 0 .. MaxRows]
    BY <1>1
  <1> HIDE DEF new
  <1>3. worker'[w] = new /\ \A u \in Worker \ {w} : worker'[u] = worker[u]
    BY <1>1 DEF MarkInv, TypeOK
  <1>4. TypeOK' /\ OncePerDay'
    BY <1>1, <1>2 DEF MarkInv, TypeOK, OncePerDay, Numbers
  <1>5. Looked(w)'
    BY <1>1, <1>2, <1>3 DEF Looked, Marked, Numbers
  <1>6. \A u \in Worker \ {w} : Looked(u)' /\ worker'[u].seen <= Len(rows')
    BY <1>1, <1>3 DEF MarkInv, Looked, Numbers
  <1>7. worker'[w].seen <= Len(rows')
    BY <1>1, <1>2, <1>3
  <1>8. QED
    BY <1>4, <1>5, <1>6, <1>7 DEF MarkInv

LEMMA MarksLook ==
  ASSUME MarkInv, NEW w \in Worker,
         \/ \E status \in Status : \/ TrainerMarks(w, status)
                                   \/ \E time \in 0 .. now, day \in Days :
                                         DatedMarks(w, time, status, day)
         \/ \E time \in 0 .. now : UndeterminedMarks(w, time)
  PROVE  MarkInv'
  <1>1. now \in Time /\ \A time \in 0 .. now : time \in Time
    BY AttendanceAssumption DEF MarkInv, TypeOK, Time
  <1>2. ASSUME NEW status \in Status, TrainerMarks(w, status) PROVE MarkInv'
    <2>1. (Day(now) = UtcDay(now)) \in BOOLEAN
      OBVIOUS
    <2>2. Day(now) = UtcDay(now) => ~Marked(status, Day(now))
      BY <1>2 DEF TrainerMarks
    <2>3. Check(w, now, status, Day(now) = UtcDay(now))
      BY <1>2 DEF TrainerMarks
    <2>4. QED
      BY <1>1, <2>1, <2>2, <2>3, CheckMarks
  <1>3. ASSUME NEW status \in Status, NEW time \in 0 .. now, NEW day \in Days,
               DatedMarks(w, time, status, day)
        PROVE  MarkInv'
    <2>1. (Day(time) = day) \in BOOLEAN /\ time \in Time
      BY <1>1
    <2>2. Day(time) = day => ~Marked(status, Day(time))
      BY <1>3 DEF DatedMarks
    <2>3. Check(w, time, status, Day(time) = day)
      BY <1>3 DEF DatedMarks
    <2>4. QED
      BY <2>1, <2>2, <2>3, CheckMarks
  <1>4. ASSUME NEW time \in 0 .. now, UndeterminedMarks(w, time) PROVE MarkInv'
    <2>1. Check(w, time, "Login", FALSE) /\ "Login" \in Status /\ time \in Time
      BY <1>1, <1>4 DEF UndeterminedMarks, Status
    <2>2. QED
      BY <2>1, CheckMarks
  <1>5. QED
    BY <1>2, <1>3, <1>4

LEMMA InsertMarks ==
  ASSUME MarkInv, NEW w \in Worker, Insert(w) PROVE MarkInv'
  <1> DEFINE here == worker[w]
             new == [time |-> here.time, status |-> here.status,
                     sure |-> here.own /\ here.seen = Len(rows)]
  <1>1. /\ here.at = "checked" /\ Len(rows) < MaxRows /\ rows' = Append(rows, new)
        /\ worker' = [worker EXCEPT ![w] = Idle] /\ UNCHANGED <<who, now>>
    BY DEF Insert
  <1>2. new \in Row /\ new.time = here.time /\ new.status = here.status
    BY DEF MarkInv, TypeOK, Row
  <1>3. new.sure => here.own /\ here.seen = Len(rows)
    OBVIOUS
  <1> HIDE DEF new
  <1>4. /\ rows' \in Seq(Row) /\ Len(rows') = Len(rows) + 1 /\ Len(rows') <= MaxRows
        /\ Len(rows) \in Nat
        /\ \A i \in Numbers : i \in Numbers' /\ rows'[i] = rows[i]
        /\ Numbers' = Numbers \cup {Len(rows')} /\ rows'[Len(rows')] = new
    BY <1>1, <1>2, RowAdded
  <1>5. TypeOK'
    <2>1. Idle \in [at : {"idle", "checked"}, time : Time, status : Status,
                    own : BOOLEAN, seen : 0 .. MaxRows]
      BY AttendanceAssumption DEF Idle, Time, Status
    <2>2. QED
      BY <1>1, <1>4, <2>1 DEF MarkInv, TypeOK
  <1>6. \A u \in Worker : worker'[u] = worker[u] \/ worker'[u] = Idle
    BY <1>1 DEF MarkInv, TypeOK
  <1>7. \A u \in Worker : worker'[u].seen <= Len(rows') /\ Looked(u)'
    BY <1>1, <1>2, <1>6, LookIsOver
  <1>8. OncePerDay'
    <2> SUFFICES ASSUME who = "trainer", NEW i \in Numbers', NEW j \in Numbers', i < j,
                        rows'[i].status = rows'[j].status,
                        Day(rows'[i].time) = Day(rows'[j].time)
                 PROVE  ~rows'[j].sure
      BY <1>1 DEF OncePerDay, Day
    <2>1. i \in Numbers
      BY <1>4 DEF Numbers
    <2>2. CASE j \in Numbers
      BY <1>4, <2>1, <2>2 DEF MarkInv, OncePerDay
    <2>3. CASE j = Len(rows')
      <3>1. rows'[j] = new /\ rows'[i] = rows[i]
        BY <1>4, <2>1, <2>3
      <3>2. here.own /\ here.seen = Len(rows) =>
              ~(rows[i].status = here.status /\ Day(rows[i].time) = Day(here.time))
        BY <1>1, <2>1 DEF MarkInv, Looked
      <3>3. QED
        BY <1>2, <1>3, <3>1, <3>2
    <2>4. QED
      BY <1>4, <2>2, <2>3
  <1>9. QED
    BY <1>5, <1>7, <1>8 DEF MarkInv

LEMMA StudentMark ==
  ASSUME MarkInv, NEW status \in Status, StudentMarks(status) PROVE MarkInv'
  <1> DEFINE new == [time |-> now, status |-> status, sure |-> FALSE]
  <1>1. /\ who = "student" /\ Len(rows) < MaxRows /\ rows' = Append(rows, new)
        /\ UNCHANGED <<who, now, worker>>
    BY DEF StudentMarks
  <1>2. new \in Row
    BY DEF MarkInv, TypeOK, Row
  <1> HIDE DEF new
  <1>3. rows' \in Seq(Row) /\ Len(rows') <= MaxRows
    BY <1>1, <1>2, RowAdded
  <1>4. TypeOK' /\ OncePerDay'
    BY <1>1, <1>3 DEF MarkInv, TypeOK, OncePerDay
  <1>5. \A u \in Worker : worker'[u].seen <= Len(rows') /\ Looked(u)'
    BY <1>1, <1>2, LookIsOver
  <1>6. QED
    BY <1>4, <1>5 DEF MarkInv

LEMMA FailsMarks == ASSUME MarkInv, NEW w \in Worker, Fails(w) PROVE MarkInv'
  <1>1. worker' = [worker EXCEPT ![w] = Idle] /\ UNCHANGED <<who, now, rows>>
    BY DEF Fails
  <1>2. /\ Idle.at = "idle" /\ Idle.seen = 0
        /\ Idle \in [at : {"idle", "checked"}, time : Time, status : Status,
                     own : BOOLEAN, seen : 0 .. MaxRows]
    BY AttendanceAssumption DEF Idle, Time, Status
  <1>3. TypeOK' /\ OncePerDay' /\ Len(rows) \in Nat
    BY <1>1, <1>2 DEF MarkInv, TypeOK, OncePerDay, Numbers
  <1>4. worker'[w] = Idle /\ \A u \in Worker \ {w} : worker'[u] = worker[u]
    BY <1>1 DEF MarkInv, TypeOK
  <1>5. \A u \in Worker : worker'[u].seen <= Len(rows') /\ Looked(u)'
    BY <1>1, <1>2, <1>3, <1>4 DEF MarkInv, Looked, Numbers
  <1>6. QED
    BY <1>3, <1>5 DEF MarkInv

LEMMA MarkInvariant == Spec => []MarkInv
  <1>1. Init => MarkInv
    <2> SUFFICES ASSUME Init PROVE MarkInv
      OBVIOUS
    <2>1. /\ rows = <<>> /\ Len(rows) = 0 /\ Numbers = {} /\ rows \in Seq(Row)
      BY DEF Init, Numbers
    <2>2. /\ Idle.at = "idle" /\ Idle.seen = 0
          /\ Idle \in [at : {"idle", "checked"}, time : Time, status : Status,
                       own : BOOLEAN, seen : 0 .. MaxRows]
      BY AttendanceAssumption DEF Idle, Time, Status
    <2>3. TypeOK /\ OncePerDay
      BY <2>1, <2>2, AttendanceAssumption DEF Init, TypeOK, OncePerDay, Time
    <2>4. \A w \in Worker : worker[w] = Idle
      BY DEF Init
    <2>5. QED
      BY <2>1, <2>2, <2>3, <2>4 DEF MarkInv, Looked
  <1>2. ASSUME MarkInv, [Next]_vars PROVE MarkInv'
    <2>1. CASE Tick
      <3>1. TypeOK' /\ UNCHANGED <<who, rows, worker>>
        BY <1>2, <2>1, AttendanceAssumption DEF Tick, MarkInv, TypeOK, Time
      <3>2. QED
        BY <1>2, <3>1 DEF MarkInv, OncePerDay, Looked, Numbers
    <2>2. CASE UNCHANGED vars
      BY <1>2, <2>2 DEF vars, MarkInv, TypeOK, OncePerDay, Looked, Numbers
    <2>3. ASSUME NEW w \in Worker, Insert(w) \/ Fails(w) PROVE MarkInv'
      BY <1>2, <2>3, InsertMarks, FailsMarks
    <2>4. ASSUME NEW status \in Status, StudentMarks(status) PROVE MarkInv'
      BY <1>2, <2>4, StudentMark
    <2>5. QED
      BY <1>2, <2>1, <2>2, <2>3, <2>4, MarksLook DEF Next
  <1>3. QED
    BY <1>1, <1>2, PTL DEF Spec

\* The rows and requests of a person have their types, whichever endpoint marks
\* and however many requests overlap.
THEOREM AttendanceTypes == Spec => []TypeOK
  <1>1. MarkInv => TypeOK
    BY DEF MarkInv
  <1>2. QED
    BY <1>1, MarkInvariant, PTL

\* A trainer marks a day twice only by overlapping requests or by looking at another
\* day (create and admin_mark_attendance of the attendance views), for any number of
\* requests, days and rows.
THEOREM MarkedOncePerDay == Spec => []OncePerDay
  <1>1. MarkInv => OncePerDay
    BY DEF MarkInv
  <1>2. QED
    BY <1>1, MarkInvariant, PTL

-----------------------------------------------------------------------------
(* The hours of a set of rows                                               *)

Timed ==
    /\ rows \in Seq(Row)
    /\ \A i, j \in Numbers : rows[i].time = rows[j].time => i = j

Tally == [login : Int, total : Int]

\* order is S in the order of time
Sorted(S, order) ==
    /\ order \in [1 .. Cardinality(S) -> S]
    /\ \A k, l \in 1 .. Cardinality(S) : k < l => rows[order[k]].time < rows[order[l]].time
    /\ \A i \in S : \E k \in 1 .. Cardinality(S) : order[k] = i

\* sums are the steps of the account of order
Accounts(S, order, sums) ==
    /\ sums \in [0 .. Cardinality(S) -> Tally]
    /\ sums[0] = [login |-> Nobody, total |-> 0]
    /\ \A k \in 1 .. Cardinality(S) : sums[k] = Account(sums[k - 1], order[k])

LEMMA RowFacts ==
  ASSUME Timed
  PROVE  /\ Len(rows) \in Nat /\ IsFiniteSet(Numbers) /\ MaxTime \in Nat
         /\ \A i \in Numbers : /\ rows[i] \in Row /\ rows[i].time \in Int
                               /\ rows[i].time \in 0 .. MaxTime
                               /\ rows[i].status \in Status /\ rows[i].status # "none"
  <1>1. Len(rows) \in Nat /\ rows \in [1 .. Len(rows) -> Row] /\ MaxTime \in Nat
    BY AttendanceAssumption DEF Timed
  <1>2. IsFiniteSet(Numbers)
    BY <1>1, FS_Interval DEF Numbers
  <1> QED BY <1>1, <1>2 DEF Numbers, Row, Time, Status

LEMMA SubsetFacts ==
  ASSUME Timed, NEW S \in SUBSET Numbers
  PROVE  IsFiniteSet(S) /\ Cardinality(S) \in Nat
  BY RowFacts, FS_Subset, FS_CardinalityType

LEMMA ByTimeSorts == Timed => \A S \in SUBSET Numbers : Sorted(S, ByTime(S))
  <1> SUFFICES ASSUME Timed, NEW S \in SUBSET Numbers PROVE Sorted(S, ByTime(S))
    OBVIOUS
  <1> DEFINE T == [i \in Numbers |-> rows[i].time]
             n == Cardinality(S)
  <1>1. T \in [Numbers -> 0 .. MaxTime] /\ MaxTime \in Nat /\ IsFiniteSet(Numbers)
    BY RowFacts
  <1>2. \A x, y \in Numbers : T[x] = T[y] => x = y
    BY DEF Timed
  <1>3. \A i \in Numbers : T[i] = rows[i].time
    OBVIOUS
  <1> HIDE DEF T
  <1>4. PICK s \in [1 .. n -> S] : Increasing(T, s, n)
    BY <1>1, <1>2, SortExists
  <1>5. \A k \in 1 .. n : s[k] \in Numbers
    OBVIOUS
  <1>6. \A k, l \in 1 .. n : k < l => rows[s[k]].time < rows[s[l]].time
    BY <1>3, <1>4, <1>5 DEF Increasing
  <1> DEFINE b == ByTime(S)
  <1>7. b \in [1 .. n -> S] /\ \A k, l \in 1 .. n : k < l => rows[b[k]].time < rows[b[l]].time
    BY <1>6 DEF ByTime
  <1> HIDE DEF b
  <1>8. \A k \in 1 .. n : b[k] \in Numbers
    BY <1>7
  <1>9. Increasing(T, b, n)
    BY <1>3, <1>7, <1>8 DEF Increasing
  <1>10. Reaches(b, n, S)
    <2>1. IsFiniteSet(S)
      BY SubsetFacts
    <2>2. TimesUpTo(S, T, MaxTime)
      BY <1>1 DEF TimesUpTo
    <2> QED BY <1>7, <1>9, <2>1, <2>2, SortIsOnto
  <1> QED BY <1>7, <1>10 DEF Sorted, Reaches, b

LEMMA AccountType ==
  ASSUME Timed, NEW sum \in Tally, NEW i \in Numbers
  PROVE  /\ Account(sum, i) \in Tally
         /\ rows[i].status = "Login" =>
              Account(sum, i).login = rows[i].time /\ Account(sum, i).total = sum.total
         /\ rows[i].status # "Login" /\ sum.login = Nobody => Account(sum, i) = sum
         /\ rows[i].status # "Login" /\ sum.login # Nobody =>
              /\ Account(sum, i).login = Nobody
              /\ Account(sum, i).total = sum.total + rows[i].time - sum.login
  BY RowFacts DEF Account, Tally, Nobody

LEMMA WorkedByAccount ==
  Timed => \A S \in SUBSET Numbers : \E sums :
             Accounts(S, ByTime(S), sums) /\ Worked(S) = sums[Cardinality(S)].total
  <1> SUFFICES ASSUME Timed, NEW S \in SUBSET Numbers
               PROVE  \E sums : Accounts(S, ByTime(S), sums)
                                  /\ Worked(S) = sums[Cardinality(S)].total
    OBVIOUS
  <1> DEFINE n == Cardinality(S)
             s == ByTime(S)
             base == [login |-> Nobody, total |-> 0]
             step == [x \in Tally \X (1 .. n) |-> Account(x[1], s[x[2]])]
             Rec(f) == f = [T \in SUBSET (1 .. n) |->
                              IF T = {} THEN base
                              ELSE Account(f[T \ {Max(T)}], s[Max(T)])]
  <1>1. n \in Nat /\ s \in [1 .. n -> S] /\ base \in Tally
    BY ByTimeSorts, SubsetFacts DEF Sorted, Tally, Nobody
  <1> HIDE DEF s, n, base
  <1>2. /\ step \in [Tally \X (1 .. n) -> Tally]
        /\ \A x \in Tally, k \in 1 .. n : step[<<x, k>>] = Account(x, s[k])
    <2>1. \A x \in Tally, k \in 1 .. n : Account(x, s[k]) \in Tally
      BY <1>1, AccountType
    <2> QED BY <2>1
  <1> HIDE DEF step
  <1>3. PICK f : FoldOf(Tally, base, n, step, f)
    BY <1>1, <1>2, FoldExists
  <1>4. Rec(f)
    <2>1. ASSUME NEW T \in SUBSET (1 .. n)
          PROVE  f[T] = IF T = {} THEN base ELSE Account(f[T \ {Max(T)}], s[Max(T)])
      <3>1. T # {} => Max(T) \in 1 .. n /\ f[T \ {Max(T)}] \in Tally
        <4>1. T # {} => Max(T) \in T
          BY <1>1, MaxIsIn
        <4> QED BY <1>3, <4>1 DEF FoldOf
      <3>2. f[T] = IF T = {} THEN base ELSE step[<<f[T \ {Max(T)}], Max(T)>>]
        BY <1>3 DEF FoldOf
      <3> QED BY <1>2, <3>1, <3>2
    <2> QED BY <1>3, <2>1 DEF FoldOf
  <1>5. PICK iter : iter = (CHOOSE g : Rec(g)) /\ Rec(iter)
    <2> HIDE DEF Rec
    <2> QED BY <1>4
  <1>6. Worked(S) = iter[1 .. n].total
    <2>1. DOMAIN s = 1 .. n
      BY <1>1
    <2> QED BY <1>5, <2>1 DEF Worked, FoldLeft, MapThenFoldSet, s, base
  <1>7. iter[{}] = base
    BY <1>5
  <1>8. \A k \in 1 .. n : iter[1 .. k - 1] \in Tally
                             => iter[1 .. k] = step[<<iter[1 .. k - 1], k>>]
    <2> SUFFICES ASSUME NEW k \in 1 .. n, iter[1 .. k - 1] \in Tally
                 PROVE  iter[1 .. k] = step[<<iter[1 .. k - 1], k>>]
      OBVIOUS
    <2>1. /\ 1 .. k \in SUBSET (1 .. n) /\ 1 .. k # {} /\ Max(1 .. k) = k
          /\ (1 .. k) \ {k} = 1 .. k - 1
      <3>1. k \in Nat \ {0} /\ 1 .. k \in SUBSET (1 .. n) /\ k \in 1 .. k
        BY <1>1
      <3>2. (1 .. k) \ {k} = 1 .. k - 1
        BY <3>1
      <3> QED BY <3>1, <3>2, MaxOfInterval
    <2>2. iter[1 .. k] = Account(iter[1 .. k - 1], s[k])
      BY <1>5, <2>1
    <2> QED BY <1>2, <2>2
  <1>9. PICK sums : RunOf(Tally, base, n, step, sums, iter[1 .. n])
    <2>1. Unfolds(Tally, base, n, step, iter)
      BY <1>7, <1>8 DEF Unfolds
    <2>2. base \in Tally /\ n \in Nat /\ step \in [Tally \X (1 .. n) -> Tally]
      BY <1>1, <1>2
    <2> QED BY <2>1, <2>2, FoldRuns, Zenon
  <1>10. \A k \in 1 .. n : sums[k] = Account(sums[k - 1], s[k])
    <2> SUFFICES ASSUME NEW k \in 1 .. n PROVE sums[k] = Account(sums[k - 1], s[k])
      OBVIOUS
    <2>1. k - 1 \in 0 .. n
      BY <1>1
    <2> QED BY <1>2, <1>9, <2>1 DEF RunOf
  <1> QED BY <1>6, <1>9, <1>10 DEF Accounts, RunOf, n, s, base

\* The first and the last of some rows.
LEMMA Extremes ==
  ASSUME Timed, NEW S \in SUBSET Numbers, S # {}
  PROVE  /\ \E i \in S : Earliest(S) = rows[i].time
         /\ \E i \in S : Latest(S) = rows[i].time
         /\ \A i \in S : Earliest(S) <= rows[i].time /\ rows[i].time <= Latest(S)
  <1> DEFINE Times == {rows[i].time : i \in S}
             T == [t \in Times |-> t]
  <1>1. Times \subseteq 0 .. MaxTime /\ Times # {} /\ MaxTime \in Nat
    BY RowFacts
  <1>2. \A i \in S : rows[i].time \in Times
    OBVIOUS
  <1>3. \A t \in Times : \E i \in S : rows[i].time = t
    OBVIOUS
  <1>4. Earliest(S) = Min(Times) /\ Latest(S) = Max(Times)
    BY DEF Earliest, Latest
  <1> HIDE DEF Times
  <1>5. PICK t \in Times : \A u \in Times : t <= u
    <2>1. Times \subseteq Nat
      BY <1>1
    <2> QED BY <1>1, <2>1, LeastNat
  <1>6. Min(Times) \in Times /\ \A u \in Times : Min(Times) <= u
    BY <1>5 DEF Min
  <1>7. T \in [Times -> 0 .. MaxTime] /\ \A u \in Times : T[u] = u
    BY <1>1
  <1> HIDE DEF T
  <1>8. PICK v \in Times : \A u \in Times : T[u] <= T[v]
    BY <1>1, <1>7, LatestOf
  <1>9. \A u \in Times : v >= u
    <2> SUFFICES ASSUME NEW u \in Times PROVE v >= u
      OBVIOUS
    <2>1. u \in Int /\ v \in Int /\ u <= v
      BY <1>1, <1>7, <1>8
    <2> QED BY <2>1
  <1>10. Max(Times) \in Times /\ \A u \in Times : Max(Times) >= u
    BY <1>9 DEF Max
  <1>11. \A i \in S : Earliest(S) <= rows[i].time /\ rows[i].time <= Latest(S)
    <2> SUFFICES ASSUME NEW i \in S PROVE Min(Times) <= rows[i].time /\ rows[i].time <= Max(Times)
      BY <1>4
    <2>1. rows[i].time \in Times /\ rows[i].time \in Int /\ Max(Times) \in Int
      <3>1. Times \subseteq Int
        BY <1>1
      <3>2. rows[i].time \in Times
        BY <1>2
      <3> QED BY <1>10, <3>1, <3>2
    <2> QED BY <1>6, <1>10, <2>1
  <1> QED BY <1>3, <1>4, <1>6, <1>10, <1>11

-----------------------------------------------------------------------------
(* Hours: between the first login and the last logout                       *)

\* a sum of the account of S after its first k rows
Within(S, order, sum, k) ==
    LET first == Earliest(With(S, "Login")) IN
    /\ sum.total >= 0
    /\ sum.login # Nobody => \E j \in 1 .. k :
         /\ order[j] \in With(S, "Login") /\ sum.login = rows[order[j]].time
         /\ sum.total <= sum.login - first
    /\ sum.total > 0 => \E j \in 1 .. k :
         /\ order[j] \in With(S, "Logout") /\ With(S, "Login") # {}
         /\ sum.total <= rows[order[j]].time - first

LEMMA AccountWithin ==
  ASSUME Timed, NEW S \in SUBSET Numbers, NEW order, NEW sums,
         Sorted(S, order), Accounts(S, order, sums)
  PROVE  \A k \in 0 .. Cardinality(S) : Within(S, order, sums[k], k)
  <1> DEFINE n == Cardinality(S)
             Good == {k \in 0 .. n : Within(S, order, sums[k], k)}
             ins == With(S, "Login")
             first == Earliest(ins)
  <1>1. n \in Nat
    BY SubsetFacts
  <1>2. 0 \in Good
    <2>1. sums[0] = [login |-> Nobody, total |-> 0]
      BY DEF Accounts
    <2>2. Within(S, order, sums[0], 0)
      BY <2>1 DEF Within
    <2> QED BY <1>1, <2>2
  <1>3. ASSUME NEW k \in 1 .. n, k - 1 \in Good PROVE k \in Good
    <2> DEFINE old == sums[k - 1]
               new == sums[k]
               i == order[k]
    <2>1. k - 1 \in 0 .. n /\ k \in 0 .. n /\ Within(S, order, old, k - 1)
      BY <1>1, <1>3
    <2>2. i \in S /\ i \in Numbers /\ old \in Tally /\ new \in Tally /\ new = Account(old, i)
      BY <1>1, <2>1 DEF Sorted, Accounts
    <2>3. /\ rows[i].time \in Int /\ rows[i].time \in 0 .. MaxTime /\ rows[i].time # Nobody
          /\ old.login \in Int /\ old.total \in Int /\ new.total \in Int
      BY <2>2, RowFacts DEF Tally, Nobody
    <2>4. \A j \in 1 .. k - 1 : j \in 1 .. n /\ rows[order[j]].time < rows[i].time
                                  /\ rows[order[j]].time \in Int
      <3> SUFFICES ASSUME NEW j \in 1 .. k - 1
                   PROVE  j \in 1 .. n /\ rows[order[j]].time < rows[i].time
                            /\ rows[order[j]].time \in Int
        OBVIOUS
      <3>1. j \in 1 .. n /\ j < k
        BY <1>1, <2>1
      <3>2. order[j] \in Numbers
        BY <3>1 DEF Sorted
      <3> QED BY <3>1, <3>2, RowFacts DEF Sorted
    <2>5. \A j \in 1 .. k - 1 : j \in 1 .. k
      BY <2>1
    <2>6. ins # {} => first \in Int /\ \A j \in ins : first <= rows[j].time
      <3>1. ins \in SUBSET Numbers
        BY DEF With
      <3>2. ASSUME ins # {} PROVE first \in Int /\ \A j \in ins : first <= rows[j].time
        <4>1. /\ \E j \in ins : first = rows[j].time
              /\ \A j \in ins : first <= rows[j].time
          BY <3>1, <3>2, Extremes
        <4> QED BY <3>1, <4>1, RowFacts
      <3> QED BY <3>2
    <2> HIDE DEF old, new, first
    <2>7. Within(S, order, new, k)
      <3>1. CASE rows[i].status = "Login"
        <4>1. new.login = rows[i].time /\ new.total = old.total
          BY <2>2, <3>1, AccountType
        <4>2. i \in ins /\ first \in Int /\ first <= rows[i].time
          BY <2>2, <2>6, <3>1 DEF With
        <4>3. old.total >= 0
          BY <2>1 DEF Within
        <4>4. new.total <= new.login - first
          <5>1. CASE old.total > 0
            <6>1. PICK j \in 1 .. k - 1 : old.total <= rows[order[j]].time - first
              BY <2>1, <5>1 DEF Within, first
            <6>2. rows[order[j]].time < rows[i].time /\ rows[order[j]].time \in Int
              BY <2>4
            <6> QED BY <2>3, <4>1, <4>2, <6>1, <6>2
          <5>2. CASE ~(old.total > 0)
            BY <2>3, <4>1, <4>2, <4>3, <5>2
          <5> QED BY <5>1, <5>2
        <4>5. k \in 1 .. k
          BY <2>1
        <4>6. ASSUME new.total > 0
              PROVE  \E j \in 1 .. k : /\ order[j] \in With(S, "Logout") /\ ins # {}
                                       /\ new.total <= rows[order[j]].time - first
          BY <2>1, <2>5, <4>1, <4>6 DEF Within, first
        <4> QED BY <4>1, <4>2, <4>3, <4>4, <4>5, <4>6 DEF Within, first
      <3>2. CASE rows[i].status # "Login" /\ old.login = Nobody
        <4>1. new = old
          BY <2>2, <3>2, AccountType
        <4> QED BY <2>1, <2>5, <3>2, <4>1 DEF Within
      <3>3. CASE rows[i].status # "Login" /\ old.login # Nobody
        <4>1. new.login = Nobody /\ new.total = old.total + rows[i].time - old.login
          BY <2>2, <3>3, AccountType
        <4>2. PICK j \in 1 .. k - 1 : /\ order[j] \in ins /\ old.login = rows[order[j]].time
                                      /\ old.total <= old.login - first
          BY <2>1, <3>3 DEF Within, first
        <4>3. old.login < rows[i].time /\ first \in Int /\ ins # {}
          BY <2>4, <2>6, <4>2
        <4>4. old.total >= 0
          BY <2>1 DEF Within
        <4>5. new.total >= 0 /\ new.total <= rows[i].time - first
          BY <2>3, <4>1, <4>2, <4>3, <4>4
        <4>6. i \in With(S, "Logout")
          <5>1. rows[i].status \in Status
            BY <2>2, RowFacts
          <5> QED BY <2>2, <3>3, <5>1 DEF With, Status
        <4>7. k \in 1 .. k
          BY <2>1
        <4> QED BY <4>1, <4>3, <4>5, <4>6, <4>7 DEF Within, first
      <3> QED BY <3>1, <3>2, <3>3
    <2> QED BY <2>1, <2>7 DEF new
  <1> HIDE DEF Good
  <1>4. \A k \in 0 .. n : k \in Good
    BY <1>1, <1>2, <1>3, UpTo
  <1> QED BY <1>4 DEF Good

LEMMA WorkedWithin ==
  ASSUME Timed, NEW S \in SUBSET Numbers
  PROVE  LET ins == With(S, "Login")  outs == With(S, "Logout") IN
         /\ Worked(S) >= 0
         /\ Worked(S) > 0 => Worked(S) <= Latest(outs) - Earliest(ins)
  <1> DEFINE n == Cardinality(S)
             order == ByTime(S)
             outs == With(S, "Logout")
             ins == With(S, "Login")
  <1>1. n \in Nat /\ n \in 0 .. n /\ Sorted(S, order)
    BY SubsetFacts, ByTimeSorts
  <1>2. PICK sums : Accounts(S, order, sums) /\ Worked(S) = sums[n].total
    BY WorkedByAccount
  <1> HIDE DEF order
  <1>3. Within(S, order, sums[n], n)
    BY <1>1, <1>2, AccountWithin
  <1>4. Worked(S) >= 0
    BY <1>2, <1>3 DEF Within
  <1>5. ASSUME Worked(S) > 0 PROVE Worked(S) <= Latest(outs) - Earliest(ins)
    <2>1. PICK j \in 1 .. n : /\ order[j] \in outs /\ ins # {}
                              /\ Worked(S) <= rows[order[j]].time - Earliest(ins)
      BY <1>2, <1>3, <1>5 DEF Within
    <2>2. ins \in SUBSET Numbers /\ outs \in SUBSET Numbers /\ outs # {}
      BY <2>1 DEF With
    <2>3. rows[order[j]].time <= Latest(outs) /\ rows[order[j]].time \in Int
      BY <2>1, <2>2, Extremes, RowFacts
    <2>4. Latest(outs) \in Int /\ Earliest(ins) \in Int
      <3>1. (\E i \in outs : Latest(outs) = rows[i].time) /\ \E i \in ins : Earliest(ins) = rows[i].time
        BY <2>1, <2>2, Extremes
      <3> QED BY <2>2, <3>1, RowFacts
    <2>5. Worked(S) \in Int
      BY <1>1, <1>2 DEF Accounts, Tally
    <2> QED BY <2>1, <2>3, <2>4, <2>5
  <1> QED BY <1>4, <1>5

-----------------------------------------------------------------------------
(* Hours: the views of a day with one login and one logout                  *)

LEMMA OneVisit ==
  ASSUME Timed, NEW S \in SUBSET Numbers, NEW i \in Numbers, NEW j \in Numbers,
         S = {i, j}, rows[i].status = "Login", rows[j].status = "Logout",
         rows[i].time < rows[j].time
  PROVE  Worked(S) = rows[j].time - rows[i].time
  <1> DEFINE order == ByTime(S)
  <1>1. i # j /\ rows[i].time \in Int /\ rows[j].time \in Int /\ rows[i].time # Nobody
    <2>1. rows[i].time \in 0 .. MaxTime
      BY RowFacts
    <2> QED BY <2>1, RowFacts DEF Nobody
  <1>2. Cardinality(S) = 2
    <2>1. IsFiniteSet({i}) /\ Cardinality({i}) = 1
      BY FS_Singleton
    <2>2. S = {i} \cup {j} /\ j \notin {i}
      BY <1>1
    <2> QED BY <2>1, <2>2, FS_AddElement
  <1>3. Sorted(S, order)
    BY ByTimeSorts
  <1>4. PICK sums : Accounts(S, order, sums) /\ Worked(S) = sums[2].total
    BY <1>2, WorkedByAccount
  <1> HIDE DEF order
  <1>5. order[1] = i /\ order[2] = j
    <2>1. /\ order[1] \in S /\ order[2] \in S
          /\ rows[order[1]].time < rows[order[2]].time
      BY <1>2, <1>3 DEF Sorted
    <2> QED BY <1>1, <2>1
  <1>6. /\ sums[0] = [login |-> Nobody, total |-> 0]
        /\ sums[0] \in Tally /\ sums[1] \in Tally
        /\ sums[1] = Account(sums[0], i) /\ sums[2] = Account(sums[1], j)
    <2>1. /\ sums \in [0 .. 2 -> Tally] /\ sums[0] = [login |-> Nobody, total |-> 0]
          /\ \A k \in 1 .. 2 : sums[k] = Account(sums[k - 1], order[k])
      BY <1>2, <1>4 DEF Accounts
    <2>2. sums[1] = Account(sums[0], order[1]) /\ sums[2] = Account(sums[1], order[2])
      BY <2>1
    <2> QED BY <1>5, <2>1, <2>2
  <1>7. sums[1].login = rows[i].time /\ sums[1].total = 0
    BY <1>6, AccountType
  <1>8. sums[2].total = 0 + rows[j].time - rows[i].time
    BY <1>1, <1>6, <1>7, AccountType
  <1> QED BY <1>1, <1>4, <1>8

LEMMA OneOf ==
  ASSUME Timed, NEW S \in SUBSET Numbers, Cardinality(S) = 1
  PROVE  \E i \in Numbers : S = {i} /\ Earliest(S) = rows[i].time /\ Latest(S) = rows[i].time
  <1>1. PICK i : S = {i}
    BY SubsetFacts, FS_Singleton
  <1>2. S # {}
    BY <1>1
  <1>3. (\E j \in S : Earliest(S) = rows[j].time) /\ \E j \in S : Latest(S) = rows[j].time
    BY <1>2, Extremes
  <1> QED BY <1>1, <1>3

LEMMA DayFacts ==
  ASSUME NEW d PROVE OnDay(d) \in SUBSET Numbers /\ OnUtcDay(d) \in SUBSET Numbers
  BY DEF OnDay, OnUtcDay

LEMMA AgreeWhenOne == Timed => ViewsAgree
  <1> SUFFICES ASSUME Timed, NEW d \in Days,
                      Cardinality(With(OnDay(d), "Login")) = 1,
                      Cardinality(With(OnDay(d), "Logout")) = 1,
                      Earliest(With(OnDay(d), "Login")) < Earliest(With(OnDay(d), "Logout")),
                      \A i \in With(OnDay(d), "Login") \cup With(OnDay(d), "Logout") :
                          /\ rows[i].time % DayTicks \in ClassHours
                          /\ OnUtcDay(UtcDay(rows[i].time)) = OnDay(d)
               PROVE  /\ ListHours(d) = FullLogHours(UtcDay(Earliest(With(OnDay(d), "Login"))))
                      /\ ListHours(d) = ReportHours(d)
    BY DEF ViewsAgree
  <1> DEFINE S == OnDay(d)
             ins == With(S, "Login")
             outs == With(S, "Logout")
             held == {i \in OnDay(d) : rows[i].time % DayTicks \in ClassHours}
  <1>1. S \in SUBSET Numbers /\ ins \in SUBSET Numbers /\ outs \in SUBSET Numbers
    BY DayFacts DEF With
  <1>2. PICK i \in Numbers : ins = {i} /\ Earliest(ins) = rows[i].time
    BY <1>1, OneOf
  <1>3. PICK j \in Numbers : /\ outs = {j} /\ Earliest(outs) = rows[j].time
                             /\ Latest(outs) = rows[j].time
    BY <1>1, OneOf
  <1>4. S = {i, j} /\ rows[i].status = "Login" /\ rows[j].status = "Logout"
    <2>1. \A k \in S : k \in ins \/ k \in outs
      BY <1>1, RowFacts DEF With, Status
    <2>2. i \in S /\ j \in S /\ rows[i].status = "Login" /\ rows[j].status = "Logout"
      BY <1>2, <1>3 DEF With
    <2> QED BY <1>2, <1>3, <2>1, <2>2
  <1>5. Worked(S) = rows[j].time - rows[i].time
    BY <1>1, <1>2, <1>3, <1>4, OneVisit
  <1>6. OnUtcDay(UtcDay(rows[i].time)) = S
    BY <1>2
  <1>7. held = S
    BY <1>2, <1>3, <1>4
  <1>8. ListHours(d) = FullLogHours(UtcDay(Earliest(ins)))
    BY <1>2, <1>6 DEF ListHours, FullLogHours
  <1>9. ReportHours(d) = rows[j].time - rows[i].time
    <2>1. ins # {} /\ outs # {}
      BY <1>2, <1>3
    <2> QED BY <1>2, <1>3, <1>7, <2>1 DEF ReportHours
  <1> QED BY <1>5, <1>8, <1>9 DEF ListHours

-----------------------------------------------------------------------------
(* Hours: a later row takes nothing away                                    *)

\* the same of any sequence R of rows: its rows of a day, and hours as the last
\* sum of an account of them
DayOf(R, d) == {i \in 1 .. Len(R) : Day(R[i].time) = d}
AccountOf(R, sum, i) ==
    IF R[i].status = "Login" THEN [sum EXCEPT !.login = R[i].time]
    ELSE IF sum.login = Nobody THEN sum
    ELSE [login |-> Nobody, total |-> sum.total + R[i].time - sum.login]
HoursOf(R, d, order, sums, hours) == LET n == Cardinality(DayOf(R, d)) IN
    /\ order \in [1 .. n -> DayOf(R, d)]
    /\ \A k, l \in 1 .. n : k < l => R[order[k]].time < R[order[l]].time
    /\ \A i \in DayOf(R, d) : \E k \in 1 .. n : order[k] = i
    /\ sums \in [0 .. n -> Tally]
    /\ sums[0] = [login |-> Nobody, total |-> 0] /\ sums[n].total = hours
    /\ \A k \in 1 .. n : sums[k] = AccountOf(R, sums[k - 1], order[k])
    /\ sums[n].login # Nobody => \E i \in DayOf(R, d) : sums[n].login = R[i].time

LEMMA HoursByAccount == Timed => \A d : \E order, sums : HoursOf(rows, d, order, sums, ListHours(d))
  <1> SUFFICES ASSUME Timed, NEW d
               PROVE  \E order, sums : HoursOf(rows, d, order, sums, ListHours(d))
    OBVIOUS
  <1> DEFINE S == OnDay(d)
             n == Cardinality(S)
             order == ByTime(S)
  <1>1. S \in SUBSET Numbers /\ S = DayOf(rows, d) /\ n \in Nat
    BY DayFacts, SubsetFacts DEF DayOf, OnDay, Numbers
  <1>2. Sorted(S, order)
    BY <1>1, ByTimeSorts
  <1>3. PICK sums : Accounts(S, order, sums) /\ Worked(S) = sums[n].total
    BY <1>1, WorkedByAccount
  <1> HIDE DEF order
  <1>4. ASSUME sums[n].login # Nobody PROVE \E i \in S : sums[n].login = rows[i].time
    <2>1. n \in 0 .. n
      BY <1>1
    <2>2. Within(S, order, sums[n], n)
      BY <1>1, <1>2, <1>3, <2>1, AccountWithin
    <2> QED BY <1>4, <2>2 DEF Within, With
  <1>5. \A k \in 1 .. n : sums[k] = AccountOf(rows, sums[k - 1], order[k])
    BY <1>3 DEF Accounts, Account, AccountOf
  <1>6. HoursOf(rows, d, order, sums, ListHours(d))
    <2>1. /\ sums \in [0 .. n -> Tally] /\ sums[0] = [login |-> Nobody, total |-> 0]
          /\ sums[n].total = ListHours(d)
      BY <1>3 DEF Accounts, ListHours
    <2>2. /\ order \in [1 .. n -> S]
          /\ \A k, l \in 1 .. n : k < l => rows[order[k]].time < rows[order[l]].time
          /\ \A i \in S : \E k \in 1 .. n : order[k] = i
      BY <1>2 DEF Sorted
    <2> HIDE DEF S
    <2> QED BY <1>1, <1>4, <1>5, <2>1, <2>2 DEF HoursOf
  <1> QED BY <1>6

LEMMA HoursByAccountNext ==
  Timed' => (\A d : \E order, sums : HoursOf(rows, d, order, sums, ListHours(d)))'
  BY HoursByAccount, PTL

LEMMA AccountOfType ==
  ASSUME NEW R, NEW sum \in Tally, NEW i, R[i].time \in Int
  PROVE  /\ R[i].status = "Login" =>
              AccountOf(R, sum, i).login = R[i].time /\ AccountOf(R, sum, i).total = sum.total
         /\ R[i].status # "Login" /\ sum.login = Nobody => AccountOf(R, sum, i) = sum
         /\ R[i].status # "Login" /\ sum.login # Nobody =>
              /\ AccountOf(R, sum, i).login = Nobody
              /\ AccountOf(R, sum, i).total = sum.total + R[i].time - sum.login
  BY DEF AccountOf, Tally, Nobody

\* A day's account goes on where it was, when a later row is appended.
LEMMA HoursGrow ==
  ASSUME NEW R \in Seq(Row), NEW Q \in Seq(Row), Len(Q) = Len(R) + 1,
         \A i \in 1 .. Len(R) : Q[i] = R[i],
         \A i, j \in 1 .. Len(Q) : Q[i].time = Q[j].time => i = j,
         \A i \in 1 .. Len(R) : R[i].time < Q[Len(Q)].time,
         NEW d, NEW order, NEW sums, NEW hours, HoursOf(R, d, order, sums, hours),
         NEW after, NEW later, NEW hours2, HoursOf(Q, d, after, later, hours2)
  PROVE  hours2 >= hours
  <1> DEFINE m == Len(R) + 1
             S == DayOf(R, d)
             V == DayOf(Q, d)
             n == Cardinality(S)
             l == Cardinality(V)
             T == [i \in 1 .. m |-> Q[i].time]
  <1>1. /\ m \in Nat /\ Len(R) \in Nat /\ Len(R) = m - 1 /\ Len(Q) = m
        /\ \A i \in 1 .. m - 1 : Q[i] = R[i] /\ i \in 1 .. m
    OBVIOUS
  <1>2. \A i \in 1 .. m : T[i] = Q[i].time /\ Q[i].time \in 0 .. MaxTime /\ Q[i].status \in Status
    <2>1. \A i \in 1 .. m : Q[i] \in Row
      BY <1>1
    <2> QED BY <2>1 DEF Row, Time
  <1>3. \A i \in 1 .. m - 1 : Q[i].time < Q[m].time
    BY <1>1
  <1> HIDE DEF m, T
  <1>4. /\ S \subseteq 1 .. m - 1 /\ S \subseteq V /\ V \subseteq 1 .. m
        /\ V \subseteq S \cup {m} /\ m \notin S /\ m \in 1 .. m
    BY <1>1 DEF DayOf
  <1>5. MaxTime \in Nat
    BY AttendanceAssumption
  <1>6. IsFiniteSet(S) /\ n \in Nat /\ IsFiniteSet(V) /\ l \in Nat
    <2>1. IsFiniteSet(1 .. m)
      BY <1>1, FS_Interval
    <2>2. S \in SUBSET (1 .. m) /\ V \in SUBSET (1 .. m)
      BY <1>4
    <2> QED BY <2>1, <2>2, FS_Subset, FS_CardinalityType
  <1>7. n <= l /\ \A k \in 1 .. n : after[k] = order[k]
    <2>1. order \in [1 .. n -> S] /\ after \in [1 .. l -> V]
      BY DEF HoursOf
    <2>2. Increasing(T, order, n)
      <3> SUFFICES ASSUME NEW k \in 1 .. n, NEW j \in 1 .. n, k < j
                   PROVE  T[order[k]] < T[order[j]]
        BY DEF Increasing
      <3>1. order[k] \in 1 .. m - 1 /\ order[j] \in 1 .. m - 1
        BY <1>4, <2>1
      <3>2. R[order[k]].time < R[order[j]].time
        BY DEF HoursOf
      <3> QED BY <1>1, <1>2, <3>1, <3>2
    <2>3. Increasing(T, after, l)
      <3> SUFFICES ASSUME NEW k \in 1 .. l, NEW j \in 1 .. l, k < j
                   PROVE  T[after[k]] < T[after[j]]
        BY DEF Increasing
      <3>1. after[k] \in 1 .. m /\ after[j] \in 1 .. m
        BY <1>4, <2>1
      <3>2. Q[after[k]].time < Q[after[j]].time
        BY DEF HoursOf
      <3> QED BY <1>2, <3>1, <3>2
    <2>4. Ordered(S, T, order, n) /\ Ordered(V, T, after, l)
      BY <2>1, <2>2, <2>3 DEF HoursOf, Ordered
    <2>5. Apart(V, T, MaxTime)
      BY <1>1, <1>2, <1>4 DEF Apart
    <2>6. Precede(S, V, T)
      <3> SUFFICES ASSUME NEW x \in S, NEW y \in V \ S PROVE T[x] < T[y]
        BY DEF Precede
      <3>1. y = m /\ x \in 1 .. m - 1
        BY <1>4
      <3> QED BY <1>1, <1>2, <1>3, <1>4, <3>1
    <2> HIDE DEF S, V, n, l
    <2>7. S \subseteq V /\ MaxTime \in Nat /\ n \in Nat /\ l \in Nat
      BY <1>4, <1>5, <1>6
    <2>8. Begins(order, n, after, l)
      BY <2>4, <2>5, <2>6, <2>7, SortExtends
    <2> QED BY <2>8 DEF Begins
  <1>8. \A k \in 0 .. n : later[k] = sums[k]
    <2> DEFINE Good == {k \in 0 .. n : later[k] = sums[k]}
    <2>1. 0 \in Good
      BY <1>6 DEF HoursOf
    <2>2. ASSUME NEW k \in 1 .. n, k - 1 \in Good PROVE k \in Good
      <3>1. k \in 1 .. l /\ k \in 0 .. n /\ later[k - 1] = sums[k - 1] /\ after[k] = order[k]
        BY <1>6, <1>7, <2>2
      <3>2. order[k] \in 1 .. m - 1
        BY <1>4 DEF HoursOf
      <3>3. later[k] = AccountOf(Q, later[k - 1], after[k]) /\ sums[k] = AccountOf(R, sums[k - 1], order[k])
        BY <3>1 DEF HoursOf
      <3>4. Q[order[k]] = R[order[k]]
        BY <1>1, <3>2
      <3>5. AccountOf(Q, sums[k - 1], order[k]) = AccountOf(R, sums[k - 1], order[k])
        BY <3>4 DEF AccountOf
      <3>6. later[k] = sums[k]
        BY <3>1, <3>3, <3>5
      <3> QED BY <3>1, <3>6
    <2> HIDE DEF Good
    <2>3. \A k \in 0 .. n : k \in Good
      BY <1>6, <2>1, <2>2, UpTo
    <2> QED BY <2>3 DEF Good
  <1>9. sums[n] \in Tally /\ sums[n].total = hours /\ later[l].total = hours2
    BY <1>6 DEF HoursOf
  <1>10. CASE V = S
    BY <1>6, <1>8, <1>9, <1>10 DEF Tally
  <1>11. CASE V # S
    <2>1. V = S \cup {m}
      BY <1>4, <1>11
    <2>2. l = n + 1
      BY <1>4, <1>6, <2>1, FS_AddElement
    <2>3. after[l] = m
      <3>1. PICK k \in 1 .. l : after[k] = m
        BY <2>1 DEF HoursOf
      <3>2. k \notin 1 .. n
        <4>1. \A j \in 1 .. n : order[j] \in S
          BY DEF HoursOf
        <4> QED BY <1>4, <1>7, <3>1, <4>1
      <3> QED BY <1>6, <2>2, <3>1, <3>2
    <2>4. later[l] = AccountOf(Q, sums[n], m)
      <3>1. l \in 1 .. l /\ l - 1 = n /\ n \in 0 .. n
        <4> HIDE DEF n, l
        <4>1. n \in Nat /\ l = n + 1
          BY <1>6, <2>2
        <4> QED BY ONLY <4>1
      <3>2. later[l] = AccountOf(Q, later[l - 1], after[l])
        BY <3>1 DEF HoursOf
      <3> QED BY <1>8, <2>3, <3>1, <3>2
    <2>5. sums[n].login # Nobody => sums[n].login < Q[m].time
      <3>1. ASSUME sums[n].login # Nobody PROVE sums[n].login < Q[m].time
        <4>1. PICK i \in S : sums[n].login = R[i].time
          BY <3>1 DEF HoursOf
        <4> QED BY <1>1, <1>3, <1>4, <4>1
      <3> QED BY <3>1
    <2>6. Q[m].time \in Int /\ sums[n].total \in Int /\ sums[n].login \in Int
      <3>1. Q[m].time \in Int
        <4>1. Q[m].time \in 0 .. MaxTime
          BY <1>2, <1>4
        <4> QED BY <1>5, <4>1
      <3> QED BY <1>9, <3>1 DEF Tally
    <2>7. later[l].total >= sums[n].total
      <3> DEFINE x == sums[n]
                 y == later[l]
      <3>1. x \in Tally /\ y = AccountOf(Q, x, m) /\ x.total \in Int /\ x.login \in Int
        BY <1>9, <2>4, <2>6
      <3>2. x.login # Nobody => x.login < Q[m].time
        BY <2>5
      <3> HIDE DEF x, y
      <3>3. /\ Q[m].status = "Login" => y.total = x.total
            /\ Q[m].status # "Login" /\ x.login = Nobody => y = x
            /\ Q[m].status # "Login" /\ x.login # Nobody => y.total = x.total + Q[m].time - x.login
        BY <2>6, <3>1, AccountOfType
      <3>4. y.total >= x.total
        BY <2>6, <3>1, <3>2, <3>3
      <3> QED BY <3>4 DEF x, y
    <2> QED BY <1>9, <2>7
  <1> QED BY <1>10, <1>11

-----------------------------------------------------------------------------
(* Sessions: each login takes a logout of its own                           *)

Pairs == SUBSET (Numbers \X Numbers)

\* the logouts that the login i may take
Free(pairs, i) == {j \in With(OnDay(Day(rows[i].time)), "Logout") :
                      rows[j].time > rows[i].time /\ \A p \in pairs : p[2] # j}

\* runs are the steps of the pairing of the logins in order
Pairings(n, order, runs) ==
    /\ runs \in [0 .. n -> Pairs] /\ runs[0] = {}
    /\ \A k \in 1 .. n : runs[k] = Pair(runs[k - 1], order[k])

LEMMA PairTakes ==
  ASSUME Timed, NEW pairs \in Pairs, NEW i \in Numbers
  PROVE  /\ Pair(pairs, i) \in Pairs
         /\ Free(pairs, i) = {} => Pair(pairs, i) = pairs
         /\ Free(pairs, i) # {} => \E j \in Free(pairs, i) :
              /\ Pair(pairs, i) = pairs \cup {<<i, j>>}
              /\ \A l \in Free(pairs, i) : rows[j].time <= rows[l].time
  <1> DEFINE later == {j \in With(OnDay(Day(rows[i].time)), "Logout") :
                          rows[j].time > rows[i].time /\ \A p \in pairs : p[2] # j}
  <1>1. later = Free(pairs, i)
    BY DEF Free
  <1>2. /\ later = {} => Pair(pairs, i) = pairs
        /\ later # {} => Pair(pairs, i) = pairs \cup
              {<<i, CHOOSE j \in later : rows[j].time = Earliest(later)>>}
    BY DEF Pair
  <1>3. later \in SUBSET Numbers
    BY DEF With, OnDay
  <1> HIDE DEF later
  <1>4. ASSUME later # {}
        PROVE  \E j \in later : /\ Pair(pairs, i) = pairs \cup {<<i, j>>}
                                /\ \A l \in later : rows[j].time <= rows[l].time
    <2>1. /\ \E j \in later : Earliest(later) = rows[j].time
          /\ \A l \in later : Earliest(later) <= rows[l].time
      BY <1>3, <1>4, Extremes
    <2>2. PICK j : /\ j = (CHOOSE l \in later : rows[l].time = Earliest(later))
                   /\ j \in later /\ rows[j].time = Earliest(later)
      BY <2>1
    <2> QED BY <1>2, <1>4, <2>1, <2>2
  <1>5. Pair(pairs, i) \in Pairs
    <2>1. CASE later = {}
      BY <1>2, <2>1
    <2>2. CASE later # {}
      BY <1>3, <1>4, <2>2 DEF Pairs
    <2> QED BY <2>1, <2>2
  <1> QED BY <1>1, <1>2, <1>4, <1>5

LEMMA SessionsByPairing ==
  ASSUME Timed, NEW d
  PROVE  LET ins == With(OnDay(d), "Login") IN
         \E runs : /\ Pairings(Cardinality(ins), ByTime(ins), runs)
                   /\ Sessions(d) = runs[Cardinality(ins)]
  <1> DEFINE S == With(OnDay(d), "Login")
             n == Cardinality(S)
             s == ByTime(S)
             base == {}
             step == [x \in Pairs \X (1 .. n) |-> Pair(x[1], s[x[2]])]
             Rec(f) == f = [T \in SUBSET (1 .. n) |->
                              IF T = {} THEN base
                              ELSE Pair(f[T \ {Max(T)}], s[Max(T)])]
  <1>0. S \in SUBSET Numbers
    BY DayFacts DEF With
  <1>1. n \in Nat /\ s \in [1 .. n -> S] /\ base \in Pairs
    BY <1>0, ByTimeSorts, SubsetFacts DEF Sorted, Pairs
  <1>2. /\ step \in [Pairs \X (1 .. n) -> Pairs]
        /\ \A x \in Pairs, k \in 1 .. n : step[<<x, k>>] = Pair(x, s[k])
    <2> HIDE DEF S, s, n, base
    <2>1. \A x \in Pairs, k \in 1 .. n : Pair(x, s[k]) \in Pairs
      BY <1>0, <1>1, PairTakes
    <2> QED BY <2>1
  <1>3. Sessions(d) = FoldLeft(Pair, base, s)
    BY DEF Sessions
  <1> HIDE DEF S, s, n, base, step
  <1>4. PICK f : FoldOf(Pairs, base, n, step, f)
    BY <1>1, <1>2, FoldExists
  <1>5. Rec(f)
    <2>1. ASSUME NEW T \in SUBSET (1 .. n)
          PROVE  f[T] = IF T = {} THEN base ELSE Pair(f[T \ {Max(T)}], s[Max(T)])
      <3>1. T # {} => Max(T) \in 1 .. n /\ f[T \ {Max(T)}] \in Pairs
        <4>1. T # {} => Max(T) \in T
          BY <1>1, MaxIsIn
        <4> QED BY <1>4, <4>1 DEF FoldOf
      <3>2. f[T] = IF T = {} THEN base ELSE step[<<f[T \ {Max(T)}], Max(T)>>]
        BY <1>4 DEF FoldOf
      <3> QED BY <1>2, <3>1, <3>2
    <2> QED BY <1>4, <2>1 DEF FoldOf
  <1>6. PICK iter : iter = (CHOOSE g : Rec(g)) /\ Rec(iter)
    <2> HIDE DEF Rec
    <2> QED BY <1>5
  <1>7. Sessions(d) = iter[1 .. n]
    <2>1. DOMAIN s = 1 .. n
      BY <1>1
    <2> QED BY <1>3, <1>6, <2>1 DEF FoldLeft, MapThenFoldSet
  <1>8. iter[{}] = base
    BY <1>6
  <1>9. \A k \in 1 .. n : iter[1 .. k - 1] \in Pairs
                             => iter[1 .. k] = step[<<iter[1 .. k - 1], k>>]
    <2> SUFFICES ASSUME NEW k \in 1 .. n, iter[1 .. k - 1] \in Pairs
                 PROVE  iter[1 .. k] = step[<<iter[1 .. k - 1], k>>]
      OBVIOUS
    <2>1. /\ 1 .. k \in SUBSET (1 .. n) /\ 1 .. k # {} /\ Max(1 .. k) = k
          /\ (1 .. k) \ {k} = 1 .. k - 1
      <3>1. k \in Nat \ {0} /\ 1 .. k \in SUBSET (1 .. n) /\ k \in 1 .. k
        BY <1>1
      <3>2. (1 .. k) \ {k} = 1 .. k - 1
        BY <3>1
      <3> QED BY <3>1, <3>2, MaxOfInterval
    <2>2. iter[1 .. k] = Pair(iter[1 .. k - 1], s[k])
      BY <1>6, <2>1
    <2> QED BY <1>2, <2>2
  <1>10. PICK runs : RunOf(Pairs, base, n, step, runs, iter[1 .. n])
    <2>1. Unfolds(Pairs, base, n, step, iter)
      BY <1>8, <1>9 DEF Unfolds
    <2>2. base \in Pairs /\ n \in Nat /\ step \in [Pairs \X (1 .. n) -> Pairs]
      BY <1>1, <1>2
    <2> QED BY <2>1, <2>2, FoldRuns, Zenon
  <1>11. \A k \in 1 .. n : runs[k] = Pair(runs[k - 1], s[k])
    <2> SUFFICES ASSUME NEW k \in 1 .. n PROVE runs[k] = Pair(runs[k - 1], s[k])
      OBVIOUS
    <2>1. k - 1 \in 0 .. n
      BY <1>1
    <2> QED BY <1>2, <1>10, <2>1 DEF RunOf
  <1> QED BY <1>7, <1>10, <1>11 DEF Pairings, RunOf, n, s, S, base

\* whatever the rows are, no logout is taken twice
LEMMA NoneShared ==
  ASSUME Timed, NEW d
  PROVE  \A p, q \in Sessions(d) : p # q => p[2] # q[2]
  <1> DEFINE ins == With(OnDay(d), "Login")
             n == Cardinality(ins)
             order == ByTime(ins)
             Unshared(pairs) == \A p, q \in pairs : p # q => p[2] # q[2]
  <1>1. ins \in SUBSET Numbers
    BY DayFacts DEF With
  <1>2. n \in Nat /\ order \in [1 .. n -> ins]
    BY <1>1, SubsetFacts, ByTimeSorts DEF Sorted
  <1>3. PICK runs : Pairings(n, order, runs) /\ Sessions(d) = runs[n]
    BY SessionsByPairing
  <1> HIDE DEF n, order, ins
  <1> DEFINE Good == {k \in 0 .. n : Unshared(runs[k])}
  <1>4. 0 \in Good
    BY <1>2, <1>3 DEF Pairings
  <1>5. ASSUME NEW k \in 1 .. n, k - 1 \in Good PROVE k \in Good
    <2> DEFINE old == runs[k - 1]
               i == order[k]
    <2>1. k \in 0 .. n /\ k - 1 \in 0 .. n /\ i \in Numbers
      BY <1>1, <1>2
    <2>2. old \in Pairs /\ runs[k] = Pair(old, i)
      BY <1>3, <2>1 DEF Pairings
    <2>3. Unshared(old)
      BY <1>5
    <2> HIDE DEF old, i
    <2>4. Unshared(runs[k])
      <3>1. CASE Free(old, i) = {}
        BY <2>1, <2>2, <2>3, <3>1, PairTakes
      <3>2. CASE Free(old, i) # {}
        <4>1. PICK j \in Free(old, i) : runs[k] = old \cup {<<i, j>>}
          BY <2>1, <2>2, <3>2, PairTakes
        <4>2. \A p \in old : p[2] # j
          BY DEF Free
        <4> QED BY <2>3, <4>1, <4>2
      <3> QED BY <3>1, <3>2
    <2> QED BY <2>1, <2>4
  <1> HIDE DEF Good
  <1>6. \A k \in 0 .. n : k \in Good
    BY <1>2, <1>4, <1>5, UpTo
  <1>7. n \in Good
    <2>1. n \in 0 .. n
      BY <1>2
    <2> QED BY <1>6, <2>1
  <1> QED BY <1>3, <1>7 DEF Good

-----------------------------------------------------------------------------
(* Sessions: where logins and logouts alternate                             *)

Alternate(order, n) ==
    \A k \in 1 .. n - 1 : rows[order[k]].status # rows[order[k + 1]].status

\* each login of the first k rows with the row after it
Visits(order, k) ==
    {<<order[x], order[x + 1]>> : x \in {y \in 1 .. k - 1 : rows[order[y]].status = "Login"}}

LEMMA OrderFacts ==
  ASSUME Timed, NEW S \in SUBSET Numbers, NEW order, Sorted(S, order)
  PROVE  LET n == Cardinality(S) IN
         /\ n \in Nat
         /\ \A k \in 1 .. n : /\ order[k] \in S /\ order[k] \in Numbers
                              /\ rows[order[k]].time \in Int
                              /\ rows[order[k]].time # Nobody
                              /\ rows[order[k]].status \in Status
         /\ \A k, l \in 1 .. n : order[k] = order[l] => k = l
         /\ \A k, l \in 1 .. n : k < l => rows[order[k]].time < rows[order[l]].time
         /\ \A k, l \in 1 .. n : rows[order[k]].time < rows[order[l]].time => k < l
  <1> DEFINE n == Cardinality(S)
  <1>1. n \in Nat
    BY SubsetFacts
  <1>2. ASSUME NEW k \in 1 .. n
        PROVE  /\ order[k] \in S /\ order[k] \in Numbers
               /\ rows[order[k]].time \in Int /\ rows[order[k]].time # Nobody
               /\ rows[order[k]].status \in Status
    <2>1. order[k] \in S /\ order[k] \in Numbers
      BY DEF Sorted
    <2>2. rows[order[k]].time \in 0 .. MaxTime /\ MaxTime \in Nat
      BY <2>1, RowFacts
    <2> QED BY <2>1, <2>2, RowFacts DEF Nobody
  <1>3. \A k, l \in 1 .. n : k < l => rows[order[k]].time < rows[order[l]].time
    BY DEF Sorted
  <1> HIDE DEF n
  <1>4. ASSUME NEW k \in 1 .. n, NEW l \in 1 .. n PROVE order[k] = order[l] => k = l
    <2>1. k < l \/ l < k \/ k = l
      BY <1>1
    <2>2. rows[order[k]].time \in Int
      BY <1>2
    <2> QED BY <1>3, <2>1, <2>2
  <1>5. ASSUME NEW k \in 1 .. n, NEW l \in 1 .. n
        PROVE  rows[order[k]].time < rows[order[l]].time => k < l
    <2>1. k < l \/ l < k \/ k = l
      BY <1>1
    <2>2. rows[order[k]].time \in Int /\ rows[order[l]].time \in Int
      BY <1>2
    <2> QED BY <1>3, <2>1, <2>2
  <1> QED BY <1>1, <1>2, <1>3, <1>4, <1>5 DEF n

LEMMA VisitsGrow ==
  ASSUME NEW n \in Nat, NEW order, NEW k \in 1 .. n
  PROVE  /\ Visits(order, 0) = {}
         /\ Visits(order, k) \subseteq Visits(order, n)
         /\ k = 1 \/ rows[order[k - 1]].status # "Login"
              => Visits(order, k) = Visits(order, k - 1)
         /\ k # 1 /\ rows[order[k - 1]].status = "Login"
              => Visits(order, k) = Visits(order, k - 1) \cup {<<order[k - 1], order[k]>>}
  <1>1. Visits(order, 0) = {}
    <2>1. 1 .. 0 - 1 = {}
      OBVIOUS
    <2> QED BY <2>1 DEF Visits
  <1>2. Visits(order, k) \subseteq Visits(order, n)
    <2>1. 1 .. k - 1 \subseteq 1 .. n - 1
      OBVIOUS
    <2> QED BY <2>1 DEF Visits
  <1>3. CASE k = 1
    <2>1. 1 .. k - 1 = {} /\ 1 .. k - 1 - 1 = {}
      BY <1>3
    <2> QED BY <1>1, <1>2, <1>3, <2>1 DEF Visits
  <1>4. CASE k # 1
    <2> DEFINE l == k - 1
    <2>1. l \in Nat /\ l + 1 = k /\ 1 .. l = (1 .. l - 1) \cup {l}
      BY <1>4
    <2>2. Visits(order, k) = {<<order[x], order[x + 1]>> :
                                 x \in {y \in 1 .. l : rows[order[y]].status = "Login"}}
      BY DEF Visits
    <2>3. Visits(order, l) = {<<order[x], order[x + 1]>> :
                                 x \in {y \in 1 .. l - 1 : rows[order[y]].status = "Login"}}
      BY DEF Visits
    <2> HIDE DEF l
    <2>4. CASE rows[order[l]].status = "Login"
      <3>1. {y \in 1 .. l : rows[order[y]].status = "Login"}
              = {y \in 1 .. l - 1 : rows[order[y]].status = "Login"} \cup {l}
        BY <2>1, <2>4
      <3>2. Visits(order, k) = Visits(order, l) \cup {<<order[l], order[l + 1]>>}
        BY <2>2, <2>3, <3>1
      <3> QED BY <1>1, <1>2, <1>4, <2>1, <2>4, <3>2 DEF l
    <2>5. CASE rows[order[l]].status # "Login"
      <3>1. {y \in 1 .. l : rows[order[y]].status = "Login"}
              = {y \in 1 .. l - 1 : rows[order[y]].status = "Login"}
        BY <2>1, <2>5
      <3>2. Visits(order, k) = Visits(order, l)
        BY <2>2, <2>3, <3>1
      <3> QED BY <1>1, <1>2, <2>5, <3>2 DEF l
    <2> QED BY <2>4, <2>5
  <1> QED BY <1>3, <1>4

\* the trainer's account is the sum of the visits
LEMMA AccountOfVisits ==
  ASSUME Timed, NEW S \in SUBSET Numbers, NEW order, NEW sums,
         Sorted(S, order), Accounts(S, order, sums), Alternate(order, Cardinality(S)),
         NEW P, P = Visits(order, Cardinality(S)), IsFiniteSet(P),
         NEW h \in [P -> Int], \A p \in P : h[p] = SessionTime(p),
         NEW f, SumsUp(P, h, f)
  PROVE  sums[Cardinality(S)].total = f[P]
  <1> DEFINE n == Cardinality(S)
             Agrees(k) == /\ sums[k].total = f[Visits(order, k)]
                          /\ sums[k].login = IF k # 0 /\ rows[order[k]].status = "Login"
                                               THEN rows[order[k]].time ELSE Nobody
             Good == {k \in 0 .. n : Agrees(k)}
  <1>1. n \in Nat
    BY SubsetFacts
  <1>2. f[{}] = 0 /\ \A T \in SUBSET P : f[T] \in Int /\ \A x \in T : f[T] = h[x] + f[T \ {x}]
    BY SumAdds
  <1>3. 0 \in Good
    <2>1. Visits(order, 0) = {}
      <3>1. 1 .. 0 - 1 = {}
        OBVIOUS
      <3> QED BY <3>1 DEF Visits
    <2>2. sums[0] = [login |-> Nobody, total |-> 0]
      BY DEF Accounts
    <2>3. Agrees(0)
      <3>1. sums[0].total = 0 /\ sums[0].login = Nobody
        BY <2>2
      <3>2. f[Visits(order, 0)] = 0
        BY <1>2, <2>1
      <3> QED BY <3>1, <3>2
    <2>4. 0 \in 0 .. n
      BY <1>1
    <2> HIDE DEF Agrees, n
    <2> QED BY <2>3, <2>4
  <1>4. ASSUME NEW k \in 1 .. n, k - 1 \in Good PROVE k \in Good
    <2> DEFINE old == sums[k - 1]
               new == sums[k]
               i == order[k]
               V == Visits(order, k)
               W == Visits(order, k - 1)
    <2>1. k - 1 \in 0 .. n /\ k \in 0 .. n /\ Agrees(k - 1)
      BY <1>1, <1>4
    <2>2. i \in Numbers /\ rows[i].time \in Int /\ rows[i].time # Nobody /\ rows[i].status \in Status
      BY OrderFacts
    <2>3. old \in Tally /\ new = Account(old, i) /\ new \in Tally
      BY <2>1 DEF Accounts
    <2>4. old.total = f[W] /\ old.login = IF k - 1 # 0 /\ rows[order[k - 1]].status = "Login"
                                            THEN rows[order[k - 1]].time ELSE Nobody
      BY <2>1
    <2>5. /\ V \subseteq P
          /\ k = 1 \/ rows[order[k - 1]].status # "Login" => V = W
          /\ k # 1 /\ rows[order[k - 1]].status = "Login"
               => V = W \cup {<<order[k - 1], order[k]>>}
      BY <1>1, VisitsGrow
    <2>6. k # 1 => /\ k - 1 \in 1 .. n - 1 /\ k - 1 \in 1 .. n /\ k - 1 + 1 = k
                   /\ rows[order[k - 1]].status # rows[i].status
      <3>1. k # 1 => k - 1 \in 1 .. n - 1 /\ k - 1 \in 1 .. n /\ k - 1 + 1 = k
        BY <1>1
      <3>2. \A l \in 1 .. n - 1 : rows[order[l]].status # rows[order[l + 1]].status
        BY DEF Alternate
      <3> QED BY <3>1, <3>2
    <2>7. k - 1 # 0 <=> k # 1
      BY <1>1
    <2> HIDE DEF old, new
    <2>8. CASE rows[i].status = "Login"
      <3>1. new.login = rows[i].time /\ new.total = old.total
        BY <2>2, <2>3, <2>8, AccountType
      <3>2. V = W
        BY <2>5, <2>6, <2>8
      <3>3. k # 0
        BY <1>1
      <3>4. Agrees(k)
        BY <2>4, <2>8, <3>1, <3>2, <3>3 DEF new
      <3> HIDE DEF Agrees
      <3> QED BY <2>1, <3>4
    <2>9. CASE rows[i].status # "Login" /\ k = 1
      <3>1. old.login = Nobody
        BY <2>4, <2>7, <2>9
      <3>2. new = old
        BY <2>2, <2>3, <2>9, <3>1, AccountType
      <3>3. Agrees(k)
        BY <2>4, <2>5, <2>9, <3>1, <3>2 DEF new
      <3> HIDE DEF Agrees
      <3> QED BY <2>1, <3>3
    <2>10. CASE rows[i].status # "Login" /\ k # 1
      <3> DEFINE j == order[k - 1]
                 p == <<j, i>>
      <3>1. k - 1 \in 1 .. n /\ rows[j].status \in Status
        BY <2>6, <2>10, OrderFacts
      <3>2. rows[j].status = "Login" /\ rows[i].status = "Logout"
        BY <2>2, <2>6, <2>10, <3>1 DEF Status
      <3>3. old.login = rows[j].time /\ rows[j].time \in Int /\ rows[j].time # Nobody
        BY <2>4, <2>7, <2>10, <3>1, <3>2, OrderFacts
      <3>4. new.login = Nobody /\ new.total = old.total + rows[i].time - old.login
        BY <2>2, <2>3, <2>10, <3>3, AccountType
      <3>5. V = W \cup {p} /\ p \in V
        BY <2>5, <2>10, <3>2
      <3>6. p \notin W
        <4> SUFFICES ASSUME p \in W PROVE FALSE
          OBVIOUS
        <4>1. PICK x \in 1 .. k - 1 - 1 : p = <<order[x], order[x + 1]>>
          BY DEF Visits
        <4>2. x \in 1 .. n /\ x # k - 1
          BY <1>1, <4>1
        <4>3. order[x] = order[k - 1]
          BY <4>1
        <4> QED BY <3>1, <4>2, <4>3, OrderFacts
      <3>7. V \ {p} = W
        BY <3>5, <3>6
      <3>8. p \in P /\ h[p] = rows[i].time - rows[j].time
        BY <2>5, <3>5 DEF SessionTime
      <3> HIDE DEF j, p, V, W, i
      <3>9. f[V] = h[p] + f[W] /\ f[W] \in Int
        <4>1. V \in SUBSET P /\ W \in SUBSET P
          BY <2>5, <3>7
        <4>2. f[V] = h[p] + f[V \ {p}] /\ f[W] \in Int
          BY <1>2, <3>5, <4>1
        <4> QED BY <3>7, <4>2
      <3>10. new.total = f[V]
        BY <2>2, <2>4, <3>3, <3>4, <3>8, <3>9
      <3>11. Agrees(k)
        BY <2>10, <3>4, <3>10 DEF new, V, i
      <3> HIDE DEF Agrees
      <3> QED BY <2>1, <3>11
    <2> QED BY <2>8, <2>9, <2>10
  <1> HIDE DEF Good
  <1>5. \A k \in 0 .. n : k \in Good
    BY <1>1, <1>3, <1>4, UpTo
  <1>6. n \in 0 .. n
    BY <1>1
  <1> QED BY <1>5, <1>6 DEF Good

\* the pairing of a student's logins takes the same visits
LEMMA PairingOfVisits ==
  ASSUME Timed, NEW d, Alternate(ByTime(OnDay(d)), Cardinality(OnDay(d)))
  PROVE  Sessions(d) = Visits(ByTime(OnDay(d)), Cardinality(OnDay(d)))
  <1> DEFINE S == OnDay(d)
             order == ByTime(S)
             n == Cardinality(S)
             ins == With(S, "Login")
             m == Cardinality(ins)
             logins == ByTime(ins)
             P == Visits(order, n)
             TakenBy(k) == {p \in P : \E x \in 1 .. k : p[1] = logins[x]}
  <1>1. S \in SUBSET Numbers /\ ins \in SUBSET Numbers /\ ins \subseteq S
    BY DayFacts DEF With
  <1>2. PICK runs : Pairings(m, logins, runs) /\ Sessions(d) = runs[m]
    BY SessionsByPairing
  <1>3. Sorted(S, order) /\ Sorted(ins, logins)
    BY <1>1, ByTimeSorts
  <1>4. n \in Nat /\ m \in Nat
    BY <1>1, SubsetFacts
  <1>5. \A j \in Numbers : j \in S <=> Day(rows[j].time) = d
    BY DEF OnDay
  <1>6. \A j : j \in ins <=> j \in S /\ rows[j].status = "Login"
    BY DEF With
  <1>7. \A k \in 1 .. n - 1 : rows[order[k]].status # rows[order[k + 1]].status
    BY DEF Alternate
  <1>8. \A p : p \in P <=> \E x \in 1 .. n - 1 :
                  rows[order[x]].status = "Login" /\ p = <<order[x], order[x + 1]>>
    BY DEF Visits
  <1>9. /\ \A k \in 1 .. n : /\ order[k] \in S /\ order[k] \in Numbers
                             /\ rows[order[k]].time \in Int
                             /\ rows[order[k]].status \in Status
        /\ \A k, l \in 1 .. n : order[k] = order[l] => k = l
        /\ \A k, l \in 1 .. n : k < l => rows[order[k]].time < rows[order[l]].time
        /\ \A k, l \in 1 .. n : rows[order[k]].time < rows[order[l]].time => k < l
    BY <1>1, <1>3, OrderFacts
  <1>10. \A j \in S : \E k \in 1 .. n : order[k] = j
    BY <1>3 DEF Sorted
  <1>11. /\ \A k \in 1 .. m : logins[k] \in ins
         /\ \A k, l \in 1 .. m : logins[k] = logins[l] => k = l
         /\ \A j \in ins : \E k \in 1 .. m : logins[k] = j
    BY <1>1, <1>3, OrderFacts DEF Sorted
  <1> HIDE DEF S, ins, order, n, m, logins, P
  <1> DEFINE Good == {k \in 0 .. m : runs[k] = TakenBy(k)}
  <1>12. 0 \in Good
    <2>1. TakenBy(0) = {} /\ 0 \in 0 .. m
      BY <1>4
    <2>2. runs[0] = {}
      BY <1>2 DEF Pairings
    <2> QED BY <2>1, <2>2
  <1>13. ASSUME NEW k \in 1 .. m, k - 1 \in Good PROVE k \in Good
    <2> DEFINE i == logins[k]
               old == runs[k - 1]
    <2>1. k \in 0 .. m /\ k - 1 \in 0 .. m /\ old = TakenBy(k - 1)
      BY <1>4, <1>13
    <2>2. old \in Pairs /\ runs[k] = Pair(old, i)
      BY <1>2, <2>1 DEF Pairings
    <2>3. i \in ins /\ i \in S /\ i \in Numbers /\ rows[i].status = "Login"
      BY <1>1, <1>6, <1>11
    <2>4. PICK y \in 1 .. n : order[y] = i
      BY <1>10, <2>3
    <2>5. \A j : j \in Free(old, i) <=> /\ j \in S /\ j \in Numbers /\ rows[j].status = "Logout"
                                        /\ rows[j].time > rows[i].time
                                        /\ \A p \in old : p[2] # j
      <3>1. Day(rows[i].time) = d /\ S = OnDay(d)
        BY <1>5, <2>3 DEF S
      <3>2. Free(old, i) = {j \in With(S, "Logout") :
                              rows[j].time > rows[i].time /\ \A p \in old : p[2] # j}
        BY <3>1 DEF Free
      <3> QED BY <1>1, <3>2 DEF With
    <2>6. \A j \in Free(old, i) : \E x \in 1 .. n : order[x] = j /\ y < x
      <3> SUFFICES ASSUME NEW j \in Free(old, i) PROVE \E x \in 1 .. n : order[x] = j /\ y < x
        OBVIOUS
      <3>1. PICK x \in 1 .. n : order[x] = j
        BY <1>10, <2>5
      <3>2. rows[order[x]].time > rows[order[y]].time
        BY <2>4, <2>5, <3>1
      <3>3. rows[order[y]].time < rows[order[x]].time
        <4>1. rows[order[y]].time \in Int /\ rows[order[x]].time \in Int
          BY <1>9
        <4> QED BY <3>2, <4>1
      <3> QED BY <1>9, <3>1, <3>3
    <2>7. \A p \in P : p[1] = i => /\ y \in 1 .. n - 1 /\ p = <<order[y], order[y + 1]>>
      <3> SUFFICES ASSUME NEW p \in P, p[1] = i
                   PROVE  y \in 1 .. n - 1 /\ p = <<order[y], order[y + 1]>>
        OBVIOUS
      <3>1. PICK x \in 1 .. n - 1 : p = <<order[x], order[x + 1]>>
        BY <1>8
      <3>2. x \in 1 .. n /\ order[x] = order[y]
        BY <1>4, <2>4, <3>1
      <3>3. x = y
        BY <1>9, <3>2
      <3> QED BY <3>1, <3>3
    <2>8. TakenBy(k) = old \cup {p \in P : p[1] = i}
      <3>1. 1 .. k = (1 .. k - 1) \cup {k}
        BY <1>4
      <3>2. \A p \in P : (\E x \in 1 .. k : p[1] = logins[x])
                           <=> (\E x \in 1 .. k - 1 : p[1] = logins[x]) \/ p[1] = i
        BY <3>1
      <3>3. TakenBy(k) = TakenBy(k - 1) \cup {p \in P : p[1] = i}
        BY <3>2
      <3> QED BY <2>1, <3>3
    <2> HIDE DEF i, old, TakenBy
    <2>9. CASE y = n
      <3>1. Free(old, i) = {}
        <4>1. \A x \in 1 .. n : ~(y < x)
          BY <1>4, <2>9
        <4> QED BY <2>6, <4>1
      <3>2. runs[k] = old
        BY <2>2, <2>3, <3>1, PairTakes
      <3>3. \A p \in P : p[1] # i
        <4>1. y \notin 1 .. n - 1
          BY <1>4, <2>9
        <4> QED BY <2>7, <4>1
      <3>4. runs[k] = TakenBy(k)
        <4>1. {p \in P : p[1] = i} = {}
          BY <3>3
        <4> QED BY <2>8, <3>2, <4>1
      <3> QED BY <2>1, <3>4
    <2>10. CASE y # n
      <3> DEFINE z == order[y + 1]
                 q == <<i, z>>
      <3>1. y \in 1 .. n - 1 /\ y + 1 \in 1 .. n /\ y < y + 1
        BY <1>4, <2>10
      <3>2. /\ z \in S /\ z \in Numbers /\ rows[z].time \in Int /\ rows[i].time \in Int
            /\ rows[i].time < rows[z].time /\ rows[z].status = "Logout"
        <4>1. rows[order[y]].time < rows[order[y + 1]].time
          BY <1>9, <3>1
        <4>2. rows[order[y]].status # rows[order[y + 1]].status /\ rows[z].status \in Status
          BY <1>7, <1>9, <3>1
        <4>3. z \in S /\ z \in Numbers /\ rows[z].time \in Int /\ rows[order[y]].time \in Int
          BY <1>9, <3>1
        <4> QED BY <2>3, <2>4, <4>1, <4>2, <4>3 DEF Status
      <3>3. q \in P /\ q[1] = i
        <4>1. q = <<order[y], order[y + 1]>> /\ rows[order[y]].status = "Login"
          BY <2>3, <2>4
        <4> QED BY <1>8, <3>1, <4>1
      <3>4. \A p \in old : p[2] # z
        <4> SUFFICES ASSUME NEW p \in old, p[2] = z PROVE FALSE
          OBVIOUS
        <4>1. p \in P /\ \E x \in 1 .. k - 1 : p[1] = logins[x]
          BY <2>1 DEF TakenBy
        <4>2. PICK x \in 1 .. k - 1 : p[1] = logins[x]
          BY <4>1
        <4>3. PICK w \in 1 .. n - 1 : p = <<order[w], order[w + 1]>>
          BY <1>8, <4>1
        <4>4. w + 1 \in 1 .. n /\ order[w + 1] = order[y + 1]
          BY <1>4, <4>3
        <4>5. w + 1 = y + 1
          BY <1>9, <3>1, <4>4
        <4>6. w = y
          BY <4>5
        <4>7. logins[x] = logins[k]
          BY <2>4, <4>2, <4>3, <4>6 DEF i
        <4>8. x \in 1 .. m /\ x # k
          BY <1>4
        <4> QED BY <1>11, <4>7, <4>8
      <3> HIDE DEF z, q
      <3>5. z \in Free(old, i)
        <4>1. rows[z].time > rows[i].time
          BY <3>2
        <4> QED BY <2>5, <3>2, <3>4, <4>1
      <3>6. PICK j \in Free(old, i) : /\ Pair(old, i) = old \cup {<<i, j>>}
                                      /\ \A l \in Free(old, i) : rows[j].time <= rows[l].time
        BY <2>2, <2>3, <3>5, PairTakes
      <3>7. j = z
        <4>1. PICK x \in 1 .. n : order[x] = j /\ y < x
          BY <2>6
        <4>2. x = y + 1 \/ y + 1 < x
          BY <4>1
        <4>3. CASE y + 1 < x
          <5>1. rows[z].time < rows[j].time /\ rows[j].time <= rows[z].time
            BY <1>9, <3>1, <3>5, <3>6, <4>1, <4>3 DEF z
          <5>2. rows[j].time \in Int
            BY <1>9, <4>1
          <5> QED BY <3>2, <5>1, <5>2
        <4> QED BY <4>1, <4>2, <4>3 DEF z
      <3>8. runs[k] = old \cup {q}
        BY <2>2, <3>6, <3>7 DEF q
      <3>9. \A p \in P : p[1] = i => p = q
        <4>1. q = <<order[y], order[y + 1]>>
          BY <2>4 DEF q, z
        <4> QED BY <2>7, <4>1
      <3>10. runs[k] = TakenBy(k)
        <4>1. {p \in P : p[1] = i} = {q}
          BY <3>3, <3>9
        <4> QED BY <2>8, <3>8, <4>1
      <3> QED BY <2>1, <3>10
    <2> QED BY <2>9, <2>10
  <1> HIDE DEF Good
  <1>14. \A k \in 0 .. m : k \in Good
    BY <1>4, <1>12, <1>13, UpTo
  <1>15. runs[m] = TakenBy(m)
    <2>1. m \in 0 .. m
      BY <1>4
    <2> QED BY <1>14, <2>1 DEF Good
  <1>16. TakenBy(m) = P
    <2>1. ASSUME NEW p \in P PROVE \E x \in 1 .. m : p[1] = logins[x]
      <3>1. PICK x \in 1 .. n - 1 : rows[order[x]].status = "Login" /\ p = <<order[x], order[x + 1]>>
        BY <1>8
      <3>2. x \in 1 .. n
        BY <1>4
      <3>3. p[1] \in ins
        BY <1>6, <1>9, <3>1, <3>2
      <3> QED BY <1>11, <3>3
    <2> QED BY <2>1
  <1> QED BY <1>2, <1>15, <1>16 DEF P, order, n, S

\* The sum over a set is what the fold of the community modules takes it to be.
LEMMA SumOfSessions ==
  ASSUME NEW P, IsFiniteSet(P), NEW h \in [P -> Int], \A p \in P : h[p] = SessionTime(p)
  PROVE  \E f : SumsUp(P, h, f) /\ MapThenSumSet(SessionTime, P) = f[P]
  <1> DEFINE Rec(f) == f = [T \in SUBSET P |->
                              IF T = {} THEN 0
                              ELSE SessionTime(CHOOSE x \in T : TRUE)
                                     + f[T \ {CHOOSE x \in T : TRUE}]]
  <1>1. PICK e : e \in [SUBSET P -> Int] /\ SumsUp(P, h, e)
    BY SumExists
  <1>2. Rec(e)
    <2>1. ASSUME NEW T \in SUBSET P
          PROVE  e[T] = IF T = {} THEN 0 ELSE SessionTime(CHOOSE x \in T : TRUE)
                                                + e[T \ {CHOOSE x \in T : TRUE}]
      <3>1. T # {} => Some(T) \in T /\ h[Some(T)] = SessionTime(Some(T))
        BY DEF Some
      <3>2. e[T] = IF T = {} THEN 0 ELSE h[Some(T)] + e[T \ {Some(T)}]
        BY <1>1 DEF SumsUp
      <3> QED BY <3>1, <3>2 DEF Some
    <2> QED BY <1>1, <2>1
  <1>3. PICK f : f = (CHOOSE g : Rec(g)) /\ Rec(f)
    <2> HIDE DEF Rec
    <2> QED BY <1>2
  <1>4. MapThenSumSet(SessionTime, P) = f[P]
    BY <1>3 DEF MapThenSumSet, MapThenFoldSet
  <1>5. SumsUp(P, h, f)
    <2> SUFFICES ASSUME NEW T \in SUBSET P
                 PROVE  f[T] = IF T = {} THEN 0 ELSE h[Some(T)] + f[T \ {Some(T)}]
      BY DEF SumsUp
    <2>1. T # {} => Some(T) \in T /\ h[Some(T)] = SessionTime(Some(T))
      BY DEF Some
    <2>2. f[T] = IF T = {} THEN 0 ELSE SessionTime(CHOOSE x \in T : TRUE)
                                         + f[T \ {CHOOSE x \in T : TRUE}]
      BY <1>3
    <2> QED BY <2>1, <2>2 DEF Some
  <1> QED BY <1>4, <1>5

LEMMA AddUpWhenApart == Timed => SessionsAddUp
  <1> SUFFICES ASSUME Timed, NEW d \in Days
               PROVE  /\ \A p, q \in Sessions(d) : p # q => p[2] # q[2]
                      /\ (\A k \in 1 .. Len(ByTime(OnDay(d))) - 1 :
                            rows[ByTime(OnDay(d))[k]].status
                              # rows[ByTime(OnDay(d))[k + 1]].status)
                           => MapThenSumSet(SessionTime, Sessions(d)) = ListHours(d)
    BY DEF SessionsAddUp
  <1> DEFINE S == OnDay(d)
             order == ByTime(S)
             n == Cardinality(S)
             P == Visits(order, n)
  <1>1. S \in SUBSET Numbers /\ n \in Nat /\ Sorted(S, order)
    BY DayFacts, SubsetFacts, ByTimeSorts
  <1>2. Len(order) = n
    <2>1. order \in [1 .. n -> S]
      BY <1>1 DEF Sorted
    <2> HIDE DEF order, n, S
    <2> QED BY <1>1, <2>1
  <1>3. \A p, q \in Sessions(d) : p # q => p[2] # q[2]
    BY NoneShared
  <1>4. ASSUME Alternate(order, n) PROVE MapThenSumSet(SessionTime, Sessions(d)) = ListHours(d)
    <2>1. Sessions(d) = P
      BY <1>4, PairingOfVisits
    <2>2. PICK sums : Accounts(S, order, sums) /\ Worked(S) = sums[n].total
      BY <1>1, WorkedByAccount
    <2>3. \A p \in P : p \in Numbers \X Numbers
      <3> SUFFICES ASSUME NEW x \in 1 .. n - 1
                   PROVE  <<order[x], order[x + 1]>> \in Numbers \X Numbers
        BY DEF Visits
      <3>1. x \in 1 .. n /\ x + 1 \in 1 .. n
        BY <1>1
      <3>2. order[x] \in Numbers /\ order[x + 1] \in Numbers
        BY <1>1, <3>1 DEF Sorted
      <3> QED BY <3>2
    <2> DEFINE h == [p \in P |-> SessionTime(p)]
    <2>4. IsFiniteSet(P)
      <3>1. IsFiniteSet(Numbers \X Numbers)
        BY RowFacts, FS_Product
      <3>2. P \subseteq Numbers \X Numbers
        BY <2>3
      <3> HIDE DEF P
      <3> QED BY <3>1, <3>2, FS_Subset
    <2>5. h \in [P -> Int] /\ \A p \in P : h[p] = SessionTime(p)
      <3>1. \A p \in P : SessionTime(p) \in Int
        BY <2>3, RowFacts DEF SessionTime
      <3> HIDE DEF P
      <3> QED BY <3>1
    <2> HIDE DEF h
    <2>6. PICK f : SumsUp(P, h, f) /\ MapThenSumSet(SessionTime, P) = f[P]
      <3> HIDE DEF P
      <3> QED BY <2>4, <2>5, SumOfSessions, Zenon
    <2>7. sums[n].total = f[P]
      BY <1>1, <1>4, <2>2, <2>4, <2>5, <2>6, AccountOfVisits
    <2> QED BY <2>1, <2>2, <2>6, <2>7 DEF ListHours
  <1>5. (\A k \in 1 .. Len(order) - 1 : rows[order[k]].status # rows[order[k + 1]].status)
          => Alternate(order, n)
    BY <1>2 DEF Alternate
  <1> QED BY <1>3, <1>4, <1>5

-----------------------------------------------------------------------------
(* Rows have times of their own                                             *)

\* no two rows, and no request that is about to insert one, have the same time
OwnTimes ==
    /\ \A i, j \in Numbers : rows[i].time = rows[j].time => i = j
    /\ \A w \in Worker, i \in Numbers :
          worker[w].at = "checked" => rows[i].time # worker[w].time
    /\ \A v, w \in Worker :
          worker[v].at = "checked" /\ worker[w].at = "checked" /\ v # w
             => worker[v].time # worker[w].time

LEMMA RowKeepsTimes ==
  ASSUME MarkInv, OwnTimes, NEW row \in Row, Len(rows) < MaxRows, rows' = Append(rows, row),
         \A i \in Numbers : rows[i].time # row.time,
         \A w \in Worker : worker'[w].at = "checked" =>
             worker'[w] = worker[w] /\ worker[w].time # row.time
  PROVE  OwnTimes'
  <1>1. /\ \A i \in Numbers : i \in Numbers' /\ rows'[i] = rows[i]
        /\ Numbers' = Numbers \cup {Len(rows')} /\ rows'[Len(rows')] = row
    BY RowAdded
  <1>a. /\ \A i, j \in Numbers : rows[i].time = rows[j].time => i = j
        /\ \A w \in Worker, i \in Numbers :
              worker[w].at = "checked" => rows[i].time # worker[w].time
    BY DEF OwnTimes
  <1>2. \A i, j \in Numbers' : rows'[i].time = rows'[j].time => i = j
    <2> SUFFICES ASSUME NEW i \in Numbers', NEW j \in Numbers', i # j
                 PROVE  rows'[i].time # rows'[j].time
      OBVIOUS
    <2>1. \A k \in Numbers' : k \notin Numbers => k = Len(rows')
      BY <1>1
    <2>3. CASE i \in Numbers /\ j \in Numbers
      <3>1. rows'[i] = rows[i] /\ rows'[j] = rows[j] /\ rows[i].time # rows[j].time
        BY <1>1, <1>a, <2>3
      <3> QED BY ONLY <3>1
    <2>4. CASE i \in Numbers /\ j \notin Numbers
      BY <1>1, <2>4
    <2>5. CASE i \notin Numbers /\ j \in Numbers
      BY <1>1, <2>5
    <2>6. i \in Numbers \/ j \in Numbers
      BY <2>1
    <2> QED BY <2>3, <2>4, <2>5, <2>6
  <1>3. \A w \in Worker, i \in Numbers' :
           worker'[w].at = "checked" => rows'[i].time # worker'[w].time
    <2> SUFFICES ASSUME NEW w \in Worker, NEW i \in Numbers', worker'[w].at = "checked"
                 PROVE  rows'[i].time # worker'[w].time
      OBVIOUS
    <2>1. worker'[w] = worker[w] /\ worker[w].time # row.time
      OBVIOUS
    <2>2. CASE i \in Numbers
      <3>1. rows'[i] = rows[i] /\ rows[i].time # worker[w].time
        BY <1>1, <1>a, <2>1, <2>2
      <3> QED BY ONLY <2>1, <3>1
    <2>3. CASE i = Len(rows')
      <3>1. rows'[i] = row
        BY <1>1, <2>3
      <3> QED BY ONLY <2>1, <3>1
    <2> QED BY <1>1, <2>2, <2>3
  <1>4. \A v, w \in Worker :
           worker'[v].at = "checked" /\ worker'[w].at = "checked" /\ v # w
              => worker'[v].time # worker'[w].time
    BY DEF OwnTimes
  <1> QED BY <1>2, <1>3, <1>4 DEF OwnTimes

LEMMA CheckKeepsTimes ==
  ASSUME MarkInv, OwnTimes, NEW w \in Worker, NEW time \in Time, NEW status \in Status,
         NEW own \in BOOLEAN, Check(w, time, status, own)
  PROVE  OwnTimes'
  <1> DEFINE new == [at |-> "checked", time |-> time, status |-> status, own |-> own,
                     seen |-> Len(rows)]
  <1>1. /\ worker' = [worker EXCEPT ![w] = new] /\ rows' = rows
        /\ \A i \in Numbers : rows[i].time # time
        /\ \A v \in Worker : worker[v].at = "checked" => worker[v].time # time
    BY DEF Check, Taken
  <1>2. new.time = time
    OBVIOUS
  <1> HIDE DEF new
  <1>3. worker'[w] = new /\ \A u \in Worker \ {w} : worker'[u] = worker[u]
    BY <1>1 DEF MarkInv, TypeOK
  <1> QED BY <1>1, <1>2, <1>3 DEF OwnTimes, Numbers

LEMMA FailsKeepsTimes ==
  ASSUME MarkInv, OwnTimes, NEW w \in Worker, Fails(w)
  PROVE  OwnTimes'
  <1>1. worker' = [worker EXCEPT ![w] = Idle] /\ rows' = rows /\ Idle.at # "checked"
    BY DEF Fails, Idle
  <1>2. worker'[w] = Idle /\ \A u \in Worker \ {w} : worker'[u] = worker[u]
    BY <1>1 DEF MarkInv, TypeOK
  <1> QED BY <1>1, <1>2 DEF OwnTimes, Numbers

LEMMA InsertKeepsTimes ==
  ASSUME MarkInv, OwnTimes, NEW w \in Worker, Insert(w)
  PROVE  OwnTimes'
  <1> DEFINE here == worker[w]
             new == [time |-> here.time, status |-> here.status,
                     sure |-> here.own /\ here.seen = Len(rows)]
  <1>1. /\ here.at = "checked" /\ Len(rows) < MaxRows /\ rows' = Append(rows, new)
        /\ worker' = [worker EXCEPT ![w] = Idle]
    BY DEF Insert
  <1>2. new \in Row /\ new.time = here.time
    BY DEF MarkInv, TypeOK, Row
  <1> HIDE DEF new
  <1>3. worker'[w] = Idle /\ Idle.at # "checked" /\ \A u \in Worker \ {w} : worker'[u] = worker[u]
    BY <1>1 DEF MarkInv, TypeOK, Idle
  <1>4. \A i \in Numbers : rows[i].time # new.time
    BY <1>1, <1>2 DEF OwnTimes
  <1>5. \A u \in Worker : worker'[u].at = "checked" =>
            worker'[u] = worker[u] /\ worker[u].time # new.time
    BY <1>1, <1>2, <1>3 DEF OwnTimes
  <1> QED BY <1>1, <1>2, <1>4, <1>5, RowKeepsTimes

LEMMA StudentKeepsTimes ==
  ASSUME MarkInv, OwnTimes, NEW status \in Status, StudentMarks(status)
  PROVE  OwnTimes'
  <1> DEFINE new == [time |-> now, status |-> status, sure |-> FALSE]
  <1>1. /\ Len(rows) < MaxRows /\ rows' = Append(rows, new) /\ worker' = worker
        /\ \A i \in Numbers : rows[i].time # now
        /\ \A v \in Worker : worker[v].at = "checked" => worker[v].time # now
    BY DEF StudentMarks, Taken
  <1>2. new \in Row /\ new.time = now
    BY DEF MarkInv, TypeOK, Row
  <1> HIDE DEF new
  <1> QED BY <1>1, <1>2, RowKeepsTimes

LEMMA OwnTimesInvariant == Spec => []OwnTimes
  <1>1. Init => OwnTimes
    <2> SUFFICES ASSUME Init PROVE OwnTimes
      OBVIOUS
    <2>1. Numbers = {} /\ \A w \in Worker : worker[w].at # "checked"
      BY DEF Init, Numbers, Idle
    <2> QED BY <2>1 DEF OwnTimes
  <1>2. ASSUME MarkInv, OwnTimes, [Next]_vars PROVE OwnTimes'
    <2>1. CASE Tick \/ UNCHANGED vars
      BY <1>2, <2>1 DEF Tick, vars, OwnTimes, Numbers
    <2>2. ASSUME NEW w \in Worker, Insert(w) \/ Fails(w) PROVE OwnTimes'
      BY <1>2, <2>2, InsertKeepsTimes, FailsKeepsTimes
    <2>3. ASSUME NEW status \in Status, StudentMarks(status) PROVE OwnTimes'
      BY <1>2, <2>3, StudentKeepsTimes
    <2>4. now \in Time /\ \A time \in 0 .. now : time \in Time
      BY <1>2, AttendanceAssumption DEF MarkInv, TypeOK, Time
    <2>5. ASSUME NEW w \in Worker, NEW status \in Status, TrainerMarks(w, status)
          PROVE  OwnTimes'
      <3>1. Check(w, now, status, Day(now) = UtcDay(now))
              /\ (Day(now) = UtcDay(now)) \in BOOLEAN
        BY <2>5 DEF TrainerMarks
      <3> QED BY <1>2, <2>4, <3>1, CheckKeepsTimes
    <2>6. ASSUME NEW w \in Worker, NEW status \in Status, NEW time \in 0 .. now,
                 NEW day \in Days, DatedMarks(w, time, status, day)
          PROVE  OwnTimes'
      <3>1. Check(w, time, status, Day(time) = day) /\ (Day(time) = day) \in BOOLEAN
        BY <2>6 DEF DatedMarks
      <3> QED BY <1>2, <2>4, <3>1, CheckKeepsTimes
    <2>7. ASSUME NEW w \in Worker, NEW time \in 0 .. now, UndeterminedMarks(w, time)
          PROVE  OwnTimes'
      <3>1. Check(w, time, "Login", FALSE) /\ "Login" \in Status /\ FALSE \in BOOLEAN
        BY <2>7 DEF UndeterminedMarks, Status
      <3> QED BY <1>2, <2>4, <3>1, CheckKeepsTimes
    <2> QED BY <1>2, <2>1, <2>2, <2>3, <2>5, <2>6, <2>7 DEF Next
  <1> QED BY <1>1, <1>2, MarkInvariant, PTL DEF Spec

LEMMA TimedInvariant == Spec => []Timed
  <1>1. MarkInv /\ OwnTimes => Timed
    BY DEF MarkInv, TypeOK, OwnTimes, Timed
  <1> QED BY <1>1, MarkInvariant, OwnTimesInvariant, PTL

\* rows only grow, one at a time
LEMMA RowsStep ==
  ASSUME MarkInv, [Next]_vars
  PROVE  rows' = rows \/ \E row \in Row : Len(rows) < MaxRows /\ rows' = Append(rows, row)
  <1>1. ASSUME NEW w \in Worker, Insert(w)
        PROVE  \E row \in Row : Len(rows) < MaxRows /\ rows' = Append(rows, row)
    <2> DEFINE here == worker[w]
               new == [time |-> here.time, status |-> here.status,
                       sure |-> here.own /\ here.seen = Len(rows)]
    <2>1. Len(rows) < MaxRows /\ rows' = Append(rows, new)
      BY <1>1 DEF Insert
    <2>2. new \in Row
      BY <1>1 DEF MarkInv, TypeOK, Row
    <2> HIDE DEF new
    <2> QED BY <2>1, <2>2
  <1>2. ASSUME NEW status \in Status, StudentMarks(status)
        PROVE  \E row \in Row : Len(rows) < MaxRows /\ rows' = Append(rows, row)
    <2> DEFINE new == [time |-> now, status |-> status, sure |-> FALSE]
    <2>1. Len(rows) < MaxRows /\ rows' = Append(rows, new)
      BY <1>2 DEF StudentMarks
    <2>2. new \in Row
      BY DEF MarkInv, TypeOK, Row
    <2> HIDE DEF new
    <2> QED BY <2>1, <2>2
  <1>3. ASSUME NEW w \in Worker,
               \/ Fails(w)
               \/ \E status \in Status : \/ TrainerMarks(w, status)
                                         \/ \E time \in 0 .. now, day \in Days :
                                               DatedMarks(w, time, status, day)
               \/ \E time \in 0 .. now : UndeterminedMarks(w, time)
        PROVE  rows' = rows
    BY <1>3 DEF Fails, TrainerMarks, DatedMarks, UndeterminedMarks, Check
  <1>4. CASE Tick \/ UNCHANGED vars
    BY <1>4 DEF Tick, vars
  <1> QED BY <1>1, <1>2, <1>3, <1>4 DEF Next

-----------------------------------------------------------------------------
(* The hours, of every run                                                  *)

\* Whatever was marked twice, out of order or on the wrong side of midnight, the
\* hours of a day (list and full_logs of the trainer) lie between its first login
\* and its last logout.
THEOREM HoursWithin == Spec => []HoursWithinPresence
  <1>1. Timed => HoursWithinPresence
    <2> SUFFICES ASSUME Timed, NEW d \in Days
                 PROVE  LET ins == With(OnDay(d), "Login")  outs == With(OnDay(d), "Logout") IN
                        /\ ListHours(d) >= 0
                        /\ ListHours(d) > 0 => ListHours(d) <= Latest(outs) - Earliest(ins)
      BY DEF HoursWithinPresence
    <2> QED BY DayFacts, WorkedWithin DEF ListHours
  <1> QED BY <1>1, TimedInvariant, PTL

\* list, full_logs and _trainer_report agree about a day with one login and one
\* logout after it, in the hours of the class and on one day of UTC.
THEOREM HoursAgree == Spec => []ViewsAgree
  BY AgreeWhenOne, TimedInvariant, PTL

\* A student's sessions never share a logout, and where logins and logouts
\* alternate they add up to the hours of the trainer's views.
THEOREM SessionsAdd == Spec => []SessionsAddUp
  BY AddUpWhenApart, TimedInvariant, PTL

\* Hours that were worked are not lost by a row with a later time.
THEOREM HoursAreKept == Spec => HoursKept
  <1> DEFINE Kept == \A d \in Days :
         Len(rows') > Len(rows) /\ (\A i \in Numbers : rows[i].time < Last(rows').time)
            => ListHours(d)' >= ListHours(d)
  <1>1. ASSUME MarkInv, Timed, Timed', [Next]_vars PROVE Kept
    <2> SUFFICES ASSUME NEW d \in Days, Len(rows') > Len(rows),
                        \A i \in Numbers : rows[i].time < Last(rows').time
                 PROVE  ListHours(d)' >= ListHours(d)
      OBVIOUS
    <2>1. PICK order, sums : HoursOf(rows, d, order, sums, ListHours(d))
      BY <1>1, HoursByAccount
    <2>2. PICK after, later : HoursOf(rows', d, after, later, ListHours(d)')
      BY <1>1, HoursByAccountNext
    <2>3. rows \in Seq(Row) /\ Len(rows) \in Nat /\ \A i, j \in 1 .. Len(rows') :
              rows'[i].time = rows'[j].time => i = j
      BY <1>1 DEF Timed, Numbers
    <2>4. PICK row \in Row : Len(rows) < MaxRows /\ rows' = Append(rows, row)
      BY <1>1, <2>3, RowsStep
    <2>5. /\ rows' \in Seq(Row) /\ Len(rows') = Len(rows) + 1
          /\ \A i \in 1 .. Len(rows) : rows'[i] = rows[i]
      BY <1>1, <2>4, RowAdded DEF Numbers
    <2>6. \A i \in 1 .. Len(rows) : rows[i].time < rows'[Len(rows')].time
      BY DEF Last, Numbers
    <2> QED BY <2>1, <2>2, <2>3, <2>5, <2>6, HoursGrow
  <1>2. MarkInv /\ Timed /\ Timed' /\ [Next]_vars => [Kept]_vars
    BY <1>1
  <1> QED BY <1>2, MarkInvariant, TimedInvariant, PTL DEF Spec, HoursKept
=============================================================================

---------------------------- MODULE Broadcast_proofs ----------------------------
(***************************************************************************)
(* Theorems about Broadcast, for every number of leads, workers, triggers,  *)
(* retries and disturbances.                                               *)
(***************************************************************************)
EXTENDS Broadcast, FiniteSetTheorems, TLAPS

-----------------------------------------------------------------------------
(* Copies of a message to a lead: in the broker, in the hands of a worker, on  *)
(* a page that is still to be published                                     *)

Unspent == {"mark", "call", "revert"}      \* may still reach Meta
Busy == Unspent \cup {"store", "fail"}

MailedIn(box, L) == {x \in Message \X Nat : /\ x[1].job = "send" /\ x[1].lead \in L
                                            /\ 1 <= x[2] /\ x[2] <= box[x[1]]}
Mailed(L) == MailedIn(mail, L)
HeldIn(row, L, labels) == {w \in Worker : row[w].pc \in labels /\ row[w].msg.lead \in L}
Held(L, labels) == HeldIn(worker, L, labels)
Paged(L) == {x \in Worker \X L : x[2] \in worker[x[1]].page}
Copies(L, labels) == Cardinality(Mailed(L)) + Cardinality(Held(L, labels)) + Cardinality(Paged(L))

HasCopy(l) == \/ \E m \in Message : m.job = "send" /\ m.lead = l /\ mail[m] > 0
              \/ \E w \in Worker : At(w, "publish") /\ l \in worker[w].page
              \/ \E w \in Worker : worker[w].pc \in Busy /\ To(w) = l

-----------------------------------------------------------------------------
(* The invariant                                                            *)

New == {"none", "pending"}
Done == {"sent", "failed"}

\* what a worker is doing fits the message that it has
Roles == \A w \in Worker :
    /\ worker[w].pc \in Busy => Its(w).job = "send"
    /\ worker[w].pc \in {"page", "publish"} => Its(w).job = "trigger"
    /\ worker[w].pc \in {"count", "complete"} => Its(w).job = "finalize"
    /\ worker[w].page # {} => At(w, "publish")

Finite == IsFiniteSet(Mailed(Lead)) /\ IsFiniteSet(Held(Lead, Busy)) /\ IsFiniteSet(Paged(Lead))

\* a lead has copies only after its row was put on a page
NoneIsNew == \A l \in Lead : HasCopy(l) => recipient[l] \notin New

\* what Meta has, what it may still get, and the row that is still to be paged
Once == \A l \in Lead :
    received[l] + Copies({l}, Unspent) + (IF recipient[l] \in New THEN 1 ELSE 0)
      <= 1 + spent.lost + spent.errors

\* leads that are counted or will be
Reached == {l \in Lead : recipient[l] \in Done \/ HasCopy(l)}

Counting == OneTrigger =>
    /\ Cardinality(With("sent")) <= campaign.sent
    /\ Cardinality(With("failed")) <= campaign.failed
    /\ campaign.sent + campaign.failed + Copies(Lead, Busy) <= Cardinality(Reached) + spent.lost

\* before the first trigger has set the campaign to queued nothing is sent
Quiet == campaign.status = "draft" =>
    /\ \A m \in Message : mail[m] = 0
    /\ \A w \in Worker : worker[w] = Idle
    /\ \A l \in Lead : recipient[l] \in New
    /\ campaign.sent = 0 /\ campaign.failed = 0 /\ cancel = "none"
    /\ \A a \in Admin : request[a].pc # "publish"

Triggered == OneTrigger =>
    /\ \A a, b \in Admin : request[a].pc # "idle" /\ request[b].pc # "idle" => a = b
    /\ (\A a \in Admin : request[a].pc \in {"idle", "seed"}) => \A l \in Lead : recipient[l] = "none"
    /\ \A a \in Admin : request[a].pc \in {"seed", "enqueue"} => campaign.status = "draft"
    /\ \A a \in Admin : request[a].pc = "enqueue" =>
         request[a].count = Cardinality(Lead \ With("none"))
    /\ campaign.status # "draft" => campaign.total = Cardinality(Lead \ With("none"))

Undisturbed == OneTrigger /\ spent.cancels = 0 /\ spent.lost = 0

Completing == Undisturbed =>
    /\ cancel = "none" /\ With("skipped") = {}
    /\ campaign.status = "completed" \/ (\E w \in Worker : At(w, "complete")) =>
         \A l \in Lead : recipient[l] \in Done \cup {"none"}

Inv == /\ TypeOK /\ Roles /\ Finite /\ NoneIsNew
       /\ Once /\ Counting /\ Quiet /\ Triggered /\ Completing

-----------------------------------------------------------------------------
(* Cardinalities                                                            *)

Is(x, S) == IF x \in S THEN 1 ELSE 0
Sends(m) == IF m.job = "send" THEN 1 ELSE 0

LEMMA CardOfSubset ==
  ASSUME NEW S, IsFiniteSet(S), NEW T, T \subseteq S
  PROVE  /\ IsFiniteSet(T) /\ Cardinality(T) \in Nat /\ Cardinality(S) \in Nat
         /\ Cardinality(T) <= Cardinality(S)
  BY FS_Subset, FS_CardinalityType

LEMMA CardWithNew ==
  ASSUME NEW S, IsFiniteSet(S), NEW x, x \notin S
  PROVE  /\ IsFiniteSet(S \cup {x}) /\ Cardinality(S) \in Nat
         /\ Cardinality(S \cup {x}) = Cardinality(S) + 1
  BY FS_AddElement, FS_CardinalityType

LEMMA CardWithout ==
  ASSUME NEW S, IsFiniteSet(S), NEW x \in S
  PROVE  /\ IsFiniteSet(S \ {x}) /\ Cardinality(S) \in Nat \ {0}
         /\ Cardinality(S \ {x}) = Cardinality(S) - 1
  <1>1. Cardinality(S) # 0
    BY FS_EmptySet
  <1>2. QED
    BY <1>1, FS_RemoveElement, FS_CardinalityType

LEMMA CardAtMostOneMore ==
  ASSUME NEW S, IsFiniteSet(S), NEW x, NEW T, T \subseteq S \cup {x}
  PROVE  IsFiniteSet(T) /\ Cardinality(T) \in Nat /\ Cardinality(T) <= Cardinality(S) + 1
  <1>1. /\ IsFiniteSet(S \cup {x}) /\ Cardinality(S) \in Nat
        /\ Cardinality(S \cup {x}) \in Nat /\ Cardinality(S \cup {x}) <= Cardinality(S) + 1
    BY FS_AddElement, FS_CardinalityType
  <1>2. IsFiniteSet(T) /\ Cardinality(T) \in Nat /\ Cardinality(T) <= Cardinality(S \cup {x})
    BY <1>1, CardOfSubset
  <1>3. QED
    BY <1>1, <1>2

LEMMA MessageType ==
  /\ \A m \in Message : m.job \in {"send", "trigger", "finalize"} /\ m.lead \in Lead /\ m.try \in Tries
  /\ AnyLead \in Lead
  /\ \A l \in Lead : Send(l) \in Message /\ Send(l).job = "send" /\ Send(l).lead = l
  /\ \A j \in {"trigger", "finalize"} : Job(j) \in Message /\ Job(j).job = j
  /\ Idle.msg \in Message /\ Idle.pc = "idle" /\ Idle.page = {}
  <1>1. AnyLead \in Lead
    BY BroadcastAssumption DEF AnyLead
  <1>2. 0 \in Tries
    BY BroadcastAssumption DEF Tries
  <1>3. \A j \in {"trigger", "finalize"} : Job(j) \in Message /\ Job(j).job = j
    BY <1>1, <1>2 DEF Job, Message
  <1>4. \A l \in Lead : Send(l) \in Message /\ Send(l).job = "send" /\ Send(l).lead = l
    BY <1>2 DEF Send, Message
  <1>5. \A m \in Message : /\ m.job \in {"send", "trigger", "finalize"} /\ m.lead \in Lead
                           /\ m.try \in Tries
    BY <1>1 DEF Message
  <1>6. Idle.msg \in Message /\ Idle.pc = "idle" /\ Idle.page = {}
    BY <1>3 DEF Idle
  <1>7. QED
    BY <1>1, <1>3, <1>4, <1>5, <1>6

-----------------------------------------------------------------------------
(* Copies: what a step does to them                                         *)

\* one more message in the broker
LEMMA PlusAdds ==
  ASSUME NEW box \in [Message -> Nat], NEW m \in Message, NEW L, IsFiniteSet(MailedIn(box, L))
  PROVE  /\ Plus(box, m) \in [Message -> Nat]
         /\ IsFiniteSet(MailedIn(Plus(box, m), L))
         /\ Cardinality(MailedIn(box, L)) \in Nat
         /\ Cardinality(MailedIn(Plus(box, m), L))
              = Cardinality(MailedIn(box, L)) + (IF m.lead \in L THEN Sends(m) ELSE 0)
  <1> DEFINE more == Plus(box, m)
             x == <<m, box[m] + 1>>
  <1>1. /\ more \in [Message -> Nat] /\ more[m] = box[m] + 1
        /\ \A n \in Message \ {m} : more[n] = box[n]
    BY DEF Plus
  <1>2. box[m] \in Nat /\ box[m] + 1 \in Nat
    OBVIOUS
  <1>3. x \notin MailedIn(box, L)
    BY <1>2 DEF MailedIn
  <1> HIDE DEF more
  <1>4. CASE m.job = "send" /\ m.lead \in L
    <2>1. ASSUME NEW y \in MailedIn(more, L) PROVE y \in MailedIn(box, L) \cup {x}
      <3>1. /\ y \in Message \X Nat /\ y[1].job = "send" /\ y[1].lead \in L
            /\ 1 <= y[2] /\ y[2] <= more[y[1]] /\ y = <<y[1], y[2]>> /\ y[2] \in Nat
        BY <2>1 DEF MailedIn
      <3>2. CASE y[1] = m /\ y[2] = box[m] + 1
        BY <3>1, <3>2
      <3>3. CASE y[1] = m /\ y[2] # box[m] + 1
        <4>1. y[2] <= box[m]
          BY <1>1, <1>2, <3>1, <3>3
        <4>2. QED
          BY <3>1, <3>3, <4>1 DEF MailedIn
      <3>4. CASE y[1] # m
        BY <1>1, <3>1, <3>4 DEF MailedIn
      <3>5. QED
        BY <3>2, <3>3, <3>4
    <2>2. ASSUME NEW y \in MailedIn(box, L) PROVE y \in MailedIn(more, L)
      <3>1. /\ y \in Message \X Nat /\ y[1].job = "send" /\ y[1].lead \in L
            /\ 1 <= y[2] /\ y[2] <= box[y[1]] /\ y[1] \in Message /\ y[2] \in Nat
        BY <2>2 DEF MailedIn
      <3>2. box[y[1]] \in Nat /\ box[y[1]] <= more[y[1]] /\ more[y[1]] \in Nat
        BY <1>1, <1>2, <3>1
      <3>3. y[2] <= more[y[1]]
        BY <3>1, <3>2
      <3>4. QED
        BY <3>1, <3>3 DEF MailedIn
    <2>3. x \in MailedIn(more, L)
      <3>1. x \in Message \X Nat /\ x[1] = m /\ x[2] = box[m] + 1
        BY <1>2
      <3>2. 1 <= x[2] /\ x[2] <= more[m]
        BY <1>1, <1>2, <3>1
      <3> HIDE DEF x
      <3>3. QED
        BY <1>4, <3>1, <3>2 DEF MailedIn
    <2>4. MailedIn(more, L) = MailedIn(box, L) \cup {x}
      BY <2>1, <2>2, <2>3
    <2>5. QED
      BY <1>1, <1>3, <1>4, <2>4, CardWithNew DEF more, Sends
  <1>5. CASE ~(m.job = "send" /\ m.lead \in L)
    <2>1. \A y \in Message \X Nat : y[1].job = "send" /\ y[1].lead \in L => more[y[1]] = box[y[1]]
      BY <1>1, <1>5
    <2>2. MailedIn(more, L) = MailedIn(box, L)
      BY <2>1 DEF MailedIn
    <2>3. QED
      BY <1>1, <1>5, <2>2, FS_CardinalityType DEF more, Sends
  <1>6. QED
    BY <1>4, <1>5

\* box is what the broker holds now and n messages to l more
Gains(box, l, n) ==
    /\ box \in [Message -> Nat]
    /\ \A L \in SUBSET Lead :
         /\ IsFiniteSet(MailedIn(box, L))
         /\ Cardinality(MailedIn(box, L)) = Cardinality(Mailed(L)) + (IF l \in L THEN n ELSE 0)

LEMMA CopiesType ==
  ASSUME Finite, NEW L \in SUBSET Lead, NEW labels \in SUBSET Busy
  PROVE  /\ IsFiniteSet(Mailed(L)) /\ IsFiniteSet(Held(L, labels)) /\ IsFiniteSet(Paged(L))
         /\ Cardinality(Mailed(L)) \in Nat /\ Cardinality(Held(L, labels)) \in Nat
         /\ Cardinality(Paged(L)) \in Nat /\ Copies(L, labels) \in Nat
  <1>1. Mailed(L) \subseteq Mailed(Lead)
    BY DEF Mailed, MailedIn
  <1>2. Held(L, labels) \subseteq Held(Lead, Busy)
    BY DEF Held, HeldIn, To, Its
  <1>3. Paged(L) \subseteq Paged(Lead)
    BY DEF Paged
  <1>4. /\ IsFiniteSet(Mailed(L)) /\ IsFiniteSet(Held(L, labels)) /\ IsFiniteSet(Paged(L))
        /\ Cardinality(Mailed(L)) \in Nat /\ Cardinality(Held(L, labels)) \in Nat
        /\ Cardinality(Paged(L)) \in Nat
    BY <1>1, <1>2, <1>3, CardOfSubset DEF Finite
  <1>5. QED
    BY <1>4 DEF Copies

LEMMA GainsNothing ==
  ASSUME TypeOK, Finite, NEW l
  PROVE  Gains(mail, l, 0)
  <1>1. \A L \in SUBSET Lead : IsFiniteSet(Mailed(L)) /\ Cardinality(Mailed(L)) \in Nat
    BY CopiesType
  <1>2. mail \in [Message -> Nat]
    BY DEF TypeOK
  <1>3. QED
    BY <1>1, <1>2 DEF Gains, Mailed

LEMMA GainsOne ==
  ASSUME Finite, NEW box, NEW l, NEW n \in Int, Gains(box, l, n),
         NEW m \in Message, m.job = "send" => m.lead = l
  PROVE  Gains(Plus(box, m), l, n + Sends(m))
  <1>1. ASSUME NEW L \in SUBSET Lead
        PROVE  /\ Plus(box, m) \in [Message -> Nat]
               /\ IsFiniteSet(MailedIn(Plus(box, m), L))
               /\ Cardinality(MailedIn(Plus(box, m), L))
                    = Cardinality(Mailed(L)) + (IF l \in L THEN n + Sends(m) ELSE 0)
    <2>1. /\ box \in [Message -> Nat] /\ IsFiniteSet(MailedIn(box, L))
          /\ Cardinality(MailedIn(box, L)) = Cardinality(Mailed(L)) + (IF l \in L THEN n ELSE 0)
      BY DEF Gains
    <2>2. /\ Plus(box, m) \in [Message -> Nat] /\ IsFiniteSet(MailedIn(Plus(box, m), L))
          /\ Cardinality(MailedIn(Plus(box, m), L))
               = Cardinality(MailedIn(box, L)) + (IF m.lead \in L THEN Sends(m) ELSE 0)
      BY <2>1, PlusAdds
    <2>3. Cardinality(Mailed(L)) \in Nat
      BY CopiesType
    <2>4. (IF m.lead \in L THEN Sends(m) ELSE 0) = IF l \in L THEN Sends(m) ELSE 0
      BY DEF Sends
    <2>5. QED
      BY <2>1, <2>2, <2>3, <2>4 DEF Sends
  <1>2. Plus(box, m) \in [Message -> Nat]
    BY <1>1
  <1>3. QED
    BY <1>1, <1>2 DEF Gains

LEMMA GainsOneLess ==
  ASSUME TypeOK, Finite, NEW l, NEW m \in Message, mail[m] > 0, m.job = "send" => m.lead = l
  PROVE  Gains([mail EXCEPT ![m] = @ - 1], l, 0 - Sends(m))
  <1> DEFINE less == [mail EXCEPT ![m] = @ - 1]
  <1>1. mail \in [Message -> Nat] /\ mail[m] \in Nat \ {0}
    BY DEF TypeOK
  <1>2. less \in [Message -> Nat] /\ less[m] = mail[m] - 1 /\ \A n \in Message : less[n] <= mail[n]
    BY <1>1
  <1>3. Plus(less, m) = mail
    <2>1. less[m] + 1 = mail[m] /\ \A n \in Message \ {m} : less[n] = mail[n]
      BY <1>1
    <2> HIDE DEF less
    <2>2. /\ Plus(less, m) \in [Message -> Nat] /\ Plus(less, m)[m] = mail[m]
          /\ \A n \in Message \ {m} : Plus(less, m)[n] = mail[n]
      BY <1>1, <1>2, <2>1 DEF Plus
    <2>3. QED
      BY <1>1, <2>2
  <1> HIDE DEF less
  <1>4. ASSUME NEW L \in SUBSET Lead
        PROVE  /\ IsFiniteSet(MailedIn(less, L))
               /\ Cardinality(MailedIn(less, L))
                    = Cardinality(Mailed(L)) + (IF l \in L THEN 0 - Sends(m) ELSE 0)
    <2>1. IsFiniteSet(MailedIn(less, L))
      <3>1. ASSUME NEW x \in MailedIn(less, L) PROVE x \in Mailed(L)
        <4>1. /\ x \in Message \X Nat /\ x[1].job = "send" /\ x[1].lead \in L
              /\ 1 <= x[2] /\ x[2] <= less[x[1]] /\ x[1] \in Message /\ x[2] \in Nat
          BY <3>1 DEF MailedIn
        <4>2. less[x[1]] \in Nat /\ mail[x[1]] \in Nat /\ less[x[1]] <= mail[x[1]]
          BY <1>1, <1>2, <4>1
        <4>3. x[2] <= mail[x[1]]
          BY <4>1, <4>2
        <4>4. QED
          BY <4>1, <4>3 DEF Mailed, MailedIn
      <3>2. MailedIn(less, L) \subseteq Mailed(L)
        BY <3>1
      <3>3. QED
        BY <3>2, CopiesType, CardOfSubset
    <2>2. /\ Cardinality(MailedIn(less, L)) \in Nat
          /\ Cardinality(Mailed(L))
               = Cardinality(MailedIn(less, L)) + (IF m.lead \in L THEN Sends(m) ELSE 0)
      BY <1>2, <1>3, <2>1, PlusAdds DEF Mailed
    <2>3. (IF m.lead \in L THEN Sends(m) ELSE 0) = IF l \in L THEN Sends(m) ELSE 0
      BY DEF Sends
    <2>4. QED
      BY <2>1, <2>2, <2>3 DEF Sends
  <1>5. QED
    BY <1>2, <1>4 DEF Gains, less

\* copies there are of what has a copy
LEMMA CopiesCount ==
  TypeOK /\ Roles /\ Finite => \A l \in Lead : HasCopy(l) <=> Copies({l}, Busy) > 0
  <1> SUFFICES ASSUME TypeOK, Roles, Finite, NEW l \in Lead
               PROVE  HasCopy(l) <=> Copies({l}, Busy) > 0
    OBVIOUS
  <1> DEFINE M == Mailed({l})
             H == Held({l}, Busy)
             P == Paged({l})
  <1>1. /\ IsFiniteSet(M) /\ IsFiniteSet(H) /\ IsFiniteSet(P)
        /\ Cardinality(M) \in Nat /\ Cardinality(H) \in Nat /\ Cardinality(P) \in Nat
    BY CopiesType
  <1>2. M # {} <=> \E m \in Message : m.job = "send" /\ m.lead = l /\ mail[m] > 0
    <2>1. \A x \in M : /\ x[1] \in Message /\ x[1].job = "send" /\ x[1].lead = l
                       /\ x[2] \in Nat /\ 1 <= x[2] /\ x[2] <= mail[x[1]]
      BY DEF Mailed, MailedIn
    <2>2. \A m \in Message : mail[m] \in Nat
      BY DEF TypeOK
    <2>3. ASSUME NEW x \in M PROVE mail[x[1]] > 0
      BY <2>1, <2>2
    <2>4. ASSUME NEW m \in Message, m.job = "send", m.lead = l, mail[m] > 0 PROVE <<m, 1>> \in M
      BY <2>2, <2>4 DEF Mailed, MailedIn
    <2>5. QED
      BY <2>1, <2>3, <2>4
  <1>3. H # {} <=> \E w \in Worker : worker[w].pc \in Busy /\ To(w) = l
    BY DEF Held, HeldIn, To, Its
  <1>4. P # {} <=> \E w \in Worker : At(w, "publish") /\ l \in worker[w].page
    <2>1. \A w \in Worker : l \in worker[w].page => At(w, "publish")
      BY DEF Roles
    <2>2. \A w \in Worker : l \in worker[w].page => <<w, l>> \in P
      BY DEF Paged
    <2>3. \A x \in P : x[1] \in Worker /\ x[2] = l /\ x[2] \in worker[x[1]].page
      BY DEF Paged
    <2>4. QED
      BY <2>1, <2>2, <2>3
  <1>5. (M # {} <=> Cardinality(M) > 0) /\ (H # {} <=> Cardinality(H) > 0)
          /\ (P # {} <=> Cardinality(P) > 0)
    <2>1. ASSUME NEW S, IsFiniteSet(S), Cardinality(S) \in Nat PROVE S # {} <=> Cardinality(S) > 0
      BY <2>1, FS_EmptySet
    <2> HIDE DEF M, H, P
    <2>2. QED
      BY <1>1, <2>1
  <1>6. HasCopy(l) <=> M # {} \/ H # {} \/ P # {}
    BY <1>2, <1>3, <1>4 DEF HasCopy
  <1>7. Copies({l}, Busy) = Cardinality(M) + Cardinality(H) + Cardinality(P)
    BY DEF Copies
  <1> HIDE DEF M, H, P
  <1>8. QED
    BY <1>1, <1>5, <1>6, <1>7

\* d more copies for l, u of which may still reach Meta
Moved(l, d, u) ==
    /\ mail' \in [Message -> Nat] /\ Finite'
    /\ \A L \in SUBSET Lead :
         /\ Copies(L, Busy)' = Copies(L, Busy) + (IF l \in L THEN d ELSE 0)
         /\ Copies(L, Unspent)' = Copies(L, Unspent) + (IF l \in L THEN u ELSE 0)

\* is a worker in this state among those that L and labels count?
In(row, L, labels) == IF row.pc \in labels /\ row.msg.lead \in L THEN 1 ELSE 0

LEMMA HeldChanges ==
  ASSUME TypeOK, Finite, NEW w \in Worker, NEW row, worker' = [worker EXCEPT ![w] = row],
         NEW L \in SUBSET Lead, NEW labels \in SUBSET Busy
  PROVE  /\ IsFiniteSet(HeldIn(worker', L, labels))
         /\ Cardinality(HeldIn(worker', L, labels))
              = Cardinality(Held(L, labels)) + In(row, L, labels) - In(worker[w], L, labels)
  <1> DEFINE H == Held(L, labels)
             H2 == HeldIn(worker', L, labels)
  <1>1. IsFiniteSet(H) /\ Cardinality(H) \in Nat
    BY CopiesType
  <1>2. worker'[w] = row /\ \A v \in Worker \ {w} : worker'[v] = worker[v]
    BY DEF TypeOK
  <1>3. In(worker[w], L, labels) = IF w \in H THEN 1 ELSE 0
    BY DEF Held, HeldIn, In
  <1>4. In(row, L, labels) = IF w \in H2 THEN 1 ELSE 0
    BY <1>2 DEF HeldIn, In
  <1>5. \A v \in Worker \ {w} : v \in H2 <=> v \in H
    BY <1>2 DEF Held, HeldIn
  <1>6. H \subseteq Worker /\ H2 \subseteq Worker
    BY DEF Held, HeldIn
  <1> HIDE DEF H, H2
  <1>7. CASE w \in H <=> w \in H2
    <2>1. H2 = H
      BY <1>5, <1>6, <1>7
    <2>2. QED
      BY <1>1, <1>3, <1>4, <2>1 DEF H, H2
  <1>8. CASE w \in H /\ w \notin H2
    <2>1. H2 = H \ {w}
      BY <1>5, <1>6, <1>8
    <2>2. IsFiniteSet(H2) /\ Cardinality(H2) = Cardinality(H) - 1
      BY <1>1, <1>8, <2>1, CardWithout
    <2>3. QED
      BY <1>1, <1>3, <1>4, <1>8, <2>2 DEF H, H2
  <1>9. CASE w \notin H /\ w \in H2
    <2>1. H2 = H \cup {w}
      BY <1>5, <1>6, <1>9
    <2>2. IsFiniteSet(H2) /\ Cardinality(H2) = Cardinality(H) + 1
      BY <1>1, <1>9, <2>1, CardWithNew
    <2>3. QED
      BY <1>1, <1>3, <1>4, <1>9, <2>2 DEF H, H2
  <1>10. QED
    BY <1>7, <1>8, <1>9

LEMMA RowMoves ==
  ASSUME TypeOK, Finite, NEW w \in Worker, NEW row, worker' = [worker EXCEPT ![w] = row],
         row.page = worker[w].page,
         NEW l, worker[w].pc \in Busy => To(w) = l, row.pc \in Busy => row.msg.lead = l,
         NEW n \in Int, Gains(mail', l, n)
  PROVE  Moved(l, n + Is(row.pc, Busy) - Is(worker[w].pc, Busy),
                  n + Is(row.pc, Unspent) - Is(worker[w].pc, Unspent))
  <1>1. ASSUME NEW L \in SUBSET Lead, NEW labels \in SUBSET Busy
        PROVE  /\ IsFiniteSet(Mailed(L)') /\ IsFiniteSet(Held(L, labels)') /\ IsFiniteSet(Paged(L)')
               /\ Copies(L, labels)' = Copies(L, labels)
                    + (IF l \in L THEN n + Is(row.pc, labels) - Is(worker[w].pc, labels)
                                  ELSE 0)
    <2>1. /\ IsFiniteSet(Held(L, labels)')
          /\ Cardinality(Held(L, labels)')
               = Cardinality(Held(L, labels)) + In(row, L, labels) - In(worker[w], L, labels)
      BY HeldChanges DEF Held
    <2>2. Paged(L)' = Paged(L)
      <3>1. \A v \in Worker : worker'[v].page = worker[v].page
        BY DEF TypeOK
      <3>2. QED
        BY <3>1 DEF Paged
    <2>3. /\ IsFiniteSet(Mailed(L)')
          /\ Cardinality(Mailed(L)') = Cardinality(Mailed(L)) + (IF l \in L THEN n ELSE 0)
      BY DEF Gains, Mailed
    <2>4. /\ Cardinality(Mailed(L)) \in Nat /\ Cardinality(Held(L, labels)) \in Nat
          /\ Cardinality(Paged(L)) \in Nat /\ IsFiniteSet(Paged(L))
      BY CopiesType
    <2>5. Copies(L, labels) = Cardinality(Mailed(L)) + Cardinality(Held(L, labels))
                                + Cardinality(Paged(L))
      BY DEF Copies
    <2>6. Copies(L, labels)' = Cardinality(Mailed(L)') + Cardinality(Held(L, labels)')
                                 + Cardinality(Paged(L)')
      BY DEF Copies
    <2> DEFINE b == Is(row.pc, labels)
               c == Is(worker[w].pc, labels)
    <2>7. b \in Int /\ c \in Int
      BY DEF Is
    <2>8. /\ In(row, L, labels) = IF l \in L THEN b ELSE 0
          /\ In(worker[w], L, labels) = IF l \in L THEN c ELSE 0
      BY DEF In, Is, To, Its
    <2> HIDE DEF b, c
    <2>9. Copies(L, labels)' = Copies(L, labels) + (IF l \in L THEN n + b - c ELSE 0)
      BY <2>1, <2>2, <2>3, <2>4, <2>5, <2>6, <2>7, <2>8
    <2>10. QED
      BY <2>1, <2>2, <2>3, <2>4, <2>9 DEF b, c
  <1>2. Unspent \in SUBSET Busy /\ Busy \in SUBSET Busy /\ Lead \in SUBSET Lead
    BY DEF Busy
  <1>3. Finite'
    BY <1>1, <1>2 DEF Finite
  <1>4. mail' \in [Message -> Nat]
    BY DEF Gains
  <1>5. QED
    BY <1>1, <1>2, <1>3, <1>4 DEF Moved

-----------------------------------------------------------------------------
(* Leads that have copies                                                   *)

LEMMA CopiesCountNext ==
  (TypeOK /\ Roles /\ Finite => \A l \in Lead : HasCopy(l) <=> Copies({l}, Busy) > 0)'
  BY CopiesCount, PTL

LEMMA SpentType ==
  TypeOK => /\ spent.triggers \in Nat /\ spent.cancels \in Nat
            /\ spent.errors \in Nat /\ spent.lost \in Nat
  <1>1. MaxDisturbed \in Nat
    BY BroadcastAssumption
  <1>2. QED
    BY <1>1 DEF TypeOK

LEMMA UnionBound ==
  ASSUME NEW S, IsFiniteSet(S), NEW T, IsFiniteSet(T)
  PROVE  /\ IsFiniteSet(S \cup T) /\ Cardinality(S \cup T) \in Nat
         /\ Cardinality(S \cup T) <= Cardinality(S) + Cardinality(T)
  <1>1. /\ Cardinality(S \cup T) = Cardinality(S) + Cardinality(T) - Cardinality(S \cap T)
        /\ IsFiniteSet(S \cup T) /\ IsFiniteSet(S \cap T)
    BY FS_Union, FS_Intersection
  <1>2. /\ Cardinality(S) \in Nat /\ Cardinality(T) \in Nat /\ Cardinality(S \cap T) \in Nat
        /\ Cardinality(S \cup T) \in Nat
    BY <1>1, FS_CardinalityType
  <1>3. QED
    BY <1>1, <1>2

\* no more leads have copies than there are copies
LEMMA CopiesOfLeads ==
  ASSUME TypeOK, Roles, Finite
  PROVE  LET K == {l \in Lead : HasCopy(l)} IN
         IsFiniteSet(K) /\ Cardinality(K) \in Nat /\ Cardinality(K) <= Copies(Lead, Busy)
  <1> DEFINE M == Mailed(Lead)
             H == Held(Lead, Busy)
             P == Paged(Lead)
             KM == {x[1].lead : x \in M}
             KH == {To(w) : w \in H}
             KP == {x[2] : x \in P}
             K == {l \in Lead : HasCopy(l)}
  <1>1. /\ IsFiniteSet(M) /\ IsFiniteSet(H) /\ IsFiniteSet(P)
        /\ Cardinality(M) \in Nat /\ Cardinality(H) \in Nat /\ Cardinality(P) \in Nat
    BY CopiesType
  <1>2. IsFiniteSet(KM) /\ Cardinality(KM) <= Cardinality(M)
    <2> DEFINE f == [x \in M |-> x[1].lead]
    <2> HIDE DEF M
    <2>1. f \in Surjection(M, KM)
      BY DEF Surjection
    <2>2. QED
      BY <1>1, <2>1, FS_Surjection
  <1>3. IsFiniteSet(KH) /\ Cardinality(KH) <= Cardinality(H)
    <2> DEFINE f == [w \in H |-> To(w)]
    <2> HIDE DEF H
    <2>1. f \in Surjection(H, KH)
      BY DEF Surjection
    <2>2. QED
      BY <1>1, <2>1, FS_Surjection
  <1>4. IsFiniteSet(KP) /\ Cardinality(KP) <= Cardinality(P)
    <2> DEFINE f == [x \in P |-> x[2]]
    <2> HIDE DEF P
    <2>1. f \in Surjection(P, KP)
      BY DEF Surjection
    <2>2. QED
      BY <1>1, <2>1, FS_Surjection
  <1>5. K \subseteq (KM \cup KH) \cup KP
    <2>1. ASSUME NEW m \in Message, m.job = "send", mail[m] > 0 PROVE m.lead \in KM
      <3>1. mail[m] \in Nat /\ m.lead \in Lead
        BY MessageType DEF TypeOK
      <3>2. <<m, 1>> \in M /\ <<m, 1>>[1] = m
        BY <2>1, <3>1 DEF Mailed, MailedIn
      <3> HIDE DEF M
      <3>3. QED
        BY <3>2
    <2>2. ASSUME NEW w \in Worker, NEW l \in Lead, l \in worker[w].page PROVE l \in KP
      <3>1. <<w, l>> \in P /\ <<w, l>>[2] = l
        BY <2>2 DEF Paged
      <3> HIDE DEF P
      <3>2. QED
        BY <3>1
    <2>3. ASSUME NEW w \in Worker, NEW l \in Lead, worker[w].pc \in Busy, To(w) = l PROVE l \in KH
      BY <2>3 DEF Held, HeldIn, To, Its
    <2> HIDE DEF KM, KH, KP
    <2>4. QED
      BY <2>1, <2>2, <2>3 DEF HasCopy
  <1> HIDE DEF M, H, P, KM, KH, KP, K
  <1>6. /\ Cardinality(KM) \in Nat /\ Cardinality(KH) \in Nat /\ Cardinality(KP) \in Nat
    BY <1>2, <1>3, <1>4, FS_CardinalityType
  <1>7. /\ IsFiniteSet(KM \cup KH) /\ Cardinality(KM \cup KH) \in Nat
        /\ Cardinality(KM \cup KH) <= Cardinality(KM) + Cardinality(KH)
    BY <1>2, <1>3, <1>6, UnionBound
  <1>8. /\ IsFiniteSet((KM \cup KH) \cup KP)
        /\ Cardinality((KM \cup KH) \cup KP) <= Cardinality(KM \cup KH) + Cardinality(KP)
    BY <1>4, <1>6, <1>7, UnionBound
  <1>9. /\ IsFiniteSet(K) /\ Cardinality(K) \in Nat /\ Cardinality((KM \cup KH) \cup KP) \in Nat
        /\ Cardinality(K) <= Cardinality((KM \cup KH) \cup KP)
    BY <1>5, <1>8, CardOfSubset
  <1>10. Copies(Lead, Busy) = Cardinality(M) + Cardinality(H) + Cardinality(P)
    BY DEF Copies, M, H, P
  <1>11. Cardinality(K) <= Copies(Lead, Busy)
    BY <1>1, <1>2, <1>3, <1>4, <1>6, <1>7, <1>8, <1>9, <1>10
  <1>12. QED
    BY <1>9, <1>11 DEF K

\* Nobody has an outcome and a copy, unless a worker was lost.
LEMMA CopyIsNotDone ==
  ASSUME TypeOK, Roles, Finite, Counting, OneTrigger, spent.lost = 0,
         NEW l \in Lead, HasCopy(l)
  PROVE  recipient[l] \notin Done
  <1> DEFINE K == {k \in Lead : HasCopy(k)}
             D == With("sent") \cup With("failed")
  <1>1. IsFiniteSet(K) /\ Cardinality(K) \in Nat /\ Cardinality(K) <= Copies(Lead, Busy)
    BY CopiesOfLeads
  <1>2. /\ IsFiniteSet(With("sent")) /\ IsFiniteSet(With("failed"))
        /\ Cardinality(With("sent")) \in Nat /\ Cardinality(With("failed")) \in Nat
        /\ With("sent") \cap With("failed") = {}
    BY BroadcastAssumption, FS_Subset, FS_CardinalityType DEF With
  <1>3. /\ IsFiniteSet(D) /\ Cardinality(D) \in Nat
        /\ Cardinality(D) = Cardinality(With("sent")) + Cardinality(With("failed"))
    <2>1. Cardinality(With("sent") \cap With("failed")) = 0
      BY <1>2, FS_EmptySet
    <2>2. /\ IsFiniteSet(D)
          /\ Cardinality(D) = Cardinality(With("sent")) + Cardinality(With("failed"))
                               - Cardinality(With("sent") \cap With("failed"))
      BY <1>2, FS_Union
    <2>3. QED
      BY <1>2, <2>1, <2>2
  <1>4. Reached = D \cup K
    BY DEF Reached, Done, With
  <1> HIDE DEF K, D
  <1>5. Cardinality(D \cup K) = Cardinality(D) + Cardinality(K) - Cardinality(D \cap K)
    BY <1>1, <1>3, FS_Union
  <1>6. IsFiniteSet(D \cap K) /\ Cardinality(D \cap K) \in Nat
    BY <1>1, FS_Subset, FS_CardinalityType
  <1>7. campaign.sent \in Nat /\ campaign.failed \in Nat /\ Copies(Lead, Busy) \in Nat
    BY CopiesType DEF TypeOK
  <1>8. Cardinality(D \cap K) = 0
    BY <1>1, <1>2, <1>3, <1>4, <1>5, <1>6, <1>7 DEF Counting
  <1>9. D \cap K = {}
    BY <1>6, <1>8, FS_EmptySet
  <1>10. QED
    BY <1>9 DEF D, K, With, Done

-----------------------------------------------------------------------------
(* Parts of the invariant                                                   *)

LEMMA OnceKeeps ==
  ASSUME TypeOK, Finite, Once, NEW l, NEW d \in Int, NEW u \in Int, NEW r \in Int,
         Moved(l, d, u),
         \A k \in Lead : received'[k] = received[k] + (IF k = l THEN r ELSE 0),
         \A k \in Lead : recipient'[k] \in New => recipient[k] \in New,
         spent'.lost \in Nat, spent'.errors \in Nat,
         spent.lost + spent.errors <= spent'.lost + spent'.errors,
         u + r <= (spent'.lost + spent'.errors) - (spent.lost + spent.errors)
  PROVE  Once'
  <1> DEFINE pending(k) == IF recipient[k] \in New THEN 1 ELSE 0
             C(k) == Copies({k}, Unspent)
  <1>1. ASSUME NEW k \in Lead
        PROVE  received'[k] + C(k)' + pending(k)' <= 1 + spent'.lost + spent'.errors
    <2>1. {k} \in SUBSET Lead /\ Unspent \in SUBSET Busy
      BY DEF Busy
    <2>2. C(k)' = C(k) + (IF k = l THEN u ELSE 0)
      BY <2>1 DEF Moved
    <2>3. C(k) \in Nat
      BY <2>1, CopiesType
    <2>4. received[k] \in Nat
      BY DEF TypeOK
    <2>5. pending(k) \in {0, 1} /\ pending(k)' \in {0, 1} /\ pending(k)' <= pending(k)
      OBVIOUS
    <2>6. received[k] + C(k) + pending(k) <= 1 + spent.lost + spent.errors
      BY DEF Once
    <2>7. received'[k] = received[k] + (IF k = l THEN r ELSE 0)
      OBVIOUS
    <2>8. spent.lost \in Nat /\ spent.errors \in Nat
      BY SpentType
    <2> HIDE DEF C, pending
    <2>9. QED
      BY <2>2, <2>3, <2>4, <2>5, <2>6, <2>7, <2>8
  <1>2. QED
    BY <1>1 DEF Once

\* a step that moves copies of one lead, or of none
LEMMA CountingKeeps ==
  ASSUME TypeOK, Roles, Finite, Counting, TypeOK', Roles',
         NEW l \in Lead, NEW d \in Int, NEW u, NEW c \in Int, Moved(l, d, u),
         OneTrigger' => OneTrigger,
         \A k \in Lead \ {l} : recipient[k] \in Done => recipient'[k] \in Done,
         OneTrigger' => /\ Cardinality(With("sent"))' <= campaign'.sent
                        /\ Cardinality(With("failed"))' <= campaign'.failed,
         campaign'.sent + campaign'.failed = campaign.sent + campaign.failed + c,
         \/ c + d <= spent'.lost - spent.lost /\ (l \in Reached => l \in Reached')
         \/ c + d + 1 <= spent'.lost - spent.lost
  PROVE  Counting'
  <1>1. ASSUME NEW k \in Lead \ {l}, k \in Reached PROVE k \in Reached'
    <2>1. CASE recipient[k] \in Done
      BY <2>1 DEF Reached
    <2>2. CASE HasCopy(k)
      <3>1. Copies({k}, Busy) > 0
        BY <2>2, CopiesCount
      <3>2. Copies({k}, Busy)' = Copies({k}, Busy)
        <4>1. {k} \in SUBSET Lead /\ Copies({k}, Busy) \in Nat
          BY CopiesType
        <4>2. QED
          BY <4>1 DEF Moved
      <3>3. (Copies({k}, Busy) > 0)'
        BY <3>1, <3>2
      <3>4. HasCopy(k)'
        BY <3>3, CopiesCountNext DEF Moved
      <3>5. QED
        BY <3>4 DEF Reached
    <2>3. QED
      BY <1>1, <2>1, <2>2 DEF Reached
  <1>2. IsFiniteSet(Reached') /\ Cardinality(Reached') \in Nat /\ Cardinality(Reached) \in Nat
    <2>1. Reached \subseteq Lead /\ Reached' \subseteq Lead
      BY DEF Reached
    <2>2. QED
      BY <2>1, BroadcastAssumption, CardOfSubset
  <1>3. Copies(Lead, Busy)' = Copies(Lead, Busy) + d
    BY DEF Moved
  <1>4. /\ Copies(Lead, Busy) \in Nat /\ campaign.sent \in Nat /\ campaign.failed \in Nat
        /\ spent.lost \in Nat /\ spent'.lost \in Nat
    <2>1. campaign.sent \in Nat /\ campaign.failed \in Nat
      BY DEF TypeOK
    <2>2. spent'.lost \in Nat
      BY BroadcastAssumption DEF TypeOK
    <2>3. QED
      BY <2>1, <2>2, SpentType, CopiesType
  <1>5. Reached \subseteq Reached' \cup {l}
    BY <1>1 DEF Reached
  <1>6. \/ /\ c + d <= spent'.lost - spent.lost
           /\ Cardinality(Reached) <= Cardinality(Reached')
        \/ /\ c + d + 1 <= spent'.lost - spent.lost
           /\ Cardinality(Reached) <= Cardinality(Reached') + 1
    <2>1. Cardinality(Reached) <= Cardinality(Reached') + 1
      BY <1>2, <1>5, CardAtMostOneMore
    <2>2. ASSUME l \in Reached => l \in Reached'
          PROVE  Cardinality(Reached) <= Cardinality(Reached')
      <3>1. Reached \subseteq Reached'
        BY <1>5, <2>2
      <3>2. QED
        BY <1>2, <3>1, CardOfSubset
    <2>3. QED
      BY <2>1, <2>2
  <1>7. ASSUME OneTrigger'
        PROVE  campaign'.sent + campaign'.failed + Copies(Lead, Busy)'
                 <= Cardinality(Reached') + spent'.lost
    <2>1. campaign.sent + campaign.failed + Copies(Lead, Busy)
            <= Cardinality(Reached) + spent.lost
      BY <1>7 DEF Counting
    <2>2. campaign'.sent + campaign'.failed + Copies(Lead, Busy)'
            = campaign.sent + campaign.failed + c + Copies(Lead, Busy) + d
      BY <1>3, <1>4
    <2>3. QED
      BY <1>2, <1>4, <1>6, <2>1, <2>2
  <1>8. QED
    BY <1>7 DEF Counting

LEMMA DisturbedCounts ==
  ASSUME TypeOK, NEW kind \in {"triggers", "cancels", "errors", "lost"}, Disturbed(kind)
  PROVE  /\ spent' \in [{"triggers", "cancels", "errors", "lost"} -> 0 .. MaxDisturbed]
         /\ spent'[kind] = spent[kind] + 1
         /\ \A k \in {"triggers", "cancels", "errors", "lost"} : k # kind => spent'[k] = spent[k]
  <1>1. MaxDisturbed \in Nat
    BY BroadcastAssumption
  <1>2. /\ spent \in [{"triggers", "cancels", "errors", "lost"} -> 0 .. MaxDisturbed]
        /\ \A k \in {"triggers", "cancels", "errors", "lost"} :
             spent[k] \in Nat /\ spent[k] <= MaxDisturbed
    BY <1>1 DEF TypeOK
  <1>3. spent.triggers + spent.cancels + spent.errors + spent.lost < MaxDisturbed
          /\ spent' = [spent EXCEPT ![kind] = @ + 1]
    BY DEF Disturbed
  <1>4. spent[kind] + 1 \in 0 .. MaxDisturbed
    <2>1. /\ spent.triggers \in Nat /\ spent.cancels \in Nat /\ spent.errors \in Nat
          /\ spent.lost \in Nat
      BY <1>2
    <2>2. spent[kind] < MaxDisturbed
      BY <1>1, <1>3, <2>1
    <2>3. QED
      BY <1>1, <1>2, <2>2
  <1>5. QED
    BY <1>2, <1>3, <1>4

\* A step after the campaign was queued leaves alone what the trigger did.
LEMMA TriggerStays ==
  ASSUME Quiet, Triggered, campaign.status # "draft", campaign'.status # "draft",
         campaign'.total = campaign.total, UNCHANGED request,
         \A k \in Lead : recipient'[k] = "none" <=> recipient[k] = "none",
         OneTrigger' => OneTrigger
  PROVE  Quiet' /\ Triggered'
  <1>1. With("none")' = With("none")
    BY DEF With
  <1>2. Quiet'
    BY DEF Quiet
  <1>3. Triggered'
    BY <1>1 DEF Triggered
  <1>4. QED
    BY <1>2, <1>3

LEMMA CompletingKeeps ==
  ASSUME Completing, Undisturbed' => Undisturbed, UNCHANGED cancel,
         \A k \in Lead : recipient'[k] = "skipped" => recipient[k] = "skipped",
         Undisturbed => \/ recipient' = recipient
                        \/ /\ campaign.status # "completed" /\ campaign'.status # "completed"
                           /\ \A w \in Worker : ~At(w, "complete") /\ ~At(w, "complete")',
         Undisturbed /\ (campaign'.status = "completed" \/ (\E w \in Worker : At(w, "complete")'))
           => \/ campaign.status = "completed" \/ \E w \in Worker : At(w, "complete")
              \/ \A k \in Lead : recipient[k] \in Done \cup {"none"}
  PROVE  Completing'
  BY DEF Completing, With

\* Once somebody sends or completes, the campaign is no draft any more.
LEMMA NoDraft ==
  ASSUME Quiet, NEW w \in Worker, worker[w].pc # "idle" \/ \E m \in Message : mail[m] > 0
  PROVE  campaign.status # "draft"
  BY MessageType DEF Quiet

\* a lead in the hands of a worker
LEMMA HolderHasCopy ==
  ASSUME Inv, NEW w \in Worker, worker[w].pc \in Busy
  PROVE  /\ To(w) \in Lead /\ Its(w) \in Message /\ Its(w).job = "send" /\ Its(w).lead = To(w)
         /\ HasCopy(To(w)) /\ recipient[To(w)] \notin New /\ worker[w].page = {}
         /\ To(w) \in Reached
         /\ Undisturbed => /\ recipient[To(w)] \notin Done \cup {"none"}
                           /\ campaign.status # "completed"
                           /\ \A v \in Worker : ~At(v, "complete")
  <1>1. To(w) \in Lead /\ Its(w) \in Message /\ Its(w).job = "send" /\ Its(w).lead = To(w)
    BY MessageType DEF Inv, TypeOK, Roles, To, Its
  <1>2. HasCopy(To(w))
    BY <1>1 DEF HasCopy
  <1>3. recipient[To(w)] \notin New
    BY <1>1, <1>2 DEF Inv, NoneIsNew
  <1>4. worker[w].page = {}
    BY DEF Inv, Roles, At, Busy, Unspent
  <1>5. To(w) \in Reached
    BY <1>1, <1>2 DEF Reached
  <1>6. ASSUME Undisturbed
        PROVE  /\ recipient[To(w)] \notin Done \cup {"none"} /\ campaign.status # "completed"
               /\ \A v \in Worker : ~At(v, "complete")
    <2>1. recipient[To(w)] \notin Done
      BY <1>1, <1>2, <1>6, CopyIsNotDone DEF Inv, Undisturbed
    <2>2. recipient[To(w)] \notin Done \cup {"none"}
      BY <1>3, <2>1 DEF New
    <2>3. QED
      BY <1>1, <1>6, <2>2 DEF Inv, Completing
  <1>7. QED
    BY <1>1, <1>2, <1>3, <1>4, <1>5, <1>6

-----------------------------------------------------------------------------
(* Steps of a worker that holds a message to a lead                         *)

WorkerRow == [pc : Label, msg : Message, page : SUBSET Lead]

\* n messages for lead l go back to the broker, its row becomes status, r copies
\* reach Meta and c outcomes are counted
SendStep(w, l, row, n, status, r, c) ==
    /\ worker' = [worker EXCEPT ![w] = row]
    /\ row = Idle \/ (row.pc \in Busy /\ row.msg = worker[w].msg /\ row.page = {})
    /\ Gains(mail', l, n)
    /\ recipient' = [recipient EXCEPT ![l] = status]
    /\ status = "skipped" => recipient[l] = "skipped"
    /\ received' = [received EXCEPT ![l] = @ + r]
    /\ UNCHANGED <<request, cancel>>
    /\ campaign'.status = campaign.status /\ campaign'.total = campaign.total
    /\ campaign'.sent + campaign'.failed = campaign.sent + campaign.failed + c
    /\ campaign'.sent >= campaign.sent /\ campaign'.failed >= campaign.failed
    /\ status = "sent" => recipient[l] = "sent" \/ campaign'.sent = campaign.sent + 1
    /\ status = "failed" => recipient[l] = "failed" \/ campaign'.failed = campaign.failed + 1
    /\ c > 0 => status \in Done
    /\ spent'.triggers = spent.triggers /\ spent'.cancels = spent.cancels
    /\ spent'.lost >= spent.lost /\ spent'.errors >= spent.errors
    /\ c + n + Is(row.pc, Busy) <= 1 + (spent'.lost - spent.lost)
    /\ r + n + Is(row.pc, Unspent)
         <= Is(worker[w].pc, Unspent) + (spent'.lost - spent.lost) + (spent'.errors - spent.errors)

LEMMA SendStepKeeps ==
  ASSUME Inv, NEW w \in Worker, worker[w].pc \in Busy, NEW l, To(w) = l, TypeOK',
         NEW row, NEW n \in Nat, NEW s \in RecipientStatus \ New, NEW r \in Nat, NEW c \in Nat,
         SendStep(w, l, row, n, s, r, c)
  PROVE  Inv'
  <1> USE DEF SendStep
  <1> DEFINE d == n + Is(row.pc, Busy) - Is(worker[w].pc, Busy)
             u == n + Is(row.pc, Unspent) - Is(worker[w].pc, Unspent)
  <1>1. /\ l \in Lead /\ Its(w) \in Message /\ Its(w).job = "send"
        /\ HasCopy(l) /\ recipient[l] \notin New /\ worker[w].page = {} /\ l \in Reached
        /\ Undisturbed => /\ recipient[l] \notin Done \cup {"none"}
                          /\ campaign.status # "completed"
                          /\ \A v \in Worker : ~At(v, "complete")
    BY HolderHasCopy
  <1>2. /\ TypeOK /\ Roles /\ Finite /\ NoneIsNew /\ Once /\ Counting /\ Quiet /\ Triggered
        /\ Completing
    BY DEF Inv
  <1>3. row.pc \notin Busy => row = Idle
    OBVIOUS
  <1>4. /\ row.page = worker[w].page
        /\ row.pc \in Busy => row.msg.lead = l
        /\ row.pc # "complete"
    BY <1>1, MessageType DEF Its, To, Busy, Unspent
  <1>5. Is(worker[w].pc, Busy) = 1 /\ Is(row.pc, Busy) \in {0, 1} /\ Is(row.pc, Unspent) \in {0, 1}
        /\ Is(worker[w].pc, Unspent) \in {0, 1}
    BY DEF Is
  <1>6. d \in Int /\ u \in Int /\ d = n + Is(row.pc, Busy) - 1
    BY <1>5
  <1>7. Moved(l, d, u)
    <2>1. /\ row.page = worker[w].page /\ n \in Int
          /\ row.pc \in Busy => row.msg.lead = l
      BY <1>4
    <2>2. QED
      BY <1>2, <2>1, RowMoves
  <1> HIDE DEF d, u
  <1>8. /\ worker'[w] = row /\ \A v \in Worker \ {w} : worker'[v] = worker[v]
        /\ recipient'[l] = s /\ \A k \in Lead \ {l} : recipient'[k] = recipient[k]
    BY <1>2 DEF TypeOK
  <1>9. Roles'
    <2>1. /\ row.pc \in Busy => row.msg.job = "send"
          /\ row.pc \notin {"page", "publish", "count", "complete"}
          /\ row.page = {}
      BY <1>1, <1>4, MessageType DEF Its, Busy, Unspent
    <2>2. QED
      BY <1>2, <1>8, <2>1 DEF Roles, Its, At
  <1>10. Finite'
    BY <1>7 DEF Moved
  <1>11. NoneIsNew'
    <2>1. ASSUME NEW k \in Lead \ {l}, HasCopy(k)' PROVE recipient'[k] \notin New
      <3>1. (Copies({k}, Busy) > 0)'
        BY <1>9, <1>10, <2>1, CopiesCountNext
      <3>2. Copies({k}, Busy)' = Copies({k}, Busy)
        <4>1. {k} \in SUBSET Lead /\ Copies({k}, Busy) \in Nat
          BY <1>2, CopiesType
        <4>2. QED
          BY <1>7, <4>1 DEF Moved
      <3>3. HasCopy(k)
        BY <1>2, <3>1, <3>2, CopiesCount
      <3>4. QED
        BY <1>2, <1>8, <3>3 DEF NoneIsNew
    <2>2. QED
      BY <1>8, <2>1 DEF NoneIsNew
  <1>12. /\ spent.lost \in Nat /\ spent.errors \in Nat /\ spent'.lost \in Nat
         /\ spent'.errors \in Nat
    <2>1. MaxDisturbed \in Nat
      BY BroadcastAssumption
    <2>2. spent'.lost \in Nat /\ spent'.errors \in Nat
      BY <2>1 DEF TypeOK
    <2>3. QED
      BY <1>2, <2>2, SpentType
  <1>13. Once'
    <2>1. \A k \in Lead : received'[k] = received[k] + (IF k = l THEN r ELSE 0)
      <3>1. \A k \in Lead : received[k] \in Nat
        BY <1>2 DEF TypeOK
      <3>2. received \in [Lead -> Nat]
        BY <1>2 DEF TypeOK
      <3>3. QED
        BY <1>1, <3>1, <3>2
    <2>2. \A k \in Lead : recipient'[k] \in New => recipient[k] \in New
      BY <1>8
    <2>3. spent.lost + spent.errors <= spent'.lost + spent'.errors
      BY <1>12
    <2>4. u + r <= (spent'.lost + spent'.errors) - (spent.lost + spent.errors)
      BY <1>5, <1>12 DEF u
    <2>5. QED
      BY <1>2, <1>6, <1>7, <1>12, <2>1, <2>2, <2>3, <2>4, OnceKeeps
  <1>14. /\ campaign.sent \in Nat /\ campaign.failed \in Nat
         /\ campaign'.sent \in Nat /\ campaign'.failed \in Nat
    BY <1>2 DEF TypeOK
  <1>15. Counting'
    <2>1. OneTrigger' => OneTrigger
      BY DEF OneTrigger
    <2>2. ASSUME OneTrigger'
          PROVE  /\ Cardinality(With("sent"))' <= campaign'.sent
                 /\ Cardinality(With("failed"))' <= campaign'.failed
      <3>1. /\ Cardinality(With("sent")) <= campaign.sent
            /\ Cardinality(With("failed")) <= campaign.failed
        BY <1>2, <2>1, <2>2 DEF Counting
      <3>2. \A st \in Done : IsFiniteSet(With(st)) /\ Cardinality(With(st)) \in Nat
        BY BroadcastAssumption, FS_Subset, FS_CardinalityType DEF With
      <3>3. ASSUME NEW st \in Done
            PROVE  /\ Cardinality(With(st)') \in Nat
                   /\ s # st \/ recipient[l] = st => Cardinality(With(st)') <= Cardinality(With(st))
                   /\ Cardinality(With(st)') <= Cardinality(With(st)) + 1
        <4>1. With(st)' \subseteq With(st) \cup {l}
          BY <1>8 DEF With
        <4>2. s # st \/ recipient[l] = st => With(st)' \subseteq With(st)
          BY <1>1, <1>8 DEF With
        <4>3. QED
          BY <3>2, <4>1, <4>2, CardAtMostOneMore, CardOfSubset
      <3>4. "sent" \in Done /\ "failed" \in Done
        BY DEF Done
      <3>5. Cardinality(With("sent")') <= campaign'.sent
        <4>1. CASE s # "sent" \/ recipient[l] = "sent"
          BY <1>14, <3>1, <3>2, <3>3, <3>4, <4>1
        <4>2. CASE campaign'.sent = campaign.sent + 1
          BY <1>14, <3>1, <3>2, <3>3, <3>4, <4>2
        <4>3. QED
          BY <4>1, <4>2
      <3>6. Cardinality(With("failed")') <= campaign'.failed
        <4>1. CASE s # "failed" \/ recipient[l] = "failed"
          BY <1>14, <3>1, <3>2, <3>3, <3>4, <4>1
        <4>2. CASE campaign'.failed = campaign.failed + 1
          BY <1>14, <3>1, <3>2, <3>3, <3>4, <4>2
        <4>3. QED
          BY <4>1, <4>2
      <3>7. QED
        BY <3>5, <3>6
    <2>3. \/ c + d <= spent'.lost - spent.lost /\ (l \in Reached => l \in Reached')
          \/ c + d + 1 <= spent'.lost - spent.lost
      <3>1. c + d <= spent'.lost - spent.lost
        BY <1>5, <1>6, <1>12
      <3>2. CASE c = 0 /\ n = 0 /\ Is(row.pc, Busy) = 0
        BY <1>6, <1>12, <3>2
      <3>3. CASE c > 0
        <4>1. recipient'[l] \in Done
          BY <1>8, <3>3
        <4>2. QED
          BY <1>1, <3>1, <4>1 DEF Reached
      <3>4. CASE n > 0 \/ Is(row.pc, Busy) = 1
        <4>1. {l} \in SUBSET Lead /\ Copies({l}, Busy) \in Nat /\ Copies({l}, Busy) > 0
          BY <1>1, <1>2, CopiesType, CopiesCount
        <4>2. Copies({l}, Busy)' = Copies({l}, Busy) + d
          BY <1>7, <4>1 DEF Moved
        <4>3. d >= 0
          BY <1>5, <1>6, <3>4
        <4>4. (Copies({l}, Busy) > 0)'
          <5>1. (Copies({l}, Busy))' > 0
            BY <1>6, <4>1, <4>2, <4>3
          <5>2. QED
            BY <5>1
        <4>5. HasCopy(l)'
          BY <1>1, <1>9, <1>10, <4>4, CopiesCountNext
        <4>6. QED
          BY <1>1, <3>1, <4>5 DEF Reached
      <3>5. QED
        BY <1>5, <3>2, <3>3, <3>4
    <2>4. \A k \in Lead \ {l} : recipient[k] \in Done => recipient'[k] \in Done
      BY <1>8
    <2>5. c \in Int
      OBVIOUS
    <2>6. QED
      BY <1>1, <1>2, <1>6, <1>7, <1>9, <2>1, <2>2, <2>3, <2>4, <2>5, CountingKeeps
  <1>16. campaign.status # "draft"
    <2>1. worker[w].pc # "idle"
      BY DEF Busy, Unspent
    <2>2. QED
      BY <1>2, <2>1, NoDraft
  <1>17. Quiet' /\ Triggered'
    <2>1. \A k \in Lead : recipient'[k] = "none" <=> recipient[k] = "none"
      BY <1>1, <1>8 DEF New
    <2>2. OneTrigger' => OneTrigger
      BY DEF OneTrigger
    <2>3. QED
      BY <1>2, <1>16, <2>1, <2>2, TriggerStays
  <1>18. Completing'
    <2>1. Undisturbed' => Undisturbed
      BY <1>12 DEF Undisturbed, OneTrigger
    <2>2. \A k \in Lead : recipient'[k] = "skipped" => recipient[k] = "skipped"
      BY <1>1, <1>8
    <2>3. Undisturbed => /\ campaign.status # "completed" /\ campaign'.status # "completed"
                         /\ \A v \in Worker : ~At(v, "complete") /\ ~At(v, "complete")'
      BY <1>1, <1>4, <1>8 DEF At
    <2>4. QED
      BY <1>2, <2>1, <2>2, <2>3, CompletingKeeps
  <1>19. QED
    BY <1>9, <1>10, <1>11, <1>13, <1>15, <1>17, <1>18 DEF Inv

-----------------------------------------------------------------------------
(* Types                                                                    *)

Limits == {SendRetries, ErrorRetries, CheckRetries}

LEMMA TriesType ==
  ASSUME NEW limit \in Limits, NEW m \in Message
  PROVE  /\ limit \in Nat /\ m.try \in Nat
         /\ m.try < limit => [m EXCEPT !.try = @ + 1] \in Message
         /\ [m EXCEPT !.try = @ + 1].job = m.job /\ [m EXCEPT !.try = @ + 1].lead = m.lead
  <1>1. SendRetries \in Nat /\ ErrorRetries \in Nat /\ CheckRetries \in Nat
    BY BroadcastAssumption
  <1>2. Tries \subseteq Nat
    BY <1>1 DEF Tries
  <1>3. m.try \in Nat /\ limit \in Nat
    BY <1>1, <1>2, MessageType DEF Limits
  <1>4. m.try < limit => m.try + 1 \in Tries
    BY <1>1, <1>3 DEF Tries, Limits
  <1>5. m.try < limit => [m EXCEPT !.try = @ + 1] \in Message
    BY <1>4 DEF Message
  <1>6. [m EXCEPT !.try = @ + 1].job = m.job /\ [m EXCEPT !.try = @ + 1].lead = m.lead
    BY DEF Message
  <1>7. QED
    BY <1>3, <1>5, <1>6

\* a retry puts the message back at most once
LEMMA RetriedType ==
  ASSUME TypeOK, NEW limit \in Limits, NEW m \in Message
  PROVE  /\ Retried(m, limit) \in [Message -> Nat]
         /\ \/ Retried(m, limit) = mail
            \/ \E t \in Message : /\ t.job = m.job /\ t.lead = m.lead
                                  /\ Retried(m, limit) = Plus(mail, t)
  <1>1. \A t \in Message : Plus(mail, t) \in [Message -> Nat]
    BY DEF TypeOK, Plus
  <1>2. mail \in [Message -> Nat]
    BY DEF TypeOK
  <1>3. CASE m.try < limit
    <2> DEFINE t == [m EXCEPT !.try = @ + 1]
    <2>1. t \in Message /\ t.job = m.job /\ t.lead = m.lead
      BY <1>3, TriesType
    <2>2. Retried(m, limit) = Plus(mail, t)
      BY <1>3 DEF Retried
    <2> HIDE DEF t
    <2>3. QED
      BY <1>1, <2>1, <2>2
  <1>4. CASE ~(m.try < limit)
    BY <1>2, <1>4 DEF Retried
  <1>5. QED
    BY <1>3, <1>4

LEMMA EndTypes ==
  ASSUME TypeOK, NEW w, NEW m \in Message, NEW box \in [Message -> Nat], End(w, m, box)
  PROVE  /\ mail' \in [Message -> Nat]
         /\ worker' \in [Worker -> WorkerRow]
         /\ spent' \in [{"triggers", "cancels", "errors", "lost"} -> 0 .. MaxDisturbed]
  <1>1. worker' \in [Worker -> WorkerRow]
    BY MessageType DEF End, TypeOK, WorkerRow, Label, Idle
  <1>2. Plus(box, m) \in [Message -> Nat]
    BY DEF Plus
  <1>3. QED
    BY <1>1, <1>2, DisturbedCounts DEF End, TypeOK

LEMMA EndInErrorTypes ==
  ASSUME TypeOK, NEW w, NEW box \in [Message -> Nat], EndInError(w, box)
  PROVE  /\ mail' \in [Message -> Nat]
         /\ worker' \in [Worker -> WorkerRow]
         /\ spent' \in [{"triggers", "cancels", "errors", "lost"} -> 0 .. MaxDisturbed]
  <1>1. worker' \in [Worker -> WorkerRow]
    BY MessageType DEF EndInError, TypeOK, WorkerRow, Label, Idle
  <1>2. QED
    BY <1>1, DisturbedCounts DEF EndInError, Error, TypeOK

LEMMA TakeTypes ==
  ASSUME TypeOK, NEW w, NEW m \in Message, NEW label \in Label, Take(w, m, label)
  PROVE  /\ mail' \in [Message -> Nat] /\ worker' \in [Worker -> WorkerRow]
  <1>1. mail \in [Message -> Nat] /\ mail[m] \in Nat /\ mail[m] > 0
    BY DEF TypeOK, Take
  <1>2. mail[m] - 1 \in Nat
    BY <1>1
  <1>3. mail' \in [Message -> Nat]
    BY <1>1, <1>2 DEF Take
  <1>4. QED
    BY <1>3 DEF TypeOK, Take, WorkerRow

LEMMA AskTypes ==
  ASSUME TypeOK, NEW a \in Admin, Ask(a) \/ Serve(a)
  PROVE  TypeOK'
  <1>1. CASE Trigger(a)
    BY <1>1, DisturbedCounts DEF Trigger, TypeOK
  <1>2. CASE FireFails(a)
    BY <1>2, DisturbedCounts DEF FireFails, Error, TypeOK
  <1>3. ASSUME NEW audience \in SUBSET Lead, Seed(a, audience) PROVE TypeOK'
    <2>1. Cardinality(audience) \in 0 .. Cardinality(Lead)
      BY BroadcastAssumption, CardOfSubset
    <2>2. recipient' \in [Lead -> RecipientStatus]
      BY <1>3 DEF Seed, TypeOK, RecipientStatus, InFlight
    <2>3. request' \in [Admin -> [pc : {"idle", "seed", "enqueue", "publish", "done"},
                                  count : 0 .. Cardinality(Lead)]]
      BY <1>3, <2>1 DEF Seed, TypeOK
    <2>4. QED
      BY <1>3, <2>2, <2>3 DEF Seed, TypeOK
  <1>4. CASE Enqueue(a)
    BY <1>4 DEF Enqueue, TypeOK, CampaignStatus
  <1>5. CASE Fire(a)
    <2>1. mail' \in [Message -> Nat]
      BY <1>5, MessageType DEF Fire, TypeOK, Plus
    <2>2. request' \in [Admin -> [pc : {"idle", "seed", "enqueue", "publish", "done"},
                                  count : 0 .. Cardinality(Lead)]]
      BY <1>5 DEF Fire, TypeOK
    <2>3. QED
      BY <1>5, <2>1, <2>2 DEF Fire, TypeOK
  <1>6. QED
    BY <1>1, <1>2, <1>3, <1>4, <1>5 DEF Ask, Serve

LEMMA CancelTypes ==
  ASSUME TypeOK, AskCancel \/ Cancel \/ Expire
  PROVE  TypeOK'
  <1>1. CASE AskCancel
    BY <1>1, DisturbedCounts DEF AskCancel, TypeOK
  <1>2. CASE Cancel
    <2>1. recipient' \in [Lead -> RecipientStatus]
      BY <1>2 DEF Cancel, TypeOK, RecipientStatus, Settled
    <2>2. QED
      BY <1>2, <2>1 DEF Cancel, TypeOK, CampaignStatus
  <1>3. CASE Expire
    BY <1>3 DEF Expire, TypeOK
  <1>4. QED
    BY <1>1, <1>2, <1>3

\* what a worker holds
LEMMA WorkerType ==
  ASSUME TypeOK, NEW w \in Worker
  PROVE  /\ worker[w] \in WorkerRow /\ worker[w].pc \in Label
         /\ Its(w) \in Message /\ To(w) \in Lead /\ worker[w].page \in SUBSET Lead
  BY MessageType DEF TypeOK, WorkerRow, Its, To

LEMMA GotoTypes ==
  ASSUME TypeOK, NEW w \in Worker, NEW label \in Label, Goto(w, label)
  PROVE  worker' \in [Worker -> WorkerRow]
  BY DEF Goto, TypeOK, WorkerRow

\* a worker's row after its label and its page have changed, in either order
Marked(w, label, page) == [worker EXCEPT ![w].pc = label, ![w].page = page]
Turned(w, label, page) == [worker EXCEPT ![w].page = page, ![w].pc = label]
Row(w, label, page) == [pc |-> label, msg |-> Its(w), page |-> page]

LEMMA RowChanges ==
  ASSUME TypeOK, NEW w \in Worker, NEW label, NEW page
  PROVE  /\ Marked(w, label, page) = [worker EXCEPT ![w] = Row(w, label, page)]
         /\ Turned(w, label, page) = [worker EXCEPT ![w] = Row(w, label, page)]
  <1> DEFINE row == [pc |-> label, msg |-> Its(w), page |-> page]
  <1>1. worker[w] = [pc |-> worker[w].pc, msg |-> Its(w), page |-> worker[w].page]
    BY DEF TypeOK, Its
  <1>2. /\ [[worker[w] EXCEPT !.pc = label] EXCEPT !.page = page] = row
        /\ [[worker[w] EXCEPT !.page = page] EXCEPT !.pc = label] = row
    <2> DEFINE labelled == [pc |-> label, msg |-> Its(w), page |-> worker[w].page]
               paged == [pc |-> worker[w].pc, msg |-> Its(w), page |-> page]
    <2>1. [worker[w] EXCEPT !.pc = label] = labelled /\ [worker[w] EXCEPT !.page = page] = paged
      BY <1>1
    <2>2. [labelled EXCEPT !.page = page] = row /\ [paged EXCEPT !.pc = label] = row
      OBVIOUS
    <2> HIDE DEF labelled, paged, row
    <2>3. QED
      BY <2>1, <2>2
  <1>3. worker = [v \in Worker |-> worker[v]]
    BY DEF TypeOK
  <1>4. [worker EXCEPT ![w].pc = label, ![w].page = page]
          = [worker EXCEPT ![w] = [[worker[w] EXCEPT !.pc = label] EXCEPT !.page = page]]
    BY <1>3
  <1>5. [worker EXCEPT ![w].page = page, ![w].pc = label]
          = [worker EXCEPT ![w] = [[worker[w] EXCEPT !.page = page] EXCEPT !.pc = label]]
    BY <1>3
  <1>6. QED
    BY <1>2, <1>4, <1>5 DEF Marked, Turned, Row

LEMMA GotoRow ==
  ASSUME TypeOK, NEW w \in Worker, NEW label, Goto(w, label)
  PROVE  worker' = [worker EXCEPT ![w] = Row(w, label, worker[w].page)]
  <1> DEFINE row == Row(w, label, worker[w].page)
  <1>1. worker[w] = [pc |-> worker[w].pc, msg |-> Its(w), page |-> worker[w].page]
    BY DEF TypeOK, Its
  <1>2. [worker[w] EXCEPT !.pc = label] = row
    BY <1>1 DEF Row
  <1>3. worker' = [worker EXCEPT ![w] = [worker[w] EXCEPT !.pc = label]]
    BY DEF Goto, TypeOK
  <1> HIDE DEF row
  <1>4. QED
    BY <1>2, <1>3 DEF row

LEMMA TaskTypes ==
  ASSUME TypeOK, NEW w \in Worker,
         \/ \E m \in Message : Start(w, m) \/ Skip(w, m) \/ Load(w, m) \/ Check(w, m)
         \/ \E page \in SUBSET Lead : Page(w, page)
         \/ \E l \in Lead : PublishSend(w, l)
         \/ Schedule(w)
         \/ Recheck(w) \/ NoneInFlight(w) \/ Complete(w)
         \/ EnqueueRaises(w) \/ Lose(w)
  PROVE  TypeOK'
  <1>1. ASSUME NEW m \in Message, Start(w, m) \/ Load(w, m) \/ Check(w, m) PROVE TypeOK'
    <2>1. mail' \in [Message -> Nat] /\ worker' \in [Worker -> WorkerRow]
      BY <1>1, TakeTypes DEF Start, Load, Check, Label
    <2>2. campaign' \in [status : CampaignStatus, total : 0 .. Cardinality(Lead),
                         sent : Nat, failed : Nat]
      BY <1>1 DEF Start, Load, Check, TypeOK, CampaignStatus
    <2>3. QED
      BY <1>1, <2>1, <2>2 DEF Start, Load, Check, TypeOK, WorkerRow
  <1>2. ASSUME NEW m \in Message, Skip(w, m) PROVE TypeOK'
    <2>1. [mail EXCEPT ![m] = @ - 1] \in [Message -> Nat]
      <3>1. mail \in [Message -> Nat] /\ mail[m] > 0 /\ mail[m] \in Nat
        BY <1>2 DEF Skip, TypeOK
      <3>2. mail[m] - 1 \in Nat
        BY <3>1
      <3>3. QED
        BY <3>1, <3>2
    <2>2. /\ mail' \in [Message -> Nat] /\ worker' \in [Worker -> WorkerRow]
          /\ spent' \in [{"triggers", "cancels", "errors", "lost"} -> 0 .. MaxDisturbed]
      BY <1>2, <2>1, EndTypes DEF Skip
    <2>3. QED
      BY <1>2, <2>2 DEF Skip, TypeOK, WorkerRow
  <1>3. ASSUME NEW page \in SUBSET Lead, Page(w, page) PROVE TypeOK'
    <2>1. recipient' \in [Lead -> RecipientStatus]
      BY <1>3 DEF Page, TypeOK, RecipientStatus, InFlight
    <2>2. worker' \in [Worker -> WorkerRow]
      <3>1. Row(w, "publish", page) \in WorkerRow
        BY WorkerType DEF Row, WorkerRow, Label
      <3>2. worker' = Marked(w, "publish", page)
        BY <1>3 DEF Page, Marked
      <3>3. worker' = [worker EXCEPT ![w] = Row(w, "publish", page)]
        BY <3>2, RowChanges
      <3>4. QED
        BY <3>1, <3>3 DEF TypeOK, WorkerRow
    <2>3. QED
      BY <1>3, <2>1, <2>2 DEF Page, TypeOK, WorkerRow
  <1>4. ASSUME NEW l \in Lead, PublishSend(w, l) PROVE TypeOK'
    <2>1. worker' \in [Worker -> WorkerRow]
      <3> DEFINE label == IF worker[w].page = {l} THEN "page" ELSE "publish"
                 rest == worker[w].page \ {l}
      <3>1. Row(w, label, rest) \in WorkerRow
        BY WorkerType DEF Row, WorkerRow, Label
      <3>2. worker' = Turned(w, label, rest)
        BY <1>4 DEF PublishSend, Turned
      <3> HIDE DEF label, rest
      <3>3. worker' = [worker EXCEPT ![w] = Row(w, label, rest)]
        BY <3>2, RowChanges
      <3>4. QED
        BY <3>1, <3>3 DEF TypeOK, WorkerRow
    <2>2. mail' \in [Message -> Nat]
      <3>1. mail' = Plus(mail, Send(l)) /\ Send(l) \in Message /\ mail \in [Message -> Nat]
        BY <1>4, MessageType DEF PublishSend, TypeOK
      <3>2. QED
        BY <3>1 DEF Plus
    <2>3. QED
      BY <1>4, <2>1, <2>2 DEF PublishSend, TypeOK, WorkerRow
  <1>5. CASE Schedule(w)
    <2>1. /\ mail \in [Message -> Nat] /\ Plus(mail, Job("finalize")) \in [Message -> Nat]
      BY MessageType DEF TypeOK, Plus
    <2>2. /\ mail' \in [Message -> Nat] /\ worker' \in [Worker -> WorkerRow]
          /\ spent' \in [{"triggers", "cancels", "errors", "lost"} -> 0 .. MaxDisturbed]
      BY <1>5, <2>1, EndTypes, EndInErrorTypes, WorkerType DEF Schedule
    <2>3. QED
      BY <1>5, <2>2 DEF Schedule, TypeOK, WorkerRow
  <1>6. CASE Recheck(w)
    <2>1. /\ mail' \in [Message -> Nat] /\ worker' \in [Worker -> WorkerRow]
          /\ spent' \in [{"triggers", "cancels", "errors", "lost"} -> 0 .. MaxDisturbed]
      BY <1>6, RetriedType, EndTypes, WorkerType DEF Recheck, Limits
    <2>2. QED
      BY <1>6, <2>1 DEF Recheck, TypeOK, WorkerRow
  <1>7. CASE NoneInFlight(w)
    <2>1. worker' \in [Worker -> WorkerRow]
      BY <1>7, GotoTypes DEF NoneInFlight, Label
    <2>2. QED
      BY <1>7, <2>1 DEF NoneInFlight, TypeOK, WorkerRow
  <1>8. CASE Complete(w)
    <2>1. mail \in [Message -> Nat]
      BY DEF TypeOK
    <2>2. /\ mail' \in [Message -> Nat] /\ worker' \in [Worker -> WorkerRow]
          /\ spent' \in [{"triggers", "cancels", "errors", "lost"} -> 0 .. MaxDisturbed]
      BY <1>8, <2>1, EndTypes, WorkerType DEF Complete
    <2>3. QED
      BY <1>8, <2>2 DEF Complete, TypeOK, WorkerRow, CampaignStatus
  <1>9. CASE EnqueueRaises(w)
    <2>1. /\ mail' \in [Message -> Nat] /\ worker' \in [Worker -> WorkerRow]
          /\ spent' \in [{"triggers", "cancels", "errors", "lost"} -> 0 .. MaxDisturbed]
      BY <1>9, RetriedType, EndInErrorTypes, WorkerType DEF EnqueueRaises, Limits
    <2>2. QED
      BY <1>9, <2>1 DEF EnqueueRaises, TypeOK, WorkerRow, CampaignStatus
  <1>10. CASE Lose(w)
    <2>1. mail' \in [Message -> Nat]
      BY <1>10, WorkerType DEF Lose, TypeOK, Plus
    <2>2. worker' \in [Worker -> WorkerRow]
      BY <1>10, MessageType DEF Lose, TypeOK, WorkerRow, Label, Idle
    <2>3. spent' \in [{"triggers", "cancels", "errors", "lost"} -> 0 .. MaxDisturbed]
      BY <1>10, DisturbedCounts DEF Lose
    <2>4. QED
      BY <1>10, <2>1, <2>2, <2>3 DEF Lose, TypeOK, WorkerRow
  <1>11. QED
    BY <1>1, <1>2, <1>3, <1>4, <1>5, <1>6, <1>7, <1>8, <1>9, <1>10

LEMMA SendTypes ==
  ASSUME TypeOK, NEW w \in Worker,
         \/ MarkSending(w) \/ Accepted(w) \/ Refused(w) \/ RateLimited(w) \/ ReplyLost(w)
         \/ Revert(w) \/ OnSuccess(w) \/ OnFailure(w) \/ Transient(w)
  PROVE  TypeOK'
  <1>1. To(w) \in Lead /\ Its(w) \in Message /\ mail \in [Message -> Nat]
    BY WorkerType DEF TypeOK
  <1>2. \A s \in {"sending", "queued", "sent", "failed"} :
          [recipient EXCEPT ![To(w)] = s] \in [Lead -> RecipientStatus]
    BY DEF TypeOK, RecipientStatus, InFlight, Settled
  <1>3. [received EXCEPT ![To(w)] = @ + 1] \in [Lead -> Nat]
    BY <1>1 DEF TypeOK
  <1>4. \A label \in Label : Goto(w, label) => worker' \in [Worker -> WorkerRow]
    BY GotoTypes
  <1>5. CASE MarkSending(w)
    <2>1. worker' \in [Worker -> WorkerRow]
      BY <1>4, <1>5 DEF MarkSending, Label
    <2>2. QED
      BY <1>2, <1>5, <2>1 DEF MarkSending, TypeOK, WorkerRow
  <1>6. CASE Accepted(w)
    <2>1. worker' \in [Worker -> WorkerRow]
      BY <1>4, <1>6 DEF Accepted, Label
    <2>2. QED
      BY <1>3, <1>6, <2>1 DEF Accepted, TypeOK, WorkerRow
  <1>7. CASE Refused(w)
    <2>1. worker' \in [Worker -> WorkerRow]
      BY <1>4, <1>7 DEF Refused, Label
    <2>2. QED
      BY <1>7, <2>1 DEF Refused, TypeOK, WorkerRow
  <1>8. CASE RateLimited(w)
    <2>1. worker' \in [Worker -> WorkerRow]
      BY <1>4, <1>8 DEF RateLimited, Label
    <2>2. QED
      BY <1>8, <2>1 DEF RateLimited, TypeOK, WorkerRow
  <1>9. CASE ReplyLost(w)
    <2>1. worker' \in [Worker -> WorkerRow]
      <3>1. worker' = worker \/ Goto(w, "fail")
        BY <1>9 DEF ReplyLost, Goto
      <3>2. worker \in [Worker -> WorkerRow] /\ "fail" \in Label
        BY DEF TypeOK, WorkerRow, Label
      <3>3. QED
        BY <1>4, <3>1, <3>2
    <2>2. spent' \in [{"triggers", "cancels", "errors", "lost"} -> 0 .. MaxDisturbed]
      BY <1>9, DisturbedCounts DEF ReplyLost, Error
    <2>3. QED
      BY <1>3, <1>9, <2>1, <2>2 DEF ReplyLost, TypeOK, WorkerRow
  <1>10. CASE Revert(w)
    <2>1. /\ mail' \in [Message -> Nat] /\ worker' \in [Worker -> WorkerRow]
          /\ spent' \in [{"triggers", "cancels", "errors", "lost"} -> 0 .. MaxDisturbed]
      BY <1>1, <1>10, RetriedType, EndTypes DEF Revert, Limits
    <2>2. abandoned' \in BOOLEAN
      BY <1>10 DEF Revert, GivesUp, TypeOK
    <2>3. QED
      BY <1>2, <1>10, <2>1, <2>2 DEF Revert, TypeOK, WorkerRow
  <1>11. CASE OnSuccess(w)
    <2>1. CASE Error /\ Goto(w, "fail") /\ UNCHANGED <<recipient, campaign, mail>>
      <3>1. worker' \in [Worker -> WorkerRow]
        BY <1>4, <2>1 DEF Label
      <3>2. spent' \in [{"triggers", "cancels", "errors", "lost"} -> 0 .. MaxDisturbed]
        BY <2>1, DisturbedCounts DEF Error
      <3>3. QED
        BY <1>11, <2>1, <3>1, <3>2 DEF OnSuccess, TypeOK, WorkerRow
    <2>2. CASE /\ End(w, Its(w), mail) /\ recipient' = [recipient EXCEPT ![To(w)] = "sent"]
               /\ campaign' = [campaign EXCEPT !.sent = @ + 1]
      <3>1. /\ mail' \in [Message -> Nat] /\ worker' \in [Worker -> WorkerRow]
            /\ spent' \in [{"triggers", "cancels", "errors", "lost"} -> 0 .. MaxDisturbed]
        BY <1>1, <2>2, EndTypes
      <3>2. campaign' \in [status : CampaignStatus, total : 0 .. Cardinality(Lead),
                           sent : Nat, failed : Nat]
        BY <2>2 DEF TypeOK
      <3>3. QED
        BY <1>2, <1>11, <2>2, <3>1, <3>2 DEF OnSuccess, TypeOK, WorkerRow
    <2>3. QED
      BY <1>11, <2>1, <2>2 DEF OnSuccess
  <1>12. CASE OnFailure(w)
    <2>1. /\ mail' \in [Message -> Nat] /\ worker' \in [Worker -> WorkerRow]
          /\ spent' \in [{"triggers", "cancels", "errors", "lost"} -> 0 .. MaxDisturbed]
      BY <1>1, <1>12, EndTypes DEF OnFailure
    <2>2. campaign' \in [status : CampaignStatus, total : 0 .. Cardinality(Lead),
                         sent : Nat, failed : Nat]
      BY <1>12 DEF OnFailure, TypeOK
    <2>3. QED
      BY <1>2, <1>12, <2>1, <2>2 DEF OnFailure, TypeOK, WorkerRow
  <1>13. CASE Transient(w)
    <2>1. /\ mail' \in [Message -> Nat] /\ worker' \in [Worker -> WorkerRow]
          /\ spent' \in [{"triggers", "cancels", "errors", "lost"} -> 0 .. MaxDisturbed]
      BY <1>1, <1>13, RetriedType, EndInErrorTypes DEF Transient, Limits
    <2>2. abandoned' \in BOOLEAN
      BY <1>13 DEF Transient, GivesUp, TypeOK
    <2>3. QED
      BY <1>13, <2>1, <2>2 DEF Transient, TypeOK, WorkerRow
  <1>14. QED
    BY <1>5, <1>6, <1>7, <1>8, <1>9, <1>10, <1>11, <1>12, <1>13

-----------------------------------------------------------------------------
(* The steps of a send task                                                 *)

LEMMA RetriedGains ==
  ASSUME TypeOK, Finite, NEW limit \in Limits, NEW m \in Message, NEW l,
         m.job = "send" => m.lead = l
  PROVE  Gains(Retried(m, limit), l, 0) \/ Gains(Retried(m, limit), l, Sends(m))
  <1>1. Gains(mail, l, 0)
    BY GainsNothing
  <1>2. ASSUME NEW t \in Message, t.job = m.job, t.lead = m.lead
        PROVE  Gains(Plus(mail, t), l, Sends(m))
    <2>1. Gains(Plus(mail, t), l, 0 + Sends(t))
      BY <1>1, <1>2, GainsOne
    <2>2. 0 + Sends(t) = Sends(m)
      BY <1>2 DEF Sends
    <2>3. QED
      BY <2>1, <2>2
  <1>3. QED
    BY <1>1, <1>2, RetriedType

\* a task ends, with its message back in the broker if its worker is lost
LEMMA EndGains ==
  ASSUME Finite, NEW w, NEW m \in Message, NEW box, NEW l, NEW n \in Int, Gains(box, l, n),
         m.job = "send" => m.lead = l, End(w, m, box)
  PROVE  /\ worker' = [worker EXCEPT ![w] = Idle]
         /\ \/ UNCHANGED spent /\ Gains(mail', l, n)
            \/ Disturbed("lost") /\ Gains(mail', l, n + Sends(m))
  <1>1. Gains(Plus(box, m), l, n + Sends(m))
    BY GainsOne
  <1>2. QED
    BY <1>1 DEF End

LEMMA IsOfLabel ==
  /\ \A x \in Unspent : Is(x, Unspent) = 1 /\ Is(x, Busy) = 1
  /\ \A x \in {"store", "fail"} : Is(x, Unspent) = 0 /\ Is(x, Busy) = 1
  /\ \A x \in {"idle", "page", "publish", "count", "complete"} :
       Is(x, Unspent) = 0 /\ Is(x, Busy) = 0
  /\ Is(Idle.pc, Unspent) = 0 /\ Is(Idle.pc, Busy) = 0
  BY DEF Is, Unspent, Busy, Idle

\* The task of a send ends: n messages for its lead are in the broker again.
LEMMA SendEnds ==
  ASSUME Inv, NEW w \in Worker, worker[w].pc \in Busy, NEW l, To(w) = l, TypeOK',
         NEW box, NEW n \in Nat, Gains(box, l, n), End(w, Its(w), box),
         NEW s \in RecipientStatus \ New, recipient' = [recipient EXCEPT ![l] = s],
         s # "skipped", UNCHANGED <<request, cancel, received>>,
         campaign'.status = campaign.status, campaign'.total = campaign.total,
         NEW c \in Nat, campaign'.sent + campaign'.failed = campaign.sent + campaign.failed + c,
         campaign'.sent >= campaign.sent, campaign'.failed >= campaign.failed,
         s = "sent" => campaign'.sent = campaign.sent + 1,
         s = "failed" => campaign'.failed = campaign.failed + 1,
         c > 0 => s \in Done, c + n <= 1, n <= Is(worker[w].pc, Unspent)
  PROVE  Inv'
  <1>1. /\ To(w) \in Lead /\ Its(w) \in Message /\ Its(w).job = "send" /\ Its(w).lead = To(w)
        /\ n \in Int
    BY HolderHasCopy
  <1>2. TypeOK /\ Finite
    BY DEF Inv
  <1>3. /\ worker' = [worker EXCEPT ![w] = Idle]
        /\ \/ UNCHANGED spent /\ Gains(mail', l, n)
           \/ Disturbed("lost") /\ Gains(mail', l, n + Sends(Its(w)))
    BY <1>1, <1>2, EndGains
  <1>4. Sends(Its(w)) = 1
    BY <1>1 DEF Sends
  <1>5. received' = [received EXCEPT ![l] = @ + 0]
    <2>1. received \in [Lead -> Nat]
      BY <1>2 DEF TypeOK
    <2>2. received[l] + 0 = received[l]
      BY <1>1, <2>1
    <2>3. QED
      BY <1>1, <2>1, <2>2
  <1>6. /\ spent.triggers \in Nat /\ spent.cancels \in Nat
        /\ spent.errors \in Nat /\ spent.lost \in Nat
    BY <1>2, SpentType
  <1>7. Is(worker[w].pc, Unspent) \in Nat
    BY DEF Is
  <1>8. CASE UNCHANGED spent /\ Gains(mail', l, n)
    <2>1. /\ spent'.triggers = spent.triggers /\ spent'.cancels = spent.cancels
          /\ spent'.lost = spent.lost /\ spent'.errors = spent.errors
      BY <1>8
    <2>2. /\ spent'.lost >= spent.lost /\ spent'.errors >= spent.errors
          /\ c + n + Is(Idle.pc, Busy) <= 1 + (spent'.lost - spent.lost)
          /\ 0 + n + Is(Idle.pc, Unspent)
               <= Is(worker[w].pc, Unspent) + (spent'.lost - spent.lost)
                    + (spent'.errors - spent.errors)
      BY <1>6, <1>7, <2>1, IsOfLabel
    <2>3. 0 \in Nat
      OBVIOUS
    <2>4. SendStep(w, l, Idle, n, s, 0, c)
      BY <1>3, <1>5, <1>8, <2>1, <2>2 DEF SendStep
    <2>5. QED
      BY <2>3, <2>4, SendStepKeeps
  <1>9. CASE Disturbed("lost") /\ Gains(mail', l, n + Sends(Its(w)))
    <2>1. /\ spent'.triggers = spent.triggers /\ spent'.cancels = spent.cancels
          /\ spent'.lost = spent.lost + 1 /\ spent'.errors = spent.errors
      BY <1>2, <1>9, DisturbedCounts
    <2>2. Gains(mail', l, n + 1) /\ n + 1 \in Nat
      BY <1>4, <1>9
    <2>3. /\ spent'.lost >= spent.lost /\ spent'.errors >= spent.errors
          /\ c + (n + 1) + Is(Idle.pc, Busy) <= 1 + (spent'.lost - spent.lost)
          /\ 0 + (n + 1) + Is(Idle.pc, Unspent)
               <= Is(worker[w].pc, Unspent) + (spent'.lost - spent.lost)
                    + (spent'.errors - spent.errors)
      BY <1>6, <1>7, <2>1, IsOfLabel
    <2>4. 0 \in Nat
      OBVIOUS
    <2>5. SendStep(w, l, Idle, n + 1, s, 0, c)
      BY <1>3, <1>5, <2>1, <2>2, <2>3 DEF SendStep
    <2>6. QED
      BY <2>2, <2>4, <2>5, SendStepKeeps
  <1>10. QED
    BY <1>3, <1>8, <1>9

\* The task of a send goes on.
LEMMA SendGoes ==
  ASSUME Inv, NEW w \in Worker, worker[w].pc \in Busy, NEW l, To(w) = l, TypeOK',
         NEW label \in Busy, Goto(w, label), UNCHANGED <<mail, campaign, request, cancel>>,
         NEW s \in RecipientStatus, s = "sending" \/ s = recipient[l],
         recipient' = [recipient EXCEPT ![l] = s],
         NEW r \in Nat, received' = [received EXCEPT ![l] = @ + r],
         UNCHANGED spent \/ Error,
         r + Is(label, Unspent)
           <= Is(worker[w].pc, Unspent) + (spent'.errors - spent.errors)
  PROVE  Inv'
  <1>1. /\ l \in Lead /\ recipient[l] \notin New /\ worker[w].page = {}
        /\ TypeOK /\ Finite
    BY HolderHasCopy DEF Inv
  <1>2. Gains(mail', l, 0)
    BY <1>1, GainsNothing
  <1> DEFINE row == Row(w, label, {})
  <1>3. worker' = [worker EXCEPT ![w] = row]
    BY <1>1, GotoRow
  <1>4. row.pc = label /\ row.msg = worker[w].msg /\ row.page = {}
    BY DEF Row, Its
  <1>5. /\ spent.triggers \in Nat /\ spent.cancels \in Nat
        /\ spent.errors \in Nat /\ spent.lost \in Nat
        /\ campaign.sent \in Nat /\ campaign.failed \in Nat
    BY <1>1, SpentType DEF TypeOK
  <1>6. /\ spent'.triggers = spent.triggers /\ spent'.cancels = spent.cancels
        /\ spent'.lost = spent.lost /\ spent'.errors \in Nat /\ spent'.errors >= spent.errors
    BY <1>1, <1>5, DisturbedCounts DEF Error
  <1>7. s \in RecipientStatus \ New /\ 0 \in Nat
    BY <1>1 DEF New
  <1>8. Is(label, Busy) = 1 /\ Is(label, Unspent) \in Nat /\ Is(worker[w].pc, Unspent) \in Nat
    BY DEF Is
  <1>9. s # "skipped" \/ recipient[l] = "skipped"
    OBVIOUS
  <1>10. (s = "sent" => recipient[l] = "sent") /\ (s = "failed" => recipient[l] = "failed")
    OBVIOUS
  <1> HIDE DEF row
  <1>11. /\ 0 + 0 + Is(row.pc, Busy) <= 1 + (spent'.lost - spent.lost)
         /\ r + 0 + Is(row.pc, Unspent)
              <= Is(worker[w].pc, Unspent) + (spent'.lost - spent.lost)
                   + (spent'.errors - spent.errors)
    BY <1>4, <1>5, <1>6, <1>8
  <1>12. campaign'.sent + campaign'.failed = campaign.sent + campaign.failed + 0
    BY <1>5
  <1>13. campaign'.sent >= campaign.sent /\ campaign'.failed >= campaign.failed
    BY <1>5
  <1>14. spent'.lost >= spent.lost
    BY <1>5, <1>6
  <1>15. SendStep(w, l, row, 0, s, r, 0)
    BY <1>2, <1>3, <1>4, <1>6, <1>9, <1>10, <1>11, <1>12, <1>13, <1>14 DEF SendStep
  <1>16. QED
    BY <1>7, <1>15, SendStepKeeps

LEMMA SendNext ==
  ASSUME Inv, NEW w \in Worker,
         \/ MarkSending(w) \/ Accepted(w) \/ Refused(w) \/ RateLimited(w) \/ ReplyLost(w)
         \/ Revert(w) \/ OnSuccess(w) \/ OnFailure(w) \/ Transient(w)
  PROVE  Inv'
  <1>1. TypeOK /\ Finite /\ TypeOK'
    BY SendTypes DEF Inv
  <1>2. worker[w].pc \in Busy
    BY DEF MarkSending, Accepted, Refused, RateLimited, ReplyLost, Revert, OnSuccess, OnFailure,
           Transient, At, Busy, Unspent
  <1>3. /\ To(w) \in Lead /\ Its(w) \in Message /\ Its(w).job = "send" /\ Its(w).lead = To(w)
        /\ recipient[To(w)] \notin New
    BY <1>2, HolderHasCopy
  <1>4. PICK l \in Lead : To(w) = l
    BY <1>3
  <1>5. /\ recipient = [recipient EXCEPT ![l] = recipient[l]] /\ recipient[l] \in RecipientStatus
        /\ received = [received EXCEPT ![l] = @ + 0]
    <2>1. received \in [Lead -> Nat] /\ recipient \in [Lead -> RecipientStatus]
      BY <1>1 DEF TypeOK
    <2>2. received[l] + 0 = received[l]
      BY <2>1
    <2>3. QED
      BY <2>1, <2>2
  <1>6. 0 \in Nat /\ 1 \in Nat
    OBVIOUS
  <1>7. /\ spent.triggers \in Nat /\ spent.cancels \in Nat
        /\ spent.errors \in Nat /\ spent.lost \in Nat
        /\ campaign.sent \in Nat /\ campaign.failed \in Nat
    BY <1>1, SpentType DEF TypeOK
  <1>8. Error => /\ spent'.errors = spent.errors + 1 /\ spent'.lost = spent.lost
                 /\ spent'.triggers = spent.triggers /\ spent'.cancels = spent.cancels
    BY <1>1, DisturbedCounts DEF Error
  <1>9. {"call", "store", "fail", "revert"} \subseteq Busy
    BY DEF Busy, Unspent
  <1>10. {"sending", "queued", "sent", "failed"} \subseteq RecipientStatus \ New
    BY DEF RecipientStatus, InFlight, Settled, New
  <1>11. CASE MarkSending(w)
    <2>1. /\ Goto(w, "call") /\ UNCHANGED <<mail, campaign, request, cancel>> /\ UNCHANGED spent
          /\ recipient' = [recipient EXCEPT ![l] = "sending"]
          /\ received' = [received EXCEPT ![l] = @ + 0]
      BY <1>4, <1>5, <1>11 DEF MarkSending
    <2>2. 0 + Is("call", Unspent) <= Is(worker[w].pc, Unspent) + (spent'.errors - spent.errors)
      BY <1>7, <1>11, <2>1, IsOfLabel DEF MarkSending, At, Unspent
    <2>3. QED
      BY <1>1, <1>2, <1>4, <1>6, <1>9, <1>10, <2>1, <2>2, SendGoes
  <1>12. CASE Accepted(w)
    <2>1. /\ Goto(w, "store") /\ UNCHANGED <<mail, campaign, request, cancel>> /\ UNCHANGED spent
          /\ recipient' = [recipient EXCEPT ![l] = recipient[l]]
          /\ received' = [received EXCEPT ![l] = @ + 1]
      BY <1>4, <1>5, <1>12 DEF Accepted
    <2>2. 1 + Is("store", Unspent) <= Is(worker[w].pc, Unspent) + (spent'.errors - spent.errors)
      BY <1>7, <1>12, <2>1, IsOfLabel DEF Accepted, At, Unspent
    <2>3. QED
      BY <1>1, <1>2, <1>4, <1>5, <1>6, <1>9, <2>1, <2>2, SendGoes
  <1>13. CASE Refused(w)
    <2>1. /\ Goto(w, "fail") /\ UNCHANGED <<mail, campaign, request, cancel>> /\ UNCHANGED spent
          /\ recipient' = [recipient EXCEPT ![l] = recipient[l]]
          /\ received' = [received EXCEPT ![l] = @ + 0]
      BY <1>4, <1>5, <1>13 DEF Refused
    <2>2. 0 + Is("fail", Unspent) <= Is(worker[w].pc, Unspent) + (spent'.errors - spent.errors)
      BY <1>7, <1>13, <2>1, IsOfLabel DEF Refused, At, Unspent
    <2>3. QED
      BY <1>1, <1>2, <1>4, <1>5, <1>6, <1>9, <2>1, <2>2, SendGoes
  <1>14. CASE RateLimited(w)
    <2>1. /\ Goto(w, "revert") /\ UNCHANGED <<mail, campaign, request, cancel>> /\ UNCHANGED spent
          /\ recipient' = [recipient EXCEPT ![l] = recipient[l]]
          /\ received' = [received EXCEPT ![l] = @ + 0]
      BY <1>4, <1>5, <1>14 DEF RateLimited
    <2>2. 0 + Is("revert", Unspent) <= Is(worker[w].pc, Unspent) + (spent'.errors - spent.errors)
      BY <1>7, <1>14, <2>1, IsOfLabel DEF RateLimited, At, Unspent
    <2>3. QED
      BY <1>1, <1>2, <1>4, <1>5, <1>6, <1>9, <2>1, <2>2, SendGoes
  <1>15. CASE ReplyLost(w)
    <2>1. /\ Error /\ UNCHANGED <<mail, campaign, request, cancel>>
          /\ recipient' = [recipient EXCEPT ![l] = recipient[l]]
          /\ received' = [received EXCEPT ![l] = @ + 1]
      BY <1>4, <1>5, <1>15 DEF ReplyLost
    <2>2. PICK label \in {"call", "fail"} : Goto(w, label)
      <3>1. worker[w].pc = "call"
        BY <1>15 DEF ReplyLost, At
      <3>2. worker = [worker EXCEPT ![w].pc = "call"]
        BY <1>1, <3>1 DEF TypeOK
      <3>3. worker' = worker \/ Goto(w, "fail")
        BY <1>15 DEF ReplyLost, Goto
      <3>4. QED
        BY <3>2, <3>3 DEF Goto
    <2>3. label \in Busy
      BY <1>9
    <2>4. 1 + Is(label, Unspent) <= Is(worker[w].pc, Unspent) + (spent'.errors - spent.errors)
      <3>1. Is(label, Unspent) <= 1 /\ Is(label, Unspent) \in Nat
        BY DEF Is
      <3>2. Is(worker[w].pc, Unspent) = 1
        BY <1>15 DEF ReplyLost, At, Is, Unspent
      <3>3. QED
        BY <1>7, <1>8, <2>1, <3>1, <3>2
    <2>5. QED
      BY <1>1, <1>2, <1>4, <1>5, <1>6, <2>1, <2>2, <2>3, <2>4, SendGoes
  <1>16. CASE Revert(w)
    <2>1. PICK n \in {0, 1} : Gains(Retried(Its(w), SendRetries), l, n)
      BY <1>1, <1>3, <1>4, RetriedGains DEF Limits, Sends
    <2>2. /\ End(w, Its(w), Retried(Its(w), SendRetries))
          /\ recipient' = [recipient EXCEPT ![l] = "queued"]
          /\ UNCHANGED <<request, cancel, received>> /\ UNCHANGED campaign
      BY <1>4, <1>16 DEF Revert
    <2>3. n <= Is(worker[w].pc, Unspent) /\ n \in Nat /\ 0 + n <= 1
      BY <1>16 DEF Revert, At, Is, Unspent
    <2>4. /\ campaign'.sent + campaign'.failed = campaign.sent + campaign.failed + 0
          /\ campaign'.sent >= campaign.sent /\ campaign'.failed >= campaign.failed
          /\ campaign'.status = campaign.status /\ campaign'.total = campaign.total
      BY <1>7, <2>2
    <2>5. /\ "queued" \in RecipientStatus \ New
          /\ "queued" # "skipped" /\ "queued" # "sent" /\ "queued" # "failed"
      BY <1>10
    <2> DEFINE c == 0
               box == Retried(Its(w), SendRetries)
    <2>6. c \in Nat /\ c + n <= 1 /\ (c > 0 => "queued" \in Done)
          /\ campaign'.sent + campaign'.failed = campaign.sent + campaign.failed + c
      BY <2>3, <2>4
    <2>7. Gains(box, l, n) /\ End(w, Its(w), box)
      BY <2>1, <2>2
    <2> HIDE DEF c, box
    <2>8. QED
      BY <1>1, <1>2, <1>4, <2>2, <2>3, <2>4, <2>5, <2>6, <2>7, SendEnds
  <1>17. CASE /\ OnSuccess(w) /\ End(w, Its(w), mail)
              /\ recipient' = [recipient EXCEPT ![To(w)] = "sent"]
              /\ campaign' = [campaign EXCEPT !.sent = @ + 1]
    <2>1. Gains(mail, l, 0)
      BY <1>1, GainsNothing
    <2>2. /\ End(w, Its(w), mail) /\ recipient' = [recipient EXCEPT ![l] = "sent"]
          /\ campaign' = [campaign EXCEPT !.sent = @ + 1]
          /\ UNCHANGED <<request, cancel, received>>
      BY <1>4, <1>17 DEF OnSuccess
    <2>3. 0 <= Is(worker[w].pc, Unspent) /\ 1 + 0 <= 1
      BY DEF Is
    <2>4. /\ campaign'.sent = campaign.sent + 1 /\ campaign'.failed = campaign.failed
          /\ campaign'.status = campaign.status /\ campaign'.total = campaign.total
      BY <1>1, <2>2 DEF TypeOK
    <2>5. /\ campaign'.sent + campaign'.failed = campaign.sent + campaign.failed + 1
          /\ campaign'.sent >= campaign.sent /\ campaign'.failed >= campaign.failed
      BY <1>7, <2>4
    <2>6. "sent" \in RecipientStatus \ New /\ "sent" \in Done
      BY <1>10 DEF Done
    <2>7. QED
      BY <1>1, <1>2, <1>4, <1>6, <2>1, <2>2, <2>3, <2>4, <2>5, <2>6, SendEnds
  <1>18. CASE OnSuccess(w) /\ Error /\ Goto(w, "fail") /\ UNCHANGED <<recipient, campaign, mail>>
    <2>1. /\ recipient' = [recipient EXCEPT ![l] = recipient[l]]
          /\ received' = [received EXCEPT ![l] = @ + 0]
          /\ UNCHANGED <<mail, campaign, request, cancel>>
      BY <1>4, <1>5, <1>18 DEF OnSuccess
    <2>2. 0 + Is("fail", Unspent) <= Is(worker[w].pc, Unspent) + (spent'.errors - spent.errors)
      <3>1. Is("fail", Unspent) = 0 /\ Is(worker[w].pc, Unspent) \in Nat
        BY IsOfLabel DEF Is
      <3>2. QED
        BY <1>7, <1>8, <1>18, <3>1
    <2>3. QED
      BY <1>1, <1>2, <1>4, <1>5, <1>6, <1>9, <1>18, <2>1, <2>2, SendGoes
  <1>19. CASE OnFailure(w)
    <2>1. Gains(mail, l, 0)
      BY <1>1, GainsNothing
    <2>2. /\ End(w, Its(w), mail) /\ recipient' = [recipient EXCEPT ![l] = "failed"]
          /\ campaign' = [campaign EXCEPT !.failed = @ + 1]
          /\ UNCHANGED <<request, cancel, received>>
      BY <1>4, <1>19 DEF OnFailure
    <2>3. 0 <= Is(worker[w].pc, Unspent) /\ 1 + 0 <= 1
      BY DEF Is
    <2>4. /\ campaign'.sent = campaign.sent /\ campaign'.failed = campaign.failed + 1
          /\ campaign'.status = campaign.status /\ campaign'.total = campaign.total
      BY <1>1, <2>2 DEF TypeOK
    <2>5. /\ campaign'.sent + campaign'.failed = campaign.sent + campaign.failed + 1
          /\ campaign'.sent >= campaign.sent /\ campaign'.failed >= campaign.failed
      BY <1>7, <2>4
    <2>6. "failed" \in RecipientStatus \ New /\ "failed" \in Done
      BY <1>10 DEF Done
    <2>7. QED
      BY <1>1, <1>2, <1>4, <1>6, <2>1, <2>2, <2>3, <2>4, <2>5, <2>6, SendEnds
  <1>20. CASE Transient(w)
    <2>1. PICK n \in {0, 1} : Gains(Retried(Its(w), ErrorRetries), l, n)
      BY <1>1, <1>3, <1>4, RetriedGains DEF Limits, Sends
    <2>2. /\ Error /\ worker' = [worker EXCEPT ![w] = Idle] /\ Gains(mail', l, n)
          /\ recipient' = [recipient EXCEPT ![l] = recipient[l]]
          /\ received' = [received EXCEPT ![l] = @ + 0]
          /\ UNCHANGED <<request, cancel>> /\ UNCHANGED campaign
      BY <1>4, <1>5, <1>20, <2>1 DEF Transient, EndInError
    <2>3. Is(worker[w].pc, Unspent) \in Nat /\ n \in Nat
      BY DEF Is
    <2>4. /\ 0 + n + Is(Idle.pc, Busy) <= 1 + (spent'.lost - spent.lost)
          /\ 0 + n + Is(Idle.pc, Unspent)
               <= Is(worker[w].pc, Unspent) + (spent'.lost - spent.lost)
                    + (spent'.errors - spent.errors)
          /\ spent'.lost >= spent.lost /\ spent'.errors >= spent.errors
      BY <1>7, <1>8, <2>2, <2>3, IsOfLabel
    <2>5. /\ campaign'.sent + campaign'.failed = campaign.sent + campaign.failed + 0
          /\ campaign'.sent >= campaign.sent /\ campaign'.failed >= campaign.failed
          /\ campaign'.status = campaign.status /\ campaign'.total = campaign.total
      BY <1>7, <2>2
    <2>6. SendStep(w, l, Idle, n, recipient[l], 0, 0)
      BY <1>8, <2>2, <2>4, <2>5 DEF SendStep
    <2>7. recipient[l] \in RecipientStatus \ New
      BY <1>3, <1>4, <1>5
    <2>8. QED
      BY <1>1, <1>2, <1>4, <1>6, <2>3, <2>6, <2>7, SendStepKeeps
  <1>21. OnSuccess(w) => \/ /\ End(w, Its(w), mail)
                            /\ recipient' = [recipient EXCEPT ![To(w)] = "sent"]
                            /\ campaign' = [campaign EXCEPT !.sent = @ + 1]
                         \/ Error /\ Goto(w, "fail") /\ UNCHANGED <<recipient, campaign, mail>>
    BY DEF OnSuccess
  <1>22. QED
    BY <1>11, <1>12, <1>13, <1>14, <1>15, <1>16, <1>17, <1>18, <1>19, <1>20, <1>21

-----------------------------------------------------------------------------
(* Steps of the other tasks and of the requests                             *)

\* the leads of more have one copy more, those of less one copy less
Shifted(more, less) ==
    /\ mail' \in [Message -> Nat] /\ Finite'
    /\ \A L \in SUBSET Lead, labels \in {Busy, Unspent} :
         Copies(L, labels)' + Cardinality(less \cap L) = Copies(L, labels) + Cardinality(more \cap L)

\* what happens to the row of a lead whose copies stay as they are
RowSteps(k) ==
    \/ recipient'[k] = recipient[k]
    \/ recipient[k] = "none" /\ recipient'[k] = "pending"
    \/ recipient[k] \in {"pending", "queued"} /\ recipient'[k] = "skipped"

LEMMA CopiesTypeNext ==
  (Finite => \A L \in SUBSET Lead, labels \in SUBSET Busy : Copies(L, labels) \in Nat)'
  <1>1. Finite => \A L \in SUBSET Lead, labels \in SUBSET Busy : Copies(L, labels) \in Nat
    BY CopiesType
  <1>2. QED
    BY <1>1, PTL

LEMMA TaskStepKeeps ==
  ASSUME TypeOK, Roles, Finite, NoneIsNew, Once, Counting, TypeOK', Roles',
         NEW more \in SUBSET Lead, NEW less \in SUBSET Lead, Shifted(more, less),
         \A k \in more : recipient[k] = "pending" /\ recipient'[k] = "queued",
         \A k \in Lead \ more : RowSteps(k), UNCHANGED received,
         OneTrigger' => /\ OneTrigger /\ campaign'.sent = campaign.sent
                        /\ campaign'.failed = campaign.failed,
         spent'.lost >= spent.lost, spent'.errors >= spent.errors
  PROVE  Finite' /\ NoneIsNew' /\ Once' /\ Counting'
  <1>1. /\ spent.lost \in Nat /\ spent.errors \in Nat
        /\ spent'.lost \in Nat /\ spent'.errors \in Nat
    <2>1. MaxDisturbed \in Nat
      BY BroadcastAssumption
    <2>2. spent'.lost \in Nat /\ spent'.errors \in Nat
      BY <2>1 DEF TypeOK
    <2>3. QED
      BY <2>2, SpentType
  <1>2. \A S \in SUBSET Lead : IsFiniteSet(S) /\ Cardinality(S) \in Nat
    BY BroadcastAssumption, CardOfSubset
  <1>3. \A k \in Lead, S \in SUBSET Lead : Cardinality(S \cap {k}) = Is(k, S)
    <2> SUFFICES ASSUME NEW k \in Lead, NEW S \in SUBSET Lead
                 PROVE  Cardinality(S \cap {k}) = Is(k, S)
      OBVIOUS
    <2>1. CASE k \in S
      <3>1. S \cap {k} = {k}
        BY <2>1
      <3>2. QED
        BY <2>1, <3>1, FS_Singleton DEF Is
    <2>2. CASE k \notin S
      <3>1. S \cap {k} = {}
        BY <2>2
      <3>2. QED
        BY <2>2, <3>1, FS_EmptySet DEF Is
    <2>3. QED
      BY <2>1, <2>2
  <1>4. ASSUME NEW k \in Lead, NEW labels \in {Busy, Unspent}
        PROVE  /\ Copies({k}, labels) \in Nat /\ Copies({k}, labels)' \in Nat
               /\ Copies({k}, labels)' + Is(k, less) = Copies({k}, labels) + Is(k, more)
               /\ Is(k, less) \in {0, 1} /\ Is(k, more) \in {0, 1}
    <2>1. {k} \in SUBSET Lead /\ labels \in SUBSET Busy
      BY DEF Busy
    <2>2. Copies({k}, labels) \in Nat /\ Copies({k}, labels)' \in Nat
      BY <2>1, CopiesType, CopiesTypeNext DEF Shifted
    <2>3. Copies({k}, labels)' + Cardinality(less \cap {k})
            = Copies({k}, labels) + Cardinality(more \cap {k})
      BY <2>1 DEF Shifted
    <2>4. Is(k, less) \in {0, 1} /\ Is(k, more) \in {0, 1}
      BY DEF Is
    <2>5. QED
      BY <1>3, <2>2, <2>3, <2>4
  <1>5. Finite'
    BY DEF Shifted
  <1>6. ASSUME NEW k \in Lead
        PROVE  /\ HasCopy(k) <=> Copies({k}, Busy) > 0
               /\ HasCopy(k)' <=> Copies({k}, Busy)' > 0
    <2>1. HasCopy(k) <=> Copies({k}, Busy) > 0
      BY CopiesCount
    <2>2. (\A l \in Lead : HasCopy(l) <=> Copies({l}, Busy) > 0)'
      BY <1>5, CopiesCountNext
    <2>3. QED
      BY <2>1, <2>2
  <1>7. Busy \in {Busy, Unspent} /\ Unspent \in {Busy, Unspent}
    OBVIOUS
  <1>8. NoneIsNew'
    <2>1. ASSUME NEW k \in Lead, HasCopy(k)' PROVE recipient'[k] \notin New
      <3>1. CASE k \in more
        BY <3>1 DEF New
      <3>2. CASE k \notin more
        <4>1. Copies({k}, Busy)' > 0 /\ Is(k, more) = 0
          BY <1>6, <2>1, <3>2 DEF Is
        <4>2. Copies({k}, Busy) > 0
          BY <1>4, <1>7, <4>1
        <4>3. recipient[k] \notin New
          BY <1>6, <4>2 DEF NoneIsNew
        <4>4. QED
          BY <3>2, <4>3 DEF RowSteps, New
      <3>3. QED
        BY <3>1, <3>2
    <2>2. QED
      BY <2>1 DEF NoneIsNew
  <1>9. Once'
    <2> DEFINE pending(k) == IF recipient[k] \in New THEN 1 ELSE 0
               C(k) == Copies({k}, Unspent)
    <2>1. ASSUME NEW k \in Lead
          PROVE  received'[k] + C(k)' + pending(k)' <= 1 + spent'.lost + spent'.errors
      <3>1. C(k)' + Is(k, less) = C(k) + Is(k, more) /\ C(k) \in Nat /\ C(k)' \in Nat
        BY <1>4, <1>7
      <3>2. Is(k, less) \in {0, 1} /\ Is(k, more) \in {0, 1}
        BY DEF Is
      <3>3. pending(k)' + Is(k, more) <= pending(k) /\ pending(k) \in {0, 1} /\ pending(k)' \in {0, 1}
        <4>1. CASE k \in more
          BY <4>1 DEF Is, New
        <4>2. CASE k \notin more
          BY <4>2 DEF Is, New, RowSteps
        <4>3. QED
          BY <4>1, <4>2
      <3>4. received[k] \in Nat /\ received'[k] = received[k]
        BY DEF TypeOK
      <3>5. received[k] + C(k) + pending(k) <= 1 + spent.lost + spent.errors
        BY DEF Once
      <3> HIDE DEF C, pending
      <3>6. QED
        BY <1>1, <3>1, <3>2, <3>3, <3>4, <3>5
    <2>2. QED
      BY <2>1 DEF Once
  <1>10. Reached \cap more = {}
    BY DEF Reached, Done, New, NoneIsNew
  <1>11. Reached \cup more \subseteq Reached' \cup less
    <2>1. ASSUME NEW k \in Lead, k \in Reached \cup more, k \notin less PROVE k \in Reached'
      <3>1. CASE k \in more \/ HasCopy(k)
        <4>1. Is(k, less) = 0 /\ (k \in more => Is(k, more) = 1)
          BY <2>1 DEF Is
        <4>2. HasCopy(k) => Copies({k}, Busy) > 0
          BY <1>6
        <4>3. Copies({k}, Busy)' > 0
          BY <1>4, <1>7, <3>1, <4>1, <4>2
        <4>4. HasCopy(k)'
          BY <1>6, <4>3
        <4>5. QED
          BY <4>4 DEF Reached
      <3>2. CASE k \notin more /\ recipient[k] \in Done
        <4>1. recipient'[k] \in Done
          BY <3>2 DEF RowSteps, Done
        <4>2. QED
          BY <4>1 DEF Reached
      <3>3. QED
        BY <2>1, <3>1, <3>2 DEF Reached
    <2>2. QED
      BY <2>1 DEF Reached
  <1>12. Cardinality(Reached) + Cardinality(more) <= Cardinality(Reached') + Cardinality(less)
    <2>1. Reached \in SUBSET Lead /\ Reached' \in SUBSET Lead
      BY DEF Reached
    <2>2. Cardinality(Reached \cup more) = Cardinality(Reached) + Cardinality(more)
      <3>1. Cardinality(Reached \cup more) = Cardinality(Reached) + Cardinality(more)
                                               - Cardinality(Reached \cap more)
        BY <1>2, <2>1, FS_Union
      <3>2. Cardinality(Reached \cap more) = 0
        BY <1>10, FS_EmptySet
      <3>3. QED
        BY <1>2, <2>1, <3>1, <3>2
    <2>3. /\ IsFiniteSet(Reached' \cup less) /\ Cardinality(Reached' \cup less) \in Nat
          /\ Cardinality(Reached' \cup less) <= Cardinality(Reached') + Cardinality(less)
      BY <1>2, <2>1, UnionBound
    <2>4. Cardinality(Reached \cup more) <= Cardinality(Reached' \cup less)
      BY <1>11, <2>3, CardOfSubset
    <2>5. /\ Cardinality(Reached) \in Nat /\ Cardinality(Reached') \in Nat
          /\ Cardinality(more) \in Nat /\ Cardinality(less) \in Nat
      BY <1>2, <2>1
    <2>6. QED
      BY <2>2, <2>3, <2>4, <2>5
  <1>13. ASSUME OneTrigger'
         PROVE  /\ Cardinality(With("sent")') <= campaign'.sent
                /\ Cardinality(With("failed")') <= campaign'.failed
                /\ campaign'.sent + campaign'.failed + Copies(Lead, Busy)'
                     <= Cardinality(Reached') + spent'.lost
    <2>1. /\ Cardinality(With("sent")) <= campaign.sent
          /\ Cardinality(With("failed")) <= campaign.failed
          /\ campaign.sent + campaign.failed + Copies(Lead, Busy) <= Cardinality(Reached) + spent.lost
      BY <1>13 DEF Counting
    <2>2. \A st \in Done : With(st)' = With(st)
      BY DEF With, RowSteps, Done
    <2>3. Copies(Lead, Busy)' + Cardinality(less) = Copies(Lead, Busy) + Cardinality(more)
      <3>1. less \cap Lead = less /\ more \cap Lead = more
        OBVIOUS
      <3>2. QED
        BY <1>7, <3>1 DEF Shifted
    <2>4. /\ Copies(Lead, Busy) \in Nat /\ campaign.sent \in Nat /\ campaign.failed \in Nat
          /\ Copies(Lead, Busy)' \in Nat
      BY <1>5, CopiesType, CopiesTypeNext DEF TypeOK
    <2>5. Reached \in SUBSET Lead /\ Reached' \in SUBSET Lead
      BY DEF Reached
    <2>6. /\ Cardinality(Reached) \in Nat /\ Cardinality(Reached') \in Nat
          /\ Cardinality(more) \in Nat /\ Cardinality(less) \in Nat
      BY <1>2, <2>5
    <2>7. campaign'.sent = campaign.sent /\ campaign'.failed = campaign.failed
      BY <1>13
    <2>8. campaign'.sent + campaign'.failed + Copies(Lead, Busy)'
            <= Cardinality(Reached') + spent'.lost
      BY <1>1, <1>12, <2>1, <2>3, <2>4, <2>6, <2>7
    <2>9. "sent" \in Done /\ "failed" \in Done
      BY DEF Done
    <2>10. QED
      BY <2>1, <2>2, <2>7, <2>8, <2>9
  <1>14. Counting'
    BY <1>13 DEF Counting
  <1>15. QED
    BY <1>5, <1>8, <1>9, <1>14

PagedIn(rows, L) == {x \in Worker \X L : x[2] \in rows[x[1]].page}
PagedBut(rows, w, L) == {x \in (Worker \ {w}) \X L : x[2] \in rows[x[1]].page}

LEMMA PagedParts ==
  ASSUME NEW rows, NEW w \in Worker, NEW L \in SUBSET Lead, rows[w].page \in SUBSET Lead,
         IsFiniteSet(PagedBut(rows, w, L))
  PROVE  /\ IsFiniteSet(PagedIn(rows, L))
         /\ Cardinality(PagedIn(rows, L))
              = Cardinality(PagedBut(rows, w, L)) + Cardinality(rows[w].page \cap L)
  <1> DEFINE S == rows[w].page \cap L
             R == PagedBut(rows, w, L)
             W == {w} \X S
  <1>1. IsFiniteSet(S) /\ Cardinality(S) \in Nat
    BY BroadcastAssumption, CardOfSubset
  <1>2. IsFiniteSet(W) /\ Cardinality(W) = Cardinality(S)
    <2>1. IsFiniteSet({w}) /\ Cardinality({w}) = 1
      BY FS_Singleton
    <2> HIDE DEF S
    <2>2. IsFiniteSet({w} \X S) /\ Cardinality({w} \X S) = Cardinality({w}) * Cardinality(S)
      BY <1>1, <2>1, FS_Product
    <2>3. QED
      BY <1>1, <2>1, <2>2
  <1>3. PagedIn(rows, L) = R \cup W
    <2>1. ASSUME NEW x \in PagedIn(rows, L) PROVE x \in R \cup W
      <3>1. x \in Worker \X L /\ x[2] \in rows[x[1]].page
        BY <2>1 DEF PagedIn
      <3>2. CASE x[1] = w
        BY <3>1, <3>2
      <3>3. CASE x[1] # w
        BY <3>1, <3>3 DEF PagedBut
      <3>4. QED
        BY <3>2, <3>3
    <2>2. R \subseteq PagedIn(rows, L)
      BY DEF PagedIn, PagedBut
    <2>3. W \subseteq PagedIn(rows, L)
      BY DEF PagedIn
    <2>4. QED
      BY <2>1, <2>2, <2>3
  <1>4. R \cap W = {}
    BY DEF PagedBut
  <1> HIDE DEF R, W, S
  <1>5. /\ IsFiniteSet(R \cup W)
        /\ Cardinality(R \cup W) = Cardinality(R) + Cardinality(W) - Cardinality(R \cap W)
    BY <1>2, FS_Union DEF R
  <1>6. Cardinality(R \cap W) = 0
    BY <1>4, FS_EmptySet
  <1>7. Cardinality(R) \in Nat /\ Cardinality(W) \in Nat
    BY <1>2, FS_CardinalityType DEF R
  <1>8. Cardinality(R \cup W) = Cardinality(R) + Cardinality(S)
    BY <1>2, <1>5, <1>6, <1>7
  <1>9. QED
    BY <1>3, <1>5, <1>8 DEF R, S

\* the leads of the page that w loses have one copy less, those of the page that it gets
\* and that of n messages more
PageShift(w, page, l, n) ==
    /\ mail' \in [Message -> Nat] /\ Finite'
    /\ \A L \in SUBSET Lead, labels \in SUBSET Busy :
         Copies(L, labels)' + Cardinality(worker[w].page \cap L)
           = Copies(L, labels) + Cardinality(page \cap L) + (IF l \in L THEN n ELSE 0)

\* a step of a worker that is not sending
LEMMA PageMoves ==
  ASSUME TypeOK, Finite, NEW w \in Worker, NEW row, worker' = [worker EXCEPT ![w] = row],
         worker[w].pc \notin Busy, row.pc \notin Busy, row.page \in SUBSET Lead,
         NEW l, NEW n \in Int, Gains(mail', l, n)
  PROVE  PageShift(w, row.page, l, n)
  <1>1. ASSUME NEW L \in SUBSET Lead, NEW labels \in SUBSET Busy
        PROVE  /\ IsFiniteSet(Mailed(L)') /\ IsFiniteSet(Held(L, labels)') /\ IsFiniteSet(Paged(L)')
               /\ Copies(L, labels)' + Cardinality(worker[w].page \cap L)
                    = Copies(L, labels) + Cardinality(row.page \cap L)
                        + (IF l \in L THEN n ELSE 0)
    <2>1. /\ IsFiniteSet(Held(L, labels)')
          /\ Cardinality(Held(L, labels)')
               = Cardinality(Held(L, labels)) + In(row, L, labels) - In(worker[w], L, labels)
      BY HeldChanges DEF Held
    <2>2. In(row, L, labels) = 0 /\ In(worker[w], L, labels) = 0
      BY DEF In
    <2>3. /\ IsFiniteSet(Mailed(L)')
          /\ Cardinality(Mailed(L)') = Cardinality(Mailed(L)) + (IF l \in L THEN n ELSE 0)
      BY DEF Gains, Mailed
    <2>4. /\ Cardinality(Mailed(L)) \in Nat /\ Cardinality(Held(L, labels)) \in Nat
          /\ Cardinality(Paged(L)) \in Nat /\ IsFiniteSet(Paged(L))
      BY CopiesType
    <2>5. /\ Paged(L) = PagedIn(worker, L) /\ Paged(L)' = PagedIn(worker', L)
      BY DEF Paged, PagedIn
    <2>6. worker'[w] = row /\ \A v \in Worker \ {w} : worker'[v] = worker[v]
      BY DEF TypeOK
    <2>7. PagedBut(worker', w, L) = PagedBut(worker, w, L)
      BY <2>6 DEF PagedBut
    <2>8. IsFiniteSet(PagedBut(worker, w, L))
      <3>1. PagedBut(worker, w, L) \subseteq Paged(L)
        BY DEF PagedBut, Paged
      <3>2. QED
        BY <2>4, <3>1, CardOfSubset
    <2>9. Cardinality(PagedBut(worker, w, L)) \in Nat
      BY <2>8, FS_CardinalityType
    <2>10. worker[w].page \in SUBSET Lead
      BY WorkerType
    <2>11. /\ Cardinality(Paged(L))
                = Cardinality(PagedBut(worker, w, L)) + Cardinality(worker[w].page \cap L)
           /\ IsFiniteSet(Paged(L)')
           /\ Cardinality(Paged(L)')
                = Cardinality(PagedBut(worker, w, L)) + Cardinality(row.page \cap L)
      <3>1. Cardinality(PagedIn(worker, L))
              = Cardinality(PagedBut(worker, w, L)) + Cardinality(worker[w].page \cap L)
        BY <2>8, <2>10, PagedParts
      <3>2. worker'[w].page \in SUBSET Lead /\ worker'[w].page = row.page
        BY <2>6
      <3>3. /\ IsFiniteSet(PagedIn(worker', L))
            /\ Cardinality(PagedIn(worker', L))
                 = Cardinality(PagedBut(worker', w, L)) + Cardinality(worker'[w].page \cap L)
        <4>1. IsFiniteSet(PagedBut(worker', w, L))
          BY <2>7, <2>8
        <4>2. worker'[w].page \in SUBSET Lead
          BY <3>2
        <4>3. QED
          BY <4>1, <4>2, PagedParts
      <3>4. QED
        BY <2>5, <2>7, <3>1, <3>2, <3>3
    <2>12. Cardinality(worker[w].page \cap L) \in Nat /\ Cardinality(row.page \cap L) \in Nat
      <3>1. worker[w].page \cap L \subseteq Lead /\ row.page \cap L \subseteq Lead
        OBVIOUS
      <3>2. QED
        BY <3>1, BroadcastAssumption, CardOfSubset
    <2>13. Copies(L, labels) = Cardinality(Mailed(L)) + Cardinality(Held(L, labels))
                                + Cardinality(Paged(L))
      BY DEF Copies
    <2>14. Copies(L, labels)' = Cardinality(Mailed(L)') + Cardinality(Held(L, labels)')
                                 + Cardinality(Paged(L)')
      BY DEF Copies
    <2>15. Copies(L, labels)' + Cardinality(worker[w].page \cap L)
             = Copies(L, labels) + Cardinality(row.page \cap L) + (IF l \in L THEN n ELSE 0)
      BY <2>1, <2>2, <2>3, <2>4, <2>9, <2>11, <2>12, <2>13, <2>14
    <2>16. QED
      BY <2>1, <2>3, <2>11, <2>15
  <1>2. Unspent \in SUBSET Busy /\ Busy \in SUBSET Busy /\ Lead \in SUBSET Lead
    BY DEF Busy
  <1>3. Finite'
    BY <1>1, <1>2 DEF Finite
  <1>4. mail' \in [Message -> Nat]
    BY DEF Gains
  <1>5. QED
    BY <1>1, <1>3, <1>4 DEF PageShift

\* the workers and the sends in the broker stay as they are
LEMMA MailMoves ==
  ASSUME TypeOK, Finite, UNCHANGED worker, NEW l, Gains(mail', l, 0)
  PROVE  Shifted({}, {})
  <1>1. ASSUME NEW L \in SUBSET Lead, NEW labels \in SUBSET Busy
        PROVE  /\ IsFiniteSet(Mailed(L)') /\ IsFiniteSet(Held(L, labels)') /\ IsFiniteSet(Paged(L)')
               /\ Copies(L, labels)' = Copies(L, labels) /\ Copies(L, labels) \in Nat
    <2>1. Held(L, labels)' = Held(L, labels) /\ Paged(L)' = Paged(L)
      BY DEF Held, HeldIn, Paged
    <2>2. IsFiniteSet(Mailed(L)') /\ Cardinality(Mailed(L)') = Cardinality(Mailed(L)) + 0
      BY DEF Gains, Mailed
    <2>3. /\ Cardinality(Mailed(L)) \in Nat /\ Cardinality(Held(L, labels)) \in Nat
          /\ Cardinality(Paged(L)) \in Nat /\ IsFiniteSet(Paged(L)) /\ IsFiniteSet(Held(L, labels))
          /\ Copies(L, labels) \in Nat
      BY CopiesType
    <2>4. QED
      BY <2>1, <2>2, <2>3 DEF Copies
  <1>2. Unspent \in SUBSET Busy /\ Busy \in SUBSET Busy /\ Lead \in SUBSET Lead
    BY DEF Busy
  <1>3. Finite'
    BY <1>1, <1>2 DEF Finite
  <1>4. mail' \in [Message -> Nat]
    BY DEF Gains
  <1>5. \A L \in SUBSET Lead : {} \cap L = {} /\ Cardinality({}) = 0
    BY FS_EmptySet
  <1>6. ASSUME NEW L \in SUBSET Lead, NEW labels \in {Busy, Unspent}
        PROVE  Copies(L, labels)' + Cardinality({} \cap L) = Copies(L, labels) + Cardinality({} \cap L)
    <2>1. Copies(L, labels)' = Copies(L, labels)
      BY <1>1, <1>2
    <2>2. QED
      BY <2>1
  <1>7. QED
    BY <1>3, <1>4, <1>6 DEF Shifted

\* a step of a request, the cancellation or the cache
LEMMA RequestKeeps ==
  ASSUME Inv, TypeOK', UNCHANGED <<worker, received>>,
         mail' = mail \/ mail' = Plus(mail, Job("trigger")),
         \A k \in Lead : RowSteps(k),
         OneTrigger' => /\ OneTrigger /\ campaign'.sent = campaign.sent
                        /\ campaign'.failed = campaign.failed,
         spent'.lost >= spent.lost, spent'.errors >= spent.errors
  PROVE  Roles' /\ Finite' /\ NoneIsNew' /\ Once' /\ Counting'
  <1>1. TypeOK /\ Roles /\ Finite /\ NoneIsNew /\ Once /\ Counting
    BY DEF Inv
  <1>2. Roles'
    BY <1>1 DEF Roles, Its, At
  <1>3. Gains(mail, AnyLead, 0)
    BY <1>1, GainsNothing
  <1>4. Gains(Plus(mail, Job("trigger")), AnyLead, 0)
    <2>1. Job("trigger") \in Message /\ Sends(Job("trigger")) = 0 /\ Job("trigger").job # "send"
      BY MessageType DEF Sends
    <2>2. Gains(Plus(mail, Job("trigger")), AnyLead, 0 + Sends(Job("trigger")))
      BY <1>1, <1>3, <2>1, GainsOne
    <2>3. QED
      BY <2>1, <2>2
  <1>5. Gains(mail', AnyLead, 0)
    BY <1>3, <1>4
  <1>6. Shifted({}, {})
    BY <1>1, <1>5, MailMoves
  <1>7. {} \in SUBSET Lead /\ \A k \in {} : recipient[k] = "pending" /\ recipient'[k] = "queued"
    OBVIOUS
  <1>8. \A k \in Lead \ {} : RowSteps(k)
    OBVIOUS
  <1>9. Finite' /\ NoneIsNew' /\ Once' /\ Counting'
    BY <1>1, <1>2, <1>6, <1>7, <1>8, TaskStepKeeps
  <1>10. QED
    BY <1>2, <1>9

LEMMA SpentGrows ==
  ASSUME TypeOK, UNCHANGED spent \/ \E kind \in {"triggers", "cancels", "errors", "lost"} :
                                      Disturbed(kind)
  PROVE  /\ spent'.lost >= spent.lost /\ spent'.errors >= spent.errors
         /\ spent'.triggers >= spent.triggers /\ spent'.cancels >= spent.cancels
         /\ OneTrigger' => OneTrigger
         /\ Undisturbed' => Undisturbed
  <1>1. /\ spent.triggers \in Nat /\ spent.cancels \in Nat
        /\ spent.errors \in Nat /\ spent.lost \in Nat
    BY SpentType
  <1>2. \A k \in {"triggers", "cancels", "errors", "lost"} :
          spent'[k] = spent[k] \/ spent'[k] = spent[k] + 1
    BY DisturbedCounts
  <1>3. /\ spent'.triggers = spent.triggers \/ spent'.triggers = spent.triggers + 1
        /\ spent'.cancels = spent.cancels \/ spent'.cancels = spent.cancels + 1
        /\ spent'.errors = spent.errors \/ spent'.errors = spent.errors + 1
        /\ spent'.lost = spent.lost \/ spent'.lost = spent.lost + 1
    BY <1>2
  <1>4. /\ spent'.lost >= spent.lost /\ spent'.errors >= spent.errors
        /\ spent'.triggers >= spent.triggers /\ spent'.cancels >= spent.cancels
    BY <1>1, <1>3
  <1>5. (spent'.triggers = 0 => spent.triggers = 0) /\ (spent'.cancels = 0 => spent.cancels = 0)
          /\ (spent'.lost = 0 => spent.lost = 0)
    BY <1>1, <1>3
  <1>6. QED
    BY <1>4, <1>5 DEF OneTrigger, Undisturbed

\* the campaign row stays as it is and so do the rows of the recipients
LEMMA QuietStays ==
  ASSUME Completing, UNCHANGED <<campaign, worker, recipient, cancel>>,
         Undisturbed' => Undisturbed
  PROVE  Completing'
  BY DEF Completing, With, At

LEMMA AskKeeps ==
  ASSUME Inv, NEW a \in Admin, Ask(a) \/ Serve(a)
  PROVE  Inv'
  <1>1. TypeOK' /\ TypeOK /\ Quiet /\ Triggered /\ Completing
    BY AskTypes DEF Inv
  <1>2. SUFFICES /\ Roles' /\ Finite' /\ NoneIsNew' /\ Once' /\ Counting'
                 /\ Quiet' /\ Triggered' /\ Completing'
    BY <1>1 DEF Inv
  <1>3. CASE Trigger(a)
    <2>1. UNCHANGED spent \/ Disturbed("triggers")
      BY <1>3 DEF Trigger
    <2>2. /\ spent'.lost >= spent.lost /\ spent'.errors >= spent.errors
          /\ (OneTrigger' => OneTrigger) /\ (Undisturbed' => Undisturbed)
      BY <1>1, <2>1, SpentGrows
    <2>3. \A k \in Lead : RowSteps(k)
      BY <1>3 DEF Trigger, RowSteps
    <2>4. Roles' /\ Finite' /\ NoneIsNew' /\ Once' /\ Counting'
      BY <1>1, <1>3, <2>2, <2>3, RequestKeeps DEF Trigger
    <2>5. request'[a].pc = "seed" /\ \A b \in Admin \ {a} : request'[b] = request[b]
      BY <1>1, <1>3 DEF Trigger, TypeOK
    <2>6. Quiet'
      BY <1>1, <1>3, <2>5 DEF Trigger, Quiet
    <2>7. Triggered'
      <3>1. ASSUME OneTrigger'
            PROVE  (\A b \in Admin : request[b].pc = "idle") /\ UNCHANGED spent
        <4>1. Disturbed("triggers") => spent'.triggers = spent.triggers + 1
          BY <1>1, DisturbedCounts
        <4>2. spent.triggers \in Nat
          BY <1>1, SpentType
        <4>3. ~Disturbed("triggers")
          BY <3>1, <4>1, <4>2 DEF OneTrigger
        <4>4. QED
          BY <1>3, <4>3 DEF Trigger
      <3>2. With("none")' = With("none")
        BY <1>3 DEF Trigger, With
      <3>3. QED
        BY <1>1, <1>3, <2>2, <2>5, <3>1, <3>2 DEF Triggered, Trigger
    <2>8. Completing'
      BY <1>1, <1>3, <2>2, QuietStays DEF Trigger
    <2>9. QED
      BY <2>4, <2>6, <2>7, <2>8
  <1>4. CASE FireFails(a)
    <2>1. Disturbed("errors")
      BY <1>4 DEF FireFails, Error
    <2>2. /\ spent'.lost >= spent.lost /\ spent'.errors >= spent.errors
          /\ (OneTrigger' => OneTrigger) /\ (Undisturbed' => Undisturbed)
      BY <1>1, <2>1, SpentGrows
    <2>3. \A k \in Lead : RowSteps(k)
      BY <1>4 DEF FireFails, RowSteps
    <2>4. Roles' /\ Finite' /\ NoneIsNew' /\ Once' /\ Counting'
      BY <1>1, <1>4, <2>2, <2>3, RequestKeeps DEF FireFails
    <2>5. request'[a].pc = "done" /\ \A b \in Admin \ {a} : request'[b] = request[b]
      BY <1>1, <1>4 DEF FireFails, TypeOK
    <2>6. Quiet'
      BY <1>1, <1>4, <2>5 DEF FireFails, Quiet
    <2>7. Triggered'
      <3>1. With("none")' = With("none")
        BY <1>4 DEF FireFails, With
      <3>2. QED
        BY <1>1, <1>4, <2>2, <2>5, <3>1 DEF Triggered, FireFails
    <2>8. Completing'
      BY <1>1, <1>4, <2>2, QuietStays DEF FireFails
    <2>9. QED
      BY <2>4, <2>6, <2>7, <2>8
  <1>5. CASE Fire(a)
    <2>1. /\ spent'.lost >= spent.lost /\ spent'.errors >= spent.errors
          /\ (OneTrigger' => OneTrigger) /\ (Undisturbed' => Undisturbed)
      BY <1>1, <1>5, SpentGrows DEF Fire
    <2>2. \A k \in Lead : RowSteps(k)
      BY <1>5 DEF Fire, RowSteps
    <2>3. Roles' /\ Finite' /\ NoneIsNew' /\ Once' /\ Counting'
      BY <1>1, <1>5, <2>1, <2>2, RequestKeeps DEF Fire
    <2>4. request'[a].pc = "done" /\ \A b \in Admin \ {a} : request'[b] = request[b]
      BY <1>1, <1>5 DEF Fire, TypeOK
    <2>5. Quiet'
      BY <1>1, <1>5, <2>4 DEF Fire, Quiet
    <2>6. Triggered'
      <3>1. With("none")' = With("none")
        BY <1>5 DEF Fire, With
      <3>2. QED
        BY <1>1, <1>5, <2>1, <2>4, <3>1 DEF Triggered, Fire
    <2>7. Completing'
      BY <1>1, <1>5, <2>1, QuietStays DEF Fire
    <2>8. QED
      BY <2>3, <2>5, <2>6, <2>7
  <1>6. CASE Enqueue(a)
    <2>1. /\ spent'.lost >= spent.lost /\ spent'.errors >= spent.errors
          /\ (OneTrigger' => OneTrigger) /\ (Undisturbed' => Undisturbed)
      BY <1>1, <1>6, SpentGrows DEF Enqueue
    <2>2. \A k \in Lead : RowSteps(k)
      BY <1>6 DEF Enqueue, RowSteps
    <2>3. campaign'.status = "queued" /\ campaign'.total = request[a].count
            /\ campaign'.sent = 0 /\ campaign'.failed = 0
      BY <1>6 DEF Enqueue
    <2>4. OneTrigger => campaign.status = "draft"
      BY <1>1, <1>6 DEF Triggered, Enqueue
    <2>5. OneTrigger' => /\ OneTrigger /\ campaign'.sent = campaign.sent
                         /\ campaign'.failed = campaign.failed
      BY <1>1, <2>1, <2>3, <2>4 DEF Quiet
    <2>6. Roles' /\ Finite' /\ NoneIsNew' /\ Once' /\ Counting'
      BY <1>1, <1>6, <2>1, <2>2, <2>5, RequestKeeps DEF Enqueue
    <2>7. request'[a].pc = "publish" /\ \A b \in Admin \ {a} : request'[b] = request[b]
      BY <1>1, <1>6 DEF Enqueue, TypeOK
    <2>8. Quiet'
      BY <2>3 DEF Quiet
    <2>9. Triggered'
      <3>1. With("none")' = With("none")
        BY <1>6 DEF Enqueue, With
      <3>2. QED
        BY <1>1, <1>6, <2>1, <2>3, <2>7, <3>1 DEF Triggered, Enqueue
    <2>10. Completing'
      <3>1. OneTrigger => \A w \in Worker : worker[w].pc = "idle"
        BY <1>1, <2>4, MessageType DEF Quiet
      <3>2. OneTrigger => ~(campaign'.status = "completed" \/ \E w \in Worker : At(w, "complete")')
        BY <1>6, <2>3, <3>1 DEF Enqueue, At
      <3>3. UNCHANGED <<recipient, cancel>> /\ With("skipped")' = With("skipped")
        BY <1>6 DEF Enqueue, With
      <3>4. QED
        BY <1>1, <2>1, <3>2, <3>3 DEF Completing, Undisturbed
    <2>11. QED
      BY <2>6, <2>8, <2>9, <2>10
  <1>7. ASSUME NEW audience \in SUBSET Lead, Seed(a, audience)
        PROVE  /\ Roles' /\ Finite' /\ NoneIsNew' /\ Once' /\ Counting'
               /\ Quiet' /\ Triggered' /\ Completing'
    <2>1. /\ spent'.lost >= spent.lost /\ spent'.errors >= spent.errors
          /\ (OneTrigger' => OneTrigger) /\ (Undisturbed' => Undisturbed)
      BY <1>1, <1>7, SpentGrows DEF Seed
    <2>2. \A k \in Lead : RowSteps(k)
      BY <1>7 DEF Seed, RowSteps
    <2>3. Roles' /\ Finite' /\ NoneIsNew' /\ Once' /\ Counting'
      BY <1>1, <1>7, <2>1, <2>2, RequestKeeps DEF Seed
    <2>4. /\ request'[a].pc = IF audience = {} THEN "done" ELSE "enqueue"
          /\ request'[a].count = Cardinality(audience)
          /\ \A b \in Admin \ {a} : request'[b] = request[b]
      BY <1>1, <1>7 DEF Seed, TypeOK
    <2>5. Quiet'
      BY <1>1, <1>7, <2>2, <2>4 DEF Seed, Quiet, RowSteps, New
    <2>6. Triggered'
      <3>1. ASSUME OneTrigger
            PROVE  /\ Lead \ With("none")' = audience
                   /\ \A b \in Admin \ {a} : request[b].pc = "idle"
                   /\ campaign.status = "draft"
        <4>1. request[a].pc = "seed"
          BY <1>7 DEF Seed
        <4>2. \A b \in Admin \ {a} : request[b].pc = "idle"
          BY <1>1, <3>1, <4>1 DEF Triggered
        <4>3. \A k \in Lead : recipient[k] = "none"
          BY <1>1, <3>1, <4>1, <4>2 DEF Triggered
        <4>4. With("none")' = Lead \ audience
          BY <1>7, <4>3 DEF Seed, With
        <4>5. QED
          BY <1>1, <3>1, <4>1, <4>2, <4>4 DEF Triggered
      <3>2. UNCHANGED campaign
        BY <1>7 DEF Seed
      <3>3. QED
        BY <2>1, <2>4, <3>1, <3>2 DEF Triggered
    <2>7. Completing'
      <3>1. OneTrigger => campaign.status = "draft"
        BY <1>1, <1>7 DEF Triggered, Seed
      <3>2. OneTrigger => \A w \in Worker : worker[w].pc = "idle"
        BY <1>1, <3>1, MessageType DEF Quiet
      <3>3. OneTrigger => ~(campaign'.status = "completed" \/ \E w \in Worker : At(w, "complete")')
        BY <1>7, <3>1, <3>2 DEF Seed, At
      <3>4. UNCHANGED cancel /\ With("skipped")' = With("skipped")
        BY <1>7 DEF Seed, With
      <3>5. QED
        BY <1>1, <2>1, <3>3, <3>4 DEF Completing, Undisturbed
    <2>8. QED
      BY <2>3, <2>5, <2>6, <2>7
  <1>8. QED
    BY <1>3, <1>4, <1>5, <1>6, <1>7 DEF Ask, Serve

LEMMA CancelKeeps ==
  ASSUME Inv, AskCancel \/ Cancel \/ Expire
  PROVE  Inv'
  <1>1. TypeOK' /\ TypeOK /\ Quiet /\ Triggered /\ Completing
    BY CancelTypes DEF Inv
  <1>2. /\ spent'.lost >= spent.lost /\ spent'.errors >= spent.errors
        /\ (OneTrigger' => OneTrigger) /\ (Undisturbed' => Undisturbed)
    <2>1. UNCHANGED spent \/ Disturbed("cancels")
      BY DEF AskCancel, Cancel, Expire
    <2>2. QED
      BY <1>1, <2>1, SpentGrows
  <1>3. UNCHANGED <<worker, received, mail, request>>
    BY DEF AskCancel, Cancel, Expire
  <1>4. /\ campaign'.sent = campaign.sent /\ campaign'.failed = campaign.failed
        /\ campaign'.total = campaign.total
    <2>1. UNCHANGED campaign \/ campaign' = [campaign EXCEPT !.status = "cancelled"]
      BY DEF AskCancel, Cancel, Expire
    <2>2. QED
      BY <1>1, <2>1 DEF TypeOK
  <1>5. ASSUME NEW k \in Lead
        PROVE  /\ RowSteps(k)
               /\ recipient'[k] = "none" <=> recipient[k] = "none"
    <2>1. \/ recipient'[k] = recipient[k]
          \/ recipient[k] \in {"pending", "queued"} /\ recipient'[k] = "skipped"
      <3>1. UNCHANGED recipient \/ recipient' = [l \in Lead |->
              IF recipient[l] \in {"pending", "queued"} THEN "skipped" ELSE recipient[l]]
        BY DEF AskCancel, Cancel, Expire
      <3>2. QED
        BY <3>1
    <2>2. QED
      BY <2>1 DEF RowSteps
  <1>6. Roles' /\ Finite' /\ NoneIsNew' /\ Once' /\ Counting'
    BY <1>1, <1>2, <1>3, <1>4, <1>5, RequestKeeps
  <1>7. Quiet' /\ Triggered'
    <2>1. CASE campaign.status = "draft"
      <3>1. Expire
        BY <1>1, <2>1 DEF AskCancel, Cancel, Quiet, Cancellable
      <3>2. With("none")' = With("none")
        BY <3>1 DEF Expire, With
      <3>3. QED
        BY <1>1, <3>1, <3>2 DEF Expire, Quiet, Triggered, OneTrigger
    <2>2. CASE campaign.status # "draft"
      <3>1. campaign'.status # "draft"
        <4>1. UNCHANGED campaign \/ campaign' = [campaign EXCEPT !.status = "cancelled"]
          BY DEF AskCancel, Cancel, Expire
        <4>2. QED
          BY <1>1, <2>2, <4>1 DEF TypeOK
      <3>2. QED
        BY <1>1, <1>2, <1>3, <1>4, <1>5, <2>2, <3>1, TriggerStays
    <2>3. QED
      BY <2>1, <2>2
  <1>8. Completing'
    <2>1. CASE AskCancel
      <3>1. spent'.cancels = spent.cancels + 1 /\ spent.cancels \in Nat
        BY <1>1, <2>1, DisturbedCounts, SpentType DEF AskCancel
      <3>2. ~Undisturbed'
        BY <3>1 DEF Undisturbed
      <3>3. QED
        BY <3>2 DEF Completing
    <2>2. CASE Cancel
      <3>1. ~Undisturbed
        BY <1>1, <2>2 DEF Cancel, Completing
      <3>2. QED
        BY <1>2, <3>1 DEF Completing
    <2>3. CASE Expire
      BY <1>1, <1>2, <2>3, QuietStays DEF Expire
    <2>4. QED
      BY <2>1, <2>2, <2>3
  <1>9. QED
    BY <1>1, <1>6, <1>7, <1>8 DEF Inv

-----------------------------------------------------------------------------
(* Steps of the fan-out and of the completion                               *)

\* A task that does not send goes on as row, with the leads of more on its page.
TaskStep(w, row, more) ==
    /\ worker' = [worker EXCEPT ![w] = row] /\ row.pc \notin Busy
    /\ row.page \in SUBSET Lead
    /\ row.page # {} => row.pc = "publish"
    /\ row.pc \in {"page", "publish"} => row.msg.job = "trigger"
    /\ row.pc \in {"count", "complete"} => row.msg.job = "finalize"
    /\ \A k \in more : recipient[k] = "pending" /\ recipient'[k] = "queued"
    /\ \A k \in Lead \ more : recipient'[k] = recipient[k]
    /\ UNCHANGED <<received, request, cancel>>
    /\ campaign'.sent = campaign.sent /\ campaign'.failed = campaign.failed
    /\ campaign'.total = campaign.total /\ campaign'.status # "draft"
    /\ spent'.lost >= spent.lost /\ spent'.errors >= spent.errors
    /\ (OneTrigger' => OneTrigger) /\ (Undisturbed' => Undisturbed)

LEMMA TaskStepInv ==
  ASSUME Inv, TypeOK', NEW w \in Worker, worker[w].pc \notin Busy, campaign.status # "draft",
         NEW row, NEW more \in SUBSET Lead, NEW less \in SUBSET Lead,
         TaskStep(w, row, more), Shifted(more, less), Completing'
  PROVE  Inv'
  <1>1. TypeOK /\ Roles /\ Finite /\ NoneIsNew /\ Once /\ Counting /\ Quiet /\ Triggered
    BY DEF Inv
  <1>2. worker'[w] = row /\ \A v \in Worker \ {w} : worker'[v] = worker[v]
    BY <1>1 DEF TypeOK, TaskStep
  <1>3. Roles'
    <2>1. /\ row.page # {} => row.pc = "publish"
          /\ row.pc \in {"page", "publish"} => row.msg.job = "trigger"
          /\ row.pc \in {"count", "complete"} => row.msg.job = "finalize"
          /\ row.pc \notin Busy
      BY DEF TaskStep
    <2>2. QED
      BY <1>1, <1>2, <2>1 DEF Roles, Its, At
  <1>4. /\ \A k \in more : recipient[k] = "pending" /\ recipient'[k] = "queued"
        /\ \A k \in Lead \ more : RowSteps(k)
        /\ UNCHANGED received
        /\ OneTrigger' => /\ OneTrigger /\ campaign'.sent = campaign.sent
                          /\ campaign'.failed = campaign.failed
        /\ spent'.lost >= spent.lost /\ spent'.errors >= spent.errors
    BY DEF TaskStep, RowSteps
  <1>5. Finite' /\ NoneIsNew' /\ Once' /\ Counting'
    BY <1>1, <1>3, <1>4, TaskStepKeeps
  <1>6. Quiet' /\ Triggered'
    <2>1. \A k \in Lead : recipient'[k] = "none" <=> recipient[k] = "none"
      BY DEF TaskStep
    <2>2. /\ campaign'.status # "draft" /\ campaign'.total = campaign.total /\ UNCHANGED request
          /\ OneTrigger' => OneTrigger
      BY DEF TaskStep
    <2>3. QED
      BY <1>1, <2>1, <2>2, TriggerStays
  <1>7. QED
    BY <1>3, <1>5, <1>6 DEF Inv

\* a task that keeps no page and publishes no send
LEMMA ControlKeeps ==
  ASSUME Inv, TypeOK', NEW w \in Worker, worker[w].pc \notin Busy, campaign.status # "draft",
         NEW row, row.page = {}, TaskStep(w, row, {}), Gains(mail', AnyLead, 0),
         Undisturbed /\ (campaign'.status = "completed" \/ row.pc = "complete") =>
           \/ campaign.status = "completed" \/ At(w, "complete")
           \/ \A k \in Lead : recipient[k] \in Done \cup {"none"}
  PROVE  Inv'
  <1>1. TypeOK /\ Finite /\ Completing
    BY DEF Inv
  <1>2. worker[w].page \in SUBSET Lead
    BY <1>1, WorkerType
  <1>3. /\ worker' = [worker EXCEPT ![w] = row] /\ row.pc \notin Busy
        /\ row.page \in SUBSET Lead /\ {} \in SUBSET Lead /\ 0 \in Int
    BY DEF TaskStep
  <1>4. PageShift(w, {}, AnyLead, 0)
    <2>1. PageShift(w, row.page, AnyLead, 0)
      BY <1>1, <1>3, PageMoves
    <2>2. QED
      BY <2>1
  <1>5. Shifted({}, worker[w].page)
    <2>1. ASSUME NEW L \in SUBSET Lead, NEW labels \in {Busy, Unspent}
          PROVE  Copies(L, labels)' + Cardinality(worker[w].page \cap L)
                   = Copies(L, labels) + Cardinality({} \cap L)
      <3>1. labels \in SUBSET Busy
        BY DEF Busy
      <3>2. Copies(L, labels) \in Nat
        BY <1>1, <3>1, CopiesType
      <3>3. {} \cap L = {} /\ Cardinality({}) = 0
        BY FS_EmptySet
      <3>4. Copies(L, labels)' + Cardinality(worker[w].page \cap L)
              = Copies(L, labels) + Cardinality({} \cap L) + (IF AnyLead \in L THEN 0 ELSE 0)
        BY <1>4, <3>1 DEF PageShift
      <3>5. QED
        BY <3>2, <3>3, <3>4
    <2>2. QED
      BY <1>4, <2>1 DEF Shifted, PageShift
  <1>6. Completing'
    <2>1. UNCHANGED cancel /\ recipient' = recipient /\ (Undisturbed' => Undisturbed)
      BY <1>1 DEF TaskStep, TypeOK
    <2>2. \A v \in Worker : At(v, "complete")' => At(v, "complete") \/ (v = w /\ row.pc = "complete")
      BY <1>1, <1>3 DEF At, TypeOK
    <2>3. Undisturbed /\ (campaign'.status = "completed" \/ (\E v \in Worker : At(v, "complete")'))
           => \/ campaign.status = "completed" \/ \E v \in Worker : At(v, "complete")
              \/ \A k \in Lead : recipient[k] \in Done \cup {"none"}
      BY <2>2
    <2>4. QED
      BY <1>1, <2>1, <2>3, CompletingKeeps
  <1>7. QED
    BY <1>2, <1>3, <1>5, <1>6, TaskStepInv

\* what the counters of the disturbances do when a task ends
LEMMA EndSpent ==
  ASSUME TypeOK, UNCHANGED spent \/ Disturbed("lost") \/ Error
  PROVE  /\ spent'.lost >= spent.lost /\ spent'.errors >= spent.errors
         /\ (OneTrigger' => OneTrigger) /\ (Undisturbed' => Undisturbed)
  BY SpentGrows DEF Error

\* the task ends
LEMMA EndStep ==
  ASSUME NEW w, worker' = [worker EXCEPT ![w] = Idle],
         TypeOK, UNCHANGED spent \/ Disturbed("lost") \/ Error,
         UNCHANGED <<recipient, received, request, cancel>>,
         campaign'.sent = campaign.sent, campaign'.failed = campaign.failed,
         campaign'.total = campaign.total, campaign'.status # "draft"
  PROVE  TaskStep(w, Idle, {})
  BY EndSpent DEF TaskStep, Idle, Busy, Unspent

\* worker w takes a message, which is not a send, and goes to label
LEMMA TakeStep ==
  ASSUME Inv, NEW w \in Worker, NEW m \in Message, m.job # "send", NEW label, Take(w, m, label),
         label \in {"page", "publish"} => m.job = "trigger",
         label \in {"count", "complete"} => m.job = "finalize", label \notin Busy,
         UNCHANGED <<recipient, received, request, cancel, spent>>,
         campaign'.sent = campaign.sent, campaign'.failed = campaign.failed,
         campaign'.total = campaign.total, campaign'.status # "draft"
  PROVE  /\ TaskStep(w, [pc |-> label, msg |-> m, page |-> {}], {})
         /\ Gains(mail', AnyLead, 0) /\ worker[w].pc \notin Busy /\ campaign.status # "draft"
  <1>1. TypeOK /\ Finite /\ Quiet
    BY DEF Inv
  <1>2. mail[m] > 0 /\ worker[w].pc = "idle"
    BY DEF Take, At
  <1>3. Gains([mail EXCEPT ![m] = @ - 1], AnyLead, 0 - Sends(m))
    BY <1>1, <1>2, GainsOneLess
  <1>4. 0 - Sends(m) = 0
    <2>1. Sends(m) = 0
      BY DEF Sends
    <2>2. QED
      BY <2>1
  <1>5. Gains(mail', AnyLead, 0)
    BY <1>3, <1>4 DEF Take
  <1>6. campaign.status # "draft"
    BY <1>1, <1>2, NoDraft
  <1>7. worker[w].pc \notin Busy
    BY <1>2 DEF Busy, Unspent
  <1>8. /\ spent'.lost >= spent.lost /\ spent'.errors >= spent.errors
        /\ (OneTrigger' => OneTrigger) /\ (Undisturbed' => Undisturbed)
    BY <1>1, EndSpent
  <1> DEFINE row == [pc |-> label, msg |-> m, page |-> {}]
  <1>9. row.pc = label /\ row.msg = m /\ row.page = {}
    OBVIOUS
  <1>10. worker' = [worker EXCEPT ![w] = row]
    BY DEF Take
  <1> HIDE DEF row
  <1>11. TaskStep(w, row, {})
    BY <1>8, <1>9, <1>10 DEF TaskStep
  <1>12. QED
    BY <1>5, <1>6, <1>7, <1>11 DEF row

\* a worker that is not sending, and the message that it has
LEMMA ControlWorker ==
  ASSUME Inv, NEW w \in Worker, worker[w].pc # "idle", worker[w].pc \notin Busy
  PROVE  /\ Its(w) \in Message /\ Its(w).job # "send" /\ campaign.status # "draft"
         /\ Sends(Its(w)) = 0 /\ Gains(mail, AnyLead, 0)
  <1>1. TypeOK /\ Roles /\ Finite /\ Quiet
    BY DEF Inv
  <1>2. Its(w) \in Message /\ worker[w].pc \in Label
    BY <1>1, WorkerType
  <1>3. worker[w].pc \in {"page", "publish", "count", "complete"}
    BY <1>2 DEF Label, Busy, Unspent
  <1>4. Its(w).job # "send"
    BY <1>1, <1>3 DEF Roles
  <1>5. campaign.status # "draft"
    BY <1>1, NoDraft
  <1>6. Gains(mail, AnyLead, 0)
    BY <1>1, GainsNothing
  <1>7. QED
    BY <1>2, <1>4, <1>5, <1>6 DEF Sends

\* what a message that is no send leaves of the sends in the broker
LEMMA ControlGains ==
  ASSUME Finite, NEW box, Gains(box, AnyLead, 0), NEW m \in Message, m.job # "send"
  PROVE  Gains(Plus(box, m), AnyLead, 0)
  <1>1. Gains(Plus(box, m), AnyLead, 0 + Sends(m))
    BY GainsOne
  <1>2. Sends(m) = 0
    BY DEF Sends
  <1>3. QED
    BY <1>1, <1>2

LEMMA ControlRetried ==
  ASSUME TypeOK, Finite, NEW limit \in Limits, NEW m \in Message, m.job # "send"
  PROVE  Gains(Retried(m, limit), AnyLead, 0)
  <1>1. Sends(m) = 0
    BY DEF Sends
  <1>2. QED
    BY <1>1, RetriedGains

\* A task that does not send ends; box is what the broker has then.
LEMMA ControlEnds ==
  ASSUME Inv, TypeOK', NEW w \in Worker, worker[w].pc \notin Busy, campaign.status # "draft",
         NEW box, Gains(box, AnyLead, 0), NEW m \in Message, m.job # "send",
         End(w, m, box) \/ EndInError(w, box),
         UNCHANGED <<recipient, received, request, cancel>>,
         campaign'.sent = campaign.sent, campaign'.failed = campaign.failed,
         campaign'.total = campaign.total, campaign'.status # "draft",
         campaign'.status = "completed" => campaign.status = "completed" \/ At(w, "complete")
  PROVE  Inv'
  <1>1. TypeOK /\ Finite
    BY DEF Inv
  <1>2. /\ worker' = [worker EXCEPT ![w] = Idle]
        /\ UNCHANGED spent \/ Disturbed("lost") \/ Error
    BY DEF End, EndInError
  <1>3. Gains(mail', AnyLead, 0)
    <2>1. Gains(Plus(box, m), AnyLead, 0)
      BY <1>1, ControlGains
    <2>2. mail' = box \/ mail' = Plus(box, m)
      BY DEF End, EndInError
    <2>3. QED
      BY <2>1, <2>2
  <1>4. TaskStep(w, Idle, {})
    BY <1>1, <1>2, EndStep
  <1>5. Idle.page = {} /\ Idle.pc # "complete"
    BY DEF Idle
  <1>6. QED
    BY <1>3, <1>4, <1>5, ControlKeeps

LEMMA TaskNext ==
  ASSUME Inv, NEW w \in Worker,
         \/ \E m \in Message : Start(w, m) \/ Skip(w, m) \/ Check(w, m)
         \/ Schedule(w) \/ Recheck(w) \/ NoneInFlight(w) \/ Complete(w) \/ EnqueueRaises(w)
  PROVE  Inv'
  <1>1. TypeOK' /\ TypeOK /\ Roles /\ Finite /\ Quiet /\ Completing
    BY TaskTypes DEF Inv
  <1>2. /\ campaign.sent \in Nat /\ campaign.failed \in Nat
    BY <1>1 DEF TypeOK
  <1>3. \A x \in {"idle", "page", "publish", "count", "complete"} : x \notin Busy
    BY DEF Busy, Unspent
  <1>4. \A st \in CampaignStatus :
          /\ [campaign EXCEPT !.status = st].sent = campaign.sent
          /\ [campaign EXCEPT !.status = st].failed = campaign.failed
          /\ [campaign EXCEPT !.status = st].total = campaign.total
          /\ [campaign EXCEPT !.status = st].status = st
    BY <1>1 DEF TypeOK
  <1>5. ASSUME NEW m \in Message, Start(w, m) PROVE Inv'
    <2>1. campaign'.status = "running" /\ campaign'.sent = campaign.sent
            /\ campaign'.failed = campaign.failed /\ campaign'.total = campaign.total
      BY <1>4, <1>5 DEF Start, CampaignStatus
    <2>2. /\ m.job = "trigger" /\ Take(w, m, "page")
          /\ UNCHANGED <<recipient, received, request, cancel, spent>>
      BY <1>5 DEF Start
    <2> DEFINE row == [pc |-> "page", msg |-> m, page |-> {}]
    <2>3. /\ TaskStep(w, row, {}) /\ Gains(mail', AnyLead, 0) /\ worker[w].pc \notin Busy
          /\ campaign.status # "draft"
      BY <1>3, <2>1, <2>2, TakeStep
    <2>4. row.page = {} /\ row.pc # "complete"
      OBVIOUS
    <2> HIDE DEF row
    <2>5. QED
      BY <1>1, <2>1, <2>3, <2>4, ControlKeeps
  <1>6. ASSUME NEW m \in Message, Check(w, m) PROVE Inv'
    <2>1. /\ m.job = "finalize" /\ Take(w, m, "count") /\ UNCHANGED campaign
          /\ UNCHANGED <<recipient, received, request, cancel, spent>>
      BY <1>6 DEF Check
    <2>2. campaign.status # "draft"
      BY <1>1, <2>1, NoDraft DEF Take
    <2> DEFINE row == [pc |-> "count", msg |-> m, page |-> {}]
    <2>3. /\ TaskStep(w, row, {}) /\ Gains(mail', AnyLead, 0) /\ worker[w].pc \notin Busy
      BY <1>3, <2>1, <2>2, TakeStep
    <2>4. row.page = {} /\ row.pc # "complete"
      OBVIOUS
    <2> HIDE DEF row
    <2>5. QED
      BY <1>1, <2>1, <2>2, <2>3, <2>4, ControlKeeps
  <1>7. ASSUME NEW m \in Message, Skip(w, m) PROVE Inv'
    <2> DEFINE box == [mail EXCEPT ![m] = @ - 1]
    <2>1. /\ m.job = "trigger" /\ worker[w].pc = "idle" /\ mail[m] > 0 /\ UNCHANGED campaign
          /\ UNCHANGED <<recipient, received, request, cancel>> /\ End(w, m, box)
      BY <1>7 DEF Skip, At
    <2>2. campaign.status # "draft"
      BY <1>1, <2>1, NoDraft
    <2>3. Gains(box, AnyLead, 0)
      <3>1. Gains(box, AnyLead, 0 - Sends(m))
        BY <1>1, <2>1, GainsOneLess
      <3>2. Sends(m) = 0
        BY <2>1 DEF Sends
      <3>3. 0 - Sends(m) = 0
        BY <3>2
      <3>4. QED
        BY <3>1, <3>3
    <2> HIDE DEF box
    <2>4. QED
      BY <1>1, <1>3, <2>1, <2>2, <2>3, ControlEnds
  <1>8. CASE Schedule(w)
    <2>1. /\ worker[w].pc = "page" /\ UNCHANGED <<recipient, received, request, cancel>>
          /\ UNCHANGED campaign
          /\ End(w, Its(w), Plus(mail, Job("finalize"))) \/ EndInError(w, mail)
      BY <1>8 DEF Schedule, At
    <2>2. worker[w].pc # "idle" /\ worker[w].pc \notin Busy
      BY <1>3, <2>1
    <2>3. /\ Its(w) \in Message /\ Its(w).job # "send" /\ campaign.status # "draft"
          /\ Gains(mail, AnyLead, 0)
      BY <2>2, ControlWorker
    <2>4. Gains(Plus(mail, Job("finalize")), AnyLead, 0)
      BY <1>1, <2>3, ControlGains, MessageType
    <2>5. QED
      BY <1>1, <2>1, <2>2, <2>3, <2>4, ControlEnds
  <1>9. CASE Recheck(w)
    <2>1. /\ worker[w].pc = "count" /\ UNCHANGED <<recipient, received, request, cancel>>
          /\ UNCHANGED campaign /\ End(w, Its(w), Retried(Its(w), CheckRetries))
      BY <1>9 DEF Recheck, At
    <2>2. worker[w].pc # "idle" /\ worker[w].pc \notin Busy
      BY <1>3, <2>1
    <2>3. /\ Its(w) \in Message /\ Its(w).job # "send" /\ campaign.status # "draft"
      BY <2>2, ControlWorker
    <2>4. Gains(Retried(Its(w), CheckRetries), AnyLead, 0)
      BY <1>1, <2>3, ControlRetried DEF Limits
    <2>5. QED
      BY <1>1, <2>1, <2>2, <2>3, <2>4, ControlEnds
  <1>10. CASE Complete(w)
    <2>1. /\ At(w, "complete") /\ UNCHANGED <<recipient, received, request, cancel>>
          /\ End(w, Its(w), mail)
          /\ campaign'.status = "completed" /\ campaign'.sent = campaign.sent
          /\ campaign'.failed = campaign.failed /\ campaign'.total = campaign.total
      BY <1>4, <1>10 DEF Complete, CampaignStatus
    <2>2. worker[w].pc # "idle" /\ worker[w].pc \notin Busy
      BY <1>3, <2>1 DEF At
    <2>3. /\ Its(w) \in Message /\ Its(w).job # "send" /\ campaign.status # "draft"
          /\ Gains(mail, AnyLead, 0)
      BY <2>2, ControlWorker
    <2>4. QED
      BY <1>1, <2>1, <2>2, <2>3, ControlEnds
  <1>11. CASE EnqueueRaises(w)
    <2>1. /\ worker[w].pc \in {"page", "publish"}
          /\ UNCHANGED <<recipient, received, request, cancel>>
          /\ EndInError(w, Retried(Its(w), ErrorRetries))
          /\ campaign'.status = "failed" /\ campaign'.sent = campaign.sent
          /\ campaign'.failed = campaign.failed /\ campaign'.total = campaign.total
      <3>1. received' = received
        BY <1>11 DEF EnqueueRaises
      <3>2. QED
        BY <1>4, <1>11, <3>1 DEF EnqueueRaises, CampaignStatus
    <2>2. worker[w].pc # "idle" /\ worker[w].pc \notin Busy
      BY <1>3, <2>1
    <2>3. /\ Its(w) \in Message /\ Its(w).job # "send" /\ campaign.status # "draft"
      BY <2>2, ControlWorker
    <2>4. Gains(Retried(Its(w), ErrorRetries), AnyLead, 0)
      BY <1>1, <2>3, ControlRetried DEF Limits
    <2>5. QED
      BY <1>1, <2>1, <2>2, <2>3, <2>4, ControlEnds
  <1>12. CASE NoneInFlight(w)
    <2>1. /\ worker[w].pc = "count" /\ Goto(w, "complete") /\ UNCHANGED <<mail, campaign, spent>>
          /\ UNCHANGED <<recipient, received, request, cancel>>
          /\ \A k \in Lead : recipient[k] \notin InFlight
      BY <1>12 DEF NoneInFlight, At
    <2>2. worker[w].pc # "idle" /\ worker[w].pc \notin Busy /\ worker[w].page = {}
      BY <1>1, <1>3, <2>1 DEF Roles, At
    <2>3. /\ campaign.status # "draft" /\ Gains(mail', AnyLead, 0)
      BY <2>1, <2>2, ControlWorker
    <2> DEFINE row == Row(w, "complete", {})
    <2>4. worker' = [worker EXCEPT ![w] = row]
      BY <1>1, <2>1, <2>2, GotoRow
    <2>5. /\ row.pc = "complete" /\ row.msg = Its(w) /\ row.page = {}
          /\ Its(w).job = "finalize"
      BY <1>1, <2>1 DEF Row, Roles
    <2> HIDE DEF row
    <2>6. /\ spent'.lost >= spent.lost /\ spent'.errors >= spent.errors
          /\ (OneTrigger' => OneTrigger) /\ (Undisturbed' => Undisturbed)
      BY <1>1, <2>1, EndSpent
    <2>7. TaskStep(w, row, {})
      BY <1>3, <2>1, <2>3, <2>4, <2>5, <2>6 DEF TaskStep
    <2>8. Undisturbed => \A k \in Lead : recipient[k] \in Done \cup {"none"}
      <3>1. ASSUME Undisturbed, NEW k \in Lead PROVE recipient[k] \in Done \cup {"none"}
        <4>1. recipient[k] # "skipped"
          BY <1>1, <3>1 DEF Completing, With
        <4>2. recipient[k] \in RecipientStatus /\ recipient[k] \notin InFlight
          BY <1>1, <2>1 DEF TypeOK
        <4>3. QED
          BY <4>1, <4>2 DEF RecipientStatus, Settled, Done
      <3>2. QED
        BY <3>1
    <2>9. QED
      BY <1>1, <2>2, <2>3, <2>5, <2>7, <2>8, ControlKeeps
  <1>13. QED
    BY <1>5, <1>6, <1>7, <1>8, <1>9, <1>10, <1>11, <1>12

\* a page is locked and marked: its leads get their copies
LEMMA PageKeeps ==
  ASSUME Inv, NEW w \in Worker, NEW page \in SUBSET Lead, Page(w, page)
  PROVE  Inv'
  <1>1. TypeOK' /\ TypeOK /\ Roles /\ Finite /\ Completing
    BY TaskTypes DEF Inv
  <1>2. /\ worker[w].pc = "page" /\ page \subseteq With("pending") /\ page # {}
        /\ UNCHANGED <<campaign, mail, request, cancel, received, spent>>
        /\ recipient' = [k \in Lead |-> IF k \in page THEN "queued" ELSE recipient[k]]
    BY DEF Page, At
  <1>3. worker[w].pc # "idle" /\ worker[w].pc \notin Busy /\ worker[w].page = {}
    BY <1>1, <1>2 DEF Roles, At, Busy, Unspent
  <1>4. campaign.status # "draft" /\ Gains(mail', AnyLead, 0)
    BY <1>2, <1>3, ControlWorker
  <1> DEFINE row == Row(w, "publish", page)
  <1>5. worker' = [worker EXCEPT ![w] = row]
    <2>1. worker' = Marked(w, "publish", page)
      BY DEF Page, Marked
    <2>2. QED
      BY <1>1, <2>1, RowChanges
  <1>6. row.pc = "publish" /\ row.msg = Its(w) /\ row.page = page /\ Its(w).job = "trigger"
    BY <1>1, <1>2 DEF Row, Roles
  <1> HIDE DEF row
  <1>7. row.pc \notin Busy /\ row.page \in SUBSET Lead /\ 0 \in Int
    BY <1>6 DEF Busy, Unspent
  <1>8. Shifted(page, {})
    <2>1. PageShift(w, page, AnyLead, 0)
      <3>1. PageShift(w, row.page, AnyLead, 0)
        BY <1>1, <1>3, <1>4, <1>5, <1>7, PageMoves
      <3>2. QED
        BY <1>6, <3>1
    <2>2. ASSUME NEW L \in SUBSET Lead, NEW labels \in {Busy, Unspent}
          PROVE  Copies(L, labels)' + Cardinality({} \cap L)
                   = Copies(L, labels) + Cardinality(page \cap L)
      <3>1. labels \in SUBSET Busy
        BY DEF Busy
      <3>2. Copies(L, labels) \in Nat
        BY <1>1, <3>1, CopiesType
      <3>3. Cardinality(page \cap L) \in Nat
        <4>1. page \cap L \subseteq Lead
          OBVIOUS
        <4>2. QED
          BY <4>1, BroadcastAssumption, CardOfSubset
      <3>4. Copies(L, labels)' + Cardinality(worker[w].page \cap L)
              = Copies(L, labels) + Cardinality(page \cap L) + (IF AnyLead \in L THEN 0 ELSE 0)
        BY <2>1, <3>1 DEF PageShift
      <3>5. QED
        BY <1>3, <3>2, <3>3, <3>4
    <2>3. QED
      BY <2>1, <2>2 DEF Shifted, PageShift
  <1>9. /\ \A k \in page : recipient[k] = "pending" /\ recipient'[k] = "queued"
        /\ \A k \in Lead \ page : recipient'[k] = recipient[k]
    BY <1>2 DEF With
  <1>10. /\ spent'.lost >= spent.lost /\ spent'.errors >= spent.errors
         /\ (OneTrigger' => OneTrigger) /\ (Undisturbed' => Undisturbed)
    BY <1>1, <1>2, EndSpent
  <1>11. TaskStep(w, row, page)
    BY <1>2, <1>4, <1>5, <1>6, <1>7, <1>9, <1>10 DEF TaskStep
  <1>12. Completing'
    <2>1. \A v \in Worker : At(v, "complete")' => At(v, "complete")
      BY <1>1, <1>5, <1>6 DEF At, TypeOK
    <2>2. ASSUME Undisturbed
          PROVE  /\ cancel' = "none" /\ With("skipped")' = {}
                 /\ ~(campaign'.status = "completed" \/ (\E v \in Worker : At(v, "complete")'))
      <3>1. cancel = "none" /\ With("skipped") = {}
        BY <1>1, <2>2 DEF Completing
      <3>2. With("skipped")' = {}
        BY <1>9, <3>1 DEF With
      <3>3. PICK k \in page : recipient[k] = "pending"
        BY <1>2, <1>9
      <3>4. ~(campaign.status = "completed" \/ \E v \in Worker : At(v, "complete"))
        BY <1>1, <2>2, <3>3 DEF Completing, Done
      <3>5. QED
        BY <1>2, <2>1, <3>1, <3>2, <3>4
    <2>3. QED
      BY <1>10, <2>2 DEF Completing
  <1>13. {} \in SUBSET Lead
    OBVIOUS
  <1>14. QED
    BY <1>1, <1>3, <1>4, <1>8, <1>11, <1>12, <1>13, TaskStepInv

\* the message of a lead is published: its copy goes from the page to the broker
LEMMA PublishKeeps ==
  ASSUME Inv, NEW w \in Worker, NEW l \in Lead, PublishSend(w, l)
  PROVE  Inv'
  <1>1. TypeOK' /\ TypeOK /\ Roles /\ Finite /\ Completing
    BY TaskTypes DEF Inv
  <1>2. /\ worker[w].pc = "publish" /\ l \in worker[w].page
        /\ UNCHANGED <<campaign, recipient, request, cancel, received, spent>>
        /\ mail' = Plus(mail, Send(l))
    BY DEF PublishSend, At
  <1>3. worker[w].pc # "idle" /\ worker[w].pc \notin Busy /\ worker[w].page \in SUBSET Lead
    BY <1>1, <1>2, WorkerType DEF Busy, Unspent
  <1>4. campaign.status # "draft"
    BY <1>3, ControlWorker
  <1>5. Gains(mail', l, 1)
    <2>1. Gains(mail, l, 0)
      BY <1>1, GainsNothing
    <2>2. Send(l) \in Message /\ Send(l).job = "send" /\ Send(l).lead = l
      BY MessageType
    <2>3. Gains(Plus(mail, Send(l)), l, 0 + Sends(Send(l)))
      BY <1>1, <2>1, <2>2, GainsOne
    <2>4. 0 + Sends(Send(l)) = 1
      BY <2>2 DEF Sends
    <2>5. QED
      BY <1>2, <2>3, <2>4
  <1> DEFINE rest == worker[w].page \ {l}
             label == IF worker[w].page = {l} THEN "page" ELSE "publish"
             row == Row(w, label, rest)
  <1>6. worker' = [worker EXCEPT ![w] = row]
    <2> HIDE DEF row
    <2>1. worker' = Turned(w, label, rest)
      BY DEF PublishSend, Turned
    <2> HIDE DEF label, rest
    <2>2. QED
      BY <1>1, <2>1, RowChanges DEF row
  <1>7. /\ row.pc = label /\ row.msg = Its(w) /\ row.page = rest /\ Its(w).job = "trigger"
    <2> HIDE DEF label, rest
    <2>1. QED
      BY <1>1, <1>2 DEF Row, Roles
  <1>8. /\ label \in {"page", "publish"} /\ rest \in SUBSET Lead
        /\ rest # {} => label = "publish"
    BY <1>3
  <1>9. ASSUME NEW L \in SUBSET Lead
        PROVE  /\ Cardinality(worker[w].page \cap L)
                    = Cardinality(rest \cap L) + (IF l \in L THEN 1 ELSE 0)
               /\ Cardinality(rest \cap L) \in Nat
    <2> DEFINE A == worker[w].page \cap L
               B == rest \cap L
    <2>1. A \subseteq Lead /\ B \subseteq Lead
      BY <1>3
    <2>2. l \in L => l \in A /\ B = A \ {l}
      BY <1>2
    <2>3. l \notin L => B = A
      OBVIOUS
    <2> HIDE DEF A, B
    <2>4. IsFiniteSet(A) /\ Cardinality(A) \in Nat /\ Cardinality(B) \in Nat
      BY <2>1, BroadcastAssumption, CardOfSubset
    <2>5. l \in L => Cardinality(A) = Cardinality(B) + 1
      <3>1. l \in A => Cardinality(A \ {l}) = Cardinality(A) - 1
        BY <2>4, CardWithout
      <3>2. l \in L => Cardinality(B) = Cardinality(A \ {l})
        BY <2>2, Zenon
      <3>3. QED
        BY <2>2, <2>4, <3>1, <3>2
    <2>6. Cardinality(A) = Cardinality(B) + (IF l \in L THEN 1 ELSE 0)
      BY <2>3, <2>4, <2>5
    <2>7. QED
      BY <2>4, <2>6 DEF A, B
  <1> HIDE DEF row, rest, label
  <1>10. row.pc \notin Busy /\ row.page \in SUBSET Lead /\ 1 \in Int
    BY <1>7, <1>8 DEF Busy, Unspent
  <1>11. PageShift(w, rest, l, 1)
    <2>1. PageShift(w, row.page, l, 1)
      BY <1>1, <1>3, <1>5, <1>6, <1>10, PageMoves
    <2>2. QED
      BY <1>7, <2>1
  <1>12. Shifted({}, {})
    <2>1. ASSUME NEW L \in SUBSET Lead, NEW labels \in {Busy, Unspent}
          PROVE  Copies(L, labels)' + Cardinality({} \cap L)
                   = Copies(L, labels) + Cardinality({} \cap L)
      <3>1. labels \in SUBSET Busy
        BY DEF Busy
      <3>2. Copies(L, labels) \in Nat /\ Copies(L, labels)' \in Nat
        BY <1>1, <1>11, <3>1, CopiesType, CopiesTypeNext DEF PageShift
      <3>3. Copies(L, labels)' + Cardinality(worker[w].page \cap L)
              = Copies(L, labels) + Cardinality(rest \cap L) + (IF l \in L THEN 1 ELSE 0)
        BY <1>11, <3>1 DEF PageShift
      <3>4. Copies(L, labels)' = Copies(L, labels)
        BY <1>9, <3>2, <3>3
      <3>5. QED
        BY <3>4
    <2>2. QED
      BY <1>11, <2>1 DEF Shifted, PageShift
  <1>13. /\ spent'.lost >= spent.lost /\ spent'.errors >= spent.errors
         /\ (OneTrigger' => OneTrigger) /\ (Undisturbed' => Undisturbed)
    BY <1>1, <1>2, EndSpent
  <1>14. {} \in SUBSET Lead /\ \A k \in Lead : recipient'[k] = recipient[k]
    BY <1>2
  <1>15. TaskStep(w, row, {})
    BY <1>2, <1>4, <1>6, <1>7, <1>8, <1>10, <1>13, <1>14 DEF TaskStep
  <1>16. Completing'
    <2>1. \A v \in Worker : At(v, "complete")' => At(v, "complete")
      BY <1>1, <1>6, <1>7, <1>8 DEF At, TypeOK
    <2>2. With("skipped")' = With("skipped")
      BY <1>2 DEF With
    <2>3. QED
      BY <1>1, <1>2, <1>13, <2>1, <2>2 DEF Completing
  <1>17. QED
    BY <1>1, <1>3, <1>4, <1>12, <1>14, <1>15, <1>16, TaskStepInv

\* a send task takes its message: the copy goes from the broker to the worker
LEMMA LoadKeeps ==
  ASSUME Inv, NEW w \in Worker, NEW m \in Message, Load(w, m)
  PROVE  Inv'
  <1>1. TypeOK' /\ TypeOK /\ Roles /\ Finite /\ NoneIsNew /\ Once /\ Counting /\ Quiet
          /\ Triggered /\ Completing
    BY TaskTypes DEF Inv
  <1>2. PICK label \in {"mark", "revert"} : Take(w, m, label)
    BY DEF Load
  <1>3. /\ m.job = "send" /\ worker[w].pc = "idle" /\ mail[m] > 0 /\ m.lead \in Lead
        /\ UNCHANGED <<campaign, recipient, request, cancel, received, spent>>
    BY MessageType DEF Load, Take, At
  <1>4. PICK l \in Lead : m.lead = l
    BY <1>3
  <1>5. worker[w].page = {} /\ worker[w].pc \notin Busy
    BY <1>1, <1>3 DEF Roles, At, Busy, Unspent
  <1> DEFINE row == [pc |-> label, msg |-> m, page |-> {}]
  <1>6. worker' = [worker EXCEPT ![w] = row]
    BY <1>2 DEF Take
  <1>7. row.pc = label /\ row.msg = m /\ row.page = {}
    OBVIOUS
  <1> HIDE DEF row
  <1>8. /\ Is(row.pc, Busy) = 1 /\ Is(row.pc, Unspent) = 1
        /\ Is(worker[w].pc, Busy) = 0 /\ Is(worker[w].pc, Unspent) = 0
    BY <1>3, <1>7, IsOfLabel DEF Unspent
  <1>9. Gains(mail', l, 0 - 1)
    <2>1. Gains([mail EXCEPT ![m] = @ - 1], l, 0 - Sends(m))
      BY <1>1, <1>3, <1>4, GainsOneLess
    <2>2. Sends(m) = 1
      BY <1>3 DEF Sends
    <2>3. QED
      BY <1>2, <2>1, <2>2 DEF Take
  <1>10. Moved(l, (0 - 1) + Is(row.pc, Busy) - Is(worker[w].pc, Busy),
                  (0 - 1) + Is(row.pc, Unspent) - Is(worker[w].pc, Unspent))
    <2>1. /\ row.page = worker[w].page
          /\ worker[w].pc \in Busy => To(w) = l
          /\ row.pc \in Busy => row.msg.lead = l
          /\ 0 - 1 \in Int
      BY <1>4, <1>5, <1>7
    <2>2. QED
      BY <1>1, <1>6, <1>9, <2>1, RowMoves
  <1>11. Moved(l, 0, 0)
    <2>1. /\ (0 - 1) + Is(row.pc, Busy) - Is(worker[w].pc, Busy) = 0
          /\ (0 - 1) + Is(row.pc, Unspent) - Is(worker[w].pc, Unspent) = 0
      BY <1>8
    <2>2. QED
      BY <1>10, <2>1
  <1>12. Shifted({}, {})
    <2>1. ASSUME NEW L \in SUBSET Lead, NEW labels \in {Busy, Unspent}
          PROVE  Copies(L, labels)' + Cardinality({} \cap L)
                   = Copies(L, labels) + Cardinality({} \cap L)
      <3>1. labels \in SUBSET Busy
        BY DEF Busy
      <3>2. Copies(L, labels) \in Nat
        BY <1>1, <3>1, CopiesType
      <3>3. Copies(L, labels)' = Copies(L, labels) + (IF l \in L THEN 0 ELSE 0)
        BY <1>11 DEF Moved
      <3>4. Copies(L, labels)' = Copies(L, labels)
        BY <3>2, <3>3
      <3>5. QED
        BY <3>4
    <2>2. QED
      BY <1>11, <2>1 DEF Shifted, Moved
  <1>13. Roles'
    <2>1. /\ row.pc \notin {"page", "publish", "count", "complete"}
          /\ row.msg.job = "send" /\ row.page = {}
      BY <1>3, <1>7
    <2>2. worker'[w] = row /\ \A v \in Worker \ {w} : worker'[v] = worker[v]
      BY <1>1, <1>6 DEF TypeOK
    <2>3. QED
      BY <1>1, <2>1, <2>2 DEF Roles, Its, At
  <1>14. /\ spent'.lost >= spent.lost /\ spent'.errors >= spent.errors
         /\ (OneTrigger' => OneTrigger) /\ (Undisturbed' => Undisturbed)
    BY <1>1, <1>3, EndSpent
  <1>15. Finite' /\ NoneIsNew' /\ Once' /\ Counting'
    <2>1. /\ {} \in SUBSET Lead /\ \A k \in Lead \ {} : RowSteps(k)
          /\ \A k \in {} : recipient[k] = "pending" /\ recipient'[k] = "queued"
          /\ OneTrigger' => /\ OneTrigger /\ campaign'.sent = campaign.sent
                            /\ campaign'.failed = campaign.failed
      BY <1>3, <1>14 DEF RowSteps
    <2>2. UNCHANGED received
      BY <1>3
    <2>3. QED
      BY <1>1, <1>12, <1>13, <1>14, <2>1, <2>2, TaskStepKeeps
  <1>16. Quiet' /\ Triggered'
    <2>1. campaign.status # "draft"
      BY <1>1, <1>3, NoDraft
    <2>2. \A k \in Lead : recipient'[k] = "none" <=> recipient[k] = "none"
      BY <1>3
    <2>3. QED
      BY <1>1, <1>3, <1>14, <2>1, <2>2, TriggerStays
  <1>17. Completing'
    <2>1. \A v \in Worker : At(v, "complete")' => At(v, "complete")
      BY <1>1, <1>6, <1>7 DEF At, TypeOK
    <2>2. With("skipped")' = With("skipped")
      BY <1>3 DEF With
    <2>3. QED
      BY <1>1, <1>3, <1>14, <2>1, <2>2 DEF Completing
  <1>18. QED
    BY <1>1, <1>13, <1>15, <1>16, <1>17 DEF Inv

\* a lost worker leaves its message to another one
LEMMA LoseKeeps ==
  ASSUME Inv, NEW w \in Worker, Lose(w)
  PROVE  Inv'
  <1>1. TypeOK' /\ TypeOK /\ Finite
    BY TaskTypes DEF Inv
  <1>2. /\ worker[w].pc # "idle" /\ Disturbed("lost")
        /\ mail' = Plus(mail, Its(w)) \/ (Its(w).job = "finalize" /\ UNCHANGED mail)
        /\ worker' = [worker EXCEPT ![w] = Idle]
        /\ UNCHANGED campaign /\ UNCHANGED <<recipient, received, request, cancel>>
    BY DEF Lose, At
  <1>3. /\ campaign'.sent = campaign.sent /\ campaign'.failed = campaign.failed
        /\ campaign'.total = campaign.total /\ campaign'.status = campaign.status
        /\ campaign.sent \in Nat /\ campaign.failed \in Nat
    BY <1>1, <1>2 DEF TypeOK
  <1>4. CASE worker[w].pc \in Busy
    <2>1. /\ To(w) \in Lead /\ Its(w) \in Message /\ Its(w).job = "send" /\ Its(w).lead = To(w)
          /\ recipient[To(w)] \notin New
      BY <1>4, HolderHasCopy
    <2>2. PICK l \in Lead : To(w) = l
      BY <2>1
    <2>3. Gains(mail', l, 1)
      <3>1. Gains(mail, l, 0)
        BY <1>1, GainsNothing
      <3>2. Gains(Plus(mail, Its(w)), l, 0 + Sends(Its(w)))
        BY <1>1, <2>1, <2>2, <3>1, GainsOne
      <3>3. 0 + Sends(Its(w)) = 1
        BY <2>1 DEF Sends
      <3>4. QED
        BY <1>2, <2>1, <3>2, <3>3
    <2>4. /\ recipient' = [recipient EXCEPT ![l] = recipient[l]]
          /\ received' = [received EXCEPT ![l] = @ + 0]
      <3>1. received \in [Lead -> Nat] /\ recipient \in [Lead -> RecipientStatus]
        BY <1>1 DEF TypeOK
      <3>2. received[l] + 0 = received[l]
        BY <3>1
      <3>3. QED
        BY <1>2, <3>1, <3>2
    <2>5. /\ spent'.triggers = spent.triggers /\ spent'.cancels = spent.cancels
          /\ spent'.lost = spent.lost + 1 /\ spent'.errors = spent.errors
          /\ spent.lost \in Nat /\ spent.errors \in Nat
      BY <1>1, <1>2, DisturbedCounts, SpentType
    <2>6. Is(worker[w].pc, Unspent) \in Nat
      BY DEF Is
    <2>7. /\ 0 + 1 + Is(Idle.pc, Busy) <= 1 + (spent'.lost - spent.lost)
          /\ 0 + 1 + Is(Idle.pc, Unspent)
               <= Is(worker[w].pc, Unspent) + (spent'.lost - spent.lost)
                    + (spent'.errors - spent.errors)
          /\ spent'.lost >= spent.lost /\ spent'.errors >= spent.errors
      BY <2>5, <2>6, IsOfLabel
    <2>8. /\ campaign'.sent + campaign'.failed = campaign.sent + campaign.failed + 0
          /\ campaign'.sent >= campaign.sent /\ campaign'.failed >= campaign.failed
      BY <1>3
    <2>9. SendStep(w, l, Idle, 1, recipient[l], 0, 0)
      <3>1. ~(0 > 0)
        OBVIOUS
      <3>2. UNCHANGED <<request, cancel>>
        BY <1>2
      <3>3. campaign'.status = campaign.status /\ campaign'.total = campaign.total
        BY <1>3
      <3> DEFINE s == recipient[l]
      <3>4. /\ s = "skipped" => recipient[l] = "skipped"
            /\ s = "sent" => recipient[l] = "sent" \/ campaign'.sent = campaign.sent + 1
            /\ s = "failed" => recipient[l] = "failed" \/ campaign'.failed = campaign.failed + 1
            /\ recipient' = [recipient EXCEPT ![l] = s]
        BY <2>4
      <3> HIDE DEF s
      <3>5. SendStep(w, l, Idle, 1, s, 0, 0)
        BY <1>2, <2>3, <2>4, <2>5, <2>7, <2>8, <3>1, <3>2, <3>3, <3>4, Zenon DEF SendStep
      <3>6. QED
        BY <3>5 DEF s
    <2>10. recipient[l] \in RecipientStatus \ New /\ 0 \in Nat /\ 1 \in Nat
      BY <1>1, <2>1, <2>2 DEF TypeOK
    <2>11. QED
      BY <1>1, <1>4, <2>2, <2>9, <2>10, SendStepKeeps
  <1>5. CASE worker[w].pc \notin Busy
    <2>1. /\ Its(w) \in Message /\ Its(w).job # "send" /\ campaign.status # "draft"
          /\ Gains(mail, AnyLead, 0)
      BY <1>2, <1>5, ControlWorker
    <2>2. Gains(mail', AnyLead, 0)
      BY <1>1, <1>2, <2>1, ControlGains
    <2>3. TaskStep(w, Idle, {})
      BY <1>1, <1>2, <1>3, <2>1, EndStep
    <2>4. Idle.page = {} /\ Idle.pc # "complete"
      BY DEF Idle
    <2>5. QED
      BY <1>1, <1>3, <1>5, <2>1, <2>2, <2>3, <2>4, ControlKeeps
  <1>6. QED
    BY <1>4, <1>5

-----------------------------------------------------------------------------
(* The invariant holds                                                      *)

LEMMA InvInit == Init => Inv
  <1> SUFFICES ASSUME Init PROVE Inv
    OBVIOUS
  <1>1. /\ campaign = [status |-> "draft", total |-> 0, sent |-> 0, failed |-> 0]
        /\ recipient = [l \in Lead |-> "none"]
        /\ mail = [m \in Message |-> 0] /\ worker = [w \in Worker |-> Idle]
        /\ request = [a \in Admin |-> [pc |-> "idle", count |-> 0]]
        /\ received = [l \in Lead |-> 0] /\ cancel = "none"
        /\ spent = [triggers |-> 0, cancels |-> 0, errors |-> 0, lost |-> 0]
    BY DEF Init
  <1>2. Cardinality(Lead) \in Nat /\ MaxDisturbed \in Nat
    BY BroadcastAssumption, FS_CardinalityType
  <1>3. \A k \in {"triggers", "cancels", "errors", "lost"} : spent[k] = 0
    BY <1>1
  <1>4. TypeOK
    <2>1. campaign \in [status : CampaignStatus, total : 0 .. Cardinality(Lead),
                        sent : Nat, failed : Nat]
      BY <1>1, <1>2 DEF CampaignStatus
    <2>2. recipient \in [Lead -> RecipientStatus] /\ mail \in [Message -> Nat]
            /\ received \in [Lead -> Nat]
      BY <1>1 DEF RecipientStatus
    <2>3. worker \in [Worker -> [pc : Label, msg : Message, page : SUBSET Lead]]
      BY <1>1, MessageType DEF Idle, Label
    <2>4. request \in [Admin -> [pc : {"idle", "seed", "enqueue", "publish", "done"},
                                 count : 0 .. Cardinality(Lead)]]
      BY <1>1, <1>2
    <2>5. spent \in [{"triggers", "cancels", "errors", "lost"} -> 0 .. MaxDisturbed]
      BY <1>1, <1>2
    <2>6. breaker \in BOOLEAN /\ abandoned \in BOOLEAN /\ cancel \in {"none"} \cup Cancellable
      BY DEF Init
    <2>7. QED
      BY <2>1, <2>2, <2>3, <2>4, <2>5, <2>6 DEF TypeOK
  <1>5. \A w \in Worker : worker[w] = Idle /\ worker[w].pc = "idle" /\ worker[w].page = {}
    BY <1>1 DEF Idle
  <1>6. Roles
    BY <1>5 DEF Roles, At, Busy, Unspent
  <1>7. Mailed(Lead) = {} /\ Held(Lead, Busy) = {} /\ Paged(Lead) = {}
    <2>1. \A m \in Message : mail[m] = 0
      BY <1>1
    <2>2. Mailed(Lead) = {}
      BY <2>1 DEF Mailed, MailedIn
    <2>3. Held(Lead, Busy) = {} /\ Paged(Lead) = {}
      BY <1>5 DEF Held, HeldIn, Paged, Busy, Unspent
    <2>4. QED
      BY <2>2, <2>3
  <1>8. Finite
    BY <1>7, FS_EmptySet DEF Finite
  <1>9. \A L \in SUBSET Lead, labels \in SUBSET Busy : Copies(L, labels) = 0
    <2> SUFFICES ASSUME NEW L \in SUBSET Lead, NEW labels \in SUBSET Busy
                 PROVE  Copies(L, labels) = 0
      OBVIOUS
    <2>1. Mailed(L) = {}
      BY <1>7 DEF Mailed, MailedIn
    <2>2. Held(L, labels) = {} /\ Paged(L) = {}
      BY <1>5 DEF Held, HeldIn, Paged, Busy, Unspent
    <2>3. Cardinality(Mailed(L)) = 0 /\ Cardinality(Held(L, labels)) = 0 /\ Cardinality(Paged(L)) = 0
      BY <2>1, <2>2, FS_EmptySet
    <2>4. QED
      BY <2>3 DEF Copies
  <1>10. \A l \in Lead : ~HasCopy(l)
    <2>1. ASSUME NEW l \in Lead PROVE ~(Copies({l}, Busy) > 0)
      <3>1. Copies({l}, Busy) = 0
        BY <1>9
      <3>2. QED
        BY <3>1
    <2>2. QED
      BY <1>4, <1>6, <1>8, <2>1, CopiesCount
  <1>11. NoneIsNew
    BY <1>10 DEF NoneIsNew
  <1>12. Once
    <2>1. ASSUME NEW l \in Lead
          PROVE  received[l] + Copies({l}, Unspent) + (IF recipient[l] \in New THEN 1 ELSE 0)
                   <= 1 + spent.lost + spent.errors
      <3>1. Copies({l}, Unspent) = 0
        BY <1>9 DEF Busy
      <3>2. received[l] = 0 /\ spent.lost = 0 /\ spent.errors = 0
        BY <1>1
      <3>3. QED
        BY <3>1, <3>2
    <2>2. QED
      BY <2>1 DEF Once
  <1>13. Counting
    <2>1. With("sent") = {} /\ With("failed") = {} /\ Reached = {}
      BY <1>1, <1>10 DEF With, Reached, Done
    <2>2. Cardinality(With("sent")) = 0 /\ Cardinality(With("failed")) = 0 /\ Cardinality(Reached) = 0
      BY <2>1, FS_EmptySet
    <2>3. Copies(Lead, Busy) = 0
      BY <1>9
    <2>4. campaign.sent = 0 /\ campaign.failed = 0 /\ spent.lost = 0
      BY <1>1
    <2>5. QED
      BY <2>2, <2>3, <2>4 DEF Counting
  <1>14. Quiet
    BY <1>1 DEF Quiet, New
  <1>15. Triggered
    BY <1>1 DEF Triggered
  <1>16. Completing
    BY <1>1, <1>5 DEF Completing, With, At
  <1>17. QED
    BY <1>4, <1>6, <1>8, <1>11, <1>12, <1>13, <1>14, <1>15, <1>16 DEF Inv

LEMMA InvNext == Inv /\ [Next]_vars => Inv'
  <1> SUFFICES ASSUME Inv, [Next]_vars PROVE Inv'
    OBVIOUS
  <1>1. CASE UNCHANGED vars
    <2>1. (Inv /\ UNCHANGED vars) => Inv'
      BY DEF vars, Inv, TypeOK, Roles, Its, At, Finite, Mailed, MailedIn, Held, HeldIn, Paged,
             NoneIsNew, HasCopy, To, Once, Copies, Counting, OneTrigger, With, Reached, Quiet,
             Triggered, Completing, Undisturbed
    <2>2. QED
      BY <1>1, <2>1
  <1>2. ASSUME NEW a \in Admin, Ask(a) \/ Serve(a) PROVE Inv'
    BY <1>2, AskKeeps
  <1>3. CASE AskCancel \/ Cancel \/ Expire
    BY <1>3, CancelKeeps
  <1>4. ASSUME NEW w \in Worker, Work(w) \/ Fault(w) PROVE Inv'
    <2>1. CASE \/ \E m \in Message : Start(w, m) \/ Skip(w, m) \/ Check(w, m)
               \/ Schedule(w) \/ Recheck(w) \/ NoneInFlight(w) \/ Complete(w) \/ EnqueueRaises(w)
      BY <2>1, TaskNext
    <2>2. CASE \E m \in Message : Load(w, m)
      BY <2>2, LoadKeeps
    <2>3. CASE \E page \in SUBSET Lead : Page(w, page)
      BY <2>3, PageKeeps
    <2>4. CASE \E l \in Lead : PublishSend(w, l)
      BY <2>4, PublishKeeps
    <2>5. CASE \/ MarkSending(w) \/ Accepted(w) \/ Refused(w) \/ RateLimited(w) \/ ReplyLost(w)
               \/ Revert(w) \/ OnSuccess(w) \/ OnFailure(w) \/ Transient(w)
      BY <2>5, SendNext
    <2>6. CASE Lose(w)
      BY <2>6, LoseKeeps
    <2>7. QED
      BY <1>4, <2>1, <2>2, <2>3, <2>4, <2>5, <2>6 DEF Work, Fault
  <1>5. QED
    BY <1>1, <1>2, <1>3, <1>4 DEF Next

LEMMA InvAlways == Spec => []Inv
  BY InvInit, InvNext, PTL DEF Spec

-----------------------------------------------------------------------------
(* Theorems                                                                 *)

\* Every variable keeps its type: no task, retry or lost worker leaves the
\* broker with less than no copies of a message or a recipient with a status
\* that models.py does not list.
THEOREM TypeCorrect == Spec => []TypeOK
  <1>1. Inv => TypeOK
    BY DEF Inv
  <1>2. QED
    BY <1>1, InvAlways, PTL

\* A lead receives the message once, and once more at most for each lost worker
\* and each error, however many triggers race (tasks.py:99-101,
\* broadcast_engine.py:73-76).
THEOREM MessagesAreOnce == Spec => []ReceivedOnce
  <1>1. Inv => ReceivedOnce
    <2> SUFFICES ASSUME Inv, NEW l \in Lead
                 PROVE  received[l] <= 1 + spent.lost + spent.errors
      BY DEF ReceivedOnce
    <2>1. {l} \in SUBSET Lead /\ Unspent \in SUBSET Busy
      BY DEF Busy
    <2>2. Copies({l}, Unspent) \in Nat
      BY <2>1, CopiesType DEF Inv
    <2>3. received[l] \in Nat /\ spent.lost \in Nat /\ spent.errors \in Nat
      BY SpentType DEF Inv, TypeOK
    <2>4. received[l] + Copies({l}, Unspent) + (IF recipient[l] \in New THEN 1 ELSE 0)
            <= 1 + spent.lost + spent.errors
      BY DEF Inv, Once
    <2>5. QED
      BY <2>2, <2>3, <2>4
  <1>2. QED
    BY <1>1, InvAlways, PTL

LEMMA InvCounters == Inv => CountersAgree
  <1> SUFFICES ASSUME Inv, OneTrigger
               PROVE  /\ Cardinality(With("sent")) <= campaign.sent
                      /\ Cardinality(With("failed")) <= campaign.failed
                      /\ campaign.sent + campaign.failed
                           <= Cardinality(With("sent")) + Cardinality(With("failed")) + spent.lost
    BY DEF CountersAgree
  <1> DEFINE K == {l \in Lead : HasCopy(l)}
             S == With("sent")
             F == With("failed")
  <1>1. /\ Cardinality(S) <= campaign.sent /\ Cardinality(F) <= campaign.failed
        /\ campaign.sent + campaign.failed + Copies(Lead, Busy) <= Cardinality(Reached) + spent.lost
    BY DEF Inv, Counting
  <1>2. IsFiniteSet(K) /\ Cardinality(K) \in Nat /\ Cardinality(K) <= Copies(Lead, Busy)
    BY CopiesOfLeads DEF Inv
  <1>3. /\ IsFiniteSet(S) /\ IsFiniteSet(F) /\ Cardinality(S) \in Nat /\ Cardinality(F) \in Nat
    BY BroadcastAssumption, CardOfSubset DEF With
  <1>4. Reached = (S \cup F) \cup K
    BY DEF Reached, Done, With
  <1>5. campaign.sent \in Nat /\ campaign.failed \in Nat /\ spent.lost \in Nat
          /\ Copies(Lead, Busy) \in Nat
    BY SpentType, CopiesType DEF Inv, TypeOK
  <1> HIDE DEF K, S, F
  <1>6. /\ IsFiniteSet(S \cup F) /\ Cardinality(S \cup F) \in Nat
        /\ Cardinality(S \cup F) <= Cardinality(S) + Cardinality(F)
    BY <1>3, UnionBound
  <1>7. /\ Cardinality((S \cup F) \cup K) \in Nat
        /\ Cardinality((S \cup F) \cup K) <= Cardinality(S \cup F) + Cardinality(K)
    BY <1>2, <1>6, UnionBound
  <1>8. campaign.sent + campaign.failed <= Cardinality(S) + Cardinality(F) + spent.lost
    BY <1>1, <1>2, <1>3, <1>4, <1>5, <1>6, <1>7
  <1>9. QED
    BY <1>1, <1>8 DEF S, F

\* The counters of a campaign that was triggered once never count less than the
\* rows of its recipients, and more only for what lost workers left to be done
\* again (broadcast_engine.py:276).
THEOREM CountersAreThoseOfTheRows == Spec => []CountersAgree
  BY InvAlways, InvCounters, PTL

\* A campaign triggered once, never cancelled and with no worker lost completes
\* when every recipient has its outcome, and its counters then add up to its
\* total (tasks.py:231-254), whatever was retried.
THEOREM CompletionAddsUp == Spec => []CompletedAddsUp
  <1>1. Inv => CompletedAddsUp
    <2> SUFFICES ASSUME Inv, OneTrigger, spent.cancels = 0, spent.lost = 0,
                        campaign.status = "completed"
                 PROVE  /\ \A l \in Lead : recipient[l] \in {"none", "sent", "failed"}
                        /\ campaign.sent + campaign.failed = campaign.total
      BY DEF CompletedAddsUp
    <2> DEFINE S == With("sent")
               F == With("failed")
    <2>1. \A l \in Lead : recipient[l] \in {"none", "sent", "failed"}
      BY DEF Inv, Completing, Undisturbed, Done
    <2>2. Lead \ With("none") = S \cup F
      BY <2>1 DEF With
    <2>3. campaign.total = Cardinality(Lead \ With("none"))
      BY DEF Inv, Triggered
    <2>4. /\ Cardinality(S) <= campaign.sent /\ Cardinality(F) <= campaign.failed
          /\ campaign.sent + campaign.failed <= Cardinality(S) + Cardinality(F) + spent.lost
      BY InvCounters DEF CountersAgree
    <2>5. /\ IsFiniteSet(S) /\ IsFiniteSet(F) /\ Cardinality(S) \in Nat /\ Cardinality(F) \in Nat
      BY BroadcastAssumption, CardOfSubset DEF With
    <2>6. S \cap F = {}
      BY DEF With
    <2>7. campaign.sent \in Nat /\ campaign.failed \in Nat
      BY DEF Inv, TypeOK
    <2> HIDE DEF S, F
    <2>8. Cardinality(S \cup F) = Cardinality(S) + Cardinality(F)
      <3>1. Cardinality(S \cup F) = Cardinality(S) + Cardinality(F) - Cardinality(S \cap F)
        BY <2>5, FS_Union
      <3>2. Cardinality(S \cap F) = 0
        BY <2>6, FS_EmptySet
      <3>3. QED
        BY <2>5, <3>1, <3>2
    <2>9. campaign.total = Cardinality(S) + Cardinality(F)
      BY <2>2, <2>3, <2>8
    <2>10. QED
      BY <2>1, <2>4, <2>5, <2>7, <2>9
  <1>2. QED
    BY <1>1, InvAlways, PTL
=============================================================================

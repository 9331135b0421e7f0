------------------------ MODULE WebinarSession_proofs ------------------------
(* Theorems about WebinarSession, for every list of registrations, report   *)
(* and set of requests and every bound.                                     *)
EXTENDS WebinarSession, WellFoundedInduction, TLAPS

-----------------------------------------------------------------------------
(* Certificate numbers                                                      *)

\* A bounded set of numbers that is not empty has a greatest one.
LEMMA GreatestExists ==
  ASSUME NEW S \in SUBSET Nat, S # {}, NEW b \in Nat, \A x \in S : x <= b
  PROVE  Max(S) \in S /\ \A x \in S : Max(S) >= x
  <1> DEFINE T == {b - x : x \in S}
  <1>1. T \subseteq Nat /\ T # {}
    <2>1. \A x \in S : b - x \in Nat
      OBVIOUS
    <2>2. QED
      BY <2>1
  <1>2. PICK t \in T : \A u \in T : ~ (<<u, t>> \in OpToRel(<, Nat))
    <2> HIDE DEF T
    <2> QED BY <1>1, WFMin, NatLessThanWellFounded
  <1>3. \A u \in T : ~ (u < t)
    BY <1>1, <1>2 DEF OpToRel
  <1>4. PICK x \in S : t = b - x
    OBVIOUS
  <1>5. ASSUME NEW y \in S PROVE x >= y
    <2>1. ~ (b - y < b - x)
      BY <1>3, <1>4
    <2>2. QED
      BY <2>1
  <1>6. QED
    BY <1>5 DEF Max

Bounded == \E b \in Nat : \A n \in Taken : n <= b
Unique == \A r \in Reg : cert[r] # 0 =>
    cert[r] \notin elsewhere /\ \A q \in Reg \ {r} : cert[q] # cert[r]

\* Last is the greatest number there is, so the next one is positive and new.
LEMMA LastIsGreatest ==
  ASSUME TypeOK, Bounded
  PROVE  Last \in Nat /\ \A n \in Taken : n <= Last
  <1> DEFINE S == Taken \cup {0}
  <1>1. S \in SUBSET Nat /\ S # {}
    <2>1. {cert[r] : r \in Reg} \subseteq Nat /\ elsewhere \subseteq Nat
      BY DEF TypeOK
    <2>2. Taken \subseteq Nat
      BY <2>1, Zenon DEF Taken
    <2>3. 0 \in S /\ \A x \in S : x \in Nat
      BY <2>2
    <2>4. QED
      BY <2>3
  <1>2. PICK b \in Nat : \A n \in Taken : n <= b
    BY DEF Bounded
  <1>3. \A x \in S : x <= b
    BY <1>2
  <1>4. Max(S) \in S /\ \A x \in S : Max(S) >= x
    <2> HIDE DEF S
    <2> QED BY <1>1, <1>3, GreatestExists
  <1>5. Last = Max(S)
    BY DEF Last
  <1>6. QED
    BY <1>1, <1>4, <1>5

\* With one more number the table is still bounded.
LEMMA StaysBounded ==
  ASSUME TypeOK, Bounded, NEW n \in Nat, Taken' \subseteq Taken \cup {n}
  PROVE  Bounded'
  <1>1. PICK b \in Nat : \A m \in Taken : m <= b
    BY DEF Bounded
  <1>2. Taken \subseteq Nat
    BY DEF Taken, TypeOK
  <1>3. b + n \in Nat /\ \A m \in Taken' : m <= b + n
    BY <1>1, <1>2
  <1>4. QED
    BY <1>3 DEF Bounded

-----------------------------------------------------------------------------
(* The steps, by what they are about                                        *)

AttendanceStep(w) == Sync(w) \/ SyncSums(w) \/ SyncStores(w) \/ SyncMarks(w)
CertificateStep(w) ==
    \/ \E r \in Reg : Feedback(w, r) \/ Create(w, r)
    \/ \E regs \in SUBSET Reg \ {{}} : Send(w, regs)
    \/ Issue(w) \/ Insert(w) \/ SendPdf(w) \/ SendFails(w) \/ Flag(w)
MeetingStep == Start \/ End

AttendanceAt == {"summing", "storing", "marking"}
CertificateAt == {"issuing", "numbered", "sending", "flagging"}

LEMMA NextSteps ==
  Next => \/ MeetingStep \/ IssueElsewhere
          \/ \E w \in Worker : AttendanceStep(w) \/ CertificateStep(w) \/ Crash(w)
  BY DEF Next, MeetingStep, AttendanceStep, CertificateStep

\* The locals of a worker when it takes a step of each kind.
LEMMA Become1 ==
  ASSUME TypeOK, NEW w \in Worker, NEW s \in WorkerState, Become(w, s)
  PROVE  /\ worker' \in [Worker -> WorkerState] /\ worker'[w] = s
         /\ \A v \in Worker : v # w => worker'[v] = worker[v]
  BY DEF TypeOK, Become

LEMMA Goto1 ==
  ASSUME TypeOK, NEW w \in Worker,
         NEW label \in {"summing", "storing", "marking", "sending", "flagging"},
         Goto(w, label)
  PROVE  /\ worker' \in [Worker -> WorkerState]
         /\ worker'[w] = [worker[w] EXCEPT !.at = label]
         /\ worker'[w].at = label
         /\ worker'[w].count = worker[w].count
         /\ worker'[w].reg = worker[w].reg /\ worker'[w].rest = worker[w].rest
         /\ worker'[w].by = worker[w].by
         /\ \A v \in Worker : v # w => worker'[v] = worker[v]
  <1> DEFINE s == [worker[w] EXCEPT !.at = label]
  <1>1. worker[w] \in WorkerState
    BY DEF TypeOK
  <1>2. /\ s \in WorkerState /\ s.at = label
        /\ s.count = worker[w].count /\ s.reg = worker[w].reg /\ s.rest = worker[w].rest
        /\ s.by = worker[w].by
    BY <1>1 DEF WorkerState
  <1>3. Become(w, s)
    BY DEF Goto
  <1> HIDE DEF s
  <1>4. worker' \in [Worker -> WorkerState] /\ worker'[w] = s
        /\ \A v \in Worker : v # w => worker'[v] = worker[v]
    BY <1>2, <1>3, Become1
  <1>5. QED
    BY <1>2, <1>4 DEF s

LEMMA IdleType == Idle \in WorkerState
  BY DEF Idle, WorkerState

\* A worker issues certificates at four labels only, for a registration; one
\* that feedback asked for has no others to follow.
IssuesOnly(w) ==
    /\ worker[w].at \in CertificateAt <=> worker[w].by # "none"
    /\ worker[w].at \in CertificateAt => worker[w].reg \in Reg
    /\ worker[w].by = "feedback" => worker[w].rest = {}

Types == TypeOK /\ Bounded /\ \A w \in Worker : IssuesOnly(w)

\* A step of w that leaves its worker in state s: the others stay where they are.
Moves(w, labels) ==
    /\ worker' \in [Worker -> WorkerState]
    /\ worker'[w].at \in labels \cup {"idle"}
    /\ IssuesOnly(w)'
    /\ \A v \in Worker : v # w => worker'[v] = worker[v]

LEMMA MovesIdle ==
  ASSUME Types, NEW w \in Worker, Become(w, Idle), NEW labels
  PROVE  Moves(w, labels) /\ worker'[w] = Idle
  <1>1. /\ worker' \in [Worker -> WorkerState] /\ worker'[w] = Idle
        /\ \A v \in Worker : v # w => worker'[v] = worker[v]
    BY IdleType, Become1 DEF Types
  <1>2. QED
    BY <1>1 DEF Moves, IssuesOnly, Idle, CertificateAt

\* From a label where nothing is issued to another one.
LEMMA MovesAside ==
  ASSUME Types, NEW w \in Worker, worker[w].at \notin CertificateAt,
         NEW label \in AttendanceAt, Goto(w, label)
  PROVE  worker'[w].by = "none" /\ Moves(w, {label})
  <1>1. /\ worker' \in [Worker -> WorkerState]
        /\ worker'[w].at = label /\ worker'[w].by = worker[w].by
        /\ \A v \in Worker : v # w => worker'[v] = worker[v]
    BY Goto1 DEF Types, AttendanceAt
  <1>2. worker[w].by = "none" /\ label \notin CertificateAt
    BY DEF Types, IssuesOnly, AttendanceAt, CertificateAt
  <1>3. QED
    BY <1>1, <1>2 DEF Moves, IssuesOnly

LEMMA AttendanceMoves ==
  ASSUME Types, NEW w \in Worker, AttendanceStep(w)
  PROVE  /\ Moves(w, AttendanceAt) /\ worker[w].by = "none"
         /\ worker'[w].by = "none"
         /\ UNCHANGED session /\ UNCHANGED certificateVars /\ UNCHANGED faults
  <1>1. UNCHANGED session /\ UNCHANGED certificateVars /\ UNCHANGED faults
    BY DEF AttendanceStep, Sync, SyncSums, SyncStores, SyncMarks, Begins, Arrives, Goes
  <1>2. worker[w].at \in AttendanceAt \cup {"idle"}
    BY DEF AttendanceStep, Sync, SyncSums, SyncStores, SyncMarks, Begins, Goes, At, AttendanceAt
  <1>3. worker[w].by = "none"
    BY <1>2 DEF Types, IssuesOnly, AttendanceAt, CertificateAt
  <1>4. CASE \E label \in {"summing", "marking"} : Goto(w, label)
    BY <1>1, <1>2, <1>3, <1>4, MovesAside DEF Moves, AttendanceAt, CertificateAt
  <1>5. CASE Become(w, Idle)
    BY <1>1, <1>3, <1>5, MovesIdle DEF Idle
  <1>6. CASE SyncSums(w)
    <2> DEFINE s == [Idle EXCEPT !.at = "storing", !.count = reports]
    <2>1. s \in WorkerState /\ s.at = "storing" /\ s.by = "none" /\ s.rest = {}
      BY DEF Types, TypeOK, Idle, WorkerState
    <2>2. Become(w, s)
      BY <1>6 DEF SyncSums
    <2> HIDE DEF s
    <2>3. /\ worker' \in [Worker -> WorkerState] /\ worker'[w] = s
          /\ \A v \in Worker : v # w => worker'[v] = worker[v]
      BY <2>1, <2>2, Become1 DEF Types
    <2>4. QED
      BY <1>1, <1>3, <2>1, <2>3 DEF Moves, IssuesOnly, AttendanceAt, CertificateAt
  <1>7. QED
    BY <1>1, <1>3, <1>4, <1>5, <1>6 DEF AttendanceStep, Sync, SyncStores, SyncMarks

-----------------------------------------------------------------------------
(* Certificates                                                             *)

LEMMA StartsIssuing ==
  ASSUME Types, NEW w \in Worker, NEW r \in Reg, NEW rest \in SUBSET Reg,
         NEW by \in {"feedback", "staff", "student"}, by = "feedback" => rest = {},
         Become(w, Issuing(r, rest, by))
  PROVE  /\ Moves(w, CertificateAt)
         /\ worker'[w].at = "issuing" /\ worker'[w].reg = r /\ worker'[w].by = by
  <1> DEFINE s == Issuing(r, rest, by)
  <1>1. s \in WorkerState /\ s.at = "issuing" /\ s.reg = r /\ s.rest = rest /\ s.by = by
    BY DEF Issuing, Idle, WorkerState
  <1> HIDE DEF s
  <1>2. /\ worker' \in [Worker -> WorkerState] /\ worker'[w] = s
        /\ \A v \in Worker : v # w => worker'[v] = worker[v]
    BY <1>1, Become1 DEF s, Types
  <1>3. QED
    BY <1>1, <1>2 DEF Moves, IssuesOnly, CertificateAt

LEMMA GoesOn ==
  ASSUME Types, NEW w \in Worker, worker[w].at \in CertificateAt,
         NEW label \in {"sending", "flagging"}, Goto(w, label)
  PROVE  /\ Moves(w, CertificateAt)
         /\ worker'[w].at = label /\ worker'[w].reg = worker[w].reg
         /\ worker'[w].by = worker[w].by
  <1>1. /\ worker' \in [Worker -> WorkerState]
        /\ worker'[w].at = label /\ worker'[w].reg = worker[w].reg
        /\ worker'[w].by = worker[w].by /\ worker'[w].rest = worker[w].rest
        /\ \A v \in Worker : v # w => worker'[v] = worker[v]
    BY Goto1 DEF Types
  <1>2. IssuesOnly(w)
    BY DEF Types
  <1>3. QED
    BY <1>1, <1>2 DEF Moves, IssuesOnly, CertificateAt

\* What each step does to the worker, given that it is well typed.
Same(w) == worker'[w].reg = worker[w].reg /\ worker'[w].by = worker[w].by

LEMMA FeedbackDoes ==
  ASSUME Types, NEW w \in Worker, NEW r \in Reg, Feedback(w, r)
  PROVE  /\ Moves(w, CertificateAt) /\ worker'[w].at = "issuing" /\ worker[w].by = "none"
         /\ worker'[w].reg = r /\ worker'[w].by = "feedback"
  BY StartsIssuing DEF Feedback, Begins, At, Types, IssuesOnly, CertificateAt

LEMMA AskedDoes ==
  ASSUME Types, NEW w \in Worker,
         \/ \E r \in Reg : Create(w, r)
         \/ \E regs \in SUBSET Reg \ {{}} : Send(w, regs)
  PROVE  /\ Moves(w, CertificateAt) /\ worker'[w].at = "issuing"
         /\ worker[w].by = "none" /\ worker'[w].by # "feedback"
  <1>1. worker[w].by = "none"
    BY DEF Create, Send, Begins, At, Types, IssuesOnly, CertificateAt
  <1>2. CASE \E r \in Reg : Create(w, r)
    BY <1>1, <1>2, StartsIssuing DEF Create
  <1>3. CASE \E regs \in SUBSET Reg \ {{}} : Send(w, regs)
    <2>1. PICK regs \in SUBSET Reg : Send(w, regs)
      BY <1>3
    <2>2. PICK r \in regs : Become(w, Issuing(r, regs \ {r}, "staff"))
      BY <2>1 DEF Send
    <2>3. r \in Reg /\ regs \ {r} \in SUBSET Reg
      OBVIOUS
    <2>4. QED
      BY <1>1, <2>2, <2>3, StartsIssuing
  <1>4. QED
    BY <1>2, <1>3

LEMMA IssueDoes ==
  ASSUME Types, NEW w \in Worker, Issue(w)
  PROVE  /\ Moves(w, CertificateAt) /\ Same(w)
         /\ \/ worker'[w].at = "sending" /\ cert[worker[w].reg] # 0
            \/ /\ worker'[w].at = "numbered"
               /\ worker'[w].count > 0 /\ worker'[w].count \notin Taken
  <1>1. worker[w].at = "issuing" /\ worker[w].reg \in Reg /\ worker[w] \in WorkerState
    BY DEF Issue, Goes, At, Types, TypeOK, IssuesOnly, CertificateAt
  <1>2. CASE Goto(w, "sending") /\ cert[worker[w].reg] # 0
    BY <1>1, <1>2, GoesOn DEF Same, CertificateAt
  <1>3. CASE Become(w, [worker[w] EXCEPT !.at = "numbered", !.count = Last + 1])
    <2> DEFINE n == Last + 1
               s == [worker[w] EXCEPT !.at = "numbered", !.count = n]
    <2>1. n \in Nat /\ n > 0 /\ n \notin Taken
      <3>1. Last \in Nat /\ \A m \in Taken : m <= Last
        BY LastIsGreatest DEF Types
      <3>2. QED
        BY <3>1
    <2> HIDE DEF n
    <2>2. /\ s \in WorkerState /\ s.at = "numbered" /\ s.count = n /\ s.reg = worker[w].reg
          /\ s.by = worker[w].by /\ s.rest = worker[w].rest
      BY <1>1, <2>1 DEF WorkerState
    <2> HIDE DEF s
    <2>3. /\ worker' \in [Worker -> WorkerState] /\ worker'[w] = s
          /\ \A v \in Worker : v # w => worker'[v] = worker[v]
      BY <1>3, <2>2, Become1 DEF s, n, Types
    <2>4. IssuesOnly(w)
      BY DEF Types
    <2>5. QED
      BY <1>1, <2>1, <2>2, <2>3, <2>4 DEF Moves, Same, IssuesOnly, CertificateAt
  <1>4. QED
    BY <1>2, <1>3 DEF Issue

LEMMA InsertDoes ==
  ASSUME Types, NEW w \in Worker, Insert(w)
  PROVE  LET r == worker[w].reg  n == worker[w].count IN
         /\ Moves(w, CertificateAt) /\ worker[w].at = "numbered"
         /\ r \in Reg /\ n \in Nat
         /\ \/ /\ cert[r] = 0 /\ n \notin Taken
               /\ cert' = [cert EXCEPT ![r] = n] /\ beaten' = beaten \cup Losers(n, r)
               /\ worker'[w].at = "sending" /\ Same(w)
            \/ /\ UNCHANGED <<cert, beaten>> /\ cert[r] # 0
               /\ worker'[w].at = "sending" /\ Same(w)
            \/ /\ UNCHANGED <<cert, beaten>> /\ worker'[w] = Idle
               /\ worker[w].by = "student" \/ (n \in Taken /\ cert[r] = 0)
  <1> DEFINE r == worker[w].reg
             n == worker[w].count
  <1>1. worker[w].at = "numbered" /\ r \in Reg /\ n \in Nat /\ worker[w].at \in CertificateAt
    BY DEF Insert, Goes, At, Types, TypeOK, WorkerState, IssuesOnly, CertificateAt
  <1>2. Goto(w, "sending") => Moves(w, CertificateAt) /\ worker'[w].at = "sending" /\ Same(w)
    BY <1>1, GoesOn DEF Same
  <1>3. Become(w, Idle) => Moves(w, CertificateAt) /\ worker'[w] = Idle
    BY MovesIdle
  <1>4. \/ /\ cert[r] = 0 /\ n \notin Taken
           /\ cert' = [cert EXCEPT ![r] = n] /\ beaten' = beaten \cup Losers(n, r)
           /\ Goto(w, "sending")
        \/ UNCHANGED <<cert, beaten>> /\ cert[r] # 0 /\ Goto(w, "sending")
        \/ /\ UNCHANGED <<cert, beaten>> /\ Become(w, Idle)
           /\ worker[w].by = "student" \/ (n \in Taken /\ cert[r] = 0)
    BY DEF Insert
  <1> HIDE DEF r, n
  <1>5. QED
    BY <1>1, <1>2, <1>3, <1>4 DEF r, n

LEMMA SendDoes ==
  ASSUME Types, NEW w \in Worker, SendPdf(w) \/ SendFails(w)
  PROVE  /\ Moves(w, CertificateAt) /\ worker[w].at = "sending"
         /\ \/ /\ worker'[w].at = "flagging" /\ Same(w) /\ delivered' = delivered \cup {worker[w].reg}
            \/ /\ worker'[w] = Idle /\ delivered \subseteq delivered'
               /\ worker[w].by = "student" \/ faults' > 0
         /\ delivered' \subseteq Reg /\ delivered \subseteq delivered'
  <1>1. worker[w].at = "sending" /\ worker[w].reg \in Reg /\ worker[w].at \in CertificateAt
    BY DEF SendPdf, SendFails, Goes, At, Types, IssuesOnly, CertificateAt
  <1>2. Goto(w, "flagging") => Moves(w, CertificateAt) /\ worker'[w].at = "flagging" /\ Same(w)
    BY <1>1, GoesOn DEF Same
  <1>3. Become(w, Idle) => Moves(w, CertificateAt) /\ worker'[w] = Idle
    BY MovesIdle
  <1>4. delivered' \subseteq Reg /\ delivered \subseteq delivered'
    BY <1>1 DEF SendPdf, SendFails, Types, TypeOK
  <1>5. CASE SendPdf(w)
    BY <1>1, <1>2, <1>3, <1>4, <1>5 DEF SendPdf
  <1>6. CASE SendFails(w)
    <2>1. faults' > 0
      BY <1>6 DEF SendFails, Fault, Types, TypeOK
    <2>2. QED
      BY <1>1, <1>3, <1>4, <1>6, <2>1 DEF SendFails
  <1>7. QED
    BY <1>5, <1>6

LEMMA FlagDoes ==
  ASSUME Types, NEW w \in Worker, Flag(w)
  PROVE  /\ Moves(w, CertificateAt) /\ worker[w].at = "flagging" /\ worker[w].reg \in Reg
         /\ \/ worker'[w] = Idle
            \/ worker'[w].at = "issuing" /\ worker'[w].by # "feedback"
  <1>1. worker[w].at = "flagging" /\ worker[w].reg \in Reg /\ worker[w] \in WorkerState
        /\ worker[w].by # "none" /\ IssuesOnly(w)
    BY DEF Flag, Goes, At, Types, TypeOK, IssuesOnly, CertificateAt
  <1>2. CASE worker[w].rest = {}
    <2>1. Become(w, Idle)
      BY <1>2 DEF Flag, NextReg
    <2>2. Moves(w, CertificateAt) /\ worker'[w] = Idle
      BY <2>1, MovesIdle
    <2>3. QED
      BY <1>1, <2>2
  <1>3. CASE worker[w].rest # {}
    <2>1. PICK r \in worker[w].rest :
            Become(w, Issuing(r, worker[w].rest \ {r}, worker[w].by))
      BY <1>3 DEF Flag, NextReg
    <2>2. r \in Reg /\ worker[w].rest \ {r} \in SUBSET Reg
          /\ worker[w].by \in {"feedback", "staff", "student"} /\ worker[w].by # "feedback"
      BY <1>1, <1>3 DEF WorkerState, IssuesOnly
    <2>3. QED
      BY <1>1, <2>1, <2>2, StartsIssuing
  <1>4. QED
    BY <1>2, <1>3

\* A new number of registration r.
LEMMA OneMoreNumber ==
  ASSUME Types, NEW r \in Reg, NEW n \in Nat, UNCHANGED elsewhere,
         UNCHANGED cert \/ cert' = [cert EXCEPT ![r] = n]
  PROVE  cert' \in [Reg -> Nat] /\ Bounded'
  <1>1. cert' \in [Reg -> Nat]
    BY DEF Types, TypeOK
  <1>2. Taken' \subseteq Taken \cup {n}
    BY DEF Taken, Types, TypeOK
  <1>3. QED
    BY <1>1, <1>2, StaysBounded DEF Types

LEMMA CertificateMoves ==
  ASSUME Types, NEW w \in Worker, CertificateStep(w)
  PROVE  /\ Moves(w, CertificateAt)
         /\ UNCHANGED session /\ UNCHANGED attendanceVars /\ UNCHANGED elsewhere
         /\ Bounded' /\ cert' \in [Reg -> Nat] /\ beaten' \subseteq Reg
         /\ feedback' \subseteq Reg /\ sent' \subseteq Reg /\ delivered' \subseteq Reg
         /\ UNCHANGED faults \/ Fault
  <1>1. /\ UNCHANGED session /\ UNCHANGED attendanceVars /\ UNCHANGED elsewhere
        /\ (UNCHANGED faults \/ Fault)
    BY DEF CertificateStep, Feedback, Create, Send, Issue, Insert, SendPdf, SendFails, Flag,
           Begins, Arrives, Goes, certificateVars
  <1>2. cert \in [Reg -> Nat] /\ Bounded /\ feedback \subseteq Reg /\ sent \subseteq Reg
        /\ delivered \subseteq Reg /\ beaten \subseteq Reg
    BY DEF Types, TypeOK
  <1>3. UNCHANGED <<cert, elsewhere>> => Bounded' /\ cert' \in [Reg -> Nat]
    BY <1>2 DEF Bounded, Taken
  <1>4. CASE \E r \in Reg : Feedback(w, r)
    BY <1>1, <1>2, <1>3, <1>4, FeedbackDoes DEF Feedback
  <1>5. CASE \/ \E r \in Reg : Create(w, r)
             \/ \E regs \in SUBSET Reg \ {{}} : Send(w, regs)
    <2>1. UNCHANGED certificateVars
      BY <1>5 DEF Create, Send
    <2>2. QED
      BY <1>1, <1>2, <1>3, <1>5, <2>1, AskedDoes DEF certificateVars
  <1>6. CASE Issue(w)
    BY <1>1, <1>2, <1>3, <1>6, IssueDoes DEF Issue, certificateVars
  <1>7. CASE Insert(w)
    <2>1. UNCHANGED <<feedback, sent, delivered>>
      BY <1>7 DEF Insert
    <2>2. /\ Moves(w, CertificateAt) /\ worker[w].reg \in Reg /\ worker[w].count \in Nat
          /\ UNCHANGED cert \/ cert' = [cert EXCEPT ![worker[w].reg] = worker[w].count]
      BY <1>7, InsertDoes
    <2>3. beaten' \subseteq Reg
      BY <1>2, <1>7 DEF Insert, Losers
    <2>4. QED
      BY <1>1, <1>2, <2>1, <2>2, <2>3, OneMoreNumber
  <1>8. CASE SendPdf(w) \/ SendFails(w)
    BY <1>1, <1>2, <1>3, <1>8, SendDoes DEF SendPdf, SendFails
  <1>9. CASE Flag(w)
    <2>1. UNCHANGED <<cert, beaten, feedback, delivered>> /\ sent' = sent \cup {worker[w].reg}
      BY <1>9 DEF Flag
    <2>2. QED
      BY <1>1, <1>2, <1>3, <1>9, <2>1, FlagDoes
  <1>10. QED
    BY <1>4, <1>5, <1>6, <1>7, <1>8, <1>9 DEF CertificateStep

\* A certificate that is issued elsewhere takes a number that nobody has.
LEMMA ElsewhereDoes ==
  ASSUME Types, IssueElsewhere
  PROVE  /\ Last + 1 \in Nat /\ Last + 1 > 0 /\ Last + 1 \notin Taken
         /\ elsewhere' = elsewhere \cup {Last + 1} /\ elsewhere' \subseteq Nat
         /\ beaten' = beaten \cup Losers(Last + 1, 0) /\ beaten' \subseteq Reg
         /\ UNCHANGED <<feedback, cert, sent, delivered>> /\ UNCHANGED <<worker, faults>>
         /\ UNCHANGED session /\ UNCHANGED attendanceVars /\ Bounded'
  <1> DEFINE n == Last + 1
  <1>1. Last \in Nat /\ \A m \in Taken : m <= Last
    BY LastIsGreatest DEF Types
  <1>2. n \in Nat /\ n > 0 /\ n \notin Taken
    BY <1>1
  <1>3. /\ elsewhere' = elsewhere \cup {n} /\ beaten' = beaten \cup Losers(n, 0)
        /\ UNCHANGED <<feedback, cert, sent, delivered>> /\ UNCHANGED <<worker, faults>>
        /\ UNCHANGED session /\ UNCHANGED attendanceVars
    BY DEF IssueElsewhere, Arrives
  <1> HIDE DEF n
  <1>4. Taken' \subseteq Taken \cup {n}
    BY <1>3 DEF Taken
  <1>5. Bounded'
    BY <1>2, <1>4, StaysBounded DEF Types
  <1>6. elsewhere' \subseteq Nat /\ beaten' \subseteq Reg
    BY <1>2, <1>3 DEF Types, TypeOK, Losers
  <1>7. QED
    BY <1>2, <1>3, <1>5, <1>6 DEF n

-----------------------------------------------------------------------------
(* Types                                                                    *)

LEMMA OthersIssue ==
  ASSUME Types, NEW w \in Worker, NEW labels, Moves(w, labels)
  PROVE  worker' \in [Worker -> WorkerState] /\ \A v \in Worker : IssuesOnly(v)'
  <1>1. ASSUME NEW v \in Worker, v # w PROVE IssuesOnly(v)'
    BY <1>1 DEF Types, Moves, IssuesOnly
  <1>2. QED
    BY <1>1 DEF Moves

\* What the steps about the meeting and the attendance do to their own variables.
MeetingType == session \in {"none", "started", "ended"}
AttendanceType == reports \in Nat /\ DOMAIN summary = Reg /\ attended \subseteq Reg
CertificateType ==
    /\ feedback \subseteq Reg /\ sent \subseteq Reg /\ delivered \subseteq Reg
    /\ cert \in [Reg -> Nat] /\ elsewhere \subseteq Nat /\ beaten \subseteq Reg /\ Bounded
WorkerType ==
    /\ worker \in [Worker -> WorkerState] /\ \A w \in Worker : IssuesOnly(w)
Counts == requests \in 0 .. MaxRequests /\ faults \in 0 .. MaxFaults

LEMMA TypesSplit ==
  /\ Types <=> MeetingType /\ AttendanceType /\ CertificateType /\ WorkerType /\ Counts
  /\ Types' <=> MeetingType' /\ AttendanceType' /\ CertificateType' /\ WorkerType' /\ Counts'
  BY DEF Types, TypeOK, MeetingType, AttendanceType, CertificateType, WorkerType, Counts

LEMMA SameTypes ==
  /\ MeetingType /\ UNCHANGED session => MeetingType'
  /\ AttendanceType /\ UNCHANGED attendanceVars => AttendanceType'
  /\ CertificateType /\ UNCHANGED certificateVars => CertificateType'
  <1>1. MeetingType /\ UNCHANGED session => MeetingType'
    BY DEF MeetingType
  <1>2. AttendanceType /\ UNCHANGED attendanceVars => AttendanceType'
    BY DEF AttendanceType, attendanceVars
  <1>3. CertificateType /\ UNCHANGED certificateVars => CertificateType'
    BY DEF CertificateType, certificateVars, Bounded, Taken
  <1>4. QED
    BY <1>1, <1>2, <1>3

LEMMA CountsKept == Types /\ Next => Counts'
  <1> SUFFICES ASSUME Types, Next PROVE Counts'
    OBVIOUS
  <1>1. \/ Arrives \/ UNCHANGED <<requests, faults>> \/ Fault
    BY DEF Next, Start, End, IssueElsewhere, Sync, SyncSums, SyncStores, SyncMarks, Feedback, Create, Send, Issue, Insert, SendPdf,
       SendFails, Flag, Crash, Begins, Goes
  <1>2. QED
    BY <1>1, WebinarAssumption DEF Types, TypeOK, Counts, Arrives, Fault

-----------------------------------------------------------------------------
(* Attendance                                                               *)

\* Between its statements a synchronisation knows that a report was inserted,
\* and how many were when it summed them up.
AttendanceOk(w) ==
    /\ worker[w].at = "summing" => reports > 0
    /\ worker[w].at = "storing" => worker[w].count \in 1 .. reports
AttendanceInv == SummaryIsOfReports /\ \A w \in Worker : AttendanceOk(w)

LEMMA AttendanceStill ==
  ASSUME Types, AttendanceInv, UNCHANGED attendanceVars,
         \A v \in Worker : \/ worker'[v] = worker[v]
                           \/ worker'[v].at \notin {"summing", "storing"}
  PROVE  AttendanceType' /\ AttendanceInv'
  <1>1. UNCHANGED <<reports, summary>>
    BY DEF attendanceVars
  <1>2. SummaryIsOfReports'
    BY <1>1 DEF AttendanceInv, SummaryIsOfReports
  <1>3. \A v \in Worker : AttendanceOk(v)'
    BY <1>1 DEF AttendanceInv, AttendanceOk
  <1>4. QED
    BY <1>2, <1>3, SameTypes, TypesSplit DEF AttendanceInv

LEMMA AttendanceAside ==
  ASSUME Types, AttendanceInv, UNCHANGED attendanceVars, NEW w \in Worker, NEW labels,
         Moves(w, labels), labels \cap AttendanceAt = {}
  PROVE  AttendanceType' /\ AttendanceInv'
  <1>1. worker'[w].at \notin {"summing", "storing"}
    BY DEF Moves, AttendanceAt
  <1>2. QED
    BY <1>1, AttendanceStill DEF Moves

\* One step of a synchronisation.
LEMMA AttendanceStepKeeps ==
  ASSUME Types, AttendanceInv, NEW w \in Worker, AttendanceStep(w)
  PROVE  AttendanceType' /\ AttendanceInv'
  <1>1. /\ worker' \in [Worker -> WorkerState]
        /\ \A v \in Worker : v # w => worker'[v] = worker[v]
    BY AttendanceMoves DEF Moves
  <1>2. /\ reports \in Nat /\ DOMAIN summary = Reg /\ attended \subseteq Reg
        /\ SummaryIsOfReports /\ AttendanceOk(w) /\ worker[w] \in WorkerState
    BY DEF Types, TypeOK, AttendanceInv
  <1>3. CASE Sync(w)
    <2>1. worker'[w].at = "summing" /\ reports' = reports + 1 /\ UNCHANGED <<summary, attended>>
      BY <1>3, Goto1 DEF Sync, Types
    <2>2. reports' \in Nat /\ reports' > 0 /\ 1 .. reports \subseteq 1 .. reports'
      BY <1>2, <2>1
    <2>3. SummaryIsOfReports' /\ AttendanceType'
      BY <1>2, <2>1, <2>2 DEF SummaryIsOfReports, AttendanceType
    <2>4. AttendanceOk(w)'
      BY <2>1, <2>2 DEF AttendanceOk
    <2>5. \A v \in Worker : v # w => AttendanceOk(v)'
      BY <1>1, <1>2, <2>1, <2>2 DEF AttendanceOk, AttendanceInv
    <2>6. QED
      BY <2>3, <2>4, <2>5 DEF AttendanceInv
  <1>4. CASE SyncSums(w)
    <2> DEFINE s == [Idle EXCEPT !.at = "storing", !.count = reports]
    <2>1. s \in WorkerState /\ s.at = "storing" /\ s.count = reports
      BY <1>2 DEF Idle, WorkerState
    <2>2. Become(w, s) /\ UNCHANGED attendanceVars /\ reports > 0
      BY <1>2, <1>4 DEF SyncSums, Goes, At, AttendanceOk
    <2> HIDE DEF s
    <2>3. worker'[w] = s
      BY <2>1, <2>2, Become1 DEF Types
    <2>4. UNCHANGED <<reports, summary, attended>>
      BY <2>2 DEF attendanceVars
    <2>5. SummaryIsOfReports' /\ AttendanceType'
      BY <1>2, <2>4 DEF SummaryIsOfReports, AttendanceType
    <2>6. AttendanceOk(w)'
      BY <1>2, <2>1, <2>2, <2>3, <2>4 DEF AttendanceOk
    <2>7. \A v \in Worker : v # w => AttendanceOk(v)'
      BY <1>1, <2>4 DEF AttendanceOk, AttendanceInv
    <2>8. QED
      BY <2>5, <2>6, <2>7 DEF AttendanceInv
  <1>5. CASE SyncStores(w)
    <2>1. worker[w].count \in 1 .. reports
      BY <1>2, <1>5 DEF SyncStores, Goes, At, AttendanceOk
    <2>2. /\ worker'[w].at = "marking" /\ UNCHANGED <<reports, attended>>
          /\ summary' = [r \in Reg |-> IF r \in Matched THEN Total(r, worker[w].count)
                                       ELSE summary[r]]
      BY <1>5, Goto1 DEF SyncStores, Types
    <2>3. SummaryIsOfReports'
      <3>1. ASSUME NEW r \in Reg
            PROVE  \/ summary'[r] = NoSummary
                   \/ \E n \in 1 .. reports : summary'[r] = Total(r, n)
        <4>1. CASE r \in Matched
          BY <2>1, <2>2, <4>1
        <4>2. CASE r \notin Matched
          BY <1>2, <2>2, <4>2 DEF SummaryIsOfReports
        <4>3. QED
          BY <4>1, <4>2
      <3>2. QED
        BY <2>2, <3>1 DEF SummaryIsOfReports, Total
    <2>4. AttendanceType'
      BY <1>2, <2>2 DEF AttendanceType
    <2>5. \A v \in Worker : AttendanceOk(v)'
      BY <1>1, <2>2 DEF AttendanceOk, AttendanceInv
    <2>6. QED
      BY <2>3, <2>4, <2>5 DEF AttendanceInv
  <1>6. CASE SyncMarks(w)
    <2>1. worker'[w].at = "idle"
      BY <1>6, MovesIdle DEF SyncMarks, Idle
    <2>2. UNCHANGED <<reports, summary>> /\ attended' \subseteq Reg
      BY <1>2, <1>6 DEF SyncMarks, Matched
    <2>3. SummaryIsOfReports' /\ AttendanceType'
      BY <1>2, <2>2 DEF SummaryIsOfReports, AttendanceType
    <2>4. \A v \in Worker : AttendanceOk(v)'
      BY <1>1, <2>1, <2>2 DEF AttendanceOk, AttendanceInv
    <2>5. QED
      BY <2>3, <2>4 DEF AttendanceInv
  <1>7. QED
    BY <1>3, <1>4, <1>5, <1>6 DEF AttendanceStep

-----------------------------------------------------------------------------
(* What is known of the certificates                                        *)

\* A request carries a number of its own, which is free unless its feedback was
\* beaten to it; then the certificate exists, and before it is flagged it went out.
FreeOrBeaten(w) ==
    worker[w].at = "numbered" /\ worker[w].by = "feedback" /\ worker[w].count \in Taken =>
        cert[worker[w].reg] # 0 \/ worker[w].reg \in beaten
IssuesTruly(w) ==
    /\ worker[w].at = "numbered" => worker[w].count > 0
    /\ FreeOrBeaten(w)
    /\ worker[w].at \in {"sending", "flagging"} => cert[worker[w].reg] # 0
    /\ worker[w].at = "flagging" => worker[w].reg \in delivered

CertificateInv ==
    /\ Unique /\ FlagIsTruth /\ FeedbackCertified
    /\ \A w \in Worker : IssuesTruly(w)

\* Certificates and deliveries are only ever added.
CertificatesGrow ==
    /\ \A r \in Reg : cert[r] # 0 => cert'[r] = cert[r]
    /\ delivered \subseteq delivered' /\ sent \subseteq sent' /\ beaten \subseteq beaten'
    /\ (faults > 0 => faults' > 0)

\* Feedback is taken care of as long as the one who takes care of it goes on,
\* flags it, fails or was beaten.
Settled(r) == \/ cert[r] # 0 /\ r \in delivered
              \/ faults > 0 \/ r \in beaten

LEMMA StillSettled ==
  ASSUME Types, CertificatesGrow, NEW r \in Reg, Settled(r)
  PROVE  Settled(r)'
  BY DEF Settled, CertificatesGrow, Types, TypeOK

LEMMA StillCertified ==
  ASSUME Types, FeedbackCertified, CertificatesGrow, NEW w \in Worker,
         \A v \in Worker : v # w => worker'[v] = worker[v],
         UNCHANGED feedback,
         \A r \in Reg : worker[w].by = "feedback" /\ worker[w].reg = r =>
                            Same(w) \/ Settled(r)'
  PROVE  FeedbackCertified'
  <1> SUFFICES ASSUME NEW r \in feedback
               PROVE  Settled(r)' \/ Certifying(r)'
    BY DEF FeedbackCertified, Settled
  <1>1. r \in Reg
    BY DEF Types, TypeOK
  <1>2. CASE Settled(r)
    BY <1>1, <1>2, StillSettled
  <1>3. CASE Certifying(r)
    <2>1. PICK v \in Worker : worker[v].by = "feedback" /\ worker[v].reg = r
      BY <1>3 DEF Certifying
    <2>2. (worker'[v].by = worker[v].by /\ worker'[v].reg = worker[v].reg) \/ Settled(r)'
      BY <1>1, <2>1 DEF Same
    <2>3. QED
      BY <2>1, <2>2 DEF Certifying
  <1>4. QED
    BY <1>2, <1>3 DEF FeedbackCertified, Settled

\* No one else's number is taken, or the one who counted on it is beaten.
NumberStill(v) ==
    worker[v].at = "numbered" /\ worker[v].by = "feedback" /\ worker[v].count \in Taken' =>
        \/ worker[v].count \in Taken
        \/ cert'[worker[v].reg] # 0 \/ worker[v].reg \in beaten'

LEMMA SameNumbers ==
  ASSUME UNCHANGED <<cert, elsewhere>>, NEW v \in Worker
  PROVE  NumberStill(v) /\ Taken' = Taken
  BY DEF NumberStill, Taken

LEMMA LosersAreBeaten ==
  ASSUME Types, NEW v \in Worker, NEW n, NEW r,
         Taken' \subseteq Taken \cup {n}, beaten' = beaten \cup Losers(n, r),
         r \in Reg => cert'[r] # 0
  PROVE  NumberStill(v)
  <1> SUFFICES ASSUME worker[v].at = "numbered", worker[v].by = "feedback",
                      worker[v].count \in Taken', worker[v].count \notin Taken,
                      worker[v].reg # r
               PROVE  worker[v].reg \in beaten'
    <2>1. worker[v].at = "numbered" => worker[v].reg \in Reg
      BY DEF Types, IssuesOnly, CertificateAt
    <2>2. QED
      BY <2>1 DEF NumberStill
  <1>1. worker[v].reg \in Reg
    BY DEF Types, IssuesOnly, CertificateAt
  <1>2. worker[v].count = n
    OBVIOUS
  <1>3. QED
    BY <1>1, <1>2 DEF Losers, At

\* What a worker that is not part of the step knows stays true.
LEMMA OthersTruly ==
  ASSUME Types, CertificateInv, CertificatesGrow, NEW v \in Worker, worker'[v] = worker[v],
         NumberStill(v)
  PROVE  IssuesTruly(v)'
  <1>1. worker[v].at \in CertificateAt => worker[v].reg \in Reg
    BY DEF Types, IssuesOnly
  <1>2. IssuesTruly(v)
    BY DEF CertificateInv
  <1>3. FreeOrBeaten(v)'
    BY <1>1, <1>2 DEF IssuesTruly, FreeOrBeaten, NumberStill, CertificatesGrow, CertificateAt
  <1>4. QED
    BY <1>1, <1>2, <1>3 DEF IssuesTruly, CertificatesGrow, CertificateAt

LEMMA FlagStays ==
  ASSUME Types, CertificateInv, CertificatesGrow, UNCHANGED sent
  PROVE  FlagIsTruth'
  BY DEF Types, TypeOK, CertificateInv, CertificatesGrow, FlagIsTruth

LEMMA UniqueStays ==
  ASSUME CertificateInv, UNCHANGED <<cert, elsewhere>>
  PROVE  Unique'
  BY DEF CertificateInv, Unique

\* A step of a worker that changes no certificate.
LEMMA CertificateStill ==
  ASSUME Types, CertificateInv, UNCHANGED certificateVars, (faults > 0 => faults' > 0),
         NEW w \in Worker, NEW labels, Moves(w, labels),
         worker'[w].at \notin {"numbered", "sending", "flagging"},
         worker[w].by # "feedback" \/ faults' > 0
  PROVE  CertificateInv'
  <1>1. CertificatesGrow /\ UNCHANGED <<cert, elsewhere, sent, delivered, feedback>>
    BY DEF CertificatesGrow, certificateVars
  <1>2. Unique' /\ FlagIsTruth'
    BY <1>1, FlagStays, UniqueStays
  <1>3. FeedbackCertified'
    BY <1>1, StillCertified DEF CertificateInv, Moves, Settled
  <1>4. \A v \in Worker : v # w => IssuesTruly(v)'
    BY <1>1, OthersTruly, SameNumbers DEF Moves
  <1>5. IssuesTruly(w)'
    BY DEF IssuesTruly, FreeOrBeaten
  <1>6. QED
    BY <1>2, <1>3, <1>4, <1>5 DEF CertificateInv

LEMMA FeedbackKeeps ==
  ASSUME Types, CertificateInv, NEW w \in Worker, NEW r \in Reg, Feedback(w, r)
  PROVE  CertificateInv' /\ CertificatesGrow
  <1>1. /\ worker'[w].at = "issuing" /\ worker[w].by = "none" /\ worker'[w].reg = r
        /\ worker'[w].by = "feedback" /\ \A v \in Worker : v # w => worker'[v] = worker[v]
    BY FeedbackDoes DEF Moves
  <1>2. /\ UNCHANGED <<cert, elsewhere, beaten, sent, delivered, faults>>
        /\ feedback' = feedback \cup {r}
    BY DEF Feedback, Begins, Arrives
  <1>3. CertificatesGrow
    BY <1>2 DEF CertificatesGrow, Types, TypeOK
  <1>4. Unique' /\ FlagIsTruth'
    BY <1>2, <1>3, FlagStays, UniqueStays
  <1>5. ASSUME NEW q \in feedback'
        PROVE  Settled(q)' \/ Certifying(q)'
    <2>1. CASE q = r
      BY <1>1, <2>1 DEF Certifying
    <2>2. CASE q # r
      <3>1. q \in feedback /\ q \in Reg
        BY <1>2, <2>2 DEF Types, TypeOK
      <3>2. Certifying(q) => Certifying(q)'
        BY <1>1 DEF Certifying
      <3>3. Settled(q) \/ Certifying(q)
        BY <3>1 DEF CertificateInv, FeedbackCertified, Settled
      <3>4. QED
        BY <1>3, <3>1, <3>2, <3>3, StillSettled
    <2>3. QED
      BY <2>1, <2>2
  <1>6. FeedbackCertified'
    BY <1>5 DEF FeedbackCertified, Settled
  <1>7. IssuesTruly(w)'
    BY <1>1 DEF IssuesTruly, FreeOrBeaten
  <1>8. \A v \in Worker : v # w => IssuesTruly(v)'
    BY <1>1, <1>2, <1>3, OthersTruly, SameNumbers
  <1>9. QED
    BY <1>3, <1>4, <1>6, <1>7, <1>8 DEF CertificateInv

LEMMA IssueKeeps ==
  ASSUME Types, CertificateInv, NEW w \in Worker, Issue(w)
  PROVE  CertificateInv' /\ CertificatesGrow
  <1>1. /\ Same(w) /\ \A v \in Worker : v # w => worker'[v] = worker[v]
        /\ \/ worker'[w].at = "sending" /\ cert[worker[w].reg] # 0
           \/ /\ worker'[w].at = "numbered"
              /\ worker'[w].count > 0 /\ worker'[w].count \notin Taken
    BY IssueDoes DEF Moves
  <1>2. UNCHANGED <<feedback, cert, elsewhere, beaten, sent, delivered, faults>>
    BY DEF Issue, Goes, certificateVars
  <1>3. CertificatesGrow
    BY <1>2 DEF CertificatesGrow, Types, TypeOK
  <1>4. Unique' /\ FlagIsTruth'
    BY <1>2, <1>3, FlagStays, UniqueStays
  <1>5. FeedbackCertified'
    BY <1>1, <1>2, <1>3, StillCertified DEF CertificateInv
  <1>6. Taken' = Taken
    BY <1>2 DEF Taken
  <1>7. IssuesTruly(w)'
    BY <1>1, <1>2, <1>6 DEF IssuesTruly, FreeOrBeaten, Same
  <1>8. \A v \in Worker : v # w => IssuesTruly(v)'
    BY <1>1, <1>2, <1>3, OthersTruly, SameNumbers
  <1>9. QED
    BY <1>3, <1>4, <1>5, <1>7, <1>8 DEF CertificateInv

LEMMA InsertKeeps ==
  ASSUME Types, CertificateInv, NEW w \in Worker, Insert(w)
  PROVE  CertificateInv' /\ CertificatesGrow
  <1> DEFINE r == worker[w].reg
             n == worker[w].count
  <1>1. /\ r \in Reg /\ n \in Nat /\ n > 0 /\ worker[w].at = "numbered"
        /\ \A v \in Worker : v # w => worker'[v] = worker[v]
    BY InsertDoes DEF Moves, CertificateInv, IssuesTruly
  <1>2. UNCHANGED <<feedback, elsewhere, sent, delivered, faults>> /\ cert \in [Reg -> Nat]
    BY DEF Insert, Goes, Types, TypeOK
  <1>3. \/ /\ cert[r] = 0 /\ n \notin Taken
           /\ cert' = [cert EXCEPT ![r] = n] /\ beaten' = beaten \cup Losers(n, r)
           /\ worker'[w].at = "sending" /\ Same(w)
        \/ /\ UNCHANGED <<cert, beaten>> /\ cert[r] # 0
           /\ worker'[w].at = "sending" /\ Same(w)
        \/ /\ UNCHANGED <<cert, beaten>> /\ worker'[w] = Idle
           /\ worker[w].by = "student" \/ (n \in Taken /\ cert[r] = 0)
    BY InsertDoes
  <1>4. FreeOrBeaten(w)
    BY DEF CertificateInv, IssuesTruly
  <1>5. \A q \in Reg : worker[w].by = "feedback" /\ worker[w].reg = q =>
                          Same(w) \/ Settled(q)'
    BY <1>1, <1>3, <1>4 DEF FreeOrBeaten, Settled
  <1> HIDE DEF n
  <1>6. CertificatesGrow
    BY <1>1, <1>2, <1>3 DEF CertificatesGrow, Types, TypeOK
  <1>7. Unique'
    <2>1. CASE UNCHANGED cert
      BY <1>2, <2>1, UniqueStays
    <2>2. CASE cert' = [cert EXCEPT ![r] = n] /\ n \notin Taken
      <3>1. n \notin elsewhere /\ \A q \in Reg : cert[q] # n
        BY <2>2 DEF Taken
      <3>2. QED
        BY <1>1, <1>2, <2>2, <3>1 DEF CertificateInv, Unique
    <2>3. QED
      BY <1>3, <2>1, <2>2
  <1>8. FlagIsTruth'
    BY <1>2, <1>6, FlagStays
  <1>9. FeedbackCertified'
    BY <1>1, <1>2, <1>5, <1>6, StillCertified DEF CertificateInv
  <1>10. IssuesTruly(w)'
    BY <1>1, <1>2, <1>3 DEF IssuesTruly, FreeOrBeaten, Same, Idle
  <1>11. ASSUME NEW v \in Worker, v # w PROVE IssuesTruly(v)'
    <2>1. NumberStill(v)
      <3>1. CASE UNCHANGED cert
        BY <1>2, <3>1, SameNumbers
      <3>2. CASE cert' = [cert EXCEPT ![r] = n] /\ beaten' = beaten \cup Losers(n, r)
        <4>1. Taken' \subseteq Taken \cup {n} /\ cert'[r] # 0
          BY <1>1, <1>2, <3>2 DEF Taken
        <4>2. QED
          BY <3>2, <4>1, LosersAreBeaten
      <3>3. QED
        BY <1>3, <3>1, <3>2
    <2>2. QED
      BY <1>1, <1>6, <1>11, <2>1, OthersTruly
  <1>12. QED
    BY <1>6, <1>7, <1>8, <1>9, <1>10, <1>11 DEF CertificateInv

LEMMA SendKeeps ==
  ASSUME Types, CertificateInv, NEW w \in Worker, SendPdf(w) \/ SendFails(w)
  PROVE  CertificateInv' /\ CertificatesGrow
  <1>1. /\ worker[w].at = "sending" /\ \A v \in Worker : v # w => worker'[v] = worker[v]
        /\ \/ /\ worker'[w].at = "flagging" /\ Same(w)
              /\ delivered' = delivered \cup {worker[w].reg}
           \/ /\ worker'[w] = Idle
              /\ worker[w].by = "student" \/ faults' > 0
        /\ delivered \subseteq delivered'
    BY SendDoes DEF Moves
  <1>2. /\ UNCHANGED <<feedback, sent, cert, elsewhere, beaten>>
        /\ (faults > 0 => faults' > 0)
    BY DEF SendPdf, SendFails, Goes, Fault, Types, TypeOK
  <1>3. CertificatesGrow
    BY <1>1, <1>2 DEF CertificatesGrow
  <1>4. Unique' /\ FlagIsTruth'
    BY <1>2, <1>3, FlagStays, UniqueStays
  <1>5. FeedbackCertified'
    BY <1>1, <1>2, <1>3, StillCertified DEF CertificateInv, Settled
  <1>6. IssuesTruly(w)'
    BY <1>1, <1>2 DEF CertificateInv, IssuesTruly, FreeOrBeaten, Same, Idle
  <1>7. \A v \in Worker : v # w => IssuesTruly(v)'
    BY <1>1, <1>2, <1>3, OthersTruly, SameNumbers
  <1>8. QED
    BY <1>3, <1>4, <1>5, <1>6, <1>7 DEF CertificateInv

LEMMA FlagKeeps ==
  ASSUME Types, CertificateInv, NEW w \in Worker, Flag(w)
  PROVE  CertificateInv' /\ CertificatesGrow
  <1>1. /\ worker[w].at = "flagging" /\ worker[w].reg \in Reg
        /\ \A v \in Worker : v # w => worker'[v] = worker[v]
        /\ worker'[w].at \in {"idle", "issuing"}
    BY FlagDoes DEF Moves, Idle
  <1>2. /\ UNCHANGED <<feedback, cert, elsewhere, beaten, delivered, faults>>
        /\ sent' = sent \cup {worker[w].reg}
    BY DEF Flag, Goes
  <1>3. cert[worker[w].reg] # 0 /\ worker[w].reg \in delivered
    BY <1>1 DEF CertificateInv, IssuesTruly
  <1>4. CertificatesGrow
    BY <1>2 DEF CertificatesGrow, Types, TypeOK
  <1>5. Unique' /\ FlagIsTruth'
    BY <1>2, <1>3, UniqueStays DEF CertificateInv, FlagIsTruth
  <1>6. \A r \in Reg : worker[w].reg = r => Settled(r)'
    BY <1>2, <1>3 DEF Settled
  <1>7. FeedbackCertified'
    BY <1>1, <1>2, <1>4, <1>6, StillCertified DEF CertificateInv
  <1>8. IssuesTruly(w)'
    BY <1>1 DEF IssuesTruly, FreeOrBeaten
  <1>9. \A v \in Worker : v # w => IssuesTruly(v)'
    BY <1>1, <1>2, <1>4, OthersTruly, SameNumbers
  <1>10. QED
    BY <1>4, <1>5, <1>7, <1>8, <1>9 DEF CertificateInv

LEMMA ElsewhereKeeps ==
  ASSUME Types, CertificateInv, IssueElsewhere
  PROVE  CertificateInv' /\ CertificatesGrow
  <1> DEFINE n == Last + 1
  <1>1. /\ n \in Nat /\ n > 0 /\ n \notin Taken
        /\ elsewhere' = elsewhere \cup {n} /\ beaten' = beaten \cup Losers(n, 0)
        /\ UNCHANGED <<feedback, cert, sent, delivered>> /\ UNCHANGED <<worker, faults>>
    BY ElsewhereDoes
  <1> HIDE DEF n
  <1>2. CertificatesGrow
    BY <1>1 DEF CertificatesGrow
  <1>3. \A r \in Reg : cert[r] # n
    BY <1>1 DEF Taken
  <1>4. Unique' /\ FlagIsTruth'
    BY <1>1, <1>3 DEF CertificateInv, Unique, FlagIsTruth
  <1>5. ASSUME NEW r \in feedback PROVE Settled(r)' \/ Certifying(r)'
    <2>1. r \in Reg /\ (Settled(r) \/ Certifying(r))
      BY DEF Types, TypeOK, CertificateInv, FeedbackCertified, Settled
    <2>2. Certifying(r) => Certifying(r)'
      BY <1>1 DEF Certifying
    <2>3. QED
      BY <1>2, <2>1, <2>2, StillSettled
  <1>6. FeedbackCertified'
    BY <1>1, <1>5 DEF FeedbackCertified, Settled
  <1>7. Taken' \subseteq Taken \cup {n} /\ 0 \notin Reg
    BY <1>1 DEF Taken, Reg
  <1>8. ASSUME NEW v \in Worker PROVE IssuesTruly(v)'
    <2>1. NumberStill(v)
      BY <1>1, <1>7, LosersAreBeaten
    <2>2. QED
      BY <1>1, <1>2, <2>1, OthersTruly
  <1>9. QED
    BY <1>2, <1>4, <1>6, <1>8 DEF CertificateInv

LEMMA CertificateStepKeeps ==
  ASSUME Types, CertificateInv, NEW w \in Worker, CertificateStep(w)
  PROVE  CertificateInv' /\ CertificatesGrow
  <1>1. CASE \/ \E r \in Reg : Create(w, r)
             \/ \E regs \in SUBSET Reg \ {{}} : Send(w, regs)
    <2>1. /\ Moves(w, CertificateAt) /\ worker'[w].at = "issuing" /\ worker[w].by = "none"
      BY <1>1, AskedDoes
    <2>2. UNCHANGED certificateVars /\ UNCHANGED faults /\ (faults > 0 => faults' > 0)
      BY <1>1 DEF Create, Send, Begins, Arrives, Types, TypeOK
    <2>3. CertificateInv'
      BY <2>1, <2>2, CertificateStill
    <2>4. QED
      BY <2>2, <2>3 DEF CertificatesGrow, certificateVars
  <1>2. QED
    BY <1>1, FeedbackKeeps, IssueKeeps, InsertKeeps, SendKeeps, FlagKeeps DEF CertificateStep

-----------------------------------------------------------------------------
(* The theorems                                                             *)

Inv == Types /\ AttendanceInv /\ CertificateInv

LEMMA InitInv == Init => Inv
  <1> SUFFICES ASSUME Init PROVE Inv
    OBVIOUS
  <1>1. Idle \in WorkerState /\ Idle.at = "idle" /\ Idle.by = "none"
    BY IdleType DEF Idle
  <1>2. TypeOK /\ worker \in [Worker -> WorkerState] /\ \A w \in Worker : worker[w] = Idle
    <2>1. worker \in [Worker -> WorkerState] /\ \A w \in Worker : worker[w] = Idle
      BY <1>1 DEF Init
    <2>2. /\ requests \in 0 .. MaxRequests /\ faults \in 0 .. MaxFaults
      BY WebinarAssumption DEF Init
    <2>3. QED
      BY <2>1, <2>2 DEF Init, TypeOK
  <1>3. Bounded /\ Unique
    <2>1. 0 \in Nat /\ elsewhere = {} /\ \A r \in Reg : cert[r] = 0
      BY DEF Init
    <2>2. Taken \subseteq {0}
      BY <2>1 DEF Taken
    <2>3. QED
      BY <2>1, <2>2 DEF Bounded, Unique
  <1>4. Types
    BY <1>1, <1>2, <1>3 DEF Types, IssuesOnly, CertificateAt
  <1>6. AttendanceInv
    BY <1>1, <1>2 DEF Init, AttendanceInv, SummaryIsOfReports, AttendanceOk
  <1>7. CertificateInv
    BY <1>1, <1>2, <1>3
    DEF Init, CertificateInv, FlagIsTruth, FeedbackCertified, IssuesTruly, FreeOrBeaten
  <1>8. QED
    BY <1>4, <1>6, <1>7 DEF Inv

LEMMA NextInv == Inv /\ Next => Inv' /\ CertificatesGrow
  <1> SUFFICES ASSUME Inv, Next PROVE Inv' /\ CertificatesGrow
    OBVIOUS
  <1>1. Types /\ AttendanceInv /\ CertificateInv /\ Counts'
    BY CountsKept DEF Inv
  <1>2. MeetingType /\ AttendanceType /\ CertificateType /\ WorkerType
    BY <1>1, TypesSplit
  <1>3. ASSUME MeetingType', AttendanceType', CertificateType', WorkerType'
        PROVE  Types'
    BY <1>1, <1>3, TypesSplit
  <1>4. UNCHANGED certificateVars /\ UNCHANGED faults =>
          CertificateType' /\ CertificatesGrow /\ (faults > 0 => faults' > 0)
    BY <1>2, SameTypes DEF certificateVars, CertificatesGrow
  <1>5. CASE MeetingStep
    <2>1. /\ MeetingType' /\ UNCHANGED attendanceVars /\ UNCHANGED certificateVars
          /\ UNCHANGED worker /\ UNCHANGED faults
      BY <1>2, <1>5 DEF MeetingStep, Start, End, Arrives, MeetingType
    <2>2. AttendanceType' /\ AttendanceInv'
      BY <1>1, <2>1, AttendanceStill
    <2>3. WorkerType'
      BY <1>2, <2>1 DEF WorkerType, IssuesOnly
    <2>4. CertificateInv'
      BY <1>1, <2>1 DEF certificateVars, CertificateInv, Unique, FlagIsTruth, Taken,
         FeedbackCertified, Certifying, IssuesTruly, FreeOrBeaten
    <2>5. QED
      BY <1>3, <1>4, <2>1, <2>2, <2>3, <2>4 DEF Inv
  <1>6. CASE IssueElsewhere
    <2>1. CertificateInv' /\ CertificatesGrow
      BY <1>1, <1>6, ElsewhereKeeps
    <2>2. /\ UNCHANGED session /\ UNCHANGED attendanceVars /\ UNCHANGED worker
          /\ CertificateType'
      BY <1>1, <1>2, <1>6, ElsewhereDoes DEF CertificateType
    <2>3. MeetingType' /\ AttendanceType' /\ AttendanceInv'
      BY <1>1, <1>2, <2>2, AttendanceStill DEF MeetingType
    <2>4. WorkerType'
      BY <1>2, <2>2 DEF WorkerType, IssuesOnly
    <2>5. QED
      BY <1>3, <2>1, <2>2, <2>3, <2>4 DEF Inv
  <1>7. ASSUME NEW w \in Worker, AttendanceStep(w) PROVE Inv' /\ CertificatesGrow
    <2>1. /\ Moves(w, AttendanceAt) /\ worker[w].by = "none"
          /\ UNCHANGED session /\ UNCHANGED certificateVars /\ UNCHANGED faults
      BY <1>1, <1>7, AttendanceMoves
    <2>2. AttendanceType' /\ AttendanceInv'
      BY <1>1, <1>7, AttendanceStepKeeps
    <2>4. MeetingType'
      BY <1>2, <2>1 DEF MeetingType
    <2>5. worker'[w].at \notin {"numbered", "sending", "flagging"}
      BY <2>1 DEF Moves, AttendanceAt
    <2>6. CertificateInv'
      BY <1>1, <1>4, <2>1, <2>5, CertificateStill
    <2>7. WorkerType'
      BY <1>1, <2>1, OthersIssue DEF WorkerType
    <2>8. QED
      BY <1>3, <1>4, <2>1, <2>2, <2>4, <2>6, <2>7 DEF Inv
  <1>8. ASSUME NEW w \in Worker, CertificateStep(w) PROVE Inv' /\ CertificatesGrow
    <2>1. /\ Moves(w, CertificateAt) /\ UNCHANGED session /\ UNCHANGED attendanceVars
          /\ CertificateType'
      BY <1>1, <1>2, <1>8, CertificateMoves DEF CertificateType
    <2>2. CertificateInv' /\ CertificatesGrow
      BY <1>1, <1>8, CertificateStepKeeps
    <2>3. CertificateAt \cap AttendanceAt = {}
      BY DEF AttendanceAt, CertificateAt
    <2>4. MeetingType' /\ AttendanceType' /\ AttendanceInv'
      BY <1>1, <1>2, <2>1, <2>3, AttendanceAside DEF MeetingType
    <2>5. WorkerType'
      BY <1>1, <2>1, OthersIssue DEF WorkerType
    <2>6. QED
      BY <1>3, <2>1, <2>2, <2>4, <2>5 DEF Inv
  <1>9. ASSUME NEW w \in Worker, Crash(w) PROVE Inv' /\ CertificatesGrow
    <2>1. /\ UNCHANGED session /\ UNCHANGED attendanceVars /\ UNCHANGED certificateVars
          /\ Become(w, Idle) /\ faults' > 0
      BY <1>1, <1>9 DEF Crash, Fault, Types, TypeOK
    <2>2. Moves(w, {}) /\ worker'[w].at = "idle"
      BY <1>1, <2>1, MovesIdle DEF Idle
    <2>3. MeetingType' /\ AttendanceType' /\ AttendanceInv'
      BY <1>1, <1>2, <2>1, <2>2, AttendanceAside DEF MeetingType
    <2>4. CertificateInv'
      BY <1>1, <2>1, <2>2, CertificateStill
    <2>5. WorkerType'
      BY <1>1, <2>2, OthersIssue DEF WorkerType
    <2>6. CertificateType' /\ CertificatesGrow
      BY <1>2, <2>1, SameTypes DEF certificateVars, CertificatesGrow
    <2>7. QED
      BY <1>3, <2>1, <2>3, <2>4, <2>5, <2>6 DEF Inv
  <1>10. QED
    BY <1>5, <1>6, <1>7, <1>8, <1>9, NextSteps

LEMMA StutterInv == Inv /\ UNCHANGED vars => Inv' /\ CertificatesGrow
  <1> SUFFICES ASSUME Inv, UNCHANGED vars PROVE Inv' /\ CertificatesGrow
    OBVIOUS
  <1>1. /\ UNCHANGED <<session, reports, summary, attended>>
        /\ UNCHANGED <<feedback, cert, elsewhere, beaten, sent, delivered>>
        /\ UNCHANGED <<worker, requests, faults>>
    BY DEF vars, attendanceVars, certificateVars
  <1>2. Types'
    BY <1>1 DEF Inv, Types, TypeOK, Bounded, Taken, IssuesOnly
  <1>4. AttendanceInv'
    BY <1>1 DEF Inv, AttendanceInv, SummaryIsOfReports, AttendanceOk
  <1>5. CertificateInv' /\ CertificatesGrow
    BY <1>1 DEF Inv, CertificateInv, Unique, FlagIsTruth, FeedbackCertified, Certifying,
       IssuesTruly, FreeOrBeaten, Taken, CertificatesGrow
  <1>6. QED
    BY <1>2, <1>4, <1>5 DEF Inv

LEMMA SpecInv == Spec => []Inv
  <1>1. Inv /\ [Next]_vars => Inv'
    BY NextInv, StutterInv
  <1>2. QED
    BY InitInv, <1>1, PTL DEF Spec

\* Every variable keeps its type, whatever the requests do.
THEOREM TypeCorrect == Spec => []TypeOK
  <1>1. Inv => TypeOK
    BY DEF Inv, Types
  <1>2. QED
    BY SpecInv, <1>1, PTL

\* Overlapping, repeated and interrupted synchronisations store what a number of
\* whole reports add up to, and nothing else.
THEOREM SummariesAddUp == Spec => []SummaryIsOfReports
  <1>1. Inv => SummaryIsOfReports
    BY DEF Inv, AttendanceInv
  <1>2. QED
    BY SpecInv, <1>1, PTL

\* certificate_sent is set only of a certificate that exists and was delivered.
THEOREM FlagTellsTruth == Spec => []FlagIsTruth
  <1>1. Inv => FlagIsTruth
    BY DEF Inv, CertificateInv
  <1>2. QED
    BY SpecInv, <1>1, PTL

\* Feedback leads to a certificate that goes out, unless a request failed or the
\* number the request had looked up went to another certificate.
THEOREM FeedbackIsCertified == Spec => []FeedbackCertified
  <1>1. Inv => FeedbackCertified
    BY DEF Inv, CertificateInv
  <1>2. QED
    BY SpecInv, <1>1, PTL

\* A certificate keeps its number, and no two certificates, of this webinar or
\* of anyone else, get the same one, whichever requests race for it.
THEOREM CertificatesAreKept == Spec => CertificateKept
  <1> DEFINE Kept == \A r \in Reg :
               /\ cert[r] # 0 => cert'[r] = cert[r]
               /\ cert'[r] # 0 => /\ cert'[r] \notin elsewhere'
                                 /\ \A q \in Reg \ {r} : cert'[q] # cert'[r]
  <1>1. Inv /\ [Next]_vars => Kept
    <2> SUFFICES ASSUME Inv, [Next]_vars PROVE Kept
      OBVIOUS
    <2>1. Inv' /\ CertificatesGrow
      BY NextInv, StutterInv
    <2>2. QED
      BY <2>1 DEF Inv, CertificateInv, Unique, CertificatesGrow
  <1>2. Inv /\ [Next]_vars => [Kept]_vars
    BY <1>1
  <1>3. QED
    BY SpecInv, <1>2, PTL DEF Spec, CertificateKept
=============================================================================

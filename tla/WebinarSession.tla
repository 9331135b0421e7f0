---------------------------- MODULE WebinarSession ----------------------------
(***************************************************************************)
(* What happens to a webinar after its registrations                       *)
(* (src/Aryu/webinar): the session is started and ended, the attendance    *)
(* report of Zoom is synchronised, and participants get certificates for   *)
(* their feedback or when staff send them.                                 *)
(*                                                                         *)
(* A worker is a request in progress; its statements commit one by one.    *)
(* Times, PDF files and wording are abstracted, and so is Webinar.status,  *)
(* which start and end save too and no step below reads; Zoom's report of  *)
(* the meeting is a constant.                                              *)
(***************************************************************************)
EXTENDS Integers, Sequences, FiniteSets, FiniteSetsExt

CONSTANTS
    Regs,        \* the registrations in the order of their ids
    Report,      \* Zoom's participants: [id, email, name, first, seconds]
    Worker,      \* requests in progress
    MaxRequests, \* bound: requests that are begun
    MaxFaults    \* bound: failed deliveries and requests that die

Reg == 1 .. Len(Regs)
EligibleSeconds == 45 * 60

ASSUME WebinarAssumption ==
    /\ \A r \in Reg : DOMAIN Regs[r] = {"email", "name", "first"}
    /\ \A p \in Report : p.seconds \in Nat
    /\ MaxRequests \in Nat /\ MaxFaults \in Nat

VARIABLES
    session,    \* its WebinarSession row: none, started, ended
    reports,    \* how often the whole report was inserted as attendance logs
    summary,    \* summary[r]: the WebinarAttendanceSummary
    attended,   \* registrations marked as attended
    feedback,   \* registrations that gave feedback
    cert,       \* cert[r]: number of the certificate, 0 if there is none
    elsewhere,  \* numbers of the certificates of students and other webinars
    beaten,     \* registrations whose feedback lost the number it had looked
                \* up to another certificate (history)
    sent,       \* registrations with certificate_sent
    delivered,  \* registrations whose certificate went out by WhatsApp
    worker,     \* worker[w]: program counter and locals
    requests, faults

attendanceVars == <<reports, summary, attended>>
certificateVars == <<feedback, cert, elsewhere, beaten, sent, delivered>>
vars == <<session, attendanceVars, certificateVars, worker, requests, faults>>

NoSummary == [seconds |-> 0, joins |-> 0, eligible |-> FALSE]
Idle == [at |-> "idle", count |-> 0, reg |-> 0, rest |-> {}, by |-> "none"]

WorkerState ==
    [at : {"idle", "summing", "storing", "marking",
           "issuing", "numbered", "sending", "flagging"},
     count : Nat, reg : Reg \cup {0}, rest : SUBSET Reg,
     by : {"none", "feedback", "staff", "student"}]

\* what a summary is made of says SummaryIsOfReports
TypeOK ==
    /\ session \in {"none", "started", "ended"}
    /\ reports \in Nat /\ DOMAIN summary = Reg
    /\ attended \subseteq Reg /\ feedback \subseteq Reg
    /\ sent \subseteq Reg /\ delivered \subseteq Reg
    /\ cert \in [Reg -> Nat] /\ elsewhere \subseteq Nat /\ beaten \subseteq Reg
    /\ worker \in [Worker -> WorkerState]
    /\ requests \in 0 .. MaxRequests /\ faults \in 0 .. MaxFaults

Init ==
    /\ session = "none"
    /\ reports = 0 /\ summary = [r \in Reg |-> NoSummary] /\ attended = {}
    /\ cert = [r \in Reg |-> 0] /\ elsewhere = {} /\ beaten = {}
    /\ feedback = {} /\ sent = {} /\ delivered = {}
    /\ worker = [w \in Worker |-> Idle]
    /\ requests = 0 /\ faults = 0

At(w, label) == worker[w].at = label
Become(w, state) == worker' = [worker EXCEPT ![w] = state]
Goto(w, label) == Become(w, [worker[w] EXCEPT !.at = label])

Arrives == /\ requests < MaxRequests
           /\ requests' = requests + 1
           /\ UNCHANGED faults
Begins(w) == At(w, "idle") /\ Arrives
Goes(w, label) == At(w, label) /\ UNCHANGED <<requests, faults>>
Fault == /\ faults < MaxFaults
         /\ faults' = faults + 1
         /\ UNCHANGED requests

-----------------------------------------------------------------------------
(* The session                                                              *)

\* get_or_create: a session that is there stays as it is, an ended one ended
Start ==
    /\ Arrives
    /\ session' = IF session = "none" THEN "started" ELSE session
    /\ UNCHANGED <<attendanceVars, certificateVars, worker>>

\* "Session not started" without a session
End ==
    /\ session # "none" /\ Arrives
    /\ session' = "ended"
    /\ UNCHANGED <<attendanceVars, certificateVars, worker>>

-----------------------------------------------------------------------------
(* Attendance                                                               *)

With(field, value) == {r \in Reg : Regs[r][field] = value}

\* email_map and name_map keep the last registration, first_name_map the first
Match(p) ==
    CASE With("email", p.email) # {} -> Max(With("email", p.email))
      [] With("email", p.email) = {} /\ With("name", p.name) # {} ->
             Max(With("name", p.name))
      [] With("email", p.email) = {} /\ With("name", p.name) = {}
             /\ With("first", p.first) # {} -> Min(With("first", p.first))
      [] OTHER -> 0
LogsOf(r) == {p \in Report : Match(p) = r}
Seconds(r) == MapThenSumSet(LAMBDA p : p.seconds, LogsOf(r))
Matched == {r \in Reg : LogsOf(r) # {}}

\* every row of the report is inserted, whether it was inserted before or not
Sync(w) ==
    /\ session = "ended" /\ Begins(w)
    /\ reports' = reports + 1
    /\ Goto(w, "summing")
    /\ UNCHANGED <<summary, attended, session, certificateVars>>

\* Sum and Count over all the logs there are
SyncSums(w) ==
    /\ Goes(w, "summing")
    /\ Become(w, [Idle EXCEPT !.at = "storing", !.count = reports])
    /\ UNCHANGED <<attendanceVars, session, certificateVars>>

Total(r, n) == [seconds |-> n * Seconds(r), joins |-> n * Cardinality(LogsOf(r)),
                eligible |-> n * Seconds(r) >= EligibleSeconds]

\* mutant: eligible_for_certificate is not among the fields to update
SyncStoresTimes(w) ==
    /\ Goes(w, "storing")
    /\ summary' = [r \in Reg |-> IF r \in Matched
                                 THEN [Total(r, worker[w].count)
                                         EXCEPT !.eligible = summary[r].eligible]
                                 ELSE summary[r]]
    /\ Goto(w, "marking")
    /\ UNCHANGED <<reports, attended, session, certificateVars>>

SyncStores(w) ==
    /\ Goes(w, "storing")
    /\ summary' = [r \in Reg |-> IF r \in Matched THEN Total(r, worker[w].count)
                                 ELSE summary[r]]
    /\ Goto(w, "marking")
    /\ UNCHANGED <<reports, attended, session, certificateVars>>

SyncMarks(w) ==
    /\ Goes(w, "marking")
    /\ attended' = attended \cup Matched
    /\ Become(w, Idle)
    /\ UNCHANGED <<reports, summary, session, certificateVars>>

-----------------------------------------------------------------------------
(* Certificates                                                             *)

Issuing(r, rest, by) ==
    [Idle EXCEPT !.at = "issuing", !.reg = r, !.rest = rest, !.by = by]

\* the feedback row is unique per registration: a second one is answered 400
Feedback(w, r) ==
    /\ r \notin feedback /\ Begins(w)
    /\ feedback' = feedback \cup {r}
    /\ Become(w, Issuing(r, {}, "feedback"))
    /\ UNCHANGED <<cert, elsewhere, beaten, sent, delivered, session, attendanceVars>>

\* WebinarCertificateViewSet.send: participants one after another
Send(w, regs) ==
    /\ Begins(w)
    /\ \E r \in regs : Become(w, Issuing(r, regs \ {r}, "staff"))
    /\ UNCHANGED <<session, attendanceVars, certificateVars>>

\* CertificateViewSet.create: refused if the registration has a certificate
Create(w, r) ==
    /\ cert[r] = 0 /\ Begins(w)
    /\ Become(w, Issuing(r, {}, "student"))
    /\ UNCHANGED <<session, attendanceVars, certificateVars>>

\* one table holds the certificates of all webinars and of the students
Taken == {cert[r] : r \in Reg} \cup elsewhere
Last == Max(Taken \cup {0})
\* the feedback, of another registration than r, that counted on the number n
Losers(n, r) ==
    {q \in Reg \ {r} : \E w \in Worker :
        /\ At(w, "numbered") /\ worker[w].by = "feedback"
        /\ worker[w].reg = q /\ worker[w].count = n}

\* a certificate of a student or of another webinar is inserted.  Its number
\* may have been looked up before, but one that is not taken is still the next
IssueElsewhere ==
    /\ Arrives
    /\ elsewhere' = elsewhere \cup {Last + 1}
    /\ beaten' = beaten \cup Losers(Last + 1, 0)
    /\ UNCHANGED <<feedback, cert, sent, delivered, session, attendanceVars, worker>>

\* get_or_create finds the row, or takes the number after the last one
Issue(w) ==
    /\ Goes(w, "issuing")
    /\ IF cert[worker[w].reg] # 0 /\ worker[w].by # "student"
       THEN Goto(w, "sending")
       ELSE Become(w, [worker[w] EXCEPT !.at = "numbered", !.count = Last + 1])
    /\ UNCHANGED <<session, attendanceVars, certificateVars>>

\* mutant: the certificate that is found gets the new number
InsertOver(w) ==
    LET r == worker[w].reg  n == worker[w].count IN
    /\ Goes(w, "numbered")
    /\ n \notin Taken
    /\ cert' = [cert EXCEPT ![r] = n]
    /\ beaten' = beaten \cup Losers(n, r)
    /\ Goto(w, "sending")
    /\ UNCHANGED <<feedback, elsewhere, sent, delivered, session, attendanceVars>>

\* mutant: after a violation the row is not looked for again
InsertOnce(w) ==
    LET r == worker[w].reg  n == worker[w].count IN
    /\ Goes(w, "numbered")
    /\ \/ /\ cert[r] = 0 /\ n \notin Taken
          /\ cert' = [cert EXCEPT ![r] = n]
          /\ beaten' = beaten \cup Losers(n, r)
          /\ Goto(w, "sending")
       \/ /\ cert[r] # 0 \/ n \in Taken
          /\ Become(w, Idle) /\ UNCHANGED <<cert, beaten>>
    /\ UNCHANGED <<feedback, elsewhere, sent, delivered, session, attendanceVars>>

\* the INSERT: both the number and the registration are unique.  After a
\* violation get_or_create looks for the row again; without it the request ends
Insert(w) ==
    LET r == worker[w].reg  n == worker[w].count IN
    /\ Goes(w, "numbered")
    /\ \/ /\ cert[r] = 0 /\ n \notin Taken
          /\ cert' = [cert EXCEPT ![r] = n]
          /\ beaten' = beaten \cup Losers(n, r)
          /\ Goto(w, "sending")
       \/ /\ cert[r] # 0 /\ worker[w].by # "student"
          /\ Goto(w, "sending") /\ UNCHANGED <<cert, beaten>>
       \/ /\ IF worker[w].by = "student" THEN cert[r] # 0 \/ n \in Taken
             ELSE cert[r] = 0 /\ n \in Taken
          /\ Become(w, Idle) /\ UNCHANGED <<cert, beaten>>
    /\ UNCHANGED <<feedback, elsewhere, sent, delivered, session, attendanceVars>>

NextReg(w) == LET rest == worker[w].rest IN
    IF rest = {} THEN Become(w, Idle)
    ELSE \E r \in rest : Become(w, Issuing(r, rest \ {r}, worker[w].by))

\* generate_and_send_certificate_pdf; the view of aryuapp only mails
SendPdf(w) ==
    /\ Goes(w, "sending")
    /\ IF worker[w].by = "student"
       THEN Become(w, Idle) /\ UNCHANGED delivered
       ELSE Goto(w, "flagging") /\ delivered' = delivered \cup {worker[w].reg}
    /\ UNCHANGED <<feedback, cert, elsewhere, beaten, sent, session, attendanceVars>>

\* WhatsApp raises, after it took the message or before
SendFails(w) ==
    /\ At(w, "sending") /\ worker[w].by # "student" /\ Fault
    /\ delivered' \in {delivered, delivered \cup {worker[w].reg}}
    /\ Become(w, Idle)
    /\ UNCHANGED <<feedback, cert, elsewhere, beaten, sent, session, attendanceVars>>

Flag(w) ==
    /\ Goes(w, "flagging")
    /\ sent' = sent \cup {worker[w].reg}
    /\ NextReg(w)
    /\ UNCHANGED <<feedback, cert, elsewhere, beaten, delivered, session, attendanceVars>>

\* a request dies between two statements
Crash(w) ==
    /\ ~At(w, "idle") /\ Fault
    /\ Become(w, Idle)
    /\ UNCHANGED <<session, attendanceVars, certificateVars>>

-----------------------------------------------------------------------------

Next ==
    \/ \E w \in Worker :
        \/ Sync(w) \/ SyncSums(w) \/ SyncStores(w) \/ SyncMarks(w)
        \/ \E r \in Reg : Feedback(w, r) \/ Create(w, r)
        \/ \E regs \in SUBSET Reg \ {{}} : Send(w, regs)
        \/ Issue(w) \/ Insert(w) \/ SendPdf(w) \/ SendFails(w) \/ Flag(w)
        \/ Crash(w)
    \/ Start \/ End \/ IssueElsewhere

Spec == Init /\ [][Next]_vars

-----------------------------------------------------------------------------
(* Properties                                                               *)

\* Synchronising again, at the same time or after a crash may store old totals,
\* but never a mixture: a summary is what some number of whole reports add up
\* to, and one synchronisation alone stores the report's own numbers.
SummaryIsOfReports == \A r \in Reg :
    \/ summary[r] = NoSummary
    \/ \E n \in 1 .. reports : summary[r] = Total(r, n)

\* certificate_sent is true only of a certificate that exists and went out.
FlagIsTruth == \A r \in sent : cert[r] # 0 /\ r \in delivered

\* Requests that race for a registration's certificate, or for the next number
\* of a table they share with students and other webinars, leave a certificate
\* that is there as it is, and no number is given twice.
CertificateKept ==
    [][\A r \in Reg :
          /\ cert[r] # 0 => cert'[r] = cert[r]
          /\ cert'[r] # 0 => /\ cert'[r] \notin elsewhere'
                            /\ \A q \in Reg \ {r} : cert'[q] # cert'[r]]_vars

Certifying(r) == \E w \in Worker : worker[w].by = "feedback" /\ worker[w].reg = r

\* Feedback is followed by a certificate that goes out, also when another
\* request issues it first, unless something failed or another certificate took
\* the very number the request had looked up.  A second attempt is refused, so
\* then only staff can send it.
FeedbackCertified == \A r \in feedback :
    \/ cert[r] # 0 /\ r \in delivered
    \/ Certifying(r) \/ faults > 0 \/ r \in beaten
=============================================================================

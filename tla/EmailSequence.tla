---------------------------- MODULE EmailSequence ----------------------------
(***************************************************************************)
(* The emails one account is sent from the table email_sequences.  Rows    *)
(* are scheduled by BillingService.scheduleEmail, which looks for a row of *)
(* the key and then inserts one, and by the pipeline worker, which inserts *)
(* without looking; EmailSequenceProcessor.processDueSequences sends what  *)
(* is due every five minutes and writes sentAt after each mail.  Notices   *)
(* (the NPS survey, the reminder of a demo's expiry) are sent by daily     *)
(* crons themselves, which insert the row of a notice after its mail.      *)
(* Nothing takes a row before it is mailed, and a cron starts whether or   *)
(* not its previous call is over.  A method of EmailService never rejects: *)
(* it catches and logs a send that failed, and its caller goes on as if    *)
(* the mail were out.                                                      *)
(* cancelSequences has no caller.                                          *)
(***************************************************************************)
EXTENDS Integers, FiniteSets

CONSTANTS Schedulers,     \* concurrent calls of scheduleEmail
          Ticks,          \* concurrent calls of processDueSequences
          Notices,        \* concurrent calls of the cron of one notice
          Batch,          \* rows a tick reads: 20
          MaxRows,        \* bound: rows inserted
          MaxClock,       \* bound: hours that pass
          MaxMailFaults   \* bound: rejected database calls and restarts

ASSUME CallsAssumption ==
  IsFiniteSet(Schedulers) /\ IsFiniteSet(Ticks) /\ IsFiniteSet(Notices)
ASSUME EmailAssumption ==
  /\ Batch \in Nat \ {0}
  /\ MaxRows \in Nat /\ MaxClock \in Nat /\ MaxMailFaults \in Nat

VARIABLES rows,        \* how many rows there are: the ids are 1 .. rows
          key, at,     \* sequenceKey and scheduledAt of each row
          sent,        \* the rows whose sentAt is set
          copies,      \* mails each row has caused
          wants,       \* the key each scheduler has found no row of
          holds,       \* the rows each tick has read and not yet come to
          firing,      \* the row each tick has mailed and not yet recorded
          noticing,    \* where each call of the notice's cron is
          noticed,     \* the notice's row exists
          notices,     \* mails of the notice
          clock, mailFaults

tableVars == <<rows, key, at>>
tickVars == <<sent, copies, holds, firing>>
noticeVars == <<noticing, noticed, notices>>
emailVars == <<tableVars, tickVars, wants, noticeVars, clock, mailFaults>>

-----------------------------------------------------------------------------
Ids == 1 .. MaxRows
NoRow == 0
Scheduled == {"B1", "B2"}        \* keys of scheduleEmail; B3 and D5 are as B2
SequenceKeys == Scheduled \cup {"C2"}
Templates == {"B2", "C2"}        \* keys fireSequence has a mail for
Delay(k) == IF k = "B1" THEN 0 ELSE 1      \* the welcome mail is due at once

Rows(k) == {i \in 1 .. rows : key[i] = k}

\* Mutant of Due: whether a row is sent is not asked.
DueOrSent == {i \in 1 .. rows : at[i] <= clock}

Due == {i \in 1 .. rows : i \notin sent /\ at[i] <= clock}

EmailTypeOK ==
  /\ rows \in 0 .. MaxRows
  /\ key \in [Ids -> SequenceKeys] /\ at \in [Ids -> 0 .. MaxClock + 1]
  /\ sent \subseteq 1 .. rows /\ copies \in [Ids -> Nat]
  /\ wants \in [Schedulers -> Scheduled \cup {"none"}]
  /\ holds \in [Ticks -> SUBSET (1 .. rows)]
  /\ firing \in [Ticks -> {NoRow} \cup 1 .. rows]
  /\ \A t \in Ticks : firing[t] \notin holds[t]
  /\ noticing \in [Notices -> {"idle", "send", "record"}]
  /\ noticed \in BOOLEAN /\ notices \in Nat
  /\ clock \in 0 .. MaxClock /\ mailFaults \in 0 .. MaxMailFaults

EmailInit ==
  /\ rows = 0
  /\ key = [i \in Ids |-> "C2"] /\ at = [i \in Ids |-> 0]
  /\ sent = {} /\ copies = [i \in Ids |-> 0]
  /\ wants = [s \in Schedulers |-> "none"]
  /\ holds = [t \in Ticks |-> {}] /\ firing = [t \in Ticks |-> NoRow]
  /\ noticing = [n \in Notices |-> "idle"] /\ noticed = FALSE /\ notices = 0
  /\ clock = 0 /\ mailFaults = 0

MailFault == mailFaults < MaxMailFaults /\ mailFaults' = mailFaults + 1

-----------------------------------------------------------------------------
\* Scheduling.

AddRow(k) ==
  /\ rows < MaxRows /\ rows' = rows + 1
  /\ key' = [key EXCEPT ![rows + 1] = k]
  /\ at' = [at EXCEPT ![rows + 1] = clock + Delay(k)]

\* scheduleEmail looks for a row of the key, sent or not ...
Want(s, k) ==
  /\ wants[s] = "none" /\ Rows(k) = {}
  /\ wants' = [wants EXCEPT ![s] = k]
  /\ UNCHANGED <<tableVars, tickVars, noticeVars, clock, mailFaults>>

\* ... and inserts one.
Schedule(s) ==
  /\ wants[s] # "none" /\ AddRow(wants[s])
  /\ wants' = [wants EXCEPT ![s] = "none"]
  /\ UNCHANGED <<tickVars, noticeVars, clock, mailFaults>>

ScheduleThrows(s) ==
  /\ wants[s] # "none" /\ wants' = [wants EXCEPT ![s] = "none"]
  /\ MailFault
  /\ UNCHANGED <<tableVars, tickVars, noticeVars, clock>>

\* The worker's follow-up of a delivered report.
FollowUp ==
  /\ AddRow("C2")
  /\ UNCHANGED <<tickVars, wants, noticeVars, clock, mailFaults>>

-----------------------------------------------------------------------------
\* processDueSequences

\* The oldest rows that are due, as many as a tick reads.
OldestDue ==
  {b \in SUBSET Due :
     /\ Cardinality(b) = IF Cardinality(Due) < Batch THEN Cardinality(Due)
                         ELSE Batch
     /\ \A i \in b, j \in Due \ b : at[i] <= at[j]}

Take(t) ==
  /\ holds[t] = {} /\ firing[t] = NoRow /\ Due # {}
  /\ \E b \in OldestDue : holds' = [holds EXCEPT ![t] = b]
  /\ UNCHANGED <<tableVars, sent, copies, firing, wants, noticeVars, clock,
                 mailFaults>>

\* The row a tick comes to next.
NextOf(t, i) ==
  firing[t] = NoRow /\ i \in holds[t] /\ \A j \in holds[t] : at[i] <= at[j]

\* fireSequence: a key without a mail, a row without a recipient and a send that
\* fails all send nothing and count as fired.
Fire(t, i) ==
  /\ NextOf(t, i)
  /\ firing' = [firing EXCEPT ![t] = i]
  /\ holds' = [holds EXCEPT ![t] = @ \ {i}]
  /\ \/ key[i] \in Templates /\ copies' = [copies EXCEPT ![i] = @ + 1]
     \/ UNCHANGED copies
  /\ UNCHANGED <<tableVars, sent, wants, noticeVars, clock, mailFaults>>

\* The recipient cannot be read: on to the next row.
FireThrows(t, i) ==
  /\ NextOf(t, i)
  /\ holds' = [holds EXCEPT ![t] = @ \ {i}]
  /\ MailFault
  /\ UNCHANGED <<tableVars, sent, copies, firing, wants, noticeVars, clock>>

\* Mutant of Record: a row that has sent nothing is left for later.
RecordMailed(t) ==
  /\ firing[t] # NoRow
  /\ sent' = IF copies[firing[t]] > 0 THEN sent \cup {firing[t]} ELSE sent
  /\ firing' = [firing EXCEPT ![t] = NoRow]
  /\ UNCHANGED <<tableVars, copies, holds, wants, noticeVars, clock, mailFaults>>

Record(t) ==
  /\ firing[t] # NoRow
  /\ sent' = sent \cup {firing[t]}
  /\ firing' = [firing EXCEPT ![t] = NoRow]
  /\ UNCHANGED <<tableVars, copies, holds, wants, noticeVars, clock, mailFaults>>

\* The row is fired and its record is lost: it is due again.
RecordLost(t) ==
  /\ firing[t] # NoRow /\ firing' = [firing EXCEPT ![t] = NoRow]
  /\ MailFault
  /\ UNCHANGED <<tableVars, sent, copies, holds, wants, noticeVars, clock>>

TickStep(t) ==
  Take(t) \/ Record(t) \/ \E i \in Ids : Fire(t, i)

-----------------------------------------------------------------------------
\* sendNPSSurveys and sendExpiryReminders, for one job or seat: look, mail,
\* record.

NoticeGoes(n, from, to) ==
  noticing[n] = from /\ noticing' = [noticing EXCEPT ![n] = to]

\* Mutant of LookForNotice: the row is not looked for.
ToNotice(n) ==
  /\ NoticeGoes(n, "idle", "send")
  /\ UNCHANGED <<tableVars, tickVars, wants, noticed, notices, clock, mailFaults>>

LookForNotice(n) ==
  /\ NoticeGoes(n, "idle", "send") /\ ~ noticed
  /\ UNCHANGED <<tableVars, tickVars, wants, noticed, notices, clock, mailFaults>>

\* A send that fails goes on to the record too.
SendNotice(n) ==
  /\ NoticeGoes(n, "send", "record") /\ notices' \in {notices, notices + 1}
  /\ UNCHANGED <<tableVars, tickVars, wants, noticed, clock, mailFaults>>

RecordNotice(n) ==
  /\ NoticeGoes(n, "record", "idle") /\ noticed' = TRUE
  /\ UNCHANGED <<tableVars, tickVars, wants, notices, clock, mailFaults>>

NoticeLost(n) ==
  /\ NoticeGoes(n, "record", "idle") /\ MailFault
  /\ UNCHANGED <<tableVars, tickVars, wants, noticed, notices, clock>>

NoticeStep(n) ==
  LookForNotice(n) \/ SendNotice(n) \/ RecordNotice(n) \/ NoticeLost(n)

-----------------------------------------------------------------------------
EmailRestart ==
  /\ MailFault
  /\ wants' = [s \in Schedulers |-> "none"]
  /\ holds' = [t \in Ticks |-> {}] /\ firing' = [t \in Ticks |-> NoRow]
  /\ noticing' = [n \in Notices |-> "idle"]
  /\ UNCHANGED <<tableVars, sent, copies, noticed, notices, clock>>

EmailClock ==
  /\ clock < MaxClock /\ clock' = clock + 1
  /\ UNCHANGED <<tableVars, tickVars, wants, noticeVars, mailFaults>>

RowsNext ==
  \/ \E s \in Schedulers : \/ \E k \in Scheduled : Want(s, k)
                           \/ Schedule(s) \/ ScheduleThrows(s)
  \/ FollowUp
  \/ \E t \in Ticks : \/ TickStep(t) \/ RecordLost(t)
                      \/ \E i \in Ids : FireThrows(t, i)
  \/ EmailClock

NoticesNext == \E n \in Notices : NoticeStep(n)

EmailNext == RowsNext \/ NoticesNext \/ EmailRestart

EmailSpec == EmailInit /\ [][EmailNext]_emailVars

-----------------------------------------------------------------------------
(* Properties *)

\* A row is mailed once by each tick that overlaps the first, and by each once
\* more after every rejected call or restart that lost a record: never again
\* once it is recorded.
CopiesBounded ==
  \A i \in Ids : copies[i] <= Cardinality(Ticks) * (1 + mailFaults)

\* A key scheduled with scheduleEmail has at most one row for every call that
\* overlaps, and a notice is mailed as a row is: once by every overlapping call
\* of its cron, and again only for lost records.
RepeatsBounded ==
  /\ \A k \in Scheduled : Cardinality(Rows(k)) <= Cardinality(Schedulers)
  /\ notices <= Cardinality(Notices) * (1 + mailFaults)

\* What is due is fired and recorded in the end, whatever is due before it,
\* however the ticks overlap and whichever calls are lost.  That its mail went out
\* is not said: a send that fails is caught, logged and recorded all the same.
DueIsRecorded == \A i \in Ids : i \in Due ~> i \in sent
=============================================================================

------------------------ MODULE EmailSequenceProofs ------------------------
(***************************************************************************)
(* Proofs about EmailSequence, for any number of schedulers, ticks,        *)
(* notices, rows and lost calls.                                           *)
(***************************************************************************)
EXTENDS EmailSequence, TLAPS, FiniteSetTheorems

USE CallsAssumption, EmailAssumption

-----------------------------------------------------------------------------
(* Types.                                                                  *)

\* The account begins without rows or notices and nothing in flight.
LEMMA EmailInitTypes ==
  ASSUME EmailInit PROVE EmailTypeOK
<1> USE DEF NoRow, Scheduled, SequenceKeys
<1>1. key \in [Ids -> SequenceKeys] /\ at \in [Ids -> 0 .. MaxClock + 1]
  BY DEF EmailInit
<1>2. copies \in [Ids -> Nat] /\ wants \in [Schedulers -> Scheduled \cup {"none"}]
  BY DEF EmailInit
<1>3. /\ holds \in [Ticks -> SUBSET (1 .. rows)]
      /\ firing \in [Ticks -> {NoRow} \cup 1 .. rows]
      /\ \A t \in Ticks : firing[t] \notin holds[t]
  BY DEF EmailInit
<1>4. noticing \in [Notices -> {"idle", "send", "record"}]
  BY DEF EmailInit
<1>5. /\ rows \in 0 .. MaxRows /\ clock \in 0 .. MaxClock
      /\ mailFaults \in 0 .. MaxMailFaults /\ notices \in Nat
  BY DEF EmailInit
<1> QED
  BY <1>1, <1>2, <1>3, <1>4, <1>5 DEF EmailInit, EmailTypeOK

\* Every variable keeps its type, and no tick holds the row it is mailing.
THEOREM EmailTypeCorrect == EmailSpec => []EmailTypeOK
<1> USE DEF NoRow, Scheduled, SequenceKeys
<1>1. EmailInit => EmailTypeOK
  BY EmailInitTypes
<1>2. EmailTypeOK /\ [EmailNext]_emailVars => EmailTypeOK'
  <2> SUFFICES ASSUME EmailTypeOK, [EmailNext]_emailVars PROVE EmailTypeOK'
    OBVIOUS
  <2> USE DEF tableVars, tickVars, noticeVars, MailFault
  <2>1. ASSUME NEW k \in SequenceKeys, AddRow(k)
        PROVE  /\ rows' \in 0 .. MaxRows /\ 1 .. rows \subseteq 1 .. rows'
               /\ key' \in [Ids -> SequenceKeys]
               /\ at' \in [Ids -> 0 .. MaxClock + 1]
    <3>1. rows + 1 \in Ids /\ clock + Delay(k) \in 0 .. MaxClock + 1
      BY <2>1 DEF EmailTypeOK, AddRow, Delay, Ids
    <3> QED
      BY <2>1, <3>1 DEF EmailTypeOK, AddRow
  <2>2. ASSUME NEW s \in Schedulers, NEW k \in Scheduled, Want(s, k)
        PROVE  EmailTypeOK'
    BY <2>2 DEF EmailTypeOK, Want
  <2>3. ASSUME NEW s \in Schedulers, Schedule(s) PROVE EmailTypeOK'
    <3>1. wants[s] \in SequenceKeys
      BY <2>3 DEF EmailTypeOK, Schedule
    <3>2. holds' \in [Ticks -> SUBSET (1 .. rows')]
      BY <2>1, <2>3, <3>1 DEF EmailTypeOK, Schedule
    <3>3. firing' \in [Ticks -> {NoRow} \cup 1 .. rows']
      BY <2>1, <2>3, <3>1 DEF EmailTypeOK, Schedule
    <3> QED
      BY <2>1, <2>3, <3>1, <3>2, <3>3 DEF EmailTypeOK, Schedule
  <2>4. ASSUME NEW s \in Schedulers, ScheduleThrows(s) PROVE EmailTypeOK'
    BY <2>4 DEF EmailTypeOK, ScheduleThrows
  <2>5. CASE FollowUp
    <3>1. holds' \in [Ticks -> SUBSET (1 .. rows')]
      BY <2>1, <2>5 DEF EmailTypeOK, FollowUp
    <3>2. firing' \in [Ticks -> {NoRow} \cup 1 .. rows']
      BY <2>1, <2>5 DEF EmailTypeOK, FollowUp
    <3> QED
      BY <2>1, <2>5, <3>1, <3>2 DEF EmailTypeOK, FollowUp
  <2>6. ASSUME NEW t \in Ticks, Take(t) PROVE EmailTypeOK'
    BY <2>6 DEF EmailTypeOK, Take, OldestDue, Due
  <2>7. ASSUME NEW t \in Ticks, NEW i \in Ids, Fire(t, i) PROVE EmailTypeOK'
    <3>1. i \in 1 .. rows /\ holds[t] \ {i} \in SUBSET (1 .. rows)
      BY <2>7 DEF EmailTypeOK, Fire, NextOf
    <3>2. copies' \in [Ids -> Nat]
      BY <2>7 DEF EmailTypeOK, Fire
    <3>3. holds' \in [Ticks -> SUBSET (1 .. rows)]
      BY <2>7, <3>1 DEF EmailTypeOK, Fire
    <3>4. firing' \in [Ticks -> {NoRow} \cup 1 .. rows]
      BY <2>7, <3>1 DEF EmailTypeOK, Fire
    <3>5. \A u \in Ticks : firing'[u] \notin holds'[u]
      BY <2>7 DEF EmailTypeOK, Fire
    <3> QED
      BY <2>7, <3>2, <3>3, <3>4, <3>5 DEF EmailTypeOK, Fire
  <2>8. ASSUME NEW t \in Ticks, NEW i \in Ids, FireThrows(t, i)
        PROVE  EmailTypeOK'
    <3>1. holds' \in [Ticks -> SUBSET (1 .. rows)]
      BY <2>8 DEF EmailTypeOK, FireThrows
    <3>2. \A u \in Ticks : firing'[u] \notin holds'[u]
      BY <2>8 DEF EmailTypeOK, FireThrows
    <3> QED
      BY <2>8, <3>1, <3>2 DEF EmailTypeOK, FireThrows
  <2>9. ASSUME NEW t \in Ticks, Record(t) \/ RecordLost(t) PROVE EmailTypeOK'
    <3>1. UNCHANGED <<tableVars, copies, holds, wants, noticeVars, clock>>
      BY <2>9 DEF Record, RecordLost
    <3>2. firing' = [firing EXCEPT ![t] = NoRow]
      BY <2>9 DEF Record, RecordLost
    <3>3. firing' \in [Ticks -> {NoRow} \cup 1 .. rows]
      BY <3>2 DEF EmailTypeOK
    <3>4. \A u \in Ticks : firing'[u] \notin holds'[u]
      BY <3>1, <3>2 DEF EmailTypeOK
    <3>5. firing[t] \in 1 .. rows
      BY <2>9 DEF EmailTypeOK, Record, RecordLost
    <3>6. sent' \subseteq 1 .. rows
      BY <2>9, <3>5 DEF EmailTypeOK, Record, RecordLost
    <3>7. mailFaults' \in 0 .. MaxMailFaults
      <4>1. CASE Record(t)
        BY <4>1 DEF EmailTypeOK, Record
      <4>2. CASE RecordLost(t)
        BY <4>2 DEF EmailTypeOK, RecordLost
      <4> QED
        BY <2>9, <4>1, <4>2
    <3> QED
      BY <3>1, <3>3, <3>4, <3>6, <3>7 DEF EmailTypeOK
  <2>10. ASSUME NEW n \in Notices, NoticeStep(n) PROVE EmailTypeOK'
    <3> USE DEF NoticeGoes
    <3>1. CASE LookForNotice(n)
      BY <3>1 DEF EmailTypeOK, LookForNotice
    <3>2. CASE SendNotice(n)
      BY <3>2 DEF EmailTypeOK, SendNotice
    <3>3. CASE RecordNotice(n)
      BY <3>3 DEF EmailTypeOK, RecordNotice
    <3>4. CASE NoticeLost(n)
      BY <3>4 DEF EmailTypeOK, NoticeLost
    <3> QED
      BY <2>10, <3>1, <3>2, <3>3, <3>4 DEF NoticeStep
  <2>11. CASE EmailRestart
    BY <2>11 DEF EmailTypeOK, EmailRestart
  <2>12. CASE EmailClock
    BY <2>12 DEF EmailTypeOK, EmailClock
  <2>13. CASE UNCHANGED emailVars
    BY <2>13 DEF EmailTypeOK, emailVars
  <2> QED
    BY <2>2, <2>3, <2>4, <2>5, <2>6, <2>7, <2>8, <2>9, <2>10, <2>11, <2>12,
       <2>13 DEF EmailNext, RowsNext, NoticesNext, TickStep
<1> QED
  BY <1>1, <1>2, PTL DEF EmailSpec

-----------------------------------------------------------------------------
(* Counting.  Both a row and the notice are mailed first and recorded      *)
(* afterwards: of the calls that may still mail it and those that have yet *)
(* to record it there are never more than there are calls.                 *)

\* Two disjoint parts of a finite set.
LEMMA Parts ==
  ASSUME NEW S, IsFiniteSet(S), NEW A \in SUBSET S, NEW B \in SUBSET S,
         A \cap B = {}
  PROVE  /\ Cardinality(A) \in Nat /\ Cardinality(B) \in Nat
         /\ Cardinality(S) \in Nat /\ Cardinality(A) + Cardinality(B) <= Cardinality(S)
<1>1. IsFiniteSet(A) /\ IsFiniteSet(B)
  BY FS_Subset
<1>2. Cardinality(A \cup B) = Cardinality(A) + Cardinality(B)
  <2>1. Cardinality(A \cup B) = Cardinality(A) + Cardinality(B) - Cardinality(A \cap B)
    BY <1>1, FS_Union
  <2>2. Cardinality(A \cap B) = 0
    BY FS_EmptySet
  <2>3. Cardinality(A) \in Nat /\ Cardinality(B) \in Nat
    BY <1>1, FS_CardinalityType
  <2> QED
    BY <2>1, <2>2, <2>3
<1>3. Cardinality(A \cup B) <= Cardinality(S)
  BY FS_Subset, A \cup B \in SUBSET S
<1> QED
  BY <1>1, <1>2, <1>3, FS_CardinalityType

\* One more fault allows one more mail by each call.
LEMMA Window ==
  ASSUME NEW n \in Nat, NEW f \in Nat
  PROVE  /\ n * f \in Nat /\ n * (1 + f) = n * f + n
         /\ n * (f + 1) = n * f + n /\ n * (1 + (f + 1)) = n * f + n + n
<1>1. n * f \in Nat
  OBVIOUS
<1>2. n * (1 + f) = n * f + n
  OBVIOUS
<1>3. n * (f + 1) = n * f + n
  OBVIOUS
<1>4. n * (1 + (f + 1)) = n * f + n + n
  OBVIOUS
<1> QED
  BY <1>1, <1>2, <1>3, <1>4

Holding(i) == {t \in Ticks : i \in holds[t]}
Firing(i) == {t \in Ticks : firing[t] = i}
Unrecorded(i) ==
  i \notin sent =>
    copies[i] <= Cardinality(Ticks) * mailFaults + Cardinality(Firing(i))
Limited(i) ==
  copies[i] + Cardinality(Holding(i)) <= Cardinality(Ticks) * (1 + mailFaults)
CopiesInv == \A i \in Ids : Unrecorded(i) /\ Limited(i)

\* What the types say about the counts.
LEMMA TickCounts ==
  ASSUME EmailTypeOK, NEW i \in Ids
  PROVE  /\ Cardinality(Holding(i)) \in Nat /\ Cardinality(Firing(i)) \in Nat
         /\ Cardinality(Ticks) \in Nat /\ copies[i] \in Nat /\ mailFaults \in Nat
         /\ Cardinality(Holding(i)) + Cardinality(Firing(i)) <= Cardinality(Ticks)
         /\ IsFiniteSet(Holding(i)) /\ IsFiniteSet(Firing(i))
<1>1. Holding(i) \in SUBSET Ticks /\ Firing(i) \in SUBSET Ticks
  BY DEF Holding, Firing
<1>2. Holding(i) \cap Firing(i) = {}
  BY DEF Holding, Firing, EmailTypeOK
<1>3. copies[i] \in Nat /\ mailFaults \in Nat
  BY DEF EmailTypeOK
<1> QED
  BY <1>1, <1>2, <1>3, Parts, FS_Subset

\* The same of the next state.
LEMMA TickCountsNext ==
  ASSUME EmailTypeOK', NEW i \in Ids
  PROVE  /\ Cardinality(Holding(i))' \in Nat /\ Cardinality(Firing(i))' \in Nat
         /\ copies'[i] \in Nat /\ mailFaults' \in Nat
         /\ Cardinality(Holding(i))' + Cardinality(Firing(i))' <= Cardinality(Ticks)
<1>1. Holding(i)' \in SUBSET Ticks /\ Firing(i)' \in SUBSET Ticks
  BY DEF Holding, Firing
<1>2. Holding(i)' \cap Firing(i)' = {}
  BY DEF Holding, Firing, EmailTypeOK
<1>3. copies'[i] \in Nat /\ mailFaults' \in Nat
  BY DEF EmailTypeOK
<1> QED
  BY <1>1, <1>2, <1>3, Parts

\* A row that is not recorded stays below the limit by itself.
LEMMA UnrecordedIsLimited ==
  ASSUME EmailTypeOK, NEW i \in Ids, i \notin sent, Unrecorded(i)
  PROVE  Limited(i)
BY TickCounts, Window DEF Unrecorded, Limited

\* A row is mailed again only by a tick that overlaps or after a loss
\* (processDueSequences), for any number of ticks and any batch.
THEOREM CopiesAreBounded == EmailSpec => []CopiesBounded
<1>1. EmailInit => CopiesInv
  <2> SUFFICES ASSUME EmailInit, NEW i \in Ids PROVE Unrecorded(i) /\ Limited(i)
    BY DEF CopiesInv
  <2>1. EmailTypeOK
    BY EmailInitTypes
  <2>2. Unrecorded(i)
    BY <2>1, TickCounts, Window DEF EmailInit, Unrecorded
  <2> QED
    BY <2>1, <2>2, UnrecordedIsLimited DEF EmailInit
<1>2. EmailTypeOK /\ EmailTypeOK' /\ CopiesInv /\ [EmailNext]_emailVars => CopiesInv'
  <2> SUFFICES ASSUME EmailTypeOK, EmailTypeOK', CopiesInv, [EmailNext]_emailVars,
                      NEW i \in Ids
               PROVE  Unrecorded(i)' /\ Limited(i)'
    BY DEF CopiesInv
  <2> USE DEF tableVars, tickVars, noticeVars
  <2> DEFINE N == Cardinality(Ticks)
  <2>0. Unrecorded(i) /\ Limited(i)
    BY DEF CopiesInv
  <2>1. /\ N \in Nat /\ mailFaults \in Nat /\ mailFaults' \in Nat
        /\ copies[i] \in Nat /\ copies'[i] \in Nat
        /\ Cardinality(Holding(i)) \in Nat /\ Cardinality(Firing(i)) \in Nat
        /\ Cardinality(Holding(i))' \in Nat /\ Cardinality(Firing(i))' \in Nat
        /\ Cardinality(Holding(i)) + Cardinality(Firing(i)) <= N
        /\ Cardinality(Holding(i))' + Cardinality(Firing(i))' <= N
        /\ IsFiniteSet(Holding(i)) /\ IsFiniteSet(Firing(i))
    BY TickCounts, TickCountsNext
  <2>2. /\ N * mailFaults \in Nat
        /\ N * (1 + mailFaults) = N * mailFaults + N
        /\ N * (mailFaults + 1) = N * mailFaults + N
        /\ N * (1 + (mailFaults + 1)) = N * mailFaults + N + N
    BY <2>1, Window
  <2>3. (i \notin sent)' /\ Unrecorded(i)' => Limited(i)'
    BY <2>1, Window DEF Unrecorded, Limited
  <2>10. ASSUME UNCHANGED tickVars, mailFaults' = mailFaults
         PROVE  Unrecorded(i)' /\ Limited(i)'
    BY <2>0, <2>10 DEF Unrecorded, Limited, Holding, Firing
  <2>11. ASSUME UNCHANGED tickVars, mailFaults' = mailFaults + 1
         PROVE  Unrecorded(i)' /\ Limited(i)'
    <3>1. Holding(i)' = Holding(i) /\ Firing(i)' = Firing(i)
      BY <2>11 DEF Holding, Firing
    <3> QED
      BY <2>0, <2>1, <2>2, <2>11, <3>1 DEF Unrecorded, Limited
  <2>12. ASSUME NEW t \in Ticks, Take(t) PROVE Unrecorded(i)' /\ Limited(i)'
    <3>1. Unrecorded(i)'
      BY <2>0, <2>12 DEF Take, Unrecorded, Firing
    <3>2. CASE i \in sent
      <4>1. Holding(i)' = Holding(i)
        BY <2>12, <3>2 DEF Take, Holding, OldestDue, Due, EmailTypeOK
      <4> QED
        BY <2>0, <2>12, <3>1, <4>1 DEF Take, Limited
    <3> QED
      BY <2>3, <2>12, <3>1, <3>2 DEF Take
  <2>13. ASSUME NEW t \in Ticks, NEW j \in Ids, Fire(t, j)
         PROVE  Unrecorded(i)' /\ Limited(i)'
    <3>1. CASE j # i
      <4>1. Holding(i)' = Holding(i) /\ Firing(i)' = Firing(i)
        <5>1. /\ holds' = [holds EXCEPT ![t] = holds[t] \ {j}]
              /\ firing' = [firing EXCEPT ![t] = j]
              /\ firing[t] # i
          BY <2>13 DEF Fire, NextOf, NoRow, Ids
        <5>2. \A u \in Ticks : i \in holds'[u] <=> i \in holds[u]
          BY <3>1, <5>1 DEF EmailTypeOK
        <5>3. \A u \in Ticks : firing'[u] = i <=> firing[u] = i
          BY <3>1, <5>1 DEF EmailTypeOK
        <5> QED
          BY <5>2, <5>3 DEF Holding, Firing
      <4>2. copies'[i] = copies[i] /\ sent' = sent /\ mailFaults' = mailFaults
        BY <2>13, <3>1 DEF Fire, EmailTypeOK
      <4> QED
        BY <2>0, <4>1, <4>2 DEF Unrecorded, Limited
    <3>2. CASE j = i
      <4>1. /\ t \in Holding(i) /\ Holding(i)' = Holding(i) \ {t}
            /\ t \notin Firing(i) /\ Firing(i)' = Firing(i) \cup {t}
        <5>1. /\ holds' = [holds EXCEPT ![t] = holds[t] \ {i}]
              /\ firing' = [firing EXCEPT ![t] = i]
              /\ i \in holds[t] /\ firing[t] # i
          BY <2>13, <3>2 DEF Fire, NextOf, NoRow, Ids
        <5>2. /\ t \in Holding(i) /\ t \notin Firing(i)
          BY <5>1 DEF Holding, Firing
        <5>3. \A u \in Ticks : i \in holds'[u] <=> i \in holds[u] /\ u # t
          BY <5>1 DEF EmailTypeOK
        <5>4. \A u \in Ticks : firing'[u] = i <=> firing[u] = i \/ u = t
          BY <5>1 DEF EmailTypeOK
        <5>5. Holding(i)' = Holding(i) \ {t}
          BY <5>3 DEF Holding
        <5>6. Firing(i)' = Firing(i) \cup {t}
          BY <5>4 DEF Firing
        <5> QED
          BY <5>2, <5>5, <5>6
      <4>2. /\ Cardinality(Holding(i)') = Cardinality(Holding(i)) - 1
            /\ Cardinality(Firing(i)') = Cardinality(Firing(i)) + 1
        <5>1. Cardinality(Holding(i) \ {t}) = Cardinality(Holding(i)) - 1
          BY <2>1, <4>1, FS_RemoveElement
        <5>2. Cardinality(Firing(i) \cup {t}) = Cardinality(Firing(i)) + 1
          BY <2>1, <4>1, FS_AddElement
        <5> QED
          BY <4>1, <5>1, <5>2
      <4>3. /\ copies'[i] <= copies[i] + 1
            /\ sent' = sent /\ mailFaults' = mailFaults
        BY <2>1, <2>13, <3>2 DEF Fire, EmailTypeOK
      <4> QED
        BY <2>0, <2>1, <2>2, <4>2, <4>3 DEF Unrecorded, Limited
    <3> QED
      BY <3>1, <3>2
  <2>14. ASSUME NEW t \in Ticks, NEW j \in Ids, FireThrows(t, j)
         PROVE  Unrecorded(i)' /\ Limited(i)'
    <3>1. /\ copies' = copies /\ sent' = sent /\ firing' = firing
          /\ mailFaults' = mailFaults + 1
          /\ holds' = [holds EXCEPT ![t] = @ \ {j}]
      BY <2>14 DEF FireThrows, MailFault
    <3>2. Firing(i)' = Firing(i) /\ Holding(i)' \subseteq Holding(i)
      BY <3>1 DEF Holding, Firing, EmailTypeOK
    <3>3. Cardinality(Holding(i)') <= Cardinality(Holding(i))
      BY <2>1, <3>2, FS_Subset
    <3> QED
      BY <2>0, <2>1, <2>2, <3>1, <3>2, <3>3 DEF Unrecorded, Limited
  <2>15. ASSUME NEW t \in Ticks, Record(t) \/ RecordLost(t)
         PROVE  Unrecorded(i)' /\ Limited(i)'
    <3>1. /\ copies' = copies /\ holds' = holds
          /\ firing' = [firing EXCEPT ![t] = NoRow]
      BY <2>15 DEF Record, RecordLost
    <3>2. Holding(i)' = Holding(i)
      BY <3>1 DEF Holding
    <3>3. CASE Record(t)
      <4>1. sent' = sent \cup {firing[t]} /\ mailFaults' = mailFaults
        BY <3>3 DEF Record
      <4>2. i \notin sent' => i \notin sent /\ Firing(i)' = Firing(i)
        BY <3>1, <4>1 DEF Firing, EmailTypeOK, NoRow, Ids
      <4> QED
        BY <2>0, <3>1, <3>2, <4>1, <4>2 DEF Unrecorded, Limited
    <3>4. CASE RecordLost(t)
      <4>1. sent' = sent /\ mailFaults' = mailFaults + 1
        BY <3>4 DEF RecordLost, MailFault
      <4>2. Cardinality(Firing(i)) <= N
        BY <2>1
      <4> QED
        BY <2>0, <2>1, <2>2, <3>1, <3>2, <4>1, <4>2 DEF Unrecorded, Limited
    <3> QED
      BY <2>15, <3>3, <3>4
  <2>16. CASE EmailRestart
    <3>1. /\ copies' = copies /\ sent' = sent /\ mailFaults' = mailFaults + 1
          /\ holds' = [u \in Ticks |-> {}]
      BY <2>16 DEF EmailRestart, MailFault
    <3>2. Holding(i)' = {}
      BY <3>1 DEF Holding
    <3>3. Cardinality(Holding(i)') = 0
      BY <3>2, FS_EmptySet
    <3> QED
      BY <2>0, <2>1, <2>2, <3>1, <3>3 DEF Unrecorded, Limited
  <2> QED
    BY <2>10, <2>11, <2>12, <2>13, <2>14, <2>15, <2>16
    DEF EmailNext, RowsNext, NoticesNext, TickStep, emailVars, Want, Schedule,
        ScheduleThrows, FollowUp, EmailClock, NoticeStep, LookForNotice,
        SendNotice, RecordNotice, NoticeLost, MailFault
<1>3. EmailTypeOK /\ CopiesInv => CopiesBounded
  BY TickCounts, Window DEF CopiesInv, Limited, CopiesBounded
<1> QED
  BY <1>1, <1>2, <1>3, EmailTypeCorrect, PTL DEF EmailSpec

-----------------------------------------------------------------------------
(* Repeats.                                                                *)

Wanting(k) == {s \in Schedulers : wants[s] = k}
RowsInv ==
  \A k \in Scheduled :
    Cardinality(Rows(k)) + Cardinality(Wanting(k)) <= Cardinality(Schedulers)

Sending == {n \in Notices : noticing[n] = "send"}
Recording == {n \in Notices : noticing[n] = "record"}
NoticeInv ==
  /\ notices + Cardinality(Sending) <= Cardinality(Notices) * (1 + mailFaults)
  /\ ~ noticed =>
       notices <= Cardinality(Notices) * mailFaults + Cardinality(Recording)

\* The rows of a key and the schedulers that have found none are finitely many.
LEMMA RowCounts ==
  ASSUME rows \in Nat, NEW k
  PROVE  /\ IsFiniteSet(Rows(k)) /\ Cardinality(Rows(k)) \in Nat
         /\ IsFiniteSet(Wanting(k)) /\ Cardinality(Wanting(k)) \in Nat
         /\ Cardinality(Schedulers) \in Nat
         /\ Cardinality(Wanting(k)) <= Cardinality(Schedulers)
<1>1. IsFiniteSet(1 .. rows)
  BY FS_Interval
<1>2. Rows(k) \in SUBSET (1 .. rows) /\ Wanting(k) \in SUBSET Schedulers
  BY DEF Rows, Wanting
<1>3. IsFiniteSet(Rows(k)) /\ IsFiniteSet(Wanting(k))
  BY <1>1, <1>2, FS_Subset
<1> QED
  BY <1>2, <1>3, FS_Subset, FS_CardinalityType

\* A row is inserted by a scheduler that found none (scheduleEmail).
LEMMA RowsInvKept ==
  ASSUME EmailTypeOK, EmailTypeOK', RowsInv, [EmailNext]_emailVars
  PROVE  RowsInv'
<1> SUFFICES ASSUME NEW k \in Scheduled
             PROVE  Cardinality(Rows(k)') + Cardinality(Wanting(k)')
                      <= Cardinality(Schedulers)
  BY DEF RowsInv
<1> USE DEF tableVars, tickVars, noticeVars
<1>0. /\ Cardinality(Rows(k)) + Cardinality(Wanting(k)) <= Cardinality(Schedulers)
      /\ rows \in Nat
  BY DEF RowsInv, EmailTypeOK
<1>1. ASSUME NEW j \in SequenceKeys, AddRow(j)
      PROVE  Rows(k)' = IF j = k THEN Rows(k) \cup {rows + 1} ELSE Rows(k)
  <2>1. /\ rows' = rows + 1 /\ key' = [key EXCEPT ![rows + 1] = j]
        /\ rows + 1 \in Ids
    BY <1>1 DEF AddRow, Ids, EmailTypeOK
  <2>2. \A i \in 1 .. rows : key'[i] = key[i]
    BY <2>1 DEF EmailTypeOK, Ids
  <2>3. key'[rows + 1] = j
    BY <2>1 DEF EmailTypeOK
  <2>4. 1 .. rows' = (1 .. rows) \cup {rows + 1} /\ rows + 1 \notin 1 .. rows
    BY <1>0, <2>1
  <2> QED
    BY <2>2, <2>3, <2>4 DEF Rows
<1>2. ASSUME UNCHANGED tableVars, Wanting(k)' \subseteq Wanting(k)
      PROVE  Cardinality(Rows(k)') + Cardinality(Wanting(k)') <= Cardinality(Schedulers)
  <2>1. Rows(k)' = Rows(k)
    BY <1>2 DEF Rows
  <2>2. /\ Cardinality(Wanting(k)') <= Cardinality(Wanting(k))
        /\ Cardinality(Wanting(k)') \in Nat
    BY <1>0, <1>2, RowCounts, FS_Subset, FS_CardinalityType
  <2> QED
    BY <1>0, <2>1, <2>2, RowCounts
<1>3. ASSUME NEW s \in Schedulers, NEW j \in Scheduled, Want(s, j)
      PROVE  Cardinality(Rows(k)') + Cardinality(Wanting(k)') <= Cardinality(Schedulers)
  <2>1. CASE j = k
    <3>1. Rows(k)' = {}
      BY <1>3, <2>1 DEF Want, Rows
    <3>2. Cardinality(Rows(k)') = 0
      BY <3>1, FS_EmptySet
    <3>3. Wanting(k)' \in SUBSET Schedulers
      BY DEF Wanting
    <3>4. /\ Cardinality(Wanting(k)') <= Cardinality(Schedulers)
          /\ Cardinality(Wanting(k)') \in Nat /\ Cardinality(Schedulers) \in Nat
      BY <3>3, FS_Subset, FS_CardinalityType
    <3> QED
      BY <3>2, <3>4
  <2>2. CASE j # k
    BY <1>2, <1>3, <2>2 DEF Want, Wanting, EmailTypeOK
  <2> QED
    BY <2>1, <2>2
<1>4. ASSUME NEW s \in Schedulers, Schedule(s)
      PROVE  Cardinality(Rows(k)') + Cardinality(Wanting(k)') <= Cardinality(Schedulers)
  <2>1. wants[s] \in SequenceKeys /\ wants' = [wants EXCEPT ![s] = "none"]
    BY <1>4 DEF Schedule, EmailTypeOK, SequenceKeys
  <2>2. CASE wants[s] = k
    <3>1. Rows(k)' = Rows(k) \cup {rows + 1} /\ rows + 1 \notin Rows(k)
      BY <1>0, <1>1, <1>4, <2>1, <2>2 DEF Schedule, Rows
    <3>2. Wanting(k)' = Wanting(k) \ {s} /\ s \in Wanting(k)
      BY <2>1, <2>2 DEF Wanting, EmailTypeOK, Scheduled
    <3>3. Cardinality(Rows(k)') = Cardinality(Rows(k)) + 1
      <4>1. IsFiniteSet(Rows(k))
        BY <1>0, RowCounts
      <4>2. Cardinality(Rows(k) \cup {rows + 1}) = Cardinality(Rows(k)) + 1
        BY <3>1, <4>1, FS_AddElement
      <4> QED
        BY <3>1, <4>2
    <3>4. Cardinality(Wanting(k)') = Cardinality(Wanting(k)) - 1
      <4>1. IsFiniteSet(Wanting(k))
        BY <1>0, RowCounts
      <4>2. Cardinality(Wanting(k) \ {s}) = Cardinality(Wanting(k)) - 1
        BY <3>2, <4>1, FS_RemoveElement
      <4> QED
        BY <3>2, <4>2
    <3> QED
      BY <1>0, <3>3, <3>4, RowCounts
  <2>3. CASE wants[s] # k
    <3>1. Rows(k)' = Rows(k)
      BY <1>1, <1>4, <2>1, <2>3 DEF Schedule
    <3>2. Wanting(k)' = Wanting(k)
      BY <2>1, <2>3 DEF Wanting, EmailTypeOK, Scheduled
    <3> QED
      BY <1>0, <3>1, <3>2
  <2> QED
    BY <2>2, <2>3
<1>5. ASSUME NEW s \in Schedulers, ScheduleThrows(s)
      PROVE  Cardinality(Rows(k)') + Cardinality(Wanting(k)') <= Cardinality(Schedulers)
  BY <1>2, <1>5 DEF ScheduleThrows, Wanting, EmailTypeOK, Scheduled
<1>6. CASE FollowUp
  <2>1. Rows(k)' = Rows(k)
    BY <1>1, <1>6 DEF FollowUp, SequenceKeys, Scheduled
  <2>2. Wanting(k)' = Wanting(k)
    BY <1>6 DEF FollowUp, Wanting
  <2> QED
    BY <1>0, <2>1, <2>2
<1>7. CASE EmailRestart
  BY <1>2, <1>7 DEF EmailRestart, Wanting, Scheduled
<1>8. CASE UNCHANGED <<tableVars, wants>>
  BY <1>2, <1>8 DEF Wanting
<1> QED
  BY <1>3, <1>4, <1>5, <1>6, <1>7, <1>8
  DEF EmailNext, RowsNext, NoticesNext, TickStep, emailVars, Take, Fire,
      FireThrows, Record, RecordLost, EmailClock, NoticeStep, LookForNotice,
      SendNotice, RecordNotice, NoticeLost

\* The crons that mail a notice, those that record one, and all of them.
LEMMA NoticeCounts ==
  ASSUME EmailTypeOK
  PROVE  /\ Cardinality(Sending) \in Nat /\ Cardinality(Recording) \in Nat
         /\ Cardinality(Notices) \in Nat /\ notices \in Nat /\ mailFaults \in Nat
         /\ Cardinality(Sending) + Cardinality(Recording) <= Cardinality(Notices)
         /\ IsFiniteSet(Sending) /\ IsFiniteSet(Recording)
<1>1. /\ Sending \in SUBSET Notices /\ Recording \in SUBSET Notices
      /\ Sending \cap Recording = {}
  BY DEF Sending, Recording
<1>2. notices \in Nat /\ mailFaults \in Nat
  BY DEF EmailTypeOK
<1> QED
  BY <1>1, <1>2, Parts, FS_Subset

\* The same of the next state.
LEMMA NoticeCountsNext ==
  ASSUME EmailTypeOK'
  PROVE  /\ Cardinality(Sending)' \in Nat /\ Cardinality(Recording)' \in Nat
         /\ notices' \in Nat /\ mailFaults' \in Nat
         /\ Cardinality(Sending)' + Cardinality(Recording)' <= Cardinality(Notices)
<1>1. /\ Sending' \in SUBSET Notices /\ Recording' \in SUBSET Notices
      /\ Sending' \cap Recording' = {}
  BY DEF Sending, Recording
<1>2. notices' \in Nat /\ mailFaults' \in Nat
  BY DEF EmailTypeOK
<1> QED
  BY <1>1, <1>2, Parts

\* A notice is mailed by a cron that found no row of it (sendNPSSurveys,
\* sendExpiryReminders).
LEMMA NoticeInvKept ==
  ASSUME EmailTypeOK, EmailTypeOK', NoticeInv, [EmailNext]_emailVars
  PROVE  NoticeInv'
<1> USE DEF noticeVars, NoticeGoes
<1> DEFINE M == Cardinality(Notices)
<1>0. /\ notices + Cardinality(Sending) <= M * (1 + mailFaults)
      /\ ~ noticed => notices <= M * mailFaults + Cardinality(Recording)
  BY DEF NoticeInv
<1>1. /\ M \in Nat /\ notices \in Nat /\ mailFaults \in Nat
      /\ notices' \in Nat /\ mailFaults' \in Nat
      /\ Cardinality(Sending) \in Nat /\ Cardinality(Recording) \in Nat
      /\ Cardinality(Sending)' \in Nat /\ Cardinality(Recording)' \in Nat
      /\ Cardinality(Sending) + Cardinality(Recording) <= M
      /\ Cardinality(Sending)' + Cardinality(Recording)' <= M
      /\ IsFiniteSet(Sending) /\ IsFiniteSet(Recording)
  BY NoticeCounts, NoticeCountsNext
<1>2. /\ M * mailFaults \in Nat
      /\ M * (1 + mailFaults) = M * mailFaults + M
      /\ M * (mailFaults + 1) = M * mailFaults + M
      /\ M * (1 + (mailFaults + 1)) = M * mailFaults + M + M
  BY <1>1, Window
<1>3. ASSUME UNCHANGED noticeVars,
             mailFaults' = mailFaults \/ mailFaults' = mailFaults + 1
      PROVE  NoticeInv'
  <2>1. Sending' = Sending /\ Recording' = Recording
    BY <1>3 DEF Sending, Recording
  <2>2. CASE mailFaults' = mailFaults
    BY <1>0, <1>3, <2>1, <2>2 DEF NoticeInv
  <2>3. CASE mailFaults' = mailFaults + 1
    BY <1>0, <1>1, <1>2, <1>3, <2>1, <2>3 DEF NoticeInv
  <2> QED
    BY <1>3, <2>2, <2>3
<1>4. ASSUME NEW n \in Notices, LookForNotice(n) PROVE NoticeInv'
  <2>1. /\ ~ noticed /\ UNCHANGED <<noticed, notices, mailFaults>>
        /\ Recording' = Recording
    BY <1>4 DEF LookForNotice, Recording, EmailTypeOK
  <2> QED
    BY <1>0, <1>1, <1>2, <2>1 DEF NoticeInv
<1>5. ASSUME NEW n \in Notices, SendNotice(n) PROVE NoticeInv'
  <2>1. /\ notices' \in {notices, notices + 1} /\ UNCHANGED <<noticed, mailFaults>>
        /\ n \in Sending /\ Sending' = Sending \ {n}
        /\ n \notin Recording /\ Recording' = Recording \cup {n}
    BY <1>5 DEF SendNotice, Sending, Recording, EmailTypeOK
  <2>2. Cardinality(Sending \ {n}) = Cardinality(Sending) - 1
    BY <1>1, <2>1, FS_RemoveElement
  <2>3. Cardinality(Recording \cup {n}) = Cardinality(Recording) + 1
    BY <1>1, <2>1, FS_AddElement
  <2> QED
    BY <1>0, <1>1, <1>2, <2>1, <2>2, <2>3 DEF NoticeInv
<1>6. ASSUME NEW n \in Notices, RecordNotice(n) PROVE NoticeInv'
  <2>1. /\ noticed' /\ UNCHANGED <<notices, mailFaults>> /\ Sending' = Sending
    BY <1>6 DEF RecordNotice, Sending, EmailTypeOK
  <2> QED
    BY <1>0, <2>1 DEF NoticeInv
<1>7. ASSUME NEW n \in Notices, NoticeLost(n) PROVE NoticeInv'
  <2>1. /\ UNCHANGED <<noticed, notices>> /\ mailFaults' = mailFaults + 1
        /\ Sending' = Sending
    BY <1>7 DEF NoticeLost, Sending, EmailTypeOK, MailFault
  <2> QED
    BY <1>0, <1>1, <1>2, <2>1 DEF NoticeInv
<1>8. CASE EmailRestart
  <2>1. /\ UNCHANGED <<noticed, notices>> /\ mailFaults' = mailFaults + 1
        /\ Sending' = {} /\ Recording' = {}
    BY <1>8 DEF EmailRestart, Sending, Recording, MailFault
  <2>2. Cardinality(Sending') = 0 /\ Cardinality(Recording') = 0
    BY <2>1, FS_EmptySet
  <2> QED
    BY <1>0, <1>1, <1>2, <2>1, <2>2 DEF NoticeInv
<1> QED
  BY <1>3, <1>4, <1>5, <1>6, <1>7, <1>8
  DEF EmailNext, RowsNext, NoticesNext, TickStep, emailVars, Take, Fire,
      FireThrows, Record, RecordLost, EmailClock, NoticeStep, Want, Schedule,
      ScheduleThrows, FollowUp, MailFault

\* Rows and notices are repeated by overlapping calls and after losses only
\* (scheduleEmail, sendNPSSurveys, sendExpiryReminders), for any number of them.
THEOREM RepeatsAreBounded == EmailSpec => []RepeatsBounded
<1>1. EmailInit => RowsInv /\ NoticeInv
  <2> SUFFICES ASSUME EmailInit PROVE RowsInv /\ NoticeInv
    OBVIOUS
  <2>0. EmailTypeOK
    BY EmailInitTypes
  <2>1. ASSUME NEW k \in Scheduled
        PROVE  Cardinality(Rows(k)) + Cardinality(Wanting(k)) <= Cardinality(Schedulers)
    <3>1. Rows(k) = {} /\ Wanting(k) = {}
      BY DEF EmailInit, Rows, Wanting, Scheduled
    <3> QED
      BY <3>1, FS_EmptySet, FS_CardinalityType, CallsAssumption
  <2>2. Sending = {} /\ notices = 0 /\ mailFaults = 0
    BY DEF EmailInit, Sending
  <2>3. Cardinality(Sending) = 0
    BY <2>2, FS_EmptySet
  <2>4. NoticeInv
    <3>1. Cardinality(Notices) * (1 + mailFaults) \in Nat
      BY <2>0, <2>2, NoticeCounts
    <3> QED
      BY <2>0, <2>2, <2>3, <3>1, NoticeCounts, Window DEF NoticeInv
  <2> QED
    BY <2>1, <2>4 DEF RowsInv
<1>2. (EmailTypeOK /\ EmailTypeOK' /\ RowsInv /\ NoticeInv
         /\ [EmailNext]_emailVars)
        => RowsInv' /\ NoticeInv'
  BY RowsInvKept, NoticeInvKept
<1>3. EmailTypeOK /\ RowsInv /\ NoticeInv => RepeatsBounded
  <2> SUFFICES ASSUME EmailTypeOK, RowsInv, NoticeInv PROVE RepeatsBounded
    OBVIOUS
  <2>1. ASSUME NEW k \in Scheduled
        PROVE  Cardinality(Rows(k)) <= Cardinality(Schedulers)
    BY RowCounts DEF RowsInv, EmailTypeOK
  <2>2. notices <= Cardinality(Notices) * (1 + mailFaults)
    BY NoticeCounts, Window DEF NoticeInv
  <2> QED
    BY <2>1, <2>2 DEF RepeatsBounded
<1> QED
  BY <1>1, <1>2, <1>3, EmailTypeCorrect, PTL DEF EmailSpec
=============================================================================

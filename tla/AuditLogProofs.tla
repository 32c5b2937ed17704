--------------------------- MODULE AuditLogProofs ---------------------------
(***************************************************************************)
(* Proofs about AuditLog and AuditVerify, for every set of records, every  *)
(* checkpoint cadence and page size, and any number of processes, calls of *)
(* Verify and edits of the file.                                           *)
(***************************************************************************)
EXTENDS AuditVerify, SequenceTheorems, FiniteSetTheorems, WellFoundedInduction, TLAPS

\* n is the last key of a table, or 0 when the table is empty.
IsLast(table, n) ==
  /\ n \in Nat
  /\ \A i \in DOMAIN table : i \in Nat /\ i > 0 /\ i <= n
  /\ n = 0 \/ n \in DOMAIN table

\* Where the lock's holder and the goroutines can stand.
Control ==
  /\ mu \in {"free", "verify"} <=> step = "none"
  /\ step # "none" => Running
  /\ step \in {"stream", "due"} => backlog # <<>>
  /\ loader \notin {"off", "ended"} => phase \in {"open", "closing"}
  /\ retriers > 0 => phase \in {"open", "closing"}
  /\ mu = "retry" => retriers > 0
  /\ mu = "close" => phase = "waited"
  /\ step = "lost" => mu = "close"

\* Both tables have a last row.
TablesHaveLast ==
  /\ \E n \in Nat : IsLast(records, n)
  /\ \E n \in Nat : IsLast(checkpoints, n)

ChainInv ==
  /\ TypeOK /\ Control /\ TablesHaveLast
  /\ ChainIntact /\ CheckpointsIntact /\ MemoryFollowsTables

-----------------------------------------------------------------------------
\* LastSeq, as Open's queries compute it, is the last key of a table.
LEMMA LastSeqIsLast ==
  ASSUME NEW table, NEW n, IsLast(table, n)
  PROVE  LastSeq(table) = n
<1>1. CASE DOMAIN table = {}
  BY <1>1 DEF LastSeq, IsLast
<1>2. CASE DOMAIN table # {}
  <2>1. n \in DOMAIN table /\ \A i \in DOMAIN table : i <= n
    BY <1>2 DEF IsLast
  <2>2. \A m \in DOMAIN table : (\A i \in DOMAIN table : i <= m) => m = n
    BY <2>1 DEF IsLast
  <2>3. QED
    BY <1>2, <2>1, <2>2 DEF LastSeq
<1>3. QED
  BY <1>1, <1>2

\* Inserting a row one past the last key makes that key the last.
LEMMA InsertLast ==
  ASSUME NEW table, NEW n, NEW m \in Nat, NEW row, IsLast(table, n), m > n
  PROVE  /\ IsLast(Insert(table, m, row), m)
         /\ m \notin DOMAIN table
         /\ DOMAIN Insert(table, m, row) = DOMAIN table \cup {m}
         /\ Insert(table, m, row)[m] = row
         /\ \A i \in DOMAIN table : Insert(table, m, row)[i] = table[i]
BY DEF IsLast, Insert

-----------------------------------------------------------------------------
\* What a sequence's elements are, and how they change at its ends.
LEMMA ElementsIn ==
  ASSUME NEW S, NEW s \in Seq(S)
  PROVE  Elements(s) \subseteq S
BY DEF Elements

\* The empty backlog that Open and Crash leave has the type of a backlog.
LEMMA EmptyIsSeq == ASSUME NEW S PROVE <<>> \in Seq(S)
OBVIOUS

\* The invariant holds before the first process opens the log.
LEMMA InitChain == Init => ChainInv
<1> SUFFICES ASSUME Init PROVE ChainInv
  OBVIOUS
<1>1. DOMAIN records = {} /\ DOMAIN checkpoints = {}
  BY DEF Init, NoRows
<1>2. IsLast(records, 0) /\ IsLast(checkpoints, 0)
  BY <1>1 DEF IsLast
<1>3. TypeOK /\ Control
  <2>1. TypeOK
    BY <1>1, EmptyIsSeq DEF Init, TypeOK
  <2>2. Control
    BY DEF Init, Control, Running
  <2>3. QED
    BY <2>1, <2>2
<1>4. LastSeq(records) = 0
  BY <1>1 DEF LastSeq
<1>5. ChainIntact /\ CheckpointsIntact /\ MemoryFollowsTables
  BY <1>1, <1>4 DEF Init, ChainIntact, CheckpointsIntact, MemoryFollowsTables, Running
<1>6. QED
  BY <1>2, <1>3, <1>5 DEF ChainInv, TablesHaveLast

\* Types are kept by every step.
LEMMA TypeStep == TypeOK /\ Control /\ TablesHaveLast /\ [Next]_vars => TypeOK'
<1> SUFFICES ASSUME TypeOK, Control, TablesHaveLast, [Next]_vars PROVE TypeOK'
  OBVIOUS
<1> USE DEF TypeOK, tables, chain, atomics, threads, life, history
<1>1. CASE Open
  <2>1. LastSeq(records) \in Nat /\ LastSeq(checkpoints) \in Nat
    BY LastSeqIsLast DEF TablesHaveLast
  <2>2. QED
    <3>1. /\ records' = records /\ checkpoints' = checkpoints
          /\ seq' \in Nat /\ cpSeq' \in Nat
          /\ backlog' \in Seq(RecordSet) /\ retriers' \in Nat
          /\ starts' \in Nat /\ mu' = "free" /\ step' = "none"
          /\ streamed' = streamed /\ made' = made /\ logged' = logged
          /\ dropped' = dropped
      BY <1>1, <2>1, EmptyIsSeq DEF Open, openHead, openCpSeq
    <3>2. /\ key' = FALSE /\ keyLoaded' = FALSE /\ backlogged' = FALSE
          /\ loader' = "off" /\ phase' = "open"
      BY <1>1 DEF Open, openHead, openCpSeq
    <3>3. QED
      BY <3>1, <3>2
<1>2. CASE Start \/ LoadKey \/ KeyLoaded \/ LoaderEnds
  BY <1>2 DEF Start, LoadKey, KeyLoaded, LoaderEnds
<1>3. ASSUME NEW ok \in BOOLEAN, checkpoint(ok)
      PROVE  /\ DOMAIN checkpoints' \subseteq Nat /\ cpSeq' \in Nat
             /\ \A c \in DOMAIN checkpoints' : checkpoints'[c].prevSeq \in Nat
  BY <1>3 DEF checkpoint, Insert
<1>4. CASE \E ok \in BOOLEAN : Tick(ok)
  BY <1>3, <1>4 DEF Tick
<1>5. CASE \E r \in RecordSet : AppendRecord(r)
  BY <1>5 DEF AppendRecord
<1>6. CASE RetryWakes \/ RetryEnds
  <2>1. retriers' \in Nat
    BY <1>6 DEF RetryWakes, RetryEnds
  <2>2. QED
    BY <1>6, <2>1 DEF RetryWakes, RetryEnds
<1>7. CASE StoreRecord
  BY <1>7 DEF StoreRecord, Insert, newEntry
<1>8. CASE StoreFails
  BY <1>8 DEF StoreFails, flushReturns
<1>9. CASE FlushDone
  <2>1. retriers' \in Nat
    BY <1>9 DEF FlushDone, Control
  <2>2. QED
    BY <1>9, <2>1 DEF FlushDone, flushReturns
<1>10. CASE \E ok \in BOOLEAN : StreamRecord(ok)
  BY <1>10 DEF StreamRecord
<1>11. CASE \E ok \in BOOLEAN : CheckpointIfDue(ok)
  BY <1>3, <1>11 DEF CheckpointIfDue, Control
<1>12. CASE CloseStops \/ CloseWaits \/ CloseLocks
  BY <1>12 DEF CloseStops, CloseWaits, CloseLocks
<1>13. CASE \E ok \in BOOLEAN : CloseEnds(ok)
  <2>1. Elements(backlog) \subseteq RecordSet
    BY ElementsIn
  <2>2. QED
    BY <1>3, <1>13, <2>1 DEF CloseEnds
<1>14. CASE Crash
  <2>1. pending \in Seq(RecordSet)
    BY EmptyIsSeq DEF pending, Control
  <2>2. Elements(pending) \subseteq RecordSet
    BY <2>1, ElementsIn
  <2>3. QED
    BY <1>14, <2>2, EmptyIsSeq DEF Crash
<1>15. CASE UNCHANGED vars
  BY <1>15 DEF vars
<1>16. QED
  BY <1>1, <1>2, <1>4, <1>5, <1>6, <1>7, <1>8, <1>9, <1>10, <1>11, <1>12,
     <1>13, <1>14, <1>15 DEF Next

\* So are the control positions.
LEMMA ControlStep == TypeOK /\ Control /\ [Next]_vars => Control'
<1> SUFFICES ASSUME TypeOK, Control, [Next]_vars PROVE Control'
  OBVIOUS
<1> USE DEF Control, Running, ctxDone, atomics, threads, life
<1>0. retriers \in Nat
  BY DEF TypeOK
<1>1. CASE Open
  BY <1>1 DEF Open, openHead, openCpSeq
<1>2. CASE Start \/ LoadKey \/ KeyLoaded \/ LoaderEnds
  BY <1>2 DEF Start, LoadKey, KeyLoaded, LoaderEnds
<1>3. CASE \E ok \in BOOLEAN : Tick(ok)
  BY <1>3 DEF Tick
<1>4. CASE \E r \in RecordSet : AppendRecord(r)
  BY <1>4 DEF AppendRecord
<1>5. CASE RetryWakes
  BY <1>5 DEF RetryWakes
<1>6. CASE RetryEnds
  BY <1>0, <1>6 DEF RetryEnds
<1>7. CASE StoreRecord
  BY <1>7 DEF StoreRecord
<1>8. CASE StoreFails
  BY <1>0, <1>8 DEF StoreFails, flushReturns
<1>9. CASE FlushDone
  BY <1>0, <1>9 DEF FlushDone, flushReturns
<1>10. CASE \E ok \in BOOLEAN : StreamRecord(ok)
  BY <1>10 DEF StreamRecord
<1>11. CASE \E ok \in BOOLEAN : CheckpointIfDue(ok)
  BY <1>11 DEF CheckpointIfDue
<1>12. CASE CloseStops
  BY <1>12 DEF CloseStops
<1>13. CASE CloseWaits
  BY <1>13 DEF CloseWaits
<1>14. CASE CloseLocks
  BY <1>14 DEF CloseLocks
<1>15. CASE \E ok \in BOOLEAN : CloseEnds(ok)
  BY <1>15 DEF CloseEnds
<1>16. CASE Crash
  BY <1>16 DEF Crash
<1>17. CASE UNCHANGED vars
  BY <1>17 DEF vars
<1>18. QED
  BY <1>1, <1>2, <1>3, <1>4, <1>5, <1>6, <1>7, <1>8, <1>9, <1>10, <1>11, <1>12,
     <1>13, <1>14, <1>15, <1>16, <1>17 DEF Next

-----------------------------------------------------------------------------
\* The three table facts depend on the tables alone.
LEMMA TablesUnchanged ==
  ASSUME ChainInv, UNCHANGED tables
  PROVE  TablesHaveLast' /\ ChainIntact' /\ CheckpointsIntact'
BY DEF ChainInv, tables, TablesHaveLast, ChainIntact, CheckpointsIntact, HashAt

\* A record is chained to the last one: StoreRecord keeps the chain.
LEMMA StoreRecordStep ==
  ASSUME ChainInv, StoreRecord
  PROVE  TablesHaveLast' /\ ChainIntact' /\ CheckpointsIntact' /\ MemoryFollowsTables'
<1> DEFINE e == newEntry(seq + 1, Head(backlog), head)
<1> HIDE DEF e
<1>1. Running /\ seq \in Nat
  BY DEF ChainInv, TypeOK, Control, StoreRecord
<1>2. seq = LastSeq(records) /\ head = HashAt(seq) /\ cpSeq = LastSeq(checkpoints)
  BY <1>1 DEF ChainInv, MemoryFollowsTables
<1>3. IsLast(records, seq)
  BY <1>2, LastSeqIsLast DEF ChainInv, TablesHaveLast
<1>4. /\ records' = Insert(records, seq + 1, e) /\ seq' = seq + 1 /\ head' = e.hash
      /\ checkpoints' = checkpoints /\ cpSeq' = cpSeq
  BY DEF StoreRecord, e
<1>5. seq + 1 \in Nat /\ seq + 1 > seq
  BY <1>1
<1>6. /\ IsLast(records', seq + 1) /\ DOMAIN records' = DOMAIN records \cup {seq + 1}
      /\ records'[seq + 1] = e
      /\ \A i \in DOMAIN records : records'[i] = records[i]
  <2> DEFINE m == seq + 1
  <2> HIDE DEF m
  <2>1. m \in Nat /\ m > seq /\ records' = Insert(records, m, e)
    BY <1>4, <1>5 DEF m
  <2>2. /\ IsLast(records', m) /\ DOMAIN records' = DOMAIN records \cup {m}
        /\ records'[m] = e
        /\ \A i \in DOMAIN records : records'[i] = records[i]
    BY <1>3, <2>1, InsertLast
  <2>3. QED
    BY <2>2 DEF m
<1>7. LastSeq(records') = seq + 1
  BY <1>6, LastSeqIsLast
<1>8. DOMAIN records = 1 .. seq
  BY <1>2 DEF ChainInv, ChainIntact
<1>9. TablesHaveLast'
  BY <1>4, <1>5, <1>6 DEF ChainInv, TablesHaveLast
<1>10. ChainIntact'
  <2>1. DOMAIN records' = 1 .. seq + 1
    BY <1>1, <1>6, <1>8
  <2>2. ASSUME NEW i \in 1 .. seq + 1
        PROVE  records'[i] = newEntry(i, records'[i].r, HashAt(i - 1)')
    <3>1. CASE i = seq + 1
      <4>1. HashAt(i - 1)' = HashAt(seq)
        BY <1>1, <1>6, <1>8, <3>1 DEF HashAt
      <4>2. records'[i].r = Head(backlog)
        BY <1>6, <3>1 DEF newEntry, e
      <4>3. QED
        BY <1>2, <1>6, <3>1, <4>1, <4>2 DEF e
    <3>2. CASE i \in 1 .. seq
      <4>1. records[i] = newEntry(i, records[i].r, HashAt(i - 1))
        BY <1>8, <3>2 DEF ChainInv, ChainIntact
      <4>2. HashAt(i - 1)' = HashAt(i - 1)
        BY <1>1, <1>6, <1>8, <3>2 DEF HashAt
      <4>3. QED
        BY <1>6, <1>8, <3>2, <4>1, <4>2
    <3>3. QED
      BY <1>1, <3>1, <3>2
  <2>3. QED
    BY <1>7, <2>1, <2>2 DEF ChainIntact
<1>11. CheckpointsIntact'
  BY <1>4, <1>6 DEF ChainInv, CheckpointsIntact
<1>12. MemoryFollowsTables'
  <2>1. HashAt(seq)' = e.hash
    BY <1>1, <1>4, <1>6 DEF HashAt
  <2>2. QED
    BY <1>2, <1>4, <1>7, <2>1 DEF MemoryFollowsTables
<1>13. QED
  BY <1>9, <1>10, <1>11, <1>12

\* A checkpoint extends the list of checkpoints, wherever it is taken.
LEMMA CheckpointStep ==
  ASSUME ChainInv, Running, NEW ok \in BOOLEAN, checkpoint(ok),
         UNCHANGED <<records, seq, head>>
  PROVE  TablesHaveLast' /\ ChainIntact' /\ CheckpointsIntact' /\ MemoryFollowsTables'
<1>1. /\ seq = LastSeq(records) /\ head = HashAt(seq) /\ cpSeq = LastSeq(checkpoints)
      /\ seq \in Nat /\ cpSeq \in Nat
  BY DEF ChainInv, MemoryFollowsTables, TypeOK
<1>2. IsLast(records, seq) /\ IsLast(checkpoints, cpSeq)
  BY <1>1, LastSeqIsLast DEF ChainInv, TablesHaveLast
<1>3. ChainIntact'
  BY DEF ChainInv, ChainIntact, HashAt
<1>4. HashAt(seq)' = HashAt(seq)
  BY DEF HashAt
<1>5. CASE UNCHANGED <<checkpoints, cpSeq>>
  <2>1. TablesHaveLast' /\ CheckpointsIntact'
    BY <1>5, TablesUnchanged DEF tables
  <2>2. MemoryFollowsTables'
    BY <1>1, <1>4, <1>5 DEF MemoryFollowsTables
  <2>3. QED
    BY <1>3, <2>1, <2>2
<1>6. CASE /\ seq > cpSeq /\ cpSeq' = seq
           /\ checkpoints' = Insert(checkpoints, seq,
                [prevSeq |-> cpSeq, head |-> head, sig |-> message(seq, cpSeq, head)])
  <2> DEFINE row == [prevSeq |-> cpSeq, head |-> head, sig |-> message(seq, cpSeq, head)]
  <2>1. /\ IsLast(checkpoints', seq)
        /\ DOMAIN checkpoints' = DOMAIN checkpoints \cup {seq}
        /\ checkpoints'[seq] = row
        /\ \A c \in DOMAIN checkpoints : checkpoints'[c] = checkpoints[c]
    BY <1>1, <1>2, <1>6, InsertLast
  <2>2. LastSeq(checkpoints') = seq
    BY <2>1, LastSeqIsLast
  <2>3. TablesHaveLast'
    BY <1>1, <1>2, <2>1 DEF TablesHaveLast
  <2>4. seq \in DOMAIN records /\ head = records[seq].hash
    BY <1>1, <1>2, <1>6 DEF IsLast, HashAt
  <2>5. /\ \A c \in DOMAIN checkpoints : c \in Nat /\ c <= cpSeq
        /\ cpSeq = 0 \/ cpSeq \in DOMAIN checkpoints
    BY <1>2 DEF IsLast
  <2>6. CheckpointsIntact'
    <3> SUFFICES ASSUME NEW c \in DOMAIN checkpoints'
                 PROVE  LET p == checkpoints'[c].prevSeq
                        IN  /\ c \in DOMAIN records
                            /\ checkpoints'[c].head = records[c].hash
                            /\ checkpoints'[c].sig = message(c, p, records[c].hash)
                            /\ p < c /\ (p = 0 \/ p \in DOMAIN checkpoints')
                            /\ \A d \in DOMAIN checkpoints' : d <= p \/ d >= c
      BY DEF CheckpointsIntact
    <3>1. CASE c = seq
      BY <1>1, <1>6, <2>1, <2>4, <2>5, <3>1
    <3>2. CASE c \in DOMAIN checkpoints
      BY <1>1, <1>6, <2>1, <2>5, <3>2 DEF ChainInv, CheckpointsIntact
    <3>3. QED
      BY <2>1, <3>1, <3>2
  <2>7. MemoryFollowsTables'
    BY <1>1, <1>4, <1>6, <2>2 DEF MemoryFollowsTables
  <2>8. QED
    BY <1>3, <2>3, <2>6, <2>7
<1>7. QED
  BY <1>5, <1>6 DEF checkpoint

\* Every step keeps the chain, its checkpoints and the memory of them.
LEMMA ChainStep == ChainInv /\ [Next]_vars => ChainInv'
<1> SUFFICES ASSUME ChainInv, [Next]_vars PROVE ChainInv'
  OBVIOUS
<1>1. TypeOK' /\ Control'
  BY TypeStep, ControlStep DEF ChainInv
<1> SUFFICES TablesHaveLast' /\ ChainIntact' /\ CheckpointsIntact' /\ MemoryFollowsTables'
  BY <1>1 DEF ChainInv
<1> DEFINE Quiet == UNCHANGED tables /\ UNCHANGED chain /\ (Running' => Running)
<1>2. CASE Open
  <2>1. UNCHANGED tables
    BY <1>2 DEF Open, openHead, openCpSeq
  <2>2. HashAt(LastSeq(records))' = HashAt(LastSeq(records))
    BY <2>1 DEF HashAt, tables
  <2>3. MemoryFollowsTables'
    BY <1>2, <2>1, <2>2 DEF Open, openHead, openCpSeq, MemoryFollowsTables, tables
  <2>4. QED
    BY <2>1, <2>3, TablesUnchanged
<1>3. CASE Crash
  <2>1. UNCHANGED tables /\ ~Running'
    BY <1>3 DEF Crash, Running
  <2>2. QED
    BY <2>1, TablesUnchanged DEF MemoryFollowsTables
<1>4. CASE StoreRecord
  BY <1>4, StoreRecordStep
<1>5. CASE \E ok \in BOOLEAN : Tick(ok) \/ CheckpointIfDue(ok) \/ CloseEnds(ok)
  <2> PICK ok \in BOOLEAN : Tick(ok) \/ CheckpointIfDue(ok) \/ CloseEnds(ok)
    BY <1>5
  <2>1. Running
    BY DEF ChainInv, Control, Running, Tick, CheckpointIfDue, CloseEnds
  <2>2. UNCHANGED <<records, seq, head>>
    BY DEF Tick, CheckpointIfDue, CloseEnds
  <2>3. checkpoint(ok) \/ UNCHANGED <<checkpoints, cpSeq>>
    BY DEF Tick, CheckpointIfDue, CloseEnds
  <2>4. CASE checkpoint(ok)
    BY <2>1, <2>2, <2>4, CheckpointStep
  <2>5. CASE UNCHANGED <<checkpoints, cpSeq>>
    <3>1. checkpoint(FALSE)
      BY <2>5 DEF checkpoint
    <3>2. QED
      BY <2>1, <2>2, <3>1, CheckpointStep
  <2>6. QED
    BY <2>3, <2>4, <2>5
<1>6. CASE Quiet
  <2>1. HashAt(seq)' = HashAt(seq)
    BY <1>6 DEF HashAt, tables, chain
  <2>2. MemoryFollowsTables'
    BY <1>6, <2>1 DEF ChainInv, MemoryFollowsTables, tables, chain
  <2>3. QED
    BY <1>6, <2>2, TablesUnchanged
<1>7. CASE UNCHANGED vars
  <2>1. Quiet
    BY <1>7 DEF vars, tables, chain, life, Running
  <2>2. QED
    BY <1>6, <2>1
<1>8. CASE \/ Start \/ LoadKey \/ KeyLoaded \/ LoaderEnds \/ RetryWakes \/ RetryEnds
           \/ CloseStops \/ CloseWaits \/ CloseLocks
  <2>1. Quiet
    BY <1>8 DEF Start, LoadKey, KeyLoaded, LoaderEnds, RetryWakes, RetryEnds,
      CloseStops, CloseWaits, CloseLocks, tables, chain, life, Running
  <2>2. QED
    BY <1>6, <2>1
<1>9. CASE \/ \E r \in RecordSet : AppendRecord(r)
           \/ StoreFails \/ FlushDone \/ \E ok \in BOOLEAN : StreamRecord(ok)
  <2>1. Quiet
    BY <1>9 DEF AppendRecord, StoreFails, FlushDone, StreamRecord, tables, chain, life, Running
  <2>2. QED
    BY <1>6, <2>1
<1>10. QED
  BY <1>2, <1>3, <1>4, <1>5, <1>7, <1>8, <1>9 DEF Next

-----------------------------------------------------------------------------
\* The inductive invariant holds in every reachable state of the log.
LEMMA ChainAlways == Spec => []ChainInv
BY InitChain, ChainStep, PTL DEF Spec

\* The type invariant of the audit log.
THEOREM TypeCorrect == Spec => []TypeOK
<1>1. ChainInv => TypeOK
  BY DEF ChainInv
<1>2. QED
  BY <1>1, ChainAlways, PTL

\* The hash chain in SQLite is never broken by the program itself: not by a
\* failed insert, a retry, a shutdown or a crash at any point of a critical
\* section.
THEOREM ChainNeverBreaks == Spec => []ChainIntact
<1>1. ChainInv => ChainIntact
  BY DEF ChainInv
<1>2. QED
  BY <1>1, ChainAlways, PTL

\* Nor is the list of signed checkpoints.
THEOREM CheckpointsNeverBreak == Spec => []CheckpointsIntact
<1>1. ChainInv => CheckpointsIntact
  BY DEF ChainInv
<1>2. QED
  BY <1>1, ChainAlways, PTL

\* A process's memory of the chain's end is what the tables hold.
THEOREM MemoryAgrees == Spec => []MemoryFollowsTables
<1>1. ChainInv => MemoryFollowsTables
  BY DEF ChainInv
<1>2. QED
  BY <1>1, ChainAlways, PTL

\* Together: the chain and its checkpoints are intact, and the process that appends to
\* them continues them where they end.
THEOREM TablesNeverBreak == Spec => []TablesIntact
<1>1. ChainInv => TablesIntact
  BY DEF ChainInv, TablesIntact
<1>2. QED
  BY <1>1, ChainAlways, PTL

-----------------------------------------------------------------------------
(***************************************************************************)
(* No record is lost silently.                                             *)
(***************************************************************************)

\* A record joins the backlog at its end and leaves it at its head.
LEMMA ElementsAtEnds ==
  ASSUME NEW S, NEW s \in Seq(S), NEW r \in S
  PROVE  /\ Elements(Append(s, r)) = Elements(s) \cup {r}
         /\ s # <<>> => Elements(s) = Elements(Tail(s)) \cup {Head(s)}
         /\ Elements(<<>>) = {}
<1>1. Elements(Append(s, r)) = Elements(s) \cup {r}
  <2>1. DOMAIN Append(s, r) = 1 .. Len(s) + 1 /\ DOMAIN s = 1 .. Len(s) /\ Len(s) \in Nat
    OBVIOUS
  <2>2. \A i \in 1 .. Len(s) + 1 : Append(s, r)[i] = IF i = Len(s) + 1 THEN r ELSE s[i]
    OBVIOUS
  <2>3. Elements(Append(s, r)) \subseteq Elements(s) \cup {r}
    BY <2>1, <2>2 DEF Elements
  <2>4. Elements(s) \subseteq Elements(Append(s, r))
    BY <2>1, <2>2 DEF Elements
  <2>5. r \in Elements(Append(s, r))
    BY <2>1, <2>2 DEF Elements
  <2>6. QED
    BY <2>3, <2>4, <2>5
<1>2. ASSUME s # <<>> PROVE Elements(s) = Elements(Tail(s)) \cup {Head(s)}
  <2>1. /\ Len(s) \in Nat \ {0} /\ DOMAIN s = 1 .. Len(s)
        /\ DOMAIN Tail(s) = 1 .. Len(s) - 1
        /\ \A i \in 1 .. Len(s) - 1 : Tail(s)[i] = s[i + 1]
        /\ Head(s) = s[1]
    BY <1>2, HeadTailProperties
  <2>2. Elements(s) \subseteq Elements(Tail(s)) \cup {Head(s)}
    <3> SUFFICES ASSUME NEW i \in 1 .. Len(s), i # 1
                 PROVE  s[i] \in Elements(Tail(s))
      BY <2>1 DEF Elements
    <3>1. i - 1 \in 1 .. Len(s) - 1 /\ Tail(s)[i - 1] = s[i]
      BY <2>1
    <3>2. QED
      BY <2>1, <3>1 DEF Elements
  <2>3. Elements(Tail(s)) \cup {Head(s)} \subseteq Elements(s)
    BY <2>1 DEF Elements
  <2>4. QED
    BY <2>2, <2>3
<1>3. Elements(<<>>) = {}
  BY DEF Elements
<1>4. QED
  BY <1>1, <1>2, <1>3

\* The records in the table.
Stored == {records[i].r : i \in DOMAIN records}

\* What a step leaves of the records that are stored, pending, logged or dropped.
Accounted == Stored \cup Elements(pending) \cup logged \cup dropped

\* Only the table says what is stored.
LEMMA StoredSame == UNCHANGED records => Stored' = Stored
BY DEF Stored

\* Every step keeps each record accounted for.
LEMMA LossStep == ChainInv /\ NoSilentLoss /\ [Next]_vars => NoSilentLoss'
<1> SUFFICES ASSUME ChainInv, made = Accounted, [Next]_vars PROVE made' = Accounted'
  BY DEF NoSilentLoss, Accounted, Stored
<1>0. /\ backlog \in Seq(RecordSet) /\ Control
      /\ phase \in {"down", "open", "closing", "waited", "closed"}
      /\ step \in {"none", "flush", "stream", "due", "lost"}
  BY DEF ChainInv, TypeOK
<1> DEFINE Quiet == UNCHANGED <<records, pending, made, logged, dropped>>
<1>q. CASE Quiet
  BY <1>q, StoredSame DEF Accounted
<1>1. CASE Open \/ Start \/ LoadKey \/ KeyLoaded \/ LoaderEnds
  <2>1. Quiet
    BY <1>1 DEF Open, openHead, openCpSeq, Start, LoadKey, KeyLoaded, LoaderEnds,
      tables, life, history, pending
  <2>2. QED
    BY <1>q, <2>1
<1>2. CASE \/ \E ok \in BOOLEAN : Tick(ok) \/ StreamRecord(ok)
           \/ RetryWakes \/ RetryEnds \/ StoreFails \/ FlushDone
           \/ CloseStops \/ CloseWaits \/ CloseLocks
  <2>1. Quiet
    BY <1>0, <1>2 DEF Tick, StreamRecord, RetryWakes, RetryEnds, StoreFails, FlushDone,
      CloseStops, CloseWaits, CloseLocks, tables, life, history, pending, flushReturns,
      Control, Running
  <2>2. QED
    BY <1>q, <2>1
<1>3. ASSUME NEW r \in RecordSet, AppendRecord(r) PROVE made' = Accounted'
  <2>1. pending = backlog /\ pending' = Append(backlog, r)
    BY <1>0, <1>3 DEF AppendRecord, pending, Control, life
  <2>2. UNCHANGED <<records, logged, dropped>> /\ made' = made \cup {r}
    BY <1>3 DEF AppendRecord, tables
  <2>3. Elements(pending') = Elements(pending) \cup {r}
    BY <1>0, <2>1, ElementsAtEnds
  <2>4. QED
    BY <2>2, <2>3, StoredSame DEF Accounted
<1>4. CASE StoreRecord
  <2>1. pending = backlog /\ pending' = Tail(backlog) /\ backlog # <<>>
    BY <1>0, <1>4 DEF StoreRecord, pending, Control, Running, life
  <2>2. Elements(backlog) = Elements(Tail(backlog)) \cup {Head(backlog)}
    <3>1. Head(backlog) \in RecordSet
      BY <1>0, <2>1
    <3>2. QED
      BY <1>0, <2>1, <3>1, ElementsAtEnds
  <2>3. Stored' = Stored \cup {Head(backlog)}
    <3> DEFINE e == newEntry(seq + 1, Head(backlog), head)
    <3>1. records' = Insert(records, seq + 1, e) /\ seq + 1 \notin DOMAIN records
      BY <1>4 DEF StoreRecord
    <3>2. e.r = Head(backlog)
      BY DEF newEntry
    <3> HIDE DEF e
    <3>3. QED
      BY <3>1, <3>2 DEF Stored, Insert
  <2>4. UNCHANGED <<made, logged, dropped>>
    BY <1>4 DEF StoreRecord, history
  <2>5. QED
    BY <2>1, <2>2, <2>3, <2>4 DEF Accounted
<1>5. ASSUME NEW ok \in BOOLEAN, CheckpointIfDue(ok) PROVE made' = Accounted'
  <2>1. Quiet
    BY <1>0, <1>5 DEF CheckpointIfDue, life, history, pending, Control, Running
  <2>2. QED
    BY <1>q, <2>1
<1>6. ASSUME NEW ok \in BOOLEAN, CloseEnds(ok) PROVE made' = Accounted'
  <2>1. pending = backlog /\ pending' = <<>> /\ logged' = logged \cup Elements(backlog)
    BY <1>0, <1>6 DEF CloseEnds, pending, Control, Running
  <2>2. UNCHANGED <<records, made, dropped>>
    BY <1>6 DEF CloseEnds
  <2>3. QED
    BY <2>1, <2>2, StoredSame DEF Accounted, Elements
<1>7. CASE Crash
  <2>1. pending' = <<>> /\ dropped' = dropped \cup Elements(pending)
    BY <1>7 DEF Crash, pending
  <2>2. UNCHANGED <<records, made, logged>>
    BY <1>7 DEF Crash, tables
  <2>3. QED
    BY <2>1, <2>2, StoredSame DEF Accounted, Elements
<1>8. CASE UNCHANGED vars
  <2>1. Quiet
    BY <1>8 DEF vars, tables, life, history, pending
  <2>2. QED
    BY <1>q, <2>1
<1>9. QED
  BY <1>1, <1>2, <1>3, <1>4, <1>5, <1>6, <1>7, <1>8 DEF Next

\* A record given to Append is stored, waiting, logged as lost or was in memory at a
\* crash: nothing between Append, flush, retryStore and Close forgets one.
THEOREM NoRecordVanishes == Spec => []NoSilentLoss
<1>1. Init => NoSilentLoss
  BY DEF Init, NoSilentLoss, NoRows, pending, Elements
<1>2. QED
  BY <1>1, LossStep, ChainAlways, PTL DEF Spec

-----------------------------------------------------------------------------
(***************************************************************************)
(* What Ready means.                                                       *)
(***************************************************************************)

\* The key was in memory before the atomic said so, and Close takes the atomic back
\* before it erases the key.  Without a backlog being retried, only the record of the
\* Append that holds the lock is unstored.
GateInv ==
  /\ loader \in {"loaded", "ticking"} => key
  /\ keyLoaded => key /\ phase \in {"open", "closing"}
  /\ ~backlogged => \/ backlog = <<>>
                    \/ mu = "append" /\ Len(backlog) = 1 /\ step \in {"flush", "stream", "due"}

\* Every step keeps the gate honest.
LEMMA GateStep == ChainInv /\ GateInv /\ [Next]_vars => GateInv'
<1> SUFFICES ASSUME ChainInv, GateInv, [Next]_vars PROVE GateInv'
  OBVIOUS
<1>0. TypeOK /\ Control
  BY DEF ChainInv
<1>t. /\ backlog \in Seq(RecordSet)
      /\ phase \in {"down", "open", "closing", "waited", "closed"}
      /\ loader \in {"off", "loading", "loaded", "ticking", "ended"}
  BY <1>0 DEF TypeOK
<1> USE DEF GateInv, Control, Running, ctxDone, atomics, threads, life
<1>1. CASE Open \/ Crash
  BY <1>1 DEF Open, openHead, openCpSeq, Crash
<1>2. CASE Start \/ LoadKey \/ KeyLoaded \/ LoaderEnds
  BY <1>0, <1>2 DEF Start, LoadKey, KeyLoaded, LoaderEnds
<1>3. CASE \E ok \in BOOLEAN : Tick(ok)
  BY <1>0, <1>3 DEF Tick
<1>4. ASSUME NEW r \in RecordSet, AppendRecord(r) PROVE GateInv'
  <2>1. ~backlogged => Len(backlog') = 1
    <3>1. ~backlogged => backlog = <<>>
      BY <1>0, <1>4 DEF AppendRecord
    <3>2. QED
      BY <1>t, <1>4, <3>1 DEF AppendRecord
  <2>2. QED
    BY <1>4, <2>1 DEF AppendRecord
<1>5. CASE RetryWakes \/ RetryEnds
  BY <1>0, <1>5 DEF RetryWakes, RetryEnds
<1>6. CASE StoreRecord
  BY <1>0, <1>6 DEF StoreRecord
<1>7. CASE StoreFails
  BY <1>0, <1>7 DEF StoreFails, flushReturns
<1>8. CASE FlushDone
  BY <1>0, <1>8 DEF FlushDone, flushReturns
<1>9. CASE \E ok \in BOOLEAN : StreamRecord(ok)
  BY <1>0, <1>9 DEF StreamRecord
<1>10. ASSUME NEW ok \in BOOLEAN, CheckpointIfDue(ok) PROVE GateInv'
  <2>1. ~backlogged => backlog' = <<>>
    BY <1>0, <1>t, <1>10 DEF CheckpointIfDue
  <2>2. QED
    BY <1>10, <2>1 DEF CheckpointIfDue
<1>11. CASE CloseStops
  BY <1>0, <1>11 DEF CloseStops
<1>12. CASE CloseWaits
  BY <1>0, <1>12 DEF CloseWaits
<1>13. CASE CloseLocks
  BY <1>0, <1>13 DEF CloseLocks
<1>14. CASE \E ok \in BOOLEAN : CloseEnds(ok)
  BY <1>0, <1>14 DEF CloseEnds
<1>15. CASE UNCHANGED vars
  BY <1>15 DEF vars
<1>16. QED
  BY <1>1, <1>2, <1>3, <1>4, <1>5, <1>6, <1>7, <1>8, <1>9, <1>10, <1>11, <1>12,
     <1>13, <1>14, <1>15 DEF Next

\* When Ready lets a Delivery through, the key is there, the log is not closed, and
\* every record but the one being appended at that moment is stored.
THEOREM ReadyIsHonest == Spec => []ReadyMeansStored
<1>1. Init => GateInv
  BY DEF Init, GateInv
<1>2. ChainInv /\ GateInv => ReadyMeansStored
  <2> SUFFICES ASSUME ChainInv, GateInv, Ready PROVE
        /\ key /\ phase \in {"open", "closing"}
        /\ pending = <<>> \/ (mu = "append" /\ Len(backlog) = 1)
    BY DEF ReadyMeansStored
  <2>1. backlog \in Seq(RecordSet) /\ Control
    BY DEF ChainInv, TypeOK
  <2>2. backlog = <<>> => step \notin {"stream", "due"}
    BY <2>1 DEF Control
  <2>3. QED
    BY <2>1, <2>2 DEF GateInv, Ready, pending
<1>3. QED
  BY <1>1, <1>2, GateStep, ChainAlways, PTL DEF Spec

-----------------------------------------------------------------------------
(***************************************************************************)
(* The audit log implements AuditTrail.                                    *)
(***************************************************************************)

\* The trail that AuditTrail is instantiated with.
TrailOf == [i \in 1 .. LastSeq(records) |-> records[i].r]

\* A record is streamed after it was stored, once.
StreamInv ==
  /\ streamed <= LastSeq(records)
  /\ step = "stream" => streamed < LastSeq(records)

\* What the tables and the memory say of the trail.
TrailShape ==
  /\ LastSeq(records) \in Nat /\ DOMAIN records = 1 .. LastSeq(records)
  /\ LastSeq(checkpoints) \in Nat
  /\ TrailOf \in Seq(RecordSet) /\ Len(TrailOf) = LastSeq(records)
  /\ Running => seq = LastSeq(records) /\ cpSeq = LastSeq(checkpoints)

\* The trail is a sequence as long as the chain.
LEMMA TrailFacts == ChainInv => TrailShape
<1> SUFFICES ASSUME ChainInv PROVE TrailShape
  OBVIOUS
<1>1. LastSeq(records) \in Nat /\ LastSeq(checkpoints) \in Nat
  BY LastSeqIsLast DEF ChainInv, TablesHaveLast
<1>2. DOMAIN records = 1 .. LastSeq(records)
  BY DEF ChainInv, ChainIntact
<1>3. \A i \in 1 .. LastSeq(records) : records[i].r \in RecordSet
  BY <1>2 DEF ChainInv, TypeOK
<1>4. TrailOf \in Seq(RecordSet) /\ Len(TrailOf) = LastSeq(records)
  <2> DEFINE n == LastSeq(records)
  <2>1. TrailOf \in [1 .. n -> RecordSet]
    BY <1>3 DEF TrailOf
  <2> HIDE DEF n
  <2>2. QED
    BY <1>1, <2>1, SeqDef DEF n
<1>5. Running => seq = LastSeq(records) /\ cpSeq = LastSeq(checkpoints)
  BY DEF ChainInv, MemoryFollowsTables
<1>6. QED
  BY <1>1, <1>2, <1>4, <1>5 DEF TrailShape

\* StoreRecord appends the oldest pending record to the trail.
LEMMA TrailGrows ==
  ASSUME ChainInv, ChainInv', StoreRecord
  PROVE  TrailOf' = Append(TrailOf, Head(backlog)) /\ LastSeq(records') = LastSeq(records) + 1
<1> DEFINE n == LastSeq(records)
           e == newEntry(n + 1, Head(backlog), head)
<1>1. /\ n \in Nat /\ DOMAIN records = 1 .. n /\ TrailOf \in Seq(RecordSet) /\ Len(TrailOf) = n
  BY TrailFacts DEF TrailShape
<1>2. seq = n
  BY TrailFacts DEF TrailShape, ChainInv, Control, StoreRecord
<1>3. /\ LastSeq(records') \in Nat /\ DOMAIN records' = 1 .. LastSeq(records')
      /\ TrailOf' \in Seq(RecordSet) /\ Len(TrailOf') = LastSeq(records')
  <2>1. TrailShape'
    BY TrailFacts, PTL
  <2>2. QED
    BY <2>1 DEF TrailShape
<1>4. LastSeq(records') = n + 1
  <2>1. seq' = n + 1
    BY <1>2 DEF StoreRecord
  <2>2. Running'
    BY DEF ChainInv, Control, StoreRecord
  <2>3. QED
    BY <2>1, <2>2 DEF ChainInv, MemoryFollowsTables
<1>5. records' = Insert(records, n + 1, e) /\ e.r = Head(backlog)
  BY <1>2 DEF StoreRecord, newEntry
<1> HIDE DEF e, n
<1>6. \A i \in 1 .. n + 1 : records'[i].r = IF i = n + 1 THEN Head(backlog) ELSE records[i].r
  BY <1>1, <1>5 DEF Insert
<1>7. Head(backlog) \in RecordSet
  BY DEF ChainInv, TypeOK, StoreRecord
<1>8. \A i \in 1 .. n + 1 : TrailOf'[i] = Append(TrailOf, Head(backlog))[i]
  <2> SUFFICES ASSUME NEW i \in 1 .. n + 1
               PROVE  TrailOf'[i] = Append(TrailOf, Head(backlog))[i]
    OBVIOUS
  <2>1. TrailOf'[i] = records'[i].r
    BY <1>4 DEF TrailOf
  <2>2. i # n + 1 => TrailOf[i] = records[i].r
    BY <1>1 DEF TrailOf, n
  <2>3. Append(TrailOf, Head(backlog))[i] = IF i = n + 1 THEN Head(backlog) ELSE TrailOf[i]
    BY <1>1, <1>7
  <2>4. QED
    BY <1>6, <2>1, <2>2, <2>3
<1>9. Append(TrailOf, Head(backlog)) \in Seq(RecordSet) /\ Len(Append(TrailOf, Head(backlog))) = n + 1
  BY <1>1, <1>7
<1>10. TrailOf' = Append(TrailOf, Head(backlog))
  BY <1>3, <1>4, <1>8, <1>9, SeqEqual
<1>11. QED
  BY <1>4, <1>10 DEF n

\* A checkpoint signs the whole trail, or changes nothing of it.
LEMMA CheckpointSigns ==
  ASSUME ChainInv, ChainInv', Running, NEW ok \in BOOLEAN, checkpoint(ok), UNCHANGED records
  PROVE  LastSeq(checkpoints') \in {LastSeq(checkpoints), Len(TrailOf)}
<1>1. seq = Len(TrailOf) /\ cpSeq = LastSeq(checkpoints) /\ seq \in Nat /\ cpSeq \in Nat
  BY TrailFacts DEF TrailShape
<1>2. CASE UNCHANGED <<checkpoints, cpSeq>>
  BY <1>2
<1>3. CASE key /\ seq > cpSeq /\ ok
  <2> DEFINE row == [prevSeq |-> cpSeq, head |-> head, sig |-> message(seq, cpSeq, head)]
  <2>1. checkpoints' = Insert(checkpoints, seq, row)
    BY <1>3 DEF checkpoint
  <2> HIDE DEF row
  <2>2. IsLast(checkpoints, cpSeq)
    BY <1>1, LastSeqIsLast DEF ChainInv, TablesHaveLast
  <2>3. IsLast(checkpoints', seq)
    BY <1>1, <1>3, <2>1, <2>2, InsertLast
  <2>4. QED
    BY <1>1, <2>3, LastSeqIsLast
<1>4. QED
  BY <1>2, <1>3 DEF checkpoint

\* Records are streamed in order and at most once.
LEMMA StreamStep == ChainInv /\ ChainInv' /\ StreamInv /\ [Next]_vars => StreamInv'
<1> SUFFICES ASSUME ChainInv, ChainInv', StreamInv, [Next]_vars PROVE StreamInv'
  OBVIOUS
<1>0. /\ LastSeq(records) \in Nat /\ streamed \in Nat /\ Control
      /\ Running => seq = LastSeq(records)
  BY TrailFacts DEF TrailShape, ChainInv, TypeOK
<1>1. CASE StoreRecord
  BY <1>0, <1>1, TrailGrows DEF StoreRecord, StreamInv
<1>2. CASE \E ok \in BOOLEAN : StreamRecord(ok)
  BY <1>0, <1>2 DEF StreamRecord, StreamInv, Control, tables
<1>3. CASE UNCHANGED <<records, streamed>> /\ step' # "stream"
  BY <1>3 DEF StreamInv
<1>4. CASE UNCHANGED <<records, streamed, step>>
  BY <1>4 DEF StreamInv
<1>5. CASE Open \/ Crash \/ \E r \in RecordSet : AppendRecord(r)
  BY <1>3, <1>5 DEF Open, openHead, openCpSeq, Crash, AppendRecord, tables
<1>6. CASE Start \/ LoadKey \/ KeyLoaded \/ LoaderEnds \/ \E ok \in BOOLEAN : Tick(ok)
  BY <1>4, <1>6 DEF Start, LoadKey, KeyLoaded, LoaderEnds, Tick, tables
<1>7. CASE RetryWakes \/ StoreFails \/ FlushDone \/ CloseLocks
  BY <1>3, <1>7 DEF RetryWakes, StoreFails, FlushDone, CloseLocks, flushReturns, tables
<1>8. CASE RetryEnds \/ CloseStops \/ CloseWaits
  BY <1>4, <1>8 DEF RetryEnds, CloseStops, CloseWaits, tables
<1>9. CASE \E ok \in BOOLEAN : CheckpointIfDue(ok) \/ CloseEnds(ok)
  BY <1>3, <1>9 DEF CheckpointIfDue, CloseEnds
<1>10. CASE UNCHANGED vars
  BY <1>4, <1>10 DEF vars, tables
<1>11. QED
  BY <1>1, <1>2, <1>5, <1>6, <1>7, <1>8, <1>9, <1>10 DEF Next

\* Every step of the log is a step of the trail, or leaves it as it is.
LEMMA TrailStep ==
  ChainInv /\ ChainInv' /\ StreamInv /\ [Next]_vars => [Trail!Next]_(Trail!vars)
<1> SUFFICES ASSUME ChainInv, ChainInv', StreamInv, [Next]_vars
             PROVE  Trail!Next \/ UNCHANGED Trail!vars
  OBVIOUS
<1> DEFINE signed == LastSeq(checkpoints)
           Same == UNCHANGED <<TrailOf, pending, signed, streamed, Running>>
<1>0. /\ backlog \in Seq(RecordSet) /\ Control
      /\ phase \in {"down", "open", "closing", "waited", "closed"}
      /\ step \in {"none", "flush", "stream", "due", "lost"}
  BY DEF ChainInv, TypeOK
<1>f. /\ LastSeq(records) \in Nat /\ Len(TrailOf) = LastSeq(records)
      /\ Running => seq = LastSeq(records)
  BY TrailFacts DEF TrailShape
<1>r. UNCHANGED records => UNCHANGED TrailOf
  BY DEF TrailOf
<1>s. Same => UNCHANGED Trail!vars
  BY DEF Trail!vars, TrailOf
<1>1. CASE Open
  <2>1. UNCHANGED <<TrailOf, pending, signed, streamed>> /\ ~Running /\ Running'
    BY <1>1, <1>r DEF Open, openHead, openCpSeq, tables, pending, Running
  <2>2. Trail!Begin
    BY <2>1 DEF Trail!Begin, TrailOf
  <2>3. QED
    BY <2>2 DEF Trail!Next
<1>2. ASSUME NEW r \in RecordSet, AppendRecord(r) PROVE Trail!Next
  <2>1. pending = backlog /\ pending' = Append(backlog, r)
    BY <1>0, <1>2 DEF AppendRecord, pending, Control, life
  <2>2. UNCHANGED <<TrailOf, signed, streamed, Running>> /\ Running
    BY <1>2, <1>r DEF AppendRecord, tables, life, Running
  <2>3. Trail!Take(r)
    BY <2>1, <2>2 DEF Trail!Take, TrailOf
  <2>4. QED
    BY <2>3 DEF Trail!Next
<1>3. CASE StoreRecord
  <2>1. pending = backlog /\ pending' = Tail(backlog) /\ backlog # <<>>
    BY <1>0, <1>3 DEF StoreRecord, pending, Control, Running, life
  <2>2. UNCHANGED <<signed, streamed, Running>>
    BY <1>3 DEF StoreRecord, life, Running
  <2>3. TrailOf' = Append(TrailOf, Head(backlog))
    BY <1>3, TrailGrows
  <2>4. Trail!Keep
    BY <2>1, <2>2, <2>3 DEF Trail!Keep, TrailOf
  <2>5. QED
    BY <2>4 DEF Trail!Next
<1>4. ASSUME NEW ok \in BOOLEAN, StreamRecord(ok) PROVE Trail!Next \/ UNCHANGED Trail!vars
  <2>1. UNCHANGED <<TrailOf, pending, signed, Running>>
    BY <1>0, <1>4, <1>r DEF StreamRecord, tables, life, pending, Running
  <2>2. Running
    BY <1>0, <1>4 DEF StreamRecord, Control
  <2>3. CASE ok
    <3>1. streamed' = Len(TrailOf) /\ streamed < Len(TrailOf)
      BY <1>f, <1>4, <2>2, <2>3 DEF StreamRecord, StreamInv
    <3>2. Trail!Stream
      BY <2>1, <3>1 DEF Trail!Stream, TrailOf
    <3>3. QED
      BY <3>2 DEF Trail!Next
  <2>4. CASE ~ok
    <3>1. Same
      BY <1>4, <2>1, <2>4 DEF StreamRecord
    <3>2. QED
      BY <1>s, <3>1
  <2>5. QED
    BY <2>3, <2>4
<1>5. ASSUME NEW ok \in BOOLEAN, Tick(ok) \/ CheckpointIfDue(ok)
      PROVE  Trail!Next \/ UNCHANGED Trail!vars
  <2>1. UNCHANGED <<records, pending, streamed, Running>> /\ Running
    BY <1>0, <1>5 DEF Tick, CheckpointIfDue, life, history, pending, Control, Running
  <2>2. signed' \in {signed, Len(TrailOf)}
    <3>1. checkpoint(ok) \/ UNCHANGED <<checkpoints, cpSeq>>
      BY <1>5 DEF Tick, CheckpointIfDue
    <3>2. QED
      BY <2>1, <3>1, CheckpointSigns
  <2>3. CASE signed' = signed
    <3>1. Same
      BY <1>r, <2>1, <2>3
    <3>2. QED
      BY <1>s, <3>1
  <2>4. CASE signed' = Len(TrailOf)
    <3>1. Trail!Sign
      BY <1>r, <2>1, <2>4 DEF Trail!Sign, TrailOf
    <3>2. QED
      BY <3>1 DEF Trail!Next
  <2>5. QED
    BY <2>2, <2>3, <2>4
<1>6. ASSUME NEW ok \in BOOLEAN, CloseEnds(ok) PROVE Trail!Next
  <2>1. UNCHANGED <<records, streamed>> /\ Running /\ Running' = FALSE /\ pending' = <<>>
    BY <1>0, <1>6 DEF CloseEnds, pending, Control, Running
  <2>2. signed' \in {signed, Len(TrailOf)}
    BY <1>6, <2>1, CheckpointSigns DEF CloseEnds
  <2>3. Trail!End
    BY <1>r, <2>1, <2>2 DEF Trail!End, TrailOf
  <2>4. QED
    BY <2>3 DEF Trail!Next
<1>7. CASE Crash
  <2>1. UNCHANGED <<records, signed, streamed>> /\ Running /\ ~Running' /\ pending' = <<>>
    BY <1>7 DEF Crash, pending, Running, tables
  <2>2. Trail!End
    BY <1>r, <2>1 DEF Trail!End, TrailOf
  <2>3. QED
    BY <2>2 DEF Trail!Next
<1>8. CASE Start \/ LoadKey \/ KeyLoaded \/ LoaderEnds
  <2>1. Same
    BY <1>8, <1>r DEF Start, LoadKey, KeyLoaded, LoaderEnds, tables, life, pending, Running
  <2>2. QED
    BY <1>s, <2>1
<1>9. CASE \/ RetryWakes \/ RetryEnds \/ StoreFails \/ FlushDone
           \/ CloseStops \/ CloseWaits \/ CloseLocks
  <2>1. Same
    BY <1>0, <1>9, <1>r DEF RetryWakes, RetryEnds, StoreFails, FlushDone, CloseStops,
      CloseWaits, CloseLocks, tables, life, pending, flushReturns, Control, Running
  <2>2. QED
    BY <1>s, <2>1
<1>10. CASE UNCHANGED vars
  <2>1. Same
    BY <1>10, <1>r DEF vars, tables, life, pending, Running
  <2>2. QED
    BY <1>s, <2>1
<1>11. QED
  BY <1>1, <1>2, <1>3, <1>4, <1>5, <1>6, <1>7, <1>8, <1>9, <1>10 DEF Next

\* The audit log implements the trail its callers are promised, with tables, locks,
\* retries, a key that comes late, shutdown and crashes behind it.
THEOREM ImplementsTrail == Spec => TrailSpec
<1>1. Init => Trail!Init /\ StreamInv
  <2> SUFFICES ASSUME Init PROVE Trail!Init /\ StreamInv
    OBVIOUS
  <2>1. LastSeq(records) = 0 /\ LastSeq(checkpoints) = 0
    BY DEF Init, NoRows, LastSeq
  <2>2. [i \in 1 .. LastSeq(records) |-> records[i].r] = <<>>
    BY <2>1
  <2>3. Trail!Init
    BY <2>1, <2>2 DEF Init, Trail!Init, pending, Running
  <2>4. QED
    BY <2>1, <2>3 DEF Init, StreamInv
<1>2. QED
  BY <1>1, StreamStep, TrailStep, ChainAlways, PTL DEF Spec, TrailSpec, Trail!Spec

-----------------------------------------------------------------------------
(***************************************************************************)
(* Verify, beside the running log and a file that others edit              *)
(* (AuditVerify).  First, sets of numbers and pages of them.               *)
(***************************************************************************)
\* Every set of numbers that is not empty has a least member.
LEMMA LeastMember ==
  ASSUME NEW T, T \subseteq Nat, T # {}
  PROVE  \E x \in T : \A y \in T : x <= y
<1> DEFINE R == {ss \in Nat \X Nat : ss[1] < ss[2]}
<1>1. IsWellFoundedOn(R, Nat)
  BY NatLessThanWellFounded DEF OpToRel
<1>2. \A x, y \in Nat : y < x => <<y, x>> \in R
  OBVIOUS
<1> HIDE DEF R
<1>3. PICK x \in T : \A y \in T : ~(<<y, x>> \in R)
  BY <1>1, WFMin
<1>4. ASSUME NEW y \in T PROVE x <= y
  <2>1. x \in Nat /\ y \in Nat /\ ~(y < x)
    BY <1>2, <1>3
  <2> QED
    BY <2>1
<1> QED
  BY <1>4

\* And a greatest, when it is bounded.
LEMMA GreatestMember ==
  ASSUME NEW T, T \subseteq Nat, T # {}, NEW b \in Nat, \A x \in T : x <= b
  PROVE  \E x \in T : \A y \in T : y <= x
<1> DEFINE U == {n \in Nat : \A x \in T : x <= n}
<1>1. PICK n \in U : \A m \in U : n <= m
  <2>1. U \subseteq Nat
    OBVIOUS
  <2>2. b \in U
    OBVIOUS
  <2> HIDE DEF U
  <2> QED
    BY <2>1, <2>2, LeastMember
<1>2. n \in T
  <2> SUFFICES ASSUME n \notin T PROVE FALSE
    OBVIOUS
  <2>1. n # 0
    <3>1. PICK t \in T : TRUE
      OBVIOUS
    <3>2. t \in Nat /\ t <= n /\ t # n
      BY <1>1
    <3> QED
      BY <3>2
  <2>2. n - 1 \in U
    BY <1>1, <2>1
  <2> QED
    BY <1>1, <2>2
<1> QED
  BY <1>1, <1>2

\* Max of a set of numbers that has a bound (before, VerifyCheckpoints).
LEMMA MaxIs ==
  ASSUME NEW T, T \subseteq Nat, NEW m \in T, \A y \in T : y <= m
  PROVE  Max(T) = m
<1>1. \A x \in T : (\A y \in T : x >= y) => x = m
  OBVIOUS
<1>2. \A y \in T : m >= y
  OBVIOUS
<1> QED
  BY <1>1, <1>2 DEF Max

\* Bounded sets of numbers are finite.
LEMMA BoundedIsFinite ==
  ASSUME NEW S, NEW b \in Nat, S \subseteq 0 .. b
  PROVE  IsFiniteSet(S) /\ Cardinality(S) \in Nat
<1>1. IsFiniteSet(0 .. b)
  BY FS_Interval
<1> QED
  BY <1>1, FS_Subset, FS_CardinalityType

\* A set with no gap above k is an interval, as long as it has members.
LEMMA NoGap ==
  ASSUME NEW k \in Nat, NEW b \in Nat, NEW I, I \subseteq 0 .. b,
         \A n \in I : n > k /\ \A i \in k + 1 .. n : i \in I
  PROVE  /\ Cardinality(I) \in Nat
         /\ I = k + 1 .. k + Cardinality(I)
<1>0. I \subseteq Nat /\ \A i \in I : i <= b
  OBVIOUS
<1>1. CASE I = {}
  BY <1>1, FS_EmptySet
<1>2. CASE I # {}
  <2>1. PICK m \in I : \A i \in I : i <= m
    BY <1>0, <1>2, GreatestMember
  <2>2. m \in Nat /\ m > k
    BY <1>0, <2>1
  <2>3. I = k + 1 .. m
    <3>1. \A i \in I : i \in Nat /\ i > k /\ i <= m
      BY <1>0, <2>1
    <3>2. \A i \in k + 1 .. m : i \in I
      BY <2>1
    <3>3. \A i \in I : i \in k + 1 .. m
      BY <2>2, <3>1
    <3> QED
      BY <3>2, <3>3
  <2>4. Cardinality(k + 1 .. m) = m - k
    BY <2>2, FS_Interval
  <2> QED
    BY <2>2, <2>3, <2>4
<1> QED
  BY <1>1, <1>2

\* A page of a query has no gap, at most verifyPage rows, and all of them when it is not full
\* (ORDER BY seq LIMIT verifyPage).
LEMMA PageIs ==
  ASSUME NEW b \in Nat, NEW S, S \subseteq 0 .. b
  PROVE  /\ Page(S) \subseteq S
         /\ \A n \in Page(S) : \A m \in S : m < n => m \in Page(S)
         /\ Cardinality(Page(S)) \in Nat /\ Cardinality(Page(S)) <= verifyPage
         /\ Cardinality(Page(S)) # verifyPage => Page(S) = S
<1> DEFINE Below(n) == {m \in S : m < n}
<1>0. S \subseteq Nat /\ \A x \in S : x <= b
  OBVIOUS
<1>1. \A n \in S : IsFiniteSet(Below(n)) /\ Cardinality(Below(n)) \in Nat
  BY BoundedIsFinite
<1>2. Page(S) = {n \in S : Cardinality(Below(n)) < verifyPage}
  BY DEF Page
<1>3. \A n \in Page(S) : \A m \in S : m < n => m \in Page(S)
  <2> SUFFICES ASSUME NEW n \in Page(S), NEW m \in S, m < n PROVE m \in Page(S)
    OBVIOUS
  <2>0. n \in S /\ n \in Nat /\ m \in Nat /\ Cardinality(Below(n)) < verifyPage
    BY <1>0, <1>2
  <2>1. Below(m) \subseteq Below(n)
    <3>1. \A x \in S : x < m => x < n
      BY <1>0, <2>0
    <3> QED
      BY <3>1
  <2>2. Cardinality(Below(m)) <= Cardinality(Below(n))
    BY <1>1, <2>0, <2>1, FS_Subset
  <2> HIDE DEF Below
  <2> QED
    BY <1>1, <1>2, <2>0, <2>2, VerifyAssumption
<1>4. Page(S) \subseteq S
  BY <1>2
<1>5. IsFiniteSet(Page(S)) /\ Cardinality(Page(S)) \in Nat
  BY <1>4, BoundedIsFinite
<1>6. Cardinality(Page(S)) <= verifyPage
  <2>1. CASE Page(S) = {}
    BY <2>1, FS_EmptySet, VerifyAssumption
  <2>2. CASE Page(S) # {}
    <3>1. PICK n \in Page(S) : \A m \in Page(S) : m <= n
      BY <1>0, <1>4, <2>2, GreatestMember
    <3>0. ASSUME NEW m \in Page(S) PROVE m \in S /\ (m < n \/ m = n)
      <4>1. m \in S /\ n \in S /\ m <= n
        BY <1>4, <3>1
      <4>2. m \in Nat /\ n \in Nat
        BY <1>0, <4>1
      <4> QED
        BY <4>1, <4>2
    <3>2. Page(S) \subseteq Below(n) \cup {n}
      BY <3>0
    <3>3. n \in S /\ n \notin Below(n) /\ Cardinality(Below(n)) < verifyPage
      <4>1. n \in S /\ n \in Nat /\ Cardinality(Below(n)) < verifyPage
        BY <1>0, <1>2, <3>1
      <4> QED
        BY <4>1
    <3> HIDE DEF Below
    <3>4. IsFiniteSet(Below(n) \cup {n}) /\ Cardinality(Below(n) \cup {n}) = Cardinality(Below(n)) + 1
      BY <1>1, <3>3, FS_AddElement
    <3>5. Cardinality(Page(S)) <= Cardinality(Below(n) \cup {n})
      BY <3>2, <3>4, FS_Subset
    <3> QED
      BY <1>1, <1>5, <3>3, <3>4, <3>5, VerifyAssumption
  <2> QED
    BY <2>1, <2>2
<1>7. ASSUME Cardinality(Page(S)) # verifyPage, Page(S) # S PROVE FALSE
  <2>1. PICK n \in S \ Page(S) : \A m \in S \ Page(S) : n <= m
    BY <1>0, <1>4, <1>7, LeastMember
  <2>2. Below(n) \subseteq Page(S)
    <3>1. \A m \in S : m < n => m \in Page(S)
      BY <1>0, <2>1
    <3> QED
      BY <3>1
  <2>3. Cardinality(Below(n)) <= Cardinality(Page(S))
    BY <1>5, <2>2, FS_Subset
  <2> HIDE DEF Below
  <2>4. Cardinality(Below(n)) < verifyPage
    BY <1>1, <1>5, <1>6, <1>7, <2>1, <2>3, VerifyAssumption
  <2> QED
    BY <1>2, <2>1, <2>4
<1> QED
  BY <1>3, <1>4, <1>5, <1>6, <1>7

-----------------------------------------------------------------------------
(***************************************************************************)
(* The inductive invariant of VerifySpec.                                  *)
(***************************************************************************)
\* The rows of a table are records of its columns.
Shape(R, C) ==
  /\ R = [i \in DOMAIN R |-> R[i]] /\ C = [c \in DOMAIN C |-> C[c]]
  /\ \A i \in DOMAIN R : R[i] = [r |-> R[i].r, prev |-> R[i].prev, hash |-> R[i].hash]
  /\ \A c \in DOMAIN C : C[c] = [prevSeq |-> C[c].prevSeq, head |-> C[c].head, sig |-> C[c].sig]

\* The rows of R up to n are a chain that ends with h.
Chained(R, n, h) ==
  /\ \A i \in 1 .. n : /\ i \in DOMAIN R
                       /\ R[i].hash = EntryHash(i, R[i].r, R[i].prev)
                       /\ R[i].prev = IF i = 1 THEN genesis ELSE R[i - 1].hash
  /\ h = IF n = 0 THEN genesis ELSE R[n].hash

\* The checkpoints of C up to n cover rows of R, each after the one before.
Covered(C, R, n) ==
  \A c \in DOMAIN C : c <= n =>
    /\ c \in DOMAIN R /\ C[c].head = R[c].hash
    /\ C[c].sig = message(c, C[c].prevSeq, C[c].head)
    /\ C[c].prevSeq < c /\ (C[c].prevSeq = 0 \/ C[c].prevSeq \in DOMAIN C)
    /\ \A d \in DOMAIN C : d <= C[c].prevSeq \/ d >= c

\* The tables have their shape, and so have the ones this process would have.
ShapeInv ==
  /\ TypeOK /\ Control /\ TablesHaveLast
  /\ Shape(records, checkpoints)
  /\ wrote = [records |-> wrote.records, checkpoints |-> wrote.checkpoints]
  /\ Shape(wrote.records, wrote.checkpoints)

\* What this process found and wrote ends where it says, and continues what it found.
WroteInv ==
  phase # "down" =>
    /\ IsLast(wrote.records, seq) /\ IsLast(wrote.checkpoints, cpSeq)
    /\ sound => Chained(wrote.records, seq, head) /\ Covered(wrote.checkpoints, wrote.records, cpSeq)

\* Nobody else can sign: every checkpoint there is has a signature this process found or made.
SignedInv ==
  \A c \in DOMAIN checkpoints :
    /\ c \in DOMAIN wrote.checkpoints
    /\ checkpoints[c].sig = wrote.checkpoints[c].sig
    /\ checkpoints[c].prevSeq = wrote.checkpoints[c].prevSeq

\* Where Verify can stand.
WalkControl ==
  /\ at \in {"idle", "records", "checkpoints", "unlocked", "end", "returned"}
  /\ edits \in Nat /\ edited \in BOOLEAN /\ breakSeq \in Nat
  /\ w = [records |-> w.records, prev |-> w.prev, cpSeq |-> w.cpSeq, checkpoints |-> w.checkpoints]
  /\ w.records \in Nat /\ w.cpSeq \in Nat
  /\ Locked => at \in {"records", "checkpoints", "end"}
  /\ at = "end" => Locked
  /\ at \notin {"idle", "returned"} => phase # "down"
  /\ at \notin {"checkpoints", "returned"} => breakSeq = 0
  /\ verdict = "intact" => at = "returned"

Underway == at \notin {"idle", "returned"} /\ ~edited

\* What a walk has found intact stays intact while only the log itself writes.  Under the
\* lock a walk that has passed a table has seen all of it.
WalkInv ==
  Underway =>
    /\ Chained(records, w.records, w.prev)
    /\ w.cpSeq = 0 \/ w.cpSeq \in DOMAIN checkpoints
    /\ w.cpSeq <= w.records
    /\ Covered(checkpoints, records, w.cpSeq)
    /\ Locked /\ at \in {"checkpoints", "end"} /\ breakSeq = 0 =>
         \A i \in DOMAIN records : i <= w.records
    /\ at = "end" => \A c \in DOMAIN checkpoints : c <= w.records => c <= w.cpSeq

VerifyInv == ShapeInv /\ WroteInv /\ SignedInv /\ WalkControl /\ WalkInv

-----------------------------------------------------------------------------
(***************************************************************************)
(* The steps of the log as Verify sees them.                               *)
(***************************************************************************)
OpenMove ==
  /\ UNCHANGED tables /\ starts' = starts + 1 /\ starts' # starts
  /\ seq' = LastSeq(records) /\ head' = HashAt(LastSeq(records))
  /\ cpSeq' = LastSeq(checkpoints)
  /\ mu' = "free" /\ phase' = "open"

CrashMove == UNCHANGED tables /\ starts' = starts /\ mu' = "free" /\ phase' = "down"

\* The process goes on, and no step but Verify's own changes that it holds the lock.
GoesOn ==
  /\ starts' = starts /\ phase # "down" /\ phase' # "down"
  /\ mu = "verify" <=> mu' = "verify"

StoreMove(r) ==
  /\ GoesOn /\ mu # "verify" /\ seq + 1 \notin DOMAIN records
  /\ records' = Insert(records, seq + 1, newEntry(seq + 1, r, head))
  /\ head' = EntryHash(seq + 1, r, head)
  /\ seq' = seq + 1 /\ UNCHANGED <<checkpoints, cpSeq>>

newCheckpoint == [prevSeq |-> cpSeq, head |-> head, sig |-> message(seq, cpSeq, head)]

SignMove ==
  /\ GoesOn /\ mu # "verify" /\ seq > cpSeq /\ seq \notin DOMAIN checkpoints
  /\ checkpoints' = Insert(checkpoints, seq, newCheckpoint)
  /\ cpSeq' = seq /\ UNCHANGED <<records, seq, head>>

QuietMove == GoesOn /\ UNCHANGED tables /\ UNCHANGED chain

\* Every step of the log is one of these.
LEMMA LogMoves ==
  ASSUME TypeOK, Control, Next
  PROVE  \/ OpenMove \/ CrashMove \/ SignMove \/ QuietMove
         \/ \E r \in RecordSet : StoreMove(r)
<1>0. /\ backlog \in Seq(RecordSet) /\ starts \in Nat
      /\ mu \in {"free", "append", "retry", "close", "verify"}
  BY DEF TypeOK
<1> USE DEF Control, Running, GoesOn
<1>1. CASE Open
  <2>1. starts' # starts
    BY <1>0, <1>1 DEF Open
  <2> QED
    BY <1>1, <2>1 DEF Open, openHead, openCpSeq, OpenMove
<1>2. CASE Crash
  BY <1>2 DEF Crash, CrashMove
<1>3. CASE StoreRecord
  <2>1. Head(backlog) \in RecordSet
    BY <1>0, <1>3 DEF StoreRecord
  <2>2. GoesOn /\ mu # "verify"
    BY <1>3 DEF StoreRecord, life
  <2> QED
    BY <1>3, <2>1, <2>2 DEF StoreRecord, StoreMove, newEntry
<1>4. CASE \E ok \in BOOLEAN : Tick(ok) \/ CheckpointIfDue(ok) \/ CloseEnds(ok)
  <2> PICK ok \in BOOLEAN : Tick(ok) \/ CheckpointIfDue(ok) \/ CloseEnds(ok)
    BY <1>4
  <2>1. GoesOn /\ mu # "verify"
    BY DEF Tick, CheckpointIfDue, CloseEnds, life
  <2>2. UNCHANGED <<records, seq, head>>
    BY DEF Tick, CheckpointIfDue, CloseEnds
  <2>3. checkpoint(ok) \/ UNCHANGED <<checkpoints, cpSeq>>
    BY DEF Tick, CheckpointIfDue, CloseEnds
  <2> QED
    BY <2>1, <2>2, <2>3 DEF checkpoint, newCheckpoint, SignMove, QuietMove, tables, chain
<1>5. CASE \/ Start \/ LoadKey \/ KeyLoaded \/ LoaderEnds
  BY <1>5 DEF Start, LoadKey, KeyLoaded, LoaderEnds, QuietMove, tables, chain, life
<1>6. CASE RetryWakes \/ RetryEnds
  BY <1>0, <1>6 DEF RetryWakes, RetryEnds, QuietMove, tables, chain, life, TypeOK
<1>7. CASE CloseStops \/ CloseWaits \/ CloseLocks
  BY <1>7 DEF CloseStops, CloseWaits, CloseLocks, QuietMove, tables, chain, life
<1>8. CASE \/ \E r \in RecordSet : AppendRecord(r)
           \/ StoreFails \/ FlushDone \/ \E ok \in BOOLEAN : StreamRecord(ok)
  BY <1>8 DEF AppendRecord, StoreFails, FlushDone, StreamRecord, flushReturns,
    QuietMove, tables, chain, life
<1> QED
  BY <1>1, <1>2, <1>3, <1>4, <1>5, <1>6, <1>7, <1>8 DEF Next

-----------------------------------------------------------------------------
(***************************************************************************)
(* Tables with a row more, changed or less.                                *)
(***************************************************************************)
\* A table without new rows stays what it is.
LEMMA WithRowsSame ==
  ASSUME NEW t, NEW old, t = [i \in DOMAIN t |-> t[i]]
  PROVE  WithRows(t, old, old) = t
BY DEF WithRows

\* A table follows the insert of a row.
LEMMA WithRowsInsert ==
  ASSUME NEW t, NEW old, NEW m, NEW row, m \notin DOMAIN old
  PROVE  WithRows(t, old, Insert(old, m, row)) = Insert(t, m, row)
BY DEF WithRows, Insert

\* A row under a number that is not 0 leaves a table with a last row.
LEMMA InsertHasLast ==
  ASSUME NEW t, NEW m \in Nat, m > 0, NEW row, \E n \in Nat : IsLast(t, n)
  PROVE  \E n \in Nat : IsLast(Insert(t, m, row), n)
<1> PICK n \in Nat : IsLast(t, n)
  OBVIOUS
<1>1. CASE m <= n
  <2>1. IsLast(Insert(t, m, row), n)
    BY <1>1 DEF IsLast, Insert
  <2> QED
    BY <2>1
<1>2. CASE m > n
  <2>1. IsLast(Insert(t, m, row), m)
    BY <1>2 DEF IsLast, Insert
  <2> QED
    BY <2>1
<1> QED
  BY <1>1, <1>2

\* So does the removal of a row, and what leaves the keys alone.
LEMMA SubtableHasLast ==
  ASSUME NEW t, NEW u, \E n \in Nat : IsLast(t, n), DOMAIN u \subseteq DOMAIN t
  PROVE  \E n \in Nat : IsLast(u, n)
<1> PICK n \in Nat : IsLast(t, n)
  OBVIOUS
<1>1. DOMAIN u \subseteq Nat /\ \A i \in DOMAIN u : i > 0 /\ i <= n
  BY DEF IsLast
<1>2. CASE DOMAIN u = {}
  <2>1. IsLast(u, 0)
    BY <1>2 DEF IsLast
  <2> QED
    BY <2>1
<1>3. CASE DOMAIN u # {}
  <2>1. PICK m \in DOMAIN u : \A i \in DOMAIN u : i <= m
    BY <1>1, <1>3, GreatestMember
  <2>2. IsLast(u, m) /\ m \in Nat
    BY <1>1, <2>1 DEF IsLast
  <2> QED
    BY <2>2
<1> QED
  BY <1>2, <1>3

\* A chain is not touched by a row under a new number, and is continued by the next one.
LEMMA ChainedInsert ==
  ASSUME NEW R, NEW n \in Nat, NEW h, Chained(R, n, h), NEW m \in Nat, m \notin 1 .. n, NEW row
  PROVE  /\ Chained(Insert(R, m, row), n, h)
         /\ \A r : m = n + 1 /\ row = newEntry(m, r, h) => Chained(Insert(R, m, row), m, row.hash)
<1> DEFINE T == Insert(R, m, row)
<1>1. \A i \in 1 .. n : i \in DOMAIN T /\ T[i] = R[i]
  BY DEF Insert, Chained
<1>2. m \in DOMAIN T /\ T[m] = row
  BY DEF Insert
<1> HIDE DEF T
<1>3. Chained(T, n, h)
  <2>1. \A i \in 1 .. n : i # 1 => i - 1 \in 1 .. n
    OBVIOUS
  <2>2. n # 0 => n \in 1 .. n
    OBVIOUS
  <2> QED
    BY <1>1, <2>1, <2>2 DEF Chained
<1>4. ASSUME NEW r, m = n + 1, row = newEntry(m, r, h) PROVE Chained(T, m, row.hash)
  <2>1. row.hash = EntryHash(m, row.r, row.prev) /\ row.prev = h
    BY <1>4 DEF newEntry
  <2>2. h = IF m = 1 THEN genesis ELSE T[m - 1].hash
    BY <1>3, <1>4 DEF Chained
  <2>3. ASSUME NEW i \in 1 .. m
        PROVE  /\ i \in DOMAIN T
               /\ T[i].hash = EntryHash(i, T[i].r, T[i].prev)
               /\ T[i].prev = IF i = 1 THEN genesis ELSE T[i - 1].hash
    <3>1. CASE i = m
      BY <1>2, <2>1, <2>2, <3>1
    <3>2. CASE i # m
      <4>1. i \in 1 .. n
        BY <1>4, <3>2
      <4> QED
        BY <1>3, <4>1 DEF Chained
    <3> QED
      BY <3>1, <3>2
  <2>4. m # 0
    BY <1>4
  <2> QED
    BY <1>2, <2>3, <2>4 DEF Chained
<1> QED
  BY <1>3, <1>4 DEF T

\* New records and checkpoints leave the ones before them covered.
LEMMA CoveredInsert ==
  ASSUME NEW C, NEW R, NEW n \in Nat, Covered(C, R, n), NEW m \in Nat, NEW row,
         DOMAIN C \subseteq Nat, \A c \in DOMAIN C : C[c].prevSeq \in Nat
  PROVE  /\ m \notin DOMAIN R => Covered(C, Insert(R, m, row), n)
         /\ m > n => Covered(Insert(C, m, row), R, n)
<1>1. ASSUME m \notin DOMAIN R PROVE Covered(C, Insert(R, m, row), n)
  <2>1. \A i \in DOMAIN R : i \in DOMAIN Insert(R, m, row) /\ Insert(R, m, row)[i] = R[i]
    BY <1>1 DEF Insert
  <2> QED
    BY <2>1 DEF Covered
<1>2. ASSUME m > n PROVE Covered(Insert(C, m, row), R, n)
  <2> DEFINE D == Insert(C, m, row)
  <2>1. DOMAIN D = DOMAIN C \cup {m} /\ \A c \in DOMAIN C : c # m => D[c] = C[c]
    BY DEF Insert
  <2> HIDE DEF D
  <2> SUFFICES ASSUME NEW c \in DOMAIN D, c <= n
               PROVE  /\ c \in DOMAIN R /\ D[c].head = R[c].hash
                      /\ D[c].sig = message(c, D[c].prevSeq, D[c].head)
                      /\ D[c].prevSeq < c /\ (D[c].prevSeq = 0 \/ D[c].prevSeq \in DOMAIN D)
                      /\ \A d \in DOMAIN D : d <= D[c].prevSeq \/ d >= c
    BY DEF Covered, D
  <2>2. c \in DOMAIN C /\ c # m /\ c \in Nat
    BY <1>2, <2>1
  <2>3. D[c] = C[c]
    BY <2>1, <2>2
  <2>4. \A d \in DOMAIN D : d <= C[c].prevSeq \/ d >= c
    BY <1>2, <2>1, <2>2 DEF Covered
  <2> QED
    BY <2>1, <2>2, <2>3, <2>4 DEF Covered
<1> QED
  BY <1>1, <1>2

-----------------------------------------------------------------------------
(***************************************************************************)
(* The steps of VerifyNext.                                                *)
(***************************************************************************)
\* A Verify that was under way is gone with its process.
Restarts == at' = "idle" /\ w' = newWalk /\ verdict' = "none" /\ breakSeq' = 0

LogOpens ==
  /\ OpenMove /\ Restarts /\ wrote' = Tables
  /\ sound' = (ChainIntact /\ CheckpointsIntact)

LogCrashes == CrashMove /\ Restarts /\ UNCHANGED <<wrote, sound>>

LogStores(r) ==
  /\ StoreMove(r) /\ UNCHANGED <<verifyVars, sound>>
  /\ wrote' = [records |-> Insert(wrote.records, seq + 1, newEntry(seq + 1, r, head)),
               checkpoints |-> wrote.checkpoints]

LogSigns ==
  /\ SignMove /\ UNCHANGED <<verifyVars, sound>>
  /\ wrote' = [records |-> wrote.records,
               checkpoints |-> Insert(wrote.checkpoints, seq, newCheckpoint)]

LogQuiet == QuietMove /\ UNCHANGED <<verifyVars, wrote, sound>>

\* What a step of the log does to the tables, to the history of them and to a walk.
LEMMA LogSteps ==
  ASSUME ShapeInv, LogStep
  PROVE  /\ \/ LogOpens \/ LogCrashes \/ LogSigns \/ LogQuiet
            \/ \E r \in RecordSet : LogStores(r)
         /\ UNCHANGED <<edits, edited>>
<1>0. /\ wrote = [records |-> wrote.records, checkpoints |-> wrote.checkpoints]
      /\ \A old : /\ WithRows(wrote.records, old, old) = wrote.records
                  /\ WithRows(wrote.checkpoints, old, old) = wrote.checkpoints
  BY WithRowsSame DEF ShapeInv, Shape
<1>1. UNCHANGED <<edits, edited>>
  BY DEF LogStep
<1>2. CASE OpenMove
  <2>1. Tables' = Tables
    BY <1>2 DEF OpenMove, Tables, tables
  <2> QED
    BY <1>1, <1>2, <2>1 DEF LogStep, OpenMove, LogOpens, Restarts
<1>3. CASE CrashMove
  BY <1>0, <1>1, <1>3 DEF LogStep, CrashMove, LogCrashes, Restarts, tables
<1>4. ASSUME NEW r \in RecordSet, StoreMove(r) PROVE LogStores(r)
  <2>1. /\ UNCHANGED <<verifyVars, sound>>
        /\ wrote' = [records     |-> WithRows(wrote.records, records, records'),
                     checkpoints |-> WithRows(wrote.checkpoints, checkpoints, checkpoints)]
    BY <1>4 DEF LogStep, StoreMove, GoesOn
  <2>2. WithRows(wrote.records, records, records')
          = Insert(wrote.records, seq + 1, newEntry(seq + 1, r, head))
    BY <1>4, WithRowsInsert DEF StoreMove
  <2> QED
    BY <1>0, <1>4, <2>1, <2>2 DEF LogStores
<1>5. CASE SignMove
  <2>1. /\ UNCHANGED <<verifyVars, sound>>
        /\ wrote' = [records     |-> WithRows(wrote.records, records, records),
                     checkpoints |-> WithRows(wrote.checkpoints, checkpoints, checkpoints')]
    BY <1>5 DEF LogStep, SignMove, GoesOn
  <2>2. WithRows(wrote.checkpoints, checkpoints, checkpoints')
          = Insert(wrote.checkpoints, seq, newCheckpoint)
    BY <1>5, WithRowsInsert DEF SignMove
  <2> QED
    BY <1>0, <1>1, <1>5, <2>1, <2>2 DEF LogSigns
<1>6. CASE QuietMove
  BY <1>0, <1>1, <1>6 DEF LogStep, QuietMove, GoesOn, LogQuiet, tables
<1>7. TypeOK /\ Control /\ Next
  BY DEF ShapeInv, LogStep
<1> QED
  BY <1>1, <1>2, <1>3, <1>4, <1>5, <1>6, <1>7, LogMoves

\* Verify writes nothing.
LEMMA VerifyReads ==
  ASSUME TypeOK, Control, WalkControl, Verify
  PROVE  /\ TypeOK' /\ Control'
         /\ UNCHANGED <<tables, chain, life, edits, wrote, sound>>
<1>1. CASE VerifyBegins
  BY <1>1 DEF VerifyBegins, vars, TypeOK, Control, Running, tables, chain, atomics, threads, life, history
<1>2. CASE VerifyFrame /\ mu' \in {"free", "verify"} /\ mu \in {"free", "verify"}
  <2>1. TypeOK'
    BY <1>2 DEF VerifyFrame, TypeOK, tables, chain, atomics, threads, life, history
  <2>2. Control'
    BY <1>2 DEF VerifyFrame, Control, Running, tables, chain, atomics, threads, life, history
  <2> QED
    BY <1>2, <2>1, <2>2 DEF VerifyFrame
<1>3. CASE VerifyFrame /\ mu' = mu
  <2>1. TypeOK'
    BY <1>3 DEF VerifyFrame, TypeOK, tables, chain, atomics, threads, life, history
  <2>2. Control'
    BY <1>3 DEF VerifyFrame, Control, Running, tables, chain, atomics, threads, life, history
  <2> QED
    BY <1>3, <2>1, <2>2 DEF VerifyFrame
<1>4. CASE VerifyRecords \/ VerifyCheckpoints \/ VerifyLocks \/ VerifyEnds \/ VerifyFails
  <2>1. VerifyFrame
    BY <1>4 DEF VerifyRecords, VerifyCheckpoints, VerifyLocks, VerifyEnds, VerifyFails
  <2>2. mu' = mu \/ (mu = "verify" /\ mu' = "free") \/ (mu = "free" /\ mu' = "verify")
    BY <1>4 DEF VerifyRecords, VerifyCheckpoints, VerifyLocks, VerifyEnds, VerifyFails,
      Return, Locked
  <2> QED
    BY <1>2, <1>3, <2>1, <2>2
<1> QED
  BY <1>1, <1>4 DEF Verify

\* An edit leaves rows with the columns of the table, and never a new signature.
LEMMA EditWrites ==
  ASSUME ShapeInv, Edit
  PROVE  /\ TypeOK' /\ Control' /\ TablesHaveLast' /\ Shape(records, checkpoints)'
         /\ \A c \in DOMAIN checkpoints' :
              /\ c \in DOMAIN checkpoints
              /\ checkpoints'[c].sig = checkpoints[c].sig
              /\ checkpoints'[c].prevSeq = checkpoints[c].prevSeq
         /\ UNCHANGED <<chain, life, mu, verifyVars, wrote, sound>>
         /\ edits' = edits + 1 /\ edited' = TRUE
<1> DEFINE RowShape(row) == row = [r |-> row.r, prev |-> row.prev, hash |-> row.hash]
           CpShape(row) == row = [prevSeq |-> row.prevSeq, head |-> row.head, sig |-> row.sig]
           RecordsOK == /\ DOMAIN records' \subseteq Nat
                        /\ \A i \in DOMAIN records' : records'[i].r \in RecordSet
                        /\ \E n \in Nat : IsLast(records', n)
                        /\ records' = [i \in DOMAIN records' |-> records'[i]]
                        /\ \A i \in DOMAIN records' : RowShape(records'[i])
           CheckpointsOK == /\ \A c \in DOMAIN checkpoints' :
                                /\ c \in DOMAIN checkpoints
                                /\ checkpoints'[c].sig = checkpoints[c].sig
                                /\ checkpoints'[c].prevSeq = checkpoints[c].prevSeq
                                /\ CpShape(checkpoints'[c])
                            /\ checkpoints' = [c \in DOMAIN checkpoints' |-> checkpoints'[c]]
<1>0. /\ DOMAIN records \subseteq Nat /\ DOMAIN checkpoints \subseteq Nat
      /\ \A i \in DOMAIN records : records[i].r \in RecordSet
      /\ \E n \in Nat : IsLast(records, n)
      /\ \E n \in Nat : IsLast(checkpoints, n)
      /\ records = [i \in DOMAIN records |-> records[i]]
      /\ checkpoints = [c \in DOMAIN checkpoints |-> checkpoints[c]]
      /\ \A i \in DOMAIN records : RowShape(records[i])
      /\ \A c \in DOMAIN checkpoints : CpShape(checkpoints[c])
  BY DEF ShapeInv, Shape, TypeOK, TablesHaveLast
<1>1. UNCHANGED records => RecordsOK
  BY <1>0
<1>2. UNCHANGED checkpoints => CheckpointsOK
  BY <1>0
<1>3. /\ UNCHANGED <<chain, key, backlog, atomics, threads, mu, step, life, streamed,
                     history, verifyVars, wrote, sound>>
      /\ edits' = edits + 1 /\ edited' = TRUE
  BY DEF Edit
<1>4. RecordsOK /\ CheckpointsOK
  <2>1. ASSUME NEW n \in DOMAIN records, records' = Without(records, n) PROVE RecordsOK
    <3>1. /\ DOMAIN records' = DOMAIN records \ {n}
          /\ \A i \in DOMAIN records' : records'[i] = records[i]
      BY <2>1 DEF Without
    <3>2. \E k \in Nat : IsLast(records', k)
      BY <1>0, <3>1, SubtableHasLast
    <3>3. records' = [i \in DOMAIN records' |-> records'[i]]
      BY <2>1 DEF Without
    <3> QED
      BY <1>0, <3>1, <3>2, <3>3
  <2>2. ASSUME NEW n \in DOMAIN records, NEW r \in RecordSet, NEW row,
               row.r = r, RowShape(row), records' = [records EXCEPT ![n] = row]
        PROVE  RecordsOK
    <3>1. /\ DOMAIN records' = DOMAIN records /\ records'[n] = row
          /\ \A i \in DOMAIN records : i # n => records'[i] = records[i]
      BY <2>2
    <3>2. \E k \in Nat : IsLast(records', k)
      BY <1>0, <3>1, SubtableHasLast
    <3>3. records' = [i \in DOMAIN records' |-> records'[i]]
      BY <2>2
    <3> QED
      BY <1>0, <2>2, <3>1, <3>2, <3>3
  <2>3. ASSUME NEW n \in DOMAIN records, NEW r \in RecordSet, records' = [records EXCEPT ![n].r = r]
        PROVE  RecordsOK
    <3> DEFINE row == [r |-> r, prev |-> records[n].prev, hash |-> records[n].hash]
    <3>1. [records[n] EXCEPT !.r = r] = row
      BY <1>0
    <3>2. records' = [records EXCEPT ![n] = row]
      BY <2>3, <3>1
    <3>3. row.r = r /\ RowShape(row)
      OBVIOUS
    <3> HIDE DEF row
    <3> QED
      BY <2>2, <3>2, <3>3
  <2>4. ASSUME NEW n \in DOMAIN records, NEW r \in RecordSet,
               records' = [records EXCEPT ![n] = newEntry(n, r, records[n].prev)]
        PROVE  RecordsOK
    <3> DEFINE row == newEntry(n, r, records[n].prev)
    <3>1. row.r = r /\ RowShape(row)
      BY DEF newEntry
    <3> HIDE DEF row
    <3> QED
      BY <2>2, <2>4, <3>1 DEF row
  <2>5. ASSUME NEW r \in RecordSet, NEW h, NEW n \in Nat,
               records' = Insert(records, n + 1, newEntry(n + 1, r, h))
        PROVE  RecordsOK
    <3> DEFINE row == newEntry(n + 1, r, h)
    <3>1. row.r = r /\ RowShape(row)
      BY DEF newEntry
    <3>2. records' = Insert(records, n + 1, row)
      BY <2>5
    <3> HIDE DEF row
    <3>3. /\ DOMAIN records' = DOMAIN records \cup {n + 1} /\ records'[n + 1] = row
          /\ \A i \in DOMAIN records : i # n + 1 => records'[i] = records[i]
          /\ records' = [i \in DOMAIN records' |-> records'[i]]
      BY <3>2 DEF Insert
    <3>4. \E k \in Nat : IsLast(records', k)
      <4>1. n + 1 \in Nat /\ n + 1 > 0
        OBVIOUS
      <4> QED
        BY <1>0, <3>2, <4>1, InsertHasLast
    <3> QED
      BY <1>0, <3>1, <3>3, <3>4
  <2>6. ASSUME NEW c \in DOMAIN checkpoints, checkpoints' = Without(checkpoints, c)
        PROVE  CheckpointsOK
    <3>1. /\ DOMAIN checkpoints' = DOMAIN checkpoints \ {c}
          /\ \A i \in DOMAIN checkpoints' : checkpoints'[i] = checkpoints[i]
          /\ checkpoints' = [i \in DOMAIN checkpoints' |-> checkpoints'[i]]
      BY <2>6 DEF Without
    <3> QED
      BY <1>0, <3>1
  <2>7. ASSUME NEW c \in DOMAIN checkpoints, NEW h, checkpoints' = [checkpoints EXCEPT ![c].head = h]
        PROVE  CheckpointsOK
    <3> DEFINE row == [prevSeq |-> checkpoints[c].prevSeq, head |-> h, sig |-> checkpoints[c].sig]
    <3>1. [checkpoints[c] EXCEPT !.head = h] = row
      BY <1>0
    <3>2. checkpoints' = [checkpoints EXCEPT ![c] = row]
      BY <2>7, <3>1
    <3>3. CpShape(row) /\ row.sig = checkpoints[c].sig /\ row.prevSeq = checkpoints[c].prevSeq
      OBVIOUS
    <3> HIDE DEF row
    <3>4. /\ DOMAIN checkpoints' = DOMAIN checkpoints /\ checkpoints'[c] = row
          /\ \A d \in DOMAIN checkpoints : d # c => checkpoints'[d] = checkpoints[d]
          /\ checkpoints' = [d \in DOMAIN checkpoints' |-> checkpoints'[d]]
      BY <3>2
    <3> QED
      BY <1>0, <3>3, <3>4
  <2>8. LastSeq(records) \in Nat
    BY <1>0, LastSeqIsLast
  <2> HIDE DEF RecordsOK, CheckpointsOK
  <2> QED
    BY <1>1, <1>2, <2>1, <2>3, <2>4, <2>5, <2>6, <2>7, <2>8 DEF Edit
<1>5. DOMAIN checkpoints' \subseteq DOMAIN checkpoints
  BY <1>4
<1>6. TablesHaveLast'
  <2>1. \E n \in Nat : IsLast(checkpoints', n)
    BY <1>0, <1>5, SubtableHasLast
  <2> QED
    BY <1>4, <2>1 DEF TablesHaveLast
<1>7. TypeOK'
  <2>1. TypeOK
    BY DEF ShapeInv
  <2>2. \A c \in DOMAIN checkpoints' : checkpoints'[c].prevSeq \in Nat
    BY <1>4, <2>1 DEF TypeOK
  <2>3. DOMAIN checkpoints' \subseteq Nat
    BY <1>0, <1>5
  <2> QED
    BY <1>3, <1>4, <2>1, <2>2, <2>3 DEF TypeOK, chain, atomics, threads, life, history
<1>8. Control'
  BY <1>3 DEF ShapeInv, Control, Running, threads, life
<1>9. Shape(records, checkpoints)'
  BY <1>4 DEF Shape
<1> QED
  BY <1>3, <1>4, <1>6, <1>7, <1>8, <1>9

-----------------------------------------------------------------------------
(***************************************************************************)
(* VerifyInv holds at first and is kept by every step.                     *)
(***************************************************************************)
\* The shape of a table with a row more.
LEMMA ShapeInsert ==
  ASSUME NEW R, NEW C, Shape(R, C), NEW m, NEW row
  PROVE  /\ row = [r |-> row.r, prev |-> row.prev, hash |-> row.hash] => Shape(Insert(R, m, row), C)
         /\ row = [prevSeq |-> row.prevSeq, head |-> row.head, sig |-> row.sig]
              => Shape(R, Insert(C, m, row))
<1>1. \A t : /\ DOMAIN Insert(t, m, row) = DOMAIN t \cup {m} /\ Insert(t, m, row)[m] = row
             /\ \A i \in DOMAIN t : i # m => Insert(t, m, row)[i] = t[i]
             /\ Insert(t, m, row) = [i \in DOMAIN Insert(t, m, row) |-> Insert(t, m, row)[i]]
  BY DEF Insert
<1>2. ASSUME row = [r |-> row.r, prev |-> row.prev, hash |-> row.hash]
      PROVE  Shape(Insert(R, m, row), C)
  <2> DEFINE T == Insert(R, m, row)
  <2>1. /\ DOMAIN T = DOMAIN R \cup {m} /\ T[m] = row
        /\ \A i \in DOMAIN R : i # m => T[i] = R[i]
        /\ T = [i \in DOMAIN T |-> T[i]]
    BY <1>1
  <2> HIDE DEF T
  <2>2. \A i \in DOMAIN T : T[i] = [r |-> T[i].r, prev |-> T[i].prev, hash |-> T[i].hash]
    BY <1>2, <2>1 DEF Shape
  <2> QED
    BY <2>1, <2>2 DEF Shape, T
<1>3. ASSUME row = [prevSeq |-> row.prevSeq, head |-> row.head, sig |-> row.sig]
      PROVE  Shape(R, Insert(C, m, row))
  <2> DEFINE T == Insert(C, m, row)
  <2>1. /\ DOMAIN T = DOMAIN C \cup {m} /\ T[m] = row
        /\ \A i \in DOMAIN C : i # m => T[i] = C[i]
        /\ T = [i \in DOMAIN T |-> T[i]]
    BY <1>1
  <2> HIDE DEF T
  <2>2. \A i \in DOMAIN T : T[i] = [prevSeq |-> T[i].prevSeq, head |-> T[i].head, sig |-> T[i].sig]
    BY <1>3, <2>1 DEF Shape
  <2> QED
    BY <2>1, <2>2 DEF Shape, T
<1> QED
  BY <1>2, <1>3

\* Tables keep their shape.
LEMMA ShapeStep ==
  ASSUME ShapeInv, WalkControl, [VerifyNext]_allVars
  PROVE  ShapeInv'
<1>0. /\ Shape(records, checkpoints) /\ Shape(wrote.records, wrote.checkpoints)
      /\ TypeOK /\ Control /\ TablesHaveLast
      /\ wrote = [records |-> wrote.records, checkpoints |-> wrote.checkpoints]
      /\ seq \in Nat /\ cpSeq \in Nat
  BY DEF ShapeInv, TypeOK
<1>1. CASE LogStep
  <2>1. TypeOK' /\ Control'
    BY <1>0, <1>1, TypeStep, ControlStep DEF LogStep
  <2> SUFFICES /\ TablesHaveLast' /\ Shape(records, checkpoints)'
               /\ wrote' = [records |-> wrote'.records, checkpoints |-> wrote'.checkpoints]
               /\ Shape(wrote.records, wrote.checkpoints)'
    BY <2>1 DEF ShapeInv
  <2>2. CASE LogOpens
    BY <1>0, <2>2 DEF LogOpens, OpenMove, Tables, tables, TablesHaveLast, Shape
  <2>3. CASE LogCrashes
    BY <1>0, <2>3 DEF LogCrashes, CrashMove, tables, TablesHaveLast, Shape
  <2>4. CASE LogQuiet
    BY <1>0, <2>4 DEF LogQuiet, QuietMove, tables, TablesHaveLast, Shape
  <2>5. ASSUME NEW r \in RecordSet, LogStores(r)
        PROVE  /\ TablesHaveLast' /\ Shape(records, checkpoints)'
               /\ wrote' = [records |-> wrote'.records, checkpoints |-> wrote'.checkpoints]
               /\ Shape(wrote.records, wrote.checkpoints)'
    <3> DEFINE row == newEntry(seq + 1, r, head)
    <3>1. row = [r |-> row.r, prev |-> row.prev, hash |-> row.hash]
      BY DEF newEntry
    <3>2. /\ records' = Insert(records, seq + 1, row) /\ checkpoints' = checkpoints
          /\ wrote' = [records |-> Insert(wrote.records, seq + 1, row),
                       checkpoints |-> wrote.checkpoints]
      BY <2>5 DEF LogStores, StoreMove
    <3> HIDE DEF row
    <3>3. seq + 1 \in Nat /\ seq + 1 > 0
      BY <1>0
    <3>4. \E n \in Nat : IsLast(records', n)
      BY <1>0, <3>2, <3>3, InsertHasLast DEF TablesHaveLast
    <3>5. TablesHaveLast'
      BY <1>0, <3>2, <3>4 DEF TablesHaveLast
    <3>6. Shape(records', checkpoints') /\ Shape(wrote'.records, wrote'.checkpoints)
      BY <1>0, <3>1, <3>2, ShapeInsert
    <3> QED
      BY <3>2, <3>5, <3>6
  <2>6. CASE LogSigns
    <3>1. newCheckpoint = [prevSeq |-> newCheckpoint.prevSeq, head |-> newCheckpoint.head,
                           sig |-> newCheckpoint.sig]
      BY DEF newCheckpoint
    <3>2. /\ checkpoints' = Insert(checkpoints, seq, newCheckpoint) /\ records' = records
          /\ wrote' = [records |-> wrote.records,
                       checkpoints |-> Insert(wrote.checkpoints, seq, newCheckpoint)]
          /\ seq > cpSeq
      BY <2>6 DEF LogSigns, SignMove
    <3>3. seq > 0
      BY <1>0, <3>2
    <3>4. \E n \in Nat : IsLast(checkpoints', n)
      BY <1>0, <3>2, <3>3, InsertHasLast DEF TablesHaveLast
    <3>5. TablesHaveLast'
      BY <1>0, <3>2, <3>4 DEF TablesHaveLast
    <3>6. Shape(records', checkpoints') /\ Shape(wrote'.records, wrote'.checkpoints)
      BY <1>0, <3>1, <3>2, ShapeInsert
    <3> QED
      BY <3>2, <3>5, <3>6
  <2> QED
    BY <1>1, <2>2, <2>3, <2>4, <2>5, <2>6, LogSteps
<1>2. CASE Verify
  <2>1. TypeOK' /\ Control' /\ UNCHANGED <<tables, wrote>>
    BY <1>0, <1>2, VerifyReads
  <2> QED
    BY <1>0, <2>1 DEF ShapeInv, Shape, TablesHaveLast, tables
<1>3. CASE Edit
  BY <1>0, <1>3, EditWrites DEF ShapeInv
<1>4. CASE UNCHANGED allVars
  <2>1. TypeOK' /\ Control'
    <3>1. UNCHANGED vars
      BY <1>4 DEF allVars
    <3> QED
      BY <1>0, <3>1, TypeStep, ControlStep
  <2> QED
    BY <1>0, <1>4, <2>1 DEF ShapeInv, Shape, TablesHaveLast, allVars, vars, tables
<1> QED
  BY <1>1, <1>2, <1>3, <1>4 DEF VerifyNext

\* What the process found and wrote keeps its end, and goes on being a covered chain.
LEMMA WroteStep ==
  ASSUME ShapeInv, ShapeInv', WroteInv, WalkControl, [VerifyNext]_allVars
  PROVE  WroteInv'
<1> DEFINE R == wrote.records
           C == wrote.checkpoints
<1>0. /\ seq \in Nat /\ cpSeq \in Nat /\ TypeOK /\ Control
      /\ wrote = [records |-> R, checkpoints |-> C]
  BY DEF ShapeInv, TypeOK
<1>1. CASE LogStep
  <2>2. CASE LogOpens
    <3>1. /\ wrote'.records = records /\ wrote'.checkpoints = checkpoints
          /\ seq' = LastSeq(records) /\ head' = HashAt(LastSeq(records))
          /\ cpSeq' = LastSeq(checkpoints)
          /\ sound' = (ChainIntact /\ CheckpointsIntact)
      BY <2>2 DEF LogOpens, OpenMove, Tables
    <3>2. IsLast(records, seq') /\ IsLast(checkpoints, cpSeq')
      BY <3>1, LastSeqIsLast DEF ShapeInv, TablesHaveLast
    <3>3. seq' \in Nat /\ cpSeq' \in Nat
      BY <3>2 DEF IsLast
    <3>4. ASSUME ChainIntact, CheckpointsIntact
          PROVE  Chained(records, seq', head') /\ Covered(checkpoints, records, cpSeq')
      <4>1. DOMAIN records = 1 .. seq'
        BY <3>1, <3>4 DEF ChainIntact
      <4>2. ASSUME NEW i \in 1 .. seq'
            PROVE  /\ i \in DOMAIN records
                   /\ records[i].hash = EntryHash(i, records[i].r, records[i].prev)
                   /\ records[i].prev = IF i = 1 THEN genesis ELSE records[i - 1].hash
        <5>1. records[i] = newEntry(i, records[i].r, HashAt(i - 1))
          BY <3>4, <4>1 DEF ChainIntact
        <5>2. records[i].hash = EntryHash(i, records[i].r, HashAt(i - 1)) /\ records[i].prev = HashAt(i - 1)
          BY <5>1 DEF newEntry
        <5> QED
          BY <4>1, <5>2 DEF HashAt
      <4>3. Chained(records, seq', head')
        BY <3>1, <4>2 DEF Chained, HashAt
      <4>4. Covered(checkpoints, records, cpSeq')
        BY <3>4 DEF CheckpointsIntact, Covered
      <4> QED
        BY <4>3, <4>4
    <3> QED
      BY <3>1, <3>2, <3>4 DEF WroteInv
  <2>3. CASE LogCrashes
    BY <2>3 DEF LogCrashes, CrashMove, WroteInv
  <2>4. CASE LogQuiet
    BY <2>4 DEF LogQuiet, QuietMove, GoesOn, chain, WroteInv
  <2>5. ASSUME NEW r \in RecordSet, LogStores(r) PROVE WroteInv'
    <3> DEFINE row == newEntry(seq + 1, r, head)
               m == seq + 1
    <3>1. /\ phase # "down" /\ seq' = m /\ head' = EntryHash(m, r, head) /\ cpSeq' = cpSeq
          /\ wrote'.records = Insert(R, m, row) /\ wrote'.checkpoints = C /\ sound' = sound
      BY <2>5 DEF LogStores, StoreMove, GoesOn
    <3>2. row = newEntry(m, r, head) /\ row.hash = EntryHash(m, r, head)
      BY DEF newEntry
    <3>3. m \in Nat /\ m > seq /\ m \notin 1 .. seq /\ m = seq + 1
      BY <1>0
    <3> HIDE DEF row, m
    <3>4. IsLast(R, seq) /\ IsLast(C, cpSeq)
      BY <3>1 DEF WroteInv
    <3>5. IsLast(Insert(R, m, row), m) /\ m \notin DOMAIN R
      BY <3>3, <3>4, InsertLast
    <3>6. ASSUME sound PROVE Chained(Insert(R, m, row), m, head') /\ Covered(C, Insert(R, m, row), cpSeq)
      <4>1. Chained(R, seq, head) /\ Covered(C, R, cpSeq)
        BY <3>1, <3>6 DEF WroteInv
      <4>2. Chained(Insert(R, m, row), m, row.hash)
        BY <1>0, <3>2, <3>3, <4>1, ChainedInsert
      <4>3. Covered(C, Insert(R, m, row), cpSeq)
        <5>1. \A i \in DOMAIN R : i \in DOMAIN Insert(R, m, row) /\ Insert(R, m, row)[i] = R[i]
          BY <3>5 DEF Insert
        <5> QED
          BY <4>1, <5>1 DEF Covered
      <4> QED
        BY <3>1, <3>2, <4>2, <4>3
    <3> QED
      BY <3>1, <3>4, <3>5, <3>6 DEF WroteInv
  <2>6. CASE LogSigns
    <3> DEFINE row == newCheckpoint
               D == Insert(C, seq, row)
    <3>1. /\ phase # "down" /\ seq' = seq /\ head' = head /\ cpSeq' = seq /\ seq > cpSeq
          /\ wrote'.records = R /\ wrote'.checkpoints = D /\ sound' = sound
      BY <2>6 DEF LogSigns, SignMove, GoesOn
    <3>2. row.prevSeq = cpSeq /\ row.head = head /\ row.sig = message(seq, cpSeq, head)
      BY DEF newCheckpoint
    <3>3. IsLast(R, seq) /\ IsLast(C, cpSeq)
      BY <3>1 DEF WroteInv
    <3>4. /\ IsLast(D, seq) /\ seq \notin DOMAIN C
          /\ DOMAIN D = DOMAIN C \cup {seq} /\ D[seq] = row
          /\ \A c \in DOMAIN C : D[c] = C[c]
      BY <1>0, <3>1, <3>3, InsertLast
    <3> HIDE DEF row, D
    <3>5. ASSUME sound PROVE Covered(D, R, seq)
      <4>1. Chained(R, seq, head) /\ Covered(C, R, cpSeq)
        BY <3>1, <3>5 DEF WroteInv
      <4>2. seq \in DOMAIN R /\ head = R[seq].hash
        BY <1>0, <3>1, <3>3, <4>1 DEF IsLast, Chained
      <4>3. /\ \A c \in DOMAIN C : c \in Nat /\ c <= cpSeq
            /\ cpSeq = 0 \/ cpSeq \in DOMAIN C
        BY <3>3 DEF IsLast
      <4> SUFFICES ASSUME NEW c \in DOMAIN D
                   PROVE  /\ c \in DOMAIN R /\ D[c].head = R[c].hash
                          /\ D[c].sig = message(c, D[c].prevSeq, D[c].head)
                          /\ D[c].prevSeq < c /\ (D[c].prevSeq = 0 \/ D[c].prevSeq \in DOMAIN D)
                          /\ \A d \in DOMAIN D : d <= D[c].prevSeq \/ d >= c
        BY DEF Covered
      <4>4. CASE c = seq
        BY <1>0, <3>1, <3>2, <3>4, <4>2, <4>3, <4>4
      <4>5. CASE c \in DOMAIN C
        <5>1. c \in Nat /\ c <= cpSeq /\ c <= seq
          BY <1>0, <3>1, <4>3, <4>5
        <5>2. \A d \in DOMAIN D : d <= C[c].prevSeq \/ d >= c
          BY <3>4, <4>1, <4>5, <5>1 DEF Covered
        <5> QED
          BY <3>4, <4>1, <4>5, <5>1, <5>2 DEF Covered
      <4> QED
        BY <3>4, <4>4, <4>5
    <3> QED
      BY <3>1, <3>3, <3>4, <3>5 DEF WroteInv
  <2> QED
    BY <1>1, <2>2, <2>3, <2>4, <2>5, <2>6, LogSteps
<1>2. CASE Verify
  BY <1>0, <1>2, VerifyReads DEF chain, life, WroteInv
<1>3. CASE Edit
  BY <1>0, <1>3, EditWrites DEF chain, life, WroteInv
<1>4. CASE UNCHANGED allVars
  BY <1>4 DEF allVars, vars, chain, life, WroteInv
<1> QED
  BY <1>1, <1>2, <1>3, <1>4 DEF VerifyNext

\* No step but a checkpoint of the log makes a signature.
LEMMA SignedStep ==
  ASSUME ShapeInv, WroteInv, SignedInv, WalkControl, [VerifyNext]_allVars
  PROVE  SignedInv'
<1> DEFINE C == wrote.checkpoints
<1>0. seq \in Nat /\ cpSeq \in Nat /\ TypeOK /\ Control
  BY DEF ShapeInv, TypeOK
<1>1. CASE LogStep
  <2>2. CASE LogOpens
    BY <2>2 DEF LogOpens, OpenMove, Tables, tables, SignedInv
  <2>3. CASE LogCrashes
    BY <2>3 DEF LogCrashes, CrashMove, tables, SignedInv
  <2>4. CASE LogQuiet
    BY <2>4 DEF LogQuiet, QuietMove, tables, SignedInv
  <2>5. ASSUME NEW r \in RecordSet, LogStores(r) PROVE SignedInv'
    BY <2>5 DEF LogStores, StoreMove, SignedInv
  <2>6. CASE LogSigns
    <3>1. /\ phase # "down" /\ seq > cpSeq /\ seq \notin DOMAIN checkpoints
          /\ checkpoints' = Insert(checkpoints, seq, newCheckpoint)
          /\ wrote'.checkpoints = Insert(C, seq, newCheckpoint)
      BY <2>6 DEF LogSigns, SignMove, GoesOn
    <3>2. \A t : /\ DOMAIN Insert(t, seq, newCheckpoint) = DOMAIN t \cup {seq}
                 /\ Insert(t, seq, newCheckpoint)[seq] = newCheckpoint
                 /\ \A i \in DOMAIN t : i # seq => Insert(t, seq, newCheckpoint)[i] = t[i]
      BY DEF Insert
    <3>3. ASSUME NEW c \in DOMAIN checkpoints'
          PROVE  /\ c \in DOMAIN wrote'.checkpoints
                 /\ checkpoints'[c].sig = wrote'.checkpoints[c].sig
                 /\ checkpoints'[c].prevSeq = wrote'.checkpoints[c].prevSeq
      <4>1. CASE c = seq
        BY <3>1, <3>2, <4>1
      <4>2. CASE c # seq
        <5>1. c \in DOMAIN checkpoints /\ c \in DOMAIN C
          BY <3>1, <3>2, <4>2 DEF SignedInv
        <5>2. checkpoints'[c] = checkpoints[c] /\ wrote'.checkpoints[c] = C[c]
          BY <3>1, <3>2, <4>2, <5>1
        <5>3. c \in DOMAIN wrote'.checkpoints
          BY <3>1, <3>2, <5>1
        <5> QED
          BY <5>1, <5>2, <5>3 DEF SignedInv
      <4> QED
        BY <4>1, <4>2
    <3> QED
      BY <3>3 DEF SignedInv
  <2> QED
    BY <1>1, <2>2, <2>3, <2>4, <2>5, <2>6, LogSteps
<1>2. CASE Verify
  BY <1>0, <1>2, VerifyReads DEF tables, SignedInv
<1>3. CASE Edit
  BY <1>0, <1>3, EditWrites DEF SignedInv
<1>4. CASE UNCHANGED allVars
  BY <1>4 DEF allVars, vars, tables, SignedInv
<1> QED
  BY <1>1, <1>2, <1>3, <1>4 DEF VerifyNext

\* Max of numbers that are bounded is the greatest of them.
LEMMA MaxOf ==
  ASSUME NEW T, T \subseteq Nat, T # {}, NEW b \in Nat, \A x \in T : x <= b
  PROVE  Max(T) \in T /\ \A x \in T : x <= Max(T)
<1>1. PICK m \in T : \A x \in T : x <= m
  BY GreatestMember
<1>2. Max(T) = m
  BY <1>1, MaxIs
<1> QED
  BY <1>1, <1>2

\* What one page of records shows: the rows found intact follow the walk without a gap, and
\* a page that is not full is the end of the table.
LEMMA RecordsPage ==
  ASSUME ShapeInv, WalkControl
  PROVE  /\ recordPage \subseteq {n \in DOMAIN records : n > w.records}
         /\ \A n \in recordPage : \A m \in DOMAIN records : w.records < m /\ m < n => m \in recordPage
         /\ Cardinality(intactRecords) \in Nat
         /\ intactRecords = w.records + 1 .. w.records + Cardinality(intactRecords)
         /\ \A n \in intactRecords : n \in DOMAIN records /\ chains(n)
         /\ intactRecords = recordPage /\ Cardinality(recordPage) < verifyPage =>
              \A i \in DOMAIN records : i <= w.records + Cardinality(intactRecords)
<1> DEFINE S == {n \in DOMAIN records : n > w.records}
<1>0. w.records \in Nat /\ verifyPage \in Nat
  BY VerifyAssumption DEF WalkControl
<1>1. PICK b \in Nat : IsLast(records, b)
  BY DEF ShapeInv, TablesHaveLast
<1>2. DOMAIN records \subseteq Nat /\ S \subseteq 0 .. b
  BY <1>1 DEF IsLast
<1>3. recordPage = Page(S)
  BY DEF recordPage
<1> HIDE DEF S
<1>4. /\ recordPage \subseteq S
      /\ \A n \in recordPage : \A m \in S : m < n => m \in recordPage
      /\ Cardinality(recordPage) \in Nat
      /\ Cardinality(recordPage) # verifyPage => recordPage = S
  BY <1>2, <1>3, PageIs
<1> DEFINE I == intactRecords
           k == w.records
<1>5. I \subseteq 0 .. b
  BY <1>2, <1>4 DEF intactRecords
<1>6. ASSUME NEW n \in I PROVE n \in Nat /\ n > k /\ n \in DOMAIN records /\ chains(n)
  <2>1. n \in recordPage /\ \A i \in k + 1 .. n : i \in recordPage /\ chains(i)
    BY DEF intactRecords
  <2>2. n \in Nat /\ n > k /\ n \in DOMAIN records
    BY <1>2, <1>4, <2>1 DEF S
  <2>3. n \in k + 1 .. n
    BY <1>0, <2>2
  <2> QED
    BY <2>1, <2>2, <2>3
<1>7. ASSUME NEW n \in I, NEW i \in k + 1 .. n PROVE i \in I
  <2>1. \A j \in k + 1 .. n : j \in recordPage /\ chains(j)
    BY DEF intactRecords
  <2>2. n \in Nat
    BY <1>6
  <2>3. \A j \in k + 1 .. i : j \in k + 1 .. n
    BY <1>0, <2>2
  <2> QED
    BY <2>1, <2>3 DEF intactRecords
<1>8. Cardinality(I) \in Nat /\ I = k + 1 .. k + Cardinality(I)
  <2> HIDE DEF I
  <2> QED
    BY <1>0, <1>5, <1>6, <1>7, NoGap
<1>9. ASSUME I = recordPage, Cardinality(recordPage) < verifyPage, NEW i \in DOMAIN records
      PROVE  i <= k + Cardinality(I)
  <2>1. Cardinality(recordPage) # verifyPage
    BY <1>0, <1>4, <1>9
  <2>2. I = S
    BY <1>4, <1>9, <2>1
  <2>3. CASE i > k
    <3>1. i \in I
      BY <2>2, <2>3 DEF S
    <3> HIDE DEF I
    <3> QED
      BY <1>0, <1>8, <3>1
  <2>4. CASE ~(i > k)
    <3> HIDE DEF I
    <3> QED
      BY <1>0, <1>2, <1>8, <2>4
  <2> QED
    BY <2>3, <2>4
<1>10. \A n \in recordPage : \A m \in DOMAIN records : k < m /\ m < n => m \in recordPage
  <2>1. \A m \in DOMAIN records : k < m => m \in S
    BY <1>0, <1>2 DEF S
  <2> QED
    BY <1>4, <2>1
<1>11. recordPage \subseteq {n \in DOMAIN records : n > w.records}
  BY <1>4 DEF S
<1> QED
  BY <1>6, <1>8, <1>9, <1>10, <1>11

\* What one page of checkpoints shows: it has no gap, a page that is not full is the end of
\* what the walk has passed, and the greatest of the intact ones is where the walk goes on.
LEMMA CheckpointsPage ==
  ASSUME ShapeInv, WalkControl
  PROVE  /\ checkpointPage \subseteq {c \in DOMAIN checkpoints : c > w.cpSeq /\ c <= w.records}
         /\ \A c \in checkpointPage : \A d \in DOMAIN checkpoints :
              w.cpSeq < d /\ d < c => d \in checkpointPage
         /\ Cardinality(checkpointPage) # verifyPage =>
              \A c \in DOMAIN checkpoints : c > w.cpSeq /\ c <= w.records => c \in checkpointPage
         /\ Max({w.cpSeq} \cup intactCheckpoints) \in {w.cpSeq} \cup intactCheckpoints
         /\ \A c \in {w.cpSeq} \cup intactCheckpoints : c <= Max({w.cpSeq} \cup intactCheckpoints)
         /\ \A c \in checkpointPage :
              /\ before(c) \in {w.cpSeq} \cup {d \in checkpointPage : d < c}
              /\ w.cpSeq <= before(c)
              /\ \A d \in checkpointPage : d < c => d <= before(c)
<1> DEFINE S == {c \in DOMAIN checkpoints : c > w.cpSeq /\ c <= w.records}
           P == checkpointPage
<1>0. w.records \in Nat /\ w.cpSeq \in Nat /\ verifyPage \in Nat
  BY VerifyAssumption DEF WalkControl
<1>1. DOMAIN checkpoints \subseteq Nat
  BY DEF ShapeInv, TypeOK
<1>2. S \subseteq 0 .. w.records
  BY <1>0, <1>1
<1>3. P = Page(S)
  BY DEF checkpointPage
<1> HIDE DEF S, P
<1>4. /\ P \subseteq S
      /\ \A c \in P : \A d \in S : d < c => d \in P
      /\ Cardinality(P) # verifyPage => P = S
  BY <1>0, <1>2, <1>3, PageIs
<1>5. \A c \in P : c \in Nat /\ c > w.cpSeq /\ c <= w.records /\ c \in DOMAIN checkpoints
  BY <1>1, <1>4 DEF S
<1>6. \A c \in P : \A d \in DOMAIN checkpoints : w.cpSeq < d /\ d < c => d \in P
  <2> SUFFICES ASSUME NEW c \in P, NEW d \in DOMAIN checkpoints, w.cpSeq < d, d < c
               PROVE  d \in P
    OBVIOUS
  <2>1. c \in Nat /\ c <= w.records /\ d \in Nat
    BY <1>1, <1>5
  <2>2. d \in S
    BY <1>0, <2>1 DEF S
  <2> QED
    BY <1>4, <2>2
<1>7. ASSUME NEW T, T \subseteq P
      PROVE  /\ Max({w.cpSeq} \cup T) \in {w.cpSeq} \cup T
             /\ \A c \in {w.cpSeq} \cup T : c <= Max({w.cpSeq} \cup T)
  <2> DEFINE U == {w.cpSeq} \cup T
             b == w.cpSeq + w.records
  <2>1. U \subseteq Nat /\ U # {} /\ b \in Nat /\ \A c \in U : c <= b
    BY <1>0, <1>5, <1>7
  <2> HIDE DEF U, b
  <2>2. Max(U) \in U /\ \A c \in U : c <= Max(U)
    BY <2>1, MaxOf
  <2> QED
    BY <2>2 DEF U
<1>8. intactCheckpoints \subseteq P
  BY DEF intactCheckpoints, P
<1>9. ASSUME NEW c \in P
      PROVE  /\ before(c) \in {w.cpSeq} \cup {d \in P : d < c}
             /\ w.cpSeq <= before(c)
             /\ \A d \in P : d < c => d <= before(c)
  <2> DEFINE T == {d \in P : d < c}
  <2>1. before(c) = Max({w.cpSeq} \cup T)
    BY DEF before, P
  <2>2. T \subseteq P
    OBVIOUS
  <2>3. \A d \in P : d < c => d \in T
    OBVIOUS
  <2> HIDE DEF T
  <2>4. before(c) \in {w.cpSeq} \cup T /\ \A d \in {w.cpSeq} \cup T : d <= before(c)
    BY <1>7, <2>1, <2>2
  <2> QED
    BY <2>3, <2>4 DEF T
<1>10. ASSUME Cardinality(P) # verifyPage, NEW c \in DOMAIN checkpoints, c > w.cpSeq, c <= w.records
       PROVE  c \in P
  BY <1>4, <1>10 DEF S
<1>11. P \subseteq {c \in DOMAIN checkpoints : c > w.cpSeq /\ c <= w.records}
  BY <1>4 DEF S
<1>12. /\ Max({w.cpSeq} \cup intactCheckpoints) \in {w.cpSeq} \cup intactCheckpoints
       /\ \A c \in {w.cpSeq} \cup intactCheckpoints : c <= Max({w.cpSeq} \cup intactCheckpoints)
  BY <1>7, <1>8
<1> QED
  BY <1>6, <1>9, <1>10, <1>11, <1>12 DEF P

\* Verify moves from position to position, and ends with its process.
LEMMA WalkControlStep ==
  ASSUME ShapeInv, WalkControl, [VerifyNext]_allVars
  PROVE  WalkControl'
<1> USE DEF WalkControl, Locked
<1>0. TypeOK /\ Control
  BY DEF ShapeInv
<1>1. CASE LogStep
  <2>1. UNCHANGED <<edits, edited>>
    BY <1>1, LogSteps
  <2>2. CASE LogOpens \/ LogCrashes
    BY <2>1, <2>2 DEF LogOpens, LogCrashes, OpenMove, CrashMove, Restarts, newWalk
  <2>3. CASE GoesOn /\ UNCHANGED verifyVars
    BY <2>1, <2>3 DEF GoesOn, verifyVars
  <2>4. CASE LogSigns \/ LogQuiet \/ \E r \in RecordSet : LogStores(r)
    BY <2>3, <2>4 DEF LogSigns, LogQuiet, LogStores, SignMove, QuietMove, StoreMove
  <2> QED
    BY <1>1, <2>2, <2>4, LogSteps
<1>2. CASE VerifyBegins
  BY <1>2 DEF VerifyBegins, newWalk, Running, vars, life
<1>3. CASE VerifyRecords
  <2> DEFINE n == w.records + Cardinality(intactRecords)
  <2>1. n \in Nat
    BY RecordsPage
  <2>2. /\ at = "records"
        /\ w' = [w EXCEPT !.records = n, !.prev = IF n = w.records THEN @ ELSE records[n].hash]
        /\ breakSeq' = IF intactRecords # recordPage THEN n + 1 ELSE 0
        /\ at' = IF intactRecords # recordPage \/ Cardinality(recordPage) < verifyPage
                 THEN "checkpoints" ELSE "records"
        /\ UNCHANGED <<mu, verdict, life, edits, edited>>
    BY <1>3 DEF VerifyRecords, VerifyFrame
  <2> HIDE DEF n
  <2>3. /\ w' = [records |-> w'.records, prev |-> w'.prev, cpSeq |-> w'.cpSeq,
                 checkpoints |-> w'.checkpoints]
        /\ w'.records \in Nat /\ w'.cpSeq \in Nat
    BY <2>1, <2>2
  <2> QED
    BY <2>1, <2>2, <2>3 DEF life
<1>4. CASE VerifyCheckpoints
  <2> DEFINE last == Max({w.cpSeq} \cup intactCheckpoints)
             broken == intactCheckpoints # checkpointPage
             more == ~broken /\ Cardinality(checkpointPage) = verifyPage
  <2>1. last \in Nat
    <3>1. intactCheckpoints \subseteq Nat
      BY CheckpointsPage DEF intactCheckpoints, ShapeInv, TypeOK
    <3> QED
      BY <3>1, CheckpointsPage
  <2>2. /\ at = "checkpoints"
        /\ w' = [w EXCEPT !.cpSeq = last,
                          !.checkpoints = @ + Cardinality(intactCheckpoints),
                          !.records = IF broken THEN last ELSE @]
        /\ UNCHANGED <<breakSeq, life, edits, edited>>
        /\ \/ UNCHANGED <<at, mu, verdict>>
           \/ Return("broken")
           \/ breakSeq = 0 /\ at' = (IF Locked THEN "end" ELSE "unlocked") /\ UNCHANGED <<mu, verdict>>
    BY <1>4 DEF VerifyCheckpoints, VerifyFrame
  <2> HIDE DEF last, broken
  <2>3. /\ w' = [records |-> w'.records, prev |-> w'.prev, cpSeq |-> w'.cpSeq,
                 checkpoints |-> w'.checkpoints]
        /\ w'.records \in Nat /\ w'.cpSeq \in Nat
    BY <2>1, <2>2
  <2> QED
    BY <2>2, <2>3 DEF life, Return
<1>5. CASE VerifyLocks
  BY <1>5 DEF VerifyLocks, VerifyFrame, life
<1>6. CASE VerifyEnds \/ VerifyFails
  BY <1>6 DEF VerifyEnds, VerifyFails, Return, VerifyFrame, life
<1>7. CASE Edit
  BY <1>7, EditWrites DEF verifyVars, life
<1>8. CASE UNCHANGED allVars
  BY <1>8 DEF allVars, vars, verifyVars, life
<1> QED
  BY <1>1, <1>2, <1>3, <1>4, <1>5, <1>6, <1>7, <1>8 DEF VerifyNext, Verify

\* A page of records extends the chain the walk has found.
LEMMA RecordsWalk ==
  ASSUME ShapeInv, WalkControl, WalkInv, VerifyRecords
  PROVE  WalkInv'
<1> DEFINE k == w.records
           n == k + Cardinality(intactRecords)
<1>0. /\ at = "records" /\ k \in Nat
      /\ w' = [w EXCEPT !.records = n, !.prev = IF n = k THEN @ ELSE records[n].hash]
      /\ breakSeq' = IF intactRecords # recordPage THEN n + 1 ELSE 0
      /\ at' = IF intactRecords # recordPage \/ Cardinality(recordPage) < verifyPage
               THEN "checkpoints" ELSE "records"
      /\ UNCHANGED <<mu, records, checkpoints, edited>>
      /\ w = [records |-> w.records, prev |-> w.prev, cpSeq |-> w.cpSeq, checkpoints |-> w.checkpoints]
      /\ w.cpSeq \in Nat
  BY DEF VerifyRecords, VerifyFrame, tables, WalkControl
<1>1. /\ n \in Nat /\ n >= k /\ intactRecords = k + 1 .. n
      /\ \A i \in intactRecords : i \in DOMAIN records /\ chains(i)
      /\ intactRecords = recordPage /\ Cardinality(recordPage) < verifyPage =>
           \A i \in DOMAIN records : i <= n
  BY <1>0, RecordsPage
<1> SUFFICES ASSUME Underway' PROVE
      /\ Chained(records, n, w'.prev)
      /\ w.cpSeq = 0 \/ w.cpSeq \in DOMAIN checkpoints
      /\ w.cpSeq <= n
      /\ Covered(checkpoints, records, w.cpSeq)
      /\ Locked' /\ at' \in {"checkpoints", "end"} /\ breakSeq' = 0 =>
           \A i \in DOMAIN records : i <= n
      /\ at' # "end"
  <2>1. w'.records = n /\ w'.cpSeq = w.cpSeq
    BY <1>0
  <2> QED
    BY <1>0, <2>1 DEF WalkInv
<1>2. Underway
  BY <1>0 DEF Underway
<1>3. /\ Chained(records, k, w.prev)
      /\ w.cpSeq = 0 \/ w.cpSeq \in DOMAIN checkpoints
      /\ w.cpSeq <= k /\ Covered(checkpoints, records, w.cpSeq)
  BY <1>2 DEF WalkInv
<1>4. w'.prev = IF n = k THEN w.prev ELSE records[n].hash
  BY <1>0
<1>5. at' # "end"
  BY <1>0
<1>6. Locked' /\ at' \in {"checkpoints", "end"} /\ breakSeq' = 0 =>
        \A i \in DOMAIN records : i <= n
  BY <1>0, <1>1
<1> HIDE DEF n
<1>7. ASSUME NEW i \in 1 .. n
      PROVE  /\ i \in DOMAIN records
             /\ records[i].hash = EntryHash(i, records[i].r, records[i].prev)
             /\ records[i].prev = IF i = 1 THEN genesis ELSE records[i - 1].hash
  <2>1. CASE i <= k
    <3>1. i \in 1 .. k
      BY <1>0, <1>1, <2>1
    <3> QED
      BY <1>3, <3>1 DEF Chained
  <2>2. CASE i > k
    <3>1. i \in intactRecords
      BY <1>0, <1>1, <2>2
    <3>2. /\ i \in DOMAIN records
          /\ records[i].hash = EntryHash(i, records[i].r, records[i].prev)
          /\ records[i].prev = IF i = k + 1 THEN w.prev ELSE records[i - 1].hash
      BY <1>1, <3>1 DEF chains
    <3>3. w.prev = IF k = 0 THEN genesis ELSE records[k].hash
      BY <1>3 DEF Chained
    <3>4. i = k + 1 => i - 1 = k /\ (i = 1 <=> k = 0)
      BY <1>0
    <3>5. i = 1 => i = k + 1
      BY <1>0, <2>2
    <3> QED
      BY <3>2, <3>3, <3>4, <3>5
  <2> QED
    BY <1>0, <1>1, <2>1, <2>2
<1>8. w'.prev = IF n = 0 THEN genesis ELSE records[n].hash
  <2>1. n = 0 => n = k
    BY <1>0, <1>1
  <2> QED
    BY <1>3, <1>4, <2>1 DEF Chained
<1>9. Chained(records, n, w'.prev)
  BY <1>7, <1>8 DEF Chained
<1>10. w.cpSeq <= n
  BY <1>0, <1>1, <1>3
<1> QED
  BY <1>3, <1>5, <1>6, <1>9, <1>10

\* A page of checkpoints extends the covered part.
LEMMA CheckpointsWalk ==
  ASSUME ShapeInv, WalkControl, WalkInv, VerifyCheckpoints
  PROVE  WalkInv'
<1> DEFINE I == intactCheckpoints
           P == checkpointPage
           last == Max({w.cpSeq} \cup I)
<1>0. /\ at = "checkpoints" /\ w.cpSeq \in Nat /\ w.records \in Nat
      /\ w' = [w EXCEPT !.cpSeq = last, !.checkpoints = @ + Cardinality(I),
                        !.records = IF I # P THEN last ELSE @]
      /\ \/ I = P /\ at' = at /\ mu' = mu
         \/ at' = "returned"
         \/ /\ I = P /\ Cardinality(P) # verifyPage
            /\ at' = (IF Locked THEN "end" ELSE "unlocked") /\ mu' = mu
      /\ UNCHANGED <<records, checkpoints, edited, breakSeq>>
      /\ w = [records |-> w.records, prev |-> w.prev, cpSeq |-> w.cpSeq, checkpoints |-> w.checkpoints]
      /\ DOMAIN checkpoints \subseteq Nat
      /\ \A c \in DOMAIN checkpoints : checkpoints[c].prevSeq \in Nat
  BY DEF VerifyCheckpoints, VerifyFrame, Return, tables, WalkControl, ShapeInv, TypeOK
<1>1. /\ P \subseteq {c \in DOMAIN checkpoints : c > w.cpSeq /\ c <= w.records}
      /\ \A c \in P : \A d \in DOMAIN checkpoints : w.cpSeq < d /\ d < c => d \in P
      /\ Cardinality(P) # verifyPage =>
           \A c \in DOMAIN checkpoints : c > w.cpSeq /\ c <= w.records => c \in P
      /\ last \in {w.cpSeq} \cup I
      /\ \A c \in {w.cpSeq} \cup I : c <= last
      /\ \A c \in P : /\ before(c) \in {w.cpSeq} \cup {d \in P : d < c}
                      /\ w.cpSeq <= before(c)
                      /\ \A d \in P : d < c => d <= before(c)
  BY CheckpointsPage
<1>2. I \subseteq P /\ \A c \in I : \A d \in P : d <= c => follows(d)
  BY DEF intactCheckpoints
<1> HIDE DEF last, I, P
<1> SUFFICES ASSUME Underway' PROVE
      /\ Chained(records, w.records, w.prev)
      /\ last = 0 \/ last \in DOMAIN checkpoints
      /\ last <= w.records
      /\ Covered(checkpoints, records, last)
      /\ Locked' /\ at' \in {"checkpoints", "end"} /\ breakSeq' = 0 =>
           \A i \in DOMAIN records : i <= w.records
      /\ at' = "end" => \A c \in DOMAIN checkpoints : c <= w.records => c <= last
  <2>0. Underway' => I = P
    BY <1>0 DEF Underway
  <2>1. w'.cpSeq = last /\ w'.prev = w.prev /\ (I = P => w'.records = w.records)
    BY <1>0
  <2> QED
    BY <1>0, <2>0, <2>1 DEF WalkInv
<1>3. Underway /\ I = P /\ at' # "returned"
  BY <1>0 DEF Underway
<1>4. /\ Chained(records, w.records, w.prev)
      /\ w.cpSeq = 0 \/ w.cpSeq \in DOMAIN checkpoints
      /\ w.cpSeq <= w.records /\ Covered(checkpoints, records, w.cpSeq)
      /\ Locked /\ breakSeq = 0 => \A i \in DOMAIN records : i <= w.records
  BY <1>0, <1>3 DEF WalkInv
<1>5. Locked' /\ at' \in {"checkpoints", "end"} /\ breakSeq' = 0 =>
        \A i \in DOMAIN records : i <= w.records
  BY <1>0, <1>3, <1>4 DEF Locked
<1>6. last \in Nat /\ last <= w.records /\ (last = 0 \/ last \in DOMAIN checkpoints)
  BY <1>0, <1>1, <1>2, <1>4
<1>7. at' = "end" => \A c \in DOMAIN checkpoints : c <= w.records => c <= last
  <2> SUFFICES ASSUME at' = "end", NEW c \in DOMAIN checkpoints, c <= w.records
               PROVE  c <= last
    OBVIOUS
  <2>1. CASE c > w.cpSeq
    <3>1. c \in I
      BY <1>0, <1>1, <1>3, <2>1
    <3> QED
      BY <1>1, <3>1
  <2>2. CASE ~(c > w.cpSeq)
    <3>1. w.cpSeq <= last /\ c \in Nat
      BY <1>0, <1>1
    <3> QED
      BY <1>0, <1>6, <2>2, <3>1
  <2> QED
    BY <2>1, <2>2
<1>8. ASSUME NEW c \in DOMAIN checkpoints, c <= last
      PROVE  /\ c \in DOMAIN records /\ checkpoints[c].head = records[c].hash
             /\ checkpoints[c].sig = message(c, checkpoints[c].prevSeq, checkpoints[c].head)
             /\ checkpoints[c].prevSeq < c
             /\ checkpoints[c].prevSeq = 0 \/ checkpoints[c].prevSeq \in DOMAIN checkpoints
             /\ \A d \in DOMAIN checkpoints : d <= checkpoints[c].prevSeq \/ d >= c
  <2>1. CASE c <= w.cpSeq
    BY <1>4, <2>1 DEF Covered
  <2>2. CASE ~(c <= w.cpSeq)
    <3>1. c \in Nat /\ c > w.cpSeq /\ last \in I /\ last \in P
      <4>1. c \in Nat /\ c > w.cpSeq
        BY <1>0, <2>2
      <4> QED
        BY <1>0, <1>1, <1>2, <1>8, <4>1
    <3>2. c \in P
      <4>1. CASE c = last
        BY <3>1, <4>1
      <4>2. CASE c # last
        BY <1>1, <1>6, <1>8, <3>1, <4>2
      <4> QED
        BY <4>1, <4>2
    <3>3. follows(c)
      BY <1>2, <1>8, <3>1, <3>2
    <3>4. /\ checkpoints[c].sig = message(c, checkpoints[c].prevSeq, checkpoints[c].head)
          /\ checkpoints[c].prevSeq = before(c)
          /\ c \in DOMAIN records /\ checkpoints[c].head = records[c].hash
      BY <3>3 DEF follows
    <3>5. /\ before(c) = w.cpSeq \/ (before(c) \in P /\ before(c) < c)
          /\ w.cpSeq <= before(c)
          /\ \A d \in P : d < c => d <= before(c)
      BY <1>1, <3>2
    <3>6. before(c) \in Nat /\ before(c) < c /\ (before(c) = 0 \/ before(c) \in DOMAIN checkpoints)
      BY <1>0, <1>1, <1>4, <3>1, <3>4, <3>5
    <3>7. ASSUME NEW d \in DOMAIN checkpoints PROVE d <= before(c) \/ d >= c
      <4>1. d \in Nat
        BY <1>0
      <4>2. CASE w.cpSeq < d /\ d < c
        BY <1>1, <3>2, <3>5, <4>2
      <4>3. CASE d <= w.cpSeq
        BY <1>0, <3>5, <3>6, <4>1, <4>3
      <4> QED
        BY <1>0, <3>1, <4>1, <4>2, <4>3
    <3> QED
      BY <3>4, <3>6, <3>7
  <2> QED
    BY <2>1, <2>2
<1>9. Covered(checkpoints, records, last)
  BY <1>8 DEF Covered
<1> QED
  BY <1>4, <1>5, <1>6, <1>7, <1>9

\* A walk keeps what it has found, while only the log writes.
LEMMA WalkStep ==
  ASSUME VerifyInv, [VerifyNext]_allVars
  PROVE  WalkInv'
<1>0. /\ ShapeInv /\ WroteInv /\ SignedInv /\ WalkControl /\ WalkInv
      /\ seq \in Nat /\ cpSeq \in Nat /\ w.records \in Nat /\ w.cpSeq \in Nat
      /\ DOMAIN checkpoints \subseteq Nat
      /\ \A c \in DOMAIN checkpoints : checkpoints[c].prevSeq \in Nat
  BY DEF VerifyInv, ShapeInv, TypeOK, WalkControl
<1>1. CASE LogStep
  <2>1. UNCHANGED <<edits, edited>>
    BY <1>0, <1>1, LogSteps
  <2>2. CASE LogOpens \/ LogCrashes
    BY <2>2 DEF LogOpens, LogCrashes, Restarts, WalkInv, Underway
  <2>3. CASE LogQuiet
    BY <1>0, <2>1, <2>3 DEF LogQuiet, QuietMove, GoesOn, tables, verifyVars, WalkInv, Underway, Locked
  <2>4. ASSUME NEW r \in RecordSet, LogStores(r) PROVE WalkInv'
    <3> DEFINE row == newEntry(seq + 1, r, head)
               m == seq + 1
    <3>1. /\ records' = Insert(records, m, row) /\ m \notin DOMAIN records
          /\ checkpoints' = checkpoints /\ mu # "verify" /\ mu' # "verify"
          /\ UNCHANGED verifyVars
      BY <2>4 DEF LogStores, StoreMove, GoesOn
    <3>2. m \in Nat
      BY <1>0
    <3> HIDE DEF row, m
    <3> SUFFICES ASSUME Underway' PROVE WalkInv'
      BY DEF WalkInv
    <3>3. Underway /\ at # "end"
      BY <1>0, <2>1, <3>1 DEF verifyVars, Underway, WalkControl, Locked
    <3>4. m \notin 1 .. w.records /\ Chained(records, w.records, w.prev)
      BY <1>0, <3>1, <3>3 DEF WalkInv, Chained
    <3>5. Chained(records', w.records, w.prev)
      BY <1>0, <3>1, <3>2, <3>4, ChainedInsert
    <3>6. Covered(checkpoints, records', w.cpSeq)
      BY <1>0, <3>1, <3>2, <3>3, CoveredInsert DEF WalkInv
    <3> QED
      BY <1>0, <3>1, <3>3, <3>5, <3>6 DEF WalkInv, verifyVars, Locked
  <2>5. CASE LogSigns
    <3>1. /\ checkpoints' = Insert(checkpoints, seq, newCheckpoint) /\ seq > cpSeq
          /\ records' = records /\ mu # "verify" /\ mu' # "verify" /\ phase # "down"
          /\ UNCHANGED verifyVars
      BY <2>5 DEF LogSigns, SignMove, GoesOn
    <3> SUFFICES ASSUME Underway' PROVE WalkInv'
      BY DEF WalkInv
    <3>3. Underway /\ at # "end"
      BY <1>0, <2>1, <3>1 DEF verifyVars, Underway, WalkControl, Locked
    <3>4. w.cpSeq < seq
      <4>1. w.cpSeq = 0 \/ w.cpSeq \in DOMAIN wrote.checkpoints
        BY <1>0, <3>3 DEF WalkInv, SignedInv
      <4>2. \A c \in DOMAIN wrote.checkpoints : c <= cpSeq
        BY <1>0, <3>1 DEF WroteInv, IsLast
      <4> QED
        BY <1>0, <3>1, <4>1, <4>2
    <3>5. Covered(checkpoints', records, w.cpSeq)
      BY <1>0, <3>1, <3>3, <3>4, CoveredInsert DEF WalkInv
    <3>6. DOMAIN checkpoints \subseteq DOMAIN checkpoints'
      BY <3>1 DEF Insert
    <3> QED
      BY <1>0, <3>1, <3>3, <3>5, <3>6 DEF WalkInv, verifyVars, Locked
  <2> QED
    BY <1>0, <1>1, <2>2, <2>3, <2>4, <2>5, LogSteps
<1>2. CASE VerifyBegins
  <2>1. /\ w'.records = 0 /\ w'.cpSeq = 0 /\ w'.prev = genesis
        /\ UNCHANGED <<records, checkpoints>>
        /\ at' \in {"records", "returned"}
    BY <1>2 DEF VerifyBegins, newWalk, vars, tables
  <2>2. Chained(records, 0, genesis)
    BY DEF Chained
  <2>3. Covered(checkpoints, records, 0)
    <3>1. \A c \in DOMAIN checkpoints : c > 0
      BY <1>0 DEF ShapeInv, TablesHaveLast, IsLast
    <3> QED
      BY <1>0, <3>1 DEF Covered
  <2> QED
    BY <2>1, <2>2, <2>3 DEF WalkInv, Underway
<1>3. CASE VerifyRecords
  BY <1>0, <1>3, RecordsWalk
<1>4. CASE VerifyCheckpoints
  BY <1>0, <1>4, CheckpointsWalk
<1>5. CASE VerifyLocks
  BY <1>0, <1>5 DEF VerifyLocks, VerifyFrame, tables, WalkInv, Underway
<1>6. CASE VerifyEnds \/ VerifyFails
  BY <1>6 DEF VerifyEnds, VerifyFails, Return, WalkInv, Underway
<1>7. CASE Edit
  BY <1>0, <1>7, EditWrites DEF WalkInv, Underway
<1>8. CASE UNCHANGED allVars
  BY <1>0, <1>8 DEF allVars, vars, tables, verifyVars, WalkInv, Underway, Locked
<1> QED
  BY <1>1, <1>2, <1>3, <1>4, <1>5, <1>6, <1>7, <1>8 DEF VerifyNext, Verify

\* VerifyInv holds in every reachable state of the log with a Verify beside it and a file
\* that may be edited any number of times.
LEMMA VerifyAlways == VerifySpec => []VerifyInv
<1>1. VerifyInit => VerifyInv
  <2> SUFFICES ASSUME VerifyInit PROVE VerifyInv
    OBVIOUS
  <2>1. ChainInv /\ Init
    BY InitChain DEF VerifyInit
  <2>2. /\ records = NoRows /\ checkpoints = NoRows
        /\ wrote = [records |-> NoRows, checkpoints |-> NoRows]
        /\ phase = "down" /\ mu = "free"
    BY <2>1 DEF VerifyInit, Tables, Init
  <2>3. DOMAIN NoRows = {} /\ NoRows = [i \in DOMAIN NoRows |-> NoRows[i]]
    BY DEF NoRows
  <2>4. ShapeInv
    BY <2>1, <2>2, <2>3 DEF ChainInv, ShapeInv, Shape
  <2>5. WroteInv /\ SignedInv
    BY <2>2, <2>3 DEF WroteInv, SignedInv
  <2>6. WalkControl /\ WalkInv
    BY <2>2 DEF VerifyInit, WalkControl, WalkInv, Underway, newWalk, Locked
  <2> QED
    BY <2>4, <2>5, <2>6 DEF VerifyInv
<1>2. VerifyInv /\ [VerifyNext]_allVars => VerifyInv'
  BY ShapeStep, WroteStep, SignedStep, WalkControlStep, WalkStep DEF VerifyInv
<1> QED
  BY <1>1, <1>2, PTL DEF VerifySpec

-----------------------------------------------------------------------------
(***************************************************************************)
(* What the verdict means.                                                 *)
(***************************************************************************)
\* A hash has one preimage (the symbolic hash is the tuple it covers).
LEMMA HashInjective ==
  ASSUME NEW n, NEW r, NEW p, NEW q, NEW u, EntryHash(n, r, p) = EntryHash(n, q, u)
  PROVE  r = q /\ p = u
<1>1. /\ EntryHash(n, r, p)[3] = r /\ EntryHash(n, q, u)[3] = q
      /\ EntryHash(n, r, p)[4] = p /\ EntryHash(n, q, u)[4] = u
  BY DEF EntryHash
<1> QED
  BY <1>1

\* Two chains of the same length and the same last hash are the same: a hash covers the
\* hash before it, so the greatest row that differs would have the same hash in both.
LEMMA SameHeadSameChain ==
  ASSUME NEW R, NEW T, NEW C, NEW D, NEW n \in Nat, NEW h,
         Chained(R, n, h), Chained(T, n, h), Shape(R, C), Shape(T, D),
         DOMAIN R = 1 .. n, DOMAIN T = 1 .. n
  PROVE  R = T
<1>1. ASSUME NEW i \in 1 .. n, R[i].hash = T[i].hash PROVE R[i] = T[i]
  <2>1. /\ R[i].hash = EntryHash(i, R[i].r, R[i].prev)
        /\ T[i].hash = EntryHash(i, T[i].r, T[i].prev)
    BY DEF Chained
  <2>2. R[i].r = T[i].r /\ R[i].prev = T[i].prev
    <3>1. EntryHash(i, R[i].r, R[i].prev) = EntryHash(i, T[i].r, T[i].prev)
      BY <1>1, <2>1
    <3> QED
      BY ONLY <3>1, HashInjective
  <2> QED
    BY <1>1, <2>2 DEF Shape
<1>2. ASSUME NEW i \in 1 .. n, R[i] # T[i] PROVE FALSE
  <2> DEFINE Differ == {j \in 1 .. n : R[j] # T[j]}
  <2>1. Differ \subseteq Nat /\ Differ # {} /\ \A j \in Differ : j <= n
    BY <1>2
  <2>2. PICK m \in Differ : \A j \in Differ : j <= m
    <3> HIDE DEF Differ
    <3> QED
      BY <2>1, GreatestMember
  <2>3. m \in 1 .. n /\ R[m] # T[m]
    BY <2>2
  <2>4. CASE m = n
    <3>1. n # 0
      BY <2>3, <2>4
    <3>2. R[m].hash = h /\ T[m].hash = h
      BY <2>4, <3>1 DEF Chained
    <3> QED
      BY <1>1, <2>3, <3>2
  <2>5. CASE m # n
    <3>1. m + 1 \in 1 .. n /\ m + 1 # 1 /\ ~(m + 1 <= m) /\ (m + 1) - 1 = m
      BY <2>3, <2>5
    <3>2. R[m + 1] = T[m + 1]
      BY <2>2, <3>1
    <3>3. R[m + 1].prev = R[m].hash /\ T[m + 1].prev = T[m].hash
      BY <3>1 DEF Chained
    <3>4. R[m].hash = T[m].hash
      BY <3>2, <3>3
    <3> QED
      BY <1>1, <2>3, <3>4
  <2> QED
    BY <2>4, <2>5
<1>3. R = [i \in 1 .. n |-> R[i]] /\ T = [i \in 1 .. n |-> T[i]]
  BY DEF Shape
<1>4. \A i \in 1 .. n : R[i] = T[i]
  BY <1>2
<1> QED
  BY <1>3, <1>4

\* Checkpoints that carry the signatures of D, name their predecessors and reach the last
\* one of D, are all of D: the greatest one missing would be named by the next.
LEMMA NoCheckpointMissing ==
  ASSUME NEW C, NEW D, NEW R, NEW n \in Nat, NEW last \in Nat,
         DOMAIN C \subseteq DOMAIN D,
         \A c \in DOMAIN C : C[c].prevSeq = D[c].prevSeq,
         IsLast(D, n), last = 0 \/ last \in DOMAIN C, n <= last,
         \A c \in DOMAIN D : D[c].prevSeq \in Nat,
         Covered(C, R, last), Covered(D, R, n)
  PROVE  DOMAIN C = DOMAIN D
<1>0. \A c \in DOMAIN D : c \in Nat /\ c > 0 /\ c <= n
  BY DEF IsLast
<1>1. last # 0 => last = n
  <2>1. last # 0 => last \in DOMAIN D
    OBVIOUS
  <2> QED
    BY <1>0, <2>1
<1>2. ASSUME NEW x \in DOMAIN D, x \notin DOMAIN C PROVE FALSE
  <2> DEFINE Missing == DOMAIN D \ DOMAIN C
  <2>1. Missing \subseteq Nat /\ Missing # {} /\ \A j \in Missing : j <= n
    BY <1>0, <1>2
  <2>2. PICK c \in Missing : \A j \in Missing : j <= c
    <3> HIDE DEF Missing
    <3> QED
      BY <2>1, GreatestMember
  <2>3. c \in DOMAIN D /\ c \notin DOMAIN C /\ c \in Nat /\ c > 0 /\ c <= n
    BY <1>0, <2>2
  <2>4. last = n /\ n \in DOMAIN C /\ c < n
    BY <1>0, <1>1, <2>3
  <2> DEFINE Above == {d \in DOMAIN D : d > c}
  <2>5. Above \subseteq Nat /\ Above # {}
    BY <1>0, <2>4
  <2>6. PICK d \in Above : \A e \in Above : d <= e
    <3> HIDE DEF Above
    <3> QED
      BY <2>5, LeastMember
  <2>7. d \in DOMAIN D /\ d \in Nat /\ d > c /\ d <= n
    BY <1>0, <2>6
  <2>8. d \in DOMAIN C
    BY <2>2, <2>3, <2>7
  <2> DEFINE p == D[d].prevSeq
  <2>9. /\ p \in Nat /\ p < d /\ (p = 0 \/ p \in DOMAIN D)
        /\ \A e \in DOMAIN D : e <= p \/ e >= d
    BY <2>7 DEF Covered
  <2>10. c <= p
    BY <2>3, <2>7, <2>9
  <2>11. p = c
    <3>1. p \in DOMAIN D
      BY <2>3, <2>9, <2>10
    <3>2. CASE p > c
      <4>1. p \in Above
        BY <3>1, <3>2
      <4> QED
        BY <2>6, <2>7, <2>9, <4>1
    <3> QED
      BY <2>3, <2>9, <2>10, <3>2
  <2>12. C[d].prevSeq = c /\ (C[d].prevSeq = 0 \/ C[d].prevSeq \in DOMAIN C)
    <3>1. d <= last
      BY <2>4, <2>7
    <3> QED
      BY <2>8, <2>11, <3>1 DEF Covered
  <2> QED
    BY <2>3, <2>12
<1> QED
  BY <1>2

\* A walk that ends where this process says the chain ends has seen the tables as this
\* process found and wrote them.
LEMMA EndIsWritten ==
  ASSUME VerifyInv, at = "end", ~edited, sound, endHolds
  PROVE  Tables = wrote
<1> DEFINE R == wrote.records
           D == wrote.checkpoints
           C == checkpoints
<1>0. /\ seq \in Nat /\ cpSeq \in Nat /\ w.cpSeq \in Nat /\ w.records \in Nat
      /\ Shape(records, C) /\ Shape(R, D)
      /\ wrote = [records |-> R, checkpoints |-> D]
      /\ DOMAIN C \subseteq Nat
      /\ Locked /\ phase # "down" /\ breakSeq = 0
  BY DEF VerifyInv, ShapeInv, TypeOK, WalkControl
<1>1. /\ w.records = seq /\ w.prev = head /\ cpSeq <= w.cpSeq
      /\ \A c \in DOMAIN C : c <= w.records
  BY <1>0 DEF endHolds
<1>2. /\ Chained(records, seq, head)
      /\ w.cpSeq = 0 \/ w.cpSeq \in DOMAIN C
      /\ Covered(C, records, w.cpSeq)
      /\ \A i \in DOMAIN records : i <= seq
      /\ \A c \in DOMAIN C : c <= w.cpSeq
  BY <1>0, <1>1 DEF VerifyInv, WalkInv, Underway
<1>3. IsLast(R, seq) /\ IsLast(D, cpSeq) /\ Chained(R, seq, head) /\ Covered(D, R, cpSeq)
  BY <1>0 DEF VerifyInv, WroteInv
<1>4. DOMAIN records = 1 .. seq
  <2>1. \A i \in DOMAIN records : i \in Nat /\ i > 0
    BY DEF VerifyInv, ShapeInv, TablesHaveLast, IsLast
  <2>2. \A i \in DOMAIN records : i \in 1 .. seq
    BY <1>0, <1>2, <2>1
  <2> QED
    BY <1>2, <2>2 DEF Chained
<1>5. DOMAIN R = 1 .. seq
  <2>1. \A i \in DOMAIN R : i \in 1 .. seq
    BY <1>0, <1>3 DEF IsLast
  <2> QED
    BY <1>3, <2>1 DEF Chained
<1>6. records = R
  <2> HIDE DEF R, D, C
  <2> QED
    BY <1>0, <1>2, <1>3, <1>4, <1>5, SameHeadSameChain
<1>7. \A c \in DOMAIN C : /\ c \in DOMAIN D /\ C[c].sig = D[c].sig /\ C[c].prevSeq = D[c].prevSeq
  BY DEF VerifyInv, SignedInv
<1>8. DOMAIN C = DOMAIN D
  <2>1. \A c \in DOMAIN D : D[c].prevSeq \in Nat
    <3> SUFFICES ASSUME NEW c \in DOMAIN D PROVE D[c].prevSeq \in Nat
      OBVIOUS
    <3>1. c <= cpSeq
      BY <1>3 DEF IsLast
    <3>2. D[c].prevSeq = 0 \/ D[c].prevSeq \in DOMAIN D
      BY <1>3, <3>1 DEF Covered
    <3> QED
      BY <1>3, <3>2 DEF IsLast
  <2> HIDE DEF R, D, C
  <2> QED
    BY <1>0, <1>1, <1>2, <1>3, <1>6, <1>7, <2>1, NoCheckpointMissing
<1>9. ASSUME NEW c \in DOMAIN C PROVE C[c] = D[c]
  <2>1. c <= w.cpSeq /\ c <= cpSeq
    BY <1>2, <1>3, <1>8 DEF IsLast
  <2>2. C[c].head = D[c].head
    BY <1>2, <1>3, <1>6, <1>8, <2>1 DEF Covered
  <2> QED
    BY <1>0, <1>7, <1>8, <2>2 DEF Shape
<1>10. C = D
  BY <1>0, <1>8, <1>9 DEF Shape
<1> QED
  BY <1>0, <1>6, <1>10 DEF Tables

\* Equal tables stay equal: the log writes the same rows to both.
LEMMA LogWritesBoth ==
  ASSUME ShapeInv, LogStep, Tables = wrote
  PROVE  Tables' = wrote'
<1>1. records = wrote.records /\ checkpoints = wrote.checkpoints
  BY DEF Tables
<1>2. wrote = [records |-> wrote.records, checkpoints |-> wrote.checkpoints]
  BY DEF ShapeInv
<1>3. CASE LogOpens
  BY <1>3 DEF LogOpens, OpenMove, Tables, tables
<1>4. CASE LogCrashes \/ LogQuiet
  BY <1>1, <1>2, <1>4 DEF LogCrashes, LogQuiet, CrashMove, QuietMove, Tables, tables
<1>5. ASSUME NEW r \in RecordSet, LogStores(r) PROVE Tables' = wrote'
  BY <1>1, <1>5 DEF LogStores, StoreMove, Tables
<1>6. CASE LogSigns
  BY <1>1, <1>6 DEF LogSigns, SignMove, Tables
<1> QED
  BY <1>3, <1>4, <1>5, <1>6, LogSteps

\* When Verify reports an intact chain and nobody edited the file during the call, the tables
\* are what this process found when it opened them, intact, and wrote since: no edit before
\* the call, of any row, number or order, goes unnoticed.
THEOREM EditsAreNoticed == VerifySpec => []IntactMeansUntouched
<1>1. VerifyInit => IntactMeansUntouched
  BY DEF VerifyInit, IntactMeansUntouched
<1>2. VerifyInv /\ IntactMeansUntouched /\ [VerifyNext]_allVars => IntactMeansUntouched'
  <2> SUFFICES ASSUME VerifyInv, IntactMeansUntouched, [VerifyNext]_allVars,
                      verdict' = "intact", ~edited', sound'
               PROVE  Tables' = wrote'
    BY DEF IntactMeansUntouched
  <2>0. ShapeInv /\ TypeOK /\ Control /\ WalkControl
    BY DEF VerifyInv, ShapeInv
  <2>1. CASE LogStep
    <3>1. UNCHANGED edited
      BY <2>0, <2>1, LogSteps
    <3>2. CASE LogOpens \/ LogCrashes
      BY <3>2 DEF LogOpens, LogCrashes, Restarts
    <3>3. CASE LogSigns \/ LogQuiet \/ \E r \in RecordSet : LogStores(r)
      <4>1. UNCHANGED <<verdict, sound>>
        BY <3>3 DEF LogSigns, LogQuiet, LogStores, verifyVars
      <4>2. Tables = wrote
        BY <3>1, <4>1 DEF IntactMeansUntouched
      <4> QED
        BY <2>0, <2>1, <4>2, LogWritesBoth
    <3> QED
      BY <2>0, <2>1, <3>2, <3>3, LogSteps
  <2>2. CASE Verify
    <3>1. UNCHANGED <<records, checkpoints, wrote, sound>>
      BY <2>0, <2>2, VerifyReads DEF tables
    <3>2. Tables' = Tables
      BY <3>1 DEF Tables
    <3>3. CASE UNCHANGED <<verdict, edited>>
      BY <3>1, <3>2, <3>3 DEF IntactMeansUntouched
    <3>4. CASE VerifyEnds
      <4>1. at = "end" /\ endHolds /\ UNCHANGED edited
        BY <3>4 DEF VerifyEnds, Return, VerifyFrame
      <4>2. Tables = wrote
        BY <3>1, <4>1, EndIsWritten
      <4> QED
        BY <3>1, <3>2, <4>2
    <3>5. CASE VerifyBegins \/ VerifyFails
      BY <3>5 DEF VerifyBegins, VerifyFails, Return
    <3>6. CASE VerifyRecords \/ VerifyLocks
      BY <3>3, <3>6 DEF VerifyRecords, VerifyLocks, VerifyFrame
    <3>7. CASE VerifyCheckpoints
      <4>1. UNCHANGED edited /\ (UNCHANGED verdict \/ verdict' = "broken")
        BY <3>7 DEF VerifyCheckpoints, VerifyFrame, Return
      <4> QED
        BY <3>3, <4>1
    <3> QED
      BY <2>2, <3>4, <3>5, <3>6, <3>7 DEF Verify
  <2>3. CASE Edit
    BY <2>0, <2>3, EditWrites
  <2>4. CASE UNCHANGED allVars
    BY <2>4 DEF allVars, vars, tables, verifyVars, Tables, IntactMeansUntouched
  <2> QED
    BY <2>1, <2>2, <2>3, <2>4 DEF VerifyNext
<1> QED
  BY <1>1, <1>2, VerifyAlways, PTL DEF VerifySpec

-----------------------------------------------------------------------------
\* With nobody else editing the file the tables are intact, and are what this process found
\* and wrote; a walk has found no break in them.
AlarmInv ==
  edits = 0 => /\ ChainInv /\ ~edited /\ sound /\ Tables = wrote
               /\ breakSeq = 0 /\ verdict # "broken"

\* A page of an intact chain is intact.
LEMMA IntactPages ==
  ASSUME VerifyInv, at \notin {"idle", "returned"}, ~edited, sound, Tables = wrote
  PROVE  intactRecords = recordPage /\ intactCheckpoints = checkpointPage
<1>0. /\ ShapeInv /\ WalkControl /\ Underway /\ phase # "down"
      /\ seq \in Nat /\ cpSeq \in Nat /\ w.cpSeq \in Nat /\ w.records \in Nat
      /\ DOMAIN checkpoints \subseteq Nat
      /\ \A c \in DOMAIN checkpoints : checkpoints[c].prevSeq \in Nat
      /\ records = wrote.records /\ checkpoints = wrote.checkpoints
  BY DEF VerifyInv, ShapeInv, TypeOK, WalkControl, Underway, Tables
<1>1. /\ IsLast(records, seq) /\ IsLast(checkpoints, cpSeq)
      /\ Chained(records, seq, head) /\ Covered(checkpoints, records, cpSeq)
  BY <1>0 DEF VerifyInv, WroteInv
<1>2. /\ Chained(records, w.records, w.prev)
      /\ w.cpSeq = 0 \/ w.cpSeq \in DOMAIN checkpoints
      /\ w.cpSeq <= w.records
  BY <1>0 DEF VerifyInv, WalkInv
<1>3. ASSUME NEW n \in recordPage PROVE n \in intactRecords
  <2>1. n \in DOMAIN records /\ n > w.records /\ n \in Nat /\ n <= seq
    BY <1>0, <1>1, RecordsPage DEF IsLast
  <2>2. ASSUME NEW i \in w.records + 1 .. n PROVE i \in recordPage /\ chains(i)
    <3>1. i \in Nat /\ i \in 1 .. seq /\ w.records < i /\ i <= n
      BY <1>0, <2>1
    <3>2. i \in DOMAIN records
      BY <1>1, <3>1 DEF Chained
    <3>3. i \in recordPage
      <4>1. CASE i = n
        BY <4>1
      <4>2. CASE i < n
        BY <1>0, <3>1, <3>2, <4>2, RecordsPage
      <4> QED
        BY <2>1, <3>1, <4>1, <4>2
    <3>4. /\ records[i].hash = EntryHash(i, records[i].r, records[i].prev)
          /\ records[i].prev = IF i = 1 THEN genesis ELSE records[i - 1].hash
      BY <1>1, <3>1 DEF Chained
    <3>5. w.prev = IF w.records = 0 THEN genesis ELSE records[w.records].hash
      BY <1>2 DEF Chained
    <3>6. i = w.records + 1 => i - 1 = w.records /\ (i = 1 <=> w.records = 0)
      BY <1>0
    <3>7. i = 1 => i = w.records + 1
      BY <1>0, <3>1
    <3>8. chains(i)
      BY <3>4, <3>5, <3>6, <3>7 DEF chains
    <3> QED
      BY <3>3, <3>8
  <2> QED
    BY <2>2 DEF intactRecords
<1>4. ASSUME NEW c \in checkpointPage PROVE follows(c)
  <2>1. c \in DOMAIN checkpoints /\ c \in Nat /\ c > w.cpSeq /\ c <= w.records /\ c <= cpSeq
    BY <1>0, <1>1, CheckpointsPage DEF IsLast
  <2> DEFINE p == checkpoints[c].prevSeq
  <2>2. /\ c \in DOMAIN records /\ checkpoints[c].head = records[c].hash
        /\ checkpoints[c].sig = message(c, p, checkpoints[c].head)
        /\ p \in Nat /\ p < c /\ (p = 0 \/ p \in DOMAIN checkpoints)
        /\ \A d \in DOMAIN checkpoints : d <= p \/ d >= c
    BY <1>0, <1>1, <2>1 DEF Covered
  <2>3. /\ before(c) = w.cpSeq \/ (before(c) \in checkpointPage /\ before(c) < c)
        /\ w.cpSeq <= before(c)
        /\ \A d \in checkpointPage : d < c => d <= before(c)
        /\ checkpointPage \subseteq DOMAIN checkpoints
    BY <1>0, CheckpointsPage
  <2>4. before(c) \in Nat /\ before(c) <= p
    <3>1. w.cpSeq <= p
      BY <1>0, <1>2, <2>1, <2>2
    <3>2. before(c) \in checkpointPage /\ before(c) < c => before(c) \in Nat /\ before(c) <= p
      <4>1. before(c) \in checkpointPage => before(c) \in DOMAIN checkpoints /\ before(c) \in Nat
        BY <1>0, <2>3
      <4> QED
        BY <2>1, <2>2, <4>1
    <3> QED
      BY <1>0, <2>3, <3>1, <3>2
  <2>5. p <= before(c)
    <3>1. CASE p <= w.cpSeq
      BY <1>0, <2>2, <2>3, <2>4, <3>1
    <3>2. CASE w.cpSeq < p
      <4>1. p \in DOMAIN checkpoints
        BY <1>0, <2>2, <3>2
      <4>2. p \in checkpointPage
        BY <1>0, <2>2, <3>2, <4>1, CheckpointsPage
      <4> QED
        BY <2>2, <2>3, <4>2
    <3> QED
      BY <1>0, <2>2, <3>1, <3>2
  <2>6. p = before(c)
    BY <2>2, <2>4, <2>5
  <2> QED
    BY <2>2, <2>6 DEF follows
<1>5. intactRecords = recordPage
  BY <1>3 DEF intactRecords
<1>6. intactCheckpoints = checkpointPage
  BY <1>4 DEF intactCheckpoints
<1> QED
  BY <1>5, <1>6

\* The end of an intact chain is where this process says it is.
LEMMA IntactEnds ==
  ASSUME VerifyInv, at = "end", ~edited, sound, Tables = wrote
  PROVE  endHolds
<1>0. /\ Underway /\ phase # "down" /\ Locked /\ breakSeq = 0
      /\ seq \in Nat /\ cpSeq \in Nat /\ w.cpSeq \in Nat /\ w.records \in Nat
      /\ DOMAIN checkpoints \subseteq Nat
      /\ records = wrote.records /\ checkpoints = wrote.checkpoints
  BY DEF VerifyInv, ShapeInv, TypeOK, WalkControl, Underway, Tables
<1>1. /\ IsLast(records, seq) /\ IsLast(checkpoints, cpSeq)
      /\ Chained(records, seq, head) /\ Covered(checkpoints, records, cpSeq)
  BY <1>0 DEF VerifyInv, WroteInv
<1>2. /\ Chained(records, w.records, w.prev)
      /\ \A i \in DOMAIN records : i <= w.records
      /\ \A c \in DOMAIN checkpoints : c <= w.records => c <= w.cpSeq
  BY <1>0 DEF VerifyInv, WalkInv
<1>3. w.records = seq
  <2>1. w.records = 0 \/ w.records \in DOMAIN records
    <3>1. w.records # 0 => w.records \in 1 .. w.records
      BY <1>0
    <3> QED
      BY <1>2, <3>1 DEF Chained
  <2> QED
    BY <1>0, <1>1, <1>2, <2>1 DEF IsLast
<1>4. w.prev = head
  BY <1>1, <1>2, <1>3 DEF Chained
<1>5. \A c \in DOMAIN checkpoints : c <= w.records
  <2> SUFFICES ASSUME NEW c \in DOMAIN checkpoints PROVE c <= w.records
    OBVIOUS
  <2>1. c <= cpSeq
    BY <1>1 DEF IsLast
  <2>2. c \in DOMAIN records
    BY <1>1, <2>1 DEF Covered
  <2> QED
    BY <1>2, <2>2
<1>6. w.cpSeq >= cpSeq
  <2>1. cpSeq \in DOMAIN checkpoints => cpSeq <= w.cpSeq
    BY <1>2, <1>5
  <2> QED
    BY <1>0, <1>1, <2>1 DEF IsLast
<1> QED
  BY <1>3, <1>4, <1>5, <1>6 DEF endHolds

\* Verify raises no false alarm: whatever the log appends, signs, retries and closes between
\* its queries, and however often the process restarts, an unedited file is never broken.
THEOREM NoFalseAlarms == VerifySpec => []NoFalseAlarm
<1>1. VerifyInit => AlarmInv
  BY InitChain DEF VerifyInit, AlarmInv
<1>2. VerifyInv /\ AlarmInv /\ [VerifyNext]_allVars => AlarmInv'
  <2> SUFFICES ASSUME VerifyInv, AlarmInv, [VerifyNext]_allVars, edits' = 0
               PROVE  /\ ChainInv' /\ ~edited' /\ sound' /\ Tables' = wrote'
                      /\ breakSeq' = 0 /\ verdict' # "broken"
    BY DEF AlarmInv
  <2>0. ShapeInv /\ TypeOK /\ Control /\ WalkControl /\ edits \in Nat
    BY DEF VerifyInv, ShapeInv, WalkControl
  <2>1. CASE LogStep
    <3>1. UNCHANGED <<edits, edited>>
      BY <2>0, <2>1, LogSteps
    <3>2. /\ ChainInv /\ ~edited /\ sound /\ Tables = wrote
          /\ breakSeq = 0 /\ verdict # "broken"
      BY <3>1 DEF AlarmInv
    <3>3. ChainInv'
      BY <2>1, <3>2, ChainStep DEF LogStep
    <3>4. Tables' = wrote'
      BY <2>0, <2>1, <3>2, LogWritesBoth
    <3>5. sound' /\ breakSeq' = 0 /\ verdict' # "broken"
      <4>1. CASE LogOpens
        BY <3>2, <4>1 DEF LogOpens, Restarts, ChainInv
      <4>2. CASE LogCrashes
        BY <3>2, <4>2 DEF LogCrashes, Restarts
      <4>3. CASE LogSigns \/ LogQuiet \/ \E r \in RecordSet : LogStores(r)
        BY <3>2, <4>3 DEF LogSigns, LogQuiet, LogStores, verifyVars
      <4> QED
        BY <2>0, <2>1, <4>1, <4>2, <4>3, LogSteps
    <3> QED
      BY <3>1, <3>2, <3>3, <3>4, <3>5
  <2>2. CASE Verify
    <3>1. /\ TypeOK' /\ Control'
          /\ UNCHANGED <<tables, chain, life, edits, wrote, sound>>
      BY <2>0, <2>2, VerifyReads
    <3>2. /\ ChainInv /\ ~edited /\ sound /\ Tables = wrote
          /\ breakSeq = 0 /\ verdict # "broken"
      BY <3>1 DEF AlarmInv
    <3>3. ChainInv'
      <4>1. TablesHaveLast' /\ ChainIntact' /\ CheckpointsIntact'
        BY <3>1, <3>2, TablesUnchanged
      <4>2. MemoryFollowsTables'
        BY <3>1, <3>2 DEF ChainInv, MemoryFollowsTables, Running, tables, chain, life, HashAt
      <4> QED
        BY <3>1, <4>1, <4>2 DEF ChainInv
    <3>4. Tables' = wrote'
      BY <3>1, <3>2 DEF Tables, tables
    <3>5. ~edited' /\ breakSeq' = 0 /\ verdict' # "broken"
      <4>1. CASE VerifyBegins
        BY <4>1 DEF VerifyBegins
      <4>2. CASE VerifyRecords
        <5>1. intactRecords = recordPage
          BY <3>2, <4>2, IntactPages DEF VerifyRecords
        <5> QED
          BY <3>2, <4>2, <5>1 DEF VerifyRecords, VerifyFrame
      <4>3. CASE VerifyCheckpoints
        <5>1. intactCheckpoints = checkpointPage
          BY <3>2, <4>3, IntactPages DEF VerifyCheckpoints
        <5> QED
          BY <3>2, <4>3, <5>1 DEF VerifyCheckpoints, VerifyFrame
      <4>4. CASE VerifyLocks \/ VerifyFails
        <5>1. UNCHANGED <<edited, breakSeq>> /\ (UNCHANGED verdict \/ verdict' = "failed")
          BY <4>4 DEF VerifyLocks, VerifyFails, Return, VerifyFrame
        <5> QED
          BY <3>2, <5>1
      <4>5. CASE VerifyEnds
        <5>1. endHolds
          BY <3>2, <4>5, IntactEnds DEF VerifyEnds
        <5> QED
          BY <3>2, <4>5, <5>1 DEF VerifyEnds, Return, VerifyFrame
      <4> QED
        BY <2>2, <4>1, <4>2, <4>3, <4>4, <4>5 DEF Verify
    <3> QED
      BY <3>1, <3>2, <3>3, <3>4, <3>5
  <2>3. CASE Edit
    <3>1. edits' = edits + 1
      BY <2>3 DEF Edit
    <3> QED
      BY <2>0, <3>1
  <2>4. CASE UNCHANGED allVars
    <3>1. UNCHANGED <<vars, edits, edited, sound, wrote, breakSeq, verdict, records, checkpoints>>
      BY <2>4 DEF allVars, verifyVars, vars, tables
    <3>2. ChainInv => ChainInv'
      BY <3>1, ChainStep
    <3> QED
      BY <3>1, <3>2 DEF AlarmInv, Tables
  <2> QED
    BY <2>1, <2>2, <2>3, <2>4 DEF VerifyNext
<1>3. AlarmInv => NoFalseAlarm
  BY DEF AlarmInv, NoFalseAlarm
<1> QED
  BY <1>1, <1>2, <1>3, VerifyAlways, PTL DEF VerifySpec
=============================================================================

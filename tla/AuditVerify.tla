---------------------------- MODULE AuditVerify ----------------------------
(***************************************************************************)
(* Log.Verify (internal/audit/audit.go), running while the audit log goes  *)
(* on appending, ticking, closing and crashing, and while something else   *)
(* may edit the SQLite file.  The chain is walked page by page, first      *)
(* without the lock and then, from where that walk ended, under it.        *)
(***************************************************************************)
EXTENDS AuditLog, FiniteSetsExt

CONSTANTS
  verifyPage,     \* how many rows one query of Verify reads
  MaxVerifies,    \* bound: how many calls of Verify
  MaxEdits        \* bound: how many rows something else edits

ASSUME VerifyAssumption ==
  /\ verifyPage \in Nat \ {0}
  /\ MaxVerifies \in Nat /\ MaxEdits \in Nat

VARIABLES
  at,        \* where Verify stands
  w,         \* the walk: [records, prev, cpSeq, checkpoints]
  verdict,   \* what Verify returned: "none", "intact", "broken" or "failed"
  breakSeq,  \* Break.Seq of a break found in the records, or 0
  verifies,  \* how many calls were made
  edits,     \* how many edits were made
  edited,    \* history: an edit was made since the call began
  wrote,     \* history: the tables as this process found them, with its own rows
  sound      \* history: it found them intact

verifyVars == <<at, w, verdict, breakSeq, verifies>>
allVars == <<vars, verifyVars, edits, edited, wrote, sound>>

Tables == [records |-> records, checkpoints |-> checkpoints]

\* The table t with the rows that a step from old to new inserts.
WithRows(t, old, new) ==
  LET keys == DOMAIN new \ DOMAIN old
  IN  [n \in DOMAIN t \cup keys |-> IF n \in keys THEN new[n] ELSE t[n]]

\* (Faulty variants are named Bad..., as in AuditLog.)
newWalk == [records |-> 0, prev |-> genesis, cpSeq |-> 0, checkpoints |-> 0]

\* ORDER BY seq LIMIT verifyPage.
Page(S) == {n \in S : Cardinality({m \in S : m < n}) < verifyPage}

VerifyInit ==
  /\ Init
  /\ at = "idle" /\ w = newWalk /\ verdict = "none" /\ breakSeq = 0 /\ verifies = 0
  /\ edits = 0 /\ edited = FALSE
  /\ wrote = Tables /\ sound = TRUE

-----------------------------------------------------------------------------
(***************************************************************************)
(* verifyPage: which rows of the page continue the chain.  The walk stops  *)
(* at the first row that does not.                                         *)
(***************************************************************************)
recordPage == Page({n \in DOMAIN records : n > w.records})

chains(n) ==
  /\ records[n].hash = EntryHash(n, records[n].r, records[n].prev)
  /\ records[n].prev = IF n = w.records + 1 THEN w.prev ELSE records[n - 1].hash

intactRecords ==
  {n \in recordPage : \A i \in w.records + 1 .. n : i \in recordPage /\ chains(i)}

(***************************************************************************)
(* verifyCheckpointPage: the checkpoints covering records found intact,    *)
(* each against the one before it and the record it covers.                *)
(***************************************************************************)
checkpointPage == Page({c \in DOMAIN checkpoints : c > w.cpSeq /\ c <= w.records})

before(c) == Max({w.cpSeq} \cup {d \in checkpointPage : d < c})

follows(c) ==
  LET row == checkpoints[c]
  IN  /\ row.sig = message(c, row.prevSeq, row.head)
      /\ row.prevSeq = before(c)
      /\ c \in DOMAIN records /\ row.head = records[c].hash

intactCheckpoints ==
  {c \in checkpointPage : \A d \in checkpointPage : d <= c => follows(d)}

Locked == mu = "verify"

Return(result) ==
  /\ verdict' = result /\ at' = "returned"
  /\ mu' = IF Locked THEN "free" ELSE mu

\* What a step of Verify leaves alone.
VerifyFrame ==
  UNCHANGED <<tables, chain, key, backlog, atomics, threads, step, life, streamed,
              history, verifies, edits, edited, wrote, sound>>

\* Verify is refused without the key, and otherwise starts a walk.
VerifyBegins ==
  /\ Running /\ at \in {"idle", "returned"} /\ verifies < MaxVerifies /\ mu = "free"
  /\ verifies' = verifies + 1 /\ edited' = FALSE
  /\ w' = newWalk /\ breakSeq' = 0
  /\ IF key THEN at' = "records" /\ verdict' = "none"
            ELSE at' = "returned" /\ verdict' = "failed"
  /\ UNCHANGED <<vars, edits, wrote, sound>>

VerifyRecords ==
  /\ at = "records"
  /\ LET n == w.records + Cardinality(intactRecords)
         broken == intactRecords # recordPage
     IN  /\ w' = [w EXCEPT !.records = n, !.prev = IF n = w.records THEN @ ELSE records[n].hash]
         /\ breakSeq' = IF broken THEN n + 1 ELSE 0
         /\ at' = IF broken \/ Cardinality(recordPage) < verifyPage
                  THEN "checkpoints" ELSE "records"
  /\ UNCHANGED <<mu, verdict>> /\ VerifyFrame

\* A break in the checkpoints comes before one in the records.
VerifyCheckpoints ==
  /\ at = "checkpoints"
  /\ LET last   == Max({w.cpSeq} \cup intactCheckpoints)
         broken == intactCheckpoints # checkpointPage
         more   == ~broken /\ Cardinality(checkpointPage) = verifyPage
     IN  /\ w' = [w EXCEPT !.cpSeq = last,
                           !.checkpoints = @ + Cardinality(intactCheckpoints),
                           !.records = IF broken THEN last ELSE @]
         /\ \/ more /\ UNCHANGED <<at, mu, verdict>>
            \/ ~more /\ (broken \/ breakSeq # 0) /\ Return("broken")
            \/ ~more /\ ~broken /\ breakSeq = 0
               /\ at' = (IF Locked THEN "end" ELSE "unlocked")
               /\ UNCHANGED <<mu, verdict>>
  /\ UNCHANGED breakSeq /\ VerifyFrame

\* What was appended during the first walk is not walked.
BadVerifyLocks ==
  /\ at = "unlocked" /\ mu = "free"
  /\ mu' = "verify" /\ at' = "end"
  /\ UNCHANGED <<w, verdict, breakSeq>> /\ VerifyFrame

\* The second walk goes on from the end of the first.
VerifyLocks ==
  /\ at = "unlocked" /\ mu = "free"
  /\ mu' = "verify" /\ at' = "records"
  /\ UNCHANGED <<w, verdict, breakSeq>> /\ VerifyFrame

\* The last record's hash is not compared.
BadendHolds ==
  /\ \A c \in DOMAIN checkpoints : c <= w.records
  /\ w.records = seq
  /\ w.cpSeq >= cpSeq

\* The end of the chain against what this process wrote last.
endHolds ==
  /\ \A c \in DOMAIN checkpoints : c <= w.records
  /\ w.records = seq
  /\ w.prev = head
  /\ w.cpSeq >= cpSeq

VerifyEnds ==
  /\ at = "end"
  /\ Return(IF endHolds THEN "intact" ELSE "broken")
  /\ UNCHANGED <<w, breakSeq>> /\ VerifyFrame

\* A query fails.
VerifyFails ==
  /\ at \in {"records", "checkpoints", "end"}
  /\ Return("failed")
  /\ UNCHANGED <<w, breakSeq>> /\ VerifyFrame

Verify == VerifyBegins \/ VerifyRecords \/ VerifyCheckpoints \/ VerifyLocks
          \/ VerifyEnds \/ VerifyFails

-----------------------------------------------------------------------------
(***************************************************************************)
(* Something else edits the SQLite file (external).                        *)
(***************************************************************************)
Without(table, n) == [i \in DOMAIN table \ {n} |-> table[i]]

Edit ==
  /\ edits < MaxEdits /\ edits' = edits + 1 /\ edited' = TRUE
  /\ \/ \E n \in DOMAIN records : records' = Without(records, n) /\ UNCHANGED checkpoints
     \/ \E n \in DOMAIN records, r \in RecordSet :
          /\ r # records[n].r
          /\ \/ records' = [records EXCEPT ![n].r = r]
             \/ records' = [records EXCEPT ![n] = newEntry(n, r, records[n].prev)]
          /\ UNCHANGED checkpoints
     \/ \E r \in RecordSet :
          /\ records' = LET n == LastSeq(records)
                        IN  Insert(records, n + 1, newEntry(n + 1, r, HashAt(n)))
          /\ UNCHANGED checkpoints
     \/ \E c \in DOMAIN checkpoints : checkpoints' = Without(checkpoints, c) /\ UNCHANGED records
     \/ \E c \in DOMAIN checkpoints, h \in {genesis} \cup {records[n].hash : n \in DOMAIN records} :
          /\ h # checkpoints[c].head
          /\ checkpoints' = [checkpoints EXCEPT ![c].head = h] /\ UNCHANGED records
  /\ UNCHANGED <<chain, key, backlog, atomics, threads, mu, step, life, streamed,
                 history, verifyVars, wrote, sound>>

\* A step of the log itself.  A crash or a new process ends a running Verify.
LogStep ==
  /\ Next
  /\ IF phase' = "down" \/ starts' # starts
     THEN at' = "idle" /\ w' = newWalk /\ verdict' = "none" /\ breakSeq' = 0
          /\ UNCHANGED verifies
     ELSE UNCHANGED verifyVars
  /\ IF starts' # starts
     THEN wrote' = Tables' /\ sound' = (ChainIntact /\ CheckpointsIntact)
     ELSE /\ wrote' = [records     |-> WithRows(wrote.records, records, records'),
                       checkpoints |-> WithRows(wrote.checkpoints, checkpoints, checkpoints')]
          /\ UNCHANGED sound
  /\ UNCHANGED <<edits, edited>>

VerifyNext == LogStep \/ Verify \/ Edit

VerifySpec == VerifyInit /\ [][VerifyNext]_allVars

-----------------------------------------------------------------------------
\* Verify raises no false alarm: with nobody else editing the file, appends,
\* checkpoints, retries, restarts and a shutdown between its queries never look
\* like a break.
NoFalseAlarm == edits = 0 => verdict # "broken"

\* When Verify reports an intact chain and the file was not edited during the
\* call, the tables hold exactly the rows this process found or inserted: every
\* edit since it opened the log is noticed, unless it was undone (Verify's comparison
\* with seq, head, cpSeq).  A process that found an edited file cannot tell that
\* somebody restored it.
IntactMeansUntouched ==
  (verdict = "intact" /\ ~edited /\ sound) => Tables = wrote
=============================================================================

------------------------------ MODULE AuditLog ------------------------------
(***************************************************************************)
(* The audit log of TrustedCourier (internal/audit/audit.go): one Audit    *)
(* Record per Delivery attempt, hash-chained in SQLite, streamed, and      *)
(* covered by signed checkpoints.                                          *)
(*                                                                         *)
(* The durable state is the two SQLite tables; everything else is memory   *)
(* of the process and is gone after Crash.  The lock mu is a variable      *)
(* naming its holder, and "step" is where the holder stands, so that an    *)
(* atomic read (Ready), a read of the tables or a crash can fall between   *)
(* any two effects of one critical section.                                *)
(***************************************************************************)
EXTENDS Integers, Sequences, FiniteSets

CONSTANTS
  RecordSet,      \* the Audit Records the Agent API may append
  CheckpointEvery,\* Checkpoints.Records: records before a checkpoint is due
  MaxStarts       \* bound: how many processes run one after another

ASSUME ConstantsAssumption ==
  /\ CheckpointEvery \in Nat \ {0}
  /\ MaxStarts \in Nat

VARIABLES
  records,     \* table audit_records: seq |-> row
  checkpoints, \* table audit_checkpoints: seq |-> row
  seq, head,   \* the last record appended: its sequence number and hash
  cpSeq,       \* the record the last checkpoint covers
  key,         \* the audit signing key is in memory (l.key # nil)
  backlog,     \* the records not yet stored, oldest first
  keyLoaded,   \* atomic: read by Ready
  backlogged,  \* atomic: read by Ready
  loader,      \* the goroutine of Start: loadKey, then signEveryInterval
  retriers,    \* how many retryStore goroutines there are
  mu, step,    \* the lock's holder, and where it stands
  phase,       \* the life of the Log
  starts,      \* how many times Open has returned a Log
  streamed,    \* the last record written to the stream (0: none)
  made,        \* history: the records given to Append
  logged,      \* the records Close logged as lost
  dropped      \* history: the records that were in memory at a crash

tables  == <<records, checkpoints>>
chain   == <<seq, head, cpSeq>>
atomics == <<keyLoaded, backlogged>>
threads == <<loader, retriers>>
life    == <<phase, starts>>
history == <<made, logged, dropped>>
vars == <<tables, chain, key, backlog, atomics, threads, mu, step, life,
          streamed, history>>

(***************************************************************************)
(* Hashes and signatures are symbolic: a hash is the tuple it covers, so   *)
(* two hashes are equal exactly when they cover the same entry.            *)
(***************************************************************************)
genesis == <<>>

EntryHash(n, r, prev) == <<"sha256", n, r, prev>>

newEntry(n, r, prev) == [r |-> r, prev |-> prev, hash |-> EntryHash(n, r, prev)]

message(n, prevSeq, h) == <<"checkpoint", n, prevSeq, h>>

NoRows == [n \in {} |-> genesis]

\* INSERT of a row under a key that is free: the seq columns are PRIMARY KEYs.
Insert(table, n, row) ==
  [i \in DOMAIN table \cup {n} |-> IF i = n THEN row ELSE table[i]]

\* SELECT seq ... ORDER BY seq DESC LIMIT 1, or 0 when there is no row.
LastSeq(table) ==
  IF DOMAIN table = {} THEN 0
  ELSE CHOOSE n \in DOMAIN table : \A i \in DOMAIN table : i <= n

HashAt(n) == IF n = 0 THEN genesis ELSE records[n].hash

Elements(s) == {s[i] : i \in DOMAIN s}

ctxDone == phase # "open"

Ready == keyLoaded /\ ~backlogged

-----------------------------------------------------------------------------
Init ==
  /\ records = NoRows /\ checkpoints = NoRows
  /\ seq = 0 /\ head = genesis /\ cpSeq = 0
  /\ key = FALSE /\ backlog = <<>>
  /\ keyLoaded = FALSE /\ backlogged = FALSE
  /\ loader = "off" /\ retriers = 0
  /\ mu = "free" /\ step = "none"
  /\ phase = "down" /\ starts = 0
  /\ streamed = 0 /\ made = {} /\ logged = {} /\ dropped = {}

\* Open's queries.  (Faulty variants, here and below, are named Bad...: each is
\* a slip this code could have, and a property of the module rejects it.)
BadOpenHead == genesis

openHead == HashAt(LastSeq(records))

BadOpenCpSeq == 0

openCpSeq == LastSeq(checkpoints)

\* Open: a new process reads where the chain and its checkpoints end.
Open ==
  /\ phase \in {"down", "closed"} /\ starts < MaxStarts
  /\ seq' = LastSeq(records)
  /\ head' = openHead /\ cpSeq' = openCpSeq
  /\ key' = FALSE /\ backlog' = <<>>
  /\ keyLoaded' = FALSE /\ backlogged' = FALSE
  /\ loader' = "off" /\ retriers' = 0
  /\ mu' = "free" /\ step' = "none"
  /\ phase' = "open" /\ starts' = starts + 1
  /\ UNCHANGED <<tables, streamed, history>>

-----------------------------------------------------------------------------
(***************************************************************************)
(* Start's goroutine.  A failed attempt to load the key changes nothing    *)
(* but the status detail, so it is a stuttering step.                      *)
(***************************************************************************)
Start ==
  /\ phase = "open" /\ loader = "off"
  /\ loader' = "loading"
  /\ UNCHANGED <<tables, chain, key, backlog, atomics, retriers, mu, step, life,
                 streamed, history>>

\* loadKey: the key is set under mu, and the atomic only after the unlock.
\* A fetch that was under way when Close began may still succeed.
LoadKey ==
  /\ loader = "loading" /\ mu = "free"
  /\ key' = TRUE /\ loader' = "loaded"
  /\ UNCHANGED <<tables, chain, backlog, atomics, retriers, mu, step, life,
                 streamed, history>>

KeyLoaded ==
  /\ loader = "loaded"
  /\ keyLoaded' = TRUE /\ loader' = "ticking"
  /\ UNCHANGED <<tables, chain, key, backlog, backlogged, retriers, mu, step,
                 life, streamed, history>>

\* The interval loop does not watch the context.
BadLoaderEnds ==
  /\ loader = "loading" /\ ctxDone
  /\ loader' = "ended"
  /\ UNCHANGED <<tables, chain, key, backlog, atomics, retriers, mu, step, life,
                 streamed, history>>

LoaderEnds ==
  /\ loader \in {"loading", "ticking"} /\ ctxDone
  /\ loader' = "ended"
  /\ UNCHANGED <<tables, chain, key, backlog, atomics, retriers, mu, step, life,
                 streamed, history>>

\* The last checkpoint is not remembered.
Badcheckpoint(ok) ==
  /\ UNCHANGED cpSeq
  /\ IF key /\ seq > cpSeq /\ ok
     THEN checkpoints' = Insert(checkpoints, seq,
            [prevSeq |-> cpSeq, head |-> head, sig |-> message(seq, cpSeq, head)])
     ELSE UNCHANGED checkpoints

\* checkpoint: sign the head when the key is loaded and records follow the
\* last checkpoint.  "ok" is whether the INSERT succeeds.
checkpoint(ok) ==
  IF key /\ seq > cpSeq /\ ok
  THEN /\ seq \notin DOMAIN checkpoints
       /\ checkpoints' = Insert(checkpoints, seq,
            [prevSeq |-> cpSeq, head |-> head, sig |-> message(seq, cpSeq, head)])
       /\ cpSeq' = seq
  ELSE UNCHANGED <<checkpoints, cpSeq>>

\* The ticker signs only what the record count makes due.
BadTick(ok) ==
  /\ loader = "ticking" /\ mu = "free" /\ seq - cpSeq >= CheckpointEvery
  /\ checkpoint(ok)
  /\ UNCHANGED <<records, seq, head, key, backlog, atomics, threads, mu, step,
                 life, streamed, history>>

\* signEveryInterval: one tick.
Tick(ok) ==
  /\ loader = "ticking" /\ mu = "free"
  /\ checkpoint(ok)
  /\ UNCHANGED <<records, seq, head, key, backlog, atomics, threads, mu, step,
                 life, streamed, history>>

-----------------------------------------------------------------------------
(***************************************************************************)
(* Append and flush.  Append is not called once Close has begun: the       *)
(* server closes the log after every handler has returned.                 *)
(***************************************************************************)
AppendRecord(r) ==
  /\ phase = "open" /\ mu = "free" /\ r \notin made
  /\ backlog' = Append(backlog, r) /\ made' = made \cup {r}
  /\ mu' = "append" /\ step' = "flush"
  /\ UNCHANGED <<tables, chain, key, atomics, threads, life, streamed, logged,
                 dropped>>

\* retryStore: a wait ends and the goroutine takes the lock, or it sees that
\* Close was called.  With both ready, select may choose either.
RetryWakes ==
  /\ retriers > 0 /\ mu = "free"
  /\ mu' = "retry" /\ step' = "flush"
  /\ UNCHANGED <<tables, chain, key, backlog, atomics, threads, life, streamed,
                 history>>

RetryEnds ==
  /\ ctxDone /\ retriers > (IF mu = "retry" THEN 1 ELSE 0)
  /\ retriers' = retriers - 1
  /\ UNCHANGED <<tables, chain, key, backlog, atomics, loader, mu, step, life,
                 streamed, history>>

\* What follows flush in its callers: Append and retryStore unlock, and Close
\* goes on with the lock held.
flushReturns ==
  IF mu = "close" THEN step' = "lost" /\ UNCHANGED mu
                  ELSE step' = "none" /\ mu' = "free"

\* store, first half: the row is inserted and the memory follows it.
StoreRecord ==
  /\ step = "flush" /\ backlog # <<>> /\ seq + 1 \notin DOMAIN records
  /\ LET e == newEntry(seq + 1, Head(backlog), head)
     IN  /\ records' = Insert(records, seq + 1, e)
         /\ head' = e.hash
  /\ seq' = seq + 1
  /\ step' = "stream"
  /\ UNCHANGED <<checkpoints, cpSeq, key, backlog, atomics, threads, mu, life,
                 streamed, history>>

\* The record that could not be stored is given up.
BadStoreFailsDrops ==
  /\ step = "flush" /\ backlog # <<>>
  /\ backlog' = Tail(backlog)
  /\ flushReturns
  /\ UNCHANGED <<tables, chain, key, atomics, threads, life, streamed, history>>

\* The backlog is retried without closing the gate.
BadStoreFailsReady ==
  /\ step = "flush" /\ backlog # <<>>
  /\ retriers' = IF ~backlogged /\ ~ctxDone THEN retriers + 1 ELSE retriers
  /\ flushReturns
  /\ UNCHANGED <<tables, chain, key, backlog, atomics, loader, life, streamed,
                 history>>

\* Nobody retries.
BadStoreFailsOnce ==
  /\ step = "flush" /\ backlog # <<>>
  /\ backlogged' = TRUE
  /\ flushReturns
  /\ UNCHANGED <<tables, chain, key, backlog, keyLoaded, threads, life, streamed,
                 history>>

\* store fails before the row is there: flush stops, and starts a retry when
\* none is under way and the log is not being closed.
StoreFails ==
  /\ step = "flush" /\ backlog # <<>>
  /\ backlogged' = TRUE
  /\ retriers' = IF ~backlogged /\ ~ctxDone THEN retriers + 1 ELSE retriers
  /\ flushReturns
  /\ UNCHANGED <<tables, chain, key, backlog, keyLoaded, loader, life, streamed,
                 history>>

\* A failed stream write is no storedError: the record is stored again.
BadStreamRecord(ok) ==
  /\ step = "stream"
  /\ streamed' = IF ok THEN seq ELSE streamed
  /\ step' = IF ok THEN "due" ELSE "flush"
  /\ UNCHANGED <<tables, chain, key, backlog, atomics, threads, mu, life, history>>

\* store, second half: a failure from here on is a storedError.
StreamRecord(ok) ==
  /\ step = "stream"
  /\ streamed' = IF ok THEN seq ELSE streamed
  /\ step' = "due"
  /\ UNCHANGED <<tables, chain, key, backlog, atomics, threads, mu, life, history>>

\* One stored record empties the backlog.
BadCheckpointIfDue(ok) ==
  /\ step = "due"
  /\ IF seq - cpSeq >= CheckpointEvery
     THEN checkpoint(ok)
     ELSE UNCHANGED <<checkpoints, cpSeq>>
  /\ backlog' = <<>>
  /\ step' = "flush"
  /\ UNCHANGED <<records, seq, head, key, atomics, threads, mu, life, streamed,
                 history>>

CheckpointIfDue(ok) ==
  /\ step = "due"
  /\ IF seq - cpSeq >= CheckpointEvery
     THEN checkpoint(ok)
     ELSE UNCHANGED <<checkpoints, cpSeq>>
  /\ backlog' = Tail(backlog)
  /\ step' = "flush"
  /\ UNCHANGED <<records, seq, head, key, atomics, threads, mu, life, streamed,
                 history>>

\* flush has stored everything.  retryStore ends when the backlog is empty.
FlushDone ==
  /\ step = "flush" /\ backlog = <<>>
  /\ backlogged' = FALSE
  /\ retriers' = IF mu = "retry" THEN retriers - 1 ELSE retriers
  /\ flushReturns
  /\ UNCHANGED <<tables, chain, key, backlog, keyLoaded, loader, life, streamed,
                 history>>

-----------------------------------------------------------------------------
(***************************************************************************)
(* Close: l.stop(), wg.Wait(), the atomic, the lock, a last flush, and the *)
(* last checkpoint.                                                        *)
(***************************************************************************)
CloseStops ==
  /\ phase = "open" /\ mu # "append"
  /\ phase' = "closing"
  /\ UNCHANGED <<tables, chain, key, backlog, atomics, threads, mu, step, starts,
                 streamed, history>>

CloseWaits ==
  /\ phase = "closing" /\ retriers = 0 /\ loader \in {"off", "ended"}
  /\ phase' = "waited" /\ keyLoaded' = FALSE
  /\ UNCHANGED <<tables, chain, key, backlog, backlogged, threads, mu, step,
                 starts, streamed, history>>

CloseLocks ==
  /\ phase = "waited" /\ mu = "free"
  /\ mu' = "close" /\ step' = "flush"
  /\ UNCHANGED <<tables, chain, key, backlog, atomics, threads, life, streamed,
                 history>>

CloseEnds(ok) ==
  /\ step = "lost"
  /\ logged' = logged \cup Elements(backlog)
  /\ checkpoint(ok)
  /\ key' = FALSE
  /\ phase' = "closed" /\ mu' = "free" /\ step' = "none"
  /\ UNCHANGED <<records, seq, head, backlog, atomics, threads, starts, streamed,
                 made, dropped>>

\* The records of the backlog whose rows are not in the table.
pending ==
  IF phase \in {"down", "closed"} THEN <<>>
  ELSE IF step \in {"stream", "due"} THEN Tail(backlog) ELSE backlog

\* The process dies: only the tables, the stream and the log are left.
Crash ==
  /\ phase \notin {"down", "closed"}
  /\ dropped' = dropped \cup Elements(pending)
  /\ seq' = 0 /\ head' = genesis /\ cpSeq' = 0
  /\ key' = FALSE /\ backlog' = <<>>
  /\ keyLoaded' = FALSE /\ backlogged' = FALSE
  /\ loader' = "off" /\ retriers' = 0
  /\ mu' = "free" /\ step' = "none" /\ phase' = "down"
  /\ UNCHANGED <<tables, starts, streamed, made, logged>>

Next ==
  \/ Open \/ Start \/ LoadKey \/ KeyLoaded \/ LoaderEnds
  \/ \E ok \in BOOLEAN : Tick(ok)
  \/ \E r \in RecordSet : AppendRecord(r)
  \/ RetryWakes \/ RetryEnds
  \/ StoreRecord \/ StoreFails \/ FlushDone
  \/ \E ok \in BOOLEAN : StreamRecord(ok)
  \/ \E ok \in BOOLEAN : CheckpointIfDue(ok)
  \/ CloseStops \/ CloseWaits \/ CloseLocks
  \/ \E ok \in BOOLEAN : CloseEnds(ok)
  \/ Crash

Spec == Init /\ [][Next]_vars

(***************************************************************************)
(* Fairness.  A goroutine that can run does (WF).  Taking mu is strongly   *)
(* fair: sync.Mutex hands a starving waiter the lock.  The database, the   *)
(* Backend and the ticker do not fail forever (SF on the successful step). *)
(***************************************************************************)
Fairness ==
  /\ WF_vars(StoreRecord \/ StoreFails \/ FlushDone)
  /\ WF_vars(\E ok \in BOOLEAN : StreamRecord(ok))
  /\ WF_vars(\E ok \in BOOLEAN : CheckpointIfDue(ok))
  /\ SF_vars(StoreRecord)
  /\ SF_vars(LoadKey) /\ WF_vars(KeyLoaded) /\ WF_vars(LoaderEnds)
  /\ SF_vars(Tick(TRUE))
  /\ SF_vars(RetryWakes) /\ WF_vars(RetryEnds)
  /\ WF_vars(CloseWaits) /\ SF_vars(CloseLocks)
  /\ WF_vars(\E ok \in BOOLEAN : CloseEnds(ok))

FairSpec == Spec /\ Fairness

-----------------------------------------------------------------------------
\* The type invariant.
TypeOK ==
  /\ DOMAIN records \subseteq Nat /\ DOMAIN checkpoints \subseteq Nat
  /\ \A i \in DOMAIN records : records[i].r \in RecordSet
  /\ \A c \in DOMAIN checkpoints : checkpoints[c].prevSeq \in Nat
  /\ seq \in Nat /\ cpSeq \in Nat
  /\ key \in BOOLEAN /\ keyLoaded \in BOOLEAN /\ backlogged \in BOOLEAN
  /\ backlog \in Seq(RecordSet)
  /\ loader \in {"off", "loading", "loaded", "ticking", "ended"}
  /\ retriers \in Nat
  /\ mu \in {"free", "append", "retry", "close", "verify"}
  /\ step \in {"none", "flush", "stream", "due", "lost"}
  /\ phase \in {"down", "open", "closing", "waited", "closed"}
  /\ starts \in Nat
  /\ streamed \in Nat
  /\ made \subseteq RecordSet /\ logged \subseteq RecordSet /\ dropped \subseteq RecordSet

Running == phase \notin {"down", "closed"}

\* The hash chain in SQLite has no gap, and each row covers the row before it,
\* whatever failed inserts, retries, shutdowns and crashes came before
\* (store, Open).
ChainIntact ==
  /\ DOMAIN records = 1 .. LastSeq(records)
  /\ \A i \in DOMAIN records :
       records[i] = newEntry(i, records[i].r, HashAt(i - 1))

\* Every stored checkpoint carries a signature over the hash of the record it
\* covers and names the checkpoint stored before it, across restarts
\* (checkpoint, Open).
CheckpointsIntact ==
  \A c \in DOMAIN checkpoints :
    LET p == checkpoints[c].prevSeq
    IN  /\ c \in DOMAIN records
        /\ checkpoints[c].head = records[c].hash
        /\ checkpoints[c].sig = message(c, p, records[c].hash)
        /\ p < c /\ (p = 0 \/ p \in DOMAIN checkpoints)
        /\ \A d \in DOMAIN checkpoints : d <= p \/ d >= c

\* What the process remembers of the chain is what the tables hold, at every
\* point of a critical section (seq, head and cpSeq against the tables).
MemoryFollowsTables ==
  Running => /\ seq = LastSeq(records) /\ head = HashAt(seq)
             /\ cpSeq = LastSeq(checkpoints)

\* The tables are what the log says they are, and the running process knows where they
\* end: the next record and the next checkpoint continue them.
TablesIntact == ChainIntact /\ CheckpointsIntact /\ MemoryFollowsTables

\* No record disappears silently: each one given to Append is stored, waiting,
\* logged as lost by Close, or was in memory when the process crashed.
NoSilentLoss ==
  made = {records[i].r : i \in DOMAIN records} \cup Elements(pending)
           \cup logged \cup dropped

\* When Ready lets Deliveries through, the key is there, the log is not closed (a
\* key that arrives while Close waits does not reopen it), and no record but the
\* one an Append is writing right now is unstored.
ReadyMeansStored ==
  Ready => /\ key /\ phase \in {"open", "closing"}
           /\ pending = <<>> \/ (mu = "append" /\ Len(backlog) = 1)

(***************************************************************************)
(* Liveness, under Fairness.                                               *)
(***************************************************************************)
\* Records that could not be stored are stored in the end, and Deliveries
\* resume, unless the log is closed (retryStore).
BacklogDrains ==
  (phase = "open" /\ backlogged) ~> (phase # "open" \/ (~backlogged /\ backlog = <<>>))

\* With the key loaded, a record is covered by a checkpoint in the end
\* (signEveryInterval retries what the append could not sign).
RecordsGetSigned ==
  \A n \in 1 .. Cardinality(RecordSet) :
    (keyLoaded /\ n <= seq) ~> (n <= cpSeq \/ phase # "open")

\* Close returns: its goroutines end, even with the database failing and a key
\* load under way (Close).
CloseReturns == (phase = "closing") ~> (phase \in {"closed", "down"})

\* The goroutines of the log do their work in the end: the backlog is stored, every
\* record is signed and Close returns.
LogProgresses == BacklogDrains /\ RecordsGetSigned /\ CloseReturns

Trail == INSTANCE AuditTrail WITH
  trail  <- [i \in 1 .. LastSeq(records) |-> records[i].r],
  queue  <- pending,
  signed <- LastSeq(checkpoints),
  streamed <- streamed,
  up     <- Running

\* The log implements the promise of AuditTrail: records enter the trail in the
\* order Append took them, are only then signed and streamed, the stream in order and
\* each record at most once, and leave the queue otherwise only when the process ends.
TrailSpec == Trail!Spec
=============================================================================

-------------------------- MODULE ExecBrokerProofs --------------------------
(***************************************************************************)
(* Proofs that a job's command is started at most once and that the limits *)
(* of tc-exec hold together (AtMostOnce and LimitsHold of ExecBroker), for *)
(* any number of jobs, connections, dispatchers and starts of the broker,  *)
(* and any limits.                                                         *)
(***************************************************************************)
EXTENDS ExecBroker, FiniteSetTheorems, TLAPS

USE DEF Replies, Complete

Results == Replies \cup {None}

CallRecords == [pc : {"idle", "begin", "ready", "run", "end"}, job : Jobs \cup {None}, result : Results]

DispRecords == [pc : {"idle", "failed", "locked", "wait", "done"}, job : Jobs \cup {None}, result : Results]

\* The types that the argument needs.
Shapes ==
  /\ jobs \in [Jobs -> {None, "fresh", "old"}]
  /\ box \in [Jobs -> {"none", "wait", "serve", "reap", "forget", "clean", "gone"}]
  /\ response \in [Jobs -> Results]
  /\ call \in [Callers -> CallRecords]
  /\ disp \in [Dispatchers -> DispRecords]
  /\ started \in [Jobs -> Nat]

\* c has taken job j out of the table and not started it yet.
Holds(c, j) == call[c].pc = "ready" /\ call[c].job = j

Untouched(j) == started[j] = 0 /\ \A c \in Callers : ~Holds(c, j)

\* A job is in the table, or held by one dispatch, or spent: the three exclude each other.
StartedOnce   == \A j \in Jobs : started[j] <= 1
FreshUnused   == \A j \in Jobs : jobs[j] = "fresh" => Untouched(j)
UnknownUnused == \A j \in Jobs : box[j] = "none" => jobs[j] # "fresh" /\ Untouched(j)
HeldUnstarted == \A c \in Callers : call[c].pc = "ready" => call[c].job \in Jobs /\ started[call[c].job] = 0
HeldOnce      == \A c, d \in Callers : \A j \in Jobs : Holds(c, j) /\ Holds(d, j) => c = d

Spent == StartedOnce /\ FreshUnused /\ UnknownUnused /\ HeldUnstarted /\ HeldOnce

\* Output comes only from a command that was started, on its way from the command to the
\* mailbox goroutine, the response FIFO and the dispatcher.
RunsStarted ==
  \A c \in Callers : call[c].pc = "run" => call[c].job \in Jobs /\ started[call[c].job] = 1
OwnJob ==
  \A j \in Jobs : /\ call[j].pc # "idle" => call[j].job = j
                  /\ call[j].pc = "end" /\ call[j].result = "ok" => started[j] = 1
ReplyStarted ==
  \A j \in Jobs : response[j] = "ok" => started[j] = 1
DoneStarted ==
  \A d \in Dispatchers : /\ disp[d].pc \in {"locked", "wait", "done"} => disp[d].job \in Jobs
                         /\ disp[d].pc = "done" => \/ disp[d].result = "not run"
                                                   \/ disp[d].result = "ok" /\ started[disp[d].job] = 1

Output == RunsStarted /\ OwnJob /\ ReplyStarted /\ DoneStarted

OnceInv == Shapes /\ Spent /\ Output

\* No job, no dispatch, no output.
LEMMA InitOnce == Init => OnceInv
<1> SUFFICES ASSUME Init PROVE OnceInv
  OBVIOUS
<1>0. /\ \A c \in Callers : call[c].pc = "idle"
      /\ \A d \in Dispatchers : disp[d].pc = "idle"
      /\ \A j \in Jobs : started[j] = 0 /\ jobs[j] = None /\ response[j] = None
  BY DEF Init, Idle
<1>1. Shapes
  <2>1. Idle \in CallRecords /\ Idle \in DispRecords
    BY DEF Idle, CallRecords, DispRecords, Results
  <2>2. QED
    BY <2>1 DEF Init, Shapes, Results
<1>2. Spent
  <2>1. \A j \in Jobs : Untouched(j) /\ jobs[j] # "fresh"
    BY <1>0, BrokerAssumption DEF Untouched, Holds
  <2>2. StartedOnce
    BY <1>0 DEF StartedOnce
  <2>3. FreshUnused /\ UnknownUnused
    BY <2>1 DEF FreshUnused, UnknownUnused
  <2>4. HeldUnstarted /\ HeldOnce
    BY <1>0 DEF HeldUnstarted, HeldOnce, Holds
  <2>5. QED
    BY <2>2, <2>3, <2>4 DEF Spent
<1>3. Output
  <2>1. RunsStarted /\ OwnJob
    BY <1>0 DEF RunsStarted, OwnJob, Callers
  <2>2. ReplyStarted /\ DoneStarted
    BY <1>0, BrokerAssumption DEF ReplyStarted, DoneStarted
  <2>3. QED
    BY <2>1, <2>2 DEF Output
<1>4. QED
  BY <1>1, <1>2, <1>3 DEF OnceInv

\* Nothing is put into the table, taken out of it to be run, or started.
LEMMA SpentKept ==
  ASSUME Spent, UNCHANGED started,
         \A c \in Callers : call'[c].pc = "ready" => call'[c] = call[c],
         \A j \in Jobs : jobs'[j] = "fresh" => jobs[j] = "fresh",
         \A j \in Jobs : box'[j] = "none" => box[j] = "none"
  PROVE  Spent'
<1>1. \A c \in Callers, j \in Jobs : Holds(c, j)' => Holds(c, j)
  BY DEF Holds
<1>2. \A j \in Jobs : Untouched(j) => Untouched(j)'
  BY <1>1 DEF Untouched
<1>3. StartedOnce' /\ FreshUnused' /\ UnknownUnused'
  BY <1>2 DEF Spent, StartedOnce, FreshUnused, UnknownUnused
<1>4. HeldUnstarted' /\ HeldOnce'
  BY <1>1 DEF Spent, HeldUnstarted, HeldOnce
<1>5. QED
  BY <1>3, <1>4 DEF Spent

\* No command is started, and no output is made up.
LEMMA OutputKept ==
  ASSUME Output, UNCHANGED <<started, disp>>,
         \A c \in Callers : call'[c].pc = "run" => call'[c] = call[c],
         \A j \in Jobs : \/ call'[j] = call[j] \/ call'[j].pc = "idle"
                         \/ /\ call'[j].job = j
                            /\ call'[j].pc = "end" /\ call'[j].result = "ok" => started[j] = 1,
         \A j \in Jobs : response'[j] = "ok" => started[j] = 1
  PROVE  Output'
<1>1. RunsStarted'
  BY DEF Output, RunsStarted
<1>2. OwnJob'
  BY DEF Output, OwnJob
<1>3. ReplyStarted' /\ DoneStarted'
  BY DEF Output, ReplyStarted, DoneStarted
<1>4. QED
  BY <1>1, <1>2, <1>3 DEF Output

\* Steps that dispatch nothing and reply nothing; the table only loses jobs.
LEMMA OnceFrame ==
  ASSUME OnceInv, UNCHANGED <<response, call, disp, started>>,
         jobs' \in [Jobs -> {None, "fresh", "old"}],
         \A j \in Jobs : jobs'[j] = "fresh" => jobs[j] = "fresh",
         box' \in [Jobs -> {"none", "wait", "serve", "reap", "forget", "clean", "gone"}],
         \A j \in Jobs : box'[j] = "none" => box[j] = "none"
  PROVE  OnceInv'
<1>1. Shapes'
  BY DEF OnceInv, Shapes
<1>2. Spent'
  BY SpentKept DEF OnceInv
<1>3. Output'
  BY OutputKept DEF OnceInv, Output, ReplyStarted
<1>4. QED
  BY <1>1, <1>2, <1>3 DEF OnceInv

\* The broker's process ends: what was taken and not started is lost, and never started.
LEMMA OnceExit ==
  ASSUME OnceInv, Exit
  PROVE  OnceInv'
<1> USE BrokerAssumption
<1>0. /\ \A c \in Callers : call'[c] = Idle /\ call'[c].pc = "idle"
      /\ \A j \in Jobs : box'[j] = "none" => box[j] = "none"
      /\ \A j \in Jobs : jobs'[j] = None
      /\ UNCHANGED <<response, disp, started>>
  BY DEF Exit, Idle
<1>1. Shapes'
  <2>1. Idle \in CallRecords
    BY DEF Idle, CallRecords, Results
  <2>2. QED
    BY <2>1 DEF OnceInv, Shapes, Exit
<1>2. Spent'
  BY <1>0, SpentKept DEF OnceInv
<1>3. Output'
  BY <1>0, OutputKept DEF OnceInv, Output, ReplyStarted, Callers
<1>4. QED
  BY <1>1, <1>2, <1>3 DEF OnceInv

\* An identifier is given out once.
LEMMA OnceSubmit ==
  ASSUME OnceInv, NEW j \in Jobs, Submit(j)
  PROVE  OnceInv'
<1> USE BrokerAssumption
<1>1. CASE ~Busy /\ newMailboxJob(j) /\ jobs' = [expire EXCEPT ![j] = "fresh"]
  <2>1. /\ box' = [box EXCEPT ![j] = "wait"] /\ box[j] = "none"
        /\ UNCHANGED <<response, call, disp, started>>
    BY <1>1 DEF Submit, newMailboxJob
  <2>2. /\ jobs' \in [Jobs -> {None, "fresh", "old"}]
        /\ \A k \in Jobs : jobs'[k] = "fresh" => k = j \/ jobs[k] = "fresh"
    BY <1>1 DEF OnceInv, Shapes, expire
  <2>3. Shapes'
    BY <2>1, <2>2 DEF OnceInv, Shapes
  <2>4. Spent'
    <3>1. \A k \in Jobs : Untouched(k)' = Untouched(k)
      BY <2>1 DEF Untouched, Holds
    <3>2. FreshUnused'
      BY <2>1, <2>2, <3>1 DEF OnceInv, Spent, FreshUnused, UnknownUnused
    <3>3. UnknownUnused'
      BY <2>1, <2>2, <3>1 DEF OnceInv, Shapes, Spent, UnknownUnused
    <3>4. StartedOnce' /\ HeldUnstarted' /\ HeldOnce'
      BY <2>1 DEF OnceInv, Spent, StartedOnce, HeldUnstarted, HeldOnce, Holds
    <3>5. QED
      BY <3>2, <3>3, <3>4 DEF Spent
  <2>5. Output'
    BY <2>1, OutputKept DEF OnceInv, Output, ReplyStarted
  <2>6. QED
    BY <2>3, <2>4, <2>5 DEF OnceInv
<1>2. CASE jobs' = expire /\ UNCHANGED <<box, mailboxActive, dirs>>
  BY <1>2, OnceFrame DEF OnceInv, Shapes, Submit, expire
<1>3. QED
  BY <1>1, <1>2 DEF Submit

\* What a dispatch that is not to run anything leaves behind.
LEMMA EndedShape ==
  ASSUME NEW c \in Callers, NEW result \in Results
  PROVE  /\ Ended(c, result) \in CallRecords
         /\ Ended(c, result).pc \in {"idle", "end"}
         /\ c \in Jobs => Ended(c, result).job = c
         /\ Ended(c, result).result \in {None, result}
BY BrokerAssumption DEF Ended, Idle, CallRecords, Results, Callers

\* A dispatch that is over holds no job and has no output but its command's.
LEMMA OnceEnds ==
  ASSUME OnceInv, NEW c \in Callers, NEW result \in Results,
         call' = [call EXCEPT ![c] = Ended(c, result)],
         c \in Jobs /\ result = "ok" => started[c] = 1,
         jobs' \in [Jobs -> {None, "fresh", "old"}],
         \A j \in Jobs : jobs'[j] = "fresh" => jobs[j] = "fresh",
         UNCHANGED <<box, response, disp, started>>
  PROVE  OnceInv'
<1> USE BrokerAssumption
<1>0. \A d \in Callers : call'[d] = IF d = c THEN Ended(c, result) ELSE call[d]
  BY DEF OnceInv, Shapes
<1>e. Ended(c, result).pc \notin {"ready", "run"}
  BY EndedShape
<1>1. Shapes'
  BY EndedShape DEF OnceInv, Shapes
<1>2. Spent'
  <2>1. \A d \in Callers : call'[d].pc = "ready" => call'[d] = call[d]
    BY <1>0, <1>e
  <2>2. QED
    BY <2>1, SpentKept DEF OnceInv
<1>3. Output'
  <2>1. \A d \in Callers : call'[d].pc = "run" => call'[d] = call[d]
    BY <1>0, <1>e
  <2>2. c \in Jobs => /\ Ended(c, result).job = c
                      /\ Ended(c, result).pc = "end" /\ Ended(c, result).result = "ok" => started[c] = 1
    BY EndedShape
  <2>3. \A j \in Jobs : \/ call'[j] = call[j] \/ call'[j].pc = "idle"
                        \/ /\ call'[j].job = j
                           /\ call'[j].pc = "end" /\ call'[j].result = "ok" => started[j] = 1
    BY <1>0, <2>2 DEF Callers
  <2>4. QED
    BY <2>1, <2>3, OutputKept DEF OnceInv, Output, ReplyStarted
<1>4. QED
  BY <1>1, <1>2, <1>3 DEF OnceInv

\* With a worker's slot, a job leaves the table for the one dispatch that took it.
LEMMA OnceDispatch ==
  ASSUME OnceInv, NEW c \in Callers, NEW j \in Jobs, c \in Jobs => c = j, Dispatch(c, j)
  PROVE  OnceInv'
<1> USE BrokerAssumption
<1>1. CASE Refused(j) = None
  <2> DEFINE rec == [pc |-> "ready", job |-> j, result |-> None]
  <2>1. /\ jobs[j] = "fresh" /\ jobs' = [jobs EXCEPT ![j] = None]
        /\ call' = [call EXCEPT ![c] = rec]
        /\ UNCHANGED <<box, response, disp, started>>
    BY <1>1 DEF Refused, Dispatch
  <2>2. rec \in CallRecords /\ rec.pc = "ready" /\ rec.job = j
    BY DEF CallRecords, Results
  <2> HIDE DEF rec
  <2>3. \A d \in Callers : call'[d] = IF d = c THEN rec ELSE call[d]
    BY <2>1 DEF OnceInv, Shapes
  <2>4. Shapes'
    BY <2>1, <2>2 DEF OnceInv, Shapes
  <2>5. started[j] = 0 /\ \A d \in Callers : ~Holds(d, j)
    BY <2>1 DEF OnceInv, Spent, FreshUnused, Untouched
  <2>6. box[j] # "none"
    BY <2>1 DEF OnceInv, Spent, UnknownUnused
  <2>7. Spent'
    <3>1. \A k \in Jobs : jobs'[k] = "fresh" => k # j /\ jobs[k] = "fresh"
      BY <2>1 DEF OnceInv, Shapes
    <3>2. \A d \in Callers, k \in Jobs : Holds(d, k)' <=> (d = c /\ k = j) \/ (d # c /\ Holds(d, k))
      BY <2>2, <2>3 DEF Holds
    <3>3. \A k \in Jobs \ {j} : Untouched(k) => Untouched(k)'
      BY <2>1, <3>2 DEF Untouched
    <3>4. FreshUnused'
      BY <3>1, <3>3 DEF OnceInv, Spent, FreshUnused
    <3>5. UnknownUnused'
      <4> SUFFICES ASSUME NEW k \in Jobs, box[k] = "none" PROVE jobs'[k] # "fresh" /\ Untouched(k)'
        BY <2>1 DEF UnknownUnused
      <4>1. k # j /\ jobs[k] # "fresh" /\ Untouched(k)
        BY <2>6 DEF OnceInv, Spent, UnknownUnused
      <4>2. QED
        BY <3>1, <3>3, <4>1
    <3>6. HeldUnstarted'
      <4> SUFFICES ASSUME NEW d \in Callers, call'[d].pc = "ready"
                   PROVE  call'[d].job \in Jobs /\ started[call'[d].job] = 0
        BY <2>1 DEF HeldUnstarted
      <4>1. CASE d = c
        BY <2>2, <2>3, <2>5, <4>1
      <4>2. CASE d # c
        BY <2>3, <4>2 DEF OnceInv, Spent, HeldUnstarted
      <4>3. QED
        BY <4>1, <4>2
    <3>7. HeldOnce'
      <4> SUFFICES ASSUME NEW d \in Callers, NEW f \in Callers, NEW k \in Jobs,
                          Holds(d, k)', Holds(f, k)'
                   PROVE  d = f
        BY DEF HeldOnce
      <4>1. CASE k = j
        BY <2>5, <3>2, <4>1
      <4>2. CASE k # j
        BY <3>2, <4>2 DEF OnceInv, Spent, HeldOnce
      <4>3. QED
        BY <4>1, <4>2
    <3>8. StartedOnce'
      BY <2>1 DEF OnceInv, Spent, StartedOnce
    <3>9. QED
      BY <3>4, <3>5, <3>6, <3>7, <3>8 DEF Spent
  <2>8. Output'
    <3>1. \A d \in Callers : call'[d].pc = "run" => call'[d] = call[d]
      BY <2>2, <2>3
    <3>2. \A k \in Jobs : call'[k] = call[k] \/ (call'[k].job = k /\ call'[k].pc # "end")
      BY <2>2, <2>3 DEF Callers
    <3>3. QED
      BY <2>1, <3>1, <3>2, OutputKept DEF OnceInv, Output, ReplyStarted
  <2>9. QED
    BY <2>4, <2>7, <2>8 DEF OnceInv
<1>2. CASE Refused(j) # None
  <2>1. Refused(j) \in {"busy", "unknown"}
    BY <1>2 DEF Refused
  <2>2. /\ call' = [call EXCEPT ![c] = Ended(c, Refused(j))]
        /\ UNCHANGED <<box, response, disp, started>>
    BY <1>2 DEF Dispatch
  <2>3. /\ jobs' \in [Jobs -> {None, "fresh", "old"}]
        /\ \A k \in Jobs : jobs'[k] = "fresh" => jobs[k] = "fresh"
    BY DEF Dispatch, OnceInv, Shapes
  <2>4. QED
    BY <2>1, <2>2, <2>3, OnceEnds DEF Results
<1>3. QED
  BY <1>1, <1>2

\* Only the dispatch that took a job starts it.
LEMMA OnceStart ==
  ASSUME OnceInv, NEW c \in Callers, Start(c)
  PROVE  OnceInv'
<1> DEFINE j == call[c].job
<1>0. call[c].pc = "ready" /\ j \in Jobs /\ started[j] = 0
  BY DEF Start, OnceInv, Spent, HeldUnstarted
<1>1. CASE ~CtxDone(c) /\ call' = [call EXCEPT ![c].pc = "run"] /\ started' = [started EXCEPT ![j] = @ + 1]
  <2> DEFINE rec == [call[c] EXCEPT !.pc = "run"]
  <2>1. UNCHANGED <<jobs, box, response, disp>>
    BY DEF Start
  <2>2. rec.pc = "run" /\ rec.job = j /\ rec \in CallRecords
    BY DEF OnceInv, Shapes, CallRecords
  <2>3. \A d \in Callers : call'[d] = IF d = c THEN rec ELSE call[d]
    BY <1>1 DEF OnceInv, Shapes
  <2>4. /\ started' \in [Jobs -> Nat]
        /\ \A k \in Jobs : started'[k] = IF k = j THEN 1 ELSE started[k]
    BY <1>0, <1>1 DEF OnceInv, Shapes
  <2>5. Shapes'
    BY <1>1, <2>1, <2>2, <2>4 DEF OnceInv, Shapes
  <2>6. Holds(c, j)
    BY <1>0 DEF Holds
  <2> HIDE DEF rec
  <2>7. \A d \in Callers : Holds(d, j) => d = c
    BY <1>0, <2>6 DEF OnceInv, Spent, HeldOnce
  <2>8. \A d \in Callers : call[d].pc = "ready" /\ call[d].job = j => d = c
    BY <2>7 DEF Holds
  <2> HIDE DEF j
  <2>9. Spent'
    <3>1. \A d \in Callers, k \in Jobs : Holds(d, k)' <=> d # c /\ Holds(d, k)
      BY <2>2, <2>3 DEF Holds
    <3>2. \A k \in Jobs : Untouched(k) => Untouched(k)'
      BY <2>4, <2>6, <3>1 DEF Untouched
    <3>3. StartedOnce' /\ FreshUnused' /\ UnknownUnused'
      BY <2>1, <2>4, <3>2 DEF OnceInv, Spent, StartedOnce, FreshUnused, UnknownUnused
    <3>4. HeldUnstarted'
      BY <2>2, <2>3, <2>4, <2>8 DEF OnceInv, Spent, HeldUnstarted
    <3>5. HeldOnce'
      BY <3>1 DEF OnceInv, Spent, HeldOnce
    <3>6. QED
      BY <3>3, <3>4, <3>5 DEF Spent
  <2>10. Output'
    <3>1. \A k \in Jobs : started[k] = 1 => started'[k] = 1
      BY <2>4
    <3>2. RunsStarted'
      BY <1>0, <2>2, <2>3, <2>4, <3>1 DEF OnceInv, Output, RunsStarted
    <3>3. c \in Jobs => j = c
      BY <1>0 DEF OnceInv, Output, OwnJob, j
    <3>4. OwnJob'
      BY <2>2, <2>3, <3>1, <3>3 DEF OnceInv, Output, OwnJob, Callers
    <3>5. ReplyStarted' /\ DoneStarted'
      BY <2>1, <3>1 DEF OnceInv, Output, ReplyStarted, DoneStarted
    <3>6. QED
      BY <3>2, <3>4, <3>5 DEF Output
  <2>11. QED
    BY <2>5, <2>9, <2>10 DEF OnceInv
<1>2. ASSUME NEW r \in {"no sandbox", "timed out", "not run"}, UNCHANGED started,
             call' = [call EXCEPT ![c] = Ended(c, r)]
      PROVE  OnceInv'
  BY <1>2, OnceEnds DEF Start, Results, OnceInv, Shapes
<1>3. QED
  BY <1>1, <1>2 DEF Start

\* A command's end frees its slot and no more.
LEMMA OnceEnd ==
  ASSUME OnceInv, NEW c \in Callers, NEW result \in {"ok", "timed out"}, End(c, result)
  PROVE  OnceInv'
<1>1. c \in Jobs => started[c] = 1
  BY DEF End, OnceInv, Output, RunsStarted, OwnJob
<1>2. QED
  BY <1>1, OnceEnds DEF End, Results, OnceInv, Shapes

\* The mailbox goroutine takes a start byte, or ends.
LEMMA OnceReadStart ==
  ASSUME OnceInv, NEW j \in Jobs, ReadStart(j)
  PROVE  OnceInv'
<1> USE BrokerAssumption
<1>1. CASE Head(pipe[j]) # "D" /\ box' = [box EXCEPT ![j] = "forget"] /\ UNCHANGED call
  BY <1>1, OnceFrame DEF ReadStart, OnceInv, Shapes
<1>2. CASE /\ box' = [box EXCEPT ![j] = "serve"]
           /\ call' = [call EXCEPT ![j] = [pc |-> "begin", job |-> j, result |-> None]]
  <2> DEFINE rec == [pc |-> "begin", job |-> j, result |-> None]
  <2>1. UNCHANGED <<jobs, response, disp, started>> /\ box[j] = "wait" /\ j \in Callers
    BY DEF ReadStart, Callers
  <2>2. rec \in CallRecords /\ rec.pc = "begin" /\ rec.job = j
    BY DEF CallRecords, Results
  <2>3. call' = [call EXCEPT ![j] = rec]
    BY <1>2
  <2> HIDE DEF rec
  <2>4. \A d \in Callers : call'[d] = IF d = j THEN rec ELSE call[d]
    BY <2>1, <2>3 DEF OnceInv, Shapes
  <2>5. Shapes'
    <3>1. call' \in [Callers -> CallRecords]
      BY <2>2, <2>3 DEF OnceInv, Shapes
    <3>2. QED
      BY <1>2, <2>1, <3>1 DEF OnceInv, Shapes
  <2>6. Spent'
    <3>1. \A d \in Callers : call'[d].pc = "ready" => call'[d] = call[d]
      BY <2>2, <2>4
    <3>2. \A k \in Jobs : box'[k] = "none" => box[k] = "none"
      BY <1>2, <2>1 DEF OnceInv, Shapes
    <3>3. QED
      BY <2>1, <3>1, <3>2, SpentKept DEF OnceInv
  <2>7. Output'
    <3>1. \A d \in Callers : call'[d].pc = "run" => call'[d] = call[d]
      BY <2>2, <2>4
    <3>2. \A k \in Jobs : call'[k] = call[k] \/ (call'[k].job = k /\ call'[k].pc # "end")
      BY <2>2, <2>4 DEF Callers
    <3>3. QED
      BY <2>1, <3>1, <3>2, OutputKept DEF OnceInv, Output, ReplyStarted
  <2>8. QED
    BY <2>5, <2>6, <2>7 DEF OnceInv
<1>3. QED
  BY <1>1, <1>2 DEF ReadStart

\* The dispatch is over, and its reply may be written to the response FIFO.
LEMMA OnceDone ==
  ASSUME OnceInv, NEW j \in Jobs, Done(j)
  PROVE  OnceInv'
<1> USE BrokerAssumption
<1>1. /\ UNCHANGED <<jobs, disp, started>> /\ box' = [box EXCEPT ![j] = "forget"]
      /\ call' = [call EXCEPT ![j] = Idle] /\ j \in Callers /\ call[j].pc = "end"
      /\ box[j] \in {"serve", "reap"}
  BY DEF Done, Callers
<1>2. /\ \A d \in Callers : call'[d] = IF d = j THEN Idle ELSE call[d]
      /\ Idle.pc = "idle" /\ Idle \in CallRecords
  BY <1>1 DEF OnceInv, Shapes, Idle, CallRecords, Results
<1>3. /\ response' \in [Jobs -> Results]
      /\ \A k \in Jobs : response'[k] = "ok" => started[k] = 1
  <2>1. call[j].result = "ok" => started[j] = 1
    BY <1>1 DEF OnceInv, Output, OwnJob
  <2>2. call[j].result \in Results
    BY <1>1 DEF OnceInv, Shapes, CallRecords
  <2>3. QED
    BY <2>1, <2>2 DEF Done, writeFIFO, OnceInv, Shapes, Output, ReplyStarted
<1>4. Shapes'
  BY <1>1, <1>2, <1>3 DEF OnceInv, Shapes
<1>5. Spent'
  <2>1. \A d \in Callers : call'[d].pc = "ready" => call'[d] = call[d]
    BY <1>2
  <2>2. \A k \in Jobs : box'[k] = "none" => box[k] = "none"
    BY <1>1 DEF OnceInv, Shapes
  <2>3. QED
    BY <1>1, <2>1, <2>2, SpentKept DEF OnceInv
<1>6. Output'
  <2>1. \A d \in Callers : call'[d].pc = "run" => call'[d] = call[d]
    BY <1>2
  <2>2. \A k \in Jobs : call'[k] = call[k] \/ call'[k].pc = "idle"
    BY <1>2 DEF Callers
  <2>3. QED
    BY <1>1, <1>3, <2>1, <2>2, OutputKept DEF OnceInv
<1>7. QED
  BY <1>4, <1>5, <1>6 DEF OnceInv

\* A dispatcher is given output only by the response FIFO.
LEMMA OnceDispatcher ==
  ASSUME OnceInv, NEW d \in Dispatchers, NEW rec \in DispRecords,
         disp' = [disp EXCEPT ![d] = rec], UNCHANGED <<jobs, box, call, started>>,
         response' \in [Jobs -> Results],
         \A j \in Jobs : response'[j] = "ok" => response[j] = "ok",
         rec.pc \in {"locked", "wait", "done"} => rec.job \in Jobs,
         rec.pc = "done" => rec.result = "not run" \/ (rec.result = "ok" /\ started[rec.job] = 1)
  PROVE  OnceInv'
<1>1. Shapes'
  BY DEF OnceInv, Shapes
<1>2. Spent'
  BY SpentKept DEF OnceInv
<1>3. Output'
  <2>1. RunsStarted' /\ OwnJob' /\ ReplyStarted'
    BY DEF OnceInv, Output, RunsStarted, OwnJob, ReplyStarted
  <2>2. DoneStarted'
    BY DEF OnceInv, Shapes, Output, DoneStarted
  <2>3. QED
    BY <2>1, <2>2 DEF Output
<1>4. QED
  BY <1>1, <1>2, <1>3 DEF OnceInv

\* The steps of "tc-exec dispatch".
LEMMA OnceMove ==
  ASSUME OnceInv, NEW d \in Dispatchers,
         WriteD(d) \/ ReadReply(d) \/ Die(d) \/ \E j \in Jobs : Open(d, j)
  PROVE  OnceInv'
<1> USE BrokerAssumption
<1>0. Failed \in DispRecords /\ Failed.pc = "failed"
  BY DEF Failed, Idle, DispRecords, Results
<1>1. ASSUME NEW rec \in DispRecords, Move(d, rec),
             rec.pc \in {"locked", "wait", "done"} => rec.job \in Jobs,
             rec.pc # "done"
      PROVE  OnceInv'
  <2>1. /\ response' \in [Jobs -> Results]
        /\ \A j \in Jobs : response'[j] = "ok" => response[j] = "ok"
    BY <1>1 DEF Move, OnceInv, Shapes, Results
  <2>2. QED
    BY <1>1, <2>1, OnceDispatcher DEF Move
<1>2. CASE Die(d)
  BY <1>0, <1>1, <1>2 DEF Die
<1>3. CASE \E j \in Jobs : Open(d, j)
  <2> PICK j \in Jobs : Open(d, j)
    BY <1>3
  <2>1. [pc |-> "locked", job |-> j, result |-> None] \in DispRecords
    BY DEF DispRecords, Results
  <2>2. QED
    BY <1>1, <2>1 DEF Open
<1>4. CASE WriteD(d)
  <2>1. [disp[d] EXCEPT !.pc = "wait"] \in DispRecords
    BY DEF OnceInv, Shapes, DispRecords
  <2>2. disp[d].job \in Jobs
    BY <1>4 DEF WriteD, OnceInv, Output, DoneStarted
  <2>3. Move(d, Failed) \/ Move(d, [disp[d] EXCEPT !.pc = "wait"])
    BY <1>4 DEF WriteD
  <2>4. [disp[d] EXCEPT !.pc = "wait"].pc = "wait" /\ [disp[d] EXCEPT !.pc = "wait"].job = disp[d].job
    BY DEF OnceInv, Shapes, DispRecords
  <2>5. QED
    BY <1>0, <1>1, <2>1, <2>2, <2>3, <2>4
<1>5. CASE ReadReply(d)
  <2> DEFINE k == disp[d].job
             r == response[k]
             rec == IF r \in Complete THEN [disp[d] EXCEPT !.pc = "done", !.result = r] ELSE Failed
  <2>1. k \in Jobs
    BY <1>5 DEF ReadReply, OnceInv, Output, DoneStarted
  <2>2. CASE r # None
    <3>1. /\ response' = [response EXCEPT ![k] = None]
          /\ disp' = [disp EXCEPT ![d] = rec]
          /\ UNCHANGED <<jobs, box, call, started>>
      BY <1>5, <2>2 DEF ReadReply, Move
    <3>2. /\ rec \in DispRecords
          /\ rec.pc \in {"locked", "wait", "done"} => rec.job = k /\ rec.result = r /\ r \in Complete
      BY <1>0 DEF OnceInv, Shapes, DispRecords, Results
    <3>3. r = "ok" => started[k] = 1
      BY <2>1 DEF OnceInv, Output, ReplyStarted
    <3>4. /\ response' \in [Jobs -> Results]
          /\ \A j \in Jobs : response'[j] = "ok" => response[j] = "ok"
      BY <2>1, <3>1 DEF OnceInv, Shapes, Results
    <3> HIDE DEF rec, r
    <3>5. rec.pc \in {"locked", "wait", "done"} => rec.job \in Jobs
      BY <2>1, <3>2
    <3>6. rec.pc = "done" => rec.result = "not run" \/ (rec.result = "ok" /\ started[rec.job] = 1)
      BY <3>2, <3>3
    <3>7. QED
      BY <3>1, <3>2, <3>4, <3>5, <3>6, OnceDispatcher
  <2>3. CASE r = None
    BY <1>0, <1>1, <1>5, <2>3 DEF ReadReply
  <2>4. QED
    BY <2>2, <2>3
<1>6. QED
  BY <1>2, <1>3, <1>4, <1>5

\* One step per action.
LEMMA OnceStep == OnceInv /\ [Next]_vars => OnceInv'
<1> SUFFICES ASSUME OnceInv, [Next]_vars PROVE OnceInv'
  OBVIOUS
<1>0. /\ jobs \in [Jobs -> {None, "fresh", "old"}]
      /\ box \in [Jobs -> {"none", "wait", "serve", "reap", "forget", "clean", "gone"}]
  BY DEF OnceInv, Shapes
<1>1. CASE Serve \/ Signal \/ CloseMailbox
  BY <1>0, <1>1, OnceFrame DEF Serve, Signal, CloseMailbox
<1>2. CASE Closed \/ Crash
  BY <1>2, OnceExit DEF Closed, Crash
<1>3. CASE Sweep
  BY <1>0, <1>3, OnceFrame, BrokerAssumption DEF Sweep, expire
<1>4. ASSUME NEW j \in Jobs, Age(j) \/ Forget(j) PROVE OnceInv'
  BY <1>0, <1>4, OnceFrame, BrokerAssumption DEF Age, Forget
<1>5. ASSUME NEW j \in Jobs, Submit(j) PROVE OnceInv'
  BY <1>5, OnceSubmit
<1>6. ASSUME NEW j \in Jobs, GiveUp(j) \/ Poll(j) \/ Abandon(j) PROVE OnceInv'
  BY <1>0, <1>6, OnceFrame DEF GiveUp, Poll, Abandon
<1>7. ASSUME NEW j \in Jobs, ReadStart(j) PROVE OnceInv'
  BY <1>7, OnceReadStart
<1>8. ASSUME NEW j \in Jobs, Done(j) PROVE OnceInv'
  BY <1>8, OnceDone
<1>9. ASSUME NEW j \in Jobs, Cleanup(j) PROVE OnceInv'
  <2>1. /\ UNCHANGED <<jobs, call, disp, started>> /\ box' = [box EXCEPT ![j] = "gone"]
        /\ response' \in [Jobs -> Results]
        /\ \A k \in Jobs : response'[k] = "ok" => response[k] = "ok"
    BY <1>9, BrokerAssumption DEF Cleanup, OnceInv, Shapes, Results
  <2>2. Shapes'
    BY <2>1 DEF OnceInv, Shapes
  <2>3. Spent'
    BY <1>0, <2>1, SpentKept DEF OnceInv
  <2>4. Output'
    BY <2>1, OutputKept DEF OnceInv, Output, ReplyStarted
  <2>5. QED
    BY <2>2, <2>3, <2>4 DEF OnceInv
<1>10. ASSUME NEW j \in Jobs, MailboxDispatch(j) PROVE OnceInv'
  BY <1>10, OnceDispatch DEF MailboxDispatch, Callers
<1>11. ASSUME NEW j \in Jobs, NEW h \in Handlers, SocketDispatch(h, j) PROVE OnceInv'
  BY <1>11, OnceDispatch, BrokerAssumption DEF SocketDispatch, Callers
<1>12. ASSUME NEW c \in Callers, Start(c) PROVE OnceInv'
  BY <1>12, OnceStart
<1>13. ASSUME NEW c \in Callers, Finish(c) \/ Kill(c) \/ TimeOut(c) PROVE OnceInv'
  <2>1. End(c, "ok") \/ End(c, "timed out")
    BY <1>13 DEF Finish, Kill, TimeOut
  <2>2. QED
    BY <2>1, OnceEnd
<1>14. ASSUME NEW d \in Dispatchers,
              WriteD(d) \/ ReadReply(d) \/ Die(d) \/ \E j \in Jobs : Open(d, j)
       PROVE  OnceInv'
  BY <1>14, OnceMove
<1>15. CASE UNCHANGED vars
  BY <1>0, <1>15, OnceFrame DEF vars
<1>16. QED
  BY <1>1, <1>2, <1>3, <1>4, <1>5, <1>6, <1>7, <1>8, <1>9, <1>10, <1>11, <1>12,
     <1>13, <1>14, <1>15 DEF Next

\* Nobody has started job j and nobody can any more: it is given out, and neither in the
\* table nor held.
Discarded(j) == box[j] # "none" /\ jobs[j] # "fresh" /\ Untouched(j)

\* The reply of a bwrap that could not be started, on its way to a dispatcher of job j.
ToldNotRun(j) ==
  \/ call[j].pc = "end" /\ call[j].result = "not run"
  \/ response[j] = "not run"
  \/ \E d \in Dispatchers : disp[d].pc = "done" /\ disp[d].job = j /\ disp[d].result = "not run"

NotRunInv == \A j \in Jobs : ToldNotRun(j) => Discarded(j)

\* Steps that take nothing out of the table and start nothing.
LEMMA DiscardedKept ==
  ASSUME NEW j \in Jobs, Discarded(j), UNCHANGED started,
         jobs'[j] = "fresh" => jobs[j] = "fresh", box'[j] = "none" => box[j] = "none",
         \A c \in Callers : call'[c].pc = "ready" => call'[c] = call[c]
  PROVE  Discarded(j)'
BY DEF Discarded, Untouched, Holds

\* What became of the dispatch that was to start.
LEMMA StartOutcome ==
  ASSUME call \in [Callers -> CallRecords], NEW c \in Callers, Start(c)
  PROVE  call'[c].pc = "run" \/ (UNCHANGED started /\ call'[c].pc \in {"end", "idle"})
<1>1. CASE call' = [call EXCEPT ![c].pc = "run"]
  BY <1>1 DEF CallRecords
<1>2. ASSUME NEW r \in Results, call' = [call EXCEPT ![c] = Ended(c, r)], UNCHANGED started
      PROVE  UNCHANGED started /\ call'[c].pc \in {"end", "idle"}
  <2>1. Ended(c, r).pc \in {"end", "idle"}
    BY EndedShape
  <2>2. QED
    BY <1>2, <2>1
<1>3. QED
  BY <1>1, <1>2 DEF Start, Results

\* A job that is discarded stays so: an identifier is not given out again, a dispatch
\* needs the job in the table, and a start needs a dispatch that took it.
LEMMA DiscardedStays ==
  ASSUME OnceInv, [Next]_vars, NEW j \in Jobs, Discarded(j)
  PROVE  Discarded(j)'
<1>0. /\ jobs \in [Jobs -> {None, "fresh", "old"}]
      /\ box \in [Jobs -> {"none", "wait", "serve", "reap", "forget", "clean", "gone"}]
      /\ call \in [Callers -> CallRecords]
  BY DEF OnceInv, Shapes
<1>d. box[j] # "none" /\ jobs[j] # "fresh"
  BY DEF Discarded
<1>1. CASE Serve \/ Signal \/ CloseMailbox \/ Sweep \/ UNCHANGED vars
  BY <1>0, <1>1, DiscardedKept, BrokerAssumption DEF Serve, Signal, CloseMailbox, Sweep, expire, vars
<1>2. CASE Closed \/ Crash
  <2>1. Exit
    BY <1>2 DEF Closed, Crash
  <2>2. /\ jobs'[j] = None /\ (box'[j] = "none" => box[j] = "none")
        /\ UNCHANGED started /\ \A c \in Callers : call'[c].pc = "idle"
    BY <2>1 DEF Exit, Idle
  <2>3. QED
    <3>1. jobs'[j] # "fresh" /\ \A c \in Callers : call'[c].pc # "ready"
      BY <2>2, BrokerAssumption
    <3>2. QED
      BY <2>2, <3>1, DiscardedKept
<1>3. ASSUME NEW k \in Jobs, Age(k) \/ Forget(k) \/ GiveUp(k) \/ Poll(k) \/ Abandon(k) \/ Cleanup(k)
      PROVE  Discarded(j)'
  BY <1>0, <1>3, DiscardedKept, BrokerAssumption DEF Age, Forget, GiveUp, Poll, Abandon, Cleanup
<1>4. ASSUME NEW k \in Jobs, Submit(k) PROVE Discarded(j)'
  <2>1. k # j \/ jobs' = expire
    BY <1>4, <1>d DEF Submit
  <2>2. UNCHANGED <<started, call>> /\ (box'[j] = "none" => box[j] = "none")
    BY <1>0, <1>4 DEF Submit, newMailboxJob
  <2>3. jobs'[j] = "fresh" => jobs[j] = "fresh"
    BY <1>0, <1>4, <2>1, BrokerAssumption DEF Submit, expire
  <2>4. QED
    BY <2>2, <2>3, DiscardedKept
<1>5. ASSUME NEW k \in Jobs, ReadStart(k) \/ Done(k) PROVE Discarded(j)'
  <2>1. \A c \in Callers : call'[c] = call[c] \/ call'[c].pc \in {"begin", "idle"}
    BY <1>0, <1>5 DEF ReadStart, Done, Idle
  <2>2. UNCHANGED <<started, jobs>> /\ (box'[j] = "none" => box[j] = "none")
    BY <1>0, <1>5 DEF ReadStart, Done
  <2>3. QED
    BY <2>1, <2>2, DiscardedKept
<1>6. ASSUME NEW c \in Callers, NEW k \in Jobs, Dispatch(c, k) PROVE Discarded(j)'
  <2>1. UNCHANGED <<started, box>> /\ (jobs'[j] = "fresh" => jobs[j] = "fresh")
    BY <1>0, <1>6, BrokerAssumption DEF Dispatch
  <2>2. CASE Refused(k) = None
    <3>1. k # j
      BY <1>d, <2>2, BrokerAssumption DEF Refused
    <3>2. \A e \in Callers : call'[e] = call[e] \/ call'[e].job = k
      BY <1>0, <1>6, <2>2 DEF Dispatch
    <3>3. \A e \in Callers : Holds(e, j)' => Holds(e, j)
      BY <3>1, <3>2 DEF Holds
    <3>4. QED
      BY <2>1, <3>3 DEF Discarded, Untouched
  <2>3. CASE Refused(k) # None
    <3>1. Refused(k) \in Results
      BY <2>3 DEF Refused, Results
    <3>2. Ended(c, Refused(k)).pc \notin {"ready", "run"}
      BY <3>1, EndedShape
    <3>3. \A e \in Callers : call'[e] = IF e = c THEN Ended(c, Refused(k)) ELSE call[e]
      BY <1>0, <1>6, <2>3 DEF Dispatch
    <3>4. QED
      BY <2>1, <3>2, <3>3, DiscardedKept
  <2>4. QED
    BY <2>2, <2>3
<1>7. ASSUME NEW c \in Callers, Start(c) PROVE Discarded(j)'
  <2>1. call[c].pc = "ready" /\ call[c].job # j /\ UNCHANGED <<jobs, box>>
    BY <1>7 DEF Start, Discarded, Untouched, Holds
  <2>2. started'[j] = started[j]
    BY <1>7, <2>1 DEF Start, OnceInv, Shapes
  <2>3. \A e \in Callers \ {c} : call'[e] = call[e]
    BY <1>0, <1>7 DEF Start
  <2>4. call'[c].pc \in {"run", "end", "idle"}
    BY <1>0, <1>7, StartOutcome
  <2>5. \A e \in Callers : Holds(e, j)' => Holds(e, j)
    BY <2>3, <2>4 DEF Holds
  <2>6. QED
    BY <2>1, <2>2, <2>5 DEF Discarded, Untouched
<1>8. ASSUME NEW c \in Callers, Finish(c) \/ Kill(c) \/ TimeOut(c) PROVE Discarded(j)'
  <2>1. UNCHANGED <<started, jobs, box>>
    BY <1>8 DEF Finish, Kill, TimeOut, End
  <2>2. \A e \in Callers : call'[e] = call[e] \/ call'[e].pc \in {"end", "idle"}
    <3>1. PICK r \in Results : End(c, r)
      BY <1>8 DEF Finish, Kill, TimeOut, Results
    <3>2. Ended(c, r).pc \in {"end", "idle"}
      BY EndedShape
    <3>3. QED
      BY <1>0, <3>1, <3>2 DEF End
  <2>3. QED
    BY <2>1, <2>2, DiscardedKept
<1>9. ASSUME NEW d \in Dispatchers,
             WriteD(d) \/ ReadReply(d) \/ Die(d) \/ \E k \in Jobs : Open(d, k)
      PROVE  Discarded(j)'
  <2>1. UNCHANGED <<started, jobs, box, call>>
    BY <1>9 DEF WriteD, ReadReply, Die, Open, Move
  <2>2. QED
    BY <2>1, DiscardedKept
<1>10. QED
  <2>1. Jobs \subseteq Callers /\ Handlers \subseteq Callers
    BY DEF Callers
  <2>2. QED
    BY <1>1, <1>2, <1>3, <1>4, <1>5, <1>6, <1>7, <1>8, <1>9, <2>1
       DEF Next, MailboxDispatch, SocketDispatch

\* Only a failed start of bwrap makes the reply, and that job is discarded from then on.
LEMMA NotRunStep == OnceInv /\ NotRunInv /\ [Next]_vars => NotRunInv'
<1> SUFFICES ASSUME OnceInv, NotRunInv, [Next]_vars, NEW j \in Jobs, ToldNotRun(j)'
             PROVE  Discarded(j)'
  BY DEF NotRunInv
<1>0. /\ call \in [Callers -> CallRecords] /\ disp \in [Dispatchers -> DispRecords]
      /\ response \in [Jobs -> Results] /\ j \in Callers
  BY DEF OnceInv, Shapes, Callers
<1>t. ASSUME ToldNotRun(j) PROVE Discarded(j)'
  BY <1>t, DiscardedStays DEF NotRunInv
<1>k. ASSUME UNCHANGED disp,
             response'[j] = "not run" => ToldNotRun(j),
             call'[j].pc = "end" /\ call'[j].result = "not run" => call'[j] = call[j]
      PROVE  Discarded(j)'
  BY <1>k, <1>t DEF ToldNotRun
<1>1. CASE Serve \/ Signal \/ CloseMailbox \/ Sweep \/ UNCHANGED vars
  BY <1>1, <1>k DEF Serve, Signal, CloseMailbox, Sweep, vars, ToldNotRun
<1>2. CASE Closed \/ Crash
  <2>1. UNCHANGED <<disp, response>> /\ call'[j].pc = "idle"
    BY <1>0, <1>2 DEF Closed, Crash, Exit, Idle
  <2>2. QED
    BY <1>k, <2>1 DEF ToldNotRun
<1>3. ASSUME NEW k \in Jobs, Age(k) \/ Forget(k) \/ GiveUp(k) \/ Poll(k) \/ Abandon(k) \/ Submit(k)
      PROVE  Discarded(j)'
  <2>1. UNCHANGED <<disp, response, call>>
    BY <1>3 DEF Age, Forget, GiveUp, Poll, Abandon, Submit
  <2>2. QED
    BY <1>k, <2>1 DEF ToldNotRun
<1>4. ASSUME NEW k \in Jobs, Cleanup(k) PROVE Discarded(j)'
  <2>1. UNCHANGED <<disp, call>> /\ response'[j] \in {None, response[j]}
    BY <1>0, <1>4 DEF Cleanup
  <2>2. QED
    BY <1>k, <2>1, BrokerAssumption DEF ToldNotRun
<1>5. ASSUME NEW k \in Jobs, ReadStart(k) PROVE Discarded(j)'
  <2>1. UNCHANGED <<disp, response>> /\ (call'[j] = call[j] \/ call'[j].pc = "begin")
    BY <1>0, <1>5 DEF ReadStart
  <2>2. QED
    BY <1>k, <2>1 DEF ToldNotRun
<1>6. ASSUME NEW k \in Jobs, Done(k) PROVE Discarded(j)'
  <2>1. UNCHANGED disp /\ call[k].pc = "end" /\ (call'[j] = call[j] \/ call'[j].pc = "idle")
    BY <1>0, <1>6 DEF Done, Idle
  <2>2. response'[j] = response[j] \/ (k = j /\ response'[j] = call[j].result)
    BY <1>0, <1>6 DEF Done, writeFIFO
  <2>3. response'[j] = "not run" => ToldNotRun(j)
    BY <2>1, <2>2 DEF ToldNotRun
  <2>4. QED
    BY <1>k, <2>1, <2>3
<1>7. ASSUME NEW c \in Callers, NEW k \in Jobs, Dispatch(c, k) PROVE Discarded(j)'
  <2>1. UNCHANGED <<disp, response>>
    BY <1>7 DEF Dispatch
  <2>2. CASE Refused(k) = None
    <3>1. call'[j] = call[j] \/ call'[j].pc = "ready"
      BY <1>0, <1>7, <2>2 DEF Dispatch
    <3>2. QED
      BY <1>k, <2>1, <3>1 DEF ToldNotRun
  <2>3. CASE Refused(k) # None
    <3>1. Refused(k) \in {"busy", "unknown"}
      BY <2>3 DEF Refused
    <3>2. call'[j] = call[j] \/ call'[j] = Ended(c, Refused(k))
      BY <1>0, <1>7, <2>3 DEF Dispatch
    <3>3. Ended(c, Refused(k)).result # "not run"
      BY <3>1, EndedShape, BrokerAssumption DEF Results
    <3>4. QED
      BY <1>k, <2>1, <3>2, <3>3 DEF ToldNotRun
  <2>4. QED
    BY <2>2, <2>3
<1>8. ASSUME NEW c \in Callers, Start(c) PROVE Discarded(j)'
  <2>1. UNCHANGED <<disp, response, jobs, box>> /\ call[c].pc = "ready"
    BY <1>8 DEF Start
  <2>2. CASE call'[j] = call[j] \/ call'[j].pc = "run"
    BY <1>k, <2>1, <2>2 DEF ToldNotRun
  <2>3. CASE c = j /\ UNCHANGED started /\ call'[j].pc \in {"end", "idle"}
    <3>1. Holds(j, j) /\ started[j] = 0
      BY <1>0, <2>1, <2>3 DEF OnceInv, Output, OwnJob, Spent, HeldUnstarted, Holds
    <3>2. \A e \in Callers \ {j} : ~Holds(e, j) /\ call'[e] = call[e]
      BY <1>0, <1>8, <2>3, <3>1 DEF OnceInv, Spent, HeldOnce, Start
    <3>3. Untouched(j)'
      BY <2>3, <3>1, <3>2 DEF Untouched, Holds
    <3>4. jobs[j] # "fresh" /\ box[j] # "none"
      BY <1>0, <3>1 DEF OnceInv, Spent, FreshUnused, UnknownUnused, Untouched
    <3>5. QED
      BY <2>1, <3>3, <3>4 DEF Discarded
  <2>4. QED
    <3>1. CASE c = j
      <4>1. call'[j].pc = "run" \/ (UNCHANGED started /\ call'[j].pc \in {"end", "idle"})
        BY <1>0, <1>8, <3>1, StartOutcome
      <4>2. QED
        BY <2>2, <2>3, <3>1, <4>1
    <3>2. CASE c # j
      BY <1>0, <1>8, <2>2, <3>2 DEF Start
    <3>3. QED
      BY <3>1, <3>2
<1>9. ASSUME NEW c \in Callers, Finish(c) \/ Kill(c) \/ TimeOut(c) PROVE Discarded(j)'
  <2>1. PICK r \in {"ok", "timed out"} : End(c, r)
    BY <1>9 DEF Finish, Kill, TimeOut
  <2>2. UNCHANGED <<disp, response>> /\ (call'[j] = call[j] \/ call'[j] = Ended(c, r))
    BY <1>0, <2>1 DEF End
  <2>3. Ended(c, r).result # "not run"
    BY EndedShape, BrokerAssumption DEF Results
  <2>4. QED
    BY <1>k, <2>2, <2>3 DEF ToldNotRun
<1>10. ASSUME NEW d \in Dispatchers, NEW rec \in {Failed} \cup DispRecords, Move(d, rec), rec.pc # "done"
       PROVE  Discarded(j)'
  <2>1. UNCHANGED call /\ response'[j] \in {None, response[j]}
    BY <1>0, <1>10 DEF Move
  <2>2. \A e \in Dispatchers : disp'[e] = disp[e] \/ disp'[e].pc # "done"
    BY <1>0, <1>10 DEF Move
  <2>3. ToldNotRun(j)
    BY <2>1, <2>2, BrokerAssumption DEF ToldNotRun
  <2>4. QED
    BY <1>t, <2>3
<1>11. ASSUME NEW d \in Dispatchers, WriteD(d) \/ Die(d) \/ \E k \in Jobs : Open(d, k)
       PROVE  Discarded(j)'
  <2>1. Failed.pc = "failed" /\ Failed \in DispRecords
    BY DEF Failed, Idle, DispRecords, Results
  <2>2. [disp[d] EXCEPT !.pc = "wait"].pc = "wait" /\ [disp[d] EXCEPT !.pc = "wait"] \in DispRecords
    BY <1>0 DEF DispRecords
  <2>3. \A k \in Jobs : [pc |-> "locked", job |-> k, result |-> None] \in DispRecords
    BY DEF DispRecords, Results
  <2>4. CASE Die(d)
    BY <1>10, <2>1, <2>4 DEF Die
  <2>5. CASE WriteD(d)
    BY <1>10, <2>1, <2>2, <2>5 DEF WriteD
  <2>6. CASE \E k \in Jobs : Open(d, k)
    BY <1>10, <2>3, <2>6 DEF Open
  <2>7. QED
    BY <1>11, <2>4, <2>5, <2>6
<1>12. ASSUME NEW d \in Dispatchers, ReadReply(d) PROVE Discarded(j)'
  <2> DEFINE k == disp[d].job
             r == response[k]
             rec == IF r \in Complete THEN [disp[d] EXCEPT !.pc = "done", !.result = r] ELSE Failed
  <2>1. CASE r = None
    <3>1. Move(d, Failed) /\ Failed.pc # "done"
      BY <1>12, <2>1 DEF ReadReply, Failed, Idle
    <3>2. QED
      BY <1>10, <3>1
  <2>2. CASE r # None
    <3>1. /\ UNCHANGED call /\ response'[j] \in {None, response[j]}
          /\ disp' = [disp EXCEPT ![d] = rec]
      BY <1>0, <1>12, <2>2 DEF ReadReply, Move
    <3>2. rec.pc = "done" => rec.job = k /\ rec.result = r
      BY <1>0 DEF DispRecords, Failed, Idle
    <3> HIDE DEF rec
    <3>3. \A e \in Dispatchers : disp'[e] = IF e = d THEN rec ELSE disp[e]
      BY <1>0, <3>1
    <3>4. ToldNotRun(j)
      BY <3>1, <3>2, <3>3, BrokerAssumption DEF ToldNotRun
    <3>5. QED
      BY <1>t, <3>4
  <2>3. QED
    BY <2>1, <2>2
<1>13. QED
  <2>1. Jobs \subseteq Callers /\ Handlers \subseteq Callers
    BY DEF Callers
  <2>2. QED
    BY <1>1, <1>2, <1>3, <1>4, <1>5, <1>6, <1>7, <1>8, <1>9, <1>11, <1>12, <2>1
       DEF Next, MailboxDispatch, SocketDispatch

\* Whatever the transports, dispatchers, expiries and restarts, a job's command is
\* started at most once; output that a dispatcher is given is that of a command that was
\* started, and a status without one is that of a job nobody ever starts
\* (processJobContext, shellContext, serveMailbox, dispatchMailbox).
THEOREM CommandsStartOnce == FairSpec => []AtMostOnce
<1>1. Init => NotRunInv
  <2> SUFFICES ASSUME Init, NEW j \in Jobs PROVE ~ToldNotRun(j)
    BY DEF NotRunInv
  <2>1. call[j].pc = "idle" /\ response[j] = None /\ \A d \in Dispatchers : disp[d].pc = "idle"
    BY DEF Init, Idle, Callers
  <2>2. QED
    BY <2>1, BrokerAssumption DEF ToldNotRun
<1>2. OnceInv /\ NotRunInv => AtMostOnce
  <2> SUFFICES ASSUME OnceInv, NotRunInv PROVE AtMostOnce
    OBVIOUS
  <2>1. ASSUME NEW d \in Dispatchers, disp[d].pc = "done"
        PROVE  started[disp[d].job] = IF disp[d].result = "ok" THEN 1 ELSE 0
    <3>1. CASE disp[d].result = "not run"
      <4>1. disp[d].job \in Jobs
        BY <2>1 DEF OnceInv, Output, DoneStarted
      <4>2. Discarded(disp[d].job)
        BY <2>1, <3>1, <4>1 DEF NotRunInv, ToldNotRun
      <4>3. QED
        BY <3>1, <4>2 DEF Discarded, Untouched
    <3>2. CASE disp[d].result # "not run"
      BY <2>1, <3>2 DEF OnceInv, Output, DoneStarted
    <3>3. QED
      BY <3>1, <3>2
  <2>2. QED
    BY <2>1 DEF OnceInv, Spent, StartedOnce, AtMostOnce
<1>3. QED
  BY <1>1, <1>2, InitOnce, OnceStep, NotRunStep, PTL DEF FairSpec, Spec

-----------------------------------------------------------------------------
(***************************************************************************)
(* The limits.                                                             *)
(***************************************************************************)

\* The mailboxes that count: served, and not yet forgotten.
Counting == {"wait", "serve", "reap", "forget"}
Active   == {j \in Jobs : box[j] \in Counting}

\* The counter that admission reads is the number of mailboxes that count, every prepared
\* job has one of them, and each worker's slot is taken by one dispatch.
LimitInv ==
  /\ Shapes
  /\ IsFiniteSet(Active) /\ mailboxActive = Cardinality(Active) /\ mailboxActive <= maxJobs
  /\ IsFiniteSet(Served)
  /\ Known \subseteq Active
  /\ IsFiniteSet(Working) /\ Cardinality(Working) <= maxWorkers

\* At first there is nothing.
LEMMA InitLimits == Init => LimitInv
<1> SUFFICES ASSUME Init PROVE LimitInv
  OBVIOUS
<1>1. Shapes
  BY InitOnce DEF OnceInv
<1>2. Active = {} /\ Served = {} /\ Known = {} /\ Working = {}
  BY DEF Init, Active, Counting, Served, Known, Working, Idle
<1>3. mailboxActive = 0 /\ maxJobs \in Nat /\ maxWorkers \in Nat
  BY BrokerAssumption DEF Init
<1>4. QED
  BY <1>1, <1>2, <1>3, FS_EmptySet DEF LimitInv

\* Mailboxes: the same ones count, fewer may be served.
LEMMA BoxesKept ==
  ASSUME LimitInv, UNCHANGED mailboxActive,
         \A j \in Jobs : box'[j] \in Counting <=> box[j] \in Counting,
         \A j \in Jobs : box'[j] \notin {"none", "gone"} => box[j] \notin {"none", "gone"},
         \A j \in Jobs : jobs'[j] # None => jobs[j] # None
  PROVE  /\ IsFiniteSet(Active') /\ mailboxActive' = Cardinality(Active') /\ mailboxActive' <= maxJobs
         /\ IsFiniteSet(Served') /\ Known' \subseteq Active'
<1>1. Active' = Active
  BY DEF Active
<1>2. Served' \subseteq Served
  BY DEF Served
<1>3. Known' \subseteq Known
  BY DEF Known
<1>4. IsFiniteSet(Served')
  BY <1>2, FS_Subset DEF LimitInv
<1>5. QED
  BY <1>1, <1>3, <1>4 DEF LimitInv

\* Workers: no slot is taken.
LEMMA WorkersKept ==
  ASSUME LimitInv, \A c \in Callers : call'[c].pc \in {"ready", "run"} => call[c].pc \in {"ready", "run"}
  PROVE  IsFiniteSet(Working') /\ Cardinality(Working') <= maxWorkers
<1>1. Working' \subseteq Working
  BY DEF Working
<1>2. IsFiniteSet(Working') /\ Cardinality(Working') <= Cardinality(Working)
  BY <1>1, FS_Subset DEF LimitInv
<1>3. Cardinality(Working) \in Nat /\ Cardinality(Working') \in Nat /\ maxWorkers \in Nat
  BY <1>2, FS_CardinalityType, BrokerAssumption DEF LimitInv
<1>4. QED
  BY <1>2, <1>3 DEF LimitInv

\* submit takes a place only when one is free.
LEMMA SubmitLimits ==
  ASSUME LimitInv, NEW j \in Jobs, ~Busy, newMailboxJob(j), box[j] = "none",
         jobs' = [expire EXCEPT ![j] = "fresh"]
  PROVE  /\ IsFiniteSet(Active') /\ mailboxActive' = Cardinality(Active') /\ mailboxActive' <= maxJobs
         /\ IsFiniteSet(Served') /\ Known' \subseteq Active'
<1>1. box' = [box EXCEPT ![j] = "wait"] /\ mailboxActive' = mailboxActive + 1
  BY DEF newMailboxJob
<1>2. \A k \in Jobs : box'[k] = IF k = j THEN "wait" ELSE box[k]
  BY <1>1 DEF LimitInv, Shapes
<1>3. Active' = Active \cup {j} /\ j \notin Active
  BY <1>2 DEF Active, Counting
<1>4. Served' = Served \cup {j}
  BY <1>2 DEF Served
<1>5. IsFiniteSet(Active') /\ Cardinality(Active') = Cardinality(Active) + 1
  BY <1>3, FS_AddElement DEF LimitInv
<1>6. IsFiniteSet(Served')
  BY <1>4, FS_AddElement DEF LimitInv
<1>7. ~(mailboxActive >= maxJobs) /\ mailboxActive \in Nat /\ maxJobs \in Nat
  BY FS_CardinalityType, BrokerAssumption DEF Busy, LimitInv
<1>8. Known' \subseteq Known \cup {j}
  BY DEF Known, expire, LimitInv, Shapes
<1>9. QED
  BY <1>1, <1>3, <1>5, <1>6, <1>7, <1>8 DEF LimitInv

\* A mailbox is forgotten together with its job.
LEMMA ForgetLimits ==
  ASSUME LimitInv, NEW j \in Jobs, Forget(j)
  PROVE  /\ IsFiniteSet(Active') /\ mailboxActive' = Cardinality(Active') /\ mailboxActive' <= maxJobs
         /\ IsFiniteSet(Served') /\ Known' \subseteq Active'
<1>1. /\ box' = [box EXCEPT ![j] = "clean"] /\ box[j] = "forget"
      /\ mailboxActive' = mailboxActive - 1 /\ jobs' = [jobs EXCEPT ![j] = None]
  BY DEF Forget
<1>2. \A k \in Jobs : box'[k] = IF k = j THEN "clean" ELSE box[k]
  BY <1>1 DEF LimitInv, Shapes
<1>3. Active' = Active \ {j} /\ j \in Active
  BY <1>1, <1>2 DEF Active, Counting
<1>4. Served' = Served
  BY <1>1, <1>2 DEF Served
<1>5. IsFiniteSet(Active') /\ Cardinality(Active') = Cardinality(Active) - 1
  BY <1>3, FS_RemoveElement DEF LimitInv
<1>6. mailboxActive \in Nat /\ maxJobs \in Nat
  BY FS_CardinalityType, BrokerAssumption DEF LimitInv
<1>7. Known' \subseteq Known \ {j}
  BY <1>1 DEF Known, LimitInv, Shapes
<1>8. QED
  BY <1>1, <1>3, <1>4, <1>5, <1>6, <1>7 DEF LimitInv

\* One more element is at most one more.
LEMMA AddAtMostOne ==
  ASSUME NEW S, NEW x, IsFiniteSet(S)
  PROVE  IsFiniteSet(S \cup {x}) /\ Cardinality(S \cup {x}) <= Cardinality(S) + 1
<1>1. Cardinality(S) \in Nat
  BY FS_CardinalityType
<1>2. Cardinality(S \cup {x}) = IF x \in S THEN Cardinality(S) ELSE Cardinality(S) + 1
  BY FS_AddElement
<1>3. Cardinality(S \cup {x}) <= Cardinality(S) + 1
  BY <1>1, <1>2
<1>4. QED
  BY <1>3, FS_AddElement

\* A dispatch takes a slot only when one is free, and gives back what it had.
LEMMA DispatchLimits ==
  ASSUME LimitInv, NEW c \in Callers, NEW j \in Jobs, Dispatch(c, j)
  PROVE  IsFiniteSet(Working') /\ Cardinality(Working') <= maxWorkers
<1>1. CASE Refused(j) = None
  <2>1. ~(Cardinality(Working) >= maxWorkers)
    BY <1>1, BrokerAssumption DEF Refused
  <2>2. Working' \subseteq Working \cup {c}
    BY <1>1 DEF Dispatch, Working, LimitInv, Shapes
  <2>3. IsFiniteSet(Working \cup {c}) /\ Cardinality(Working \cup {c}) <= Cardinality(Working) + 1
    BY AddAtMostOne DEF LimitInv
  <2>4. IsFiniteSet(Working') /\ Cardinality(Working') <= Cardinality(Working \cup {c})
    BY <2>2, <2>3, FS_Subset
  <2>5. /\ Cardinality(Working) \in Nat /\ maxWorkers \in Nat
        /\ Cardinality(Working') \in Nat /\ Cardinality(Working \cup {c}) \in Nat
    BY <2>3, <2>4, FS_CardinalityType, BrokerAssumption DEF LimitInv
  <2>6. QED
    BY <2>1, <2>3, <2>4, <2>5
<1>2. CASE Refused(j) # None
  <2>1. Refused(j) \in Results
    BY <1>2 DEF Refused, Results
  <2>2. Ended(c, Refused(j)).pc \notin {"ready", "run"}
    BY <2>1, EndedShape
  <2>3. \A d \in Callers : call'[d] = IF d = c THEN Ended(c, Refused(j)) ELSE call[d]
    BY <1>2 DEF Dispatch, LimitInv, Shapes
  <2>4. QED
    BY <2>2, <2>3, WorkersKept
<1>3. QED
  BY <1>1, <1>2

\* One step per action; the shapes are those of OnceInv.
LEMMA LimitStep == OnceInv' /\ LimitInv /\ [Next]_vars => LimitInv'
<1> SUFFICES ASSUME OnceInv', LimitInv, [Next]_vars PROVE LimitInv'
  OBVIOUS
<1>s. Shapes /\ Shapes'
  BY DEF OnceInv, LimitInv
<1>t. /\ jobs \in [Jobs -> {None, "fresh", "old"}]
      /\ box \in [Jobs -> {"none", "wait", "serve", "reap", "forget", "clean", "gone"}]
      /\ call \in [Callers -> CallRecords]
  BY <1>s DEF Shapes
<1> DEFINE Boxes == /\ IsFiniteSet(Active') /\ mailboxActive' = Cardinality(Active')
                    /\ mailboxActive' <= maxJobs
                    /\ IsFiniteSet(Served') /\ Known' \subseteq Active'
           Workers == IsFiniteSet(Working') /\ Cardinality(Working') <= maxWorkers
<1>q. ASSUME Boxes, Workers PROVE LimitInv'
  BY <1>s, <1>q DEF LimitInv
<1> HIDE DEF Boxes, Workers
<1>w. ASSUME UNCHANGED call PROVE Workers
  BY <1>w, WorkersKept DEF Workers
<1>b. ASSUME UNCHANGED <<box, jobs, mailboxActive>> PROVE Boxes
  BY <1>b, BoxesKept DEF Boxes
<1>1. CASE Serve \/ Signal \/ CloseMailbox
  BY <1>1, <1>q, <1>w, <1>b DEF Serve, Signal, CloseMailbox
<1>2. CASE Closed \/ Crash
  <2>1. Exit
    BY <1>2 DEF Closed, Crash
  <2>2. Active' = {} /\ Served' = {} /\ Known' = {}
    BY <1>t, <2>1 DEF Exit, Active, Counting, Served, Known
  <2>3. Working' = {}
    BY <2>1 DEF Exit, Working, Idle
  <2>4. mailboxActive' = 0 /\ maxJobs \in Nat /\ maxWorkers \in Nat
    BY <2>1, BrokerAssumption DEF Exit
  <2>5. Boxes /\ Workers
    BY <2>2, <2>3, <2>4, FS_EmptySet DEF Boxes, Workers
  <2>6. QED
    BY <1>q, <2>5
<1>3. ASSUME NEW j \in Jobs, Age(j) \/ GiveUp(j) \/ Poll(j) \/ Abandon(j) \/ Cleanup(j)
      PROVE  LimitInv'
  <2>1. UNCHANGED <<call, mailboxActive>>
    BY <1>3 DEF Age, GiveUp, Poll, Abandon, Cleanup, Unchanged
  <2>2. /\ \A k \in Jobs : box'[k] \in Counting <=> box[k] \in Counting
        /\ \A k \in Jobs : box'[k] \notin {"none", "gone"} => box[k] \notin {"none", "gone"}
    <3>1. CASE Age(j) \/ Poll(j)
      BY <3>1 DEF Age, Poll
    <3>2. CASE GiveUp(j) \/ Abandon(j) \/ Cleanup(j)
      <4>1. \A k \in Jobs \ {j} : box'[k] = box[k]
        BY <1>t, <3>2 DEF GiveUp, Abandon, Cleanup
      <4>2. \/ box[j] \in {"wait", "serve"} /\ box'[j] \in {"forget", "reap"}
            \/ box[j] = "clean" /\ box'[j] = "gone"
        BY <1>t, <3>2 DEF GiveUp, Abandon, Cleanup
      <4>3. QED
        BY <4>1, <4>2 DEF Counting
    <3>3. QED
      BY <1>3, <3>1, <3>2
  <2>3. \A k \in Jobs : jobs'[k] # None => jobs[k] # None
    BY <1>t, <1>3, BrokerAssumption DEF Age, GiveUp, Poll, Abandon, Cleanup
  <2>4. Boxes
    BY <2>1, <2>2, <2>3, BoxesKept DEF Boxes
  <2>5. QED
    BY <1>q, <1>w, <2>1, <2>4
<1>4. ASSUME NEW j \in Jobs, Submit(j) PROVE LimitInv'
  <2>1. Workers
    BY <1>4, <1>w DEF Submit
  <2>2. CASE ~Busy /\ newMailboxJob(j) /\ jobs' = [expire EXCEPT ![j] = "fresh"]
    BY <1>4, <1>q, <2>1, <2>2, SubmitLimits DEF Submit, Boxes
  <2>3. CASE jobs' = expire /\ UNCHANGED <<box, mailboxActive, dirs>>
    <3>1. \A k \in Jobs : jobs'[k] # None => jobs[k] # None
      BY <1>t, <2>3 DEF expire
    <3>2. Boxes
      BY <2>3, <3>1, BoxesKept DEF Boxes
    <3>3. QED
      BY <1>q, <2>1, <3>2
  <2>4. QED
    BY <1>4, <2>2, <2>3 DEF Submit
<1>5. ASSUME NEW j \in Jobs, ReadStart(j) \/ Done(j) PROVE LimitInv'
  <2>1. /\ \A k \in Jobs : box'[k] \in Counting <=> box[k] \in Counting
        /\ \A k \in Jobs : box'[k] \notin {"none", "gone"} => box[k] \notin {"none", "gone"}
        /\ UNCHANGED <<jobs, mailboxActive>>
    BY <1>t, <1>5 DEF ReadStart, Done, Counting, Unchanged
  <2>2. \A c \in Callers : call'[c].pc \in {"ready", "run"} => call[c].pc \in {"ready", "run"}
    <3>1. \A c \in Callers : call'[c] = call[c] \/ call'[c].pc \in {"begin", "idle"}
      BY <1>t, <1>5 DEF ReadStart, Done, Idle
    <3>2. QED
      BY <3>1
  <2>3. Boxes /\ Workers
    BY <2>1, <2>2, BoxesKept, WorkersKept DEF Boxes, Workers
  <2>4. QED
    BY <1>q, <2>3
<1>6. ASSUME NEW j \in Jobs, Forget(j) PROVE LimitInv'
  BY <1>6, <1>q, <1>w, ForgetLimits DEF Forget, Boxes
<1>7. ASSUME NEW c \in Callers, NEW j \in Jobs, Dispatch(c, j) PROVE LimitInv'
  <2>1. Workers
    BY <1>7, DispatchLimits DEF Workers
  <2>2. UNCHANGED <<box, mailboxActive>> /\ \A k \in Jobs : jobs'[k] # None => jobs[k] # None
    BY <1>t, <1>7 DEF Dispatch, Unchanged
  <2>3. Boxes
    BY <2>2, BoxesKept DEF Boxes
  <2>4. QED
    BY <1>q, <2>1, <2>3
<1>8. ASSUME NEW c \in Callers, Start(c) \/ Finish(c) \/ Kill(c) \/ TimeOut(c) PROVE LimitInv'
  <2>1. UNCHANGED <<box, jobs, mailboxActive>>
    BY <1>8 DEF Start, Finish, Kill, TimeOut, End, Unchanged
  <2>2. call[c].pc \in {"ready", "run"}
    BY <1>8 DEF Start, Finish, Kill, TimeOut, End
  <2>3. \A d \in Callers \ {c} : call'[d] = call[d]
    BY <1>t, <1>8 DEF Start, Finish, Kill, TimeOut, End
  <2>4. \A d \in Callers : call'[d].pc \in {"ready", "run"} => call[d].pc \in {"ready", "run"}
    BY <2>2, <2>3
  <2>5. Workers
    BY <2>4, WorkersKept DEF Workers
  <2>6. QED
    BY <1>b, <1>q, <2>1, <2>5
<1>9. ASSUME NEW d \in Dispatchers,
             WriteD(d) \/ ReadReply(d) \/ Die(d) \/ \E j \in Jobs : Open(d, j)
      PROVE  LimitInv'
  <2>1. UNCHANGED <<box, jobs, mailboxActive, call>>
    BY <1>9 DEF WriteD, ReadReply, Die, Open, Move, Unchanged
  <2>2. QED
    BY <1>b, <1>q, <1>w, <2>1
<1>10. CASE UNCHANGED vars
  BY <1>10, <1>b, <1>q, <1>w DEF vars
<1>11. CASE Sweep
  <2>1. UNCHANGED <<box, call, mailboxActive>> /\ \A k \in Jobs : jobs'[k] # None => jobs[k] # None
    BY <1>t, <1>11 DEF Sweep, expire
  <2>2. Boxes
    BY <2>1, BoxesKept DEF Boxes
  <2>3. QED
    BY <1>q, <1>w, <2>1, <2>2
<1>12. QED
  <2>1. \A j \in Jobs : j \in Callers
    BY DEF Callers
  <2>2. \A h \in Handlers : h \in Callers
    BY DEF Callers
  <2>3. QED
    BY <1>1, <1>2, <1>3, <1>4, <1>5, <1>6, <1>7, <1>8, <1>9, <1>10, <1>11, <2>1, <2>2
       DEF Next, MailboxDispatch, SocketDispatch

\* Prepared jobs, mailboxes and workers stay within their limits together, and the
\* counter that submit reads is never wrong (submit, dispatch, serveMailbox).
THEOREM LimitsAlwaysHold == FairSpec => []LimitsHold
<1>1. LimitInv => LimitsHold
  <2> SUFFICES ASSUME LimitInv PROVE LimitsHold
    OBVIOUS
  <2> DEFINE Clean == {j \in Jobs : box[j] = "clean"}
  <2>1. Served = Active \cup Clean /\ {j \in Served : box[j] # "clean"} = Active
    BY DEF LimitInv, Shapes, Served, Active, Counting
  <2>2. IsFiniteSet(Clean) /\ IsFiniteSet(Known) /\ Cardinality(Known) <= Cardinality(Active)
    BY <2>1, FS_Subset DEF LimitInv
  <2>3. Active \cap Clean = {}
    BY DEF Active, Counting
  <2>4. Cardinality(Served) = Cardinality(Active) + Cardinality(Clean) - Cardinality(Active \cap Clean)
    BY <2>1, <2>2, FS_Union DEF LimitInv
  <2>5. /\ Cardinality(Active) \in Nat /\ Cardinality(Clean) \in Nat /\ Cardinality(Known) \in Nat
        /\ Cardinality({}) = 0 /\ maxJobs \in Nat
    BY <2>2, FS_CardinalityType, FS_EmptySet, BrokerAssumption DEF LimitInv
  <2>6. Cardinality(Known) <= maxJobs
    BY <2>2, <2>5 DEF LimitInv
  <2>7. Cardinality(Served) <= mailboxActive + Cardinality(Clean)
    <3>1. mailboxActive = Cardinality(Active)
      BY DEF LimitInv
    <3>2. Cardinality(Active \cap Clean) = 0
      BY <2>3, <2>5
    <3> HIDE DEF Clean
    <3>3. QED
      BY <2>4, <2>5, <3>1, <3>2
  <2>8. QED
    BY <2>1, <2>6, <2>7 DEF LimitInv, LimitsHold
<1>2. QED
  BY <1>1, InitOnce, OnceStep, InitLimits, LimitStep, PTL DEF FairSpec, Spec

-----------------------------------------------------------------------------
(***************************************************************************)
(* What a clean shutdown leaves.                                           *)
(***************************************************************************)

\* A job directory of the running session has a mailbox goroutine that will remove it.
DirsInv ==
  /\ session \in Nat /\ dirs \subseteq Jobs \X Nat
  /\ box \in [Jobs -> {"none", "wait", "serve", "reap", "forget", "clean", "gone"}]
  /\ \A e \in dirs : /\ e[2] <= session
                     /\ Up /\ e[2] = session => box[e[1]] \notin {"none", "gone"}

\* Directories are made with their goroutine and removed by it.
LEMMA DirsStep == OnceInv' /\ DirsInv /\ [Next]_vars => DirsInv'
<1> SUFFICES ASSUME OnceInv', DirsInv, [Next]_vars PROVE DirsInv'
  OBVIOUS
<1>b. box' \in [Jobs -> {"none", "wait", "serve", "reap", "forget", "clean", "gone"}]
  BY DEF OnceInv, Shapes
<1>q. ASSUME UNCHANGED session, dirs' \subseteq dirs, Up' => Up,
             \A k \in Jobs : box[k] \notin {"none", "gone"} => box'[k] \notin {"none", "gone"}
      PROVE  DirsInv'
  BY <1>b, <1>q DEF DirsInv
<1>1. CASE Serve
  <2>1. /\ session' = session + 1 /\ UNCHANGED <<dirs, box>>
    BY <1>1 DEF Serve
  <2>2. \A e \in dirs : e[2] \in Nat /\ e[2] < session'
    BY <2>1 DEF DirsInv
  <2>3. QED
    BY <1>b, <2>1, <2>2 DEF DirsInv
<1>2. CASE Signal \/ CloseMailbox \/ Sweep
  BY <1>2, <1>q DEF Signal, CloseMailbox, Sweep, Up
<1>3. CASE Closed \/ Crash
  <2>1. ~Up' /\ UNCHANGED <<session, dirs>>
    BY <1>3 DEF Closed, Crash, Exit, Up
  <2>2. QED
    BY <1>b, <2>1 DEF DirsInv
<1>4. ASSUME NEW j \in Jobs, Submit(j) PROVE DirsInv'
  <2>1. UNCHANGED <<session, phase>>
    BY <1>4 DEF Submit
  <2>2. CASE newMailboxJob(j)
    <3>1. dirs' = dirs \cup {<<j, session>>} /\ box' = [box EXCEPT ![j] = "wait"]
      BY <2>2 DEF newMailboxJob
    <3>2. \A k \in Jobs : box[k] \notin {"none", "gone"} => box'[k] \notin {"none", "gone"}
      BY <3>1 DEF DirsInv
    <3>3. box'[j] = "wait"
      BY <3>1 DEF DirsInv
    <3>4. QED
      BY <1>b, <2>1, <3>1, <3>2, <3>3 DEF DirsInv, Up
  <2>3. CASE UNCHANGED <<box, mailboxActive, dirs>>
    BY <1>q, <2>1, <2>3 DEF Up
  <2>4. QED
    BY <1>4, <2>2, <2>3 DEF Submit
<1>5. ASSUME NEW j \in Jobs, Cleanup(j) PROVE DirsInv'
  <2>1. /\ UNCHANGED <<session, phase>> /\ dirs' = dirs \ {<<j, session>>}
        /\ \A k \in Jobs \ {j} : box'[k] = box[k]
    BY <1>5 DEF Cleanup, DirsInv
  <2>2. ASSUME NEW e \in dirs', Up', e[2] = session' PROVE box'[e[1]] \notin {"none", "gone"}
    <3>1. e[1] \in Jobs /\ e = <<e[1], e[2]>> /\ e \in dirs
      BY <2>1 DEF DirsInv
    <3>2. e[1] # j
      BY <2>1, <2>2, <3>1
    <3>3. QED
      BY <2>1, <2>2, <3>1, <3>2 DEF DirsInv, Up
  <2>3. QED
    BY <1>b, <2>1, <2>2 DEF DirsInv
<1>6. ASSUME NEW j \in Jobs,
             Age(j) \/ GiveUp(j) \/ ReadStart(j) \/ Poll(j) \/ Abandon(j) \/ Done(j) \/ Forget(j)
      PROVE  DirsInv'
  <2>1. UNCHANGED <<session, phase, dirs>>
    BY <1>6 DEF Age, GiveUp, ReadStart, Poll, Abandon, Done, Forget, Unchanged
  <2>2. \A k \in Jobs : box[k] \notin {"none", "gone"} => box'[k] \notin {"none", "gone"}
    <3>1. \A k \in Jobs \ {j} : box'[k] = box[k]
      BY <1>6 DEF Age, GiveUp, ReadStart, Poll, Abandon, Done, Forget, DirsInv
    <3>2. box'[j] = box[j] \/ box'[j] \in {"serve", "reap", "forget", "clean"}
      BY <1>6 DEF Age, GiveUp, ReadStart, Poll, Abandon, Done, Forget, DirsInv
    <3>3. QED
      BY <3>1, <3>2
  <2>3. QED
    BY <1>q, <2>1, <2>2 DEF Up
<1>7. ASSUME NEW c \in Callers, NEW j \in Jobs, Dispatch(c, j) PROVE DirsInv'
  BY <1>7, <1>q DEF Dispatch, Unchanged, Up
<1>8. ASSUME NEW c \in Callers, Start(c) \/ Finish(c) \/ Kill(c) \/ TimeOut(c) PROVE DirsInv'
  BY <1>8, <1>q DEF Start, Finish, Kill, TimeOut, End, Unchanged, Up
<1>9. ASSUME NEW d \in Dispatchers,
             WriteD(d) \/ ReadReply(d) \/ Die(d) \/ \E j \in Jobs : Open(d, j)
      PROVE  DirsInv'
  BY <1>9, <1>q DEF WriteD, ReadReply, Die, Open, Move, Unchanged, Up
<1>10. CASE UNCHANGED vars
  BY <1>10, <1>q DEF vars, Up
<1>11. QED
  <2>1. \A j \in Jobs : j \in Callers
    BY DEF Callers
  <2>2. \A h \in Handlers : h \in Callers
    BY DEF Callers
  <2>3. QED
    BY <1>1, <1>2, <1>3, <1>4, <1>5, <1>6, <1>7, <1>8, <1>9, <1>10, <2>1, <2>2
       DEF Next, MailboxDispatch, SocketDispatch

\* When the broker has shut down in order, its session left no directory, no FIFO and no
\* mailbox goroutine (closeMailbox, the deferred functions of serveMailbox).
THEOREM CleanShutdownLeavesNothing == FairSpec => CloseLeavesNothing
<1>1. Init => DirsInv
  BY DEF Init, DirsInv
<1>2. DirsInv /\ [Next]_vars =>
        [Closed => sessions' = sessions \ {session} /\ \A j \in Jobs : <<j, session>> \notin dirs]_vars
  <2> SUFFICES ASSUME DirsInv, Closed
               PROVE  sessions' = sessions \ {session} /\ \A j \in Jobs : <<j, session>> \notin dirs
    OBVIOUS
  <2>1. Up /\ Served = {}
    BY DEF Closed, Up
  <2>2. ASSUME NEW j \in Jobs, <<j, session>> \in dirs PROVE FALSE
    <3>1. box[j] \notin {"none", "gone"}
      BY <2>1, <2>2 DEF DirsInv
    <3>2. QED
      BY <2>1, <3>1 DEF Served
  <2>3. QED
    BY <2>2 DEF Closed
<1>3. QED
  BY <1>1, <1>2, DirsStep, InitOnce, OnceStep, PTL DEF FairSpec, Spec, CloseLeavesNothing
=============================================================================

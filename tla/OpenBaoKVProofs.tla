-------------------------- MODULE OpenBaoKVProofs --------------------------
(***************************************************************************)
(* Proofs that the plugin host leaves no process behind, whatever calls go *)
(* through it (NoProcessLeft of PluginHost, for every step of OpenBaoKV),  *)
(* and that what OpenBao's answers become is true of the record, for every *)
(* number of callers, calls, versions and retries.                         *)
(***************************************************************************)
EXTENDS OpenBaoKV, FiniteSetTheorems, TLAPS

\* Only the process launched last can run, and where the supervisor stands says whether
\* it can, whether calls can find its client, and what the Operator is told.
HostInv ==
  /\ launched \in Nat
  /\ client \in Nat \cup {NoClient}
  /\ alive \subseteq {launched}
  /\ sup \in {"launch", "wait", "done", "clear"} => alive = {}
  /\ sup \in {"launch", "handshake", "wait", "done"} => client = NoClient
  /\ sup \in {"launch", "handshake"} => state = "starting"
  /\ sup \in {"up", "kill", "clear"} => state = "running"
  /\ sup = "wait" => state = "restarting"
  /\ sup = "done" => state \in {"stopped", "refused"}
  /\ sup \in {"launch", "handshake", "up", "kill", "clear", "wait", "done"}

\* The supervisor begins with no process.
LEMMA HostInitInv == HostInit => HostInv
BY DEF HostInit, HostInv

\* One step per action of the supervisor, of its process and of the server.
LEMMA HostStep == HostInv /\ HostNext => HostInv'
<1> SUFFICES ASSUME HostInv, HostNext PROVE HostInv'
  OBVIOUS
<1> USE DEF HostInv
<1>1. CASE Cancel
  BY <1>1 DEF Cancel
<1>2. CASE LaunchFails
  BY <1>2 DEF LaunchFails
<1>3. CASE Spawn
  BY <1>3 DEF Spawn
<1>4. CASE HandshakeFails
  BY <1>4 DEF HandshakeFails
<1>5. CASE Refuse
  BY <1>5 DEF Refuse
<1>6. CASE Publish
  BY <1>6 DEF Publish
<1>7. CASE ExitSeen \/ Stopping
  BY <1>7 DEF ExitSeen, Stopping
<1>8. CASE Kill
  BY <1>8 DEF Kill
<1>9. CASE Clear
  BY <1>9 DEF Clear
<1>10. CASE Relaunch \/ Stop
  BY <1>10 DEF Relaunch, Stop
<1>11. CASE \E p \in alive : ProcessExits(p)
  BY <1>11 DEF ProcessExits
<1>12. QED
  BY <1>1, <1>2, <1>3, <1>4, <1>5, <1>6, <1>7, <1>8, <1>9, <1>10, <1>11 DEF HostNext

\* A call, and whatever OpenBao does, leaves the supervisor alone.
LEMMA CallsLeaveHost == [Next]_vars => HostNext \/ UNCHANGED hostVars
<1> SUFFICES ASSUME [Next]_vars PROVE HostNext \/ UNCHANGED hostVars
  OBVIOUS
<1>1. CASE Supervises
  BY <1>1 DEF Supervises
<1>2. CASE cachedMountExpires \/ Deletes \/ \E f \in Fields : Changes(f)
  BY <1>2 DEF cachedMountExpires, Deletes, Changes
<1>3. ASSUME NEW n \in Callers,
             HostGet(n) \/ HostWriteCourierKey(n) \/ Fails(n) \/ mountFor(n) \/ Reads(n)
               \/ Posts(n) \/ Answered(n)
      PROVE  UNCHANGED hostVars
  BY <1>3 DEF HostGet, HostWriteCourierKey, Begin, Fails, mountFor, Reads, Posts, Answered
<1>4. ASSUME NEW r \in flight, Stores(r) \/ Refuses(r)
      PROVE  UNCHANGED hostVars
  BY <1>4 DEF Stores, Refuses
<1>5. CASE UNCHANGED vars
  BY <1>5 DEF vars
<1>6. QED
  BY <1>1, <1>2, <1>3, <1>4, <1>5 DEF Next

\* HostInv is what NoProcessLeft needs.
LEMMA HostInvSuffices == HostInv => NoProcessLeft
<1> SUFFICES ASSUME HostInv PROVE NoProcessLeft
  OBVIOUS
<1>1. Cardinality(alive) <= 1
  <2>1. alive = {} \/ alive = {launched}
    BY DEF HostInv
  <2>2. Cardinality({}) = 0 /\ Cardinality({launched}) = 1
    BY FS_EmptySet, FS_Singleton
  <2>3. QED
    BY <2>1, <2>2
<1>2. state \in {"stopped", "refused", "restarting"} => sup \in {"wait", "done"}
  BY DEF HostInv
<1>3. sup = "done" <=> state \in {"stopped", "refused"}
  BY DEF HostInv
<1>4. QED
  BY <1>1, <1>2, <1>3 DEF NoProcessLeft, HostInv

\* However plugins die, launches fail and the server stops, at most one process of a
\* Backend Plugin runs, and none does when the Operator is told that it is stopped,
\* refused or restarting, nor when Wait returns (supervised.run, launch, Client.Kill).
THEOREM NoProcessIsLeft == FairSpec => []NoProcessLeft
<1>1. Init => HostInv
  BY HostInitInv DEF Init
<1>2. HostInv /\ [Next]_vars => HostInv'
  <2>1. HostInv /\ UNCHANGED hostVars => HostInv'
    BY DEF HostInv, hostVars
  <2>2. QED
    BY <2>1, HostStep, CallsLeaveHost
<1>3. QED
  BY <1>1, <1>2, HostInvSuffices, PTL DEF FairSpec

-----------------------------------------------------------------------------
(***************************************************************************)
(* The calls, the POSTs on their way and the record.                       *)
(***************************************************************************)
\* What a field, a record, a POST and a call are, without the bounds.
Contents == Nat \cup {Absent}
Records == [fields : [Fields -> Contents], version : Nat]
Writes == [by : Callers, num : Nat, fields : [Fields -> Contents], cas : Nat]
Codes == {"none", "200", "500", "check-and-set"}
Calls == [num : Nat, op : {"get", "write"}, proc : Nat \cup {NoClient}, att : Nat,
          pc : {"mount", "read", "post", "answer", "end"}, res : Results, read : Records,
          code : Codes, got : Contents, saw : SUBSET Contents, from : Nat, stored : BOOLEAN]

KVTypes ==
  /\ v2 \in BOOLEAN /\ rec \in Records /\ flight \subseteq Writes /\ count \in Nat
  /\ call \in [Callers -> Calls]

\* A call sees the values its field has while it runs, and a code that it has not acted on
\* yet is the answer to its own POST.
AnswerOK(n) ==
  /\ call[n].pc # "end" => rec.fields[n] \in call[n].saw
  /\ call[n].pc \in {"post", "answer"} => call[n].op = "write"
  /\ call[n].pc \in {"mount", "read", "post"} => call[n].code = "none"
  /\ call[n].code = "200" => call[n].op = "write" /\ call[n].stored
  /\ call[n].res = "ErrNotFound" => call[n].op = "get" /\ Absent \in call[n].saw
  /\ call[n].res = "value" => call[n].got \in call[n].saw \ {Absent, 0}
  /\ call[n].res = "ok" => call[n].op = "write" /\ call[n].stored

\* Each conflict costs the record a version: a call that has tried att times and is about
\* to read, or to write what it read, has seen att versions go by since it began.
RetryOK(n) ==
  /\ v2 /\ call[n].pc \in {"mount", "read"} => rec.version >= call[n].from + call[n].att
  /\ v2 /\ call[n].pc = "post" => call[n].read.version >= call[n].from + call[n].att
  /\ call[n].pc = "answer" /\ call[n].code = "check-and-set" =>
       v2 /\ rec.version > call[n].from + call[n].att
  /\ call[n].res = "error" /\ call[n].code = "check-and-set" /\ call[n].att = casRetries =>
       rec.version > call[n].from + casRetries

\* As long as the record has the version that was read, it has the fields that were read,
\* or was deleted since.
ReadOK(n) ==
  call[n].pc = "post" =>
    /\ call[n].read.version <= rec.version
    /\ v2 /\ call[n].read.version = rec.version =>
         \A f \in Fields : rec.fields[f] \in {Absent, call[n].read.fields[f]}

\* No value is from a call that is yet to come.
Below(g) == \A n \in Callers : g[n] \in Nat => g[n] <= call[n].num

CallsInv ==
  /\ Below(rec.fields)
  /\ \A n \in Callers : /\ AnswerOK(n) /\ RetryOK(n) /\ ReadOK(n)
                        /\ Below(call[n].read.fields) /\ call[n].num <= count

\* A POST is from its caller's latest call only while that call waits for its answer, or
\* gave up.
SentOK(r) ==
  /\ r.num <= call[r.by].num
  /\ r.num = call[r.by].num =>
       /\ call[r.by].pc \in {"answer", "end"}
       /\ call[r.by].pc = "answer" =>
            call[r.by].code = "none" /\ (v2 => r.cas >= call[r.by].from + call[r.by].att)

\* While the record has the version a POST is checked against, the POST has the record's
\* fields and a value of its own that is no older.
CasOK(r) ==
  /\ r.cas <= rec.version /\ r.fields[r.by] = r.num
  /\ v2 /\ r.cas = rec.version =>
       /\ \A f \in Fields \ {r.by} : rec.fields[f] \in {Absent, r.fields[f]}
       /\ rec.fields[r.by] = Absent \/ rec.fields[r.by] <= r.num

FlightInv ==
  /\ \A r \in flight : SentOK(r) /\ CasOK(r) /\ Below(r.fields)
  /\ \A r, s \in flight : r.by = s.by /\ r.num = s.num => r = s

KVInv == KVTypes /\ CallsInv /\ FlightInv

\* Absent is no number; no record is a record of absent fields; Other is a field.
LEMMA KVFacts ==
  /\ Absent \notin Nat /\ casRetries \in Nat /\ Callers \subseteq Fields
  /\ NoRecord \in Records /\ NoRecord.version = 0 /\ \A f \in Fields : NoRecord.fields[f] = Absent
BY KVAssumption DEF KVAssumption, NoRecord, Nothing, Records, Contents, Fields

\* What a call becomes that returns, and that the other calls are left alone.
LEMMA ReturnIs ==
  ASSUME call \in [Callers -> Calls], NEW n \in Callers, NEW e
  PROVE  LET d == Return(n, e) IN
         /\ d \in [Callers -> Calls]
         /\ d[n].pc = "end" /\ d[n].read = NoRecord
         /\ d[n].res = IF e \in {"value", "ok"} THEN e ELSE callError(toStatus(e))
         /\ d[n].num = call[n].num /\ d[n].op = call[n].op /\ d[n].att = call[n].att
         /\ d[n].code = call[n].code /\ d[n].got = call[n].got /\ d[n].saw = call[n].saw
         /\ d[n].from = call[n].from /\ d[n].stored = call[n].stored
         /\ \A m \in Callers \ {n} : d[m] = call[m]
<1> DEFINE res == IF e \in {"value", "ok"} THEN e ELSE callError(toStatus(e))
           d == Return(n, e)
<1>1. res \in Results
  BY DEF callError, toStatus, Results
<1>2. d = [call EXCEPT ![n].pc = "end", ![n].proc = NoClient, ![n].read = NoRecord, ![n].res = res]
  BY DEF Return
<1>3. call[n] \in Calls /\ NoRecord \in Records
  BY KVFacts
<1> HIDE DEF res, d
<1>4. d[n] = [call[n] EXCEPT !.pc = "end", !.proc = NoClient, !.read = NoRecord, !.res = res]
      /\ \A m \in Callers \ {n} : d[m] = call[m]
  BY <1>2
<1>5. d[n] \in Calls
  <2>1. [call[n] EXCEPT !.pc = "end", !.proc = NoClient, !.read = NoRecord, !.res = res] \in Calls
    BY <1>1, <1>3 DEF Calls
  <2> QED BY <1>4, <2>1
<1>6. d \in [Callers -> Calls]
  BY <1>2, <1>4, <1>5
<1>7. /\ d[n].pc = "end" /\ d[n].read = NoRecord /\ d[n].res = res
      /\ d[n].num = call[n].num /\ d[n].op = call[n].op /\ d[n].att = call[n].att
      /\ d[n].code = call[n].code /\ d[n].got = call[n].got /\ d[n].saw = call[n].saw
      /\ d[n].from = call[n].from /\ d[n].stored = call[n].stored
  BY <1>3, <1>4 DEF Calls
<1> QED BY <1>4, <1>6, <1>7 DEF res, d

\* Numbers of calls only grow, and a value that was below stays so.
LEMMA BelowKept ==
  ASSUME call \in [Callers -> Calls], call' \in [Callers -> Calls],
         \A m \in Callers : call[m].num <= call'[m].num, NEW g, Below(g)
  PROVE  \A m \in Callers : g[m] \in Nat => g[m] <= call'[m].num
<1>1. \A m \in Callers : call[m].num \in Nat /\ call'[m].num \in Nat
  BY DEF Calls
<1> QED BY <1>1 DEF Below

\* A step that changes call n alone keeps the invariant if it does so for that call and
\* for the POSTs of its caller.
LEMMA OneCall ==
  ASSUME KVInv, NEW n \in Callers, UNCHANGED <<v2, rec, flight>>,
         count' \in Nat, count <= count',
         call' \in [Callers -> Calls], \A m \in Callers \ {n} : call'[m] = call[m],
         call[n].num <= call'[n].num, call'[n].num <= count',
         AnswerOK(n)', RetryOK(n)', ReadOK(n)',
         Below(call'[n].read.fields),
         \A r \in flight : r.by = n => SentOK(r)'
  PROVE  KVInv'
<1>0. /\ call \in [Callers -> Calls] /\ flight \subseteq Writes /\ count \in Nat
      /\ \A m \in Callers : call[m].num \in Nat
  BY DEF KVInv, KVTypes, Calls
<1>1. KVTypes'
  BY DEF KVInv, KVTypes
<1>2. \A m \in Callers : call[m].num <= call'[m].num
  BY <1>0
<1>3. \A m \in Callers : AnswerOK(m)' /\ RetryOK(m)' /\ ReadOK(m)'
  BY DEF KVInv, CallsInv, AnswerOK, RetryOK, ReadOK
<1>4. \A m \in Callers : call'[m].num <= count'
  BY <1>0 DEF KVInv, CallsInv
<1>5. Below(rec.fields)' /\ \A m \in Callers : Below(call[m].read.fields)'
  <2>1. Below(rec.fields)'
    BY <1>0, <1>2, BelowKept DEF KVInv, CallsInv, Below
  <2>2. ASSUME NEW m \in Callers PROVE Below(call[m].read.fields)'
    <3>1. Below(call'[m].read.fields)
      BY DEF KVInv, CallsInv
    <3> QED BY <1>0, <1>2, <3>1, BelowKept DEF Below
  <2> QED BY <2>1, <2>2
<1>6. ASSUME NEW r \in flight
      PROVE  SentOK(r)' /\ CasOK(r)' /\ Below(r.fields)'
  <2>1. SentOK(r)'
    <3>1. CASE r.by = n
      BY <3>1
    <3>2. CASE r.by # n
      BY <1>0, <3>2 DEF KVInv, FlightInv, SentOK, Writes
    <3> QED BY <3>1, <3>2
  <2>2. CasOK(r)'
    BY DEF KVInv, FlightInv, CasOK
  <2>3. Below(r.fields)'
    BY <1>0, <1>2, BelowKept DEF KVInv, FlightInv, Below
  <2> QED BY <2>1, <2>2, <2>3
<1>7. CallsInv'
  BY <1>3, <1>4, <1>5 DEF CallsInv
<1>8. FlightInv'
  BY <1>6 DEF FlightInv, KVInv
<1> QED BY <1>1, <1>7, <1>8 DEF KVInv

\* A call that returns, its code kept or dropped.
Returns(n) ==
  /\ UNCHANGED <<v2, rec, flight, count>> /\ call' \in [Callers -> Calls]
  /\ \A m \in Callers \ {n} : call'[m] = call[m]
  /\ call'[n].pc = "end" /\ call'[n].read = NoRecord
  /\ call'[n].num = call[n].num /\ call'[n].op = call[n].op /\ call'[n].att = call[n].att
  /\ call'[n].saw = call[n].saw /\ call'[n].from = call[n].from /\ call'[n].stored = call[n].stored

\* It keeps the invariant if what it returns is true.
LEMMA ReturnsKeep ==
  ASSUME KVInv, NEW n \in Callers, Returns(n), AnswerOK(n)', RetryOK(n)'
  PROVE  KVInv'
<1>0. call \in [Callers -> Calls] /\ count \in Nat /\ call[n].num \in Nat
  BY DEF KVInv, KVTypes, Calls
<1>1. ReadOK(n)'
  BY DEF Returns, ReadOK
<1>2. Below(call'[n].read.fields)
  BY KVFacts DEF Returns, Below
<1>3. \A r \in flight : r.by = n => SentOK(r)'
  BY DEF Returns, KVInv, FlightInv, SentOK
<1>4. call[n].num <= count
  BY DEF KVInv, CallsInv
<1> QED BY <1>0, <1>1, <1>2, <1>3, <1>4, OneCall DEF Returns

\* An error with no code, or one that says nothing of a conflict, is always true.
LEMMA ErrorKeeps ==
  ASSUME KVInv, NEW n \in Callers, Returns(n), call'[n].res = "error",
         \/ call'[n].code = "none"
         \/ call'[n].code = call[n].code /\ call[n].code # "check-and-set"
  PROVE  KVInv'
<1>1. AnswerOK(n)
  BY DEF KVInv, CallsInv
<1>2. AnswerOK(n)'
  BY <1>1 DEF Returns, AnswerOK
<1>3. RetryOK(n)'
  BY DEF Returns, RetryOK
<1> QED BY <1>2, <1>3, ReturnsKeep

\* A new call sees the record as it is, and no POST is its own.
LEMMA BeginStep ==
  ASSUME KVInv, HostInv, NEW n \in Callers, NEW op \in {"get", "write"}, Begin(n, op)
  PROVE  KVInv'
<1> DEFINE idle == client = NoClient
           c == call[n]
           d == [c EXCEPT !.num = count + 1, !.op = op, !.proc = client, !.att = 0, !.code = "none",
                  !.pc = IF idle THEN "end" ELSE "mount",
                  !.res = IF idle THEN "ErrNotRunning" ELSE "none",
                  !.saw = {rec.fields[n]}, !.from = rec.version, !.stored = FALSE]
<1>0. /\ call \in [Callers -> Calls] /\ count \in Nat /\ c \in Calls /\ c.num \in Nat
      /\ rec \in Records /\ rec.version \in Nat /\ n \in Fields /\ rec.fields[n] \in Contents
      /\ flight \subseteq Writes
  BY KVFacts DEF KVInv, KVTypes, Calls, Records
<1>1. call' = [call EXCEPT ![n] = d] /\ count' = count + 1 /\ UNCHANGED <<v2, rec, flight>>
  BY DEF Begin
<1>2. d \in Calls
  <2>1. /\ (IF idle THEN "end" ELSE "mount") \in {"mount", "read", "post", "answer", "end"}
        /\ (IF idle THEN "ErrNotRunning" ELSE "none") \in Results
        /\ client \in Nat \cup {NoClient} /\ {rec.fields[n]} \in SUBSET Contents
        /\ count + 1 \in Nat
    BY <1>0 DEF Results, HostInv
  <2> HIDE DEF c, idle
  <2> QED BY <1>0, <2>1 DEF Calls, Codes
<1>3. /\ d.num = count + 1 /\ d.op = op /\ d.att = 0 /\ d.code = "none" /\ d.read = c.read
      /\ d.pc \in {"end", "mount"} /\ d.res \in {"ErrNotRunning", "none"}
      /\ d.saw = {rec.fields[n]} /\ d.from = rec.version
  BY <1>0 DEF Calls
<1> HIDE DEF d
<1>4. call' \in [Callers -> Calls] /\ call'[n] = d /\ \A m \in Callers \ {n} : call'[m] = call[m]
  BY <1>0, <1>1, <1>2
<1>5. AnswerOK(n)'
  BY <1>1, <1>3, <1>4 DEF AnswerOK
<1>6. RetryOK(n)' /\ ReadOK(n)'
  BY <1>0, <1>1, <1>3, <1>4 DEF RetryOK, ReadOK
<1>7. c.num <= count /\ Below(c.read.fields)
  BY DEF KVInv, CallsInv
<1>8. \A r \in flight : r.by = n => SentOK(r)'
  <2>1. ASSUME NEW r \in flight, r.by = n
        PROVE  r.num <= count /\ r.num \in Nat
    BY <1>0, <1>7, <2>1 DEF KVInv, FlightInv, SentOK, Writes
  <2> QED BY <1>0, <1>3, <1>4, <2>1 DEF SentOK
<1> QED BY <1>0, <1>1, <1>3, <1>4, <1>5, <1>6, <1>7, <1>8, OneCall

\* Return makes a call that returns; its error is an error.
LEMMA ReturnReturns ==
  ASSUME KVTypes, NEW n \in Callers, NEW e, call' = Return(n, e), UNCHANGED <<v2, rec, flight, count>>
  PROVE  /\ Returns(n) /\ call'[n].code = call[n].code /\ call'[n].got = call[n].got
         /\ e \in {"value", "ok"} => call'[n].res = e
         /\ e = "ErrNotFound" => call'[n].res = "ErrNotFound"
         /\ e = "error" => call'[n].res = "error"
<1>1. call \in [Callers -> Calls]
  BY DEF KVTypes
<1> DEFINE d == Return(n, e)
<1> HIDE DEF d
<1>2. /\ d \in [Callers -> Calls]
      /\ d[n].pc = "end" /\ d[n].read = NoRecord
      /\ d[n].res = IF e \in {"value", "ok"} THEN e ELSE callError(toStatus(e))
      /\ d[n].num = call[n].num /\ d[n].op = call[n].op /\ d[n].att = call[n].att
      /\ d[n].code = call[n].code /\ d[n].got = call[n].got /\ d[n].saw = call[n].saw
      /\ d[n].from = call[n].from /\ d[n].stored = call[n].stored
      /\ \A m \in Callers \ {n} : d[m] = call[m]
  BY <1>1, ReturnIs DEF d
<1>3. call' = d
  BY DEF d
<1>4. callError(toStatus("ErrNotFound")) = "ErrNotFound" /\ callError(toStatus("error")) = "error"
  BY DEF callError, toStatus
<1> QED BY <1>2, <1>3, <1>4 DEF Returns

\* A deadline or the death of the process drops the code.
LEMMA FailsStep ==
  ASSUME KVInv, NEW n \in Callers, Fails(n)
  PROVE  KVInv'
<1> DEFINE d == Return(n, "error")
<1>0. call \in [Callers -> Calls]
  BY DEF KVInv, KVTypes
<1>1. call' = [d EXCEPT ![n].code = "none"] /\ UNCHANGED <<v2, rec, flight, count>>
  BY DEF Fails
<1>2. /\ d \in [Callers -> Calls] /\ d[n].pc = "end" /\ d[n].read = NoRecord
      /\ d[n].res = callError(toStatus("error"))
      /\ d[n].num = call[n].num /\ d[n].op = call[n].op /\ d[n].att = call[n].att
      /\ d[n].saw = call[n].saw /\ d[n].from = call[n].from /\ d[n].stored = call[n].stored
      /\ \A m \in Callers \ {n} : d[m] = call[m]
  BY <1>0, ReturnIs
<1> HIDE DEF d
<1>3. callError(toStatus("error")) = "error"
  BY DEF callError, toStatus
<1>4. d[n] \in Calls /\ call'[n] = [d[n] EXCEPT !.code = "none"]
      /\ \A m \in Callers \ {n} : call'[m] = d[m]
  BY <1>1, <1>2
<1>5. call'[n] \in Calls
  <2>1. [d[n] EXCEPT !.code = "none"] \in Calls
    BY <1>4 DEF Calls, Codes
  <2> QED BY <1>4, <2>1
<1>6. call' \in [Callers -> Calls]
  BY <1>1, <1>2, <1>4, <1>5
<1>7. /\ call'[n].pc = d[n].pc /\ call'[n].read = d[n].read /\ call'[n].res = d[n].res
      /\ call'[n].num = d[n].num /\ call'[n].op = d[n].op /\ call'[n].att = d[n].att
      /\ call'[n].saw = d[n].saw /\ call'[n].from = d[n].from /\ call'[n].stored = d[n].stored
      /\ call'[n].code = "none"
  BY <1>4 DEF Calls
<1>8. Returns(n) /\ call'[n].res = "error" /\ call'[n].code = "none"
  BY <1>1, <1>2, <1>3, <1>4, <1>6, <1>7 DEF Returns
<1> QED BY <1>8, ErrorKeeps

\* mountFor goes on to the read or returns an error.
LEMMA MountStep ==
  ASSUME KVInv, NEW n \in Callers, mountFor(n)
  PROVE  KVInv'
<1> DEFINE c == call[n]
<1>0. /\ call \in [Callers -> Calls] /\ c \in Calls /\ c.num \in Nat /\ count \in Nat
      /\ KVTypes /\ c.pc = "mount" /\ UNCHANGED <<v2, rec, flight, count>>
      /\ AnswerOK(n) /\ RetryOK(n) /\ c.num <= count /\ Below(c.read.fields)
  BY DEF KVInv, KVTypes, CallsInv, Calls, mountFor, At
<1>1. CASE call' = Return(n, "error")
  <2>1. Returns(n) /\ call'[n].code = c.code /\ call'[n].res = "error"
    BY <1>0, <1>1, ReturnReturns
  <2>2. c.code = "none"
    BY <1>0 DEF AnswerOK
  <2> QED BY <2>1, <2>2, ErrorKeeps
<1>2. CASE call' = [call EXCEPT ![n].pc = "read"]
  <2>1. call'[n] = [c EXCEPT !.pc = "read"] /\ \A m \in Callers \ {n} : call'[m] = call[m]
    BY <1>0, <1>2
  <2>2. [c EXCEPT !.pc = "read"] \in Calls
    BY <1>0 DEF Calls
  <2>3. call' \in [Callers -> Calls]
    BY <1>0, <1>2, <2>1, <2>2
  <2>4. /\ call'[n].pc = "read" /\ call'[n].num = c.num /\ call'[n].op = c.op /\ call'[n].att = c.att
        /\ call'[n].res = c.res /\ call'[n].read = c.read /\ call'[n].code = c.code
        /\ call'[n].got = c.got /\ call'[n].saw = c.saw /\ call'[n].from = c.from
        /\ call'[n].stored = c.stored
    BY <1>0, <2>1 DEF Calls
  <2> HIDE DEF c
  <2>5. AnswerOK(n)'
    BY <1>0, <2>4 DEF AnswerOK, c
  <2>6. RetryOK(n)' /\ ReadOK(n)'
    BY <1>0, <2>4 DEF RetryOK, ReadOK, c
  <2>7. \A r \in flight : r.by = n => SentOK(r)'
    BY <1>0, <2>4 DEF KVInv, FlightInv, SentOK, c
  <2>8. count <= count' /\ c.num <= call'[n].num /\ call'[n].num <= count' /\ count' \in Nat
        /\ Below(call'[n].read.fields)
    BY <1>0, <2>4
  <2> QED BY <1>0, <2>1, <2>3, <2>5, <2>6, <2>7, <2>8, OneCall DEF c
<1> QED BY <1>1, <1>2 DEF mountFor

\* What is read, when it is, is the record; on version 2, with its version.
LEMMA ReadIsRecord ==
  ASSUME KVTypes, NEW status \in {200, 404, 500}, NEW errors \in BOOLEAN,
         status = 200 => ~Missing(rec) /\ ~errors, status = 404 /\ ~errors => Missing(rec),
         ~Unread(status, errors)
  PROVE  /\ readRecord(status) \in Records /\ readRecord(status).fields = rec.fields
         /\ readRecord(status).version = IF v2 THEN rec.version ELSE 0
<1>1. rec.fields \in [Fields -> Contents] /\ rec.version \in Nat
  BY DEF KVTypes, Records
<1>2. (IF status = 404 THEN Nothing ELSE rec.fields) = rec.fields
  BY DEF Unread, Missing
<1>3. (IF v2 THEN rec.version ELSE 0) \in Nat
  BY <1>1
<1>4. readRecord(status) = [fields |-> rec.fields, version |-> IF v2 THEN rec.version ELSE 0]
  BY <1>2 DEF readRecord, Version
<1> QED BY <1>1, <1>3, <1>4 DEF Records

\* The calls after Get returned for what call n read.
Got(n, r) == [Return(n, Get(n, r)) EXCEPT ![n].got = r.fields[n]]

\* Get returns what the read record says of the field, and the field had that value.
LEMMA GetStep ==
  ASSUME KVInv, NEW n \in Callers, call[n].pc = "read", call[n].op = "get",
         NEW r \in Records, r.fields = rec.fields,
         call' = Got(n, r),
         UNCHANGED <<v2, rec, flight, count>>
  PROVE  KVInv'
<1> DEFINE e == Get(n, r)
           d == Return(n, e)
           x == rec.fields[n]
<1>0. /\ call \in [Callers -> Calls] /\ x \in Contents /\ AnswerOK(n)
      /\ call' = [d EXCEPT ![n].got = x]
  BY KVFacts DEF KVInv, KVTypes, CallsInv, Records, Got
<1>1. \/ e = "ErrNotFound" /\ x = Absent
      \/ e = "value" /\ x \notin {Absent, 0}
      \/ e = "error"
  BY DEF Get
<1>2. /\ d \in [Callers -> Calls] /\ d[n].pc = "end" /\ d[n].read = NoRecord
      /\ d[n].res = IF e \in {"value", "ok"} THEN e ELSE callError(toStatus(e))
      /\ d[n].num = call[n].num /\ d[n].op = call[n].op /\ d[n].att = call[n].att
      /\ d[n].code = call[n].code
      /\ d[n].saw = call[n].saw /\ d[n].from = call[n].from /\ d[n].stored = call[n].stored
      /\ \A m \in Callers \ {n} : d[m] = call[m]
  BY <1>0, ReturnIs
<1>3. callError(toStatus("ErrNotFound")) = "ErrNotFound" /\ callError(toStatus("error")) = "error"
  BY DEF callError, toStatus
<1> HIDE DEF e, d, x
<1>4. d[n] \in Calls /\ call'[n] = [d[n] EXCEPT !.got = x]
      /\ \A m \in Callers \ {n} : call'[m] = d[m]
  BY <1>0, <1>2
<1>5. call'[n] \in Calls
  <2>1. [d[n] EXCEPT !.got = x] \in Calls
    BY <1>0, <1>4 DEF Calls
  <2> QED BY <1>4, <2>1
<1>6. call' \in [Callers -> Calls]
  BY <1>0, <1>2, <1>4, <1>5
<1>7. /\ call'[n].pc = d[n].pc /\ call'[n].read = d[n].read /\ call'[n].res = d[n].res
      /\ call'[n].num = d[n].num /\ call'[n].op = d[n].op /\ call'[n].att = d[n].att
      /\ call'[n].saw = d[n].saw /\ call'[n].from = d[n].from /\ call'[n].stored = d[n].stored
      /\ call'[n].code = d[n].code /\ call'[n].got = x
  BY <1>4 DEF Calls
<1>8. Returns(n)
  BY <1>2, <1>4, <1>6, <1>7 DEF Returns
<1>9. x \in call[n].saw /\ call[n].code = "none"
  BY <1>0 DEF AnswerOK, x
<1>10. RetryOK(n)'
  BY <1>2, <1>7, <1>9 DEF RetryOK
<1>11. call'[n].res \in {"ErrNotFound", "value", "error"}
       /\ (call'[n].res = "ErrNotFound" => x = Absent) /\ (call'[n].res = "value" => x \notin {Absent, 0})
  BY <1>1, <1>2, <1>3, <1>7
<1>12. AnswerOK(n)'
  BY <1>2, <1>7, <1>9, <1>11 DEF AnswerOK
<1> QED BY <1>8, <1>10, <1>12, ReturnsKeep

\* A read of the record: an error, Get's answer, or what WriteCourierKey is to write.
LEMMA ReadStep ==
  ASSUME KVInv, NEW n \in Callers, Reads(n)
  PROVE  KVInv'
<1> DEFINE c == call[n]
<1>0. /\ call \in [Callers -> Calls] /\ c \in Calls /\ c.num \in Nat /\ count \in Nat
      /\ KVTypes /\ c.pc = "read" /\ UNCHANGED <<v2, rec, flight, count>>
      /\ rec \in Records /\ rec.version \in Nat
      /\ AnswerOK(n) /\ RetryOK(n) /\ c.num <= count /\ Below(rec.fields)
  BY DEF KVInv, KVTypes, CallsInv, Calls, Reads, At, Records
<1>1. PICK status \in {200, 404, 500}, errors \in BOOLEAN :
        /\ status = 200 => ~Missing(rec) /\ ~errors
        /\ status = 404 /\ ~errors => Missing(rec)
        /\ call' = IF Unread(status, errors) THEN Return(n, "error")
                   ELSE IF call[n].op = "get"
                   THEN [Return(n, Get(n, readRecord(status))) EXCEPT
                           ![n].got = readRecord(status).fields[n]]
                   ELSE [call EXCEPT ![n].pc = "post", ![n].read = readRecord(status)]
  BY DEF Reads
<1> DEFINE r == readRecord(status)
<1>2. CASE Unread(status, errors)
  <2>1. call' = Return(n, "error")
    BY <1>1, <1>2
  <2>2. Returns(n) /\ call'[n].code = c.code /\ call'[n].res = "error"
    BY <1>0, <2>1, ReturnReturns
  <2>3. c.code = "none"
    BY <1>0 DEF AnswerOK
  <2> QED BY <2>2, <2>3, ErrorKeeps
<1>3. ASSUME ~Unread(status, errors)
      PROVE  r \in Records /\ r.fields = rec.fields /\ r.version = IF v2 THEN rec.version ELSE 0
  BY <1>0, <1>1, <1>3, ReadIsRecord
<1>4. CASE ~Unread(status, errors) /\ c.op = "get"
  <2>1. call' = Got(n, r)
    BY <1>1, <1>4 DEF Got
  <2>2. r \in Records /\ r.fields = rec.fields
    BY <1>3, <1>4
  <2>3. call[n].pc = "read" /\ call[n].op = "get" /\ UNCHANGED <<v2, rec, flight, count>>
    BY <1>0, <1>4
  <2> HIDE DEF r, c
  <2> QED BY <2>1, <2>2, <2>3, GetStep
<1>5. CASE ~Unread(status, errors) /\ c.op # "get"
  <2>0. call' = [call EXCEPT ![n].pc = "post", ![n].read = r]
    BY <1>1, <1>5
  <2> HIDE DEF r
  <2>1. call'[n] = [c EXCEPT !.pc = "post", !.read = r] /\ \A m \in Callers \ {n} : call'[m] = call[m]
    BY <1>0, <2>0
  <2>2. [c EXCEPT !.pc = "post", !.read = r] \in Calls
    BY <1>0, <1>3, <1>5 DEF Calls
  <2>3. call' \in [Callers -> Calls]
    BY <1>0, <2>0, <2>1, <2>2
  <2>4. /\ call'[n].pc = "post" /\ call'[n].num = c.num /\ call'[n].op = c.op /\ call'[n].att = c.att
        /\ call'[n].res = c.res /\ call'[n].read = r /\ call'[n].code = c.code
        /\ call'[n].got = c.got /\ call'[n].saw = c.saw /\ call'[n].from = c.from
        /\ call'[n].stored = c.stored
    BY <1>0, <2>1 DEF Calls
  <2>5. c.op = "write"
    BY <1>0, <1>5 DEF Calls
  <2> HIDE DEF c
  <2>6. AnswerOK(n)'
    BY <1>0, <2>4, <2>5 DEF AnswerOK, c
  <2>7. RetryOK(n)'
    BY <1>0, <1>3, <1>5, <2>4 DEF RetryOK, c, AnswerOK
  <2>8. ReadOK(n)'
    BY <1>0, <1>3, <1>5, <2>4 DEF ReadOK
  <2>9. \A s \in flight : s.by = n => SentOK(s)'
    BY <1>0, <2>4 DEF KVInv, FlightInv, SentOK, c
  <2>10. count <= count' /\ c.num <= call'[n].num /\ call'[n].num <= count' /\ count' \in Nat
         /\ Below(call'[n].read.fields)
    BY <1>0, <1>3, <1>5, <2>4
  <2> QED BY <1>0, <2>1, <2>3, <2>6, <2>7, <2>8, <2>9, <2>10, OneCall DEF c
<1> QED BY <1>2, <1>4, <1>5

\* WriteCourierKey has its answer: done, again from the read, or an error.
LEMMA AnsweredStep ==
  ASSUME KVInv, NEW n \in Callers, Answered(n)
  PROVE  KVInv'
<1> DEFINE c == call[n]
<1>0. /\ call \in [Callers -> Calls] /\ c \in Calls /\ c.num \in Nat /\ c.att \in Nat /\ c.from \in Nat
      /\ c.code \in Codes /\ count \in Nat /\ casRetries \in Nat /\ rec.version \in Nat
      /\ KVTypes /\ c.pc = "answer" /\ c.code # "none" /\ UNCHANGED <<v2, rec, flight, count>>
      /\ AnswerOK(n) /\ RetryOK(n) /\ c.num <= count /\ Below(c.read.fields)
  BY KVFacts DEF KVInv, KVTypes, CallsInv, Calls, Answered, At, Records
<1>1. CASE c.code = "200"
  <2>1. call' = Return(n, "ok")
    BY <1>1 DEF Answered
  <2>2. Returns(n) /\ call'[n].code = c.code /\ call'[n].res = "ok"
    BY <1>0, <2>1, ReturnReturns
  <2>3. AnswerOK(n)' /\ RetryOK(n)'
    BY <1>0, <1>1, <2>2 DEF Returns, AnswerOK, RetryOK
  <2> QED BY <2>2, <2>3, ReturnsKeep
<1>2. CASE v2 /\ c.code = "check-and-set" /\ c.att < casRetries
  <2>0. call' = [call EXCEPT ![n].pc = "read", ![n].att = @ + 1, ![n].code = "none"]
    BY <1>2 DEF Answered
  <2>1. call'[n] = [c EXCEPT !.pc = "read", !.att = c.att + 1, !.code = "none"]
        /\ \A m \in Callers \ {n} : call'[m] = call[m]
    BY <1>0, <2>0
  <2>2. [c EXCEPT !.pc = "read", !.att = c.att + 1, !.code = "none"] \in Calls
    <3>1. c.att + 1 \in Nat
      BY <1>0
    <3> QED BY <1>0, <3>1 DEF Calls, Codes
  <2>3. call' \in [Callers -> Calls]
    BY <1>0, <2>0, <2>1, <2>2
  <2>4. /\ call'[n].pc = "read" /\ call'[n].num = c.num /\ call'[n].op = c.op
        /\ call'[n].att = c.att + 1
        /\ call'[n].res = c.res /\ call'[n].read = c.read /\ call'[n].code = "none"
        /\ call'[n].got = c.got /\ call'[n].saw = c.saw /\ call'[n].from = c.from
        /\ call'[n].stored = c.stored
    BY <1>0, <2>1 DEF Calls
  <2> HIDE DEF c
  <2>5. AnswerOK(n)'
    BY <1>0, <2>4 DEF AnswerOK, c
  <2>6. rec.version > c.from + c.att
    BY <1>0, <1>2 DEF RetryOK, c
  <2>7. RetryOK(n)' /\ ReadOK(n)'
    BY <1>0, <2>4, <2>6 DEF RetryOK, ReadOK
  <2>8. \A r \in flight : r.by = n => SentOK(r)'
    BY <1>0, <2>4 DEF KVInv, FlightInv, SentOK, c
  <2>9. count <= count' /\ c.num <= call'[n].num /\ call'[n].num <= count' /\ count' \in Nat
        /\ Below(call'[n].read.fields)
    BY <1>0, <2>4
  <2> QED BY <1>0, <2>1, <2>3, <2>5, <2>7, <2>8, <2>9, OneCall DEF c
<1>3. CASE c.code # "200" /\ ~(v2 /\ c.code = "check-and-set" /\ c.att < casRetries)
  <2>1. call' = Return(n, "error")
    BY <1>3 DEF Answered
  <2>2. Returns(n) /\ call'[n].code = c.code /\ call'[n].res = "error"
    BY <1>0, <2>1, ReturnReturns
  <2>3. AnswerOK(n)'
    BY <1>0, <1>3, <2>2 DEF Returns, AnswerOK
  <2>4. RetryOK(n)'
    BY <1>0, <2>2 DEF Returns, RetryOK
  <2> QED BY <2>2, <2>3, <2>4, ReturnsKeep
<1> QED BY <1>1, <1>2, <1>3

\* WriteCourierKey sends what it read with its own field in place.
LEMMA PostStep ==
  ASSUME KVInv, NEW n \in Callers, Posts(n)
  PROVE  KVInv'
<1> DEFINE c == call[n]
           w0 == [by |-> n, num |-> c.num, cas |-> c.read.version,
                  fields |-> [c.read.fields EXCEPT ![n] = c.num]]
<1>0. /\ call \in [Callers -> Calls] /\ c \in Calls /\ c.num \in Nat /\ c.read \in Records
      /\ rec \in Records /\ n \in Fields /\ flight \subseteq Writes /\ c.pc = "post"
      /\ UNCHANGED <<v2, rec, count>> /\ v2 \in BOOLEAN /\ count \in Nat
      /\ AnswerOK(n) /\ RetryOK(n) /\ ReadOK(n) /\ Below(c.read.fields) /\ Below(rec.fields)
  BY KVFacts DEF KVInv, KVTypes, CallsInv, Calls, Posts, At
<1>1. call' = [call EXCEPT ![n].pc = "answer", ![n].code = "none"] /\ flight' = flight \cup {w0}
  BY DEF Posts
<1>2. /\ c.read.version \in Nat /\ c.read.fields \in [Fields -> Contents] /\ rec.version \in Nat
      /\ rec.fields \in [Fields -> Contents]
  BY <1>0 DEF Records
<1>3. /\ w0.by = n /\ w0.num = c.num /\ w0.cas = c.read.version /\ w0.fields[n] = c.num
      /\ w0.fields \in [Fields -> Contents]
      /\ \A f \in Fields \ {n} : w0.fields[f] = c.read.fields[f]
  BY <1>0, <1>2 DEF Contents
<1>4. w0 \in Writes
  BY <1>0, <1>2, <1>3 DEF Writes
<1> HIDE DEF w0
<1>w. PICK w \in Writes :
        /\ w.by = n /\ w.num = c.num /\ w.cas = c.read.version /\ w.fields[n] = c.num
        /\ \A f \in Fields \ {n} : w.fields[f] = c.read.fields[f]
        /\ flight' = flight \cup {w}
  BY <1>1, <1>3, <1>4
<1>5. call'[n] = [c EXCEPT !.pc = "answer", !.code = "none"]
      /\ \A m \in Callers \ {n} : call'[m] = call[m]
  BY <1>0, <1>1
<1>6. [c EXCEPT !.pc = "answer", !.code = "none"] \in Calls
  BY <1>0 DEF Calls, Codes
<1>7. call' \in [Callers -> Calls]
  BY <1>0, <1>1, <1>5, <1>6
<1>8. /\ call'[n].pc = "answer" /\ call'[n].num = c.num /\ call'[n].op = c.op /\ call'[n].att = c.att
      /\ call'[n].res = c.res /\ call'[n].read = c.read /\ call'[n].code = "none"
      /\ call'[n].got = c.got /\ call'[n].saw = c.saw /\ call'[n].from = c.from
      /\ call'[n].stored = c.stored
  BY <1>0, <1>5 DEF Calls
<1> HIDE DEF c
<1>9. KVTypes'
  BY <1>0, <1>7, <1>w DEF KVTypes
<1>10. \A m \in Callers : call'[m].num = call[m].num /\ call'[m].read = call[m].read
  BY <1>5, <1>8 DEF c
<1>11. CallsInv'
  <2>1. AnswerOK(n)' /\ RetryOK(n)' /\ ReadOK(n)'
    BY <1>0, <1>8 DEF AnswerOK, RetryOK, ReadOK, c
  <2>2. \A m \in Callers : AnswerOK(m)' /\ RetryOK(m)' /\ ReadOK(m)'
    <3>1. ASSUME NEW m \in Callers \ {n}
          PROVE  AnswerOK(m)' /\ RetryOK(m)' /\ ReadOK(m)'
      <4>1. AnswerOK(m) /\ RetryOK(m) /\ ReadOK(m) /\ call'[m] = call[m]
        BY <1>5 DEF KVInv, CallsInv
      <4> QED BY <1>0, <4>1 DEF AnswerOK, RetryOK, ReadOK
    <3> QED BY <2>1, <3>1
  <2>3. \A m \in Callers : call'[m].num <= count'
    BY <1>0, <1>10 DEF KVInv, CallsInv
  <2>4. Below(rec.fields)'
    BY <1>0, <1>10 DEF Below
  <2>5. \A m \in Callers : Below(call[m].read.fields)'
    <3>1. \A m \in Callers : Below(call[m].read.fields)
      BY DEF KVInv, CallsInv
    <3> QED BY <1>10, <3>1 DEF Below
  <2> QED BY <2>2, <2>3, <2>4, <2>5 DEF CallsInv
<1>12. ASSUME NEW r \in flight
       PROVE  SentOK(r)' /\ CasOK(r)' /\ Below(r.fields)' /\ ~(r.by = n /\ r.num = c.num)
  <2>1. SentOK(r) /\ CasOK(r) /\ Below(r.fields)
    BY DEF KVInv, FlightInv
  <2>2. ~(r.by = n /\ r.num = c.num)
    BY <1>0, <2>1 DEF SentOK, c
  <2>3. SentOK(r)'
    <3>1. CASE r.by = n
      BY <1>8, <2>1, <2>2, <3>1 DEF SentOK, c
    <3>2. CASE r.by # n
      BY <1>0, <1>5, <2>1, <3>2 DEF SentOK, Writes
    <3> QED BY <3>1, <3>2
  <2>4. CasOK(r)'
    BY <1>0, <2>1 DEF CasOK
  <2>5. Below(r.fields)'
    BY <1>10, <2>1 DEF Below
  <2> QED BY <2>2, <2>3, <2>4, <2>5
<1>13. SentOK(w)'
  <2>1. v2 => c.read.version >= c.from + c.att
    BY <1>0 DEF RetryOK, c
  <2> QED BY <1>0, <1>8, <1>w, <2>1 DEF SentOK, c
<1>14. CasOK(w)'
  <2>1. c.read.version <= rec.version
        /\ (v2 /\ c.read.version = rec.version =>
              \A f \in Fields : rec.fields[f] \in {Absent, c.read.fields[f]})
    BY <1>0 DEF ReadOK, c
  <2>2. rec.fields[n] = Absent \/ rec.fields[n] <= c.num
    BY <1>0, <1>2 DEF Below, Contents, c
  <2> QED BY <1>0, <1>w, <2>1, <2>2 DEF CasOK
<1>15. Below(w.fields)'
  <2>1. \A m \in Callers : w.fields[m] \in Nat => w.fields[m] <= call[m].num
    BY <1>0, <1>w, KVFacts DEF Below, c
  <2> QED BY <1>10, <2>1 DEF Below
<1>16. FlightInv'
  <2>1. \A r \in flight' : SentOK(r)' /\ CasOK(r)' /\ Below(r.fields)'
    BY <1>12, <1>13, <1>14, <1>15, <1>w
  <2>2. \A r, s \in flight' : r.by = s.by /\ r.num = s.num => r = s
    BY <1>12, <1>w DEF KVInv, FlightInv
  <2> QED BY <2>1, <2>2 DEF FlightInv
<1> QED BY <1>9, <1>11, <1>16 DEF KVInv

\* The record stays, gets a new version, or loses its fields and keeps its version.
RecordMoves ==
  /\ rec' \in Records /\ rec.version <= rec'.version
  /\ rec' = rec \/ rec'.version > rec.version \/ \A f \in Fields : rec'.fields[f] = Absent

\* What a change of the record, and the answer to a POST, leave of a call.
Untouched(n) ==
  /\ call'[n].num = call[n].num /\ call'[n].op = call[n].op /\ call'[n].att = call[n].att
  /\ call'[n].pc = call[n].pc /\ call'[n].res = call[n].res /\ call'[n].read = call[n].read
  /\ call'[n].got = call[n].got /\ call'[n].from = call[n].from

\* A step of OpenBao or of somebody else, which may use up POSTs, keeps the invariant if the
\* calls it answers or that see it are right about it.
LEMMA OpenBaoKeeps ==
  ASSUME KVInv, RecordMoves, flight' \subseteq flight, UNCHANGED <<v2, count>>,
         call' \in [Callers -> Calls], Below(rec'.fields),
         \A n \in Callers : Untouched(n) /\ AnswerOK(n)' /\ RetryOK(n)',
         \A r \in flight' : r.num = call[r.by].num => call'[r.by].code = call[r.by].code
  PROVE  KVInv'
<1>0. /\ rec \in Records /\ flight \subseteq Writes /\ call \in [Callers -> Calls]
      /\ rec.version \in Nat /\ rec'.version \in Nat
  BY DEF KVInv, KVTypes, RecordMoves, Records
<1>1. KVTypes'
  BY DEF KVInv, KVTypes, RecordMoves
<1>2. \A m \in Callers : call'[m].num = call[m].num /\ call'[m].read = call[m].read
  BY DEF Untouched
<1>3. ASSUME NEW n \in Callers
      PROVE  ReadOK(n)'
  <2>1. ReadOK(n) /\ call[n].read.version \in Nat
    BY <1>0 DEF KVInv, CallsInv, Calls, Records
  <2>2. CASE rec' = rec
    BY <2>1, <2>2 DEF ReadOK, Untouched
  <2>3. CASE rec'.version > rec.version
    BY <1>0, <2>1, <2>3 DEF ReadOK, Untouched
  <2>4. CASE \A f \in Fields : rec'.fields[f] = Absent
    BY <1>0, <2>1, <2>4 DEF ReadOK, Untouched, RecordMoves
  <2> QED BY <2>2, <2>3, <2>4 DEF RecordMoves
<1>4. Below(rec.fields)'
  BY <1>2 DEF Below
<1>5. \A n \in Callers : Below(call[n].read.fields)' /\ call'[n].num <= count'
  BY <1>2 DEF KVInv, CallsInv, Below
<1>6. CallsInv'
  BY <1>3, <1>4, <1>5 DEF CallsInv
<1>7. ASSUME NEW r \in flight'
      PROVE  SentOK(r)' /\ CasOK(r)' /\ Below(r.fields)'
  <2>1. SentOK(r) /\ CasOK(r) /\ Below(r.fields) /\ r \in Writes
    BY <1>0 DEF KVInv, FlightInv
  <2>2. r.by \in Callers /\ r.cas \in Nat
    BY <2>1 DEF Writes
  <2>3. SentOK(r)'
    BY <2>1, <2>2 DEF SentOK, Untouched
  <2>4. CasOK(r)'
    <3>1. CASE rec' = rec
      BY <2>1, <3>1 DEF CasOK
    <3>2. CASE rec'.version > rec.version
      BY <1>0, <2>1, <2>2, <3>2 DEF CasOK
    <3>3. CASE \A f \in Fields : rec'.fields[f] = Absent
      BY <1>0, <2>1, <2>2, <3>3, KVFacts DEF CasOK, RecordMoves
    <3> QED BY <3>1, <3>2, <3>3 DEF RecordMoves
  <2>5. Below(r.fields)'
    BY <1>2, <2>1 DEF Below
  <2> QED BY <2>3, <2>4, <2>5
<1>8. FlightInv'
  BY <1>7 DEF FlightInv, KVInv
<1> QED BY <1>1, <1>6, <1>8 DEF KVInv

\* The calls under way see each change of the record.
LEMMA WitnessIs ==
  ASSUME KVInv, NEW x \in Records
  PROVE  LET d == Witness(x) IN
         /\ d \in [Callers -> Calls]
         /\ \A n \in Callers :
              /\ d[n].num = call[n].num /\ d[n].op = call[n].op /\ d[n].att = call[n].att
              /\ d[n].pc = call[n].pc /\ d[n].res = call[n].res /\ d[n].read = call[n].read
              /\ d[n].got = call[n].got /\ d[n].from = call[n].from /\ d[n].code = call[n].code
              /\ d[n].stored = call[n].stored /\ call[n].saw \subseteq d[n].saw
              /\ call[n].pc # "end" => x.fields[n] \in d[n].saw
<1> DEFINE d == Witness(x)
<1>0. call \in [Callers -> Calls]
  BY DEF KVInv, KVTypes
<1>1. ASSUME NEW n \in Callers
      PROVE  /\ d[n] \in Calls
             /\ d[n].num = call[n].num /\ d[n].op = call[n].op /\ d[n].att = call[n].att
             /\ d[n].pc = call[n].pc /\ d[n].res = call[n].res /\ d[n].read = call[n].read
             /\ d[n].got = call[n].got /\ d[n].from = call[n].from /\ d[n].code = call[n].code
             /\ d[n].stored = call[n].stored /\ call[n].saw \subseteq d[n].saw
             /\ call[n].pc # "end" => x.fields[n] \in d[n].saw
  <2> DEFINE c == call[n]
             y == c.saw \cup {x.fields[n]}
  <2>1. c \in Calls /\ x.fields[n] \in Contents
    BY <1>0, KVFacts DEF Records
  <2>2. y \in SUBSET Contents
    BY <2>1 DEF Calls
  <2>3. CASE c.pc = "end"
    BY <2>1, <2>3 DEF Witness
  <2>4. CASE c.pc # "end"
    <3>1. d[n] = [c EXCEPT !.saw = y]
      BY <2>1, <2>4 DEF Witness
    <3>2. x.fields[n] \in y /\ c.saw \subseteq y
      OBVIOUS
    <3> HIDE DEF c, y, d
    <3>3. [c EXCEPT !.saw = y] \in Calls
      BY <2>1, <2>2 DEF Calls
    <3>4. /\ d[n].num = c.num /\ d[n].op = c.op /\ d[n].att = c.att
          /\ d[n].pc = c.pc /\ d[n].res = c.res /\ d[n].read = c.read
          /\ d[n].got = c.got /\ d[n].from = c.from /\ d[n].code = c.code
          /\ d[n].stored = c.stored /\ d[n].saw = y
      BY <2>1, <3>1 DEF Calls
    <3> QED BY <3>1, <3>2, <3>3, <3>4 DEF c
  <2> QED BY <2>3, <2>4
<1>2. d = [n \in Callers |-> d[n]]
  BY DEF Witness
<1> HIDE DEF d
<1>3. d \in [Callers -> Calls]
  BY <1>1, <1>2
<1> QED BY <1>1, <1>3 DEF d

\* A call that sees the record change, and perhaps that its POST was carried out, stays
\* right about it.
LEMMA SeesChange ==
  ASSUME KVInv, NEW n \in Callers, RecordMoves, Untouched(n), UNCHANGED v2,
         call[n].saw \subseteq call'[n].saw,
         call[n].pc # "end" => rec'.fields[n] \in call'[n].saw,
         \/ call'[n].code = call[n].code /\ call'[n].stored = call[n].stored
         \/ call[n].pc = "answer" /\ call'[n].code = "200" /\ call'[n].stored
  PROVE  AnswerOK(n)' /\ RetryOK(n)'
<1>0. /\ AnswerOK(n) /\ RetryOK(n) /\ call[n] \in Calls
      /\ rec.version \in Nat /\ rec'.version \in Nat /\ rec.version <= rec'.version
      /\ casRetries \in Nat
  BY KVFacts DEF KVInv, KVTypes, CallsInv, RecordMoves, Records
<1>1. call[n].from \in Nat /\ call[n].att \in Nat /\ call[n].from + call[n].att \in Nat
      /\ call[n].from + casRetries \in Nat
  BY <1>0 DEF Calls
<1>2. AnswerOK(n)'
  BY <1>0 DEF AnswerOK, Untouched
<1>3. RetryOK(n)'
  BY <1>0, <1>1 DEF RetryOK, Untouched
<1> QED BY <1>2, <1>3

\* A change of the record that answers no POST.
LEMMA ChangeKeeps ==
  ASSUME KVInv, RecordMoves, Below(rec'.fields), call' = Witness(rec'), UNCHANGED <<v2, flight, count>>
  PROVE  KVInv'
<1> DEFINE d == Witness(rec')
<1>0. rec' \in Records
  BY DEF RecordMoves
<1>1. /\ d \in [Callers -> Calls]
      /\ \A n \in Callers :
           /\ d[n].num = call[n].num /\ d[n].op = call[n].op /\ d[n].att = call[n].att
           /\ d[n].pc = call[n].pc /\ d[n].res = call[n].res /\ d[n].read = call[n].read
           /\ d[n].got = call[n].got /\ d[n].from = call[n].from /\ d[n].code = call[n].code
           /\ d[n].stored = call[n].stored /\ call[n].saw \subseteq d[n].saw
           /\ call[n].pc # "end" => rec'.fields[n] \in d[n].saw
  BY <1>0, WitnessIs
<1>2. call' = d
  OBVIOUS
<1> HIDE DEF d
<1>3. \A n \in Callers : Untouched(n)
  BY <1>1, <1>2 DEF Untouched
<1>4. \A n \in Callers : AnswerOK(n)' /\ RetryOK(n)'
  BY <1>1, <1>2, <1>3, SeesChange
<1>5. \A r \in flight' : call'[r.by].code = call[r.by].code
  BY <1>1, <1>2 DEF KVInv, KVTypes, Writes
<1> QED BY <1>1, <1>2, <1>3, <1>4, <1>5, OpenBaoKeeps

\* Somebody else changes a field or deletes the record.
LEMMA OthersStep ==
  ASSUME KVInv, Deletes \/ \E f \in Fields : Changes(f)
  PROVE  KVInv'
<1>0. /\ rec \in Records /\ rec.version \in Nat /\ rec.fields \in [Fields -> Contents]
      /\ Nothing \in [Fields -> Contents] /\ Below(rec.fields) /\ 0 \in Contents
      /\ \A n \in Callers : call[n].num \in Nat
  BY DEF KVInv, KVTypes, CallsInv, Records, Nothing, Contents, Calls
<1>1. CASE Deletes
  <2>1. rec' = [rec EXCEPT !.fields = Nothing] /\ call' = Witness(rec') /\ UNCHANGED <<v2, flight, count>>
    BY <1>1 DEF Deletes
  <2>2. rec' \in Records /\ rec'.version = rec.version /\ rec'.fields = Nothing
    BY <1>0, <2>1 DEF Records
  <2>3. \A f \in Fields : rec'.fields[f] = Absent
    BY <2>2 DEF Nothing
  <2>4. RecordMoves
    BY <1>0, <2>2, <2>3 DEF RecordMoves
  <2>5. Below(rec'.fields)
    BY <2>3, KVFacts DEF Below
  <2> QED BY <2>1, <2>4, <2>5, ChangeKeeps
<1>2. ASSUME NEW f \in Fields, Changes(f)
      PROVE  KVInv'
  <2> DEFINE g == [rec.fields EXCEPT ![f] = 0]
  <2>1. rec' = [fields |-> g, version |-> rec.version + 1] /\ call' = Witness(rec')
        /\ UNCHANGED <<v2, flight, count>>
    BY <1>2 DEF Changes
  <2>2. g \in [Fields -> Contents] /\ rec.version + 1 \in Nat
    BY <1>0
  <2>3. \A n \in Callers : g[n] = 0 \/ g[n] = rec.fields[n]
    BY <1>0, KVFacts
  <2> HIDE DEF g
  <2>4. rec' \in Records /\ rec'.version = rec.version + 1 /\ rec'.fields = g
    BY <2>1, <2>2 DEF Records
  <2>5. RecordMoves
    BY <1>0, <2>4 DEF RecordMoves
  <2>6. Below(rec'.fields)
    BY <1>0, <2>3, <2>4 DEF Below
  <2> QED BY <2>1, <2>5, <2>6, ChangeKeeps
<1> QED BY <1>1, <1>2

\* OpenBao carries a POST out, and its call, if it waits, learns of it.
LEMMA StoreStep ==
  ASSUME KVInv, NEW r \in flight, Stores(r)
  PROVE  KVInv'
<1> DEFINE d == Witness(rec')
           c == d[r.by]
<1>0. /\ rec \in Records /\ rec.version \in Nat /\ r \in Writes /\ r.by \in Callers
      /\ r.fields \in [Fields -> Contents] /\ flight \subseteq Writes
      /\ call \in [Callers -> Calls] /\ Below(r.fields)
  BY DEF KVInv, KVTypes, FlightInv, Records, Writes
<1>1. /\ rec' = [fields |-> r.fields, version |-> rec.version + 1] /\ flight' = flight \ {r}
      /\ call' = IF Waits(r) THEN [d EXCEPT ![r.by].code = "200", ![r.by].stored = TRUE] ELSE d
      /\ UNCHANGED <<v2, count>>
  BY DEF Stores
<1>2. rec' \in Records /\ rec'.version = rec.version + 1 /\ rec'.fields = r.fields
  <2>1. rec.version + 1 \in Nat
    BY <1>0
  <2> QED BY <1>0, <1>1, <2>1 DEF Records
<1>3. RecordMoves /\ Below(rec'.fields)
  BY <1>0, <1>2 DEF RecordMoves
<1>4. CASE ~Waits(r)
  <2>1. call' = d
    BY <1>1, <1>4
  <2>2. /\ d \in [Callers -> Calls]
        /\ \A n \in Callers :
             /\ d[n].num = call[n].num /\ d[n].op = call[n].op /\ d[n].att = call[n].att
             /\ d[n].pc = call[n].pc /\ d[n].res = call[n].res /\ d[n].read = call[n].read
             /\ d[n].got = call[n].got /\ d[n].from = call[n].from /\ d[n].code = call[n].code
             /\ d[n].stored = call[n].stored /\ call[n].saw \subseteq d[n].saw
             /\ call[n].pc # "end" => rec'.fields[n] \in d[n].saw
    BY <1>2, WitnessIs
  <2> HIDE DEF d, c
  <2>3. \A n \in Callers : Untouched(n)
    BY <2>1, <2>2 DEF Untouched
  <2>4. \A n \in Callers : AnswerOK(n)' /\ RetryOK(n)'
    BY <1>1, <1>3, <2>1, <2>2, <2>3, SeesChange
  <2>5. \A s \in flight' : call'[s.by].code = call[s.by].code
    BY <1>0, <1>1, <2>1, <2>2 DEF Writes
  <2>6. flight' \subseteq flight
    BY <1>1
  <2> QED BY <1>1, <1>3, <2>1, <2>2, <2>3, <2>4, <2>5, <2>6, OpenBaoKeeps
<1>5. CASE Waits(r)
  <2>1. call' = [d EXCEPT ![r.by].code = "200", ![r.by].stored = TRUE]
    BY <1>1, <1>5
  <2>2. /\ d \in [Callers -> Calls]
        /\ \A n \in Callers :
             /\ d[n].num = call[n].num /\ d[n].op = call[n].op /\ d[n].att = call[n].att
             /\ d[n].pc = call[n].pc /\ d[n].res = call[n].res /\ d[n].read = call[n].read
             /\ d[n].got = call[n].got /\ d[n].from = call[n].from /\ d[n].code = call[n].code
             /\ d[n].stored = call[n].stored /\ call[n].saw \subseteq d[n].saw
             /\ call[n].pc # "end" => rec'.fields[n] \in d[n].saw
    BY <1>2, WitnessIs
  <2> HIDE DEF d
  <2>3. c \in Calls /\ call'[r.by] = [c EXCEPT !.code = "200", !.stored = TRUE]
        /\ \A n \in Callers \ {r.by} : call'[n] = d[n]
    BY <1>0, <2>1, <2>2
  <2>4. call[r.by].pc = "answer" /\ call[r.by].num = r.num
    BY <1>5 DEF Waits
  <2> HIDE DEF c
  <2>5. [c EXCEPT !.code = "200", !.stored = TRUE] \in Calls
    BY <2>3 DEF Calls, Codes
  <2>6. call' \in [Callers -> Calls]
    BY <1>0, <2>1, <2>2, <2>3, <2>5
  <2>7. /\ call'[r.by].num = c.num /\ call'[r.by].op = c.op /\ call'[r.by].att = c.att
        /\ call'[r.by].pc = c.pc /\ call'[r.by].res = c.res /\ call'[r.by].read = c.read
        /\ call'[r.by].got = c.got /\ call'[r.by].from = c.from /\ call'[r.by].saw = c.saw
        /\ call'[r.by].code = "200" /\ call'[r.by].stored
    BY <2>3 DEF Calls
  <2>8. \A n \in Callers : Untouched(n)
    <3>1. Untouched(r.by)
      BY <1>0, <2>2, <2>7 DEF Untouched, c
    <3>2. ASSUME NEW n \in Callers \ {r.by} PROVE Untouched(n)
      BY <2>2, <2>3 DEF Untouched
    <3> QED BY <3>1, <3>2
  <2>9. \A n \in Callers :
          /\ call[n].saw \subseteq call'[n].saw
          /\ call[n].pc # "end" => rec'.fields[n] \in call'[n].saw
          /\ \/ call'[n].code = call[n].code /\ call'[n].stored = call[n].stored
             \/ call[n].pc = "answer" /\ call'[n].code = "200" /\ call'[n].stored
    <3>1. /\ call[r.by].saw \subseteq call'[r.by].saw
          /\ rec'.fields[r.by] \in call'[r.by].saw
      BY <1>0, <2>2, <2>4, <2>7 DEF c
    <3>2. ASSUME NEW n \in Callers \ {r.by}
          PROVE  /\ call[n].saw \subseteq call'[n].saw
                 /\ call[n].pc # "end" => rec'.fields[n] \in call'[n].saw
                 /\ call'[n].code = call[n].code /\ call'[n].stored = call[n].stored
      BY <2>2, <2>3
    <3> QED BY <2>4, <2>7, <3>1, <3>2
  <2>10. \A n \in Callers : AnswerOK(n)' /\ RetryOK(n)'
    BY <1>1, <1>3, <2>8, <2>9, SeesChange
  <2>11. ASSUME NEW s \in flight', s.num = call[s.by].num
         PROVE  call'[s.by].code = call[s.by].code
    <3>1. s.by # r.by
      BY <1>1, <2>4, <2>11 DEF KVInv, FlightInv
    <3> QED BY <1>0, <1>1, <2>2, <2>3, <3>1 DEF Writes
  <2>12. flight' \subseteq flight
    BY <1>1
  <2> QED BY <1>1, <1>3, <2>6, <2>8, <2>10, <2>11, <2>12, OpenBaoKeeps
<1> QED BY <1>4, <1>5

\* OpenBao refuses a POST, or it is lost: a conflict is a version the call has not read.
LEMMA RefuseStep ==
  ASSUME KVInv, NEW r \in flight, Refuses(r)
  PROVE  KVInv'
<1> DEFINE c == call[r.by]
<1>0. /\ rec \in Records /\ rec.version \in Nat /\ r \in Writes /\ r.by \in Callers /\ r.cas \in Nat
      /\ flight \subseteq Writes /\ call \in [Callers -> Calls] /\ c \in Calls
      /\ c.from \in Nat /\ c.att \in Nat /\ Below(rec.fields) /\ SentOK(r) /\ CasOK(r)
      /\ casRetries \in Nat
  BY KVFacts DEF KVInv, KVTypes, CallsInv, FlightInv, Records, Writes, Calls
<1>1. PICK code \in {"500"} \cup (IF Accepts(r) THEN {} ELSE {"check-and-set"}) :
        call' = IF Waits(r) THEN [call EXCEPT ![r.by].code = code] ELSE call
  BY DEF Refuses
<1>2. flight' = flight \ {r} /\ UNCHANGED <<v2, rec, count>>
  BY DEF Refuses
<1>3. RecordMoves /\ flight' \subseteq flight /\ Below(rec'.fields)
  BY <1>0, <1>2 DEF RecordMoves
<1>4. CASE ~Waits(r)
  <2>1. UNCHANGED call
    BY <1>1, <1>4
  <2>2. \A n \in Callers : Untouched(n) /\ AnswerOK(n)' /\ RetryOK(n)'
    BY <1>2, <2>1 DEF KVInv, CallsInv, Untouched, AnswerOK, RetryOK
  <2> QED BY <1>0, <1>2, <1>3, <2>1, <2>2, OpenBaoKeeps
<1>5. CASE Waits(r)
  <2>1. call'[r.by] = [c EXCEPT !.code = code] /\ \A n \in Callers \ {r.by} : call'[n] = call[n]
    BY <1>0, <1>1, <1>5
  <2>2. code \in {"500", "check-and-set"} /\ (code = "check-and-set" => v2 /\ r.cas # rec.version)
    BY <1>1 DEF Accepts
  <2>3. c.pc = "answer" /\ c.num = r.num
    BY <1>5 DEF Waits
  <2>4. c.code = "none" /\ (v2 => r.cas >= c.from + c.att)
    BY <1>0, <2>3 DEF SentOK
  <2>5. code = "check-and-set" => v2 /\ rec.version > c.from + c.att
    BY <1>0, <2>2, <2>4 DEF CasOK
  <2>c. AnswerOK(r.by) /\ RetryOK(r.by)
    BY <1>0 DEF KVInv, CallsInv
  <2>6. [c EXCEPT !.code = code] \in Calls
    BY <1>0, <2>2 DEF Calls, Codes
  <2>7. call' \in [Callers -> Calls]
    BY <1>0, <1>1, <1>5, <2>1, <2>6
  <2>8. /\ call'[r.by].num = c.num /\ call'[r.by].op = c.op /\ call'[r.by].att = c.att
        /\ call'[r.by].pc = c.pc /\ call'[r.by].res = c.res /\ call'[r.by].read = c.read
        /\ call'[r.by].got = c.got /\ call'[r.by].from = c.from /\ call'[r.by].saw = c.saw
        /\ call'[r.by].code = code /\ call'[r.by].stored = c.stored
    BY <1>0, <2>1 DEF Calls
  <2>9. \A n \in Callers : Untouched(n)
    BY <2>1, <2>8 DEF Untouched
  <2> HIDE DEF c
  <2>10. AnswerOK(r.by)' /\ RetryOK(r.by)'
    <3>1. AnswerOK(r.by)'
      BY <1>2, <2>2, <2>3, <2>8, <2>c DEF AnswerOK, c
    <3>2. RetryOK(r.by)'
      BY <1>0, <1>2, <2>3, <2>5, <2>8 DEF RetryOK
    <3> QED BY <3>1, <3>2
  <2>11. \A n \in Callers : AnswerOK(n)' /\ RetryOK(n)'
    <3>1. ASSUME NEW n \in Callers \ {r.by}
          PROVE  AnswerOK(n)' /\ RetryOK(n)'
      <4>1. AnswerOK(n) /\ RetryOK(n) /\ call'[n] = call[n]
        BY <2>1 DEF KVInv, CallsInv
      <4> QED BY <1>2, <4>1 DEF AnswerOK, RetryOK
    <3> QED BY <2>10, <3>1
  <2>12. ASSUME NEW s \in flight', s.num = call[s.by].num
         PROVE  call'[s.by].code = call[s.by].code
    <3>1. s.by # r.by
      BY <1>2, <2>3, <2>12 DEF KVInv, FlightInv, c
    <3> QED BY <1>0, <1>2, <2>1, <3>1 DEF Writes
  <2> QED BY <1>2, <1>3, <2>7, <2>9, <2>11, <2>12, OpenBaoKeeps
<1> QED BY <1>4, <1>5

\* The invariant of the calls, POSTs and record, kept by every step.
LEMMA KVStep ==
  ASSUME KVInv, HostInv, [Next]_vars
  PROVE  KVInv'
<1>1. ASSUME NEW n \in Callers,
             HostGet(n) \/ HostWriteCourierKey(n) \/ Fails(n) \/ mountFor(n) \/ Reads(n)
               \/ Posts(n) \/ Answered(n)
      PROVE  KVInv'
  <2>1. CASE HostGet(n) \/ HostWriteCourierKey(n)
    BY <2>1, BeginStep DEF HostGet, HostWriteCourierKey
  <2> QED BY <1>1, <2>1, FailsStep, MountStep, ReadStep, PostStep, AnsweredStep
<1>2. ASSUME NEW r \in flight, Stores(r) \/ Refuses(r)
      PROVE  KVInv'
  BY <1>2, StoreStep, RefuseStep
<1>3. CASE Deletes \/ \E f \in Fields : Changes(f)
  BY <1>3, OthersStep
<1>4. CASE Supervises \/ cachedMountExpires \/ UNCHANGED vars
  <2>1. UNCHANGED <<v2, rec, flight, count, call>>
    BY <1>4 DEF Supervises, cachedMountExpires, vars
  <2>2. KVTypes'
    BY <2>1 DEF KVInv, KVTypes
  <2>3. CallsInv'
    BY <2>1 DEF KVInv, CallsInv, AnswerOK, RetryOK, ReadOK, Below
  <2>4. FlightInv'
    BY <2>1 DEF KVInv, FlightInv, SentOK, CasOK, Below
  <2> QED BY <2>2, <2>3, <2>4 DEF KVInv
<1> QED BY <1>1, <1>2, <1>3, <1>4 DEF Next

-----------------------------------------------------------------------------
(***************************************************************************)
(* What the callers are told, and what their writes do.                    *)
(***************************************************************************)
\* KVInv holds always; it needs HostInv only for what a client is.
THEOREM CallsInvariant == FairSpec => [](HostInv /\ KVInv)
<1>1. Init => HostInv /\ KVInv
  <2> SUFFICES ASSUME Init PROVE HostInv /\ KVInv
    OBVIOUS
  <2> DEFINE c == [num |-> 0, op |-> "get", proc |-> NoClient, att |-> 0,
                   pc |-> "end", res |-> "error", read |-> NoRecord, code |-> "none", got |-> Absent,
                   saw |-> {}, from |-> 0, stored |-> FALSE]
  <2>1. HostInv
    BY HostInitInv DEF Init
  <2>2. c \in Calls
    BY KVFacts DEF Calls, Codes, Results, Contents
  <2>3. call = [n \in Callers |-> c] /\ rec = NoRecord /\ flight = {} /\ count = 0 /\ v2 \in BOOLEAN
    BY DEF Init
  <2>4. c.num = 0 /\ c.pc = "end" /\ c.res = "error" /\ c.code = "none" /\ c.read = NoRecord
    OBVIOUS
  <2> HIDE DEF c
  <2>5. KVTypes
    BY <2>2, <2>3, KVFacts DEF KVTypes
  <2>6. \A n \in Callers : call[n] = c
    BY <2>3
  <2>7. CallsInv
    BY <2>3, <2>4, <2>6, KVFacts DEF CallsInv, AnswerOK, RetryOK, ReadOK, Below
  <2>8. FlightInv
    BY <2>3 DEF FlightInv
  <2> QED BY <2>1, <2>5, <2>7, <2>8 DEF KVInv
<1>2. HostInv /\ KVInv /\ [Next]_vars => HostInv' /\ KVInv'
  <2>1. HostInv /\ UNCHANGED hostVars => HostInv'
    BY DEF HostInv, hostVars
  <2> QED BY <2>1, HostStep, CallsLeaveHost, KVStep
<1> QED BY <1>1, <1>2, PTL DEF FairSpec

\* What a caller is told was true of OpenBao at some moment of the call, and a write that
\* gave up on conflicts met more than casRetries of them (Get, WriteCourierKey, Host.Get,
\* Host.WriteCourierKey).
THEOREM CallersAreToldTheTruth == FairSpec => []AnswersAreTrue
<1>1. KVInv => AnswersAreTrue
  <2> SUFFICES ASSUME KVInv, NEW n \in Callers
               PROVE  /\ call[n].res = "ErrNotFound" => call[n].op = "get" /\ Absent \in call[n].saw
                      /\ call[n].res = "value" => call[n].got \in call[n].saw \ {Absent, 0}
                      /\ call[n].res = "ok" => call[n].op = "write" /\ call[n].stored
                      /\ call[n].res = "error" /\ call[n].code = "check-and-set"
                           /\ call[n].att = casRetries => rec.version - call[n].from > casRetries
    BY DEF AnswersAreTrue
  <2>1. /\ AnswerOK(n) /\ RetryOK(n) /\ rec.version \in Nat /\ call[n].from \in Nat
        /\ casRetries \in Nat
    BY KVFacts DEF KVInv, KVTypes, CallsInv, Records, Calls
  <2>2. rec.version > call[n].from + casRetries => rec.version - call[n].from > casRetries
    BY <2>1
  <2> QED BY <2>1, <2>2 DEF AnswerOK, RetryOK
<1> QED BY <1>1, CallsInvariant, PTL

\* A POST leaves OpenBao's hands only by being carried out or refused.
LEMMA PostsEnd ==
  ASSUME [Next]_vars, NEW r \in flight \ flight'
  PROVE  Stores(r) \/ Refuses(r)
<1>1. ASSUME NEW n \in Callers,
             HostGet(n) \/ HostWriteCourierKey(n) \/ Fails(n) \/ mountFor(n) \/ Reads(n)
               \/ Posts(n) \/ Answered(n)
      PROVE  flight \subseteq flight'
  BY <1>1 DEF HostGet, HostWriteCourierKey, Begin, Fails, mountFor, Reads, Posts, Answered
<1>2. ASSUME NEW s \in flight, Stores(s) \/ Refuses(s)
      PROVE  s = r
  BY <1>2 DEF Stores, Refuses
<1>3. Supervises \/ cachedMountExpires \/ Deletes \/ (\E f \in Fields : Changes(f)) \/ UNCHANGED vars
        => flight' = flight
  BY DEF Supervises, cachedMountExpires, Deletes, Changes, vars
<1> QED BY <1>1, <1>2, <1>3 DEF Next

\* On KV version 2 a Courier Key write, however late OpenBao carries it out, changes no other
\* field that is there and puts no older value over a newer one (WriteCourierKey).
THEOREM NoUpdateIsLost == FairSpec => NoLostUpdate
<1>1. KVInv /\ [Next]_vars =>
        [v2 => \A r \in flight \ flight' : \A f \in Fields :
           rec.fields[f] # Absent =>
             \/ rec'.fields[f] = rec.fields[f]
             \/ f = r.by /\ rec'.fields[f] > rec.fields[f]]_vars
  <2> SUFFICES ASSUME KVInv, [Next]_vars, v2, NEW r \in flight \ flight', NEW f \in Fields,
                      rec.fields[f] # Absent
               PROVE  \/ rec'.fields[f] = rec.fields[f]
                      \/ f = r.by /\ rec'.fields[f] > rec.fields[f]
    OBVIOUS
  <2>1. /\ CasOK(r) /\ rec.fields \in [Fields -> Contents] /\ r.num \in Nat
    BY DEF KVInv, KVTypes, FlightInv, Records, Writes
  <2>2. CASE Refuses(r)
    BY <2>2 DEF Refuses
  <2>3. CASE Stores(r)
    <3>1. r.cas = rec.version /\ rec'.fields = r.fields
      BY <2>3 DEF Stores, Accepts
    <3>2. CASE f # r.by
      BY <2>1, <3>1, <3>2 DEF CasOK
    <3>3. CASE f = r.by
      <4>1. rec.fields[f] \in Nat /\ rec.fields[f] <= r.num /\ rec'.fields[f] = r.num
        BY <2>1, <3>1, <3>3 DEF CasOK, Contents
      <4> QED BY <2>1, <3>3, <4>1
    <3> QED BY <3>2, <3>3
  <2> QED BY <2>2, <2>3, PostsEnd
<1> QED BY <1>1, CallsInvariant, PTL DEF FairSpec, NoLostUpdate
=============================================================================

----------------------------- MODULE OpenBaoKV -----------------------------
(***************************************************************************)
(* Calls of the server to the OpenBao Backend Plugin, from Host.Get and    *)
(* Host.WriteCourierKey (internal/pluginhost) through the SDK's client and *)
(* server (sdk/plugin) to the plugin's HTTP calls                          *)
(* (plugins/openbao/internal/openbao), over the supervised processes of    *)
(* PluginHost.                                                             *)
(*                                                                         *)
(* One KV record holds a field for each caller and one for somebody else.  *)
(* The value a call writes is the number of the call; 0 is a value that is *)
(* no Secret (not a string, empty or too long).  A POST is on its way from *)
(* the moment it is sent, and OpenBao may still carry it out after the     *)
(* caller's deadline or the death of the plugin that sent it.  OpenBao's   *)
(* reports on the plugin's own mount are a flag: cached or not.            *)
(***************************************************************************)
EXTENDS PluginHost

CONSTANTS
  Absent,      \* a field without a value
  Callers,     \* fields written through the plugin, one for each caller
  Other,       \* a field that others write
  casRetries,  \* how often a Courier Key write reads again
  MaxCalls,    \* bound: calls
  MaxVersion   \* bound: versions of the record

ASSUME KVAssumption ==
  /\ casRetries \in Nat /\ MaxCalls \in Nat /\ MaxVersion \in Nat
  /\ Other \notin Callers /\ Absent \notin Nat

VARIABLES
  v2,      \* the mount is KV version 2
  rec,     \* the record at OpenBao: its fields and its version
  flight,  \* POSTs OpenBao has not carried out yet
  mounts,  \* the process's cache of mounts holds this one
  count,   \* calls so far
  call     \* each caller's latest call

vars == <<hostVars, v2, rec, flight, mounts, count, call>>

Fields == Callers \cup {Other}
Values == 0 .. MaxCalls \cup {Absent}
Results == {"none", "value", "ok", "ErrNotFound", "ErrUnsupported", "ErrNotRunning", "error"}

TypeOK ==
  /\ HostTypeOK /\ v2 \in BOOLEAN /\ mounts \in BOOLEAN
  /\ rec \in [fields : [Fields -> Values], version : 0 .. MaxVersion]
  /\ flight \subseteq [by : Callers, num : 1 .. MaxCalls, fields : [Fields -> Values], cas : 0 .. MaxVersion]
  /\ count \in 0 .. MaxCalls
  /\ \A n \in Callers :
       /\ call[n].num \in 0 .. count /\ call[n].op \in {"get", "write"}
       /\ call[n].pc \in {"mount", "read", "post", "answer", "end"}
       /\ call[n].res \in Results /\ (call[n].res = "none" <=> call[n].pc # "end")

Nothing == [f \in Fields |-> Absent]
\* A record with no field left is no record.
NoRecord == [fields |-> Nothing, version |-> 0]
Missing(r) == r.fields = Nothing

Init ==
  /\ HostInit /\ v2 \in BOOLEAN /\ mounts = FALSE /\ flight = {} /\ count = 0
  /\ rec = NoRecord
  /\ call = [n \in Callers |-> [num |-> 0, op |-> "get", proc |-> NoClient, att |-> 0,
               pc |-> "end", res |-> "error", read |-> NoRecord, code |-> "none", got |-> Absent,
               saw |-> {}, from |-> 0, stored |-> FALSE]]

\* History kept with every call under way, for the properties: the values its field
\* had since the call began.
Witness(r) == [n \in Callers |->
                 IF call[n].pc = "end" THEN call[n]
                 ELSE [call[n] EXCEPT !.saw = @ \cup {r.fields[n]}]]

-----------------------------------------------------------------------------
\* (Faulty variants are named Bad...: each is a slip this code could have, and a
\* property at the end rejects it.)

\* What the plugin's error becomes on the wire.
toStatus(e) ==
  CASE e = "ErrNotFound" -> "NotFound" [] e = "ErrUnsupported" -> "Unimplemented"
    [] OTHER -> "Unavailable"

\* What the client makes of a code; gRPC's own codes are among the others.
callError(code) ==
  CASE code = "NotFound" -> "ErrNotFound" [] code = "Unimplemented" -> "ErrUnsupported"
    [] OTHER -> "error"

\* running: a call takes whatever client is there, which the supervisor may be killing.
Begin(n, op) ==
  /\ count < MaxCalls /\ call[n].pc = "end" /\ count' = count + 1
  /\ call' = [call EXCEPT ![n] =
       [@ EXCEPT !.num = count + 1, !.op = op, !.proc = client, !.att = 0, !.code = "none",
          !.pc = IF client = NoClient THEN "end" ELSE "mount",
          !.res = IF client = NoClient THEN "ErrNotRunning" ELSE "none",
          !.saw = {rec.fields[n]}, !.from = rec.version, !.stored = FALSE]]
  /\ UNCHANGED <<hostVars, v2, rec, flight, mounts>>

HostGet(n) == Begin(n, "get")
HostWriteCourierKey(n) == Begin(n, "write")

\* The handler of call n is at pc, in a process that runs.
At(n, pc) == call[n].pc = pc /\ call[n].proc \in alive

\* What the handler of call n returns reaches the caller.
Return(n, e) == [call EXCEPT ![n].pc = "end", ![n].proc = NoClient, ![n].read = NoRecord,
                  ![n].res = IF e \in {"value", "ok"} THEN e ELSE callError(toStatus(e))]

\* The caller's deadline (getTimeout) passes, or the process is gone.  The handler's
\* context is the caller's: no further HTTP call of it begins.
Fails(n) ==
  /\ call[n].pc # "end"
  /\ call' = [Return(n, "error") EXCEPT ![n].code = "none"]
  /\ UNCHANGED <<hostVars, v2, rec, flight, mounts, count>>

\* mountFor: the cached mount, or what OpenBao reports.
mountFor(n) ==
  /\ At(n, "mount")
  /\ \/ call' = [call EXCEPT ![n].pc = "read"] /\ mounts' = TRUE
     \/ ~mounts /\ call' = Return(n, "error") /\ UNCHANGED mounts
  /\ UNCHANGED <<hostVars, v2, rec, flight, count>>

\* cachedMount deletes an entry older than mountTTL.
cachedMountExpires ==
  /\ mounts /\ mounts' = FALSE
  /\ UNCHANGED <<hostVars, v2, rec, flight, call, count>>

\* A deleted record answers 404 with its version.  (v1 has none.)
BadVersion(status) == IF v2 /\ status = 200 THEN rec.version ELSE 0
Version(status) == IF v2 THEN rec.version ELSE 0

\* Answers that leave readRecord without a record.  A 404 with errors is a refused path.
BadUnread(status, errors) == status \notin {200, 404}
Unread(status, errors) == status \notin {200, 404} \/ (status = 404 /\ errors)

readRecord(status) ==
  [fields |-> IF status = 404 THEN Nothing ELSE rec.fields, version |-> Version(status)]

\* What Get returns for a record it has read.
Get(n, r) ==
  LET value == r.fields[n] IN
  IF value = Absent THEN "ErrNotFound" ELSE IF value = 0 THEN "error" ELSE "value"

\* One GET of the record, and what Get and WriteCourierKey do with the answer.  OpenBao
\* answers truly, refuses, or fails.
Reads(n) ==
  /\ At(n, "read")
  /\ \E status \in {200, 404, 500}, errors \in BOOLEAN :
       /\ status = 200 => ~Missing(rec) /\ ~errors
       /\ status = 404 /\ ~errors => Missing(rec)
       /\ LET r == readRecord(status) IN
          call' = IF Unread(status, errors) THEN Return(n, "error")
                  ELSE IF call[n].op = "get" THEN [Return(n, Get(n, r)) EXCEPT ![n].got = r.fields[n]]
                  ELSE [call EXCEPT ![n].pc = "post", ![n].read = r]
  /\ UNCHANGED <<hostVars, v2, rec, flight, mounts, count>>

\* The check is against the version of the moment, not the version read.
BadPosts(n) ==
  /\ At(n, "post") /\ call' = [call EXCEPT ![n].pc = "answer", ![n].code = "none"]
  /\ flight' = flight \cup {[by |-> n, num |-> call[n].num, cas |-> rec.version,
                             fields |-> [call[n].read.fields EXCEPT ![n] = call[n].num]]}
  /\ UNCHANGED <<hostVars, v2, rec, mounts, count>>

\* WriteCourierKey sends the fields it read with its own in place, and the version.
Posts(n) ==
  /\ At(n, "post") /\ call' = [call EXCEPT ![n].pc = "answer", ![n].code = "none"]
  /\ flight' = flight \cup {[by |-> n, num |-> call[n].num, cas |-> call[n].read.version,
                             fields |-> [call[n].read.fields EXCEPT ![n] = call[n].num]]}
  /\ UNCHANGED <<hostVars, v2, rec, mounts, count>>

\* OpenBao carries a POST out, or refuses it, or it is lost.
Waits(r) == call[r.by].num = r.num /\ call[r.by].pc = "answer"
Accepts(r) == ~v2 \/ r.cas = rec.version

Stores(r) ==
  /\ rec.version < MaxVersion /\ Accepts(r) /\ flight' = flight \ {r}
  /\ rec' = [fields |-> r.fields, version |-> rec.version + 1]
  /\ call' = IF Waits(r) THEN [Witness(rec') EXCEPT ![r.by].code = "200", ![r.by].stored = TRUE]
             ELSE Witness(rec')
  /\ UNCHANGED <<hostVars, v2, mounts, count>>

Refuses(r) ==
  /\ flight' = flight \ {r}
  /\ \E code \in {"500"} \cup (IF Accepts(r) THEN {} ELSE {"check-and-set"}) :
       call' = IF Waits(r) THEN [call EXCEPT ![r.by].code = code] ELSE call
  /\ UNCHANGED <<hostVars, v2, rec, mounts, count>>

\* WriteCourierKey has the answer: done, once more from the read, or an error.
Answered(n) ==
  /\ At(n, "answer") /\ call[n].code # "none"
  /\ call' = IF call[n].code = "200" THEN Return(n, "ok")
             ELSE IF v2 /\ call[n].code = "check-and-set" /\ call[n].att < casRetries
             THEN [call EXCEPT ![n].pc = "read", ![n].att = @ + 1, ![n].code = "none"]
             ELSE Return(n, "error")
  /\ UNCHANGED <<hostVars, v2, rec, flight, mounts, count>>

\* Somebody else writes a field with a check of his own, or deletes the record's latest
\* version; the record keeps its version number then.
Changes(f) ==
  /\ rec.version < MaxVersion /\ rec.fields[f] # 0
  /\ rec' = [fields |-> [rec.fields EXCEPT ![f] = 0], version |-> rec.version + 1]
  /\ call' = Witness(rec')
  /\ UNCHANGED <<hostVars, v2, flight, mounts, count>>

Deletes ==
  /\ ~Missing(rec) /\ rec' = [rec EXCEPT !.fields = Nothing] /\ call' = Witness(rec')
  /\ UNCHANGED <<hostVars, v2, flight, mounts, count>>

\* A step of the supervisor.  A new process has an empty cache.
Supervises ==
  /\ HostNext /\ mounts' = (mounts /\ launched' = launched)
  /\ UNCHANGED <<v2, rec, flight, call, count>>

Next ==
  \/ Supervises \/ cachedMountExpires \/ Deletes \/ \E f \in Fields : Changes(f)
  \/ \E n \in Callers :
       HostGet(n) \/ HostWriteCourierKey(n) \/ Fails(n) \/ mountFor(n) \/ Reads(n) \/ Posts(n) \/ Answered(n)
  \/ \E r \in flight : Stores(r) \/ Refuses(r)

\* The supervisor's goroutine runs; nothing is assumed of OpenBao or of the plugin.
FairSpec == Init /\ [][Next]_vars /\ HostFairness

-----------------------------------------------------------------------------
\* What the caller is told is true of OpenBao at some moment of the call: a missing value
\* (for which certmanager orders a certificate and the audit log makes a new key) was
\* missing, a value was there and a Secret, a write that succeeded was carried out, and
\* one that gave up on conflicts did so only after others changed the record more than
\* casRetries times while it ran (a deleted record, which keeps its version, can be written).
AnswersAreTrue ==
  \A n \in Callers :
    /\ call[n].res = "ErrNotFound" => call[n].op = "get" /\ Absent \in call[n].saw
    /\ call[n].res = "value" => call[n].got \in call[n].saw \ {Absent, 0}
    /\ call[n].res = "ok" => call[n].op = "write" /\ call[n].stored
    /\ call[n].res = "error" /\ call[n].code = "check-and-set" /\ call[n].att = casRetries
         => rec.version - call[n].from > casRetries

\* On KV version 2 a Courier Key write, however late OpenBao carries it out, changes no
\* other field that is there, and puts no older value over a newer one.
NoLostUpdate ==
  [][v2 => \A r \in flight \ flight' : \A f \in Fields :
       rec.fields[f] # Absent =>
         \/ rec'.fields[f] = rec.fields[f]
         \/ f = r.by /\ rec'.fields[f] > rec.fields[f]]_vars
=============================================================================

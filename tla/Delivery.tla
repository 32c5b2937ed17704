------------------------------ MODULE Delivery ------------------------------
(***************************************************************************)
(* The Agent API (internal/agentapi): Reveal and Proxy Deliveries, each    *)
(* with its one Audit Record, while the Operator revokes tokens and        *)
(* reloads the config, and until the server shuts down                     *)
(* (internal/httpserve, internal/server).                                  *)
(*                                                                         *)
(* A request's handler is a process.  The audit log is here only the       *)
(* answer of Ready and the records given to Append: AuditLog models it.    *)
(***************************************************************************)
EXTENDS PolicyRules

CONSTANTS
  Requests,    \* requests to the Agent API
  Tokens,      \* Agent Tokens
  TokenPolicies, \* the Policies each token was issued with
  Modes,       \* the Delivery modes each request may ask for
  Configs,     \* the configs a reload may put in effect
  SecretName, Method, Path,  \* what every request asks for
  MaxReloads   \* bound: config reloads

ASSUME DeliveryAssumption ==
  /\ Modes \in [Requests -> SUBSET {"reveal", "proxy"}]
  /\ MaxReloads \in Nat
  /\ "free" \notin Requests

VARIABLES
  confs,      \* the configs in effect so far; the last one is running
  cache,      \* s.snapshot: which config it was built from
  snapshotMu, \* the holder of snapshotMu, or "free"
  usable,     \* the tokens that are neither revoked nor expired
  phase,      \* the life of the server
  stopping,   \* s.stopping
  req,        \* each request's handler
  trail       \* the Audit Records given to Append, by request

vars == <<confs, cache, snapshotMu, usable, phase, stopping, req, trail>>

running == Len(confs)

\* A handler's variables, and what happens to its connection: "left" the Agent
\* went away, "cut" the server closed it, "unwritten" a write to the Agent failed,
\* "gone" the request's context is done.
NewRequest == [pc |-> "idle", mode |-> "none", token |-> "none", since |-> 0, snap |-> 0,
               decision |-> "none", failure |-> "none", out |-> FALSE,
               idle |-> FALSE, left |-> FALSE, cut |-> FALSE, unwritten |-> FALSE,
               gone |-> FALSE, complete |-> FALSE, revoked |-> FALSE]

Init ==
  /\ confs \in {<<c>> : c \in Configs} /\ cache = 1 /\ snapshotMu = "free"
  /\ usable = Tokens
  /\ phase = "serving" /\ stopping = FALSE
  /\ req = [q \in Requests |-> NewRequest]
  /\ trail = [q \in Requests |-> <<>>]

\* The handler has the read lock of inflight.
Inside(q) == req[q].pc \notin {"idle", "accepted", "done"}

Step(q, fields) == req' = [req EXCEPT ![q] = fields]

Others == <<confs, cache, snapshotMu, usable, phase, stopping, trail>>

-----------------------------------------------------------------------------
(***************************************************************************)
(* The Operator.                                                           *)
(***************************************************************************)
Reload(c) ==
  /\ phase = "serving" /\ running <= MaxReloads
  /\ confs' = Append(confs, c)
  /\ UNCHANGED <<cache, snapshotMu, usable, phase, stopping, req, trail>>

\* RevokeAgentToken, or the token's expiry.
Revoke(t) ==
  /\ t \in usable /\ usable' = usable \ {t}
  /\ UNCHANGED <<confs, cache, snapshotMu, phase, stopping, req, trail>>

-----------------------------------------------------------------------------
(***************************************************************************)
(* A request up to its decision.                                           *)
(***************************************************************************)
\* net/http accepts a request and starts its handler's goroutine.
Arrive(q, mode, t) ==
  /\ req[q].pc = "idle" /\ phase \in {"serving", "shutdown"}
  /\ Step(q, [req[q] EXCEPT !.pc = "accepted", !.mode = mode, !.token = t, !.since = running,
              !.revoked = t \notin usable])
  /\ UNCHANGED Others

\* The handler takes inflight's read lock, unless Serve waits for the lock.
Enter(q) ==
  /\ req[q].pc = "accepted" /\ phase \in {"serving", "shutdown"}
  /\ Step(q, [req[q] EXCEPT !.pc = "gate"])
  /\ UNCHANGED Others

\* requireAudit.  Reveal then authenticates first; Proxy takes its snapshot
\* first, since it says where tokens may be presented.
RequireAudit(q, ready) ==
  /\ req[q].pc = "gate"
  /\ Step(q, [req[q] EXCEPT !.pc = IF ~ready THEN "done"
                     ELSE IF req[q].mode = "reveal" THEN "auth" ELSE "snapshot"])
  /\ UNCHANGED Others

\* The token's use is recorded whether or not it was revoked.
BadAuthenticate(q) ==
  /\ req[q].pc = "auth"
  /\ Step(q, [req[q] EXCEPT !.pc = IF req[q].mode = "reveal" THEN "snapshot" ELSE "decide"])
  /\ UNCHANGED Others

\* AuthenticateAgentToken: one UPDATE checks the token and records its use.
Authenticate(q) ==
  /\ req[q].pc = "auth"
  /\ Step(q, IF req[q].token \in usable
             THEN [req[q] EXCEPT !.pc = IF req[q].mode = "reveal" THEN "snapshot" ELSE "decide"]
             ELSE [req[q] EXCEPT !.pc = "done"])
  /\ UNCHANGED Others

\* The token cannot be checked, or the Agent went away.
AuthenticateFails(q) ==
  /\ req[q].pc = "auth"
  /\ Step(q, [req[q] EXCEPT !.pc = "done"])
  /\ UNCHANGED Others

afterSnapshot(q) == IF req[q].mode = "reveal" THEN "decide" ELSE "auth"

\* currentSnapshot: the cached one, if it was built from the running config.
Snapshot(q) ==
  /\ req[q].pc = "snapshot"
  /\ Step(q, IF cache = running THEN [req[q] EXCEPT !.pc = afterSnapshot(q), !.snap = cache]
                                ELSE [req[q] EXCEPT !.pc = "rebuild", !.snap = running])
  /\ UNCHANGED Others

\* Under snapshotMu the running config is read again.
SnapshotLocks(q) ==
  /\ req[q].pc = "rebuild" /\ snapshotMu = "free"
  /\ IF cache = running
     THEN Step(q, [req[q] EXCEPT !.pc = afterSnapshot(q), !.snap = cache]) /\ UNCHANGED snapshotMu
     ELSE Step(q, [req[q] EXCEPT !.pc = "building", !.snap = running]) /\ snapshotMu' = q
  /\ UNCHANGED <<confs, cache, usable, phase, stopping, trail>>

SnapshotStores(q) ==
  /\ req[q].pc = "building"
  /\ cache' = req[q].snap /\ snapshotMu' = "free"
  /\ Step(q, [req[q] EXCEPT !.pc = afterSnapshot(q)])
  /\ UNCHANGED <<confs, usable, phase, stopping, trail>>

\* A Proxy request that asks for an upgrade or has a dot segment in its path.
RefuseRequest(q) ==
  /\ req[q].pc = "decide" /\ req[q].mode = "proxy"
  /\ Step(q, [req[q] EXCEPT !.pc = "record", !.decision = "denied"])
  /\ UNCHANGED Others

\* The decision of the snapshot's Policies.
allows(c, q) ==
  IF req[q].mode = "reveal"
  THEN Authorize(c, TokenPolicies[req[q].token], SecretName, "reveal").allowed
  ELSE /\ AuthorizeProxy(c, TokenPolicies[req[q].token], SecretName, Method, Path).allowed
       /\ SecretName \in c.upstreams

\* The decision is the running config's, and the rest the snapshot's.
BadDecide(q) ==
  /\ req[q].pc = "decide"
  /\ Step(q, IF allows(confs[running], q) THEN [req[q] EXCEPT !.pc = "resolve", !.decision = "allowed"]
                                          ELSE [req[q] EXCEPT !.pc = "record", !.decision = "denied"])
  /\ UNCHANGED Others

Decide(q) ==
  /\ req[q].pc = "decide"
  /\ Step(q, IF allows(confs[req[q].snap], q) THEN [req[q] EXCEPT !.pc = "resolve", !.decision = "allowed"]
                                              ELSE [req[q] EXCEPT !.pc = "record", !.decision = "denied"])
  /\ UNCHANGED Others

-----------------------------------------------------------------------------
(***************************************************************************)
(* The Delivery.                                                           *)
(***************************************************************************)
\* resolve (and for Proxy, render).  A Proxy Delivery sends the Secret on its way
\* from here on.
ResolveFails(q) ==
  /\ req[q].pc = "resolve"
  /\ Step(q, [req[q] EXCEPT !.pc = "record", !.failure = "not fetched"])
  /\ UNCHANGED Others

Resolve(q) ==
  /\ req[q].pc = "resolve"
  /\ Step(q, IF req[q].mode = "reveal" THEN [req[q] EXCEPT !.pc = "reveal"]
                                       ELSE [req[q] EXCEPT !.pc = "proxying", !.out = TRUE])
  /\ UNCHANGED Others

\* The Secret is written to the Agent, whole or in part.
WriteSecret(q, ok) ==
  /\ req[q].pc = "reveal"
  /\ Step(q, [req[q] EXCEPT !.pc = "record", !.out = TRUE, !.complete = ok,
              !.failure = IF ok THEN "none" ELSE "not written"])
  /\ UNCHANGED Others

proxied(q) == req[q].pc \in {"proxying", "responding"}

\* The idle timer fires and cancels the Delivery.
IdleFires(q) ==
  /\ proxied(q) /\ ~req[q].idle
  /\ Step(q, [req[q] EXCEPT !.idle = TRUE])
  /\ UNCHANGED Others

\* A Delivery that shutdown cuts off looks like one the Agent abandons.
Badblame(q, else) ==
  IF req[q].idle THEN "idle"
  ELSE IF req[q].gone THEN "abandoned"
  ELSE else

\* Why a Delivery was cancelled, in the order both handlers look.
blame(q, else) ==
  IF req[q].idle THEN "idle"
  ELSE IF req[q].gone /\ stopping THEN "shutdown"
  ELSE IF req[q].gone THEN "abandoned"
  ELSE else

\* ErrorHandler: there is no response to deliver.
ProxyErrors(q, unreadable) ==
  /\ req[q].pc = "proxying"
  /\ Step(q, [req[q] EXCEPT !.pc = "record",
              !.failure = IF unreadable THEN "unreadable" ELSE blame(q, "unreached")])
  /\ UNCHANGED Others

ProxyResponds(q) ==
  /\ req[q].pc = "proxying"
  /\ Step(q, [req[q] EXCEPT !.pc = "responding"])
  /\ UNCHANGED Others

\* A write to the Agent fails: it stopped reading for proxyWriteStall, it left, or the
\* connection was cut.  Interim responses are written before there is a response.
WriteToAgentFails(q) ==
  /\ proxied(q) /\ ~req[q].unwritten
  /\ Step(q, [req[q] EXCEPT !.unwritten = TRUE])
  /\ UNCHANGED Others

\* The response breaks off, or cannot be written: the handler panics, and its
\* deferred functions find the reason.  progressWriter keeps the error of a failed
\* Write or flush, not that of an interim response.
ProxyAborts(q, writeErr) ==
  /\ req[q].pc = "responding" /\ (writeErr => req[q].unwritten)
  /\ Step(q, [req[q] EXCEPT !.pc = "record",
              !.failure = blame(q, IF writeErr THEN "not written" ELSE "broke off")])
  /\ UNCHANGED Others

\* The response ends, and the bytes Redaction held back are written.
Finish(q, ok) ==
  /\ req[q].pc = "responding" /\ (ok => ~req[q].unwritten)
  /\ Step(q, [req[q] EXCEPT !.pc = "record", !.complete = ok])
  /\ UNCHANGED Others

\* A Delivery that the Agent did not wait for is not recorded.
BadRecord(q) ==
  /\ req[q].pc = "record"
  /\ trail' = IF req[q].gone THEN trail
              ELSE [trail EXCEPT ![q] = Append(@, [decision |-> req[q].decision,
                                                   failure |-> req[q].failure])]
  /\ Step(q, [req[q] EXCEPT !.pc = "done"])
  /\ UNCHANGED <<confs, cache, snapshotMu, usable, phase, stopping>>

\* record, deferred, and the read lock is released.
Record(q) ==
  /\ req[q].pc = "record"
  /\ trail' = [trail EXCEPT ![q] = Append(@, [decision |-> req[q].decision,
                                              failure |-> req[q].failure])]
  /\ Step(q, [req[q] EXCEPT !.pc = "done"])
  /\ UNCHANGED <<confs, cache, snapshotMu, usable, phase, stopping>>

\* The Agent goes away.  Earlier than this its departure has no effect but to
\* make a call of the handler fail, which any call may do.
Leave(q) ==
  /\ proxied(q) /\ ~req[q].left /\ ~req[q].cut
  /\ Step(q, [req[q] EXCEPT !.left = TRUE])
  /\ UNCHANGED Others

\* A closed connection ends the request's context, on HTTP/2 some time after writes to
\* it began to fail.  So does a write that fails, whoever is to blame: on HTTP/1.1 at
\* once, before the handler sees the error (external: net/http).
ContextEnds(q) ==
  /\ proxied(q) /\ (req[q].left \/ req[q].cut \/ req[q].unwritten) /\ ~req[q].gone
  /\ Step(q, [req[q] EXCEPT !.gone = TRUE])
  /\ UNCHANGED Others

-----------------------------------------------------------------------------
(***************************************************************************)
(* Shutdown: httpserve.Serve, then the Agent API's Serve, then Run's       *)
(* deferred calls in order.                                                *)
(***************************************************************************)
Become(p) ==
  /\ phase' = p
  /\ UNCHANGED <<confs, cache, snapshotMu, usable, stopping, req, trail>>

Signal == phase = "serving" /\ Become("shutdown")

\* The listener fails: Serve returns and waits for its handlers.
ListenerFails == phase = "serving" /\ Become("locking")

\* The function context.AfterFunc runs.
SetStopping ==
  /\ phase # "serving" /\ ~stopping /\ stopping' = TRUE
  /\ UNCHANGED <<confs, cache, snapshotMu, usable, phase, req, trail>>

\* Shutdown returns: no connection is active.
ShutdownEnds ==
  /\ phase = "shutdown" /\ \A q \in Requests : req[q].pc \in {"idle", "done"}
  /\ Become("locking")

\* Streams are waited for.
BadGraceEnds ==
  /\ phase = "shutdown" /\ stopping
  /\ phase' = "locking"
  /\ UNCHANGED <<confs, cache, snapshotMu, usable, stopping, req, trail>>

\* The grace period is over and the connections still open are closed; a handler
\* with only its record to write does not notice.  The grace period is seconds
\* long: AfterFunc's goroutine has run by then.
GraceEnds ==
  /\ phase = "shutdown" /\ stopping
  /\ phase' = "locking"
  /\ req' = [q \in Requests |-> IF req[q].pc \in {"idle", "record", "done"} THEN req[q]
                                ELSE [req[q] EXCEPT !.cut = TRUE]]
  /\ UNCHANGED <<confs, cache, snapshotMu, usable, stopping, trail>>

\* Serve does not wait for the handlers that Close cut off.
BadLocked == phase = "locking" /\ Become("drained")

\* inflight.Lock: no handler has the read lock, and none gets it from now on.
Locked == phase = "locking" /\ (\A q \in Requests : ~Inside(q)) /\ Become("drained")

\* auditLog.Close, secrets.Close, the plugins, db.Close.
unwinding == <<"drained", "audit closed", "cache closed", "plugins stopped", "closed">>

Unwind ==
  \E i \in 1 .. Len(unwinding) - 1 : phase = unwinding[i] /\ Become(unwinding[i + 1])

Finished == phase = "closed" /\ UNCHANGED vars

Handler(q) ==
  \/ Enter(q) \/ (\E ready \in BOOLEAN : RequireAudit(q, ready))
  \/ Authenticate(q) \/ AuthenticateFails(q)
  \/ Snapshot(q) \/ SnapshotLocks(q) \/ SnapshotStores(q)
  \/ RefuseRequest(q) \/ Decide(q) \/ ResolveFails(q) \/ Resolve(q)
  \/ \E ok \in BOOLEAN : WriteSecret(q, ok)
  \/ Record(q)

Proxy(q) ==
  \/ IdleFires(q) \/ ProxyResponds(q) \/ WriteToAgentFails(q)
  \/ \E b \in BOOLEAN : ProxyErrors(q, b) \/ ProxyAborts(q, b) \/ Finish(q, b)

Next ==
  \/ \E c \in Configs : Reload(c)
  \/ \E t \in Tokens : Revoke(t)
  \/ \E q \in Requests :
       \/ \E mode \in Modes[q], t \in Tokens : Arrive(q, mode, t)
       \/ Handler(q) \/ Proxy(q) \/ Leave(q) \/ ContextEnds(q)
  \/ Signal \/ ListenerFails \/ SetStopping \/ ShutdownEnds \/ GraceEnds \/ Locked
  \/ Unwind \/ Finished

Spec == Init /\ [][Next]_vars

(***************************************************************************)
(* Fairness.  Handlers run: their calls end, by an answer or a timeout.    *)
(* An Upstream may keep a Proxy Delivery open for ever; only a cancelled   *)
(* one is sure to end.  A closed connection ends the context.              *)
(***************************************************************************)
CancelledEnds(q) ==
  (req[q].idle \/ req[q].gone) /\ \E b \in BOOLEAN : ProxyErrors(q, b) \/ ProxyAborts(q, b)

Fairness ==
  /\ \A q \in Requests : /\ WF_vars(Handler(q)) /\ WF_vars(CancelledEnds(q))
                         /\ WF_vars((req[q].left \/ req[q].cut) /\ ContextEnds(q))
  /\ WF_vars(SetStopping) /\ WF_vars(ShutdownEnds \/ GraceEnds) /\ WF_vars(Locked)
  /\ WF_vars(Unwind)

FairSpec == Spec /\ Fairness

-----------------------------------------------------------------------------
Failures == {"none", "not fetched", "not written", "idle", "shutdown", "abandoned",
             "unreadable", "unreached", "broke off"}

\* The type invariant; snapshotMu has a holder exactly while a snapshot is built.
TypeOK ==
  /\ confs \in Seq(Configs) /\ cache \in 1 .. running
  /\ snapshotMu \in Requests \cup {"free"}
  /\ \A q \in Requests : req[q].pc = "building" <=> snapshotMu = q
  /\ usable \subseteq Tokens /\ stopping \in BOOLEAN
  /\ phase \in {"serving", "shutdown", "locking", "drained", "audit closed",
                "cache closed", "plugins stopped", "closed"}
  /\ \A q \in Requests : /\ req[q].failure \in Failures
                         /\ req[q].snap \in 0 .. running
                         /\ req[q].decision \in {"none", "allowed", "denied"}

\* Every Delivery attempt has exactly one Audit Record once its handler has
\* returned, and every Secret that left has one by the time the audit log is
\* closed, whatever shutdown, departing Agents and cancellations cut off
\* (record, inflight); and it says that the Agent abandoned the Delivery only when the
\* Agent left or a write to it failed, never for a cut by shutdown alone (blame).
EveryAttemptRecorded ==
  \A q \in Requests :
    /\ Len(trail[q]) <= 1
    /\ req[q].pc = "done" /\ req[q].decision # "none" => Len(trail[q]) = 1
    /\ req[q].out /\ phase \notin {"serving", "shutdown", "locking", "drained"}
         => Len(trail[q]) = 1
    /\ req[q].failure = "abandoned" => req[q].left \/ req[q].unwritten

\* What a handler uses outlives it: the audit log, the cache, the plugins and the
\* database are closed only when no handler runs, and none starts afterwards,
\* not even one accepted just before its connection was closed (Serve, Run).
ServicesOutliveHandlers ==
  phase \in {"drained", "audit closed", "cache closed", "plugins stopped", "closed"}
    => \A q \in Requests : ~Inside(q)

\* A Secret leaves only by a decision that its request's own snapshot makes, and
\* that snapshot is not older than the config in effect when the request
\* arrived: a reload never mixes two configs in one Delivery, and no Delivery
\* begun after it escapes it (currentSnapshot).
DecidedBySnapshot ==
  \A q \in Requests :
    /\ req[q].decision = "allowed" => allows(confs[req[q].snap], q)
    /\ req[q].out => req[q].snap >= req[q].since

\* A token revoked before a request arrives delivers nothing to it, however long
\* the request then waits.
RevocationHolds == \A q \in Requests : req[q].revoked => ~req[q].out

\* A Secret leaves only for a token that was good when the request arrived and by the
\* decision of one config, in effect at some moment of the request.
LeavesByRight == DecidedBySnapshot /\ RevocationHolds

\* A server told to stop stops, although an Upstream may stream for ever: what
\* outlasts the grace period is cut off, recorded and waited for.
ShutdownCompletes == (phase = "shutdown") ~> (phase = "closed")

-----------------------------------------------------------------------------
(***************************************************************************)
(* What the documentation says, and the code does not always do.           *)
(***************************************************************************)
\* README.md: a Proxy Delivery cut off at shutdown is "recorded with the failure
\* `cut off by server shutdown`" (unless the Upstream had already timed out).
CutOffIsRecordedAsShutdown ==
  \A q \in Requests :
    (/\ req[q].mode = "proxy" /\ req[q].cut /\ ~req[q].left
     /\ req[q].failure \in {"not written", "abandoned", "shutdown"})
      => req[q].failure = "shutdown"

\* docs/decisions/0015: an Agent that stops reading is to be told from one that goes
\* away: the reason is "the Agent's connection could not be written to", and "An Agent
\* that disconnects is logged as abandoning the Delivery".  The failed write ends the
\* context, and the context is looked at first.
OnlyLeaversAbandon ==
  \A q \in Requests : req[q].failure = "abandoned" => req[q].left

\* README.md: "failure" is "Why an allowed Delivery did not complete", so that an
\* allowed Delivery recorded without one did complete.
NoFailureMeansComplete ==
  \A q \in Requests :
    (trail[q] # <<>> /\ trail[q][1].decision = "allowed" /\ trail[q][1].failure = "none")
      => req[q].complete
=============================================================================

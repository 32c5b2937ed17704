--------------------------- MODULE DeliveryProofs ---------------------------
(***************************************************************************)
(* What holds of the Agent API for every instance: of Deliveries, for      *)
(* every set of requests, tokens, Policies and configs and every number of *)
(* reloads; of Redaction, for every body and every set of needles; and of  *)
(* the decisions that a Delivery rests on (Policies, paths, the request to *)
(* the Upstream and its response, the config file, the locations a Backend *)
(* lists), for every input of theirs.                                      *)
(*                                                                         *)
(* Induction over data goes by the least counterexample (LeastMember,      *)
(* Climb); FoldExists says what a fold over a sequence computes, WalkIs    *)
(* what the recursion through OpenBao's folders does.                      *)
(***************************************************************************)
EXTENDS Delivery, Redact, MCRequests, FiniteSetTheorems, SequenceTheorems, WellFoundedInduction, TLAPS

-----------------------------------------------------------------------------
(***************************************************************************)
(* Deliveries                                                              *)
(***************************************************************************)

Early == {"idle", "accepted", "gate", "auth", "snapshot", "rebuild", "building", "decide"}
Late  == {"resolve", "reveal", "proxying", "responding", "record"}

\* The types of a handler's variables.
ReqType ==
  [pc : Early \cup Late \cup {"done"}, mode : {"none", "reveal", "proxy"},
   token : Tokens \cup {"none"}, since : Nat, snap : Nat,
   decision : {"none", "allowed", "denied"}, failure : Failures, out : BOOLEAN,
   idle : BOOLEAN, left : BOOLEAN, cut : BOOLEAN, unwritten : BOOLEAN, gone : BOOLEAN,
   complete : BOOLEAN, revoked : BOOLEAN]

\* What holds of the variables shared by the handlers.
SharedOK ==
  /\ confs \in Seq(Configs) /\ cache \in 1 .. running
  /\ snapshotMu \in Requests \cup {"free"} /\ usable \subseteq Tokens /\ stopping \in BOOLEAN
  /\ phase \in {"serving", "shutdown", "locking", "drained", "audit closed",
                "cache closed", "plugins stopped", "closed"}
  /\ req \in [Requests -> ReqType]
  /\ DOMAIN trail = Requests

MutexOK == \A q \in Requests : req[q].pc = "building" <=> snapshotMu = q

\* A handler decides once and lets nothing out before; r is its variables.
Decided(r) ==
  /\ r.pc \in Early => r.decision = "none" /\ ~r.out /\ r.failure = "none"
  /\ r.pc \in Late => r.decision # "none"
  /\ r.pc \in Late \ {"record"} => r.decision = "allowed"
  /\ r.out => r.decision = "allowed"

\* Its record is given to Append at its end, t is what Append was given.
Recorded(r, t) ==
  /\ r.pc # "done" => t = <<>>
  /\ r.pc = "done" /\ r.decision = "none" => t = <<>>
  /\ r.pc = "done" /\ r.decision # "none" => Len(t) = 1

\* A context ends only for an Agent that left or could not be written to, or a server
\* that stops.
Blamed(r, stops) ==
  /\ r.gone => r.left \/ r.unwritten \/ r.cut
  /\ r.cut => stops
  /\ r.failure = "abandoned" => r.left \/ r.unwritten

\* The handler has its snapshot.
HasSnapshot(r) ==
  \/ r.pc \in {"rebuild", "building", "decide"} \cup Late
  \/ r.pc = "auth" /\ r.mode # "reveal"
  \/ r.decision # "none"

\* The decision of a config's Policies about the request of r.
AllowedBy(c, r) ==
  IF r.mode = "reveal"
  THEN Authorize(c, TokenPolicies[r.token], SecretName, "reveal").allowed
  ELSE /\ AuthorizeProxy(c, TokenPolicies[r.token], SecretName, Method, Path).allowed
       /\ SecretName \in c.upstreams

\* The snapshot was in effect when the request arrived or later, and made the
\* decision.
Snapped(r, C) ==
  /\ r.since <= Len(C) /\ r.snap <= Len(C)
  /\ HasSnapshot(r) => r.snap >= r.since /\ r.snap >= 1
  /\ r.decision = "allowed" => AllowedBy(C[r.snap], r)

\* The handler is past AuthenticateAgentToken.
Authenticated(r) ==
  \/ r.pc \in {"decide"} \cup Late
  \/ r.mode = "reveal" /\ r.pc \in {"snapshot", "rebuild", "building"}
  \/ r.decision # "none"

\* A token that was revoked when its request arrived gets no further.
Revoked(r, good) ==
  r.revoked => r.token \notin good /\ ~Authenticated(r)

HandlerOK(r, t, C, good, stops) ==
  Decided(r) /\ Recorded(r, t) /\ Blamed(r, stops) /\ Snapped(r, C) /\ Revoked(r, good)

DeliveryInv ==
  /\ SharedOK /\ MutexOK /\ ServicesOutliveHandlers
  /\ \A q \in Requests : HandlerOK(req[q], trail[q], confs, usable, stopping)

-----------------------------------------------------------------------------
(***************************************************************************)
(* A handler's own steps.                                                  *)
(***************************************************************************)
HandlerStep(q) ==
  \/ \E mode \in Modes[q], t \in Tokens : Arrive(q, mode, t)
  \/ Handler(q) \/ Proxy(q) \/ Leave(q) \/ ContextEnds(q)

\* What a handler's step comes to: r is what it makes of its variables, and only
\* the one that enters is not already inside.
Moves(q, r) ==
  /\ req' = [req EXCEPT ![q] = r] /\ r \in ReqType
  /\ UNCHANGED <<confs, usable, phase, stopping>>
  /\ \A p \in Requests \ {q} : trail'[p] = trail[p]
  /\ DOMAIN trail' = Requests
  /\ HandlerOK(r, trail'[q], confs, usable, stopping)
  /\ \/ Inside(q) \/ r.pc \in {"accepted", "done"} \/ phase \in {"serving", "shutdown"}

\* The snapshot cache and its lock.
LockMoves(q, r) ==
  \/ UNCHANGED <<cache, snapshotMu>> /\ (r.pc = "building" <=> req[q].pc = "building")
  \/ /\ snapshotMu = "free" /\ snapshotMu' = q /\ r.pc = "building" /\ cache' = cache
  \/ /\ req[q].pc = "building" /\ snapshotMu' = "free" /\ r.pc # "building" /\ cache' = req[q].snap

\* The decision of the code is a function of the handler's variables.
LEMMA AllowsIs == \A c, q : allows(c, q) <=> AllowedBy(c, req[q])
BY DEF allows, AllowedBy

\* A step that leaves the snapshots, the lock and the records alone is sound when
\* it leaves its handler's variables so.
LEMMA PlainStep ==
  ASSUME DeliveryInv, NEW q \in Requests, NEW r \in ReqType, Step(q, r), UNCHANGED Others,
         HandlerOK(r, trail[q], confs, usable, stopping),
         r.pc = "building" <=> req[q].pc = "building",
         Inside(q) \/ r.pc \in {"accepted", "done"} \/ phase \in {"serving", "shutdown"}
  PROVE  Moves(q, r) /\ LockMoves(q, r)
BY DEF DeliveryInv, SharedOK, Moves, LockMoves, Step, Others

\* The steps of a handler that touch nothing else.
LEMMA PlainMoves ==
  ASSUME DeliveryInv, NEW q \in Requests, HandlerStep(q),
         ~(Snapshot(q) \/ SnapshotLocks(q) \/ SnapshotStores(q) \/ Decide(q) \/ Record(q))
  PROVE  \E r : Moves(q, r) /\ LockMoves(q, r)
<1>0. /\ req[q] \in ReqType /\ running \in Nat /\ running >= 1
      /\ HandlerOK(req[q], trail[q], confs, usable, stopping)
      /\ Modes[q] \subseteq {"reveal", "proxy"}
  <2>1. Modes[q] \subseteq {"reveal", "proxy"}
    BY DeliveryAssumption DEF DeliveryAssumption
  <2>2. confs \in Seq(Configs) /\ cache \in 1 .. running /\ req[q] \in ReqType
        /\ HandlerOK(req[q], trail[q], confs, usable, stopping)
    BY DEF DeliveryInv, SharedOK
  <2>3. running \in Nat
    BY <2>2 DEF running
  <2> QED BY <2>1, <2>2, <2>3
<1> USE DEF Inside, Step
<1>1. ASSUME NEW mode \in Modes[q], NEW t \in Tokens, Arrive(q, mode, t)
      PROVE  \E r : Moves(q, r) /\ LockMoves(q, r)
  <2> DEFINE r == [req[q] EXCEPT !.pc = "accepted", !.mode = mode, !.token = t, !.since = running,
                               !.revoked = t \notin usable]
  <2>1. Step(q, r) /\ UNCHANGED Others
    BY <1>1 DEF Arrive
  <2>2. r \in ReqType
    BY <1>0, <1>1, ZenonT(60) DEF Arrive, ReqType, Early, Late, Failures
  <2>3. HandlerOK(r, trail[q], confs, usable, stopping)
    <3>1. Decided(r) /\ Recorded(r, trail[q]) /\ Blamed(r, stopping)
      BY <1>0, <1>1
      DEF Arrive, HandlerOK, Decided, Recorded, Blamed, ReqType, Early, Late
    <3>2. Snapped(r, confs)
      BY <1>0, <1>1
      DEF Arrive, HandlerOK, Decided, Snapped, HasSnapshot, AllowedBy, ReqType, Early, Late, running
    <3>3. Revoked(r, usable)
      BY <1>0, <1>1
      DEF Arrive, HandlerOK, Decided, Revoked, Authenticated, ReqType, Early, Late
    <3> QED BY <3>1, <3>2, <3>3 DEF HandlerOK
  <2>4. /\ r.pc = "building" <=> req[q].pc = "building"
        /\ Inside(q) \/ r.pc \in {"accepted", "done"} \/ phase \in {"serving", "shutdown"}
    BY <1>0, <1>1 DEF Arrive, ReqType
  <2> HIDE DEF r
  <2>5. Moves(q, r) /\ LockMoves(q, r)
    BY <2>1, <2>2, <2>3, <2>4, PlainStep
  <2> QED BY <2>5
<1>2. ASSUME Enter(q)
      PROVE  \E r : Moves(q, r) /\ LockMoves(q, r)
  <2> DEFINE r == [req[q] EXCEPT !.pc = "gate"]
  <2>1. Step(q, r) /\ UNCHANGED Others
    BY <1>2 DEF Enter
  <2>2. r \in ReqType
    BY <1>0, <1>2 DEF Enter, ReqType, Early, Late, Failures
  <2>3. HandlerOK(r, trail[q], confs, usable, stopping)
    <3>1. Decided(r) /\ Recorded(r, trail[q]) /\ Blamed(r, stopping)
      BY <1>0, <1>2
      DEF Enter, HandlerOK, Decided, Recorded, Blamed, ReqType, Early, Late
    <3>2. Snapped(r, confs)
      BY <1>0, <1>2
      DEF Enter, HandlerOK, Decided, Snapped, HasSnapshot, AllowedBy, ReqType, Early, Late, running
    <3>3. Revoked(r, usable)
      BY <1>0, <1>2
      DEF Enter, HandlerOK, Decided, Revoked, Authenticated, ReqType, Early, Late
    <3> QED BY <3>1, <3>2, <3>3 DEF HandlerOK
  <2>4. /\ r.pc = "building" <=> req[q].pc = "building"
        /\ Inside(q) \/ r.pc \in {"accepted", "done"} \/ phase \in {"serving", "shutdown"}
    BY <1>0, <1>2 DEF Enter, ReqType
  <2> HIDE DEF r
  <2>5. Moves(q, r) /\ LockMoves(q, r)
    BY <2>1, <2>2, <2>3, <2>4, PlainStep
  <2> QED BY <2>5
<1>3. ASSUME NEW ready \in BOOLEAN, RequireAudit(q, ready)
      PROVE  \E r : Moves(q, r) /\ LockMoves(q, r)
  <2> DEFINE r == [req[q] EXCEPT !.pc = IF ~ready THEN "done"
                     ELSE IF req[q].mode = "reveal" THEN "auth" ELSE "snapshot"]
  <2>1. Step(q, r) /\ UNCHANGED Others
    BY <1>3 DEF RequireAudit
  <2>2. r \in ReqType
    BY <1>0, <1>3 DEF RequireAudit, ReqType, Early, Late, Failures
  <2>3. HandlerOK(r, trail[q], confs, usable, stopping)
    <3>1. Decided(r) /\ Recorded(r, trail[q]) /\ Blamed(r, stopping)
      BY <1>0, <1>3
      DEF RequireAudit, HandlerOK, Decided, Recorded, Blamed, ReqType, Early, Late
    <3>2. Snapped(r, confs)
      BY <1>0, <1>3
      DEF RequireAudit, HandlerOK, Decided, Snapped, HasSnapshot, AllowedBy, ReqType, Early, Late, running
    <3>3. Revoked(r, usable)
      BY <1>0, <1>3
      DEF RequireAudit, HandlerOK, Decided, Revoked, Authenticated, ReqType, Early, Late
    <3> QED BY <3>1, <3>2, <3>3 DEF HandlerOK
  <2>4. /\ r.pc = "building" <=> req[q].pc = "building"
        /\ Inside(q) \/ r.pc \in {"accepted", "done"} \/ phase \in {"serving", "shutdown"}
    BY <1>0, <1>3 DEF RequireAudit, ReqType
  <2> HIDE DEF r
  <2>5. Moves(q, r) /\ LockMoves(q, r)
    BY <2>1, <2>2, <2>3, <2>4, PlainStep
  <2> QED BY <2>5
<1>4. ASSUME Authenticate(q)
      PROVE  \E r : Moves(q, r) /\ LockMoves(q, r)
  <2> DEFINE r == IF req[q].token \in usable
             THEN [req[q] EXCEPT !.pc = IF req[q].mode = "reveal" THEN "snapshot" ELSE "decide"]
             ELSE [req[q] EXCEPT !.pc = "done"]
  <2>1. Step(q, r) /\ UNCHANGED Others
    BY <1>4 DEF Authenticate
  <2>2. r \in ReqType
    BY <1>0, <1>4 DEF Authenticate, ReqType, Early, Late, Failures
  <2>3. HandlerOK(r, trail[q], confs, usable, stopping)
    <3>1. Decided(r) /\ Recorded(r, trail[q]) /\ Blamed(r, stopping)
      BY <1>0, <1>4
      DEF Authenticate, HandlerOK, Decided, Recorded, Blamed, ReqType, Early, Late
    <3>2. Snapped(r, confs)
      BY <1>0, <1>4
      DEF Authenticate, HandlerOK, Decided, Snapped, HasSnapshot, AllowedBy, ReqType, Early, Late, running
    <3>3. Revoked(r, usable)
      BY <1>0, <1>4
      DEF Authenticate, HandlerOK, Decided, Revoked, Authenticated, ReqType, Early, Late
    <3> QED BY <3>1, <3>2, <3>3 DEF HandlerOK
  <2>4. /\ r.pc = "building" <=> req[q].pc = "building"
        /\ Inside(q) \/ r.pc \in {"accepted", "done"} \/ phase \in {"serving", "shutdown"}
    BY <1>0, <1>4 DEF Authenticate, ReqType
  <2> HIDE DEF r
  <2>5. Moves(q, r) /\ LockMoves(q, r)
    BY <2>1, <2>2, <2>3, <2>4, PlainStep
  <2> QED BY <2>5
<1>5. ASSUME AuthenticateFails(q)
      PROVE  \E r : Moves(q, r) /\ LockMoves(q, r)
  <2> DEFINE r == [req[q] EXCEPT !.pc = "done"]
  <2>1. Step(q, r) /\ UNCHANGED Others
    BY <1>5 DEF AuthenticateFails
  <2>2. r \in ReqType
    BY <1>0, <1>5 DEF AuthenticateFails, ReqType, Early, Late, Failures
  <2>3. HandlerOK(r, trail[q], confs, usable, stopping)
    <3>1. Decided(r) /\ Recorded(r, trail[q]) /\ Blamed(r, stopping)
      BY <1>0, <1>5
      DEF AuthenticateFails, HandlerOK, Decided, Recorded, Blamed, ReqType, Early, Late
    <3>2. Snapped(r, confs)
      BY <1>0, <1>5
      DEF AuthenticateFails, HandlerOK, Decided, Snapped, HasSnapshot, AllowedBy, ReqType, Early, Late, running
    <3>3. Revoked(r, usable)
      BY <1>0, <1>5
      DEF AuthenticateFails, HandlerOK, Decided, Revoked, Authenticated, ReqType, Early, Late
    <3> QED BY <3>1, <3>2, <3>3 DEF HandlerOK
  <2>4. /\ r.pc = "building" <=> req[q].pc = "building"
        /\ Inside(q) \/ r.pc \in {"accepted", "done"} \/ phase \in {"serving", "shutdown"}
    BY <1>0, <1>5 DEF AuthenticateFails, ReqType
  <2> HIDE DEF r
  <2>5. Moves(q, r) /\ LockMoves(q, r)
    BY <2>1, <2>2, <2>3, <2>4, PlainStep
  <2> QED BY <2>5
<1>6. ASSUME RefuseRequest(q)
      PROVE  \E r : Moves(q, r) /\ LockMoves(q, r)
  <2> DEFINE r == [req[q] EXCEPT !.pc = "record", !.decision = "denied"]
  <2>1. Step(q, r) /\ UNCHANGED Others
    BY <1>6 DEF RefuseRequest
  <2>2. r \in ReqType
    BY <1>0, <1>6 DEF RefuseRequest, ReqType, Early, Late, Failures
  <2>3. HandlerOK(r, trail[q], confs, usable, stopping)
    <3>1. Decided(r) /\ Recorded(r, trail[q]) /\ Blamed(r, stopping)
      BY <1>0, <1>6
      DEF RefuseRequest, HandlerOK, Decided, Recorded, Blamed, ReqType, Early, Late
    <3>2. Snapped(r, confs)
      BY <1>0, <1>6
      DEF RefuseRequest, HandlerOK, Decided, Snapped, HasSnapshot, AllowedBy, ReqType, Early, Late, running
    <3>3. Revoked(r, usable)
      BY <1>0, <1>6
      DEF RefuseRequest, HandlerOK, Decided, Revoked, Authenticated, ReqType, Early, Late
    <3> QED BY <3>1, <3>2, <3>3 DEF HandlerOK
  <2>4. /\ r.pc = "building" <=> req[q].pc = "building"
        /\ Inside(q) \/ r.pc \in {"accepted", "done"} \/ phase \in {"serving", "shutdown"}
    BY <1>0, <1>6 DEF RefuseRequest, ReqType
  <2> HIDE DEF r
  <2>5. Moves(q, r) /\ LockMoves(q, r)
    BY <2>1, <2>2, <2>3, <2>4, PlainStep
  <2> QED BY <2>5
<1>7. ASSUME ResolveFails(q)
      PROVE  \E r : Moves(q, r) /\ LockMoves(q, r)
  <2> DEFINE r == [req[q] EXCEPT !.pc = "record", !.failure = "not fetched"]
  <2>1. Step(q, r) /\ UNCHANGED Others
    BY <1>7 DEF ResolveFails
  <2>2. r \in ReqType
    BY <1>0, <1>7 DEF ResolveFails, ReqType, Early, Late, Failures
  <2>3. HandlerOK(r, trail[q], confs, usable, stopping)
    <3>1. Decided(r) /\ Recorded(r, trail[q]) /\ Blamed(r, stopping)
      BY <1>0, <1>7
      DEF ResolveFails, HandlerOK, Decided, Recorded, Blamed, ReqType, Early, Late
    <3>2. Snapped(r, confs)
      BY <1>0, <1>7
      DEF ResolveFails, HandlerOK, Decided, Snapped, HasSnapshot, AllowedBy, ReqType, Early, Late, running
    <3>3. Revoked(r, usable)
      BY <1>0, <1>7
      DEF ResolveFails, HandlerOK, Decided, Revoked, Authenticated, ReqType, Early, Late
    <3> QED BY <3>1, <3>2, <3>3 DEF HandlerOK
  <2>4. /\ r.pc = "building" <=> req[q].pc = "building"
        /\ Inside(q) \/ r.pc \in {"accepted", "done"} \/ phase \in {"serving", "shutdown"}
    BY <1>0, <1>7 DEF ResolveFails, ReqType
  <2> HIDE DEF r
  <2>5. Moves(q, r) /\ LockMoves(q, r)
    BY <2>1, <2>2, <2>3, <2>4, PlainStep
  <2> QED BY <2>5
<1>8. ASSUME Resolve(q)
      PROVE  \E r : Moves(q, r) /\ LockMoves(q, r)
  <2> DEFINE r == IF req[q].mode = "reveal" THEN [req[q] EXCEPT !.pc = "reveal"]
                                       ELSE [req[q] EXCEPT !.pc = "proxying", !.out = TRUE]
  <2>1. Step(q, r) /\ UNCHANGED Others
    BY <1>8 DEF Resolve
  <2>2. r \in ReqType
    BY <1>0, <1>8 DEF Resolve, ReqType, Early, Late, Failures
  <2>3. HandlerOK(r, trail[q], confs, usable, stopping)
    <3>1. Decided(r) /\ Recorded(r, trail[q]) /\ Blamed(r, stopping)
      BY <1>0, <1>8
      DEF Resolve, HandlerOK, Decided, Recorded, Blamed, ReqType, Early, Late
    <3>2. Snapped(r, confs)
      BY <1>0, <1>8
      DEF Resolve, HandlerOK, Decided, Snapped, HasSnapshot, AllowedBy, ReqType, Early, Late, running
    <3>3. Revoked(r, usable)
      BY <1>0, <1>8
      DEF Resolve, HandlerOK, Decided, Revoked, Authenticated, ReqType, Early, Late
    <3> QED BY <3>1, <3>2, <3>3 DEF HandlerOK
  <2>4. /\ r.pc = "building" <=> req[q].pc = "building"
        /\ Inside(q) \/ r.pc \in {"accepted", "done"} \/ phase \in {"serving", "shutdown"}
    BY <1>0, <1>8 DEF Resolve, ReqType
  <2> HIDE DEF r
  <2>5. Moves(q, r) /\ LockMoves(q, r)
    BY <2>1, <2>2, <2>3, <2>4, PlainStep
  <2> QED BY <2>5
<1>9. ASSUME NEW ok \in BOOLEAN, WriteSecret(q, ok)
      PROVE  \E r : Moves(q, r) /\ LockMoves(q, r)
  <2> DEFINE r == [req[q] EXCEPT !.pc = "record", !.out = TRUE, !.complete = ok,
              !.failure = IF ok THEN "none" ELSE "not written"]
  <2>1. Step(q, r) /\ UNCHANGED Others
    BY <1>9 DEF WriteSecret
  <2>2. r \in ReqType
    BY <1>0, <1>9, ZenonT(60) DEF WriteSecret, ReqType, Early, Late, Failures
  <2>3. HandlerOK(r, trail[q], confs, usable, stopping)
    <3>1. Decided(r) /\ Recorded(r, trail[q]) /\ Blamed(r, stopping)
      BY <1>0, <1>9
      DEF WriteSecret, HandlerOK, Decided, Recorded, Blamed, ReqType, Early, Late
    <3>2. Snapped(r, confs)
      BY <1>0, <1>9
      DEF WriteSecret, HandlerOK, Decided, Snapped, HasSnapshot, AllowedBy, ReqType, Early, Late, running
    <3>3. Revoked(r, usable)
      BY <1>0, <1>9
      DEF WriteSecret, HandlerOK, Decided, Revoked, Authenticated, ReqType, Early, Late
    <3> QED BY <3>1, <3>2, <3>3 DEF HandlerOK
  <2>4. /\ r.pc = "building" <=> req[q].pc = "building"
        /\ Inside(q) \/ r.pc \in {"accepted", "done"} \/ phase \in {"serving", "shutdown"}
    BY <1>0, <1>9 DEF WriteSecret, ReqType
  <2> HIDE DEF r
  <2>5. Moves(q, r) /\ LockMoves(q, r)
    BY <2>1, <2>2, <2>3, <2>4, PlainStep
  <2> QED BY <2>5
<1>10. ASSUME IdleFires(q)
      PROVE  \E r : Moves(q, r) /\ LockMoves(q, r)
  <2> DEFINE r == [req[q] EXCEPT !.idle = TRUE]
  <2>1. Step(q, r) /\ UNCHANGED Others
    BY <1>10 DEF IdleFires, proxied
  <2>2. r \in ReqType
    BY <1>0, <1>10 DEF IdleFires, proxied, ReqType, Early, Late, Failures
  <2>3. HandlerOK(r, trail[q], confs, usable, stopping)
    <3>1. Decided(r) /\ Recorded(r, trail[q]) /\ Blamed(r, stopping)
      BY <1>0, <1>10
      DEF IdleFires, proxied, HandlerOK, Decided, Recorded, Blamed, ReqType, Early, Late
    <3>2. Snapped(r, confs)
      BY <1>0, <1>10
      DEF IdleFires, proxied, HandlerOK, Decided, Snapped, HasSnapshot, AllowedBy, ReqType, Early, Late, running
    <3>3. Revoked(r, usable)
      BY <1>0, <1>10
      DEF IdleFires, proxied, HandlerOK, Decided, Revoked, Authenticated, ReqType, Early, Late
    <3> QED BY <3>1, <3>2, <3>3 DEF HandlerOK
  <2>4. /\ r.pc = "building" <=> req[q].pc = "building"
        /\ Inside(q) \/ r.pc \in {"accepted", "done"} \/ phase \in {"serving", "shutdown"}
    BY <1>0, <1>10 DEF IdleFires, proxied, ReqType
  <2> HIDE DEF r
  <2>5. Moves(q, r) /\ LockMoves(q, r)
    BY <2>1, <2>2, <2>3, <2>4, PlainStep
  <2> QED BY <2>5
<1>11. ASSUME ProxyResponds(q)
      PROVE  \E r : Moves(q, r) /\ LockMoves(q, r)
  <2> DEFINE r == [req[q] EXCEPT !.pc = "responding"]
  <2>1. Step(q, r) /\ UNCHANGED Others
    BY <1>11 DEF ProxyResponds
  <2>2. r \in ReqType
    BY <1>0, <1>11 DEF ProxyResponds, ReqType, Early, Late, Failures
  <2>3. HandlerOK(r, trail[q], confs, usable, stopping)
    <3>1. Decided(r) /\ Recorded(r, trail[q]) /\ Blamed(r, stopping)
      BY <1>0, <1>11
      DEF ProxyResponds, HandlerOK, Decided, Recorded, Blamed, ReqType, Early, Late
    <3>2. Snapped(r, confs)
      BY <1>0, <1>11
      DEF ProxyResponds, HandlerOK, Decided, Snapped, HasSnapshot, AllowedBy, ReqType, Early, Late, running
    <3>3. Revoked(r, usable)
      BY <1>0, <1>11
      DEF ProxyResponds, HandlerOK, Decided, Revoked, Authenticated, ReqType, Early, Late
    <3> QED BY <3>1, <3>2, <3>3 DEF HandlerOK
  <2>4. /\ r.pc = "building" <=> req[q].pc = "building"
        /\ Inside(q) \/ r.pc \in {"accepted", "done"} \/ phase \in {"serving", "shutdown"}
    BY <1>0, <1>11 DEF ProxyResponds, ReqType
  <2> HIDE DEF r
  <2>5. Moves(q, r) /\ LockMoves(q, r)
    BY <2>1, <2>2, <2>3, <2>4, PlainStep
  <2> QED BY <2>5
<1>12. ASSUME NEW b \in BOOLEAN, ProxyErrors(q, b)
      PROVE  \E r : Moves(q, r) /\ LockMoves(q, r)
  <2> DEFINE r == [req[q] EXCEPT !.pc = "record",
              !.failure = IF b THEN "unreadable" ELSE blame(q, "unreached")]
  <2>b. /\ blame(q, "unreached") \in Failures /\ blame(q, "not written") \in Failures
        /\ blame(q, "broke off") \in Failures
        /\ \A x \in {"unreached", "not written", "broke off"} :
             blame(q, x) = "abandoned" => req[q].left \/ req[q].unwritten
    BY <1>0 DEF blame, Failures, HandlerOK, Blamed, ReqType
  <2>1. Step(q, r) /\ UNCHANGED Others
    BY <1>12 DEF ProxyErrors
  <2>2. r \in ReqType
    BY <1>0, <1>12, <2>b, ZenonT(60) DEF ProxyErrors, ReqType, Early, Late, Failures
  <2>3. HandlerOK(r, trail[q], confs, usable, stopping)
    <3>1. Decided(r) /\ Recorded(r, trail[q]) /\ Blamed(r, stopping)
      BY <1>0, <1>12, <2>b
      DEF ProxyErrors, HandlerOK, Decided, Recorded, Blamed, ReqType, Early, Late
    <3>2. Snapped(r, confs)
      BY <1>0, <1>12, <2>b
      DEF ProxyErrors, HandlerOK, Decided, Snapped, HasSnapshot, AllowedBy, ReqType, Early, Late, running
    <3>3. Revoked(r, usable)
      BY <1>0, <1>12, <2>b
      DEF ProxyErrors, HandlerOK, Decided, Revoked, Authenticated, ReqType, Early, Late
    <3> QED BY <3>1, <3>2, <3>3 DEF HandlerOK
  <2>4. /\ r.pc = "building" <=> req[q].pc = "building"
        /\ Inside(q) \/ r.pc \in {"accepted", "done"} \/ phase \in {"serving", "shutdown"}
    BY <1>0, <1>12 DEF ProxyErrors, ReqType
  <2> HIDE DEF r
  <2>5. Moves(q, r) /\ LockMoves(q, r)
    BY <2>1, <2>2, <2>3, <2>4, PlainStep
  <2> QED BY <2>5
<1>13. ASSUME NEW b \in BOOLEAN, ProxyAborts(q, b)
      PROVE  \E r : Moves(q, r) /\ LockMoves(q, r)
  <2> DEFINE r == [req[q] EXCEPT !.pc = "record",
              !.failure = blame(q, IF b THEN "not written" ELSE "broke off")]
  <2>b. /\ blame(q, "unreached") \in Failures /\ blame(q, "not written") \in Failures
        /\ blame(q, "broke off") \in Failures
        /\ \A x \in {"unreached", "not written", "broke off"} :
             blame(q, x) = "abandoned" => req[q].left \/ req[q].unwritten
    BY <1>0 DEF blame, Failures, HandlerOK, Blamed, ReqType
  <2>1. Step(q, r) /\ UNCHANGED Others
    BY <1>13 DEF ProxyAborts
  <2>2. r \in ReqType
    <3> DEFINE f == blame(q, IF b THEN "not written" ELSE "broke off")
    <3>1. f \in Failures
      BY <2>b
    <3> HIDE DEF f
    <3>2. [req[q] EXCEPT !.pc = "record", !.failure = f] \in ReqType
      BY <1>0, <3>1 DEF ReqType, Late
    <3> QED BY <3>2 DEF f
  <2>3. HandlerOK(r, trail[q], confs, usable, stopping)
    <3>1. Decided(r) /\ Recorded(r, trail[q]) /\ Blamed(r, stopping)
      BY <1>0, <1>13, <2>b
      DEF ProxyAborts, HandlerOK, Decided, Recorded, Blamed, ReqType, Early, Late
    <3>2. Snapped(r, confs)
      BY <1>0, <1>13, <2>b
      DEF ProxyAborts, HandlerOK, Decided, Snapped, HasSnapshot, AllowedBy, ReqType, Early, Late, running
    <3>3. Revoked(r, usable)
      BY <1>0, <1>13, <2>b
      DEF ProxyAborts, HandlerOK, Decided, Revoked, Authenticated, ReqType, Early, Late
    <3> QED BY <3>1, <3>2, <3>3 DEF HandlerOK
  <2>4. /\ r.pc = "building" <=> req[q].pc = "building"
        /\ Inside(q) \/ r.pc \in {"accepted", "done"} \/ phase \in {"serving", "shutdown"}
    BY <1>0, <1>13 DEF ProxyAborts, ReqType
  <2> HIDE DEF r
  <2>5. Moves(q, r) /\ LockMoves(q, r)
    BY <2>1, <2>2, <2>3, <2>4, PlainStep
  <2> QED BY <2>5
<1>14. ASSUME NEW b \in BOOLEAN, Finish(q, b)
      PROVE  \E r : Moves(q, r) /\ LockMoves(q, r)
  <2> DEFINE r == [req[q] EXCEPT !.pc = "record", !.complete = b]
  <2>1. Step(q, r) /\ UNCHANGED Others
    BY <1>14 DEF Finish
  <2>2. r \in ReqType
    BY <1>0, <1>14 DEF Finish, ReqType, Early, Late, Failures
  <2>3. HandlerOK(r, trail[q], confs, usable, stopping)
    <3>1. Decided(r) /\ Recorded(r, trail[q]) /\ Blamed(r, stopping)
      BY <1>0, <1>14
      DEF Finish, HandlerOK, Decided, Recorded, Blamed, ReqType, Early, Late
    <3>2. Snapped(r, confs)
      BY <1>0, <1>14
      DEF Finish, HandlerOK, Decided, Snapped, HasSnapshot, AllowedBy, ReqType, Early, Late, running
    <3>3. Revoked(r, usable)
      BY <1>0, <1>14
      DEF Finish, HandlerOK, Decided, Revoked, Authenticated, ReqType, Early, Late
    <3> QED BY <3>1, <3>2, <3>3 DEF HandlerOK
  <2>4. /\ r.pc = "building" <=> req[q].pc = "building"
        /\ Inside(q) \/ r.pc \in {"accepted", "done"} \/ phase \in {"serving", "shutdown"}
    BY <1>0, <1>14 DEF Finish, ReqType
  <2> HIDE DEF r
  <2>5. Moves(q, r) /\ LockMoves(q, r)
    BY <2>1, <2>2, <2>3, <2>4, PlainStep
  <2> QED BY <2>5
<1>15. ASSUME Leave(q)
      PROVE  \E r : Moves(q, r) /\ LockMoves(q, r)
  <2> DEFINE r == [req[q] EXCEPT !.left = TRUE]
  <2>1. Step(q, r) /\ UNCHANGED Others
    BY <1>15 DEF Leave, proxied
  <2>2. r \in ReqType
    BY <1>0, <1>15 DEF Leave, proxied, ReqType, Early, Late, Failures
  <2>3. HandlerOK(r, trail[q], confs, usable, stopping)
    <3>1. Decided(r) /\ Recorded(r, trail[q]) /\ Blamed(r, stopping)
      BY <1>0, <1>15
      DEF Leave, proxied, HandlerOK, Decided, Recorded, Blamed, ReqType, Early, Late
    <3>2. Snapped(r, confs)
      BY <1>0, <1>15
      DEF Leave, proxied, HandlerOK, Decided, Snapped, HasSnapshot, AllowedBy, ReqType, Early, Late, running
    <3>3. Revoked(r, usable)
      BY <1>0, <1>15
      DEF Leave, proxied, HandlerOK, Decided, Revoked, Authenticated, ReqType, Early, Late
    <3> QED BY <3>1, <3>2, <3>3 DEF HandlerOK
  <2>4. /\ r.pc = "building" <=> req[q].pc = "building"
        /\ Inside(q) \/ r.pc \in {"accepted", "done"} \/ phase \in {"serving", "shutdown"}
    BY <1>0, <1>15 DEF Leave, proxied, ReqType
  <2> HIDE DEF r
  <2>5. Moves(q, r) /\ LockMoves(q, r)
    BY <2>1, <2>2, <2>3, <2>4, PlainStep
  <2> QED BY <2>5
<1>16. ASSUME ContextEnds(q)
      PROVE  \E r : Moves(q, r) /\ LockMoves(q, r)
  <2> DEFINE r == [req[q] EXCEPT !.gone = TRUE]
  <2>1. Step(q, r) /\ UNCHANGED Others
    BY <1>16 DEF ContextEnds, proxied
  <2>2. r \in ReqType
    BY <1>0, <1>16 DEF ContextEnds, proxied, ReqType, Early, Late, Failures
  <2>3. HandlerOK(r, trail[q], confs, usable, stopping)
    <3>1. Decided(r) /\ Recorded(r, trail[q]) /\ Blamed(r, stopping)
      BY <1>0, <1>16
      DEF ContextEnds, proxied, HandlerOK, Decided, Recorded, Blamed, ReqType, Early, Late
    <3>2. Snapped(r, confs)
      BY <1>0, <1>16
      DEF ContextEnds, proxied, HandlerOK, Decided, Snapped, HasSnapshot, AllowedBy, ReqType, Early, Late, running
    <3>3. Revoked(r, usable)
      BY <1>0, <1>16
      DEF ContextEnds, proxied, HandlerOK, Decided, Revoked, Authenticated, ReqType, Early, Late
    <3> QED BY <3>1, <3>2, <3>3 DEF HandlerOK
  <2>4. /\ r.pc = "building" <=> req[q].pc = "building"
        /\ Inside(q) \/ r.pc \in {"accepted", "done"} \/ phase \in {"serving", "shutdown"}
    BY <1>0, <1>16 DEF ContextEnds, proxied, ReqType
  <2> HIDE DEF r
  <2>5. Moves(q, r) /\ LockMoves(q, r)
    BY <2>1, <2>2, <2>3, <2>4, PlainStep
  <2> QED BY <2>5
<1>17. ASSUME WriteToAgentFails(q)
      PROVE  \E r : Moves(q, r) /\ LockMoves(q, r)
  <2> DEFINE r == [req[q] EXCEPT !.unwritten = TRUE]
  <2>1. Step(q, r) /\ UNCHANGED Others
    BY <1>17 DEF WriteToAgentFails, proxied
  <2>2. r \in ReqType
    BY <1>0, <1>17 DEF WriteToAgentFails, proxied, ReqType, Early, Late, Failures
  <2>3. HandlerOK(r, trail[q], confs, usable, stopping)
    <3>1. Decided(r) /\ Recorded(r, trail[q]) /\ Blamed(r, stopping)
      BY <1>0, <1>17
      DEF WriteToAgentFails, proxied, HandlerOK, Decided, Recorded, Blamed, ReqType, Early, Late
    <3>2. Snapped(r, confs)
      BY <1>0, <1>17
      DEF WriteToAgentFails, proxied, HandlerOK, Decided, Snapped, HasSnapshot, AllowedBy, ReqType, Early, Late, running
    <3>3. Revoked(r, usable)
      BY <1>0, <1>17
      DEF WriteToAgentFails, proxied, HandlerOK, Decided, Revoked, Authenticated, ReqType, Early, Late
    <3> QED BY <3>1, <3>2, <3>3 DEF HandlerOK
  <2>4. /\ r.pc = "building" <=> req[q].pc = "building"
        /\ Inside(q) \/ r.pc \in {"accepted", "done"} \/ phase \in {"serving", "shutdown"}
    BY <1>0, <1>17 DEF WriteToAgentFails, proxied, ReqType
  <2> HIDE DEF r
  <2>5. Moves(q, r) /\ LockMoves(q, r)
    BY <2>1, <2>2, <2>3, <2>4, PlainStep
  <2> QED BY <2>5
<1> QED
  BY <1>1, <1>2, <1>3, <1>4, <1>5, <1>6, <1>7, <1>8, <1>9, <1>10, <1>11, <1>12, <1>13, <1>14, <1>15, <1>16, <1>17
  DEF HandlerStep, Handler, Proxy

\* currentSnapshot, the decision and the record.
LEMMA OtherMoves ==
  ASSUME DeliveryInv, NEW q \in Requests,
         Snapshot(q) \/ SnapshotLocks(q) \/ SnapshotStores(q) \/ Decide(q) \/ Record(q)
  PROVE  \E r : Moves(q, r) /\ LockMoves(q, r)
<1>0. /\ req[q] \in ReqType /\ running \in Nat /\ running >= 1
      /\ HandlerOK(req[q], trail[q], confs, usable, stopping)
      /\ cache \in 1 .. running /\ running = Len(confs) /\ DOMAIN trail = Requests
      /\ (req[q].pc = "building" <=> snapshotMu = q)
  <2>1. confs \in Seq(Configs) /\ cache \in 1 .. running /\ req[q] \in ReqType
        /\ DOMAIN trail = Requests
        /\ HandlerOK(req[q], trail[q], confs, usable, stopping)
        /\ (req[q].pc = "building" <=> snapshotMu = q)
    BY DEF DeliveryInv, SharedOK, MutexOK
  <2>2. running \in Nat /\ running = Len(confs)
    BY <2>1 DEF running
  <2> QED BY <2>1, <2>2
<1>a. afterSnapshot(q) \in {"decide", "auth"}
      /\ (afterSnapshot(q) = "auth" <=> req[q].mode # "reveal")
  BY DEF afterSnapshot
<1> USE DEF Inside
\* With its snapshot, as of now, a handler goes on.
<1>s. ASSUME NEW snap \in Nat, snap = running, NEW pc,
             pc = "rebuild" \/ pc = "building" \/ pc = afterSnapshot(q),
             req[q].pc \in {"snapshot", "rebuild"}
      PROVE  LET r == [req[q] EXCEPT !.pc = pc, !.snap = snap]
             IN  r \in ReqType /\ r.pc = pc /\ HandlerOK(r, trail[q], confs, usable, stopping)
  <2> DEFINE r == [req[q] EXCEPT !.pc = pc, !.snap = snap]
  <2>1. r \in ReqType /\ r.pc = pc
    BY <1>0, <1>a, <1>s DEF ReqType, Early
  <2>2. Decided(r) /\ Recorded(r, trail[q]) /\ Blamed(r, stopping)
    BY <1>0, <1>a, <1>s DEF HandlerOK, Decided, Recorded, Blamed, ReqType, Early, Late
  <2>3. Snapped(r, confs)
    BY <1>0, <1>a, <1>s DEF HandlerOK, Decided, Snapped, HasSnapshot, ReqType, Early, Late
  <2>4. Revoked(r, usable)
    BY <1>0, <1>a, <1>s DEF HandlerOK, Decided, Revoked, Authenticated, ReqType, Early, Late
  <2> QED BY <2>1, <2>2, <2>3, <2>4 DEF HandlerOK
<1>1. CASE Snapshot(q)
  <2> DEFINE r(pc) == [req[q] EXCEPT !.pc = pc, !.snap = running]
  <2>1. /\ req[q].pc = "snapshot" /\ UNCHANGED Others
        /\ Step(q, r(afterSnapshot(q))) \/ Step(q, r("rebuild"))
    BY <1>1 DEF Snapshot
  <2>2. \A pc \in {"rebuild", afterSnapshot(q)} :
          r(pc) \in ReqType /\ r(pc).pc = pc /\ HandlerOK(r(pc), trail[q], confs, usable, stopping)
    BY <1>0, <1>s, <2>1
  <2> HIDE DEF r
  <2>3. \A pc \in {"rebuild", afterSnapshot(q)} :
          Step(q, r(pc)) => Moves(q, r(pc)) /\ LockMoves(q, r(pc))
    BY <1>a, <2>1, <2>2, PlainStep
  <2> QED BY <2>1, <2>3
<1>2. CASE SnapshotLocks(q)
  <2> DEFINE r(pc) == [req[q] EXCEPT !.pc = pc, !.snap = running]
  <2>1. /\ req[q].pc = "rebuild" /\ snapshotMu = "free"
        /\ \/ Step(q, r(afterSnapshot(q))) /\ UNCHANGED snapshotMu
           \/ Step(q, r("building")) /\ snapshotMu' = q
        /\ UNCHANGED <<confs, cache, usable, phase, stopping, trail>>
    BY <1>2 DEF SnapshotLocks
  <2>2. \A pc \in {"building", afterSnapshot(q)} :
          r(pc) \in ReqType /\ r(pc).pc = pc /\ HandlerOK(r(pc), trail[q], confs, usable, stopping)
    BY <1>0, <1>s, <2>1
  <2> HIDE DEF r
  <2>3. CASE Step(q, r(afterSnapshot(q))) /\ UNCHANGED snapshotMu
    <3>1. UNCHANGED Others
      BY <2>1, <2>3 DEF Others
    <3>2. Moves(q, r(afterSnapshot(q))) /\ LockMoves(q, r(afterSnapshot(q)))
      BY <1>a, <2>1, <2>2, <2>3, <3>1, PlainStep
    <3> QED BY <3>2
  <2>4. CASE Step(q, r("building")) /\ snapshotMu' = q
    <3>1. Moves(q, r("building")) /\ LockMoves(q, r("building"))
      BY <1>0, <2>1, <2>2, <2>4 DEF Moves, LockMoves, Step
    <3> QED BY <3>1
  <2> QED BY <2>1, <2>3, <2>4
<1>3. CASE SnapshotStores(q)
  <2> DEFINE r == [req[q] EXCEPT !.pc = afterSnapshot(q)]
  <2>1. /\ req[q].pc = "building" /\ Step(q, r) /\ cache' = req[q].snap /\ snapshotMu' = "free"
        /\ UNCHANGED <<confs, usable, phase, stopping, trail>>
    BY <1>3 DEF SnapshotStores
  <2>2. r \in ReqType /\ r.pc # "building"
    BY <1>0, <1>a DEF ReqType, Early
  <2>3. Decided(r) /\ Recorded(r, trail[q]) /\ Blamed(r, stopping)
    BY <1>0, <1>a, <2>1 DEF HandlerOK, Decided, Recorded, Blamed, ReqType, Early, Late
  <2>4. Snapped(r, confs)
    BY <1>0, <1>a, <2>1 DEF HandlerOK, Decided, Snapped, HasSnapshot, ReqType, Early, Late
  <2>5. Revoked(r, usable)
    BY <1>0, <1>a, <2>1 DEF HandlerOK, Decided, Revoked, Authenticated, ReqType, Early, Late
  <2>6. HandlerOK(r, trail[q], confs, usable, stopping)
    BY <2>3, <2>4, <2>5 DEF HandlerOK
  <2> HIDE DEF r
  <2>7. Moves(q, r) /\ LockMoves(q, r)
    BY <1>0, <2>1, <2>2, <2>6 DEF Moves, LockMoves, Step
  <2> QED BY <2>7
<1>4. CASE Decide(q)
  <2> DEFINE r == IF allows(confs[req[q].snap], q)
                  THEN [req[q] EXCEPT !.pc = "resolve", !.decision = "allowed"]
                  ELSE [req[q] EXCEPT !.pc = "record", !.decision = "denied"]
  <2>1. req[q].pc = "decide" /\ Step(q, r) /\ UNCHANGED Others
    BY <1>4 DEF Decide
  <2>2. r \in ReqType /\ r.pc # "building" /\ r.snap = req[q].snap /\ r.mode = req[q].mode
        /\ r.token = req[q].token /\ r.since = req[q].since /\ r.revoked = req[q].revoked
        /\ r.gone = req[q].gone /\ r.left = req[q].left /\ r.cut = req[q].cut
        /\ r.unwritten = req[q].unwritten
        /\ r.failure = req[q].failure /\ r.out = req[q].out
        /\ \/ r.pc = "resolve" /\ r.decision = "allowed" /\ allows(confs[req[q].snap], q)
           \/ r.pc = "record" /\ r.decision = "denied"
    BY <1>0 DEF ReqType, Late
  <2> HIDE DEF r
  <2>3. Decided(r) /\ Recorded(r, trail[q]) /\ Blamed(r, stopping)
    BY <1>0, <2>1, <2>2 DEF HandlerOK, Decided, Recorded, Blamed, ReqType, Early, Late
  <2>4. Snapped(r, confs)
    <3>1. r.decision = "allowed" => AllowedBy(confs[r.snap], r)
      BY <2>2 DEF allows, AllowedBy
    <3> QED BY <1>0, <2>1, <2>2, <3>1 DEF HandlerOK, Snapped, HasSnapshot
  <2>5. Revoked(r, usable)
    BY <1>0, <2>1, <2>2 DEF HandlerOK, Revoked, Authenticated
  <2>6. HandlerOK(r, trail[q], confs, usable, stopping)
    BY <2>3, <2>4, <2>5 DEF HandlerOK
  <2>7. Moves(q, r) /\ LockMoves(q, r)
    BY <1>0, <2>1, <2>2, <2>6, PlainStep
  <2> QED BY <2>7
<1>5. CASE Record(q)
  <2> DEFINE r == [req[q] EXCEPT !.pc = "done"]
             t == Append(trail[q], [decision |-> req[q].decision, failure |-> req[q].failure])
  <2>1. /\ req[q].pc = "record" /\ Step(q, r)
        /\ trail' = [trail EXCEPT ![q] = t]
        /\ UNCHANGED <<confs, cache, snapshotMu, usable, phase, stopping>>
    BY <1>5 DEF Record
  <2>2. r \in ReqType /\ r.pc = "done"
    BY <1>0 DEF ReqType
  <2>3. trail[q] = <<>> /\ req[q].decision # "none"
    BY <1>0, <2>1 DEF HandlerOK, Recorded, Decided, Late
  <2>4. Len(t) = 1
    BY <2>3
  <2>5. Decided(r) /\ Recorded(r, t) /\ Blamed(r, stopping)
    BY <1>0, <2>1, <2>3, <2>4 DEF HandlerOK, Decided, Recorded, Blamed, ReqType, Early, Late
  <2>6. Snapped(r, confs)
    BY <1>0, <2>1 DEF HandlerOK, Decided, Snapped, HasSnapshot, AllowedBy, ReqType, Early, Late
  <2>7. Revoked(r, usable)
    BY <1>0, <2>1 DEF HandlerOK, Decided, Revoked, Authenticated, ReqType, Early, Late
  <2>8. HandlerOK(r, t, confs, usable, stopping)
    BY <2>5, <2>6, <2>7 DEF HandlerOK
  <2> HIDE DEF r, t
  <2>9. trail'[q] = t /\ DOMAIN trail' = Requests /\ \A p \in Requests \ {q} : trail'[p] = trail[p]
    BY <1>0, <2>1
  <2>10. Moves(q, r) /\ LockMoves(q, r)
    BY <1>0, <2>1, <2>2, <2>8, <2>9 DEF Moves, LockMoves, Step
  <2> QED BY <2>10
<1> QED BY <1>1, <1>2, <1>3, <1>4, <1>5

\* A handler's step preserves the invariant.
LEMMA HandlerKeeps ==
  ASSUME DeliveryInv, NEW q \in Requests, HandlerStep(q)
  PROVE  DeliveryInv'
<1>1. PICK r : Moves(q, r) /\ LockMoves(q, r)
  BY PlainMoves, OtherMoves
<1>2. /\ req' = [req EXCEPT ![q] = r] /\ r \in ReqType
      /\ UNCHANGED <<confs, usable, phase, stopping>>
      /\ \A p \in Requests \ {q} : trail'[p] = trail[p]
      /\ DOMAIN trail' = Requests
      /\ HandlerOK(r, trail'[q], confs, usable, stopping)
      /\ \/ Inside(q) \/ r.pc \in {"accepted", "done"} \/ phase \in {"serving", "shutdown"}
  BY <1>1 DEF Moves
<1>3. /\ req \in [Requests -> ReqType] /\ cache \in 1 .. running /\ confs \in Seq(Configs)
      /\ snapshotMu \in Requests \cup {"free"} /\ MutexOK /\ ServicesOutliveHandlers
      /\ \A p \in Requests : HandlerOK(req[p], trail[p], confs, usable, stopping)
  BY DEF DeliveryInv, SharedOK
<1>4. /\ req'[q] = r /\ \A p \in Requests \ {q} : req'[p] = req[p]
      /\ req' \in [Requests -> ReqType]
  BY <1>2, <1>3
<1>5. "free" \notin Requests
  BY DeliveryAssumption DEF DeliveryAssumption
<1>6. (running' = running) /\ req[q].snap \in Nat
  BY <1>2, <1>3 DEF running, ReqType
<1>7. cache' \in 1 .. running
  <2>1. CASE req[q].pc = "building"
    <3>1. 1 <= req[q].snap /\ req[q].snap <= running
      BY <1>3, <2>1 DEF HandlerOK, Snapped, HasSnapshot, running
    <3> QED BY <1>1, <1>3, <1>6, <3>1 DEF LockMoves
  <2>2. CASE req[q].pc # "building"
    BY <1>1, <1>3, <2>2 DEF LockMoves
  <2> QED BY <2>1, <2>2
<1>8. MutexOK' /\ snapshotMu' \in Requests \cup {"free"}
  <2>1. \A p \in Requests : req[p].pc = "building" <=> snapshotMu = p
    BY <1>3 DEF MutexOK
  <2>2. \A p \in Requests : req'[p].pc = "building" <=> snapshotMu' = p
    BY <1>1, <1>4, <1>5, <2>1 DEF LockMoves
  <2>3. snapshotMu' \in Requests \cup {"free"}
    BY <1>1, <1>3 DEF LockMoves
  <2> QED BY <2>2, <2>3 DEF MutexOK
<1>9. SharedOK'
  BY <1>2, <1>4, <1>6, <1>7, <1>8 DEF DeliveryInv, SharedOK
<1>10. ServicesOutliveHandlers'
  BY <1>2, <1>3, <1>4 DEF ServicesOutliveHandlers, Inside
<1>11. \A p \in Requests : HandlerOK(req'[p], trail'[p], confs', usable', stopping')
  BY <1>2, <1>3, <1>4
<1> QED BY <1>8, <1>9, <1>10, <1>11 DEF DeliveryInv

\* A reload leaves every handler the snapshot it has (Reload).
LEMMA ReloadKeeps ==
  ASSUME DeliveryInv, NEW c \in Configs, Reload(c)
  PROVE  DeliveryInv'
<1>1. /\ confs \in Seq(Configs) /\ confs' = Append(confs, c) /\ cache \in 1 .. Len(confs)
      /\ UNCHANGED <<cache, snapshotMu, usable, phase, stopping, req, trail>>
  BY DEF Reload, DeliveryInv, SharedOK, running
<1>2. /\ confs' \in Seq(Configs) /\ Len(confs') = Len(confs) + 1 /\ Len(confs) \in Nat
      /\ \A i \in 1 .. Len(confs) : confs'[i] = confs[i]
  BY <1>1
<1>3. ASSUME NEW q \in Requests
      PROVE  HandlerOK(req'[q], trail'[q], confs', usable', stopping')
  <2>1. HandlerOK(req[q], trail[q], confs, usable, stopping) /\ req[q] \in ReqType
    BY DEF DeliveryInv, SharedOK
  <2>2. Snapped(req[q], confs')
    <3>1. /\ req[q].since <= Len(confs) /\ req[q].snap <= Len(confs)
          /\ req[q].since \in Nat /\ req[q].snap \in Nat
      BY <2>1 DEF HandlerOK, Snapped, ReqType
    <3>2. req[q].since <= Len(confs') /\ req[q].snap <= Len(confs')
      BY <1>2, <3>1
    <3>3. ASSUME req[q].decision = "allowed"
          PROVE  AllowedBy(confs'[req[q].snap], req[q])
      <4>1. HasSnapshot(req[q])
        BY <3>3 DEF HasSnapshot
      <4>2. req[q].snap \in 1 .. Len(confs)
        BY <1>2, <2>1, <3>1, <4>1 DEF HandlerOK, Snapped
      <4>3. AllowedBy(confs[req[q].snap], req[q])
        BY <2>1, <3>3 DEF HandlerOK, Snapped
      <4> QED BY <1>2, <4>2, <4>3
    <3> QED BY <2>1, <3>2, <3>3 DEF HandlerOK, Snapped
  <2> QED BY <1>1, <2>1, <2>2 DEF HandlerOK
<1>4. SharedOK'
  <2>1. cache \in 1 .. Len(confs')
    BY <1>1, <1>2
  <2> QED BY <1>1, <1>2, <2>1 DEF DeliveryInv, SharedOK, running
<1>5. MutexOK' /\ ServicesOutliveHandlers'
  BY <1>1 DEF DeliveryInv, MutexOK, ServicesOutliveHandlers, Inside
<1> QED BY <1>3, <1>4, <1>5 DEF DeliveryInv

\* A revoked token stays revoked (RevokeAgentToken).
LEMMA RevokeKeeps ==
  ASSUME DeliveryInv, NEW t \in Tokens, Revoke(t)
  PROVE  DeliveryInv'
<1>1. /\ usable' = usable \ {t}
      /\ UNCHANGED <<confs, cache, snapshotMu, phase, stopping, req, trail>>
  BY DEF Revoke
<1>2. SharedOK' /\ MutexOK' /\ ServicesOutliveHandlers'
  BY <1>1 DEF DeliveryInv, SharedOK, MutexOK, ServicesOutliveHandlers, Inside, running
<1>3. \A q \in Requests : HandlerOK(req'[q], trail'[q], confs', usable', stopping')
  BY <1>1 DEF DeliveryInv, HandlerOK, Revoked
<1> QED BY <1>2, <1>3 DEF DeliveryInv

\* What the server does from the signal to its end preserves the invariant: only the
\* lock lets it go on to close what handlers use (httpserve.Serve, Serve, Run).
LEMMA ServerKeeps ==
  ASSUME DeliveryInv,
         Signal \/ ListenerFails \/ SetStopping \/ ShutdownEnds \/ GraceEnds \/ Locked
           \/ Unwind \/ UNCHANGED vars
  PROVE  DeliveryInv'
<1> DEFINE Phases == {"serving", "shutdown", "locking", "drained", "audit closed",
                      "cache closed", "plugins stopped", "closed"}
           Over   == {"drained", "audit closed", "cache closed", "plugins stopped", "closed"}
<1>0. /\ phase \in Phases /\ req \in [Requests -> ReqType] /\ MutexOK
      /\ phase \in Over => \A q \in Requests : ~Inside(q)
      /\ \A q \in Requests : HandlerOK(req[q], trail[q], confs, usable, stopping)
  BY DEF DeliveryInv, SharedOK, ServicesOutliveHandlers
\* A step that only changes the phase.
<1>b. ASSUME NEW p \in Phases, Become(p), p \in Over => \A q \in Requests : ~Inside(q)
      PROVE  DeliveryInv'
  <2>1. phase' = p /\ UNCHANGED <<confs, cache, snapshotMu, usable, stopping, req, trail>>
    BY <1>b DEF Become
  <2>2. SharedOK' /\ MutexOK'
    BY <2>1 DEF DeliveryInv, SharedOK, MutexOK, running
  <2>3. ServicesOutliveHandlers'
    BY <1>b, <2>1 DEF ServicesOutliveHandlers, Inside
  <2> QED BY <1>0, <2>1, <2>2, <2>3 DEF DeliveryInv
<1>1. CASE Signal
  BY <1>1, <1>b DEF Signal
<1>2. CASE ListenerFails \/ ShutdownEnds
  BY <1>2, <1>b DEF ListenerFails, ShutdownEnds
<1>3. CASE SetStopping
  <2>1. stopping' = TRUE /\ UNCHANGED <<confs, cache, snapshotMu, usable, phase, req, trail>>
    BY <1>3 DEF SetStopping
  <2>2. SharedOK' /\ MutexOK' /\ ServicesOutliveHandlers'
    BY <2>1 DEF DeliveryInv, SharedOK, MutexOK, ServicesOutliveHandlers, Inside, running
  <2>3. \A q \in Requests : HandlerOK(req'[q], trail'[q], confs', usable', stopping')
    BY <1>0, <2>1 DEF HandlerOK, Blamed
  <2> QED BY <2>2, <2>3 DEF DeliveryInv
<1>4. CASE GraceEnds
  <2>1. /\ phase' = "locking" /\ stopping
        /\ UNCHANGED <<confs, cache, snapshotMu, usable, stopping, trail>>
        /\ req' = [q \in Requests |-> IF req[q].pc \in {"idle", "record", "done"} THEN req[q]
                                      ELSE [req[q] EXCEPT !.cut = TRUE]]
    BY <1>4 DEF GraceEnds
  <2>2. ASSUME NEW q \in Requests
        PROVE  req'[q] = req[q] \/ req'[q] = [req[q] EXCEPT !.cut = TRUE]
    BY <2>1
  <2>3. ASSUME NEW q \in Requests
        PROVE  /\ req'[q] \in ReqType /\ req'[q].pc = req[q].pc
               /\ HandlerOK(req'[q], trail'[q], confs', usable', stopping')
    <3>1. req[q] \in ReqType /\ HandlerOK(req[q], trail[q], confs, usable, stopping)
      BY <1>0
    <3>2. CASE req'[q] = req[q]
      BY <2>1, <3>1, <3>2
    <3>3. CASE req'[q] = [req[q] EXCEPT !.cut = TRUE]
      <4> DEFINE r == [req[q] EXCEPT !.cut = TRUE]
      <4>1. r \in ReqType /\ r.pc = req[q].pc
        BY <3>1 DEF ReqType
      <4>2. Decided(r) /\ Recorded(r, trail[q]) /\ Blamed(r, stopping)
        BY <2>1, <3>1 DEF HandlerOK, Decided, Recorded, Blamed, ReqType
      <4>3. Snapped(r, confs) /\ Revoked(r, usable)
        BY <3>1 DEF HandlerOK, Snapped, HasSnapshot, AllowedBy, Revoked, Authenticated, ReqType
      <4> HIDE DEF r
      <4> QED BY <2>1, <3>3, <4>1, <4>2, <4>3 DEF HandlerOK, r
    <3> QED BY <2>2, <3>2, <3>3
  <2>4. req' \in [Requests -> ReqType]
    BY <2>1, <2>3
  <2>5. SharedOK'
    BY <2>1, <2>4 DEF DeliveryInv, SharedOK, running
  <2>6. MutexOK'
    BY <1>0, <2>1, <2>3 DEF MutexOK
  <2>7. ServicesOutliveHandlers'
    BY <2>1 DEF ServicesOutliveHandlers
  <2> QED BY <2>3, <2>5, <2>6, <2>7 DEF DeliveryInv
<1>5. CASE Locked
  BY <1>5, <1>b DEF Locked
<1>6. CASE Unwind
  <2>1. PICK i \in 1 .. Len(unwinding) - 1 : phase = unwinding[i] /\ Become(unwinding[i + 1])
    BY <1>6 DEF Unwind
  <2>2. i = 1 \/ i = 2 \/ i = 3 \/ i = 4
    <3>1. Len(unwinding) = 5
      BY DEF unwinding
    <3> QED BY <2>1, <3>1
  <2>3. /\ unwinding[1] = "drained" /\ unwinding[2] = "audit closed"
        /\ unwinding[3] = "cache closed" /\ unwinding[4] = "plugins stopped"
        /\ unwinding[5] = "closed"
    BY DEF unwinding
  <2>4. phase \in Over /\ unwinding[i + 1] \in Phases
    <3>1. \/ i = 1 /\ i + 1 = 2
          \/ i = 2 /\ i + 1 = 3
          \/ i = 3 /\ i + 1 = 4
          \/ i = 4 /\ i + 1 = 5
      BY <2>2
    <3>2. /\ unwinding[i] \in {"drained", "audit closed", "cache closed", "plugins stopped"}
          /\ unwinding[i + 1] \in {"audit closed", "cache closed", "plugins stopped", "closed"}
      BY <2>3, <3>1
    <3> QED BY <2>1, <3>2
  <2> QED BY <1>0, <1>b, <2>1, <2>4
<1>7. CASE UNCHANGED vars
  BY <1>0, <1>7 DEF vars, DeliveryInv, SharedOK, MutexOK, ServicesOutliveHandlers, Inside, running
<1> QED BY <1>1, <1>2, <1>3, <1>4, <1>5, <1>6, <1>7

\* In every reachable state each handler has decided, recorded, blamed and
\* authenticated as its program counter says.
THEOREM DeliveriesInvariant == Spec => []DeliveryInv
<1>1. Init => DeliveryInv
  <2> SUFFICES ASSUME Init PROVE DeliveryInv
    OBVIOUS
  <2>1. PICK c \in Configs : confs = <<c>>
    BY DEF Init
  <2>2. confs \in Seq(Configs) /\ Len(confs) = 1
    BY <2>1
  <2>3. NewRequest \in ReqType
    BY DEF NewRequest, ReqType, Early, Failures
  <2>4. req = [q \in Requests |-> NewRequest] /\ trail = [q \in Requests |-> <<>>]
        /\ snapshotMu = "free" /\ cache = 1 /\ usable = Tokens /\ phase = "serving"
        /\ stopping = FALSE
    BY DEF Init
  <2>5. HandlerOK(NewRequest, <<>>, confs, usable, stopping)
    <3>1. Decided(NewRequest) /\ Recorded(NewRequest, <<>>) /\ Blamed(NewRequest, stopping)
      BY DEF NewRequest, Decided, Recorded, Blamed, Early, Late
    <3>2. Snapped(NewRequest, confs) /\ Revoked(NewRequest, usable)
      BY <2>2 DEF NewRequest, Snapped, HasSnapshot, Revoked, Late
    <3> QED BY <3>1, <3>2 DEF HandlerOK
  <2>6. "free" \notin Requests /\ NewRequest.pc = "idle"
    BY DeliveryAssumption DEF DeliveryAssumption, NewRequest
  <2> HIDE DEF NewRequest
  <2>7. SharedOK
    <3>1. cache \in 1 .. running
      BY <2>2, <2>4 DEF running
    <3>2. req \in [Requests -> ReqType] /\ DOMAIN trail = Requests
      BY <2>3, <2>4
    <3> QED BY <2>2, <2>4, <3>1, <3>2 DEF SharedOK
  <2> QED BY <2>4, <2>5, <2>6, <2>7 DEF DeliveryInv, MutexOK, ServicesOutliveHandlers
<1>2. DeliveryInv /\ [Next]_vars => DeliveryInv'
  BY HandlerKeeps, ReloadKeeps, RevokeKeeps, ServerKeeps
  DEF Next, HandlerStep, Finished
<1> QED BY <1>1, <1>2, PTL DEF Spec

\* What a handler uses outlives it, however handlers and shutdown interleave (Serve,
\* Run).
THEOREM HandlersAreOutlived == FairSpec => []ServicesOutliveHandlers
<1>1. DeliveryInv => ServicesOutliveHandlers
  BY DEF DeliveryInv
<1> QED BY <1>1, DeliveriesInvariant, PTL DEF FairSpec

\* Every Delivery attempt has its one Audit Record, and every Secret that left has
\* it before the audit log is closed; no record blames an Agent that neither left nor
\* failed to be written to (record, inflight, blame).
THEOREM AttemptsAreRecorded == FairSpec => []EveryAttemptRecorded
<1>1. DeliveryInv => EveryAttemptRecorded
  <2> SUFFICES ASSUME DeliveryInv, NEW q \in Requests
               PROVE  /\ Len(trail[q]) <= 1
                      /\ req[q].pc = "done" /\ req[q].decision # "none" => Len(trail[q]) = 1
                      /\ req[q].out /\ phase \notin {"serving", "shutdown", "locking", "drained"}
                           => Len(trail[q]) = 1
                      /\ req[q].failure = "abandoned" => req[q].left \/ req[q].unwritten
    BY DEF EveryAttemptRecorded
  <2>1. req[q] \in ReqType /\ Decided(req[q]) /\ Recorded(req[q], trail[q]) /\ Blamed(req[q], stopping)
    BY DEF DeliveryInv, SharedOK, HandlerOK
  <2>2. Len(trail[q]) <= 1
    <3>1. trail[q] = <<>> \/ Len(trail[q]) = 1
      BY <2>1 DEF Recorded
    <3>2. CASE trail[q] = <<>>
      BY <3>2
    <3>3. CASE Len(trail[q]) = 1
      BY <3>3
    <3> QED BY <3>1, <3>2, <3>3
  <2>3. req[q].pc = "done" /\ req[q].decision # "none" => Len(trail[q]) = 1
    BY <2>1 DEF Recorded
  <2>4. ASSUME req[q].out, phase \notin {"serving", "shutdown", "locking", "drained"}
        PROVE  Len(trail[q]) = 1
    <3>1. ~Inside(q)
      BY <2>4 DEF DeliveryInv, SharedOK, ServicesOutliveHandlers
    <3>2. req[q].decision = "allowed" /\ req[q].pc \notin Early
      BY <2>1, <2>4 DEF Decided
    <3>3. req[q].pc = "done"
      BY <3>1, <3>2 DEF Inside, Early
    <3> QED BY <2>3, <3>2, <3>3
  <2> QED BY <2>1, <2>2, <2>3, <2>4 DEF Blamed
<1> QED BY <1>1, DeliveriesInvariant, PTL DEF FairSpec

\* A Secret leaves only by the decision of one config, in effect at some moment of
\* the request, and for a token that was good when the request arrived
\* (currentSnapshot, AuthenticateAgentToken).
THEOREM SecretsLeaveByRight == FairSpec => []LeavesByRight
<1>1. DeliveryInv => LeavesByRight
  <2> SUFFICES ASSUME DeliveryInv, NEW q \in Requests
               PROVE  /\ req[q].decision = "allowed" => allows(confs[req[q].snap], q)
                      /\ req[q].out => req[q].snap >= req[q].since
                      /\ req[q].revoked => ~req[q].out
    BY DEF LeavesByRight, DecidedBySnapshot, RevocationHolds
  <2>1. /\ req[q] \in ReqType /\ Decided(req[q]) /\ Snapped(req[q], confs)
        /\ Revoked(req[q], usable)
    BY DEF DeliveryInv, SharedOK, HandlerOK
  <2>2. req[q].out => req[q].decision = "allowed"
    BY <2>1 DEF Decided
  <2> QED BY <2>1, <2>2, AllowsIs DEF Snapped, HasSnapshot, Revoked, Authenticated
<1> QED BY <1>1, DeliveriesInvariant, PTL DEF FairSpec

-----------------------------------------------------------------------------
(***************************************************************************)
(* Redaction                                                               *)
(***************************************************************************)

\* A set of numbers has a least one: induction by the least counterexample.
LEMMA LeastMember ==
  ASSUME NEW T, T \subseteq Nat, T # {}
  PROVE  \E x \in T : \A y \in T : x <= y
<1> DEFINE R == {ss \in Nat \X Nat : ss[1] < ss[2]}
<1>1. IsWellFoundedOn(R, Nat)
  BY NatLessThanWellFounded DEF OpToRel
<1>2. \A x, y \in Nat : y < x => <<y, x>> \in R
  OBVIOUS
<1> HIDE DEF R
<1>3. PICK x \in T : \A y \in T : ~(<<y, x>> \in R)
  BY <1>1, WFMin
<1>4. ASSUME NEW y \in T PROVE x <= y
  <2>1. x \in Nat /\ y \in Nat /\ ~(y < x)
    BY <1>2, <1>3
  <2> QED
    BY <2>1
<1> QED
  BY <1>4

\* The greatest of the numbers from 0 up to b that are in T, which has 0.
LEMMA GreatestUpTo ==
  ASSUME NEW b \in Nat, NEW T, T \subseteq 0 .. b, 0 \in T
  PROVE  Max(T) \in T /\ \A y \in T : y <= Max(T)
<1> DEFINE U == {n \in Nat : \A x \in T : x <= n}
<1>1. PICK n \in U : \A m \in U : n <= m
  <2>1. U \subseteq Nat /\ b \in U
    OBVIOUS
  <2> HIDE DEF U
  <2> QED
    BY <2>1, LeastMember
<1>2. n \in T
  <2> SUFFICES ASSUME n \notin T PROVE FALSE
    OBVIOUS
  <2>1. n # 0
    OBVIOUS
  <2>2. n - 1 \in U
    BY <1>1, <2>1
  <2> QED
    BY <1>1, <2>2
<1>3. \E x \in T : \A y \in T : x >= y
  BY <1>1, <1>2
<1>4. Max(T) \in T /\ \A y \in T : Max(T) >= y
  BY <1>3 DEF Max
<1>5. \A y \in T : y \in Nat
  OBVIOUS
<1> QED
  BY <1>4, <1>5

-----------------------------------------------------------------------------
\* A needle occurs where its bytes are found one by one.
LEMMA OccursByByte ==
  ASSUME NEW S, NEW s \in Seq(S), NEW T, NEW n \in Seq(T), NEW at \in Nat \ {0}
  PROVE  OccursAt(s, n, at) <=> /\ at + Len(n) - 1 <= Len(s)
                                /\ \A j \in 1 .. Len(n) : s[at + j - 1] = n[j]
<1>1. CASE at + Len(n) - 1 <= Len(s)
  <2> DEFINE t == SubSeq(s, at, at + Len(n) - 1)
  <2>1. \A i \in at .. at + Len(n) - 1 : s[i] \in S
    BY <1>1
  <2>2. /\ t \in Seq(S) /\ Len(t) = Len(n)
        /\ \A i \in 1 .. Len(n) : t[i] = s[at + i - 1]
    BY <2>1, SubSeqProperties
  <2> HIDE DEF t
  <2>3. t = n <=> \A i \in 1 .. Len(n) : t[i] = n[i]
    <3>1. ASSUME \A i \in 1 .. Len(n) : t[i] = n[i] PROVE t = n
      <4>1. t \in Seq(S \cup T) /\ n \in Seq(S \cup T)
        BY <2>2
      <4> QED
        BY <2>2, <3>1, <4>1, SeqEqual
    <3> QED
      BY <3>1
  <2>4. OccursAt(s, n, at) <=> t = n
    BY <1>1 DEF OccursAt, t
  <2> QED
    BY <1>1, <2>2, <2>3, <2>4
<1>2. CASE ~(at + Len(n) - 1 <= Len(s))
  BY <1>2 DEF OccursAt
<1> QED
  BY <1>1, <1>2

\* The same, of the bytes of a response.
LEMMA OccursInBytes ==
  ASSUME NEW s \in Seq(Bytes), NEW n \in Seq(Bytes), NEW at \in Nat \ {0}
  PROVE  OccursAt(s, n, at) <=> /\ at + Len(n) - 1 <= Len(s)
                                /\ \A j \in 1 .. Len(n) : s[at + j - 1] = n[j]
  BY OccursByByte

\* The last k bytes of s are the first of the needle n, which goes on.
EndsIn(s, k, n) == /\ k \in 1 .. Len(s) /\ k < Len(n)
                   /\ \A j \in 1 .. k : s[Len(s) - k + j] = n[j]

\* The needles are as newNeedles leaves them.
Needles == \A n \in needles : n \in Seq(Bytes) /\ n # <<>>

\* partialMatch returns the longest end of s with which a match may begin.
LEMMA PartialMatchIs ==
  ASSUME Needles, NEW s \in Seq(Bytes)
  PROVE  /\ partialMatch(s) \in 0 .. Len(s)
         /\ partialMatch(s) = 0 \/ \E n \in needles : partialMatch(s) < Len(n)
         /\ \A n \in needles : \A k \in Nat : EndsIn(s, k, n) => k <= partialMatch(s)
<1> DEFINE P == {k \in 1 .. Len(s) :
                  \E n \in needles : k < Len(n)
                                     /\ SubSeq(s, Len(s) - k + 1, Len(s)) = SubSeq(n, 1, k)}
           T == {0} \cup P
<1>1. partialMatch(s) = Max(T)
  BY DEF partialMatch
<1>2. T \subseteq 0 .. Len(s) /\ 0 \in T /\ Len(s) \in Nat
  OBVIOUS
<1>3. \A n \in needles : \A k \in Nat : EndsIn(s, k, n) => k \in T
  <2> SUFFICES ASSUME NEW n \in needles, NEW k \in Nat, EndsIn(s, k, n)
               PROVE  k \in P
    OBVIOUS
  <2>1. n \in Seq(Bytes) /\ k \in 1 .. Len(s) /\ k < Len(n)
    BY DEF EndsIn, Needles
  <2> DEFINE u == SubSeq(s, Len(s) - k + 1, Len(s))
             v == SubSeq(n, 1, k)
  <2>2. u \in Seq(Bytes) /\ Len(u) = k /\ \A i \in 1 .. k : u[i] = s[Len(s) - k + i]
    <3>1. \A i \in Len(s) - k + 1 .. Len(s) : s[i] \in Bytes
      BY <2>1
    <3>2. /\ u \in Seq(Bytes)
          /\ Len(u) = (IF Len(s) - k + 1 <= Len(s) THEN Len(s) - (Len(s) - k + 1) + 1 ELSE 0)
          /\ \A i \in 1 .. Len(s) - (Len(s) - k + 1) + 1 : u[i] = s[Len(s) - k + 1 + i - 1]
      BY <2>1, <3>1, SubSeqProperties
    <3> HIDE DEF u
    <3> QED
      BY <2>1, <3>2
  <2>3. v \in Seq(Bytes) /\ Len(v) = k /\ \A i \in 1 .. k : v[i] = n[i]
    <3>1. \A i \in 1 .. k : n[i] \in Bytes
      BY <2>1
    <3>2. /\ v \in Seq(Bytes) /\ Len(v) = (IF 1 <= k THEN k - 1 + 1 ELSE 0)
          /\ \A i \in 1 .. k - 1 + 1 : v[i] = n[1 + i - 1]
      BY <2>1, <3>1, SubSeqProperties
    <3> HIDE DEF v
    <3> QED
      BY <2>1, <3>2
  <2> HIDE DEF u, v
  <2>4. u = v
    <3>1. \A i \in 1 .. Len(u) : u[i] = v[i]
      BY <2>1, <2>2, <2>3 DEF EndsIn
    <3> QED
      BY <2>2, <2>3, <3>1, SeqEqual
  <2> QED
    BY <2>1, <2>4 DEF u, v
<1>4. \A k \in P : \E n \in needles : k < Len(n)
  OBVIOUS
<1> HIDE DEF P
<1>5. Max(T) \in T /\ \A y \in T : y <= Max(T)
  <2> HIDE DEF T
  <2> QED
    BY <1>2, GreatestUpTo
<1>6. Max(T) = 0 \/ Max(T) \in P
  BY <1>5
<1>7. Max(T) \in 0 .. Len(s)
  BY <1>2, <1>5
<1> HIDE DEF T
<1> QED
  BY <1>1, <1>3, <1>4, <1>5, <1>6, <1>7

\* No match is under way in W that began before its last h bytes.
Caught(W, h) == \A n \in needles : \A k \in Nat : EndsIn(W, k, n) => k <= h

\* Where the bytes of a concatenation are.
LEMMA Joined ==
  ASSUME NEW S, NEW s \in Seq(S), NEW t \in Seq(S)
  PROVE  /\ s \o t \in Seq(S) /\ Len(s \o t) = Len(s) + Len(t)
         /\ \A i \in 1 .. Len(s) : (s \o t)[i] = s[i]
         /\ \A i \in 1 .. Len(t) : (s \o t)[Len(s) + i] = t[i]
<1>1. /\ s \o t \in Seq(S) /\ Len(s \o t) = Len(s) + Len(t)
      /\ \A i \in 1 .. Len(s) + Len(t) : (s \o t)[i] =
            IF i <= Len(s) THEN s[i] ELSE t[i - Len(s)]
  BY ConcatProperties
<1>2. \A i \in 1 .. Len(t) : Len(s) + i \in 1 .. Len(s) + Len(t) /\ ~(Len(s) + i <= Len(s))
                              /\ Len(s) + i - Len(s) = i
  OBVIOUS
<1> QED
  BY <1>1, <1>2

\* A match that more bytes complete was under way before them.
LEMMA MatchWasUnderWay ==
  ASSUME Needles, NEW W \in Seq(Bytes), NEW p \in Seq(Bytes), NEW n \in needles,
         NEW at \in 1 .. Len(W), at + Len(n) - 1 > Len(W), OccursAt(W \o p, n, at)
  PROVE  EndsIn(W, Len(W) - at + 1, n)
<1> DEFINE V == W \o p
<1>1. n \in Seq(Bytes) /\ Len(n) \in Nat /\ Len(W) \in Nat
  BY DEF Needles
<1>2. V \in Seq(Bytes) /\ \A i \in 1 .. Len(W) : V[i] = W[i]
  BY Joined
<1> HIDE DEF V
<1>3. \A j \in 1 .. Len(n) : V[at + j - 1] = n[j]
  <2>1. at \in Nat \ {0} /\ OccursAt(V, n, at)
    BY <1>1 DEF V
  <2> QED
    BY <1>1, <1>2, <2>1, OccursInBytes
<1>4. ASSUME NEW j \in 1 .. Len(W) - at + 1 PROVE W[Len(W) - (Len(W) - at + 1) + j] = n[j]
  <2>1. j \in 1 .. Len(n) /\ at + j - 1 \in 1 .. Len(W)
    BY <1>1
  <2>2. Len(W) - (Len(W) - at + 1) + j = at + j - 1
    BY <1>1
  <2> QED
    BY <1>2, <1>3, <2>1, <2>2
<1> QED
  BY <1>1, <1>4 DEF EndsIn

\* More bytes change nothing before the last h.
LEMMA SettledBefore ==
  ASSUME Needles, NEW W \in Seq(Bytes), NEW p \in Seq(Bytes), NEW h \in 0 .. Len(W), Caught(W, h),
         NEW i \in 1 .. Len(W)
  PROVE  /\ Matched(W, i) => Matched(W \o p, i)
         /\ i <= Len(W) - h => (Matched(W \o p, i) => Matched(W, i))
<1> DEFINE V == W \o p
<1>1. V \in Seq(Bytes) /\ Len(V) = Len(W) + Len(p) /\ \A j \in 1 .. Len(W) : V[j] = W[j]
  BY Joined
<1>2. \A n \in needles : n \in Seq(Bytes) /\ Len(n) \in Nat
  BY DEF Needles
<1>3. Len(W) \in Nat /\ Len(p) \in Nat
  OBVIOUS
<1> HIDE DEF V
<1>4. ASSUME NEW n \in needles, NEW at \in 1 .. i, at + Len(n) - 1 <= Len(W)
      PROVE  OccursAt(W, n, at) <=> OccursAt(V, n, at)
  <2>1. \A j \in 1 .. Len(n) : at + j - 1 \in 1 .. Len(W)
    BY <1>2, <1>3, <1>4
  <2>2. at + Len(n) - 1 <= Len(V)
    BY <1>1, <1>2, <1>3, <1>4
  <2>3. n \in Seq(Bytes) /\ at \in Nat \ {0}
    BY <1>2
  <2>4. OccursAt(W, n, at) <=> \A j \in 1 .. Len(n) : W[at + j - 1] = n[j]
    BY <1>4, <2>3, OccursInBytes
  <2>5. OccursAt(V, n, at) <=> \A j \in 1 .. Len(n) : V[at + j - 1] = n[j]
    BY <1>1, <2>2, <2>3, OccursInBytes
  <2> QED
    BY <1>1, <2>1, <2>4, <2>5
<1>5. Matched(W, i) => Matched(V, i)
  <2> SUFFICES ASSUME NEW n \in needles, NEW at \in 1 .. i, at + Len(n) > i, OccursAt(W, n, at)
               PROVE  OccursAt(V, n, at)
    BY DEF Matched
  <2>1. at + Len(n) - 1 <= Len(W)
    BY <1>2, OccursInBytes
  <2> QED
    BY <1>4, <2>1
<1>6. ASSUME i <= Len(W) - h, Matched(V, i) PROVE Matched(W, i)
  <2>1. PICK n \in needles : \E at \in 1 .. i : at + Len(n) > i /\ OccursAt(V, n, at)
    BY <1>6 DEF Matched
  <2>2. PICK at \in 1 .. i : at + Len(n) > i /\ OccursAt(V, n, at)
    BY <2>1
  <2>3. CASE at + Len(n) - 1 <= Len(W)
    BY <1>4, <2>2, <2>3 DEF Matched
  <2>4. CASE at + Len(n) - 1 > Len(W)
    <3>1. at \in 1 .. Len(W)
      BY <1>3
    <3>2. EndsIn(W, Len(W) - at + 1, n)
      BY <2>2, <2>4, <3>1, MatchWasUnderWay DEF V
    <3>3. Len(W) - at + 1 <= h
      BY <1>3, <3>1, <3>2 DEF Caught
    <3> QED
      BY <1>3, <1>6, <3>3
  <2> QED
    BY <1>2, <1>3, <2>3, <2>4
<1> QED
  BY <1>5, <1>6 DEF V

\* What a match in the bytes held back and the new ones is in the whole response.  (D is
\* what was sent, H what is held back.)
LEMMA MarksAreRight ==
  ASSUME Needles, NEW D \in Seq(Bytes), NEW H \in Seq(Bytes), NEW p \in Seq(Bytes),
         Caught(D \o H, Len(H)), NEW i \in 1 .. Len(H) + Len(p)
  PROVE  Matched(D \o (H \o p), Len(D) + i) <=>
           \/ Matched(H \o p, i)
           \/ i <= Len(H) /\ Matched(D \o H, Len(D) + i)
<1> DEFINE W == D \o H
           B == H \o p
           V == D \o B
<1>1. /\ W \in Seq(Bytes) /\ Len(W) = Len(D) + Len(H)
      /\ B \in Seq(Bytes) /\ Len(B) = Len(H) + Len(p)
  BY Joined
<1>2. W \o p = V
  BY ConcatAssociative
<1>3. V \in Seq(Bytes) /\ Len(V) = Len(D) + Len(B) /\ \A j \in 1 .. Len(B) : V[Len(D) + j] = B[j]
  <2> HIDE DEF B
  <2>1. B \in Seq(Bytes)
    BY <1>1
  <2>2. V \in Seq(Bytes) /\ Len(V) = Len(D) + Len(B)
    BY <2>1, Joined
  <2>3. \A j \in 1 .. Len(B) : (D \o B)[Len(D) + j] = B[j]
    BY <2>1, Joined
  <2> QED
    BY <2>2, <2>3
<1>4. \A n \in needles : n \in Seq(Bytes) /\ Len(n) \in Nat
  BY DEF Needles
<1>5. Len(D) \in Nat /\ Len(H) \in Nat /\ Len(p) \in Nat
  OBVIOUS
<1> HIDE DEF W, B, V
<1>6. ASSUME NEW n \in needles, NEW at \in 1 .. i
      PROVE  OccursAt(B, n, at) <=> OccursAt(V, n, Len(D) + at)
  <2>1. \A j \in 1 .. Len(n) : at + j - 1 <= Len(B) =>
           at + j - 1 \in 1 .. Len(B) /\ Len(D) + at + j - 1 = Len(D) + (at + j - 1)
    BY <1>4, <1>5, <1>1
  <2>2. at + Len(n) - 1 <= Len(B) <=> Len(D) + at + Len(n) - 1 <= Len(V)
    BY <1>1, <1>3, <1>4, <1>5
  <2>3. at + Len(n) - 1 <= Len(B) => \A j \in 1 .. Len(n) : at + j - 1 <= Len(B)
    BY <1>1, <1>4, <1>5
  <2>4. at \in Nat \ {0} /\ Len(D) + at \in Nat \ {0}
    BY <1>5
  <2>5. OccursAt(B, n, at) <=> /\ at + Len(n) - 1 <= Len(B)
                               /\ \A j \in 1 .. Len(n) : B[at + j - 1] = n[j]
    BY <1>1, <1>4, <2>4, OccursInBytes, Zenon, ZenonT(60)
  <2>6. OccursAt(V, n, Len(D) + at) <=> /\ Len(D) + at + Len(n) - 1 <= Len(V)
                                        /\ \A j \in 1 .. Len(n) : V[Len(D) + at + j - 1] = n[j]
    BY <1>3, <1>4, <2>4, OccursInBytes, Zenon
  <2> QED
    BY <1>3, <2>1, <2>2, <2>3, <2>5, <2>6
<1>7. Matched(B, i) => Matched(V, Len(D) + i)
  <2> SUFFICES ASSUME NEW n \in needles, NEW at \in 1 .. i, at + Len(n) > i, OccursAt(B, n, at)
               PROVE  Matched(V, Len(D) + i)
    BY DEF Matched
  <2>1. OccursAt(V, n, Len(D) + at)
    BY <1>6
  <2>2. Len(D) + at \in 1 .. Len(D) + i /\ Len(D) + at + Len(n) > Len(D) + i
    BY <1>4, <1>5
  <2> QED
    BY <2>1, <2>2 DEF Matched
<1>8. i <= Len(H) /\ Matched(W, Len(D) + i) => Matched(V, Len(D) + i)
  <2> SUFFICES ASSUME i <= Len(H), Matched(W, Len(D) + i) PROVE Matched(W \o p, Len(D) + i)
    BY <1>2
  <2>1. Len(D) + i \in 1 .. Len(W) /\ Len(H) \in 0 .. Len(W) /\ Caught(W, Len(H))
    BY <1>1, <1>5 DEF W
  <2> QED
    BY <1>1, <2>1, SettledBefore
<1>9. ASSUME Matched(V, Len(D) + i)
      PROVE  Matched(B, i) \/ (i <= Len(H) /\ Matched(W, Len(D) + i))
  <2>1. PICK n \in needles : \E at \in 1 .. Len(D) + i : at + Len(n) > Len(D) + i /\ OccursAt(V, n, at)
    BY <1>9 DEF Matched
  <2>2. PICK at \in 1 .. Len(D) + i : at + Len(n) > Len(D) + i /\ OccursAt(V, n, at)
    BY <2>1
  <2>3. CASE at > Len(D)
    <3>1. at - Len(D) \in 1 .. i /\ at - Len(D) + Len(n) > i /\ Len(D) + (at - Len(D)) = at
      BY <1>4, <1>5, <2>2, <2>3
    <3>2. OccursAt(B, n, at - Len(D))
      BY <1>6, <2>2, <3>1
    <3> QED
      BY <3>1, <3>2 DEF Matched
  <2>4. CASE at <= Len(D) /\ at + Len(n) - 1 > Len(W)
    <3>1. at \in 1 .. Len(W)
      BY <1>1, <1>5, <2>4
    <3>2. EndsIn(W, Len(W) - at + 1, n)
      BY <1>1, <1>2, <2>2, <2>4, <3>1, MatchWasUnderWay
    <3>3. Len(W) - at + 1 <= Len(H)
      BY <1>1, <1>5, <3>1, <3>2 DEF Caught, W
    <3> QED
      BY <1>1, <1>5, <2>4, <3>3
  <2>5. CASE at <= Len(D) /\ at + Len(n) - 1 <= Len(W)
    <3>1. i <= Len(H)
      BY <1>1, <1>4, <1>5, <2>2, <2>5
    <3>2. OccursAt(W, n, at)
      <4>1. \A j \in 1 .. Len(n) : at + j - 1 \in 1 .. Len(W)
        BY <1>1, <1>4, <1>5, <2>5
      <4>2. \A j \in 1 .. Len(W) : V[j] = W[j]
        <5>1. W \in Seq(Bytes) /\ V = W \o p
          BY <1>1, <1>2
        <5> HIDE DEF W, V
        <5> QED
          BY <5>1, Joined
      <4>3. \A j \in 1 .. Len(n) : V[at + j - 1] = n[j]
        BY <1>3, <1>4, <2>2, OccursInBytes, SMTT(30)
      <4>4. \A j \in 1 .. Len(n) : W[at + j - 1] = n[j]
        BY <4>1, <4>2, <4>3
      <4>5. n \in Seq(Bytes) /\ at \in Nat \ {0}
        BY <1>4
      <4> QED
        BY <1>1, <2>5, <4>4, <4>5, OccursInBytes
    <3> QED
      BY <2>2, <3>1, <3>2 DEF Matched
  <2> QED
    BY <1>1, <1>4, <1>5, <2>3, <2>4, <2>5
<1> QED
  BY <1>7, <1>8, <1>9 DEF W, B, V

\* What partialMatch keeps of the bytes held back and the new ones is all that a match
\* may still need.
LEMMA StillCaught ==
  ASSUME Needles, NEW D \in Seq(Bytes), NEW H \in Seq(Bytes), NEW p \in Seq(Bytes),
         Caught(D \o H, Len(H))
  PROVE  Caught(D \o (H \o p), partialMatch(H \o p))
<1> DEFINE W == D \o H
           B == H \o p
           V == D \o B
<1>1. /\ W \in Seq(Bytes) /\ Len(W) = Len(D) + Len(H)
      /\ B \in Seq(Bytes) /\ Len(B) = Len(H) + Len(p)
  BY Joined
<1>2. W \o p = V
  BY ConcatAssociative
<1>3. V \in Seq(Bytes) /\ Len(V) = Len(D) + Len(B) /\ \A j \in 1 .. Len(B) : V[Len(D) + j] = B[j]
  <2> HIDE DEF B
  <2>1. B \in Seq(Bytes)
    BY <1>1
  <2>2. V \in Seq(Bytes) /\ Len(V) = Len(D) + Len(B)
    BY <2>1, Joined
  <2>3. \A j \in 1 .. Len(B) : (D \o B)[Len(D) + j] = B[j]
    BY <2>1, Joined
  <2> QED
    BY <2>2, <2>3
<1>4. \A j \in 1 .. Len(W) : V[j] = W[j]
  <2> HIDE DEF W
  <2> QED
    BY <1>1, <1>2, Joined
<1>5. Len(D) \in Nat /\ Len(H) \in Nat /\ Len(p) \in Nat
  OBVIOUS
<1> HIDE DEF W, B, V
<1> SUFFICES ASSUME NEW n \in needles, NEW k \in Nat, EndsIn(V, k, n)
             PROVE  k <= partialMatch(B)
  BY DEF Caught, V, B
<1>6. /\ k \in 1 .. Len(V) /\ k < Len(n) /\ \A j \in 1 .. k : V[Len(V) - k + j] = n[j]
      /\ n \in Seq(Bytes) /\ Len(n) \in Nat
  BY DEF EndsIn, Needles
<1>7. CASE k <= Len(B)
  <2>1. ASSUME NEW j \in 1 .. k PROVE B[Len(B) - k + j] = n[j]
    <3>1. Len(B) - k + j \in 1 .. Len(B) /\ Len(D) + (Len(B) - k + j) = Len(V) - k + j
      BY <1>1, <1>3, <1>5, <1>7
    <3> QED
      BY <1>3, <1>6, <3>1
  <2>2. EndsIn(B, k, n)
    <3>1. k \in 1 .. Len(B)
      BY <1>1, <1>6, <1>7
    <3> QED
      BY <1>6, <2>1, <3>1 DEF EndsIn
  <2> QED
    BY <1>1, <2>2, PartialMatchIs
<1>8. CASE k > Len(B)
  <2> DEFINE l == k - Len(p)
  <2>1. l \in 1 .. Len(W) /\ l > Len(H) /\ l < Len(n)
    BY <1>1, <1>3, <1>5, <1>6, <1>8
  <2>2. ASSUME NEW j \in 1 .. l PROVE W[Len(W) - l + j] = n[j]
    <3>0. Len(W) - l = Len(V) - k /\ l \in 1 .. k
      BY <1>1, <1>3, <1>5, <1>6, <2>1
    <3>1. Len(W) - l + j \in 1 .. Len(W) /\ Len(W) - l + j = Len(V) - k + j /\ j \in 1 .. k
      <4>1. Len(W) \in Nat /\ l \in Nat /\ j \in Nat /\ k \in Nat /\ Len(V) \in Nat /\ j >= 1 /\ j <= l
        BY <1>1, <1>3, <2>1, <3>0
      <4> HIDE DEF l
      <4> QED
        BY <4>1, <2>1, <3>0, SMTT(30)
    <3> QED
      BY <1>4, <1>6, <3>1
  <2> HIDE DEF l
  <2>3. EndsIn(W, l, n)
    BY <2>1, <2>2 DEF EndsIn
  <2>4. l <= Len(H)
    BY <1>1, <2>1, <2>3 DEF Caught, W
  <2> QED
    BY <1>5, <2>1, <2>4
<1> QED
  BY <1>1, <1>3, <1>5, <1>6, <1>7, <1>8

-----------------------------------------------------------------------------
\* What the Agent may be sent.
Shown == Bytes \cup {maskFor}

\* The invariant: what was sent is right for all that can still come, what is held back
\* is the rest of the response, and the marks of it are the matches so far.
RedactType ==
  /\ needles \in NeedleSets
  /\ written \in Seq(Bytes) /\ held \in Seq(Bytes) /\ output \in Seq(Shown) /\ marked \in Seq(BOOLEAN)

SentIsMasked ==
  /\ Len(output) <= Len(written)
  /\ \A j \in 1 .. Len(output) : output[j] = IF Matched(written, j) THEN maskFor ELSE written[j]

HeldIsRest ==
  /\ \E D \in Seq(Bytes) : written = D \o held /\ Len(D) = Len(output)
  /\ Caught(written, Len(held))
  /\ Len(marked) = Len(held)
  /\ \A i \in 1 .. Len(held) : marked[i] <=> Matched(written, Len(output) + i)
  /\ held = <<>> \/ \E n \in needles : Len(held) < Len(n)

RedactInv ==
  /\ RedactType /\ SentIsMasked
  /\ state = "open" => HeldIsRest
  /\ state = "closed" => Len(output) = Len(written)

\* What NewRedactor is given are needles.
LEMMA NeedlesAreBytes == needles \in NeedleSets => Needles
  BY RedactAssumption DEF Needles

\* applyMask keeps the length, and masks what is marked.
LEMMA MaskApplied ==
  ASSUME NEW s \in Seq(Bytes), NEW marks \in Seq(BOOLEAN), Len(marks) = Len(s)
  PROVE  /\ applyMask(s, marks) \in Seq(Shown) /\ Len(applyMask(s, marks)) = Len(s)
         /\ \A i \in 1 .. Len(s) : applyMask(s, marks)[i] = IF marks[i] THEN maskFor ELSE s[i]
<1> DEFINE t == [i \in 1 .. Len(s) |-> IF marks[i] THEN maskFor ELSE s[i]]
<1>1. applyMask(s, marks) = t
  BY DEF applyMask
<1>2. \A i \in 1 .. Len(s) : t[i] \in Shown
  BY DEF Shown
<1>3. t \in Seq(Shown) /\ Len(t) = Len(s)
  BY <1>2
<1> QED
  BY <1>1, <1>3

\* The first k of a sequence and the rest.
LEMMA Cut ==
  ASSUME NEW S, NEW s \in Seq(S), NEW k \in 0 .. Len(s)
  PROVE  /\ SubSeq(s, 1, k) \in Seq(S) /\ Len(SubSeq(s, 1, k)) = k
         /\ \A i \in 1 .. k : SubSeq(s, 1, k)[i] = s[i]
         /\ SubSeq(s, k + 1, Len(s)) \in Seq(S) /\ Len(SubSeq(s, k + 1, Len(s))) = Len(s) - k
         /\ \A i \in 1 .. Len(s) - k : SubSeq(s, k + 1, Len(s))[i] = s[k + i]
         /\ SubSeq(s, 1, k) \o SubSeq(s, k + 1, Len(s)) = s
<1>1. Len(s) \in Nat /\ k \in Nat /\ \A i \in 1 .. Len(s) : s[i] \in S
  OBVIOUS
<1> DEFINE a == SubSeq(s, 1, k)
           c == SubSeq(s, k + 1, Len(s))
<1>2. a \in Seq(S) /\ Len(a) = k /\ \A i \in 1 .. k : a[i] = s[i]
  <2>1. \A i \in 1 .. k : s[i] \in S
    OBVIOUS
  <2>2. /\ a \in Seq(S) /\ Len(a) = (IF 1 <= k THEN k - 1 + 1 ELSE 0)
        /\ \A i \in 1 .. k - 1 + 1 : a[i] = s[1 + i - 1]
    BY <2>1, SubSeqProperties
  <2> HIDE DEF a
  <2> QED
    BY <2>2
<1>3. c \in Seq(S) /\ Len(c) = Len(s) - k /\ \A i \in 1 .. Len(s) - k : c[i] = s[k + i]
  <2>1. \A i \in k + 1 .. Len(s) : s[i] \in S
    OBVIOUS
  <2>2. /\ c \in Seq(S) /\ Len(c) = (IF k + 1 <= Len(s) THEN Len(s) - (k + 1) + 1 ELSE 0)
        /\ \A i \in 1 .. Len(s) - (k + 1) + 1 : c[i] = s[k + 1 + i - 1]
    BY <2>1, SubSeqProperties
  <2>3. \A i \in 1 .. Len(s) - k : i \in 1 .. Len(s) - (k + 1) + 1 /\ k + 1 + i - 1 = k + i
    OBVIOUS
  <2> HIDE DEF c
  <2> QED
    BY <2>2, <2>3
<1>4. a \o c = s
  <2> HIDE DEF a, c
  <2>1. a \o c \in Seq(S) /\ Len(a \o c) = Len(s)
    BY <1>2, <1>3, Joined
  <2>2. ASSUME NEW i \in 1 .. Len(s) PROVE (a \o c)[i] = s[i]
    <3>1. CASE i <= k
      BY <1>2, <1>3, <3>1, Joined
    <3>2. CASE i > k
      <4>1. i - k \in 1 .. Len(c) /\ k + (i - k) = i
        BY <1>3, <3>2
      <4>2. (a \o c)[Len(a) + (i - k)] = c[i - k]
        BY <1>2, <1>3, <4>1, Joined
      <4> QED
        BY <1>2, <1>3, <4>1, <4>2
    <3>3. i <= k \/ i > k
      OBVIOUS
    <3> QED
      BY <3>1, <3>2, <3>3, Zenon
  <2> QED
    BY <2>1, <2>2, SeqEqual
<1> QED
  BY <1>2, <1>3, <1>4

\* The marks that Write works with are the matches in the whole response.
LEMMA MarksFound ==
  ASSUME RedactInv, state = "open", NEW p \in Seq(Bytes)
  PROVE  /\ marksFor(p) \in Seq(BOOLEAN) /\ Len(marksFor(p)) = Len(held \o p)
         /\ \A i \in 1 .. Len(held \o p) :
              marksFor(p)[i] <=> Matched(written \o p, Len(output) + i)
<1>1. Needles /\ held \in Seq(Bytes) /\ marked \in Seq(BOOLEAN) /\ HeldIsRest
  BY NeedlesAreBytes DEF RedactInv, RedactType
<1>2. PICK D \in Seq(Bytes) : written = D \o held /\ Len(D) = Len(output)
  BY <1>1 DEF HeldIsRest
<1> DEFINE B == held \o p
<1>3. B \in Seq(Bytes) /\ Len(B) = Len(held) + Len(p) /\ Len(held) \in Nat /\ Len(p) \in Nat
  BY <1>1, Joined
<1>4. written \o p = D \o B
  <2>1. (D \o held) \o p = D \o (held \o p)
    BY <1>1, ConcatAssociative, SMTT(30)
  <2> QED
    BY <1>2, <2>1, Zenon
<1>5. ASSUME NEW i \in 1 .. Len(B)
      PROVE  Matched(written \o p, Len(output) + i) <=>
               Matched(B, i) \/ (i <= Len(marked) /\ marked[i])
  <2>1. i \in 1 .. Len(held) + Len(p)
    BY <1>3
  <2>2. Caught(D \o held, Len(held))
    BY <1>1, <1>2 DEF HeldIsRest
  <2>3. Matched(D \o B, Len(D) + i) <=>
          Matched(B, i) \/ (i <= Len(held) /\ Matched(D \o held, Len(D) + i))
    BY <1>1, <2>1, <2>2, MarksAreRight
  <2>4. i <= Len(held) => (marked[i] <=> Matched(written, Len(output) + i))
    BY <1>1, <1>3 DEF HeldIsRest
  <2>5. Len(marked) = Len(held)
    BY <1>1 DEF HeldIsRest
  <2> QED
    BY <1>2, <1>4, <2>3, <2>4, <2>5
<1>6. CASE ~(held = <<>> /\ ~containsAny(p))
  <2>1. marksFor(p) = [i \in 1 .. Len(B) |-> Matched(B, i) \/ (i <= Len(marked) /\ marked[i])]
    BY <1>3, <1>6 DEF marksFor, markMatches
  <2>2. \A i \in 1 .. Len(B) : (Matched(B, i) \/ (i <= Len(marked) /\ marked[i])) \in BOOLEAN
    <3> SUFFICES ASSUME NEW i \in 1 .. Len(B), i <= Len(marked) PROVE marked[i] \in BOOLEAN
      BY DEF Matched
    <3> QED
      BY <1>1, <1>3
  <2> DEFINE f(i) == Matched(B, i) \/ (i <= Len(marked) /\ marked[i])
  <2>3. marksFor(p) = [i \in 1 .. Len(B) |-> f(i)] /\ \A i \in 1 .. Len(B) : f(i) \in BOOLEAN
    BY <2>1, <2>2
  <2>4. \A i \in 1 .. Len(B) : f(i) <=> Matched(written \o p, Len(output) + i)
    BY <1>5
  <2> HIDE DEF f, B
  <2>5. marksFor(p) \in Seq(BOOLEAN) /\ Len(marksFor(p)) = Len(B)
    BY <1>3, <2>3
  <2> QED
    BY <1>3, <2>3, <2>4, <2>5 DEF B
<1>7. CASE held = <<>> /\ ~containsAny(p)
  <2>1. B = p
    BY <1>7, ConcatEmptySeq
  <2>2. marksFor(p) = [i \in 1 .. Len(p) |-> FALSE]
    BY <1>7 DEF marksFor
  <2>3. Len(marked) = 0
    BY <1>1, <1>7 DEF HeldIsRest
  <2>4. ASSUME NEW i \in 1 .. Len(p) PROVE ~Matched(p, i)
    BY <1>7 DEF Matched, containsAny
  <2>5. marksFor(p) \in Seq(BOOLEAN) /\ Len(marksFor(p)) = Len(p)
    BY <2>2
  <2>6. \A i \in 1 .. Len(p) : ~Matched(written \o p, Len(output) + i)
    BY <1>5, <2>1, <2>3, <2>4
  <2> QED
    BY <2>1, <2>2, <2>5, <2>6
<1> QED
  BY <1>6, <1>7

\* Bytes that are masked where the response has a match may follow what was sent.
LEMMA SentGrows ==
  ASSUME RedactInv, state = "open", NEW p \in Seq(Bytes), NEW part \in Seq(Shown),
         Len(part) <= Len(held \o p),
         \A i \in 1 .. Len(part) :
           part[i] = IF Matched(written \o p, Len(output) + i) THEN maskFor ELSE (held \o p)[i]
  PROVE  /\ output \o part \in Seq(Shown) /\ Len(output \o part) = Len(output) + Len(part)
         /\ Len(output \o part) <= Len(written \o p)
         /\ \A j \in 1 .. Len(output \o part) :
              (output \o part)[j] = IF Matched(written \o p, j) THEN maskFor ELSE (written \o p)[j]
<1>1. /\ Needles /\ held \in Seq(Bytes) /\ output \in Seq(Shown) /\ written \in Seq(Bytes)
      /\ HeldIsRest /\ SentIsMasked
  BY NeedlesAreBytes DEF RedactInv, RedactType
<1>2. PICK D \in Seq(Bytes) : written = D \o held /\ Len(D) = Len(output)
  BY <1>1 DEF HeldIsRest
<1> DEFINE B == held \o p
           W == written \o p
           O == output \o part
<1>3. B \in Seq(Bytes) /\ Len(B) = Len(held) + Len(p) /\ Len(held) \in Nat /\ Len(p) \in Nat
  BY <1>1, Joined
<1>4. W = D \o B
  <2>1. (D \o held) \o p = D \o (held \o p)
    BY <1>1, ConcatAssociative, SMTT(30)
  <2> QED
    BY <1>2, <2>1, Zenon
<1>5. /\ O \in Seq(Shown) /\ Len(O) = Len(output) + Len(part)
      /\ \A i \in 1 .. Len(output) : O[i] = output[i]
      /\ \A i \in 1 .. Len(part) : O[Len(output) + i] = part[i]
  BY <1>1, Joined
<1>6. /\ W \in Seq(Bytes) /\ Len(W) = Len(D) + Len(B)
      /\ \A i \in 1 .. Len(D) : W[i] = D[i]
      /\ \A i \in 1 .. Len(B) : W[Len(D) + i] = B[i]
  <2> HIDE DEF W, B
  <2>0. B \in Seq(Bytes)
    BY <1>3
  <2>1. /\ D \o B \in Seq(Bytes) /\ Len(D \o B) = Len(D) + Len(B)
        /\ \A i \in 1 .. Len(D) : (D \o B)[i] = D[i]
    BY <2>0, Joined
  <2>2. \A i \in 1 .. Len(B) : (D \o B)[Len(D) + i] = B[i]
    BY <2>0, Joined
  <2> QED
    BY <1>4, <2>1, <2>2, Zenon
<1>7. \A i \in 1 .. Len(written) : W[i] = written[i]
  BY <1>1, Joined
<1>8. Len(written) = Len(output) + Len(held) /\ Len(output) \in Nat /\ Len(part) \in Nat
  <2>1. Len(D \o held) = Len(D) + Len(held)
    BY <1>1, Joined
  <2> QED
    BY <1>1, <1>2, <2>1
<1>9. \A i \in 1 .. Len(part) : part[i] = IF Matched(W, Len(output) + i) THEN maskFor ELSE B[i]
  OBVIOUS
<1>10. Len(part) <= Len(B)
  OBVIOUS
<1>11. ASSUME NEW i \in 1 .. Len(output) PROVE Matched(W, i) <=> Matched(written, i)
  <2>1. Len(held) \in 0 .. Len(written) /\ i \in 1 .. Len(written) /\ i <= Len(written) - Len(held)
    BY <1>3, <1>8
  <2>2. Caught(written, Len(held))
    BY <1>1 DEF HeldIsRest
  <2> QED
    BY <1>1, <2>1, <2>2, SettledBefore
<1> HIDE DEF W, B, O
<1>12. ASSUME NEW j \in 1 .. Len(O) PROVE O[j] = IF Matched(W, j) THEN maskFor ELSE W[j]
  <2>1. CASE j <= Len(output)
    <3>1. j \in 1 .. Len(output) /\ j \in 1 .. Len(written)
      BY <1>3, <1>8, <2>1
    <3>2. output[j] = IF Matched(written, j) THEN maskFor ELSE written[j]
      BY <1>1, <3>1 DEF SentIsMasked
    <3> QED
      BY <1>5, <1>7, <1>11, <3>1, <3>2
  <2>2. CASE j > Len(output)
    <3>1. PICK i \in 1 .. Len(part) : j = Len(output) + i
      <4>1. j - Len(output) \in 1 .. Len(part) /\ j = Len(output) + (j - Len(output))
        BY <1>5, <1>8, <2>2
      <4> QED
        BY <4>1
    <3>2. O[j] = part[i]
      BY <1>5, <3>1
    <3>3. i \in 1 .. Len(B)
      BY <1>3, <1>8, <1>10
    <3>4. W[j] = B[i]
      BY <1>2, <1>6, <3>1, <3>3
    <3> QED
      BY <1>9, <3>1, <3>2, <3>4
  <2>3. j \in Nat
    OBVIOUS
  <2> QED
    BY <1>8, <2>1, <2>2, <2>3
<1>13. Len(O) <= Len(W)
  BY <1>2, <1>3, <1>5, <1>6, <1>8, <1>10
<1> QED
  BY <1>5, <1>12, <1>13 DEF O, W

\* What sent gives to the underlying writer.
LEMMA SentIs ==
  ASSUME RedactInv, state = "open", NEW p \in Seq(Bytes), NEW k \in Nat,
         k = Len(held \o p) - partialMatch(held \o p)
  PROVE  LET part == sent(held \o p, marksFor(p)) IN
         /\ part \in Seq(Shown) /\ Len(part) = k /\ k <= Len(held \o p)
         /\ \A i \in 1 .. k :
              part[i] = IF Matched(written \o p, Len(output) + i) THEN maskFor ELSE (held \o p)[i]
<1> DEFINE B == held \o p
           M == marksFor(p)
           s == SubSeq(B, 1, k)
           m == SubSeq(M, 1, k)
<1>1. Needles /\ held \in Seq(Bytes)
  BY NeedlesAreBytes DEF RedactInv, RedactType
<1>2. B \in Seq(Bytes) /\ Len(B) \in Nat
  BY <1>1, Joined
<1>3. k \in 0 .. Len(B)
  <2> HIDE DEF B
  <2>1. partialMatch(B) \in 0 .. Len(B)
    BY <1>1, <1>2, PartialMatchIs
  <2> QED
    BY <1>2, <2>1 DEF B
<1>4. M \in Seq(BOOLEAN) /\ Len(M) = Len(B)
      /\ \A i \in 1 .. Len(B) : M[i] <=> Matched(written \o p, Len(output) + i)
  BY MarksFound
<1>5. sent(B, M) = applyMask(s, m)
  BY DEF sent
<1> HIDE DEF B, M
<1>6. s \in Seq(Bytes) /\ Len(s) = k /\ \A i \in 1 .. k : s[i] = B[i]
  BY <1>2, <1>3, Cut
<1>7. m \in Seq(BOOLEAN) /\ Len(m) = k /\ \A i \in 1 .. k : m[i] = M[i]
  BY <1>3, <1>4, Cut
<1> HIDE DEF s, m
<1>8. /\ applyMask(s, m) \in Seq(Shown) /\ Len(applyMask(s, m)) = k
      /\ \A i \in 1 .. k : applyMask(s, m)[i] = IF m[i] THEN maskFor ELSE s[i]
  BY <1>6, <1>7, MaskApplied
<1>9. \A i \in 1 .. k : i \in 1 .. Len(B)
  BY <1>2, <1>3
<1>10. ASSUME NEW i \in 1 .. k
       PROVE  sent(B, M)[i] = IF Matched(written \o p, Len(output) + i) THEN maskFor ELSE B[i]
  <2>1. sent(B, M)[i] = IF M[i] THEN maskFor ELSE B[i]
    BY <1>5, <1>6, <1>7, <1>8
  <2>2. M[i] <=> Matched(written \o p, Len(output) + i)
    BY <1>4, <1>9
  <2> QED
    BY <2>1, <2>2, Zenon
<1> QED
  BY <1>3, <1>5, <1>8, <1>10 DEF B, M

\* The masks and matches of the next state are of the same needles.
LEMMA SameNeedles ==
  ASSUME needles' = needles
  PROVE  /\ maskFor' = maskFor /\ Shown' = Shown
         /\ \A s, i : Matched(s, i)' <=> Matched(s, i)
  BY DEF maskFor, Shown, Matched, OccursAt, holds

\* A state with the same needles whose output is masked right.
LEMMA NextMasked ==
  ASSUME RedactType, needles' = needles, written' \in Seq(Bytes), held' \in Seq(Bytes),
         marked' \in Seq(BOOLEAN), output' \in Seq(Shown), Len(output') <= Len(written'),
         \A j \in 1 .. Len(output') : output'[j] = IF Matched(written', j) THEN maskFor ELSE written'[j]
  PROVE  RedactType' /\ SentIsMasked'
<1>1. RedactType'
  BY SameNeedles DEF RedactType
<1>2. SentIsMasked'
  <2>1. \A j : Matched(written, j)' <=> Matched(written', j)
    BY DEF Matched
  <2> QED
    BY <2>1, SameNeedles DEF SentIsMasked
<1> QED
  BY <1>1, <1>2

\* A Write keeps the invariant: what it sends is masked as the whole body would be, and
\* what it holds back is the only part a later Write can still change.
LEMMA WriteStep ==
  ASSUME RedactInv, NEW p \in Seq(Bytes), Write(p)
  PROVE  RedactInv'
<1> DEFINE B == held \o p
           M == marksFor(p)
           k == Len(B) - partialMatch(B)
           W == written \o p
           part == sent(B, M)
<1>1. /\ Needles /\ held \in Seq(Bytes) /\ output \in Seq(Shown) /\ written \in Seq(Bytes)
      /\ HeldIsRest /\ RedactType /\ state = "open" /\ needles' = needles /\ state' = "open"
  BY NeedlesAreBytes DEF RedactInv, RedactType, Write
<1>2. PICK D \in Seq(Bytes) : written = D \o held /\ Len(D) = Len(output)
  BY <1>1 DEF HeldIsRest
<1>3. /\ written' = W /\ output' = output \o part
      /\ held' = SubSeq(B, k + 1, Len(B)) /\ marked' = SubSeq(M, k + 1, Len(B))
  BY DEF Write, Keep
<1>4. B \in Seq(Bytes) /\ Len(B) \in Nat /\ W \in Seq(Bytes)
  BY <1>1, Joined
<1>5. W = D \o B
  <2>1. (D \o held) \o p = D \o (held \o p)
    BY <1>1, ConcatAssociative, SMTT(30)
  <2> QED
    BY <1>2, <2>1, Zenon
<1>6. /\ partialMatch(B) \in 0 .. Len(B)
      /\ partialMatch(B) = 0 \/ \E n \in needles : partialMatch(B) < Len(n)
  <2> HIDE DEF B
  <2> QED
    BY <1>1, <1>4, PartialMatchIs
<1>7. M \in Seq(BOOLEAN) /\ Len(M) = Len(B)
      /\ \A i \in 1 .. Len(B) : M[i] <=> Matched(W, Len(output) + i)
  BY <1>1, MarksFound
<1>8. k \in 0 .. Len(B) /\ k \in Nat
  <2> HIDE DEF B
  <2> QED
    BY <1>4, <1>6
<1>9. /\ part \in Seq(Shown) /\ Len(part) = k
      /\ \A i \in 1 .. k : part[i] = IF Matched(W, Len(output) + i) THEN maskFor ELSE B[i]
  BY <1>1, <1>8, SentIs
<1>10. /\ output' \in Seq(Shown) /\ Len(output') = Len(output) + k /\ Len(output') <= Len(W)
       /\ \A j \in 1 .. Len(output') : output'[j] = IF Matched(W, j) THEN maskFor ELSE W[j]
  <2> HIDE DEF part, k
  <2>1. Len(part) <= Len(B)
    BY <1>4, <1>8, <1>9
  <2> QED
    BY <1>1, <1>3, <1>9, <2>1, SentGrows
<1>11. Caught(W, partialMatch(B))
  <2>1. Caught(D \o held, Len(held))
    BY <1>1, <1>2 DEF HeldIsRest
  <2> QED
    BY <1>1, <1>5, <2>1, StillCaught
<1> HIDE DEF M, W, part
<1>12. /\ held' \in Seq(Bytes) /\ Len(held') = partialMatch(B)
       /\ SubSeq(B, 1, k) \in Seq(Bytes) /\ Len(SubSeq(B, 1, k)) = k
       /\ SubSeq(B, 1, k) \o held' = B
  <2>1. Len(B) - k = partialMatch(B)
    <3> HIDE DEF B
    <3> QED
      BY <1>4, <1>6
  <2> HIDE DEF k, B
  <2> QED
    BY <1>3, <1>4, <1>8, <2>1, Cut, ZenonT(60)
<1>13. /\ marked' \in Seq(BOOLEAN) /\ Len(marked') = Len(held')
       /\ \A i \in 1 .. Len(held') : marked'[i] = M[k + i]
  <2>1. Len(B) - k = partialMatch(B)
    <3> HIDE DEF B
    <3> QED
      BY <1>4, <1>6
  <2> HIDE DEF k, B
  <2>2. /\ SubSeq(M, k + 1, Len(M)) \in Seq(BOOLEAN)
        /\ Len(SubSeq(M, k + 1, Len(M))) = Len(M) - k
        /\ \A i \in 1 .. Len(M) - k : SubSeq(M, k + 1, Len(M))[i] = M[k + i]
    BY <1>7, <1>8, Cut
  <2> QED
    BY <1>3, <1>7, <1>12, <2>1, <2>2
<1> HIDE DEF k, B
<1>14. RedactType' /\ SentIsMasked'
  <2>1. \A j \in 1 .. Len(output') : output'[j] = IF Matched(written', j) THEN maskFor ELSE written'[j]
    BY <1>3, <1>10
  <2> QED
    BY <1>1, <1>3, <1>4, <1>10, <1>12, <1>13, <2>1, NextMasked
<1>15. HeldIsRest'
  <2> DEFINE E == D \o SubSeq(B, 1, k)
  <2>1. E \in Seq(Bytes) /\ Len(E) = Len(output')
    BY <1>2, <1>10, <1>12, Joined
  <2>2. written' = E \o held'
    <3> DEFINE A == SubSeq(B, 1, k)
    <3>1. A \in Seq(Bytes) /\ held' \in Seq(Bytes) /\ A \o held' = B
      BY <1>12
    <3>2. E = D \o A
      OBVIOUS
    <3> HIDE DEF A, E
    <3>3. (D \o A) \o held' = D \o (A \o held')
      <4>1. A \in Seq(Bytes) /\ held' \in Seq(Bytes)
        BY <3>1
      <4> QED
        BY <4>1, ConcatAssociative
    <3> QED
      BY <1>3, <1>5, <3>1, <3>2, <3>3
  <2> HIDE DEF E
  <2>3. \E F \in Seq(Bytes) : written' = F \o held' /\ Len(F) = Len(output')
    BY <2>1, <2>2
  <2>4. Caught(written, Len(held))'
    BY <1>1, <1>3, <1>11, <1>12 DEF Caught
  <2>5. ASSUME NEW i \in 1 .. Len(held') PROVE marked'[i] <=> Matched(written, Len(output) + i)'
    <3>1. k + i \in 1 .. Len(B) /\ Len(output) + (k + i) = Len(output') + i
      <4>1. Len(output) \in Nat /\ Len(held') = Len(B) - k
        BY <1>1, <1>4, <1>6, <1>12, SMTT(30) DEF k
      <4> QED
        BY <1>4, <1>8, <1>10, <4>1
    <3>2. M[k + i] <=> Matched(W, Len(output') + i)
      BY <1>7, <3>1
    <3>3. Matched(written, Len(output) + i)' <=> Matched(W, Len(output') + i)
      BY <1>1, <1>3 DEF Matched
    <3> QED
      BY <1>13, <3>2, <3>3
  <2>6. held' = <<>> \/ \E n \in needles' : Len(held') < Len(n)
    BY <1>1, <1>6, <1>12
  <2> QED
    BY <1>13, <2>3, <2>4, <2>5, <2>6 DEF HeldIsRest
<1> QED
  BY <1>1, <1>14, <1>15 DEF RedactInv

\* The bytes a failing writer took are the first of those it was given.
LEMMA PrefixIs ==
  ASSUME NEW S, NEW s \in Seq(S), NEW part \in Prefixes(s)
  PROVE  part \in Seq(S) /\ Len(part) <= Len(s) /\ \A i \in 1 .. Len(part) : part[i] = s[i]
<1>1. PICK k \in 0 .. Len(s) : part = SubSeq(s, 1, k)
  BY DEF Prefixes
<1> QED
  BY <1>1, Cut

\* A Write whose writer fails sent a part of what it would have sent.
LEMMA WriteFailsStep ==
  ASSUME RedactInv, NEW p \in Seq(Bytes), WriteFails(p)
  PROVE  RedactInv'
<1> DEFINE B == held \o p
           k == Len(B) - partialMatch(B)
           all == sent(B, marksFor(p))
<1>1. /\ Needles /\ held \in Seq(Bytes) /\ marked \in Seq(BOOLEAN) /\ written \in Seq(Bytes)
      /\ RedactType /\ state = "open" /\ needles' = needles /\ state' = "broken"
      /\ held' = held /\ marked' = marked /\ written' = written \o p
  BY NeedlesAreBytes DEF RedactInv, RedactType, WriteFails
<1>2. B \in Seq(Bytes) /\ Len(B) \in Nat /\ written \o p \in Seq(Bytes)
  BY <1>1, Joined
<1>3. k \in 0 .. Len(B) /\ k \in Nat
  <2> HIDE DEF B
  <2>1. partialMatch(B) \in 0 .. Len(B)
    BY <1>1, <1>2, PartialMatchIs
  <2> QED
    BY <1>2, <2>1
<1>4. /\ all \in Seq(Shown) /\ Len(all) = k
      /\ \A i \in 1 .. k : all[i] = IF Matched(written \o p, Len(output) + i) THEN maskFor ELSE B[i]
  BY <1>1, <1>3, SentIs
<1>5. PICK part \in Prefixes(all) : output' = output \o part
  BY DEF WriteFails
<1> HIDE DEF all, k
<1>6. part \in Seq(Shown) /\ Len(part) <= k /\ \A i \in 1 .. Len(part) : part[i] = all[i]
  BY <1>4, PrefixIs
<1>7. /\ Len(part) <= Len(B)
      /\ \A i \in 1 .. Len(part) :
           part[i] = IF Matched(written \o p, Len(output) + i) THEN maskFor ELSE B[i]
  <2>1. \A i \in 1 .. Len(part) : i \in 1 .. k
    BY <1>3, <1>6
  <2>2. Len(part) <= Len(B)
    BY <1>2, <1>3, <1>6
  <2> QED
    BY <1>4, <1>6, <2>1, <2>2
<1>8. /\ output' \in Seq(Shown) /\ Len(output') <= Len(written \o p)
      /\ \A j \in 1 .. Len(output') :
           output'[j] = IF Matched(written \o p, j) THEN maskFor ELSE (written \o p)[j]
  BY <1>1, <1>5, <1>6, <1>7, SentGrows
<1>9. RedactType' /\ SentIsMasked'
  BY <1>1, <1>2, <1>8, NextMasked
<1> QED
  BY <1>1, <1>9 DEF RedactInv

\* Close gives the underlying writer what was held back, or a failing one a part of it.
LEMMA CloseStep ==
  ASSUME RedactInv, Close \/ CloseFails
  PROVE  RedactInv'
<1> DEFINE all == applyMask(held, marked)
<1>1. /\ held \in Seq(Bytes) /\ marked \in Seq(BOOLEAN) /\ written \in Seq(Bytes) /\ output \in Seq(Shown)
      /\ RedactType /\ HeldIsRest /\ state = "open" /\ needles' = needles
      /\ held' = <<>> /\ marked' = <<>> /\ written' = written
      /\ state' \in {"closed", "broken"}
  BY DEF RedactInv, RedactType, Close, CloseFails
<1>2. PICK D \in Seq(Bytes) : written = D \o held /\ Len(D) = Len(output)
  BY <1>1 DEF HeldIsRest
<1>3. /\ all \in Seq(Shown) /\ Len(all) = Len(held)
      /\ \A i \in 1 .. Len(held) : all[i] = IF marked[i] THEN maskFor ELSE held[i]
  BY <1>1, MaskApplied DEF HeldIsRest
<1>4. held \o <<>> = held /\ written \o <<>> = written /\ <<>> \in Seq(Bytes) /\ <<>> \in Seq(BOOLEAN)
  BY <1>1, ConcatEmptySeq
<1>5. \A i \in 1 .. Len(held) : marked[i] <=> Matched(written, Len(output) + i)
  BY <1>1 DEF HeldIsRest
<1>6. \A i \in 1 .. Len(held) : all[i] = IF Matched(written, Len(output) + i) THEN maskFor ELSE held[i]
  BY <1>3, <1>5
<1> HIDE DEF all
<1>7. \E part \in Prefixes(all) : output' = output \o part
  <2>1. CASE Close
    <3>1. output' = output \o all
      BY <2>1 DEF Close, all
    <3>2. Len(all) \in Nat /\ SubSeq(all, 1, Len(all)) = all
      BY <1>3, SubSeqFull
    <3>3. all \in Prefixes(all)
      <4>1. Len(all) \in 0 .. Len(all)
        BY <3>2
      <4> QED
        BY <3>2, <4>1 DEF Prefixes
    <3> QED
      BY <3>1, <3>3
  <2>2. CASE CloseFails
    BY <2>2 DEF CloseFails, all
  <2> QED
    BY <2>1, <2>2
<1>8. PICK part \in Prefixes(all) : output' = output \o part
  BY <1>7
<1>9. part \in Seq(Shown) /\ Len(part) <= Len(held) /\ \A i \in 1 .. Len(part) : part[i] = all[i]
  BY <1>3, PrefixIs
<1>10. \A i \in 1 .. Len(part) :
         part[i] = IF Matched(written, Len(output) + i) THEN maskFor ELSE held[i]
  <2>1. \A i \in 1 .. Len(part) : i \in 1 .. Len(held)
    BY <1>1, <1>9
  <2> QED
    BY <1>6, <1>9, <2>1
<1>11. /\ output' \in Seq(Shown) /\ Len(output') <= Len(written)
       /\ \A j \in 1 .. Len(output') : output'[j] = IF Matched(written, j) THEN maskFor ELSE written[j]
  <2> DEFINE none == <<>>
  <2>1. none \in Seq(Bytes) /\ held \o none = held /\ written \o none = written
    BY <1>4
  <2> HIDE DEF none
  <2>2. /\ Len(part) <= Len(held \o none)
        /\ \A i \in 1 .. Len(part) :
             part[i] = IF Matched(written \o none, Len(output) + i) THEN maskFor ELSE (held \o none)[i]
    BY <1>9, <1>10, <2>1
  <2>3. /\ output \o part \in Seq(Shown) /\ Len(output \o part) <= Len(written \o none)
        /\ \A j \in 1 .. Len(output \o part) :
             (output \o part)[j] = IF Matched(written \o none, j) THEN maskFor ELSE (written \o none)[j]
    BY <1>1, <1>9, <2>1, <2>2, SentGrows
  <2> QED
    BY <1>8, <2>1, <2>3
<1>12. RedactType' /\ SentIsMasked'
  BY <1>1, <1>4, <1>11, NextMasked
<1>13. state' = "closed" => Len(output') = Len(written')
  <2> SUFFICES ASSUME state' = "closed" PROVE Len(output') = Len(written)
    BY <1>1
  <2>1. output' = output \o all
    BY DEF Close, CloseFails, all
  <2>2. Len(output \o all) = Len(output) + Len(all)
    BY <1>1, <1>3, Joined
  <2>3. Len(D \o held) = Len(D) + Len(held)
    BY <1>1, Joined
  <2> QED
    BY <1>2, <1>3, <2>1, <2>2, <2>3
<1> QED
  BY <1>1, <1>12, <1>13 DEF RedactInv

\* Every step keeps the invariant.
LEMMA RedactStep == RedactInv /\ [RedactNext]_redactVars => RedactInv'
<1> SUFFICES ASSUME RedactInv, [RedactNext]_redactVars PROVE RedactInv'
  OBVIOUS
<1>1. ASSUME NEW k \in 1 .. MaxLength - Len(written), NEW p \in [1 .. k -> Bytes], Write(p) \/ WriteFails(p)
      PROVE  RedactInv'
  <2>1. p \in Seq(Bytes)
    <3>1. k \in Nat
      OBVIOUS
    <3> QED
      BY <3>1
  <2> QED
    BY <1>1, <2>1, WriteStep, WriteFailsStep
<1>2. CASE UNCHANGED redactVars
  BY <1>2 DEF redactVars, RedactInv, RedactType, SentIsMasked, HeldIsRest, Caught, EndsIn, Shown,
              Matched, OccursAt, maskFor, holds
<1> QED
  BY <1>1, <1>2, CloseStep DEF RedactNext

\* The invariant holds of a new Redactor.
LEMMA RedactStarts == RedactInit => RedactInv
<1> SUFFICES ASSUME RedactInit PROVE RedactInv
  OBVIOUS
<1>1. RedactType /\ Len(written) = 0 /\ Len(held) = 0 /\ Len(output) = 0 /\ Len(marked) = 0
  BY DEF RedactInit, RedactType
<1>2. SentIsMasked
  BY <1>1 DEF SentIsMasked
<1>3. HeldIsRest
  <2>1. <<>> \in Seq(Bytes) /\ written = <<>> \o held
    BY DEF RedactInit
  <2>2. Caught(written, Len(held))
    BY <1>1 DEF Caught, EndsIn
  <2>3. \E D \in Seq(Bytes) : written = D \o held /\ Len(D) = Len(output)
    <3>1. Len(<<>>) = Len(output)
      BY <1>1
    <3> QED
      BY <2>1, <3>1
  <2>4. \A i \in 1 .. Len(held) : FALSE
    BY <1>1
  <2>5. held = <<>>
    BY DEF RedactInit
  <2>6. \A i \in 1 .. Len(held) : marked[i] <=> Matched(written, Len(output) + i)
    BY <2>4
  <2> QED
    BY <1>1, <2>2, <2>3, <2>5, <2>6 DEF HeldIsRest
<1> QED
  BY <1>1, <1>2, <1>3 DEF RedactInv, RedactInit

\* The invariant always holds.
LEMMA RedactAlways == RedactSpec => []RedactInv
  BY RedactStarts, RedactStep, PTL DEF RedactSpec

\* Whatever the needles, the body and the Writes it comes in, what is sent is the beginning
\* of the body masked as a whole, and Close sends the rest: no needle escapes because the
\* body was cut within it, and nothing is masked that the whole body would show.
THEOREM CutsDoNotMatter == RedactSpec => []MaskedAsAWhole
<1>1. RedactInv => MaskedAsAWhole
  <2> SUFFICES ASSUME RedactInv PROVE MaskedAsAWhole
    OBVIOUS
  <2> DEFINE t == String(written)
             s == SubSeq(t, 1, Len(output))
  <2>1. /\ written \in Seq(Bytes) /\ output \in Seq(Shown) /\ Len(output) <= Len(written)
        /\ Len(written) \in Nat /\ Len(output) \in Nat
    BY DEF RedactInv, RedactType, SentIsMasked
  <2>2. /\ t \in Seq(Shown) /\ Len(t) = Len(written)
        /\ \A j \in 1 .. Len(written) : t[j] = IF Matched(written, j) THEN maskFor ELSE written[j]
    <3> DEFINE f(j) == Matched(written, j)
               marks == [i \in 1 .. Len(written) |-> f(i)]
    <3>1. String(written) = applyMask(written, marks)
      BY <2>1 DEF String
    <3>2. \A i \in 1 .. Len(written) : f(i) \in BOOLEAN
      BY DEF Matched
    <3>3. \A i \in 1 .. Len(written) : marks[i] = f(i)
      OBVIOUS
    <3> HIDE DEF f
    <3>4. marks \in Seq(BOOLEAN) /\ Len(marks) = Len(written)
      BY <2>1, <3>2
    <3> HIDE DEF marks
    <3> QED
      BY <2>1, <3>1, <3>3, <3>4, MaskApplied DEF f
  <2> HIDE DEF t
  <2>3. s \in Seq(Shown) /\ Len(s) = Len(output) /\ \A j \in 1 .. Len(output) : s[j] = t[j]
    BY <2>1, <2>2, Cut
  <2> HIDE DEF s
  <2>4. ASSUME NEW j \in 1 .. Len(output) PROVE output[j] = s[j]
    <3>1. j \in 1 .. Len(written)
      BY <2>1
    <3> QED
      BY <2>2, <2>3, <3>1 DEF RedactInv, SentIsMasked
  <2>5. output = s
    BY <2>1, <2>3, <2>4, SeqEqual
  <2>6. state = "open" => Len(output) + Len(held) = Len(written)
    <3> SUFFICES ASSUME state = "open" PROVE Len(output) + Len(held) = Len(written)
      OBVIOUS
    <3>1. held \in Seq(Bytes)
      BY DEF RedactInv, RedactType
    <3>2. PICK D \in Seq(Bytes) : written = D \o held /\ Len(D) = Len(output)
      BY DEF RedactInv, HeldIsRest
    <3>3. Len(D \o held) = Len(D) + Len(held)
      BY <3>1, Joined
    <3> QED
      BY <3>2, <3>3
  <2> QED
    BY <2>5, <2>6 DEF MaskedAsAWhole, RedactInv, HeldIsRest, s, t
<1> QED
  BY <1>1, RedactAlways, PTL

\* No form of the Secret that Redaction looks for is in what the Agent is sent, however the
\* Upstream cuts its body into Writes.
THEOREM NoFormOfTheSecret == RedactSpec => []NoNeedleGetsOut
<1>1. RedactInv => NoNeedleGetsOut
  <2> SUFFICES ASSUME RedactInv, \A n \in needles : ~holds(n, maskFor), containsAny(output)
               PROVE  FALSE
    BY DEF NoNeedleGetsOut
  <2>1. /\ Needles /\ written \in Seq(Bytes) /\ output \in Seq(Shown) /\ Len(output) <= Len(written)
        /\ Len(written) \in Nat /\ Len(output) \in Nat
    BY NeedlesAreBytes DEF RedactInv, RedactType, SentIsMasked
  <2>2. PICK n \in needles : \E at \in 1 .. Len(output) : OccursAt(output, n, at)
    BY <2>1 DEF containsAny
  <2>3. PICK at \in 1 .. Len(output) : OccursAt(output, n, at)
    BY <2>2
  <2>4. n \in Seq(Bytes) /\ Len(n) \in Nat \ {0} /\ at \in Nat \ {0}
    BY <2>1 DEF Needles
  <2>5. /\ at + Len(n) - 1 <= Len(output)
        /\ \A j \in 1 .. Len(n) : output[at + j - 1] = n[j]
    BY <2>1, <2>3, <2>4, OccursByByte
  <2>6. ASSUME NEW j \in 1 .. Len(n) PROVE written[at + j - 1] = n[j]
    <3>1. at + j - 1 \in 1 .. Len(output)
      BY <2>1, <2>4, <2>5
    <3>2. n[j] # maskFor
      BY <2>4 DEF holds
    <3> QED
      BY <2>5, <3>1, <3>2 DEF RedactInv, SentIsMasked
  <2>7. OccursAt(written, n, at)
    <3>1. at + Len(n) - 1 <= Len(written)
      BY <2>1, <2>4, <2>5
    <3> QED
      BY <2>1, <2>4, <2>6, <3>1, OccursInBytes
  <2>8. Matched(written, at)
    BY <2>4, <2>7 DEF Matched
  <2>9. output[at] = maskFor
    BY <2>8 DEF RedactInv, SentIsMasked
  <2>10. output[at + 1 - 1] = n[1] /\ at + 1 - 1 = at /\ 1 \in DOMAIN n
    BY <2>4, <2>5
  <2> QED
    BY <2>9, <2>10 DEF holds
<1> QED
  BY <1>1, RedactAlways, PTL

-----------------------------------------------------------------------------
(***************************************************************************)
(* Config files and responses                                              *)
(***************************************************************************)

\* What a Secret Name is in a file.
SecretRecord(s) == s = [backend |-> s.backend, location |-> s.location, preset |-> s.preset,
                        template |-> s.template, upstreams |-> s.upstreams]

\* secretName keeps where the Secret is, and a valid Secret Name with Upstreams has a template.
LEMMA SecretNameIs ==
  ASSUME NEW s, SecretRecord(s), NEW plugins, validSecret(s, plugins)
  PROVE  /\ secretName(s).backend = s.backend /\ secretName(s).location = s.location
         /\ secretName(s).upstreams # None => secretName(s).template = "ok"
<1> DEFINE t == [backend |-> s.backend, location |-> s.location, preset |-> s.preset,
                 template |-> s.template, upstreams |-> s.upstreams]
<1>1. secretName(t).backend = s.backend /\ secretName(t).location = s.location
  BY DEF secretName
<1>2. secretName(t).template = IF s.preset # None THEN "ok" ELSE s.template
  BY DEF secretName
<1>3. secretName(t).upstreams = IF s.preset # None /\ s.upstreams = None THEN "ok" ELSE s.upstreams
  BY DEF secretName
<1>4. s = t
  BY DEF SecretRecord
<1> HIDE DEF t
<1> QED
  BY <1>1, <1>2, <1>3, <1>4, NoneAssumption DEF validSecret

\* The Courier Keys of a file, each with its name.
Keys(f) ==
  Distinct(f) \cup (IF f.agent.tls = None THEN {}
                    ELSE {<<"certificate", f.agent.tls.certificate>>, <<"key", f.agent.tls.key>>})

\* Named lists a key that is set.
LEMMA NamedIs ==
  ASSUME NEW name, NEW k, NEW x \in Named(name, k)
  PROVE  x = <<name, k>> /\ k # None
  BY DEF Named

\* Every Courier Key of an accepted file has been checked against the Secret Names.
LEMMA KeysChecked ==
  ASSUME NEW f, validate(f), NEW k \in Keys(f)
  PROVE  validateCourierKey(k[2], f.plugins, Secrets(f))
<1> DEFINE ok(r) == validateCourierKey(r, f.plugins, Secrets(f))
<1>1. f.admin.tls # None => ok(f.admin.tls.certificate) /\ ok(f.admin.tls.key)
  BY DEF validate, validateListener
<1>2. f.agent.tls # None => ok(f.agent.tls.certificate) /\ ok(f.agent.tls.key)
  BY DEF validate, validateAgentAPI
<1>3. f.signing # None => ok(f.signing)
  BY DEF validate, validateAudit
<1>4. ASSUME f.agent.tls # None, NEW x \in acmeKeys(f.agent.tls.acme) PROVE ok(x[2])
  <2> DEFINE acme == f.agent.tls.acme
  <2>1. acme # None
    BY <1>4 DEF acmeKeys
  <2>2. validateACME(acme, f.agent.listen, f.admin, f.plugins, Secrets(f))
    BY <1>4, <2>1 DEF validate, validateAgentAPI
  <2> HIDE DEF acme
  <2>3. ok(acme.accountKey) /\ (acme.hmacKey # None => ok(acme.hmacKey))
    BY <2>2 DEF validateACME
  <2>4. acme.dns # None => \A c \in DOMAIN acme.dns.credentials : ok(acme.dns.credentials[c])
    BY <2>2 DEF validateACME, validateDNS
  <2>5. x \in Named("account_key", acme.accountKey) \cup Named("hmac_key", acme.hmacKey)
                \cup (IF acme.dns = None THEN {} ELSE {<<c, acme.dns.credentials[c]>> : c \in DOMAIN acme.dns.credentials})
    BY <1>4, <2>1 DEF acmeKeys, acme
  <2>6. CASE x \in Named("account_key", acme.accountKey)
    BY <2>3, <2>6, NamedIs
  <2>7. CASE x \in Named("hmac_key", acme.hmacKey)
    BY <2>3, <2>7, NamedIs
  <2>8. CASE acme.dns # None /\ x \in {<<c, acme.dns.credentials[c]>> : c \in DOMAIN acme.dns.credentials}
    BY <2>4, <2>8
  <2> QED
    BY <2>5, <2>6, <2>7, <2>8
<1> HIDE DEF ok
<1>5. ASSUME k \in courierKeys(f) PROVE ok(k[2])
  <2>1. CASE f.agent.tls # None /\ k \in Named("certificate", f.agent.tls.certificate)
    BY <1>2, <2>1, NamedIs
  <2>2. CASE f.agent.tls # None /\ k \in Named("key", f.agent.tls.key)
    BY <1>2, <2>2, NamedIs
  <2>3. CASE f.agent.tls # None /\ k \in acmeKeys(f.agent.tls.acme)
    BY <1>4, <2>3
  <2>4. CASE f.admin.tls # None /\ k \in Named("admin.certificate", f.admin.tls.certificate)
    BY <1>1, <2>4, NamedIs
  <2>5. CASE f.admin.tls # None /\ k \in Named("admin.key", f.admin.tls.key)
    BY <1>1, <2>5, NamedIs
  <2>6. CASE k \in Named("signing_key", f.signing)
    BY <1>3, <2>6, NamedIs
  <2> QED
    BY <1>5, <2>1, <2>2, <2>3, <2>4, <2>5, <2>6 DEF courierKeys
<1>6. k \in courierKeys(f)
      \/ (f.admin.tls # None /\ k \in {<<"admin.certificate", f.admin.tls.certificate>>, <<"admin.key", f.admin.tls.key>>})
      \/ (f.agent.tls # None /\ k \in {<<"certificate", f.agent.tls.certificate>>, <<"key", f.agent.tls.key>>})
  BY DEF Keys, Distinct
<1> QED
  BY <1>1, <1>2, <1>5, <1>6 DEF ok

\* The pair that a name of the admin listener's stands for.
PairOf(k) == CASE k[1] = "admin.certificate" -> "certificate" [] k[1] = "admin.key" -> "key" [] OTHER -> k[1]

\* Two Courier Keys share a location only in a shared pair.
LEMMA KeysApart ==
  ASSUME NEW f, validate(f), NEW k \in Keys(f), NEW l \in Keys(f), k[2] = l[2]
  PROVE  PairOf(k) = PairOf(l) /\ (k = l \/ SharesAgentCertificate(f))
<1> DEFINE CK == courierKeys(f)
           A1 == <<"admin.certificate", f.admin.tls.certificate>>
           A2 == <<"admin.key", f.admin.tls.key>>
           G1 == <<"certificate", f.agent.tls.certificate>>
           G2 == <<"key", f.agent.tls.key>>
<1>1. \A x, y \in CK : x[2] = y[2] => x = y
  BY DEF validate, validateCourierKeyLocations
<1>2. f.agent.tls # None => f.agent.tls.certificate # None /\ f.agent.tls.key # None
  BY DEF validate, validateAgentAPI, validateCourierKey
<1>3. f.admin.tls # None => f.admin.tls.certificate # None /\ f.admin.tls.key # None
                            /\ f.admin.tls.certificate # f.admin.tls.key
  BY DEF validate, validateListener, validateCourierKey
<1>4. f.agent.tls # None => G1 \in CK /\ G2 \in CK
  BY <1>2 DEF courierKeys, Named
<1>5. f.admin.tls # None /\ ~SharesAgentCertificate(f) => A1 \in CK /\ A2 \in CK
  BY <1>3 DEF courierKeys, Named
<1>6. \A x \in Keys(f) : x \in CK \/ (f.admin.tls # None /\ x \in {A1, A2}) \/ (f.agent.tls # None /\ x \in {G1, G2})
  BY DEF Keys, Distinct
<1> HIDE DEF CK
<1>7. CASE ~SharesAgentCertificate(f)
  <2>1. k \in CK /\ l \in CK
    BY <1>4, <1>5, <1>6, <1>7
  <2> QED
    BY <1>1, <2>1
<1>8. CASE SharesAgentCertificate(f)
  <2>1. /\ f.admin.tls # None /\ f.agent.tls # None
        /\ f.admin.tls.certificate = f.agent.tls.certificate /\ f.admin.tls.key = f.agent.tls.key
    BY <1>8 DEF SharesAgentCertificate
  <2>2. G1 \in CK /\ G2 \in CK
    BY <1>4, <2>1
  <2> DEFINE C(x) == IF x = A1 THEN G1 ELSE IF x = A2 THEN G2 ELSE x
  <2>3. ASSUME NEW x \in Keys(f) PROVE C(x) \in CK /\ C(x)[2] = x[2] /\ PairOf(C(x)) = PairOf(x)
    <3>1. CASE x = A1
      BY <2>1, <2>2, <3>1 DEF PairOf
    <3>2. CASE x = A2 /\ x # A1
      BY <2>1, <2>2, <3>2 DEF PairOf
    <3>3. CASE x # A1 /\ x # A2
      BY <1>6, <2>2, <3>3
    <3> QED
      BY <3>1, <3>2, <3>3
  <2> HIDE DEF C
  <2>4. C(k) = C(l)
    BY <1>1, <2>3
  <2> QED
    BY <1>8, <2>3, <2>4
<1> QED
  BY <1>7, <1>8

\* Every file that config.Load accepts is sound, whatever its Secret Names, Policies,
\* locations and listeners: ACME overwrites no other key, no Agent receives a Courier Key,
\* no two listeners take the same socket, and every Proxy Delivery that is allowed has a
\* route with a template.
THEOREM LoadedIsSound ==
  ASSUME NEW f, \A n \in DOMAIN f.secrets : SecretRecord(f.secrets[n]), validate(f)
  PROVE  Sound(f)
<1> DEFINE acme == IF f.agent.tls = None THEN None ELSE f.agent.tls.acme
           http == IF acme = None \/ acme.challenge # "http-01" THEN None ELSE httpListen(acme)
<1>1. \A n \in DOMAIN f.secrets :
        /\ Secrets(f)[n].backend = f.secrets[n].backend /\ Secrets(f)[n].location = f.secrets[n].location
        /\ Secrets(f)[n].upstreams # None => Secrets(f)[n].template = "ok"
  <2>1. \A n \in DOMAIN f.secrets : Secrets(f)[n] = secretName(f.secrets[n]) /\ validSecret(f.secrets[n], f.plugins)
    BY DEF validate, Secrets
  <2> QED
    BY <2>1, SecretNameIs
<1>2. DOMAIN Secrets(f) = DOMAIN f.secrets
  BY DEF Secrets
<1>3. \A k, l \in Keys(f) : k[2] = l[2] => PairOf(k) = PairOf(l) /\ (k = l \/ SharesAgentCertificate(f))
  BY KeysApart
<1>4. \A k \in Keys(f), n \in DOMAIN f.secrets :
        <<f.secrets[n].backend, f.secrets[n].location>> # <<k[2].backend, k[2].location>>
  BY <1>1, <1>2, KeysChecked DEF validateCourierKey
<1>5. ~sameBind(f.agent.listen, f.admin.listen)
  BY DEF validate, validateAgentAPI, sameBind
<1>6. ~sameBind(http, f.agent.listen) /\ ~sameBind(http, f.admin.listen)
  BY DEF validate, validateAgentAPI, validateACME, sameBind
<1>7. \A r \in newRoutes(f) : r.template = "ok"
  BY <1>1 DEF newRoutes
<1>8. ASSUME NEW i \in DOMAIN f.policy, "proxy" \in f.policy[i].delivery
      PROVE  \E r \in newRoutes(f) : r.secret = f.policy[i].secret
  <2> DEFINE n == f.policy[i].secret
  <2>1. n \in DOMAIN Secrets(f) /\ Secrets(f)[n].upstreams # None
    BY <1>8 DEF validate, policyFits
  <2>2. [secret |-> n, template |-> Secrets(f)[n].template] \in newRoutes(f)
    BY <1>2, <2>1 DEF newRoutes
  <2> QED
    BY <2>2
<1>9. Served(f.agent) => f.signing # None
  BY DEF validate, validateAudit
<1> HIDE DEF http, acme
<1> QED
  BY <1>3, <1>4, <1>5, <1>6, <1>7, <1>8, <1>9 DEF Sound, Keys, PairOf, http, acme

\* The files that are asked about have Secret Names in this form.
FilesInv == about = "files" => \A n \in DOMAIN input.secrets : SecretRecord(input.secrets[n])

\* The questions about files start so.
LEMMA FilesStart == FirstQuestion => FilesInv
<1> SUFFICES ASSUME FirstQuestion, about = "files", NEW n \in DOMAIN input.secrets
             PROVE  SecretRecord(input.secrets[n])
  BY DEF FilesInv
<1>1. \A i : SecretRecord(SecretAt(i))
  BY DEF SecretRecord, SecretAt
<1>2. CASE input \in KeyFiles
  <2>1. PICK s \in 0 .. 4, k \in 0 .. 4, acme \in Acmes \cup {None}, pair \in Pairs \cup {None}, g \in 0 .. 4 :
           input = File(KeySecrets(s), <<>>, KeyAdmin(pair), KeyAgent(k, acme), Ref(g))
    BY <1>2 DEF KeyFiles
  <2>2. input.secrets = KeySecrets(s)
    BY <2>1 DEF File
  <2> QED
    BY <1>1, <2>2 DEF KeySecrets
<1>3. CASE input \in ListenFiles
  <2>1. PICK c \in Listeners : input = File(<<>>, <<>>, ListenAdmin(c), ListenAgent(c), Ref(c.signing))
    BY <1>3 DEF ListenFiles
  <2>2. input.secrets = <<>>
    BY <2>1 DEF File
  <2>3. DOMAIN <<>> = {}
    OBVIOUS
  <2> QED
    BY <2>2, <2>3
<1>4. CASE input \in SecretFiles
  <2>1. PICK s \in SecretRecords : \E p, d, a, g : input = File([m \in {"s1"} |-> s], p, d, a, g)
    BY <1>4 DEF SecretFiles
  <2>2. input.secrets = [m \in {"s1"} |-> s]
    BY <2>1 DEF File
  <2>3. SecretRecord(s)
    BY DEF SecretRecord, SecretRecords
  <2> QED
    BY <2>2, <2>3
<1> QED
  BY <1>2, <1>3, <1>4 DEF FirstQuestion

\* No step asks about another file.
LEMMA FilesStay == FilesInv /\ [NextQuestion]_asked => FilesInv'
  BY DEF FilesInv, NextQuestion, asked, AddEntry, Extend, AddHeader, AddParam, PutRecord, SecretRecord

\* The files of the run that Load accepts are sound.
THEOREM AcceptedFilesAreSound == Questions => []AcceptedIsSound
<1>1. FilesInv => AcceptedIsSound
  BY LoadedIsSound DEF FilesInv, AcceptedIsSound
<1> QED
  BY <1>1, FilesStart, FilesStay, PTL DEF Questions

-----------------------------------------------------------------------------
\* Redacted headers hold the Secret neither in a value nor in a name.
Clear(h) == /\ \A f \in h.fields : f.value # "Secret" /\ f.name \notin Forms
            /\ h.trailer \cap Forms = {}

\* redactHeader leaves nothing of the Secret.
LEMMA RedactedIsClear ==
  ASSUME NEW h
  PROVE  Clear(redactHeader(h))
  BY DEF Clear, redactHeader, mask, namesSecret, Forms

\* WriteHeader neither, and it bans caching from every final response.
LEMMA WrittenIsClear ==
  ASSUME NEW h, NEW code \in Nat
  PROVE  Clear(WriteHeader(code, h)) /\ (code >= 200 => noStore \in WriteHeader(code, h).fields)
<1> DEFINE r == redactHeader(h)
           w == [r EXCEPT !.fields = {f \in @ : f.name # "Cache-Control"} \cup {noStore}]
<1>1. Clear(r) /\ r = [fields |-> r.fields, trailer |-> r.trailer]
  BY RedactedIsClear DEF redactHeader
<1>2. WriteHeader(code, h) = IF code < 200 THEN r ELSE w
  BY DEF WriteHeader
<1> HIDE DEF r
<1>3. w.fields = {f \in r.fields : f.name # "Cache-Control"} \cup {noStore} /\ w.trailer = r.trailer
  BY <1>1
<1>4. noStore.value # "Secret" /\ noStore.name \notin Forms
  BY DEF noStore, Forms
<1> HIDE DEF w
<1>5. Clear(w) /\ noStore \in w.fields
  BY <1>1, <1>3, <1>4 DEF Clear
<1> QED
  BY <1>1, <1>2, <1>5

\* Whatever header maps and encodings the Upstream's responses have, of any number and size.
THEOREM ResponsesAreClean ==
  ASSUME NEW res, NEW S, res.early \in Seq(S), NEW E, res.encodings \in Seq(E)
  PROVE  Clean(res)
<1> DEFINE early == [i \in DOMAIN res.early |-> WriteHeader(103, [fields |-> res.early[i], trailer |-> {}])]
           refused == << WriteHeader(502, [fields |-> {}, trailer |-> {}]) >>
           first == WriteHeader(200, [fields |-> res.fields, trailer |-> {f.name : f \in res.trailers}])
           last == finish([fields |-> res.trailers, trailer |-> {}])
           final == IF decodeBody(res) = Unreadable THEN refused ELSE << first, last >>
           given == Delivered(res)
<1>1. given = early \o final
  BY DEF Delivered
<1>2. Len(res.early) \in Nat /\ DOMAIN res.early = 1 .. Len(res.early)
  OBVIOUS
<1>3. early \in Seq({early[i] : i \in DOMAIN early}) /\ Len(early) = Len(res.early)
  <2> DEFINE T == {early[i] : i \in DOMAIN early}
  <2>1. early = [i \in 1 .. Len(res.early) |-> early[i]] /\ \A i \in 1 .. Len(res.early) : early[i] \in T
    BY <1>2
  <2> HIDE DEF T, early
  <2> QED
    BY <1>2, <2>1 DEF T
<1>4. \A i \in 1 .. Len(early) : Clear(early[i])
  BY <1>3, WrittenIsClear
<1>5. /\ Clear(first) /\ noStore \in first.fields /\ Clear(last)
      /\ Clear(WriteHeader(502, [fields |-> {}, trailer |-> {}]))
      /\ noStore \in WriteHeader(502, [fields |-> {}, trailer |-> {}]).fields
  BY WrittenIsClear, RedactedIsClear DEF finish
<1> HIDE DEF early, first, last
<1>6. /\ \A i \in 1 .. Len(final) : Clear(final[i])
      /\ Len(final) = IF decodeBody(res) = Unreadable THEN 1 ELSE 2
      /\ noStore \in final[1].fields
      /\ final \in Seq({final[i] : i \in DOMAIN final})
  <2>1. CASE decodeBody(res) = Unreadable
    BY <1>5, <2>1
  <2>2. CASE decodeBody(res) # Unreadable
    BY <1>5, <2>2
  <2> QED
    BY <2>1, <2>2
<1> HIDE DEF final
<1>7. /\ Len(given) = Len(early) + Len(final) /\ DOMAIN given = 1 .. Len(given)
      /\ \A i \in 1 .. Len(early) : given[i] = early[i]
      /\ \A i \in 1 .. Len(final) : given[Len(early) + i] = final[i]
  <2> DEFINE T == {early[i] : i \in DOMAIN early} \cup {final[i] : i \in DOMAIN final}
  <2>1. early \in Seq(T) /\ final \in Seq(T)
    BY <1>3, <1>6
  <2> HIDE DEF T, given
  <2> QED
    BY <1>1, <2>1, Joined
<1>8. Len(early) \in Nat
  BY <1>2, <1>3
<1> HIDE DEF given
<1>9. ASSUME NEW i \in DOMAIN given PROVE Clear(given[i])
  <2>1. CASE i <= Len(early)
    BY <1>4, <1>7, <1>8, <2>1
  <2>2. CASE i > Len(early)
    <3>1. i - Len(early) \in 1 .. Len(final) /\ Len(early) + (i - Len(early)) = i
      BY <1>6, <1>7, <1>8, <2>2
    <3> QED
      BY <1>6, <1>7, <3>1
  <2> QED
    BY <1>7, <1>8, <2>1, <2>2
<1>10. noStore \in given[IF decodeBody(res) = Unreadable THEN Len(given) ELSE Len(given) - 1].fields
  <2>1. (IF decodeBody(res) = Unreadable THEN Len(given) ELSE Len(given) - 1) = Len(early) + 1
    BY <1>6, <1>7, <1>8
  <2>2. given[Len(early) + 1] = final[1]
    BY <1>6, <1>7
  <2> QED
    BY <1>6, <2>1, <2>2
<1>11. ~res.bodyless /\ decodeBody(res) # Unreadable => Range(decodeBody(res)) \subseteq {"identity"}
  <2> SUFFICES ASSUME ~res.bodyless, decodeBody(res) # Unreadable, NEW x \in DOMAIN decodeBody(res)
               PROVE  decodeBody(res)[x] = "identity"
    BY DEF Range
  <2> DEFINE coded == {i \in DOMAIN res.encodings : res.encodings[i] # "identity"}
  <2>1. CASE coded = {}
    BY <2>1 DEF decodeBody
  <2>2. CASE coded # {}
    <3>1. decodeBody(res) = <<>>
      BY <2>2 DEF decodeBody
    <3>2. DOMAIN <<>> = {}
      OBVIOUS
    <3> QED
      BY <3>1, <3>2
  <2> QED
    BY <2>1, <2>2
<1> QED
  BY <1>9, <1>10, <1>11 DEF Clean, Clear, given

\* Sequences of bounded length are sequences.
LEMMA SeqsOfAreSeqs ==
  ASSUME NEW S, NEW n \in Nat, NEW s \in SeqsOf(S, n)
  PROVE  s \in Seq(S)
<1>1. PICK m \in 0 .. n : s \in [1 .. m -> S]
  BY DEF SeqsOf
<1>2. m \in Nat
  OBVIOUS
<1> QED
  BY <1>1, <1>2

\* The responses that are asked about.
ResponsesInv == about = "responses" => input \in Responses

\* No response of the run lets anything of the Secret past Redaction.
THEOREM NothingSlips == Questions => []NothingSlipsThrough
<1>1. FirstQuestion => ResponsesInv
  BY DEF FirstQuestion, ResponsesInv
<1>2. ResponsesInv /\ [NextQuestion]_asked => ResponsesInv'
  BY DEF ResponsesInv, NextQuestion, asked, AddEntry, Extend, AddHeader, AddParam, PutRecord
<1>3. ResponsesInv => NothingSlipsThrough
  <2> SUFFICES ASSUME input \in Responses PROVE Clean(input)
    BY DEF ResponsesInv, NothingSlipsThrough
  <2>1. /\ input.early \in SeqsOf(UpTo(ResponseHeaders, 1), 1)
        /\ input.encodings \in SeqsOf({"gzip", "identity", "br"}, 2)
    BY DEF Responses
  <2>2. /\ input.early \in Seq(UpTo(ResponseHeaders, 1))
        /\ input.encodings \in Seq({"gzip", "identity", "br"})
    BY <2>1, SeqsOfAreSeqs
  <2> QED
    BY <2>2, ResponsesAreClean
<1> QED
  BY <1>1, <1>2, <1>3, PTL DEF Questions

-----------------------------------------------------------------------------
(***************************************************************************)
(* Policies                                                                *)
(***************************************************************************)

\* What is in a concatenation.
LEMMA RangeJoined ==
  ASSUME NEW S, NEW a \in Seq(S), NEW c \in Seq(S)
  PROVE  Range(a \o c) = Range(a) \cup Range(c)
<1>2. /\ a \o c \in Seq(S) /\ Len(a \o c) = Len(a) + Len(c)
      /\ \A j \in 1 .. Len(a) : (a \o c)[j] = a[j]
  BY Joined
<1>3. \A j \in 1 .. Len(c) : (a \o c)[Len(a) + j] = c[j]
  BY Joined
<1>4. Len(a) \in Nat /\ Len(c) \in Nat /\ DOMAIN a = 1 .. Len(a) /\ DOMAIN c = 1 .. Len(c)
      /\ DOMAIN (a \o c) = 1 .. Len(a) + Len(c)
  BY <1>2
<1>5. ASSUME NEW j \in DOMAIN (a \o c) PROVE (a \o c)[j] \in Range(a) \cup Range(c)
  <2>1. CASE j <= Len(a)
    BY <1>2, <1>4, <2>1 DEF Range
  <2>2. CASE j > Len(a)
    <3>1. j - Len(a) \in 1 .. Len(c) /\ Len(a) + (j - Len(a)) = j
      BY <1>4, <2>2
    <3> QED
      BY <1>3, <1>4, <3>1 DEF Range
  <2> QED
    BY <1>4, <2>1, <2>2
<1>6. ASSUME NEW x \in Range(a) PROVE x \in Range(a \o c)
  <2>1. PICK j \in 1 .. Len(a) : a[j] = x
    BY <1>4 DEF Range
  <2>2. j \in DOMAIN (a \o c) /\ (a \o c)[j] = x
    BY <1>2, <1>4, <2>1
  <2> QED
    BY <2>2 DEF Range
<1>7. ASSUME NEW x \in Range(c) PROVE x \in Range(a \o c)
  <2>1. PICK j \in 1 .. Len(c) : c[j] = x
    BY <1>4 DEF Range
  <2>2. Len(a) + j \in DOMAIN (a \o c)
    BY <1>4
  <2>3. (a \o c)[Len(a) + j] = x
    BY <1>3, <2>1
  <2> QED
    BY <2>2, <2>3 DEF Range
<1>8. Range(a \o c) = Range(a) \cup Range(c)
  <2>1. \A x \in Range(a \o c) : x \in Range(a) \cup Range(c)
    BY <1>5 DEF Range
  <2> QED
    BY <2>1, <1>6, <1>7
<1> QED
  BY <1>8

\* Induction, over a set of numbers.
LEMMA Climb ==
  ASSUME NEW m \in Nat, NEW n \in Nat, NEW T, m \in T, \A i \in m .. n - 1 : i \in T => i + 1 \in T
  PROVE  \A i \in m .. n : i \in T
<1> DEFINE U == {i \in m .. n : i \notin T}
<1> SUFFICES ASSUME U # {} PROVE FALSE
  OBVIOUS
<1>1. PICK x \in U : \A y \in U : x <= y
  <2>1. U \subseteq Nat
    OBVIOUS
  <2> HIDE DEF U
  <2> QED
    BY <2>1, LeastMember
<1>2. x # m /\ x \in m .. n
  OBVIOUS
<1>3. x - 1 \in m .. n - 1 /\ x - 1 + 1 = x
  BY <1>2
<1>4. x - 1 \notin U
  BY <1>1, <1>2
<1>5. x - 1 \in T
  BY <1>3, <1>4
<1> QED
  BY <1>3, <1>5

\* The greatest number of 1 .. n.
LEMMA MaxOfInterval ==
  ASSUME NEW n \in Nat, NEW s, s \subseteq 1 .. n, n \in s
  PROVE  Max(s) = n
<1>1. \A x \in s : (\A y \in s : x >= y) => x = n
  OBVIOUS
<1>2. \A y \in s : n >= y
  OBVIOUS
<1> QED
  BY <1>1, <1>2 DEF Max

\* Max of a set of numbers is one of them.
LEMMA MaxIsMember ==
  ASSUME NEW n \in Nat, NEW s, s \subseteq 1 .. n, s # {}
  PROVE  Max(s) \in s
<1> DEFINE U == {k \in Nat : \A x \in s : x <= k}
<1>1. PICK k \in U : \A m \in U : k <= m
  <2>1. U \subseteq Nat /\ n \in U
    OBVIOUS
  <2> HIDE DEF U
  <2> QED
    BY <2>1, LeastMember
<1>2. k \in s
  <2> SUFFICES ASSUME k \notin s PROVE FALSE
    OBVIOUS
  <2>0. PICK t : t \in s
    OBVIOUS
  <2>1. t \in s /\ t \in Nat
    BY <2>0
  <2>2. k # 0
    BY <1>1, <2>1
  <2>3. k - 1 \in U
    BY <1>1, <2>2
  <2> QED
    BY <1>1, <2>3
<1>3. \E x \in s : \A y \in s : x >= y
  BY <1>1, <1>2
<1> QED
  BY <1>3 DEF Max

\* The function that a fold from the left is the last value of, when its steps G stay
\* within V.  (MapThenFoldSet takes the numbers of a sequence off from the last.)
FoldOf(f, base, n, G) == \A s \in SUBSET (1 .. n) : f[s] = IF s = {} THEN base ELSE G[Max(s)][f[s \ {Max(s)}]]

\* That function exists.
LEMMA FoldExists ==
  ASSUME NEW V, NEW base \in V, NEW n \in Nat, NEW G \in [1 .. n -> [V -> V]]
  PROVE  \E f \in [SUBSET (1 .. n) -> V] : FoldOf(f, base, n, G)
<1> DEFINE Is(f, m) == \A s \in SUBSET (1 .. m) : f[s] = IF s = {} THEN base ELSE G[Max(s)][f[s \ {Max(s)}]]
           T == {m \in 0 .. n : \E f \in [SUBSET (1 .. m) -> V] : Is(f, m)}
<1>1. 0 \in T
  <2> DEFINE f == [s \in SUBSET (1 .. 0) |-> base]
  <2>1. f \in [SUBSET (1 .. 0) -> V]
    OBVIOUS
  <2>2. \A s \in SUBSET (1 .. 0) : s = {}
    OBVIOUS
  <2>3. Is(f, 0)
    BY <2>2
  <2> HIDE DEF f, Is
  <2>4. 0 \in 0 .. n
    OBVIOUS
  <2>5. \E h \in [SUBSET (1 .. 0) -> V] : Is(h, 0)
    BY <2>1, <2>3, Zenon
  <2> QED
    BY <2>4, <2>5
<1>2. ASSUME NEW m \in 0 .. n - 1, m \in T PROVE m + 1 \in T
  <2>1. PICK f \in [SUBSET (1 .. m) -> V] : Is(f, m)
    BY <1>2
  <2> DEFINE N == m + 1
             g == [s \in SUBSET (1 .. N) |-> IF N \in s THEN G[N][f[s \ {N}]] ELSE f[s]]
  <2>2. N \in 1 .. n /\ N \in Nat /\ m \in Nat
    OBVIOUS
  <2>3. \A s \in SUBSET (1 .. N) : s \ {N} \in SUBSET (1 .. m) /\ (N \notin s => s \in SUBSET (1 .. m))
    BY <2>2
  <2>4. \A s \in SUBSET (1 .. m) : s \in SUBSET (1 .. N) /\ N \notin s
    BY <2>2
  <2> HIDE DEF N
  <2>5. g \in [SUBSET (1 .. N) -> V]
    BY <2>2, <2>3
  <2>6. ASSUME NEW s \in SUBSET (1 .. N)
        PROVE  g[s] = IF s = {} THEN base ELSE G[Max(s)][g[s \ {Max(s)}]]
    <3>1. CASE N \in s
      <4>1. Max(s) = N
        BY <2>2, <3>1, MaxOfInterval
      <4>2. s \ {N} \in SUBSET (1 .. m) /\ g[s \ {N}] = f[s \ {N}]
        BY <2>3, <2>4
      <4> QED
        BY <3>1, <4>1, <4>2
    <3>2. CASE N \notin s
      <4>1. s \in SUBSET (1 .. m) /\ g[s] = f[s]
        BY <2>3, <3>2
      <4>2. CASE s = {}
        BY <2>1, <4>1, <4>2
      <4>3. CASE s # {}
        <5>1. Max(s) \in s
          BY <2>2, <4>1, <4>3, MaxIsMember
        <5>2. s \ {Max(s)} \in SUBSET (1 .. m) /\ g[s \ {Max(s)}] = f[s \ {Max(s)}]
          BY <2>4, <4>1
        <5> QED
          BY <2>1, <4>1, <4>3, <5>2
      <4> QED
        BY <4>2, <4>3
    <3> QED
      BY <3>1, <3>2
  <2>7. N \in 0 .. n
    BY <2>2
  <2> HIDE DEF g
  <2>8. Is(g, N)
    BY <2>6
  <2> HIDE DEF Is
  <2> QED
    BY <2>5, <2>7, <2>8 DEF N
<1>3. n \in T
  <2>1. 0 \in T /\ (\A i \in 0 .. n - 1 : i \in T => i + 1 \in T) /\ 0 \in Nat
    BY <1>1, <1>2
  <2> HIDE DEF T
  <2>2. \A i \in 0 .. n : i \in T
    BY <2>1, Climb
  <2> QED
    BY <2>2
<1>4. PICK f \in [SUBSET (1 .. n) -> V] : Is(f, n)
  BY <1>3
<1> QED
  BY <1>4 DEF FoldOf

\* The sets 1 .. i that a fold goes through.
LEMMA Intervals ==
  ASSUME NEW n \in Nat, NEW i \in 1 .. n
  PROVE  /\ 1 .. i \in SUBSET (1 .. n) /\ 1 .. i - 1 \in SUBSET (1 .. n)
         /\ 1 .. i # {} /\ Max(1 .. i) = i /\ (1 .. i) \ {i} = 1 .. i - 1
<1>1. i \in Nat /\ i \in 1 .. i /\ 1 .. i \subseteq 1 .. n
  OBVIOUS
<1>2. Max(1 .. i) = i
  BY <1>1, MaxOfInterval
<1>3. (1 .. i) \ {i} = 1 .. i - 1
  OBVIOUS
<1> QED
  BY <1>1, <1>2, <1>3

-----------------------------------------------------------------------------
\* FlattenSeq, when there is something to flatten.
LEMMA FlattenIs ==
  ASSUME NEW S, NEW seqs \in Seq(Seq(S))
  PROVE  /\ FlattenSeq(seqs) \in Seq(S)
         /\ Range(FlattenSeq(seqs)) = UNION {Range(seqs[i]) : i \in DOMAIN seqs}
<1> DEFINE n == Len(seqs)
<1>0. n \in Nat /\ DOMAIN seqs = 1 .. n /\ \A i \in 1 .. n : seqs[i] \in Seq(S)
  OBVIOUS
<1>1. CASE n = 0
  BY <1>0, <1>1 DEF FlattenSeq, Range
<1>2. CASE n # 0
  <2> DEFINE Is(f, m) == \A i \in 1 .. m : f[i] = IF i = 1 THEN seqs[i] ELSE f[i - 1] \o seqs[i]
             T == {m \in 1 .. n : \E f \in [1 .. m -> Seq(S)] : Is(f, m)}
             P(f) == f = [i \in 1 .. n |-> IF i = 1 THEN seqs[i] ELSE f[i - 1] \o seqs[i]]
             flatten == CHOOSE f : P(f)
  <2>1. 1 \in T
    <3> DEFINE f == [i \in 1 .. 1 |-> seqs[i]]
    <3>1. f \in [1 .. 1 -> Seq(S)] /\ Is(f, 1) /\ 1 \in 1 .. n
      BY <1>0, <1>2
    <3> HIDE DEF f, Is
    <3> QED
      BY <3>1
  <2>2. ASSUME NEW m \in 1 .. n - 1, m \in T PROVE m + 1 \in T
    <3>1. PICK f \in [1 .. m -> Seq(S)] : Is(f, m)
      BY <2>2
    <3> DEFINE N == m + 1
               g == [i \in 1 .. N |-> IF i = N THEN f[m] \o seqs[N] ELSE f[i]]
    <3>2. N \in 1 .. n /\ m \in 1 .. m /\ N - 1 = m /\ N # 1 /\ \A i \in 1 .. N : i = N \/ i \in 1 .. m
      BY <1>0
    <3>3. f[m] \o seqs[N] \in Seq(S)
      BY <1>0, <3>2, Joined
    <3> HIDE DEF N
    <3>4. g \in [1 .. N -> Seq(S)]
      BY <3>2, <3>3
    <3>5. ASSUME NEW i \in 1 .. N PROVE g[i] = IF i = 1 THEN seqs[i] ELSE g[i - 1] \o seqs[i]
      <4>1. CASE i = N
        <5>1. g[m] = f[m]
          BY <3>2 DEF N
        <5> QED
          BY <3>2, <4>1, <5>1
      <4>2. CASE i # N
        <5>1. i \in 1 .. m /\ g[i] = f[i] /\ (i # 1 => i - 1 \in 1 .. m /\ i - 1 # N /\ i - 1 \in 1 .. N)
          BY <3>2, <4>2 DEF N
        <5>2. i # 1 => g[i - 1] = f[i - 1]
          BY <5>1
        <5> QED
          BY <3>1, <5>1, <5>2
      <4> QED
        BY <4>1, <4>2
    <3> HIDE DEF g
    <3>6. Is(g, N)
      BY <3>5
    <3> HIDE DEF Is
    <3> QED
      BY <3>2, <3>4, <3>6 DEF N
  <2>3. n \in T
    <3>1. 1 \in T /\ (\A i \in 1 .. n - 1 : i \in T => i + 1 \in T) /\ 1 \in Nat
      BY <2>1, <2>2
    <3> HIDE DEF T
    <3>2. \A i \in 1 .. n : i \in T
      BY <1>0, <3>1, Climb
    <3> QED
      BY <1>0, <1>2, <3>2
  <2>4. PICK f \in [1 .. n -> Seq(S)] : Is(f, n)
    BY <2>3
  <2>5. P(f)
    BY <2>4
  <2>6. P(flatten)
    <3> HIDE DEF P
    <3> QED
      BY <2>5
  <2>7. FlattenSeq(seqs) = flatten[n]
    BY <1>2 DEF FlattenSeq
  <2> HIDE DEF flatten
  <2>8. Is(flatten, n)
    BY <2>6
  <2> DEFINE U == {i \in 1 .. n : /\ flatten[i] \in Seq(S)
                                 /\ Range(flatten[i]) = UNION {Range(seqs[k]) : k \in 1 .. i}}
  <2>9. 1 \in U
    <3>1. flatten[1] = seqs[1] /\ 1 \in 1 .. n /\ 1 .. 1 = {1}
      BY <1>0, <1>2, <2>8
    <3>2. UNION {Range(seqs[k]) : k \in {1}} = Range(seqs[1])
      OBVIOUS
    <3> QED
      BY <1>0, <3>1, <3>2
  <2>10. ASSUME NEW i \in 1 .. n - 1, i \in U PROVE i + 1 \in U
    <3> DEFINE N == i + 1
    <3>1. N \in 1 .. n /\ N # 1 /\ N - 1 = i /\ 1 .. N = (1 .. i) \cup {N}
      BY <1>0
    <3>2. flatten[N] = flatten[i] \o seqs[N]
      BY <2>8, <3>1
    <3> HIDE DEF N
    <3>3. flatten[i] \in Seq(S) /\ seqs[N] \in Seq(S) /\ Range(flatten[i]) = UNION {Range(seqs[k]) : k \in 1 .. i}
      BY <1>0, <2>10, <3>1
    <3>4. flatten[N] \in Seq(S) /\ Range(flatten[N]) = Range(flatten[i]) \cup Range(seqs[N])
      BY <3>2, <3>3, Joined, RangeJoined
    <3>5. UNION {Range(seqs[k]) : k \in 1 .. N} = (UNION {Range(seqs[k]) : k \in 1 .. i}) \cup Range(seqs[N])
      BY <3>1
    <3> QED
      BY <3>1, <3>3, <3>4, <3>5 DEF N
  <2>11. n \in U
    <3>1. 1 \in U /\ (\A i \in 1 .. n - 1 : i \in U => i + 1 \in U) /\ 1 \in Nat
      BY <2>9, <2>10
    <3> HIDE DEF U
    <3>2. \A i \in 1 .. n : i \in U
      BY <1>0, <3>1, Climb
    <3> QED
      BY <1>0, <1>2, <3>2
  <2> QED
    BY <1>0, <2>7, <2>11
<1> QED
  BY <1>1, <1>2

-----------------------------------------------------------------------------
\* What the loop over the entries can hold.
Verdicts == {Verdict(FALSE, "policy"), Verdict(FALSE, "method"), Verdict(FALSE, "path"), Verdict(TRUE, "none")}

\* What a set of entries says of a Proxy Delivery: that one of them allows it, or how far
\* the best of them lets it come.
Applies(e, secret) == e.secret = secret /\ "proxy" \in e.delivery
Allows(e, secret, method, path) == Applies(e, secret) /\ within(e.methods, method) /\ within(e.paths, path)
Decision(es, secret, method, path) ==
  IF \E e \in es : Allows(e, secret, method, path) THEN Verdict(TRUE, "none")
  ELSE IF \E e \in es : Applies(e, secret) /\ within(e.methods, method) THEN Verdict(FALSE, "path")
  ELSE IF \E e \in es : Applies(e, secret) THEN Verdict(FALSE, "method")
  ELSE Verdict(FALSE, "policy")

\* tryEntry stays within the verdicts.
LEMMA TryEntryType ==
  ASSUME NEW v \in Verdicts, NEW e, NEW secret, NEW method, NEW path
  PROVE  tryEntry(v, e, secret, method, path) \in Verdicts
<1>1. v.allowed \/ v.denial \in {"policy", "method", "path"}
  BY DEF Verdicts, Verdict
<1>2. \A d \in {"policy", "method", "path"} : Verdict(FALSE, d) \in Verdicts
  BY DEF Verdicts
<1>3. Verdict(TRUE, "none") \in Verdicts
  BY DEF Verdicts
<1>4. CASE v.allowed \/ e.secret # secret \/ "proxy" \notin e.delivery
  BY <1>4 DEF tryEntry
<1>5. CASE ~(v.allowed \/ e.secret # secret \/ "proxy" \notin e.delivery)
  <2>1. CASE ~within(e.methods, method)
    <3>1. tryEntry(v, e, secret, method, path) = Verdict(FALSE, IF v.denial = "policy" THEN "method" ELSE v.denial)
      BY <1>5, <2>1 DEF tryEntry
    <3>2. (IF v.denial = "policy" THEN "method" ELSE v.denial) \in {"policy", "method", "path"}
      BY <1>1, <1>5
    <3> QED
      BY <1>2, <3>1, <3>2
  <2>2. CASE within(e.methods, method)
    BY <1>2, <1>3, <1>5, <2>2 DEF tryEntry
  <2> QED
    BY <2>1, <2>2
<1> QED
  BY <1>4, <1>5

\* One more entry.
LEMMA OneMore ==
  ASSUME NEW es, NEW e, NEW secret, NEW method, NEW path
  PROVE  tryEntry(Decision(es, secret, method, path), e, secret, method, path)
           = Decision(es \cup {e}, secret, method, path)
<1> DEFINE more == es \cup {e}
           ok(x) == Allows(x, secret, method, path)
           far(x) == Applies(x, secret) /\ within(x.methods, method)
           old == Decision(es, secret, method, path)
           new == Decision(more, secret, method, path)
<1>1. /\ (\E x \in more : ok(x)) <=> (\E x \in es : ok(x)) \/ ok(e)
      /\ (\E x \in more : far(x)) <=> (\E x \in es : far(x)) \/ far(e)
      /\ (\E x \in more : Applies(x, secret)) <=> (\E x \in es : Applies(x, secret)) \/ Applies(e, secret)
  OBVIOUS
<1>2. CASE \E x \in es : ok(x)
  BY <1>1, <1>2 DEF Decision, tryEntry, Verdict
<1>3. CASE ~\E x \in es : ok(x)
  <2>1. old \in {Verdict(FALSE, "policy"), Verdict(FALSE, "method"), Verdict(FALSE, "path")} /\ ~old.allowed
    BY <1>3 DEF Decision, Verdict
  <2>2. CASE ~Applies(e, secret)
    BY <1>1, <1>3, <2>1, <2>2 DEF Decision, tryEntry, Allows, Applies
  <2>3. CASE Applies(e, secret) /\ ~within(e.methods, method)
    <3>1. tryEntry(old, e, secret, method, path) = Verdict(FALSE, IF old.denial = "policy" THEN "method" ELSE old.denial)
      BY <2>1, <2>3 DEF tryEntry, Applies
    <3>2. ~ok(e) /\ ~far(e)
      BY <2>3 DEF Allows
    <3>3. CASE \E x \in es : far(x)
      BY <1>1, <1>3, <3>1, <3>3, <3>2 DEF Decision, Verdict
    <3>4. CASE ~\E x \in es : far(x)
      BY <1>1, <1>3, <3>1, <3>4, <3>2, <2>3 DEF Decision, Verdict
    <3> QED
      BY <3>3, <3>4
  <2>4. CASE far(e) /\ ~within(e.paths, path)
    <3>1. tryEntry(old, e, secret, method, path) = Verdict(FALSE, "path")
      BY <2>1, <2>4 DEF tryEntry, Applies
    <3>2. ~ok(e)
      BY <2>4 DEF Allows
    <3> QED
      BY <1>1, <1>3, <2>4, <3>1, <3>2 DEF Decision
  <2>5. CASE ok(e)
    BY <1>1, <2>1, <2>5 DEF tryEntry, Applies, Decision, Allows
  <2> QED
    BY <2>2, <2>3, <2>4, <2>5 DEF Allows
<1> QED
  BY <1>2, <1>3

\* The loop of AuthorizeProxy, step by step.
LEMMA TriedInOrder ==
  ASSUME NEW S, NEW s \in Seq(S), NEW secret, NEW method, NEW path
  PROVE  FoldLeft(LAMBDA v, e : tryEntry(v, e, secret, method, path), Verdict(FALSE, "policy"), s)
           = Decision(Range(s), secret, method, path)
<1> DEFINE n == Len(s)
           base == Verdict(FALSE, "policy")
           G == [i \in 1 .. n |-> [v \in Verdicts |-> tryEntry(v, s[i], secret, method, path)]]
           P(f) == f = [x \in SUBSET (1 .. n) |->
                          IF x = {} THEN base ELSE tryEntry(f[x \ {Max(x)}], s[Max(x)], secret, method, path)]
           it == CHOOSE f : P(f)
<1>1. n \in Nat /\ DOMAIN s = 1 .. n /\ base \in Verdicts
  BY DEF Verdicts
<1>2. G \in [1 .. n -> [Verdicts -> Verdicts]]
  BY TryEntryType
<1>3. PICK f \in [SUBSET (1 .. n) -> Verdicts] : FoldOf(f, base, n, G)
  <2> HIDE DEF G, n, base
  <2> QED
    BY <1>1, <1>2, FoldExists
<1>4. ASSUME NEW x \in SUBSET (1 .. n), x # {}
      PROVE  Max(x) \in 1 .. n /\ x \ {Max(x)} \in SUBSET (1 .. n)
  BY <1>1, <1>4, MaxIsMember
<1>5. P(f)
  <2> DEFINE R(x) == IF x = {} THEN base ELSE tryEntry(f[x \ {Max(x)}], s[Max(x)], secret, method, path)
             Q(x) == IF x = {} THEN base ELSE G[Max(x)][f[x \ {Max(x)}]]
  <2>1. ASSUME NEW x \in SUBSET (1 .. n) PROVE Q(x) = R(x)
    <3>1. CASE x = {}
      BY <3>1
    <3>2. CASE x # {}
      <4> DEFINE k == Max(x)
                 w == f[x \ {k}]
      <4>1. k \in 1 .. n /\ w \in Verdicts
        BY <1>4, <3>2
      <4> HIDE DEF k, w
      <4>2. G[k][w] = tryEntry(w, s[k], secret, method, path)
        BY <4>1
      <4> QED
        BY <3>2, <4>2 DEF k, w
    <3> QED
      BY <3>1, <3>2
  <2>2. \A x \in SUBSET (1 .. n) : f[x] = Q(x)
    BY <1>3 DEF FoldOf
  <2> HIDE DEF Q, R
  <2>3. f = [x \in SUBSET (1 .. n) |-> R(x)]
    BY <2>1, <2>2
  <2> QED
    BY <2>3 DEF R
<1>6. P(it)
  <2> HIDE DEF P
  <2> QED
    BY <1>5
<1>7. FoldLeft(LAMBDA v, e : tryEntry(v, e, secret, method, path), Verdict(FALSE, "policy"), s) = it[1 .. n]
  BY <1>1 DEF FoldLeft, MapThenFoldSet
<1> HIDE DEF it
<1>8. \A x \in SUBSET (1 .. n) :
        it[x] = IF x = {} THEN base ELSE tryEntry(it[x \ {Max(x)}], s[Max(x)], secret, method, path)
  BY <1>6
<1> DEFINE T == {i \in 0 .. n : it[1 .. i] = Decision({s[k] : k \in 1 .. i}, secret, method, path)}
<1>9. 0 \in T
  <2>1. 1 .. 0 = {} /\ {s[k] : k \in 1 .. 0} = {} /\ {} \in SUBSET (1 .. n) /\ 0 \in 0 .. n
    BY <1>1
  <2>2. it[{}] = base
    BY <1>8, <2>1
  <2>3. Decision({}, secret, method, path) = base
    BY DEF Decision
  <2> QED
    BY <2>1, <2>2, <2>3
<1>10. ASSUME NEW i \in 0 .. n - 1, i \in T PROVE i + 1 \in T
  <2> DEFINE N == i + 1
  <2>1. N \in 1 .. n /\ N - 1 = i /\ N \in 0 .. n /\ 1 .. N = (1 .. i) \cup {N}
    BY <1>1
  <2>2. /\ 1 .. N \in SUBSET (1 .. n) /\ 1 .. N # {} /\ Max(1 .. N) = N /\ (1 .. N) \ {N} = 1 .. i
    BY <1>1, <2>1, Intervals
  <2> HIDE DEF N
  <2>3. it[1 .. N] = tryEntry(it[1 .. i], s[N], secret, method, path)
    BY <1>8, <2>2
  <2>4. {s[k] : k \in 1 .. N} = {s[k] : k \in 1 .. i} \cup {s[N]}
    BY <2>1
  <2>5. it[1 .. i] = Decision({s[k] : k \in 1 .. i}, secret, method, path)
    BY <1>10
  <2>6. it[1 .. N] = Decision({s[k] : k \in 1 .. N}, secret, method, path)
    <3> DEFINE es == {s[k] : k \in 1 .. i}
    <3>0. it[1 .. i] = Decision(es, secret, method, path) /\ {s[k] : k \in 1 .. N} = es \cup {s[N]}
      BY <2>4, <2>5
    <3> HIDE DEF es
    <3>1. tryEntry(Decision(es, secret, method, path), s[N], secret, method, path)
            = Decision(es \cup {s[N]}, secret, method, path)
      BY OneMore
    <3> QED
      BY <2>3, <3>0, <3>1
  <2> QED
    BY <2>1, <2>6 DEF N
<1>11. n \in T
  <2>1. 0 \in Nat /\ 0 \in T /\ \A i \in 0 .. n - 1 : i \in T => i + 1 \in T
    BY <1>9, <1>10
  <2> HIDE DEF T
  <2>2. \A i \in 0 .. n : i \in T
    BY <1>1, <2>1, Climb
  <2> QED
    BY <1>1, <2>2
<1>12. Range(s) = {s[k] : k \in 1 .. n}
  BY <1>1 DEF Range
<1> QED
  BY <1>7, <1>11, <1>12

\* The entries of the Policies a token names.
NamedEntries(cfg, names) ==
  UNION {Range(cfg.policies[n]) : n \in Range(names) \cap DOMAIN cfg.policies}

\* The Policies of cfg have their entries in S.
EntriesIn(cfg, S) == \A n \in DOMAIN cfg.policies : cfg.policies[n] \in Seq(S)

\* EntriesOf gathers the entries of the named Policies, and skips the names without one.
LEMMA EntriesAre ==
  ASSUME NEW S, NEW X, NEW cfg, NEW names \in Seq(X),
         EntriesIn(cfg, S)
  PROVE  EntriesOf(cfg, names) \in Seq(S) /\ Range(EntriesOf(cfg, names)) = NamedEntries(cfg, names)
<1> DEFINE of(i) == IF names[i] \in DOMAIN cfg.policies THEN cfg.policies[names[i]] ELSE <<>>
           seqs == [i \in DOMAIN names |-> of(i)]
<1>1. \A i \in DOMAIN names : of(i) \in Seq(S)
  BY DEF EntriesIn
<1>2. seqs \in Seq(Seq(S)) /\ DOMAIN seqs = DOMAIN names
  <2>1. Len(names) \in Nat /\ DOMAIN names = 1 .. Len(names)
    OBVIOUS
  <2> HIDE DEF of
  <2> QED
    BY <1>1, <2>1
<1>3. EntriesOf(cfg, names) = FlattenSeq(seqs)
  BY DEF EntriesOf
<1>4. EntriesOf(cfg, names) \in Seq(S) /\ Range(EntriesOf(cfg, names)) = UNION {Range(seqs[i]) : i \in DOMAIN seqs}
  <2> HIDE DEF seqs
  <2> QED
    BY <1>2, <1>3, FlattenIs
<1>5. \A i \in DOMAIN names : seqs[i] = of(i)
  OBVIOUS
<1>6. \A x : x \in UNION {Range(seqs[i]) : i \in DOMAIN seqs} <=> \E i \in DOMAIN names : x \in Range(of(i))
  <2> HIDE DEF of, seqs
  <2> QED
    BY <1>2, <1>5
<1>7. Range(<<>>) = {}
  BY DEF Range
<1>8. \A x : (\E i \in DOMAIN names : x \in Range(of(i))) <=> x \in NamedEntries(cfg, names)
  <2>1. \A n : n \in Range(names) <=> \E i \in DOMAIN names : names[i] = n
    BY DEF Range
  <2>2. \A x : x \in NamedEntries(cfg, names) <=>
                 \E n \in Range(names) : n \in DOMAIN cfg.policies /\ x \in Range(cfg.policies[n])
    BY DEF NamedEntries
  <2> QED
    BY <1>7, <2>1, <2>2
<1> QED
  BY <1>4, <1>6, <1>8

\* The ruling of cfg when es are the entries that count.
Ruling(cfg, es, secret, method, path) ==
  IF secret \notin cfg.secrets THEN Verdict(FALSE, "unknown") ELSE Decision(es, secret, method, path)

\* AuthorizeProxy decides by the set of entries that the token's Policies have, whatever the
\* config: it allows what one entry allows as a whole, and otherwise the reason tells how
\* far the best entry came.  The entries that come before or after change nothing.
THEOREM EntriesDecide ==
  ASSUME NEW S, NEW X, NEW cfg, NEW names \in Seq(X), NEW secret, NEW method, NEW path,
         EntriesIn(cfg, S)
  PROVE  AuthorizeProxy(cfg, names, secret, method, path) = Ruling(cfg, NamedEntries(cfg, names), secret, method, path)
<1>1. EntriesOf(cfg, names) \in Seq(S) /\ Range(EntriesOf(cfg, names)) = NamedEntries(cfg, names)
  BY EntriesAre
<1> DEFINE es == EntriesOf(cfg, names)
<1> HIDE DEF es
<1>2. es \in Seq(S) /\ Range(es) = NamedEntries(cfg, names)
  BY <1>1 DEF es
<1>3. FoldLeft(LAMBDA v, e : tryEntry(v, e, secret, method, path), Verdict(FALSE, "policy"), es)
        = Decision(Range(es), secret, method, path)
  BY <1>2, TriedInOrder
<1> QED
  BY <1>2, <1>3 DEF AuthorizeProxy, es, Ruling

\* A token's Policies in another order, or named twice, get the same decision and reason.
THEOREM OrderOfPolicies ==
  ASSUME NEW S, NEW X, NEW cfg, NEW names \in Seq(X), NEW others \in Seq(X), Range(names) = Range(others),
         NEW secret, NEW method, NEW path,
         EntriesIn(cfg, S)
  PROVE  AuthorizeProxy(cfg, names, secret, method, path) = AuthorizeProxy(cfg, others, secret, method, path)
<1>1. NamedEntries(cfg, names) = NamedEntries(cfg, others)
  BY DEF NamedEntries
<1> QED
  BY <1>1, EntriesDecide

\* A question about Policies is two sequences of entries.
PoliciesInv == about = "policies" => input \in [first : Seq(Entries), second : Seq(Entries)]

\* Every question about Policies is one.
LEMMA PoliciesAlways == Questions => []PoliciesInv
<1>1. FirstQuestion => PoliciesInv
  <2> SUFFICES ASSUME FirstQuestion, about = "policies"
               PROVE  input \in [first : Seq(Entries), second : Seq(Entries)]
    BY DEF PoliciesInv
  <2>1. input = NoEntries
    BY DEF FirstQuestion
  <2>2. <<>> \in Seq(Entries)
    OBVIOUS
  <2> QED
    BY <2>1, <2>2 DEF NoEntries
<1>2. PoliciesInv /\ [NextQuestion]_asked => PoliciesInv'
  <2> SUFFICES ASSUME PoliciesInv, [NextQuestion]_asked, about' = "policies"
               PROVE  input' \in [first : Seq(Entries), second : Seq(Entries)]
    BY DEF PoliciesInv
  <2>1. CASE AddEntry
    <3>1. PICK e \in Entries : \/ input' = [input EXCEPT !.first = Append(@, e)]
                               \/ input' = [input EXCEPT !.second = Append(@, e)]
      BY <2>1 DEF AddEntry
    <3>2. input \in [first : Seq(Entries), second : Seq(Entries)]
      BY <2>1 DEF AddEntry, PoliciesInv
    <3>3. Append(input.first, e) \in Seq(Entries) /\ Append(input.second, e) \in Seq(Entries)
      BY <3>2
    <3> QED
      BY <3>1, <3>2, <3>3
  <2>2. CASE UNCHANGED asked
    BY <2>2 DEF asked, PoliciesInv
  <2> QED
    BY <2>1, <2>2 DEF NextQuestion, Extend, AddHeader, AddParam, PutRecord
<1> QED
  BY <1>1, <1>2, PTL DEF Questions

\* The decision about a request is the one of the entries taken as a set, in the run's
\* questions and for any number of entries.
THEOREM OneEntryIsEnough == Questions => []OneEntryAllows
<1>1. PoliciesInv => OneEntryAllows
  <2> SUFFICES ASSUME about = "policies", input \in [first : Seq(Entries), second : Seq(Entries)]
               PROVE  OneEntryAllows
    BY DEF PoliciesInv, OneEntryAllows
  <2> DEFINE cfg == [secrets |-> Names, upstreams |-> Names, policies |-> input]
             all == input.first \o input.second
             forth == <<"first", "second">>
             back == <<"second", "first">>
             es == Range(input.first) \cup Range(input.second)
  <2>1. cfg.secrets = Names /\ cfg.policies = input /\ DOMAIN input = {"first", "second"}
        /\ input.first \in Seq(Entries) /\ input.second \in Seq(Entries)
    OBVIOUS
  <2>2. EntriesIn(cfg, Entries)
    BY <2>1 DEF EntriesIn
  <2>3. /\ forth \in Seq({"first", "second"}) /\ back \in Seq({"first", "second"})
        /\ DOMAIN forth = {1, 2} /\ DOMAIN back = {1, 2}
    OBVIOUS
  <2>4. Range(forth) = Range(back)
    BY <2>3 DEF Range
  <2>5. NamedEntries(cfg, forth) = es
    <3>1. Range(forth) = {"first", "second"}
      BY <2>3 DEF Range
    <3> QED
      BY <2>1, <3>1 DEF NamedEntries
  <2>6. \A x : x \in es <=> \E i \in DOMAIN all : all[i] = x
    <3>1. Range(all) = es
      BY <2>1, RangeJoined
    <3>2. \A x : x \in Range(all) <=> \E i \in DOMAIN all : all[i] = x
      BY DEF Range
    <3> QED
      BY <3>1, <3>2
  <2> HIDE DEF all, es, cfg, forth, back
  <2>7. ASSUME NEW s \in Names, NEW m \in Methods, NEW p \in Paths
        PROVE  /\ AuthorizeProxy(cfg, forth, s, m, p) = AuthorizeProxy(cfg, back, s, m, p)
               /\ AuthorizeProxy(cfg, forth, s, m, p).allowed <=>
                    \E i \in DOMAIN all :
                      /\ all[i].secret = s /\ "proxy" \in all[i].delivery
                      /\ all[i].methods = NoLimit \/ m \in all[i].methods
                      /\ all[i].paths = NoLimit \/ p \in all[i].paths
    <3>1. AuthorizeProxy(cfg, forth, s, m, p) = AuthorizeProxy(cfg, back, s, m, p)
      BY <2>2, <2>3, <2>4, OrderOfPolicies
    <3>2. AuthorizeProxy(cfg, forth, s, m, p) = Decision(es, s, m, p)
      <4>1. s \in cfg.secrets
        BY DEF cfg
      <4>2. AuthorizeProxy(cfg, forth, s, m, p) = Ruling(cfg, es, s, m, p)
        BY <2>2, <2>3, <2>5, EntriesDecide
      <4> QED
        BY <4>1, <4>2 DEF Ruling
    <3>3. Decision(es, s, m, p).allowed <=> \E e \in es : Allows(e, s, m, p)
      BY DEF Decision, Verdict
    <3>4. (\E e \in es : Allows(e, s, m, p)) <=> \E i \in DOMAIN all : Allows(all[i], s, m, p)
      BY <2>6
    <3> QED
      BY <3>1, <3>2, <3>3, <3>4 DEF Allows, Applies, within
  <2> QED
    BY <2>7 DEF OneEntryAllows, all, cfg, forth, back
<1> QED
  BY <1>1, PoliciesAlways, PTL

-----------------------------------------------------------------------------
(***************************************************************************)
(* Paths                                                                   *)
(***************************************************************************)

-----------------------------------------------------------------------------
\* The next character in strings.Split.
SplitStep(parts, c, seps) ==
  IF c \in seps THEN Append(parts, <<>>) ELSE [parts EXCEPT ![Len(parts)] = Append(@, c)]

\* What Split has at hand: at least one part.
PartsOver(C) == Seq(Seq(C)) \ {<<>>}

\* Every character leaves at least one part.
LEMMA SplitStepType ==
  ASSUME NEW C, NEW parts \in PartsOver(C), NEW c \in C, NEW seps
  PROVE  SplitStep(parts, c, seps) \in PartsOver(C)
<1>1. parts \in Seq(Seq(C)) /\ Len(parts) \in 1 .. Len(parts) /\ Len(parts) \in Nat
  BY DEF PartsOver
<1>2. CASE c \in seps
  <2>1. <<>> \in Seq(C)
    OBVIOUS
  <2>2. Append(parts, <<>>) \in Seq(Seq(C)) /\ Len(Append(parts, <<>>)) = Len(parts) + 1
    BY <1>1, <2>1
  <2>3. Append(parts, <<>>) # <<>>
    BY <1>1, <2>2
  <2> QED
    BY <1>2, <2>2, <2>3 DEF SplitStep, PartsOver
<1>3. CASE c \notin seps
  <2> DEFINE last == parts[Len(parts)]
             new == [parts EXCEPT ![Len(parts)] = Append(last, c)]
  <2>1. last \in Seq(C)
    BY <1>1
  <2>2. Append(last, c) \in Seq(C)
    BY <2>1
  <2>3. new \in Seq(Seq(C)) /\ Len(new) = Len(parts)
    BY <1>1, <2>2
  <2>4. new # <<>>
    BY <1>1, <2>3
  <2> QED
    BY <1>3, <2>3, <2>4 DEF SplitStep, PartsOver
<1> QED
  BY <1>2, <1>3

\* The loop of Split, step by step.
LEMMA SplitSteps ==
  ASSUME NEW C, NEW s \in Seq(C), NEW seps
  PROVE  \E h \in [0 .. Len(s) -> PartsOver(C)] :
           /\ h[0] = << <<>> >>
           /\ \A i \in 1 .. Len(s) : h[i] = SplitStep(h[i - 1], s[i], seps)
           /\ Split(s, seps) = h[Len(s)]
<1> DEFINE n == Len(s)
           V == PartsOver(C)
           base == << <<>> >>
           G == [i \in 1 .. n |-> [v \in V |-> SplitStep(v, s[i], seps)]]
           P(f) == f = [x \in SUBSET (1 .. n) |->
                          IF x = {} THEN base ELSE SplitStep(f[x \ {Max(x)}], s[Max(x)], seps)]
           it == CHOOSE f : P(f)
<1>1. n \in Nat /\ DOMAIN s = 1 .. n
  OBVIOUS
<1>2. base \in V
  <2>1. <<>> \in Seq(C)
    OBVIOUS
  <2> QED
    BY <2>1 DEF PartsOver
<1>3. G \in [1 .. n -> [V -> V]]
  BY SplitStepType
<1>4. PICK f \in [SUBSET (1 .. n) -> V] : FoldOf(f, base, n, G)
  <2> HIDE DEF G, n, base, V
  <2> QED
    BY <1>1, <1>2, <1>3, FoldExists
<1>5. ASSUME NEW x \in SUBSET (1 .. n), x # {}
      PROVE  Max(x) \in 1 .. n /\ x \ {Max(x)} \in SUBSET (1 .. n)
  BY <1>1, <1>5, MaxIsMember
<1>6. P(f)
  <2> DEFINE R(x) == IF x = {} THEN base ELSE SplitStep(f[x \ {Max(x)}], s[Max(x)], seps)
             Q(x) == IF x = {} THEN base ELSE G[Max(x)][f[x \ {Max(x)}]]
  <2>1. ASSUME NEW x \in SUBSET (1 .. n) PROVE Q(x) = R(x)
    <3>1. CASE x = {}
      BY <3>1
    <3>2. CASE x # {}
      <4> DEFINE k == Max(x)
                 w == f[x \ {k}]
      <4>1. k \in 1 .. n /\ w \in V
        BY <1>5, <3>2
      <4> HIDE DEF k, w, V
      <4>2. G[k][w] = SplitStep(w, s[k], seps)
        BY <4>1
      <4> QED
        BY <3>2, <4>2 DEF k, w
    <3> QED
      BY <3>1, <3>2
  <2>2. \A x \in SUBSET (1 .. n) : f[x] = Q(x)
    BY <1>4 DEF FoldOf
  <2> HIDE DEF Q, R
  <2>3. f = [x \in SUBSET (1 .. n) |-> R(x)]
    BY <2>1, <2>2
  <2> QED
    BY <2>3 DEF R
<1>7. P(it)
  <2> HIDE DEF P
  <2> QED
    BY <1>6
<1>8. Split(s, seps) = it[1 .. n]
  BY <1>1 DEF Split, FoldLeft, MapThenFoldSet, SplitStep
<1> HIDE DEF it
<1>9. \A x \in SUBSET (1 .. n) : it[x] = IF x = {} THEN base ELSE SplitStep(it[x \ {Max(x)}], s[Max(x)], seps)
  BY <1>7
<1> DEFINE h == [i \in 0 .. n |-> it[1 .. i]]
<1>10. h[0] = base
  <2>1. 1 .. 0 = {} /\ {} \in SUBSET (1 .. n) /\ 0 \in 0 .. n
    BY <1>1
  <2> QED
    BY <1>9, <2>1
<1>11. ASSUME NEW i \in 1 .. n PROVE h[i] = SplitStep(h[i - 1], s[i], seps)
  <2>1. /\ 1 .. i \in SUBSET (1 .. n) /\ 1 .. i # {} /\ Max(1 .. i) = i /\ (1 .. i) \ {i} = 1 .. i - 1
    BY <1>1, Intervals
  <2>2. it[1 .. i] = SplitStep(it[1 .. i - 1], s[i], seps)
    BY <1>9, <2>1
  <2>3. i \in 0 .. n /\ i - 1 \in 0 .. n
    BY <1>1
  <2> QED
    BY <2>2, <2>3
<1>12. h \in [0 .. n -> V]
  <2> DEFINE T == {i \in 0 .. n : h[i] \in V}
  <2>1. 0 \in Nat /\ 0 \in T
    BY <1>1, <1>2, <1>10
  <2>2. ASSUME NEW i \in 0 .. n - 1, i \in T PROVE i + 1 \in T
    <3> DEFINE N == i + 1
    <3>1. N \in 1 .. n /\ N - 1 = i /\ N \in 0 .. n
      BY <1>1
    <3> HIDE DEF N, h
    <3>2. h[N] = SplitStep(h[i], s[N], seps)
      BY <1>11, <3>1
    <3>3. h[i] \in V /\ s[N] \in C
      BY <2>2, <3>1
    <3>4. h[N] \in V
      BY <3>2, <3>3, SplitStepType
    <3> QED
      BY <3>1, <3>4 DEF N
  <2>3. \A i \in 0 .. n : i \in T
    <3> HIDE DEF T, n
    <3> QED
      BY <1>1, <2>1, <2>2, Climb
  <2> QED
    BY <2>3
<1>13. Split(s, seps) = h[n]
  BY <1>1, <1>8
<1> HIDE DEF h
<1> QED
  BY <1>10, <1>11, <1>12, <1>13

\* Where the parts of the first i characters of s are: part k is between b[k] and
\* b[k + 1], and the b are at separators.
PartAt(s, seps, part, from, to) ==
  /\ from < to /\ Len(part) = to - from - 1
  /\ \A j \in 1 .. Len(part) : part[j] = s[from + j] /\ s[from + j] \notin seps

SplitAt(s, seps, i, parts, b) ==
  /\ b \in [1 .. Len(parts) + 1 -> 0 .. i + 1] /\ b[1] = 0 /\ b[Len(parts) + 1] = i + 1
  /\ \A k \in 1 .. Len(parts) : PartAt(s, seps, parts[k], b[k], b[k + 1])
  /\ \A k \in 2 .. Len(parts) : s[b[k]] \in seps

\* One character more ends the last part or starts another.
LEMMA SplitAtStep ==
  ASSUME NEW C, NEW s \in Seq(C), NEW seps, NEW i \in 0 .. Len(s) - 1, NEW parts \in PartsOver(C), NEW b,
         SplitAt(s, seps, i, parts, b)
  PROVE  \E d : SplitAt(s, seps, i + 1, SplitStep(parts, s[i + 1], seps), d)
<1> DEFINE m == Len(parts)
           c == s[i + 1]
           new == SplitStep(parts, c, seps)
           d == [k \in 1 .. Len(new) + 1 |-> IF k = Len(new) + 1 THEN i + 2 ELSE b[k]]
<1>1. parts \in Seq(Seq(C)) /\ m \in Nat /\ m \in 1 .. m /\ DOMAIN parts = 1 .. m /\ \A k \in 1 .. m : parts[k] \in Seq(C)
  BY DEF PartsOver
<1>2. b \in [1 .. m + 1 -> 0 .. i + 1] /\ b[1] = 0 /\ b[m + 1] = i + 1
  BY DEF SplitAt
<1>3. \A k \in 1 .. m : PartAt(s, seps, parts[k], b[k], b[k + 1])
  BY DEF SplitAt
<1>4. \A k \in 2 .. m : s[b[k]] \in seps
  BY DEF SplitAt
<1>5. i \in Nat /\ c \in C
  OBVIOUS
<1>6. CASE c \in seps
  <2>1. new = Append(parts, <<>>) /\ Len(new) = m + 1 /\ (\A k \in 1 .. m : new[k] = parts[k]) /\ new[m + 1] = <<>>
    BY <1>1, <1>6 DEF SplitStep
  <2> HIDE DEF new
  <2>2. d \in [1 .. m + 2 -> 0 .. i + 2] /\ d[1] = 0 /\ d[m + 2] = i + 2 /\ \A k \in 1 .. m + 1 : d[k] = b[k]
    BY <1>1, <1>2, <1>5, <2>1
  <2> HIDE DEF d, c, m
  <2>3. ASSUME NEW k \in 1 .. m PROVE PartAt(s, seps, new[k], d[k], d[k + 1])
    <3>1. k \in 1 .. m + 1 /\ k + 1 \in 1 .. m + 1
      BY <1>1
    <3>2. new[k] = parts[k] /\ d[k] = b[k] /\ d[k + 1] = b[k + 1]
      BY <2>1, <2>2, <3>1
    <3> QED
      BY <1>3, <3>2
  <2>4. PartAt(s, seps, new[m + 1], d[m + 1], d[m + 1 + 1])
    <3>1. d[m + 1] = i + 1 /\ m + 1 + 1 = m + 2
      BY <1>1, <1>2, <2>2
    <3>2. Len(<<>>) = 0 /\ i + 1 < i + 2 /\ 0 = i + 2 - (i + 1) - 1 /\ 1 .. 0 = {}
      BY <1>5
    <3> QED
      BY <2>1, <2>2, <3>1, <3>2 DEF PartAt
  <2>5. \A k \in 1 .. m + 1 : PartAt(s, seps, new[k], d[k], d[k + 1])
    BY <1>1, <2>3, <2>4
  <2>6. \A k \in 2 .. m + 1 : s[d[k]] \in seps
    <3>1. d[m + 1] = i + 1
      BY <1>1, <1>2, <2>2
    <3>2. \A k \in 2 .. m + 1 : k = m + 1 \/ (k \in 2 .. m /\ d[k] = b[k])
      BY <1>1, <2>2
    <3> QED
      BY <1>4, <1>6, <3>1, <3>2 DEF c
  <2>7. m + 1 + 1 = m + 2 /\ i + 1 + 1 = i + 2
    BY <1>1, <1>5
  <2>8. SplitAt(s, seps, i + 1, new, d)
    BY <2>1, <2>2, <2>5, <2>6, <2>7 DEF SplitAt
  <2> QED
    BY <2>8 DEF new, c
<1>7. CASE c \notin seps
  <2> DEFINE last == parts[m]
             add == Append(last, c)
  <2>0. last \in Seq(C)
    BY <1>1
  <2>1. new = [parts EXCEPT ![m] = add]
    BY <1>7 DEF SplitStep
  <2> HIDE DEF new, last, add
  <2>2. Len(new) = m /\ new[m] = add /\ \A k \in 1 .. m - 1 : new[k] = parts[k]
    BY <1>1, <2>1
  <2>3. d \in [1 .. m + 1 -> 0 .. i + 2] /\ d[1] = 0 /\ d[m + 1] = i + 2 /\ \A k \in 1 .. m : d[k] = b[k]
    BY <1>1, <1>2, <1>5, <2>2
  <2> HIDE DEF d, m
  <2>4. ASSUME NEW k \in 1 .. m - 1 PROVE PartAt(s, seps, new[k], d[k], d[k + 1])
    <3>1. k \in 1 .. m /\ k + 1 \in 1 .. m
      BY <1>1
    <3> QED
      BY <1>3, <2>2, <2>3, <3>1
  <2>5. PartAt(s, seps, add, d[m], d[m + 1])
    <3>1. PartAt(s, seps, last, b[m], i + 1) /\ d[m] = b[m] /\ d[m + 1] = i + 2 /\ b[m] \in Nat
      BY <1>1, <1>2, <1>3, <2>3 DEF last
    <3> DEFINE from == b[m]
    <3> HIDE DEF from, c
    <3>2. /\ from < i + 1 /\ Len(last) = i + 1 - from - 1 /\ from \in Nat
          /\ \A j \in 1 .. Len(last) : last[j] = s[from + j] /\ s[from + j] \notin seps
      BY <3>1 DEF PartAt, from
    <3>3. Len(add) = Len(last) + 1 /\ (\A j \in 1 .. Len(last) : add[j] = last[j]) /\ add[Len(last) + 1] = c
      BY <1>5, <2>0 DEF add
    <3>4. Len(last) + 1 = i + 2 - from - 1 /\ from + (Len(last) + 1) = i + 1 /\ Len(last) \in Nat /\ from < i + 2
      BY <1>5, <2>0, <3>2
    <3>5. ASSUME NEW j \in 1 .. Len(add) PROVE add[j] = s[from + j] /\ s[from + j] \notin seps
      <4>1. j \in 1 .. Len(last) \/ j = Len(last) + 1
        BY <3>3, <3>4
      <4> QED
        BY <1>7, <3>2, <3>3, <3>4, <4>1 DEF c
    <3> QED
      BY <3>1, <3>3, <3>4, <3>5, SMTT(30) DEF PartAt, from
  <2>6. \A k \in 1 .. m : PartAt(s, seps, new[k], d[k], d[k + 1])
    <3>1. \A k \in 1 .. m : k = m \/ k \in 1 .. m - 1
      BY <1>1
    <3> QED
      BY <2>2, <2>4, <2>5, <3>1
  <2>7. \A k \in 2 .. m : s[d[k]] \in seps
    <3>1. \A k \in 2 .. m : k \in 1 .. m
      BY <1>1
    <3> QED
      BY <1>4, <2>3, <3>1
  <2>8. i + 1 + 1 = i + 2
    BY <1>5
  <2>9. SplitAt(s, seps, i + 1, new, d)
    BY <2>2, <2>3, <2>6, <2>7, <2>8 DEF SplitAt
  <2> QED
    BY <2>9 DEF new
<1> QED
  BY <1>6, <1>7

\* What Split returns.
LEMMA SplitIs ==
  ASSUME NEW C, NEW s \in Seq(C), NEW seps
  PROVE  Split(s, seps) \in PartsOver(C) /\ \E b : SplitAt(s, seps, Len(s), Split(s, seps), b)
<1> DEFINE n == Len(s)
<1>1. PICK h \in [0 .. n -> PartsOver(C)] :
        /\ h[0] = << <<>> >>
        /\ \A i \in 1 .. n : h[i] = SplitStep(h[i - 1], s[i], seps)
        /\ Split(s, seps) = h[n]
  BY SplitSteps, ZenonT(60)
<1>2. n \in Nat
  OBVIOUS
<1> DEFINE T == {i \in 0 .. n : \E b : SplitAt(s, seps, i, h[i], b)}
<1>3. 0 \in T
  <2> DEFINE b == [k \in 1 .. 2 |-> IF k = 1 THEN 0 ELSE 1]
  <2>1. Len(h[0]) = 1 /\ h[0][1] = <<>> /\ Len(<<>>) = 0
    BY <1>1
  <2>2. b \in [1 .. 1 + 1 -> 0 .. 0 + 1] /\ b[1] = 0 /\ b[1 + 1] = 0 + 1
    OBVIOUS
  <2>3. PartAt(s, seps, <<>>, 0, 0 + 1)
    BY DEF PartAt
  <2> HIDE DEF b
  <2>4. SplitAt(s, seps, 0, h[0], b)
    BY <2>1, <2>2, <2>3 DEF SplitAt
  <2> QED
    BY <1>2, <2>4
<1>4. ASSUME NEW i \in 0 .. n - 1, i \in T PROVE i + 1 \in T
  <2>1. PICK b : SplitAt(s, seps, i, h[i], b)
    BY <1>4
  <2>2. i \in 0 .. n /\ i + 1 \in 0 .. n /\ i + 1 \in 1 .. n /\ i + 1 - 1 = i
    BY <1>2
  <2>3. h[i] \in PartsOver(C)
    BY <1>1, <2>2
  <2>4. \E d : SplitAt(s, seps, i + 1, SplitStep(h[i], s[i + 1], seps), d)
    BY <2>1, <2>3, SplitAtStep
  <2>5. h[i + 1] = SplitStep(h[i], s[i + 1], seps)
    <3> DEFINE N == i + 1
    <3> HIDE DEF N
    <3>1. N \in 1 .. n /\ N - 1 = i
      BY <2>2 DEF N
    <3>2. h[N] = SplitStep(h[i], s[N], seps)
      BY <1>1, <3>1
    <3> QED
      BY <3>2 DEF N
  <2> QED
    BY <2>2, <2>4, <2>5
<1>5. n \in T
  <2>1. 0 \in Nat /\ 0 \in T /\ \A i \in 0 .. n - 1 : i \in T => i + 1 \in T
    BY <1>3, <1>4
  <2> HIDE DEF T, n
  <2>2. \A i \in 0 .. n : i \in T
    BY <1>2, <2>1, Climb
  <2> QED
    BY <1>2, <2>2
<1> QED
  BY <1>1, <1>2, <1>5

-----------------------------------------------------------------------------
\* A run of characters that are no separators is in one part.
LEMMA Located ==
  ASSUME NEW C, NEW s \in Seq(C), NEW seps, NEW parts \in PartsOver(C), NEW b, SplitAt(s, seps, Len(s), parts, b),
         NEW a \in Nat, NEW L \in Nat, a + L <= Len(s), \A j \in 1 .. L : s[a + j] \notin seps
  PROVE  \E k \in 1 .. Len(parts) : b[k] <= a /\ a + L < b[k + 1]
<1> DEFINE m == Len(parts)
           n == Len(s)
           U == {k \in 1 .. m + 1 : b[k] > a}
<1>1. m \in Nat /\ m >= 1 /\ n \in Nat
  BY DEF PartsOver
<1>2. b \in [1 .. m + 1 -> 0 .. n + 1] /\ b[1] = 0 /\ b[m + 1] = n + 1 /\ \A k \in 2 .. m : s[b[k]] \in seps
  BY DEF SplitAt
<1>3. PICK k \in U : \A j \in U : k <= j
  <2>1. U \subseteq Nat /\ m + 1 \in U
    BY <1>1, <1>2
  <2> HIDE DEF U
  <2> QED
    BY <2>1, LeastMember
<1>4. k # 1 /\ k \in 1 .. m + 1
  BY <1>2
<1>5. k - 1 \in 1 .. m /\ k - 1 + 1 = k
  BY <1>1, <1>4
<1>6. b[k - 1] <= a
  <2>1. k - 1 \notin U /\ b[k - 1] \in 0 .. n + 1
    BY <1>1, <1>2, <1>3, <1>4
  <2> QED
    BY <1>1, <1>5, <2>1
<1>7. a + L < b[k]
  <2>1. b[k] \in 0 .. n + 1 /\ b[k] > a
    BY <1>2, <1>3
  <2>2. CASE k = m + 1
    BY <1>1, <1>2, <2>2
  <2>3. CASE k # m + 1
    <3>1. k \in 2 .. m
      BY <1>1, <1>4, <2>3
    <3>2. s[b[k]] \in seps
      BY <1>2, <3>1
    <3> SUFFICES ASSUME b[k] <= a + L PROVE FALSE
      BY <1>1, <2>1
    <3>3. b[k] - a \in 1 .. L /\ a + (b[k] - a) = b[k]
      BY <1>1, <2>1
    <3> DEFINE j == b[k] - a
    <3> HIDE DEF j
    <3>4. j \in 1 .. L /\ a + j = b[k]
      BY <3>3 DEF j
    <3> QED
      BY <3>2, <3>4
  <2> QED
    BY <2>2, <2>3
<1> QED
  BY <1>5, <1>6, <1>7

\* What is before the first ";".
IsBeforeParams(hd, C, s) ==
  /\ hd \in Seq(C) /\ Len(hd) <= Len(s)
  /\ \A j \in 1 .. Len(hd) : hd[j] = s[j] /\ s[j] # ";"
  /\ Len(hd) = Len(s) \/ s[Len(hd) + 1] = ";"

\* strings.Cut at ";" is the beginning of the string up to there.
LEMMA BeforeParams ==
  ASSUME NEW C, NEW s \in Seq(C)
  PROVE  IsBeforeParams(Head(Split(s, {";"})), C, s)
<1> DEFINE parts == Split(s, {";"})
           m == Len(parts)
           n == Len(s)
<1>1. parts \in PartsOver(C) /\ \E b : SplitAt(s, {";"}, n, parts, b)
  BY SplitIs
<1>2. PICK b : SplitAt(s, {";"}, n, parts, b)
  BY <1>1
<1> HIDE DEF parts
<1>0. parts \in Seq(Seq(C)) /\ parts # <<>>
  BY <1>1 DEF PartsOver
<1>3. m \in Nat /\ m >= 1 /\ n \in Nat
  BY <1>0
<1>9. Head(parts) = parts[1] /\ parts[1] \in Seq(C)
  BY <1>0, <1>3
<1>4. /\ b \in [1 .. m + 1 -> 0 .. n + 1] /\ b[1] = 0 /\ b[m + 1] = n + 1
      /\ PartAt(s, {";"}, parts[1], 0, b[2])
      /\ \A k \in 2 .. m : s[b[k]] \in {";"}
  <2>1. 1 \in 1 .. m /\ 1 + 1 = 2
    BY <1>3
  <2>2. PartAt(s, {";"}, parts[1], b[1], b[2]) /\ b[1] = 0
    BY <1>2, <2>1 DEF SplitAt
  <2> QED
    BY <1>2, <2>2 DEF SplitAt
<1>5. b[2] \in 1 .. n + 1 /\ Len(parts[1]) = b[2] - 1 /\ (b[2] = n + 1 \/ s[b[2]] = ";")
  <2>1. 2 \in 1 .. m + 1 /\ (m + 1 = 2 \/ 2 \in 2 .. m)
    BY <1>3
  <2> HIDE DEF m, n
  <2>2. b[2] \in 0 .. n + 1 /\ (b[2] = n + 1 \/ s[b[2]] = ";")
    BY <1>4, <2>1
  <2>3. 0 < b[2] /\ Len(parts[1]) = b[2] - 0 - 1
    BY <1>4 DEF PartAt
  <2>4. b[2] \in 1 .. n + 1 /\ Len(parts[1]) = b[2] - 1
    <3>1. b[2] \in 0 .. n + 1
      BY <2>2
    <3> QED
      BY <1>3, <2>3, <3>1
  <2> QED
    BY <2>2, <2>4
<1>6. \A j \in 1 .. Len(parts[1]) : parts[1][j] = s[j] /\ s[j] # ";"
  <2>1. \A j \in 1 .. Len(parts[1]) : parts[1][j] = s[0 + j] /\ s[0 + j] \notin {";"} /\ 0 + j = j
    <3>1. \A j \in 1 .. Len(parts[1]) : parts[1][j] = s[0 + j] /\ s[0 + j] \notin {";"}
      BY <1>4, Zenon DEF PartAt
    <3>2. Len(parts[1]) \in Nat
      BY <1>9
    <3>3. \A j \in 1 .. Len(parts[1]) : 0 + j = j
      BY <3>2
    <3> QED
      BY <3>1, <3>3
  <2> QED
    BY <2>1
<1>7. Len(parts[1]) + 1 = b[2] /\ Len(parts[1]) <= n /\ (b[2] = n + 1 => Len(parts[1]) = n)
  <2>1. b[2] \in 1 .. n + 1 /\ Len(parts[1]) = b[2] - 1
    BY <1>5
  <2> HIDE DEF n
  <2> QED
    BY <1>3, <2>1
<1>8. Len(parts[1]) = n \/ s[Len(parts[1]) + 1] = ";"
  BY <1>5, <1>7
<1>10. IsBeforeParams(parts[1], C, s)
  <2> DEFINE hd == parts[1]
  <2>1. hd \in Seq(C) /\ Len(hd) <= Len(s)
    BY <1>7, <1>9
  <2>2. \A j \in 1 .. Len(hd) : hd[j] = s[j] /\ s[j] # ";"
    BY <1>6
  <2>3. Len(hd) = Len(s) \/ s[Len(hd) + 1] = ";"
    BY <1>8
  <2> HIDE DEF hd
  <2> QED
    BY <2>1, <2>2, <2>3, Zenon DEF IsBeforeParams, hd
<1> QED
  BY <1>9, <1>10 DEF parts

\* One or two dots after position a of s that stand alone.
DotsAt(s, dots, seps, a, L) ==
  /\ a \in Nat /\ L \in {1, 2} /\ a + L <= Len(s)
  /\ a = 0 \/ s[a] \in seps
  /\ \A j \in 1 .. L : s[a + j] \in dots
  /\ a + L = Len(s) \/ s[a + L + 1] \in seps \cup {";"}

\* Dot segments by their characters.
LEMMA AreDots ==
  ASSUME NEW C, NEW d \in Seq(C)
  PROVE  d \in Dots <=> Len(d) \in {1, 2} /\ \A j \in 1 .. Len(d) : d[j] = "."
<1>1. d = <<".">> <=> Len(d) = 1 /\ d[1] = "."
  OBVIOUS
<1>2. d = <<".", ".">> <=> Len(d) = 2 /\ d[1] = "." /\ d[2] = "."
  OBVIOUS
<1>3. Len(d) = 1 => 1 .. Len(d) = {1}
  OBVIOUS
<1>4. Len(d) = 2 => 1 .. Len(d) = {1, 2}
  OBVIOUS
<1> QED
  BY <1>1, <1>2, <1>3, <1>4 DEF Dots

\* dotSegment finds them.
LEMMA DotsFound ==
  ASSUME NEW C, NEW u \in Seq(C), NEW a, NEW L, DotsAt(u, {"."}, {"/", "\\"}, a, L)
  PROVE  dotSegment(u)
<1> DEFINE seps == {"/", "\\"}
           parts == Split(u, seps)
           m == Len(parts)
           n == Len(u)
<1>1. parts \in PartsOver(C) /\ \E b : SplitAt(u, seps, n, parts, b)
  BY SplitIs
<1>2. PICK b : SplitAt(u, seps, n, parts, b)
  BY <1>1
<1> HIDE DEF parts
<1>0. a \in Nat /\ L \in {1, 2} /\ a + L <= n
  BY Zenon DEF DotsAt
<1>3. a \in Nat /\ L \in Nat /\ L >= 1 /\ a + L <= n /\ n \in Nat
  BY <1>0
<1>30. \A j \in 1 .. L : u[a + j] = "."
  BY DEF DotsAt
<1>31. a = 0 \/ u[a] \in seps
  BY DEF DotsAt
<1>32. a + L = n \/ u[a + L + 1] \in seps \cup {";"}
  BY DEF DotsAt
<1>4. PICK k \in 1 .. m : b[k] <= a /\ a + L < b[k + 1]
  <2>1. \A j \in 1 .. L : u[a + j] \notin seps
    BY <1>30
  <2> HIDE DEF seps
  <2> QED
    BY <1>1, <1>2, <1>3, <2>1, Located
<1>5. m \in Nat /\ DOMAIN parts = 1 .. m /\ parts[k] \in Seq(C)
  BY <1>1 DEF PartsOver
<1>6. b \in [1 .. m + 1 -> 0 .. n + 1] /\ PartAt(u, seps, parts[k], b[k], b[k + 1])
  BY <1>2 DEF SplitAt
<1>7. b[k] \in Nat /\ b[k + 1] \in 0 .. n + 1
  BY <1>4, <1>5, <1>6
<1> DEFINE p == parts[k]
           from == b[k]
           to == b[k + 1]
<1>8. Len(p) = to - from - 1 /\ Len(p) \in Nat
  BY <1>5, <1>6 DEF PartAt
<1>80. \A j \in 1 .. Len(p) : p[j] = u[from + j] /\ u[from + j] \notin seps
  BY <1>5, <1>6 DEF PartAt
<1> HIDE DEF p, from, to, n
<1>9. from \in Nat /\ to \in 0 .. n + 1 /\ from <= a /\ a + L < to
  BY <1>4, <1>7 DEF from, to
<1>10. from = a
  <2> SUFFICES ASSUME from < a PROVE FALSE
    BY <1>3, <1>9
  <2>1. a - from \in 1 .. Len(p) /\ from + (a - from) = a
    BY <1>3, <1>8, <1>9
  <2>2. u[a] \notin seps
    <3> DEFINE j == a - from
    <3> HIDE DEF j
    <3>1. j \in 1 .. Len(p) /\ from + j = a
      BY <2>1 DEF j
    <3> QED
      BY <1>80, <3>1
  <2>3. a # 0
    BY <1>3, <1>9
  <2> QED
    BY <1>31, <2>2, <2>3
<1>11. L <= Len(p) /\ \A j \in 1 .. L : p[j] = "."
  <2>1. L <= Len(p)
    BY <1>3, <1>8, <1>9, <1>10
  <2>2. \A j \in 1 .. L : j \in 1 .. Len(p)
    BY <1>3, <1>8, <2>1
  <2> QED
    BY <1>10, <1>30, <1>80, <2>1, <2>2
<1>12. Len(p) = L \/ p[L + 1] = ";"
  <2> SUFFICES ASSUME Len(p) # L PROVE p[L + 1] = ";"
    OBVIOUS
  <2>1. L + 1 \in 1 .. Len(p) /\ from + (L + 1) = a + L + 1
    <3>1. L <= Len(p)
      BY <1>11
    <3> QED
      BY <1>3, <1>8, <1>9, <1>10, <3>1
  <2>2. p[L + 1] = u[a + L + 1] /\ u[a + L + 1] \notin seps
    <3> DEFINE j == L + 1
    <3> HIDE DEF j
    <3>1. j \in 1 .. Len(p) /\ from + j = a + L + 1
      BY <2>1 DEF j
    <3> QED
      BY <1>80, <3>1 DEF j
  <2>3. a + L # n
    BY <1>3, <1>8, <1>9, <1>10, <2>1
  <2> QED
    BY <1>32, <2>2, <2>3
<1> DEFINE hd == Head(Split(p, {";"}))
<1>13. p \in Seq(C)
  BY <1>5 DEF p
<1>14. /\ hd \in Seq(C) /\ Len(hd) <= Len(p)
       /\ \A j \in 1 .. Len(hd) : hd[j] = p[j] /\ p[j] # ";"
       /\ Len(hd) = Len(p) \/ p[Len(hd) + 1] = ";"
  BY <1>13, BeforeParams DEF IsBeforeParams
<1> HIDE DEF hd
<1>15. Len(hd) = L
  <2>0. hd \in Seq(C)
    BY <1>14
  <2>1. Len(hd) \in Nat
    BY <2>0
  <2>2. CASE Len(hd) < L
    <3>1. Len(hd) + 1 \in 1 .. L
      BY <1>3, <2>1, <2>2
    <3>2. p[Len(hd) + 1] = "."
      BY <1>11, <3>1
    <3>3. L <= Len(p)
      BY <1>11
    <3>4. Len(hd) # Len(p)
      BY <1>3, <1>8, <2>1, <2>2, <3>3
    <3> QED
      BY <1>14, <3>2, <3>4
  <2>3. CASE Len(hd) > L
    <3>0. Len(hd) <= Len(p)
      BY <1>14
    <3>1. L + 1 \in 1 .. Len(hd) /\ Len(p) # L
      BY <1>3, <1>8, <2>1, <2>3, <3>0
    <3>2. p[L + 1] # ";"
      BY <1>14, <3>1
    <3> QED
      BY <1>12, <3>1, <3>2
  <2> QED
    BY <1>3, <2>1, <2>2, <2>3
<1>16. hd \in Dots
  <2>1. \A j \in 1 .. Len(hd) : hd[j] = "."
    BY <1>11, <1>14, <1>15
  <2> QED
    BY <1>0, <1>14, <1>15, <2>1, AreDots
<1>17. p \in Range(parts)
  BY <1>5 DEF Range, p
<1> QED
  BY <1>16, <1>17 DEF dotSegment, parts, hd

-----------------------------------------------------------------------------
\* The characters of a decoded path, and the separators an Upstream may know.
Decoded == {"a", ".", "/", ";", "\\", "%FF"}
Separators == {"/", "%2F", "%5C"}

\* What PathUnescape does to one character.
LEMMA UnescapedIs ==
  ASSUME NEW c \in Chars
  PROVE  /\ unescaped[c] \in Decoded
         /\ unescaped[c] = "." <=> c \in {".", "%2E"}
         /\ unescaped[c] \in {"/", "\\"} <=> c \in Separators
         /\ unescaped[c] = ";" <=> c = ";"
  BY DEF Chars, unescaped, Decoded, Separators

\* PathUnescape decodes character by character.
LEMMA PathUnescapeIs ==
  ASSUME NEW seg \in Seq(Chars)
  PROVE  /\ PathUnescape(seg) \in Seq(Decoded) /\ Len(PathUnescape(seg)) = Len(seg)
         /\ \A j \in 1 .. Len(seg) : seg[j] \in Chars /\ PathUnescape(seg)[j] = unescaped[seg[j]]
<1>1. Len(seg) \in Nat /\ DOMAIN seg = 1 .. Len(seg) /\ \A j \in 1 .. Len(seg) : seg[j] \in Chars
  OBVIOUS
<1>2. \A j \in 1 .. Len(seg) : unescaped[seg[j]] \in Decoded
  BY <1>1, UnescapedIs
<1>3. PathUnescape(seg) = [j \in 1 .. Len(seg) |-> unescaped[seg[j]]]
  BY <1>1 DEF PathUnescape
<1> QED
  BY <1>1, <1>2, <1>3

\* The part of s after from and before to.
InsidePart(C, s, seps, part, from, to) ==
  /\ from \in Nat /\ to \in Nat /\ from < to /\ to <= Len(s) + 1
  /\ part \in Seq(C) /\ Len(part) = to - from - 1
  /\ \A j \in 1 .. Len(part) : part[j] = s[from + j] /\ s[from + j] \notin seps
  /\ from = 0 \/ s[from] \in seps
  /\ to = Len(s) + 1 \/ s[to] \in seps

\* A part of Split lies between two separators.
LEMMA InPart ==
  ASSUME NEW C, NEW s \in Seq(C), NEW seps, NEW parts \in PartsOver(C), NEW b, SplitAt(s, seps, Len(s), parts, b),
         NEW k \in 1 .. Len(parts)
  PROVE  InsidePart(C, s, seps, parts[k], b[k], b[k + 1])
<1> DEFINE m == Len(parts)
           n == Len(s)
<1>1. parts \in Seq(Seq(C)) /\ m \in Nat /\ n \in Nat
  BY DEF PartsOver
<1>2. k \in 1 .. m + 1 /\ k + 1 \in 1 .. m + 1 /\ (k = 1 \/ k \in 2 .. m) /\ (k + 1 = m + 1 \/ k + 1 \in 2 .. m)
  BY <1>1
<1>3. b \in [1 .. m + 1 -> 0 .. n + 1] /\ b[1] = 0 /\ b[m + 1] = n + 1
  BY DEF SplitAt
<1>4. \A i \in 2 .. m : s[b[i]] \in seps
  BY DEF SplitAt
<1>5. PartAt(s, seps, parts[k], b[k], b[k + 1])
  BY DEF SplitAt
<1> HIDE DEF m, n
<1>6. b[k] \in 0 .. n + 1 /\ b[k + 1] \in 0 .. n + 1
  BY <1>2, <1>3
<1>7. b[k] \in Nat /\ b[k + 1] \in Nat /\ b[k + 1] <= n + 1
  BY <1>1, <1>6
<1>8. b[k] = 0 \/ s[b[k]] \in seps
  BY <1>2, <1>3, <1>4
<1>9. b[k + 1] = n + 1 \/ s[b[k + 1]] \in seps
  <2> DEFINE i == k + 1
  <2> HIDE DEF i
  <2>1. i = m + 1 \/ i \in 2 .. m
    BY <1>2 DEF i
  <2>2. b[i] = n + 1 \/ s[b[i]] \in seps
    BY <1>3, <1>4, <2>1
  <2> QED
    BY <2>2 DEF i
<1>10. parts[k] \in Seq(C)
  BY <1>1
<1> QED
  BY <1>5, <1>7, <1>8, <1>9, <1>10, Zenon DEF PartAt, n, InsidePart

\* Dots that stand alone in an escaped path do so in one decoded segment of it.
LEMMA DotsCarried ==
  ASSUME NEW rest \in Seq(Chars), NEW a, NEW L, DotsAt(rest, {".", "%2E"}, Separators, a, L)
  PROVE  \E seg \in Range(Split(rest, {"/"})) : dotSegment(PathUnescape(seg))
<1> DEFINE seps == {"/"}
           parts == Split(rest, seps)
           m == Len(parts)
           n == Len(rest)
<1>1. parts \in PartsOver(Chars) /\ \E b : SplitAt(rest, seps, n, parts, b)
  BY SplitIs
<1>2. PICK b : SplitAt(rest, seps, n, parts, b)
  BY <1>1
<1> HIDE DEF parts
<1>3. a \in Nat /\ L \in {1, 2} /\ a + L <= n
  BY Zenon DEF DotsAt
<1>4. L \in Nat /\ L >= 1 /\ n \in Nat
  BY <1>3
<1>5. \A j \in 1 .. L : rest[a + j] \in {".", "%2E"}
  BY DEF DotsAt
<1>6. a = 0 \/ rest[a] \in Separators
  BY DEF DotsAt
<1>7. a + L = n \/ rest[a + L + 1] \in Separators \cup {";"}
  BY DEF DotsAt
<1>8. PICK k \in 1 .. m : b[k] <= a /\ a + L < b[k + 1]
  <2>1. \A j \in 1 .. L : rest[a + j] \notin seps
    BY <1>5
  <2> HIDE DEF seps
  <2> QED
    BY <1>1, <1>2, <1>3, <1>4, <2>1, Located
<1> DEFINE seg == parts[k]
           from == b[k]
           to == b[k + 1]
           u == PathUnescape(seg)
           x == a - from
<1>9. /\ from \in Nat /\ to \in Nat /\ from < to /\ to <= n + 1
      /\ seg \in Seq(Chars) /\ Len(seg) = to - from - 1
      /\ \A j \in 1 .. Len(seg) : seg[j] = rest[from + j] /\ rest[from + j] \notin seps
      /\ to = n + 1 \/ rest[to] \in seps
  <2> HIDE DEF seps
  <2>1. InsidePart(Chars, rest, seps, parts[k], b[k], b[k + 1])
    BY <1>1, <1>2, InPart
  <2> QED
    BY <2>1, Zenon DEF InsidePart
<1>10. from <= a /\ a + L < to
  BY <1>8
<1>11. seg \in Range(parts)
  <2>1. parts \in Seq(Seq(Chars))
    BY <1>1 DEF PartsOver
  <2> QED
    BY <2>1 DEF Range
<1> HIDE DEF seg, from, to, u, n, m
<1>12. from \in Nat /\ to \in Nat /\ from < to /\ to <= n + 1 /\ Len(seg) = to - from - 1
  BY <1>9
<1>13. seg \in Seq(Chars) /\ \A j \in 1 .. Len(seg) : seg[j] = rest[from + j] /\ rest[from + j] \notin seps
  BY <1>9
<1>14. to = n + 1 \/ rest[to] \in seps
  BY <1>9
<1>15. /\ u \in Seq(Decoded) /\ Len(u) = Len(seg)
       /\ \A j \in 1 .. Len(seg) : seg[j] \in Chars /\ u[j] = unescaped[seg[j]]
  BY <1>13, PathUnescapeIs DEF u
<1>16. x \in Nat /\ x + L <= Len(seg) /\ from + x = a
  BY <1>3, <1>4, <1>10, <1>12
<1> HIDE DEF x
<1>17. x = 0 \/ u[x] \in {"/", "\\"}
  <2> SUFFICES ASSUME x # 0 PROVE u[x] \in {"/", "\\"}
    OBVIOUS
  <2>1. x \in 1 .. Len(seg)
    BY <1>4, <1>12, <1>16
  <2>2. seg[x] = rest[a] /\ seg[x] \in Chars /\ u[x] = unescaped[seg[x]]
    BY <1>13, <1>15, <1>16, <2>1
  <2>3. a # 0
    BY <1>3, <1>12, <1>16
  <2> QED
    BY <1>6, <2>2, <2>3, UnescapedIs
<1>18. ASSUME NEW j \in 1 .. L PROVE u[x + j] \in {"."}
  <2> DEFINE y == x + j
  <2>1. y \in 1 .. Len(seg) /\ from + y = a + j
    BY <1>4, <1>12, <1>16
  <2> HIDE DEF y
  <2>2. seg[y] = rest[a + j] /\ seg[y] \in Chars /\ u[y] = unescaped[seg[y]]
    BY <1>13, <1>15, <2>1
  <2>3. seg[y] \in {".", "%2E"}
    BY <1>5, <2>2
  <2>4. u[y] = "."
    BY <2>2, <2>3, UnescapedIs
  <2> QED
    BY <2>4 DEF y
<1>19. x + L = Len(u) \/ u[x + L + 1] \in {"/", "\\"} \cup {";"}
  <2> SUFFICES ASSUME x + L # Len(u) PROVE u[x + L + 1] \in {"/", "\\"} \cup {";"}
    OBVIOUS
  <2> DEFINE y == x + L + 1
  <2>0. Len(u) = Len(seg)
    BY <1>15
  <2>1. y \in 1 .. Len(seg) /\ from + y = a + L + 1 /\ a + L # n
    BY <1>3, <1>4, <1>12, <1>16, <2>0
  <2> HIDE DEF y
  <2>2. seg[y] = rest[a + L + 1] /\ seg[y] \in Chars /\ u[y] = unescaped[seg[y]]
    BY <1>13, <1>15, <2>1
  <2>3. seg[y] \in Separators \/ seg[y] = ";"
    BY <1>7, <2>1, <2>2
  <2>4. u[y] \in {"/", "\\"} \/ u[y] = ";"
    BY <2>2, <2>3, UnescapedIs
  <2> QED
    BY <2>4 DEF y
<1>20. x + L <= Len(u)
  BY <1>15, <1>16
<1>21. DotsAt(u, {"."}, {"/", "\\"}, x, L)
  BY <1>3, <1>16, <1>17, <1>18, <1>19, <1>20, Zenon DEF DotsAt
<1>22. dotSegment(u)
  BY <1>15, <1>21, DotsFound
<1> QED
  BY <1>11, <1>22 DEF u, parts

\* No name that an Upstream reads in a path that forwardedPath lets through is a dot
\* segment.
LEMMA NoDotNames ==
  ASSUME NEW rest \in Seq(Chars), forwardedPath(rest), NEW seps, seps \subseteq Separators,
         NEW p \in Range(Split(rest, seps)), NEW cuts \in BOOLEAN
  PROVE  p \in Seq(Chars) /\ NameOf(p, cuts) \in Seq(Decoded) /\ NameOf(p, cuts) \notin Dots
<1> DEFINE parts == Split(rest, seps)
           m == Len(parts)
           n == Len(rest)
<1>1. parts \in PartsOver(Chars) /\ \E b : SplitAt(rest, seps, n, parts, b)
  BY SplitIs
<1>2. PICK b : SplitAt(rest, seps, n, parts, b)
  BY <1>1
<1>3. PICK k \in 1 .. m : p = parts[k]
  BY <1>1 DEF Range, PartsOver
<1> HIDE DEF parts
<1> DEFINE from == b[k]
           to == b[k + 1]
<1>4. /\ from \in Nat /\ to \in Nat /\ from < to /\ to <= n + 1
      /\ p \in Seq(Chars) /\ Len(p) = to - from - 1
      /\ \A j \in 1 .. Len(p) : p[j] = rest[from + j] /\ rest[from + j] \notin seps
      /\ from = 0 \/ rest[from] \in seps
      /\ to = n + 1 \/ rest[to] \in seps
  <2>1. InsidePart(Chars, rest, seps, parts[k], b[k], b[k + 1])
    BY <1>1, <1>2, InPart
  <2> QED
    BY <1>3, <2>1, Zenon DEF InsidePart
<1> HIDE DEF from, to, n, m
<1> DEFINE hd == IF cuts THEN Head(Split(p, {";"})) ELSE p
           name == NameOf(p, cuts)
<1>5. p \in Seq(Chars)
  BY <1>4
<1>6. /\ hd \in Seq(Chars) /\ Len(hd) <= Len(p)
      /\ \A j \in 1 .. Len(hd) : hd[j] = p[j]
      /\ Len(hd) = Len(p) \/ p[Len(hd) + 1] = ";"
  <2>1. CASE cuts
    BY <1>5, <2>1, BeforeParams DEF IsBeforeParams
  <2>2. CASE ~cuts
    <3>1. hd = p
      BY <2>2
    <3>2. Len(p) \in Nat
      BY <1>5
    <3>3. Len(p) <= Len(p)
      BY <3>2
    <3> HIDE DEF hd
    <3> QED
      BY <1>5, <3>1, <3>3
  <2> QED
    BY <2>1, <2>2
<1>7. name = PathUnescape(hd)
  BY DEF NameOf
<1> HIDE DEF hd, name
<1>8. /\ name \in Seq(Decoded) /\ Len(name) = Len(hd)
      /\ \A j \in 1 .. Len(hd) : hd[j] \in Chars /\ name[j] = unescaped[hd[j]]
  BY <1>6, <1>7, PathUnescapeIs
<1>9. name \notin Dots
  <2> SUFFICES ASSUME name \in Dots PROVE FALSE
    OBVIOUS
  <2> DEFINE L == Len(hd)
  <2>1. L \in {1, 2} /\ \A j \in 1 .. L : name[j] = "."
    BY <1>8, AreDots
  <2>2. n \in Nat /\ Len(p) \in Nat /\ L <= Len(p) /\ (L = Len(p) \/ p[L + 1] = ";")
    <3>1. n \in Nat /\ Len(p) \in Nat
      BY <1>5 DEF n
    <3> QED
      BY <1>6, <3>1
  <2>3. \A j \in 1 .. L : hd[j] = p[j] /\ hd[j] \in {".", "%2E"}
    BY <1>6, <1>8, <2>1, UnescapedIs, ZenonT(60)
  <2> HIDE DEF L
  <2>4. from \in Nat /\ to \in Nat /\ Len(p) = to - from - 1 /\ to <= n + 1 /\ L \in Nat
    BY <1>4, <2>1
  <2>41. n \in Nat /\ Len(p) \in Nat /\ L <= Len(p)
    BY <2>2
  <2>5. from + L <= n
    BY <2>4, <2>41
  <2>6. \A j \in 1 .. L : rest[from + j] \in {".", "%2E"}
    <3>1. \A j \in 1 .. L : j \in 1 .. Len(p)
      BY <2>4, <2>41
    <3> QED
      BY <1>4, <2>3, <3>1
  <2>7. from + L = n \/ rest[from + L + 1] \in Separators \cup {";"}
    <3>1. CASE L = Len(p)
      <4>1. to = from + L + 1 /\ (to = n + 1 => from + L = n)
        BY <2>4, <2>41, <3>1
      <4>2. to = n + 1 \/ rest[to] \in seps
        BY <1>4
      <4> QED
        BY <4>1, <4>2
    <3>2. CASE L # Len(p)
      <4> DEFINE y == L + 1
      <4>1. y \in 1 .. Len(p) /\ from + y = from + L + 1
        BY <2>4, <2>41, <3>2
      <4>2. p[y] = ";"
        BY <2>2, <3>2
      <4> HIDE DEF y
      <4>3. p[y] = rest[from + L + 1]
        BY <1>4, <4>1
      <4> QED
        BY <4>2, <4>3
    <3> QED
      BY <3>1, <3>2
  <2>8. from = 0 \/ rest[from] \in Separators
    BY <1>4
  <2>9. DotsAt(rest, {".", "%2E"}, Separators, from, L)
    BY <2>1, <2>4, <2>5, <2>6, <2>7, <2>8, Zenon DEF DotsAt, n
  <2> QED
    BY <2>9, DotsCarried DEF forwardedPath
<1> QED
  BY <1>5, <1>8, <1>9 DEF name

-----------------------------------------------------------------------------
\* Reading a path without dot segments only appends names.
Reads(h, parts, cuts) ==
  /\ h \in [0 .. Len(parts) -> Seq(Seq(Decoded))] /\ h[0] = <<>>
  /\ \A i \in 1 .. Len(parts) :
       h[i] = IF parts[i] = <<>> THEN h[i - 1] ELSE Append(h[i - 1], NameOf(parts[i], cuts))

\* A path whose parts are no dot segments is read by appending their names.
LEMMA ReadSteps ==
  ASSUME NEW parts \in Seq(Seq(Chars)), NEW cuts \in BOOLEAN,
         \A k \in 1 .. Len(parts) : NameOf(parts[k], cuts) \in Seq(Decoded) /\ NameOf(parts[k], cuts) \notin Dots
  PROVE  \E h : /\ Reads(h, parts, cuts)
                /\ FoldLeft(LAMBDA at, p : ReadPart(at, p, cuts), <<>>, parts) = h[Len(parts)]
<1> DEFINE n == Len(parts)
           V == Seq(Seq(Decoded))
           base == <<>>
           Next1(v, i) == IF parts[i] = <<>> THEN v ELSE Append(v, NameOf(parts[i], cuts))
           G == [i \in 1 .. n |-> [v \in V |-> ReadPart(v, parts[i], cuts)]]
           P(f) == f = [x \in SUBSET (1 .. n) |->
                          IF x = {} THEN base ELSE ReadPart(f[x \ {Max(x)}], parts[Max(x)], cuts)]
           it == CHOOSE f : P(f)
<1>1. n \in Nat /\ DOMAIN parts = 1 .. n
  OBVIOUS
<1>2. base \in V
  OBVIOUS
<1>20. ASSUME NEW v \in V, NEW i \in 1 .. n PROVE ReadPart(v, parts[i], cuts) = Next1(v, i) /\ Next1(v, i) \in V
  <2> DEFINE name == NameOf(parts[i], cuts)
  <2>1. name \in Seq(Decoded) /\ name # <<".">> /\ name # <<".", ".">>
    BY DEF Dots
  <2> HIDE DEF name
  <2>2. v # Out
    <3>0. \A j \in 1 .. Len(v) : v[j] \in Seq(Decoded)
      OBVIOUS
    <3> SUFFICES ASSUME v = Out PROVE FALSE
      OBVIOUS
    <3>1. v[1] = <<"out">> /\ Len(v) = 1
      BY DEF Out
    <3>2. v[1] \in Seq(Decoded)
      <4>1. 1 \in 1 .. Len(v)
        BY <3>1
      <4> QED
        BY <3>0, <4>1
    <3>3. Len(<<"out">>) = 1 /\ <<"out">>[1] = "out"
      OBVIOUS
    <3>4. "out" \in Decoded
      BY <3>1, <3>2, <3>3
    <3> QED
      BY <3>4 DEF Decoded
  <2>3. Append(v, name) \in V
    BY <2>1
  <2>4. CASE parts[i] = <<>>
    BY <2>4 DEF ReadPart
  <2>5. CASE parts[i] # <<>>
    BY <2>1, <2>2, <2>3, <2>5 DEF ReadPart, name
  <2> QED
    BY <2>4, <2>5
<1>3. G \in [1 .. n -> [V -> V]]
  <2> HIDE DEF V, n
  <2>1. \A i \in 1 .. n, v \in V : ReadPart(v, parts[i], cuts) \in V
    BY <1>20
  <2> QED
    BY <2>1
<1>4. PICK f \in [SUBSET (1 .. n) -> V] : FoldOf(f, base, n, G)
  <2> HIDE DEF G, n, base, V
  <2> QED
    BY <1>1, <1>2, <1>3, FoldExists
<1>5. ASSUME NEW x \in SUBSET (1 .. n), x # {}
      PROVE  Max(x) \in 1 .. n /\ x \ {Max(x)} \in SUBSET (1 .. n)
  BY <1>1, <1>5, MaxIsMember
<1>6. P(f)
  <2> DEFINE R(x) == IF x = {} THEN base ELSE ReadPart(f[x \ {Max(x)}], parts[Max(x)], cuts)
             Q(x) == IF x = {} THEN base ELSE G[Max(x)][f[x \ {Max(x)}]]
  <2>1. ASSUME NEW x \in SUBSET (1 .. n) PROVE Q(x) = R(x)
    <3>1. CASE x = {}
      BY <3>1
    <3>2. CASE x # {}
      <4> DEFINE k == Max(x)
                 w == f[x \ {k}]
      <4>1. k \in 1 .. n /\ w \in V
        BY <1>5, <3>2
      <4> HIDE DEF k, w, V
      <4>2. G[k][w] = ReadPart(w, parts[k], cuts)
        BY <4>1
      <4> QED
        BY <3>2, <4>2 DEF k, w
    <3> QED
      BY <3>1, <3>2
  <2>2. \A x \in SUBSET (1 .. n) : f[x] = Q(x)
    BY <1>4 DEF FoldOf
  <2> HIDE DEF Q, R
  <2>3. f = [x \in SUBSET (1 .. n) |-> R(x)]
    BY <2>1, <2>2
  <2> QED
    BY <2>3 DEF R
<1>7. P(it)
  <2> HIDE DEF P
  <2> QED
    BY <1>6
<1>8. FoldLeft(LAMBDA at, p : ReadPart(at, p, cuts), <<>>, parts) = it[1 .. n]
  BY <1>1 DEF FoldLeft, MapThenFoldSet
<1> HIDE DEF it
<1>9. \A x \in SUBSET (1 .. n) : it[x] = IF x = {} THEN base ELSE ReadPart(it[x \ {Max(x)}], parts[Max(x)], cuts)
  BY <1>7
<1> DEFINE h == [i \in 0 .. n |-> it[1 .. i]]
<1>10. h[0] = base
  <2>1. 1 .. 0 = {} /\ {} \in SUBSET (1 .. n) /\ 0 \in 0 .. n
    BY <1>1
  <2> QED
    BY <1>9, <2>1
<1>11. ASSUME NEW i \in 1 .. n PROVE h[i] = ReadPart(h[i - 1], parts[i], cuts)
  <2>1. /\ 1 .. i \in SUBSET (1 .. n) /\ 1 .. i # {} /\ Max(1 .. i) = i /\ (1 .. i) \ {i} = 1 .. i - 1
    BY <1>1, Intervals
  <2>2. it[1 .. i] = ReadPart(it[1 .. i - 1], parts[i], cuts)
    BY <1>9, <2>1
  <2>3. i \in 0 .. n /\ i - 1 \in 0 .. n
    BY <1>1
  <2> QED
    BY <2>2, <2>3
<1>12. h \in [0 .. n -> V]
  <2> DEFINE T == {i \in 0 .. n : h[i] \in V}
  <2>1. 0 \in Nat /\ 0 \in T
    <3>1. 0 \in 0 .. n
      BY <1>1
    <3> HIDE DEF h, V
    <3> QED
      BY <1>2, <1>10, <3>1
  <2>2. ASSUME NEW i \in 0 .. n - 1, i \in T PROVE i + 1 \in T
    <3> DEFINE N == i + 1
    <3>1. N \in 1 .. n /\ N - 1 = i /\ N \in 0 .. n
      BY <1>1
    <3> HIDE DEF N, h, V
    <3>2. h[N] = ReadPart(h[i], parts[N], cuts)
      BY <1>11, <3>1
    <3>3. h[i] \in V
      BY <2>2
    <3>4. h[N] \in V
      BY <1>20, <3>1, <3>2, <3>3
    <3> QED
      BY <3>1, <3>4 DEF N
  <2>3. \A i \in 0 .. n : i \in T
    <3> HIDE DEF T, n
    <3> QED
      BY <1>1, <2>1, <2>2, Climb
  <2> QED
    BY <2>3
<1>13. FoldLeft(LAMBDA at, p : ReadPart(at, p, cuts), <<>>, parts) = h[n]
  <2>1. h[n] = it[1 .. n]
    BY <1>1
  <2> HIDE DEF h
  <2> QED
    BY <1>8, <2>1, Zenon
<1> HIDE DEF h
<1>14. ASSUME NEW i \in 1 .. n PROVE h[i] = Next1(h[i - 1], i)
  <2>1. i - 1 \in 0 .. n
    BY <1>1
  <2> HIDE DEF V, n
  <2>2. h[i - 1] \in V
    BY <1>12, <2>1
  <2> HIDE DEF Next1
  <2> QED
    BY <1>11, <1>20, <2>2
<1>15. Reads(h, parts, cuts)
  BY <1>10, <1>12, <1>14 DEF Reads
<1> QED
  BY <1>13, <1>15

-----------------------------------------------------------------------------
\* The paths that forwardedPath is given, and the separators an Upstream goes by.
AbsolutePath(path) == path \in Seq(Chars) /\ path # <<>> /\ path[1] = "/"
KnownSeparators(seps) == "/" \in seps /\ seps \subseteq Separators

\* The parts before an encoded separator are the same whichever separators are known;
\* input has a leading slash that Tail(input) lacks.
LEMMA PartsAgree ==
  ASSUME NEW input1 \in Seq(Chars), input1 # <<>>, NEW seps, "/" \in seps, seps \subseteq Separators,
         NEW part, NEW from, NEW to, InsidePart(Chars, input1, seps, part, from, to),
         NEW q, NEW lo, NEW hi, InsidePart(Chars, Tail(input1), {"/"}, q, lo, hi),
         from = lo + 1, \A j \in 1 .. Len(q) : q[j] \notin Separators
  PROVE  to = hi + 1 /\ part = q
<1> DEFINE n == Len(input1)
           t == Tail(input1)
<1>1. n \in Nat /\ n >= 1
  OBVIOUS
<1>2. t \in Seq(Chars) /\ Len(t) = n - 1
  BY <1>1
<1>3. \A j \in 1 .. n - 1 : t[j] = input1[j + 1]
  BY <1>1
<1>4. /\ from \in Nat /\ to \in Nat /\ from < to /\ to <= n + 1 /\ Len(part) = to - from - 1 /\ part \in Seq(Chars)
  BY Zenon DEF InsidePart
<1>5. \A j \in 1 .. Len(part) : part[j] = input1[from + j] /\ input1[from + j] \notin seps
  BY Zenon DEF InsidePart
<1>6. to = n + 1 \/ input1[to] \in seps
  BY Zenon DEF InsidePart
<1>7. /\ lo \in Nat /\ hi \in Nat /\ lo < hi /\ hi <= Len(t) + 1 /\ Len(q) = hi - lo - 1 /\ q \in Seq(Chars)
  BY Zenon DEF InsidePart
<1>8. \A j \in 1 .. Len(q) : q[j] = t[lo + j]
  BY Zenon DEF InsidePart
<1>9. hi = Len(t) + 1 \/ t[hi] = "/"
  BY DEF InsidePart
<1> HIDE DEF t, n
<1>10. hi <= n /\ (hi = Len(t) + 1 => hi = n)
  BY <1>1, <1>2, <1>7
<1>11. ASSUME NEW j \in 1 .. Len(q) PROVE q[j] = input1[from + j]
  <2> DEFINE y == lo + j
  <2>1. y \in 1 .. n - 1 /\ y + 1 = from + j
    BY <1>1, <1>7, <1>10
  <2> HIDE DEF y
  <2>2. t[y] = input1[y + 1]
    BY <1>3, <2>1
  <2> QED
    BY <1>8, <2>1, <2>2 DEF y
<1>12. to >= hi + 1
  <2> SUFFICES ASSUME to < hi + 1 PROVE FALSE
    BY <1>4, <1>7
  <2> DEFINE j == to - from
  <2>1. j \in 1 .. Len(q) /\ from + j = to /\ to # n + 1
    BY <1>1, <1>4, <1>7, <1>10
  <2> HIDE DEF j
  <2>2. input1[to] \notin Separators
    BY <1>11, <2>1
  <2> QED
    BY <1>6, <2>1, <2>2
<1>13. to <= hi + 1
  <2> SUFFICES ASSUME to > hi + 1 PROVE FALSE
    BY <1>4, <1>7
  <2> DEFINE j == hi + 1 - from
  <2>1. j \in 1 .. Len(part) /\ from + j = hi + 1
    BY <1>1, <1>4, <1>7
  <2>2. hi # n /\ hi \in 1 .. n - 1
    BY <1>1, <1>4, <1>7, <1>10
  <2> HIDE DEF j
  <2>3. input1[hi + 1] \notin seps
    BY <1>5, <2>1
  <2>4. t[hi] = "/"
    BY <1>9, <1>10, <2>2
  <2>5. input1[hi + 1] = "/"
    BY <1>3, <2>2, <2>4
  <2> QED
    BY <2>3, <2>5
<1>14. to = hi + 1
  BY <1>4, <1>7, <1>12, <1>13
<1>15. Len(part) = Len(q)
  BY <1>4, <1>7, <1>14
<1>16. \A j \in 1 .. Len(q) : part[j] = q[j]
  BY <1>5, <1>11, <1>15
<1>17. part = q
  BY <1>4, <1>7, <1>15, <1>16, SeqEqual
<1> QED
  BY <1>14, <1>17

\* The first k parts have no encoded separator.
Ordinary(parts, k) == \A i \in 1 .. k : \A j \in 1 .. Len(parts[i]) : parts[i][j] \notin Separators

\* P has the first k parts of raw behind the empty one.
Shifted(P, raw, k) == k + 1 <= Len(P) /\ P[1] = <<>> /\ \A i \in 1 .. k : P[i + 1] = raw[i]

\* While the parts of the Policy's reading hold no encoded separator, the Upstream's
\* reading has the same parts.
LEMMA SameParts ==
  ASSUME NEW path, AbsolutePath(path), NEW seps, KnownSeparators(seps),
         NEW k \in Nat, k <= Len(Split(Tail(path), {"/"})), Ordinary(Split(Tail(path), {"/"}), k)
  PROVE  Shifted(Split(path, seps), Split(Tail(path), {"/"}), k)
<1> DEFINE P == Split(path, seps)
           raw == Split(Tail(path), {"/"})
           n == Len(path)
           M == Len(P)
<1>0. path \in Seq(Chars) /\ path # <<>> /\ path[1] = "/" /\ "/" \in seps /\ seps \subseteq Separators
  BY DEF AbsolutePath, KnownSeparators
<1>1. P \in PartsOver(Chars) /\ \E b : SplitAt(path, seps, n, P, b)
  BY <1>0, SplitIs
<1>2. PICK b : SplitAt(path, seps, n, P, b)
  BY <1>1
<1>3. n \in Nat /\ n >= 1 /\ Tail(path) \in Seq(Chars) /\ Len(Tail(path)) = n - 1
  BY <1>0
<1>4. raw \in PartsOver(Chars) /\ \E c : SplitAt(Tail(path), {"/"}, Len(Tail(path)), raw, c)
  BY <1>3, SplitIs
<1>5. PICK c : SplitAt(Tail(path), {"/"}, Len(Tail(path)), raw, c)
  BY <1>4
<1>6. k \in Nat /\ k <= Len(raw) /\ \A i \in 1 .. k : \A j \in 1 .. Len(raw[i]) : raw[i][j] \notin Separators
  BY DEF Ordinary
<1> HIDE DEF P, raw
<1>7. M \in Nat /\ M >= 1 /\ Len(raw) \in Nat /\ Len(raw) >= 1
  <2>1. P \in Seq(Seq(Chars)) /\ P # <<>> /\ raw \in Seq(Seq(Chars)) /\ raw # <<>>
    BY <1>1, <1>4 DEF PartsOver
  <2> QED
    BY <2>1
<1>8. \A i \in 1 .. M : InsidePart(Chars, path, seps, P[i], b[i], b[i + 1])
  BY <1>0, <1>1, <1>2, InPart
<1>9. \A i \in 1 .. Len(raw) : InsidePart(Chars, Tail(path), {"/"}, raw[i], c[i], c[i + 1])
  BY <1>3, <1>4, <1>5, InPart
<1>10. b[1] = 0 /\ b[M + 1] = n + 1 /\ c[1] = 0
  BY <1>2, <1>5 DEF SplitAt
<1> HIDE DEF M, n
<1>11. b[2] = 1 /\ P[1] = <<>>
  <2>1. 1 \in 1 .. M /\ 1 + 1 = 2
    BY <1>7
  <2>2. InsidePart(Chars, path, seps, P[1], 0, b[2])
    BY <1>8, <1>10, <2>1
  <2>3. b[2] \in Nat /\ 0 < b[2] /\ P[1] \in Seq(Chars) /\ Len(P[1]) = b[2] - 0 - 1
    BY <2>2, Zenon DEF InsidePart
  <2>4. \A j \in 1 .. Len(P[1]) : path[0 + j] \notin seps
    BY <2>2, Zenon DEF InsidePart
  <2>5. Len(P[1]) = 0
    <3>1. Len(P[1]) \in Nat
      BY <2>3
    <3> SUFFICES ASSUME Len(P[1]) >= 1 PROVE FALSE
      BY <3>1
    <3>2. 1 \in 1 .. Len(P[1]) /\ 0 + 1 = 1
      BY <3>1
    <3>3. path[0 + 1] \notin seps
      BY <2>4, <3>2
    <3> QED
      BY <1>0, <3>2, <3>3
  <2> QED
    BY <2>3, <2>5
<1> DEFINE T == {i \in 1 .. k + 1 : i <= M /\ b[i + 1] = c[i] + 1 /\ (i > 1 => P[i] = raw[i - 1])}
<1>12. 1 \in T
  BY <1>6, <1>7, <1>10, <1>11
<1>13. ASSUME NEW i \in 1 .. k + 1 - 1, i \in T PROVE i + 1 \in T
  <2>0. i \in 1 .. Len(raw) /\ i \in 1 .. k /\ i \in 1 .. M
    <3>1. k \in Nat /\ k <= Len(raw) /\ i <= M
      BY <1>6, <1>13
    <3> QED
      BY <1>7, <3>1
  <2>1. i <= M /\ b[i + 1] = c[i] + 1
    BY <1>13
  <2>2. InsidePart(Chars, Tail(path), {"/"}, raw[i], c[i], c[i + 1])
    BY <1>9, <2>0
  <2>3. c[i] \in Nat /\ c[i + 1] \in Nat /\ c[i] < c[i + 1] /\ c[i + 1] <= Len(Tail(path)) + 1
    BY <2>2, Zenon DEF InsidePart
  <2>4. b[i + 1] # n + 1
    BY <1>3, <2>1, <2>3
  <2> DEFINE N == i + 1
  <2>5. N \in 1 .. M /\ N \in 1 .. k + 1 /\ N > 1 /\ N - 1 = i
    <3>1. i # M
      BY <1>10, <2>4
    <3> QED
      BY <1>6, <1>7, <2>0, <3>1
  <2> HIDE DEF N
  <2>6. InsidePart(Chars, path, seps, P[N], b[N], b[N + 1])
    BY <1>8, <2>5
  <2>7. b[N] = c[i] + 1
    BY <2>1 DEF N
  <2>8. \A j \in 1 .. Len(raw[i]) : raw[i][j] \notin Separators
    BY <1>6, <2>0
  <2>9. b[N + 1] = c[i + 1] + 1 /\ P[N] = raw[i]
    BY <1>0, <2>2, <2>6, <2>7, <2>8, PartsAgree
  <2>10. N <= M /\ N \in 1 .. k + 1 /\ b[N + 1] = c[N] + 1 /\ (N > 1 => P[N] = raw[N - 1])
    <3>1. N <= M
      BY <1>7, <2>5
    <3> QED
      BY <2>5, <2>9, <3>1 DEF N
  <2> QED
    BY <2>10 DEF N
<1>14. \A i \in 1 .. k + 1 : i \in T
  <2> DEFINE K == k + 1
  <2>1. K \in Nat /\ 1 \in Nat
    BY <1>6
  <2>2. \A i \in 1 .. K - 1 : i \in T => i + 1 \in T
    BY <1>13
  <2> HIDE DEF T, K
  <2>3. \A i \in 1 .. K : i \in T
    BY <1>12, <2>1, <2>2, Climb
  <2> QED
    BY <2>3 DEF K
<1>15. k + 1 <= M
  <2>1. k + 1 \in 1 .. k + 1
    BY <1>6
  <2> QED
    BY <1>14, <2>1
<1>16. ASSUME NEW i \in 1 .. k PROVE P[i + 1] = raw[i]
  <2> DEFINE N == i + 1
  <2>1. N \in 1 .. k + 1 /\ N > 1 /\ N - 1 = i
    BY <1>6
  <2> HIDE DEF N
  <2>2. P[N] = raw[i]
    BY <1>14, <2>1
  <2> QED
    BY <2>2 DEF N
<1> QED
  BY <1>11, <1>15, <1>16 DEF M, Shifted, P, raw

-----------------------------------------------------------------------------
\* What ParsePathPrefix accepts: segments of ordinary characters.
PlainPrefix(p) ==
  /\ p \in Seq(Seq(Decoded))
  /\ \A i \in 1 .. Len(p) : p[i] # <<>> /\ \A j \in 1 .. Len(p[i]) : p[i][j] \notin {"/", "\\", ";"}

\* A prefix that ParsePathPrefix accepts is a plain one.
LEMMA AcceptedPrefix ==
  ASSUME NEW s \in Seq(Chars \cup {Invalid}), ParsePathPrefix(s).ok
  PROVE  PlainPrefix(ParsePathPrefix(s).segments)
<1> DEFINE C == Chars \cup {Invalid}
           rest == Tail(TrimSuffix(s))
           raw == Split(rest, {"/"})
           segs == [i \in DOMAIN raw |-> PathUnescape(raw[i])]
           odd == \E i \in DOMAIN raw : raw[i] = <<>> \/ Holds(raw[i], {";", Invalid, "%FF"})
           odder == \E i \in DOMAIN segs : Holds(segs[i], {"/", "\\", ";"}) \/ segs[i] \in Dots
           refused == [ok |-> FALSE, segments |-> <<>>]
<1>1. ParsePathPrefix(s) = CASE s = <<>> \/ Head(s) # "/" -> refused
                             [] s = <<"/">> -> [ok |-> TRUE, segments |-> <<>>]
                             [] odd -> refused
                             [] odder -> refused
                             [] OTHER -> [ok |-> TRUE, segments |-> segs]
  BY DEF ParsePathPrefix
<1> HIDE DEF raw, segs, odd, odder
<1>2. s # <<>> /\ Head(s) = "/"
  <2> SUFFICES ASSUME s = <<>> \/ Head(s) # "/" PROVE FALSE
    OBVIOUS
  <2>1. s # <<"/">>
    OBVIOUS
  <2> QED
    BY <1>1, <2>1
<1>3. CASE s = <<"/">>
  <2>1. PlainPrefix(<<>>)
    BY DEF PlainPrefix
  <2>2. ParsePathPrefix(s).segments = <<>>
    BY <1>1, <1>2, <1>3
  <2> QED
    BY <2>1, <2>2
<1>4. CASE s # <<"/">>
  <2>1. ~odd /\ ~odder /\ ParsePathPrefix(s).segments = segs
    BY <1>1, <1>2, <1>4
  <2>2. rest \in Seq(C)
    <3>1. Len(s) \in Nat /\ Len(s) >= 1 /\ s \in Seq(C)
      BY <1>2
    <3>2. Head(s) = s[1]
      BY <1>2
    <3>3. Len(s) >= 2
      <4>1. Len(s) # 1
        BY <1>2, <1>4, <3>2
      <4> DEFINE l == Len(s)
      <4>2. l \in Nat /\ l >= 1 /\ l # 1
        BY <3>1, <4>1
      <4> HIDE DEF l
      <4>3. l >= 2
        BY <4>2
      <4> QED
        BY <4>3 DEF l
    <3>4. TrimSuffix(s) \in Seq(C) /\ Len(TrimSuffix(s)) >= 1
      <4>1. CASE TrimSuffix(s) = s
        BY <3>1, <4>1
      <4>2. CASE TrimSuffix(s) = Front(s)
        <5>1. Front(s) = SubSeq(s, 1, Len(s) - 1)
          BY DEF Front
        <5> HIDE DEF C
        <5>2. SubSeq(s, 1, Len(s) - 1) \in Seq(C) /\ Len(SubSeq(s, 1, Len(s) - 1)) = Len(s) - 1
          BY <3>1, <3>3, SubSeqProperties
        <5>3. Len(s) - 1 >= 1
          BY <3>1, <3>3
        <5> QED
          BY <4>2, <5>1, <5>2, <5>3
      <4> QED
        BY <4>1, <4>2 DEF TrimSuffix
    <3>5. TrimSuffix(s) # <<>>
      BY <3>4
    <3> QED
      BY <3>4, <3>5
  <2>3. raw \in Seq(Seq(C))
    BY <2>2, SplitIs DEF raw, PartsOver
  <2>4. Len(raw) \in Nat /\ DOMAIN raw = 1 .. Len(raw) /\ DOMAIN segs = 1 .. Len(raw)
    BY <2>3 DEF segs
  <2>5. ASSUME NEW i \in 1 .. Len(raw)
        PROVE  segs[i] \in Seq(Decoded) /\ segs[i] # <<>> /\ \A j \in 1 .. Len(segs[i]) : segs[i][j] \notin {"/", "\\", ";"}
    <3>1. raw[i] \in Seq(C) /\ raw[i] # <<>> /\ ~Holds(raw[i], {";", Invalid, "%FF"})
      <4>1. raw[i] \in Seq(C)
        BY <2>3, <2>4
      <4>2. i \in DOMAIN raw
        BY <2>4
      <4>3. raw[i] # <<>> /\ ~Holds(raw[i], {";", Invalid, "%FF"})
        BY <2>1, <4>2, Zenon DEF odd
      <4> QED
        BY <4>1, <4>3
    <3>0. Len(raw[i]) \in Nat /\ DOMAIN raw[i] = 1 .. Len(raw[i]) /\ \A j \in 1 .. Len(raw[i]) : raw[i][j] \in C
      <4>1. raw[i] \in Seq(C)
        BY <3>1
      <4> HIDE DEF C
      <4> QED
        BY <4>1
    <3>2. \A j \in 1 .. Len(raw[i]) : raw[i][j] \in C /\ raw[i][j] # Invalid
      <4>1. \A j \in DOMAIN raw[i] : raw[i][j] \notin {";", Invalid, "%FF"}
        BY <3>1, Zenon DEF Holds
      <4> HIDE DEF C
      <4> QED
        BY <3>0, <4>1
    <3>3. raw[i] \in Seq(Chars)
      <4>1. \A j \in 1 .. Len(raw[i]) : raw[i][j] \in Chars
        BY <3>2
      <4>2. raw[i] \in Seq(C)
        BY <3>1
      <4> HIDE DEF C
      <4>3. raw[i] = [j \in 1 .. Len(raw[i]) |-> raw[i][j]]
        BY <4>2
      <4> QED
        BY <3>0, <4>1, <4>3
    <3>4. segs[i] = PathUnescape(raw[i])
      BY <2>4 DEF segs
    <3>5. segs[i] \in Seq(Decoded) /\ Len(segs[i]) = Len(raw[i])
      BY <3>3, <3>4, PathUnescapeIs
    <3>6. segs[i] # <<>>
      <4>1. raw[i] \in Seq(Chars) /\ raw[i] # <<>>
        BY <3>1, <3>3
      <4>2. Len(raw[i]) # 0
        BY <4>1
      <4> QED
        BY <3>5, <4>2
    <3>7. ~Holds(segs[i], {"/", "\\", ";"})
      BY <2>1, <2>4 DEF odder
    <3>8. \A j \in DOMAIN segs[i] : segs[i][j] \notin {"/", "\\", ";"}
      BY <3>7, Zenon DEF Holds
    <3>9. DOMAIN segs[i] = 1 .. Len(segs[i])
      BY <3>5
    <3> QED
      BY <3>5, <3>6, <3>8, <3>9
  <2>6. segs \in Seq(Seq(Decoded)) /\ Len(segs) = Len(raw)
    <3>1. segs = [i \in 1 .. Len(raw) |-> segs[i]]
      BY <2>4 DEF segs
    <3>2. \A i \in 1 .. Len(raw) : segs[i] \in Seq(Decoded)
      BY <2>5
    <3> QED
      BY <2>4, <3>1, <3>2
  <2> QED
    BY <2>1, <2>5, <2>6 DEF PlainPrefix
<1> QED
  BY <1>3, <1>4

\* What a prefix that matches says of the segments of the path.
LEMMA MatchedSegments ==
  ASSUME NEW path \in Seq(Chars), path # <<>>, path[1] = "/", NEW p, p \in Seq(Seq(Decoded)), p # <<>>, Matches(p, path)
  PROVE  /\ Split(Tail(path), {"/"}) \in Seq(Seq(Chars)) /\ Len(p) <= Len(Split(Tail(path), {"/"}))
         /\ \A i \in 1 .. Len(p) : p[i] = PathUnescape(Split(Tail(path), {"/"})[i])
<1> DEFINE raw == Split(Tail(path), {"/"})
           segs == [i \in DOMAIN raw |-> PathUnescape(raw[i])]
           bad == Holds(path, {Invalid, "%FF"})
           dots == \E i \in DOMAIN segs : dotSegment(segs[i])
           refused == [ok |-> FALSE, segments |-> <<>>]
<1>1. Tail(path) \in Seq(Chars) /\ TrimPrefix(path) = Tail(path)
  BY DEF TrimPrefix
<1>2. decodePath(path) = CASE Tail(path) = <<>> -> [ok |-> TRUE, segments |-> <<>>]
                           [] bad -> refused
                           [] dots -> refused
                           [] OTHER -> [ok |-> TRUE, segments |-> segs]
  BY <1>1 DEF decodePath
<1>3. raw \in Seq(Seq(Chars))
  BY <1>1, SplitIs DEF PartsOver
<1>4. Len(raw) \in Nat /\ DOMAIN raw = 1 .. Len(raw) /\ \A i \in 1 .. Len(raw) : raw[i] \in Seq(Chars)
  BY <1>3
<1> HIDE DEF raw
<1>5. \A i \in 1 .. Len(raw) : PathUnescape(raw[i]) \in Seq(Decoded)
  BY <1>4, PathUnescapeIs
<1>6. segs \in Seq(Seq(Decoded)) /\ Len(segs) = Len(raw) /\ \A i \in 1 .. Len(raw) : segs[i] = PathUnescape(raw[i])
  BY <1>4, <1>5
<1> HIDE DEF segs, bad, dots
<1>7. decodePath(path).ok /\ IsPrefix(p, decodePath(path).segments)
  BY DEF Matches
<1>8. Len(p) \in Nat /\ Len(p) # 0
  OBVIOUS
<1>9. decodePath(path).segments # <<>>
  BY <1>7, <1>8 DEF IsPrefix
<1>10. decodePath(path).segments = segs
  BY <1>2, <1>7, <1>9
<1>11. Len(p) <= Len(segs) /\ SubSeq(p, 1, Len(p)) = SubSeq(segs, 1, Len(p))
  BY <1>7, <1>10 DEF IsPrefix
<1>12. ASSUME NEW i \in 1 .. Len(p) PROVE p[i] = segs[i]
  <2>1. SubSeq(p, 1, Len(p)) = [j \in 1 .. Len(p) |-> p[j]]
    BY <1>8
  <2>2. SubSeq(segs, 1, Len(p)) = [j \in 1 .. Len(p) |-> segs[j]]
    BY <1>6, <1>8, <1>11
  <2> QED
    BY <1>11, <2>1, <2>2
<1>13. \A i \in 1 .. Len(p) : i \in 1 .. Len(raw)
  BY <1>4, <1>6, <1>8, <1>11
<1>14. \A i \in 1 .. Len(p) : p[i] = PathUnescape(raw[i])
  BY <1>6, <1>12, <1>13
<1> QED
  BY <1>3, <1>6, <1>11, <1>14 DEF raw

-----------------------------------------------------------------------------
\* A path that forwardedPath lets through, of any length and with any escapes, stays below
\* the Upstream's base path, and below every prefix of a Policy that matches it, whichever
\* of the encoded separators the Upstream decodes and whether or not it cuts ;parameters.
THEOREM PathsStayInside ==
  ASSUME NEW path \in Seq(Chars), path # <<>>, path[1] = "/", forwardedPath(path),
         NEW seps, "/" \in seps, seps \subseteq Separators, NEW cuts \in BOOLEAN
  PROVE  /\ ReadPath(path, seps, cuts) # Out
         /\ \A p : PlainPrefix(p) /\ Matches(p, path) => IsPrefix(p, ReadPath(path, seps, cuts))
<1> DEFINE P == Split(path, seps)
           n == Len(P)
           read == ReadPath(path, seps, cuts)
<1>1. P \in Seq(Seq(Chars)) /\ P # <<>>
  BY SplitIs DEF PartsOver
<1>2. n \in Nat /\ n >= 1
  BY <1>1
<1>3. \A k \in 1 .. n : P[k] \in Range(P)
  BY <1>1 DEF Range
<1>4. \A k \in 1 .. n : NameOf(P[k], cuts) \in Seq(Decoded) /\ NameOf(P[k], cuts) \notin Dots
  BY <1>3, NoDotNames
<1> HIDE DEF P
<1>5. PICK h : Reads(h, P, cuts) /\ FoldLeft(LAMBDA at, p : ReadPart(at, p, cuts), <<>>, P) = h[n]
  BY <1>1, <1>4, ReadSteps
<1>6. read = h[n]
  <2>1. read = FoldLeft(LAMBDA at, p : ReadPart(at, p, cuts), <<>>, P)
    BY DEF ReadPath, P
  <2> HIDE DEF read
  <2> QED
    BY <1>5, <2>1, Zenon
<1> HIDE DEF read, n
<1>7. h \in [0 .. n -> Seq(Seq(Decoded))] /\ h[0] = <<>>
  BY <1>5, Zenon DEF Reads, n
<1>8. \A i \in 1 .. n : h[i] = IF P[i] = <<>> THEN h[i - 1] ELSE Append(h[i - 1], NameOf(P[i], cuts))
  BY <1>5, Zenon DEF Reads, n
<1>9. read \in Seq(Seq(Decoded))
  <2>1. n \in 0 .. n
    BY <1>2
  <2> QED
    BY <1>6, <1>7, <2>1
<1>10. read # Out
  <2>0. \A j \in 1 .. Len(read) : read[j] \in Seq(Decoded)
    BY <1>9
  <2> SUFFICES ASSUME read = Out PROVE FALSE
    OBVIOUS
  <2>1. read[1] = <<"out">> /\ Len(read) = 1
    BY DEF Out
  <2>2. 1 \in 1 .. Len(read)
    BY <2>1
  <2>3. <<"out">> \in Seq(Decoded)
    BY <2>0, <2>1, <2>2
  <2>4. Len(<<"out">>) = 1 /\ <<"out">>[1] = "out"
    OBVIOUS
  <2>5. "out" \in Decoded
    BY <2>3, <2>4
  <2> QED
    BY <2>5 DEF Decoded
<1>11. ASSUME NEW p, PlainPrefix(p), Matches(p, path) PROVE IsPrefix(p, read)
  <2> DEFINE k == Len(p)
             raw == Split(Tail(path), {"/"})
  <2>0. p \in Seq(Seq(Decoded))
    BY <1>11, Zenon DEF PlainPrefix
  <2>1. p \in Seq(Seq(Decoded)) /\ k \in Nat
    BY <2>0
  <2>20. \A i \in 1 .. k : p[i] \in Seq(Decoded)
    BY <2>0
  <2>2. \A i \in 1 .. k : p[i] # <<>> /\ \A j \in 1 .. Len(p[i]) : p[i][j] \notin {"/", "\\", ";"}
    BY <1>11, Zenon DEF PlainPrefix
  <2>3. CASE p = <<>>
    <3>1. Len(p) = 0
      BY <2>3
    <3>2. SubSeq(p, 1, 0) = <<>> /\ SubSeq(read, 1, 0) = <<>>
      BY SubSeqEmpty
    <3>3. Len(read) \in Nat /\ 0 <= Len(read)
      BY <1>9
    <3> QED
      BY <3>1, <3>2, <3>3 DEF IsPrefix
  <2>4. CASE p # <<>>
    <3>1. raw \in Seq(Seq(Chars)) /\ k <= Len(raw) /\ \A i \in 1 .. k : p[i] = PathUnescape(raw[i])
      BY <1>11, <2>1, <2>4, MatchedSegments
    <3>2. \A i \in 1 .. k : i \in 1 .. Len(raw) /\ raw[i] \in Seq(Chars)
      <4>1. raw \in Seq(Seq(Chars)) /\ k <= Len(raw)
        BY <3>1
      <4> HIDE DEF raw, k
      <4> QED
        BY <2>1, <4>1
    <3> HIDE DEF k
    <3>3. ASSUME NEW i \in 1 .. k
          PROVE  raw[i] # <<>> /\ \A j \in 1 .. Len(raw[i]) : raw[i][j] \notin Separators /\ raw[i][j] # ";"
      <4> DEFINE q == raw[i]
      <4> HIDE DEF q
      <4>1. q \in Seq(Chars) /\ p[i] = PathUnescape(q)
        BY <3>1, <3>2 DEF q
      <4>2. Len(p[i]) = Len(q) /\ \A j \in 1 .. Len(q) : q[j] \in Chars /\ p[i][j] = unescaped[q[j]]
        BY <4>1, PathUnescapeIs
      <4>3. ASSUME NEW j \in 1 .. Len(q) PROVE q[j] \notin Separators /\ q[j] # ";"
        <5>1. p[i][j] \notin {"/", "\\", ";"} /\ q[j] \in Chars /\ p[i][j] = unescaped[q[j]]
          BY <2>2, <4>2
        <5> QED
          BY <5>1, UnescapedIs
      <4>4. q # <<>>
        <5>0. p[i] \in Seq(Decoded) /\ p[i] # <<>>
          BY <2>2, <2>20
        <5>1. Len(p[i]) # 0
          BY <5>0
        <5> QED
          BY <4>2, <5>1
      <4> QED
        BY <4>3, <4>4 DEF q
    <3>4. k + 1 <= n /\ P[1] = <<>> /\ \A i \in 1 .. k : P[i + 1] = raw[i]
      <4>1. AbsolutePath(path) /\ KnownSeparators(seps)
        BY DEF AbsolutePath, KnownSeparators
      <4>2. k \in Nat /\ k <= Len(Split(Tail(path), {"/"}))
        BY <2>1, <3>1
      <4>3. Ordinary(Split(Tail(path), {"/"}), k)
        BY <3>3 DEF Ordinary
      <4>4. Shifted(Split(path, seps), Split(Tail(path), {"/"}), k)
        BY <4>1, <4>2, <4>3, SameParts
      <4> QED
        BY <4>4 DEF Shifted, P, n
    <3> HIDE DEF raw
    <3>5. ASSUME NEW i \in 1 .. k PROVE NameOf(raw[i], cuts) = p[i]
      <4> DEFINE q == raw[i]
      <4>1. q \in Seq(Chars) /\ p[i] = PathUnescape(q) /\ \A j \in 1 .. Len(q) : q[j] # ";"
        BY <3>1, <3>2, <3>3
      <4> HIDE DEF q
      <4> DEFINE hd == Head(Split(q, {";"}))
      <4>2. /\ hd \in Seq(Chars) /\ Len(hd) <= Len(q)
            /\ \A j \in 1 .. Len(hd) : hd[j] = q[j]
            /\ Len(hd) = Len(q) \/ q[Len(hd) + 1] = ";"
        BY <4>1, BeforeParams DEF IsBeforeParams
      <4> HIDE DEF hd
      <4>3. Len(hd) = Len(q)
        <5>0. hd \in Seq(Chars) /\ q \in Seq(Chars)
          BY <4>1, <4>2
        <5>1. Len(hd) \in Nat /\ Len(q) \in Nat
          BY <5>0
        <5> SUFFICES ASSUME Len(hd) # Len(q) PROVE FALSE
          OBVIOUS
        <5>2. Len(hd) <= Len(q)
          BY <4>2
        <5>3. Len(hd) + 1 \in 1 .. Len(q)
          BY <5>1, <5>2
        <5> QED
          BY <4>1, <4>2, <5>3
      <4>4. hd = q
        <5>1. \A j \in 1 .. Len(hd) : hd[j] = q[j]
          BY <4>2
        <5> QED
          BY <4>1, <4>2, <4>3, <5>1, SeqEqual
      <4>5. NameOf(q, cuts) = PathUnescape(q)
        BY <4>4 DEF NameOf, hd
      <4> QED
        BY <4>1, <4>5 DEF q
    <3> DEFINE T == {i \in 1 .. k + 1 : Len(h[i]) = i - 1 /\ \A j \in 1 .. i - 1 : h[i][j] = p[j]}
    <3>40. k + 1 <= n
      BY <3>4
    <3>6. 1 \in T
      <4>1. 1 \in 1 .. n /\ 1 - 1 = 0 /\ 1 \in 1 .. k + 1
        BY <1>2, <2>1
      <4>2. h[1] = <<>>
        BY <1>7, <1>8, <3>4, <4>1
      <4> QED
        BY <4>1, <4>2
    <3>7. ASSUME NEW i \in 1 .. k, i \in T PROVE i + 1 \in T
      <4> DEFINE N == i + 1
      <4>1. N \in 1 .. n /\ N - 1 = i /\ N \in 1 .. k + 1 /\ i \in 0 .. n /\ N \in 0 .. n
        BY <1>2, <2>1, <3>40
      <4> HIDE DEF N
      <4>2. P[N] = raw[i] /\ P[N] # <<>> /\ NameOf(P[N], cuts) = p[i]
        BY <3>3, <3>4, <3>5 DEF N
      <4>3. h[N] = Append(h[i], p[i])
        BY <1>8, <4>1, <4>2
      <4>4. h[i] \in Seq(Seq(Decoded)) /\ p[i] \in Seq(Decoded)
        BY <1>7, <2>20, <4>1
      <4>5. Len(h[i]) = i - 1 /\ \A j \in 1 .. i - 1 : h[i][j] = p[j]
        BY <3>7
      <4>6. Len(h[N]) = i /\ h[N][i] = p[i] /\ \A j \in 1 .. i - 1 : h[N][j] = h[i][j]
        <5> DEFINE hi == h[i]
                   x == p[i]
        <5>1. hi \in Seq(Seq(Decoded)) /\ x \in Seq(Decoded) /\ Len(hi) = i - 1 /\ h[N] = Append(hi, x)
          BY <4>3, <4>4, <4>5
        <5> HIDE DEF hi, x
        <5>2. Len(Append(hi, x)) = i /\ Append(hi, x)[i] = x /\ \A j \in 1 .. i - 1 : Append(hi, x)[j] = hi[j]
          BY <5>1
        <5> QED
          BY <5>1, <5>2 DEF hi, x
      <4>7. \A j \in 1 .. N - 1 : j = i \/ j \in 1 .. i - 1
        BY <4>1
      <4>8. Len(h[N]) = N - 1 /\ \A j \in 1 .. N - 1 : h[N][j] = p[j]
        BY <4>1, <4>5, <4>6, <4>7
      <4> QED
        BY <4>1, <4>8 DEF N
    <3> DEFINE K == k + 1
    <3>8. K \in T
      <4>1. K \in Nat /\ 1 \in Nat /\ K \in 1 .. K
        BY <2>1
      <4>2. \A i \in 1 .. K - 1 : i \in T => i + 1 \in T
        <5>1. K - 1 = k
          BY <2>1
        <5> QED
          BY <3>7, <5>1
      <4> HIDE DEF T, K
      <4>3. \A i \in 1 .. K : i \in T
        BY <3>6, <4>1, <4>2, Climb
      <4> QED
        BY <4>1, <4>3
    <3> DEFINE U == {i \in K .. n : Len(h[i]) >= k /\ \A j \in 1 .. k : h[i][j] = p[j]}
    <3>9. K \in U
      <4>1. K - 1 = k /\ K \in K .. n
        BY <1>2, <2>1, <3>40
      <4>2. Len(h[K]) = k /\ \A j \in 1 .. k : h[K][j] = p[j]
        BY <3>8, <4>1
      <4> HIDE DEF K
      <4>3. Len(h[K]) >= k
        BY <2>1, <4>2
      <4> QED
        BY <4>1, <4>2, <4>3
    <3>10. ASSUME NEW i \in K .. n - 1, i \in U PROVE i + 1 \in U
      <4> DEFINE N == i + 1
      <4>1. N \in 1 .. n /\ N - 1 = i /\ N \in K .. n /\ i \in 0 .. n
        BY <1>2, <2>1
      <4> HIDE DEF N, K
      <4>2. h[N] = IF P[N] = <<>> THEN h[i] ELSE Append(h[i], NameOf(P[N], cuts))
        BY <1>8, <4>1
      <4> DEFINE hi == h[i]
                 x == NameOf(P[N], cuts)
      <4>3. hi \in Seq(Seq(Decoded)) /\ x \in Seq(Decoded)
        BY <1>4, <1>7, <4>1
      <4>4. Len(hi) >= k /\ \A j \in 1 .. k : hi[j] = p[j]
        BY <3>10
      <4> HIDE DEF hi, x
      <4>5. Len(hi) \in Nat /\ Len(Append(hi, x)) = Len(hi) + 1 /\ \A j \in 1 .. Len(hi) : Append(hi, x)[j] = hi[j]
        BY <4>3
      <4>6. \A j \in 1 .. k : j \in 1 .. Len(hi)
        <5>1. Len(hi) >= k
          BY <4>4
        <5> QED
          BY <2>1, <4>5, <5>1
      <4>7. Len(Append(hi, x)) >= k
        <5>1. Len(hi) >= k
          BY <4>4
        <5> QED
          BY <2>1, <4>5, <5>1
      <4>8. h[N] = hi \/ h[N] = Append(hi, x)
        BY <4>2 DEF hi, x
      <4>9. Len(h[N]) >= k /\ \A j \in 1 .. k : h[N][j] = p[j]
        BY <4>4, <4>5, <4>6, <4>7, <4>8
      <4> QED
        BY <4>1, <4>9 DEF N
    <3>11. n \in U
      <4>1. K \in Nat /\ n \in K .. n
        BY <1>2, <2>1, <3>40
      <4> HIDE DEF U, K
      <4>2. \A i \in K .. n : i \in U
        BY <1>2, <3>9, <3>10, <4>1, Climb
      <4> QED
        BY <4>1, <4>2
    <3>12. Len(read) >= k /\ \A j \in 1 .. k : read[j] = p[j]
      BY <1>6, <3>11
    <3>13. k <= Len(read)
      <4>1. Len(read) \in Nat /\ Len(read) >= k
        BY <1>9, <3>12
      <4> QED
        BY <2>1, <4>1
    <3>14. SubSeq(p, 1, k) = [j \in 1 .. k |-> p[j]]
      BY <2>1 DEF k
    <3>15. SubSeq(read, 1, k) = [j \in 1 .. k |-> read[j]]
      BY <1>9, <2>1, <3>13
    <3> QED
      BY <3>12, <3>13, <3>14, <3>15 DEF IsPrefix, k
  <2> QED
    BY <2>3, <2>4
<1> QED
  BY <1>10, <1>11 DEF read

-----------------------------------------------------------------------------
\* A question about a path is a path.
PathsInv == about = "paths" => input \in Seq(Chars) /\ input # <<>> /\ input[1] = "/"

\* Every question about a path is one.
LEMMA PathsAlways == Questions => []PathsInv
<1>1. FirstQuestion => PathsInv
  <2> SUFFICES ASSUME FirstQuestion, about = "paths" PROVE input \in Seq(Chars) /\ input # <<>> /\ input[1] = "/"
    BY DEF PathsInv
  <2>1. input = <<"/">>
    BY DEF FirstQuestion
  <2>2. "/" \in Chars
    BY DEF Chars, unescaped
  <2> QED
    BY <2>1, <2>2
<1>2. PathsInv /\ [NextQuestion]_asked => PathsInv'
  <2> SUFFICES ASSUME PathsInv, [NextQuestion]_asked, about' = "paths"
               PROVE  input' \in Seq(Chars) /\ input' # <<>> /\ input'[1] = "/"
    BY DEF PathsInv
  <2>1. CASE Extend
    <3>1. PICK c \in Chars : input' = Append(input, c)
      BY <2>1 DEF Extend
    <3>2. input \in Seq(Chars) /\ input # <<>> /\ input[1] = "/"
      BY <2>1 DEF Extend, PathsInv
    <3>3. Len(input) \in Nat /\ 1 \in 1 .. Len(input)
      BY <3>2
    <3>4. Append(input, c) \in Seq(Chars) /\ Append(input, c)[1] = input[1] /\ Append(input, c) # <<>>
      BY <3>2, <3>3
    <3> QED
      BY <3>1, <3>2, <3>4
  <2>2. CASE UNCHANGED asked
    BY <2>2 DEF asked, PathsInv
  <2> QED
    BY <2>1, <2>2 DEF NextQuestion, AddEntry, AddHeader, AddParam, PutRecord
<1> QED
  BY <1>1, <1>2, PTL DEF Questions

\* The paths of the run stay inside, and so do those of any length.
THEOREM StaysInsideAlways == Questions => []StaysInside
<1>1. PathsInv => StaysInside
  <2> SUFFICES ASSUME PathsInv, about = "paths", forwardedPath(input),
                      NEW S \in SUBSET {"%2F", "%5C"}, NEW cuts \in BOOLEAN
               PROVE  /\ ReadPath(input, {"/"} \cup S, cuts) # Out
                      /\ \A p \in PathPrefixes : Matches(p, input) => IsPrefix(p, ReadPath(input, {"/"} \cup S, cuts))
    BY Zenon DEF StaysInside
  <2> DEFINE seps == {"/"} \cup S
  <2>1. "/" \in seps /\ seps \subseteq Separators
    BY DEF Separators
  <2>2. input \in Seq(Chars) /\ input # <<>> /\ input[1] = "/"
    BY DEF PathsInv
  <2> HIDE DEF seps
  <2>3. /\ ReadPath(input, seps, cuts) # Out
        /\ \A p : PlainPrefix(p) /\ Matches(p, input) => IsPrefix(p, ReadPath(input, seps, cuts))
    BY <2>1, <2>2, PathsStayInside
  <2>4. ASSUME NEW p \in PathPrefixes PROVE PlainPrefix(p)
    <3>1. PICK s \in SeqsOf(Chars \cup {Invalid}, 3) : ParsePathPrefix(s).ok /\ p = ParsePathPrefix(s).segments
      BY DEF PathPrefixes
    <3>2. s \in Seq(Chars \cup {Invalid})
      <4>1. PICK m \in 0 .. 3 : s \in [1 .. m -> Chars \cup {Invalid}]
        BY DEF SeqsOf
      <4>2. m \in Nat
        OBVIOUS
      <4> QED
        BY <4>1, <4>2
    <3> QED
      BY <3>1, <3>2, AcceptedPrefix
  <2> QED
    BY <2>3, <2>4 DEF seps
<1> QED
  BY <1>1, PathsAlways, PTL

-----------------------------------------------------------------------------
(***************************************************************************)
(* Requests                                                                *)
(***************************************************************************)

\* What is in a sequence with one element more.
LEMMA AppendRange ==
  ASSUME NEW S, NEW s \in Seq(S), NEW x \in S
  PROVE  Append(s, x) \in Seq(S) /\ Range(Append(s, x)) = Range(s) \cup {x}
<1>1. Append(s, x) \in Seq(S) /\ Len(Append(s, x)) = Len(s) + 1 /\ Append(s, x)[Len(s) + 1] = x
      /\ \A i \in 1 .. Len(s) : Append(s, x)[i] = s[i]
  OBVIOUS
<1>2. Len(s) \in Nat /\ DOMAIN s = 1 .. Len(s) /\ DOMAIN Append(s, x) = 1 .. Len(s) + 1
  BY <1>1
<1>3. \A i \in 1 .. Len(s) + 1 : i \in 1 .. Len(s) \/ i = Len(s) + 1
  BY <1>2
<1>4. \A i \in 1 .. Len(s) : i \in 1 .. Len(s) + 1
  BY <1>2
<1>5. Len(s) + 1 \in 1 .. Len(s) + 1
  BY <1>2
<1> QED
  BY <1>1, <1>2, <1>3, <1>4, <1>5 DEF Range

\* One more parameter of a query.
KeepStep(kept, p, drop) == IF p \in drop THEN kept ELSE Append(kept, p)

\* What Without keeps.
LEMMA WithoutIs ==
  ASSUME NEW S, NEW query \in Seq(S), NEW drop
  PROVE  Without(query, drop) \in Seq(S) /\ Range(Without(query, drop)) = Range(query) \ drop
<1> DEFINE n == Len(query)
           V == Seq(S)
           base == <<>>
           G == [i \in 1 .. n |-> [v \in V |-> KeepStep(v, query[i], drop)]]
           P(f) == f = [x \in SUBSET (1 .. n) |->
                          IF x = {} THEN base ELSE KeepStep(f[x \ {Max(x)}], query[Max(x)], drop)]
           it == CHOOSE f : P(f)
<1>1. n \in Nat /\ DOMAIN query = 1 .. n /\ \A i \in 1 .. n : query[i] \in S
  OBVIOUS
<1>2. base \in V
  OBVIOUS
<1>3. \A v \in V, i \in 1 .. n : KeepStep(v, query[i], drop) \in V
  BY <1>1 DEF KeepStep
<1>4. PICK f \in [SUBSET (1 .. n) -> V] : FoldOf(f, base, n, G)
  <2> HIDE DEF n, base, V
  <2>1. G \in [1 .. n -> [V -> V]]
    BY <1>3
  <2> HIDE DEF G
  <2> QED
    BY <1>1, <1>2, <2>1, FoldExists
<1>5. ASSUME NEW x \in SUBSET (1 .. n), x # {}
      PROVE  Max(x) \in 1 .. n /\ x \ {Max(x)} \in SUBSET (1 .. n)
  BY <1>1, <1>5, MaxIsMember
<1>6. P(f)
  <2> DEFINE R(x) == IF x = {} THEN base ELSE KeepStep(f[x \ {Max(x)}], query[Max(x)], drop)
             Q(x) == IF x = {} THEN base ELSE G[Max(x)][f[x \ {Max(x)}]]
  <2>1. ASSUME NEW x \in SUBSET (1 .. n) PROVE Q(x) = R(x)
    <3>1. CASE x = {}
      BY <3>1
    <3>2. CASE x # {}
      <4> DEFINE k == Max(x)
                 w == f[x \ {k}]
      <4>1. k \in 1 .. n /\ w \in V
        BY <1>5, <3>2
      <4> HIDE DEF k, w, V
      <4>2. G[k][w] = KeepStep(w, query[k], drop)
        BY <4>1
      <4> QED
        BY <3>2, <4>2 DEF k, w
    <3> QED
      BY <3>1, <3>2
  <2>2. \A x \in SUBSET (1 .. n) : f[x] = Q(x)
    BY <1>4 DEF FoldOf
  <2> HIDE DEF Q, R
  <2>3. f = [x \in SUBSET (1 .. n) |-> R(x)]
    BY <2>1, <2>2
  <2> QED
    BY <2>3 DEF R
<1>7. P(it)
  <2> HIDE DEF P
  <2> QED
    BY <1>6
<1>8. Without(query, drop) = it[1 .. n]
  BY <1>1 DEF Without, FoldLeft, MapThenFoldSet, KeepStep
<1> HIDE DEF it
<1>9. \A x \in SUBSET (1 .. n) : it[x] = IF x = {} THEN base ELSE KeepStep(it[x \ {Max(x)}], query[Max(x)], drop)
  BY <1>7
<1> DEFINE sofar(i) == {query[k] : k \in 1 .. i}
           T == {i \in 0 .. n : it[1 .. i] \in Seq(S) /\ Range(it[1 .. i]) = sofar(i) \ drop}
<1>10. 0 \in T
  <2>1. 1 .. 0 = {} /\ {} \in SUBSET (1 .. n) /\ 0 \in 0 .. n
    BY <1>1
  <2>2. it[1 .. 0] = <<>>
    BY <1>9, <2>1
  <2>3. Range(<<>>) = {} /\ sofar(0) = {}
    BY <2>1 DEF Range
  <2>4. it[1 .. 0] \in Seq(S) /\ Range(it[1 .. 0]) = {} /\ {} \ drop = {}
    BY <2>2, <2>3
  <2> HIDE DEF sofar
  <2> QED
    BY <2>1, <2>3, <2>4
<1>11. ASSUME NEW i \in 0 .. n - 1, i \in T PROVE i + 1 \in T
  <2> DEFINE N == i + 1
  <2>1. N \in 1 .. n /\ N - 1 = i /\ N \in 0 .. n /\ 1 .. N = (1 .. i) \cup {N}
    BY <1>1
  <2>2. /\ 1 .. N \in SUBSET (1 .. n) /\ 1 .. N # {} /\ Max(1 .. N) = N /\ (1 .. N) \ {N} = 1 .. i
    BY <1>1, <2>1, Intervals
  <2> HIDE DEF N
  <2> DEFINE old == it[1 .. i]
             x == query[N]
  <2>3. it[1 .. N] = KeepStep(old, x, drop)
    BY <1>9, <2>2
  <2>4. sofar(N) = sofar(i) \cup {x}
    BY <2>1
  <2>5. old \in Seq(S) /\ Range(old) = sofar(i) \ drop /\ x \in S
    BY <1>1, <1>11, <2>1
  <2> HIDE DEF old, x, sofar
  <2>6. Append(old, x) \in Seq(S) /\ Range(Append(old, x)) = Range(old) \cup {x}
    BY <2>5, AppendRange
  <2>7. it[1 .. N] \in Seq(S) /\ Range(it[1 .. N]) = sofar(N) \ drop
    BY <2>3, <2>4, <2>5, <2>6 DEF KeepStep
  <2> QED
    BY <2>1, <2>7 DEF N
<1>12. n \in T
  <2>1. 0 \in Nat /\ 0 \in T /\ \A i \in 0 .. n - 1 : i \in T => i + 1 \in T
    BY <1>10, <1>11
  <2> HIDE DEF T, n
  <2>2. \A i \in 0 .. n : i \in T
    BY <1>1, <2>1, Climb
  <2> QED
    BY <1>1, <2>2
<1>13. Range(query) = sofar(n)
  BY <1>1 DEF Range
<1> QED
  BY <1>8, <1>12, <1>13

\* Query parameters with names in K and values in C.
ParamsOver(K, C) == [key : K, escaped : BOOLEAN, bad : BOOLEAN, core : C]

\* What ReverseProxy leaves of a query: parameters that parse, each with the name and the
\* value of one that the Agent sent.
LEMMA CleanQueryIs ==
  ASSUME NEW K, NEW C, NEW query \in Seq(ParamsOver(K, C))
  PROVE  /\ cleanQuery(query) \in Seq(ParamsOver(K, C))
         /\ \A r \in Range(cleanQuery(query)) : \E p \in Range(query) : ~p.bad /\ r.key = p.key /\ r.core = p.core
<1> DEFINE S == ParamsOver(K, C)
           drop == {p \in Range(query) : p.bad}
           parsed == Without(query, drop)
           anew == [i \in DOMAIN parsed |-> [parsed[i] EXCEPT !.escaped = FALSE]]
<1>1. parsed \in Seq(S) /\ Range(parsed) = Range(query) \ drop
  BY WithoutIs
<1>2. cleanQuery(query) = IF parsed = query THEN query ELSE anew
  BY DEF cleanQuery
<1> HIDE DEF parsed
<1>3. Range(query) \subseteq S
  BY DEF Range
<1>4. \A p \in Range(parsed) : p \in Range(query) /\ p \in S /\ ~p.bad
  BY <1>1, <1>3
<1>5. CASE parsed = query
  BY <1>2, <1>4, <1>5
<1>6. CASE parsed # query
  <2>1. Len(parsed) \in Nat /\ DOMAIN parsed = 1 .. Len(parsed)
    BY <1>1
  <2>2. ASSUME NEW i \in DOMAIN parsed
        PROVE  anew[i] \in S /\ anew[i].key = parsed[i].key /\ anew[i].core = parsed[i].core /\ parsed[i] \in Range(parsed)
    <3>1. parsed[i] \in S
      BY <1>1
    <3>2. parsed[i] \in Range(parsed)
      BY DEF Range
    <3> QED
      BY <3>1, <3>2 DEF ParamsOver
  <2>3. DOMAIN anew = DOMAIN parsed
    OBVIOUS
  <2> HIDE DEF anew, S
  <2>4. anew \in Seq(S)
    <3>1. anew = [i \in 1 .. Len(parsed) |-> anew[i]]
      BY <2>1, <2>3 DEF anew
    <3> QED
      BY <2>1, <2>2, <3>1
  <2>5. ASSUME NEW r \in Range(anew) PROVE \E p \in Range(query) : ~p.bad /\ r.key = p.key /\ r.core = p.core
    <3>1. PICK i \in DOMAIN parsed : r = anew[i]
      BY <2>3 DEF Range
    <3> QED
      BY <1>4, <2>2, <3>1
  <2> QED
    BY <1>2, <1>6, <2>4, <2>5 DEF S
<1> QED
  BY <1>5, <1>6

-----------------------------------------------------------------------------
\* What Rewrite sends in the header n.
HeaderOut(request, from, cred, n) ==
  IF n \in {"Range", "If-Range"} THEN <<>>
  ELSE IF n = "Accept-Encoding" THEN <<Plain("gzip")>>
  ELSE IF cred.header # "" /\ n = cred.header THEN <<cred.value>>
  ELSE IF n \in {AgentTokenHeader, from.header} THEN <<>> ELSE request.headers[n]

\* Rewrite sends the headers it was given, each as HeaderOut says.
LEMMA RewrittenHeaders ==
  ASSUME NEW request, NEW from, NEW cred
  PROVE  /\ DOMAIN Rewrite(request, from, cred).headers = DOMAIN request.headers
         /\ \A n \in DOMAIN request.headers : Rewrite(request, from, cred).headers[n] = HeaderOut(request, from, cred, n)
<1> DEFINE hdrs0 == Del(request.headers, {AgentTokenHeader, from.header})
           hdrs1 == IF cred.header # "" THEN Set(hdrs0, cred.header, cred.value) ELSE hdrs0
           hdrs2 == Set(hdrs1, "Accept-Encoding", Plain("gzip"))
           hdrs3 == Del(hdrs2, {"Range", "If-Range"})
<1>1. Rewrite(request, from, cred).headers = hdrs3
  BY DEF Rewrite
<1>2. DOMAIN hdrs0 = DOMAIN request.headers
      /\ \A n \in DOMAIN request.headers :
           hdrs0[n] = IF n \in {AgentTokenHeader, from.header} THEN <<>> ELSE request.headers[n]
  BY DEF Del
<1> HIDE DEF hdrs0
<1>3. DOMAIN hdrs1 = DOMAIN request.headers
      /\ \A n \in DOMAIN request.headers :
           hdrs1[n] = IF cred.header # "" /\ n = cred.header THEN <<cred.value>> ELSE hdrs0[n]
  BY <1>2 DEF Set
<1> HIDE DEF hdrs1
<1>4. DOMAIN hdrs2 = DOMAIN request.headers
      /\ \A n \in DOMAIN request.headers :
           hdrs2[n] = IF n = "Accept-Encoding" THEN <<Plain("gzip")>> ELSE hdrs1[n]
  BY <1>3 DEF Set
<1> HIDE DEF hdrs2
<1>5. DOMAIN hdrs3 = DOMAIN request.headers
      /\ \A n \in DOMAIN request.headers :
           hdrs3[n] = IF n \in {"Range", "If-Range"} THEN <<>> ELSE hdrs2[n]
  BY <1>4 DEF Del
<1> HIDE DEF hdrs3
<1>6. ASSUME NEW n \in DOMAIN request.headers PROVE hdrs3[n] = HeaderOut(request, from, cred, n)
  BY <1>2, <1>3, <1>4, <1>5, ZenonT(60) DEF HeaderOut
<1> QED
  BY <1>1, <1>5, <1>6

\* What Rewrite sends in the query: what the Agent sent elsewhere, then the Secret.
Kept(r, request, from, cred) ==
  /\ \E p \in Range(request.query) : ~p.bad /\ r.key = p.key /\ r.core = p.core
  /\ from.query # "" => r.key # from.query
  /\ cred.query # "" => r.key # cred.query

Param(cred) == [key |-> cred.query, escaped |-> FALSE, bad |-> FALSE, core |-> cred.value.core]

QueryOut(query, w, request, from, cred) ==
  /\ \A r \in Range(w) : Kept(r, request, from, cred)
  /\ query = IF cred.query # "" THEN Append(w, Param(cred)) ELSE w

\* Rewrite keeps some of the Agent's parameters, none of them where the Agent Token was or
\* the Secret goes, and adds the Secret's behind them.
LEMMA RewrittenQuery ==
  ASSUME NEW K, NEW C, NEW request, request.query \in Seq(ParamsOver(K, C)), NEW from, NEW cred
  PROVE  \E w \in Seq(ParamsOver(K, C)) : QueryOut(Rewrite(request, from, cred).query, w, request, from, cred)
<1> DEFINE S == ParamsOver(K, C)
           query0 == cleanQuery(request.query)
           drop0 == {p \in Range(query0) : p.key = from.query}
           query1 == IF from.query # "" THEN Without(query0, drop0) ELSE query0
           drop1 == {p \in Range(query1) : p.key = cred.query}
           w == IF cred.query # "" THEN Without(query1, drop1) ELSE query1
<1>1. Rewrite(request, from, cred).query = IF cred.query # "" THEN Append(w, Param(cred)) ELSE w
  BY DEF Rewrite, withoutParam, Param
<1>2. query0 \in Seq(S) /\ \A r \in Range(query0) : \E p \in Range(request.query) : ~p.bad /\ r.key = p.key /\ r.core = p.core
  BY CleanQueryIs
<1> HIDE DEF query0, S
<1>3. query1 \in Seq(S) /\ \A r \in Range(query1) : r \in Range(query0) /\ (from.query # "" => r.key # from.query)
  <2>1. Without(query0, drop0) \in Seq(S) /\ Range(Without(query0, drop0)) = Range(query0) \ drop0
    BY <1>2, WithoutIs
  <2> QED
    BY <1>2, <2>1
<1> HIDE DEF query1
<1>4. w \in Seq(S) /\ \A r \in Range(w) : r \in Range(query1) /\ (cred.query # "" => r.key # cred.query)
  <2>1. Without(query1, drop1) \in Seq(S) /\ Range(Without(query1, drop1)) = Range(query1) \ drop1
    BY <1>3, WithoutIs
  <2> QED
    BY <1>3, <2>1
<1> HIDE DEF w
<1>5. \A r \in Range(w) : Kept(r, request, from, cred)
  BY <1>2, <1>3, <1>4 DEF Kept
<1> QED
  BY <1>1, <1>4, <1>5 DEF S, QueryOut

-----------------------------------------------------------------------------
\* The templates of Secret Names: config.Load accepts them, and the literal field of a
\* basic_auth one is not shaped like an Agent Token.
GoodTemplate(t) == validTemplate(t) /\ t.field \notin AgentTokens

\* The credential that render makes.
LEMMA RenderIs ==
  ASSUME NEW t, GoodTemplate(t), NEW o, render(t, o).ok
  PROVE  /\ render(t, o).header = (IF t.kind = "query" THEN "" ELSE t.name)
         /\ render(t, o).query = (IF t.kind = "query" THEN t.name ELSE "")
         /\ render(t, o).header # AgentTokenHeader
         /\ t.kind = "query" => render(t, o).query # "" /\ render(t, o).value.core = Secret
         /\ render(t, o).value.core \notin AgentTokens /\ render(t, o).value.user \notin AgentTokens
         /\ render(t, o).value.core = Secret \/ render(t, o).value.user = Secret
         /\ {render(t, o).carried, "raw"} \subseteq render(t, o).needles
<1> DEFINE made == [ok |-> TRUE,
          header |-> IF t.kind = "query" THEN "" ELSE t.name,
          query |-> IF t.kind = "query" THEN t.name ELSE "",
          value |-> [wrap |-> t.wrap,
                     user |-> IF t.kind # "basic" THEN "" ELSE IF t.secretIsUsername THEN Secret ELSE t.field,
                     core |-> IF t.kind = "basic" /\ t.secretIsUsername THEN t.field ELSE Secret],
          carried |-> CASE t.kind = "basic" -> "base64" [] t.kind = "query" -> "escaped" [] OTHER -> "raw",
          needles |-> CASE t.kind = "basic" -> {"raw", "base64"}
                        [] t.kind = "query" -> {"raw", "escaped"} [] OTHER -> {"raw"}]
<1>1. render(t, o) = made
  <2>1. CASE t.kind = "basic" /\ t.secretIsUsername /\ "colon" \in o
    BY <2>1 DEF render, Failed
  <2>2. CASE t.kind = "header" /\ "control" \in o
    BY <2>2 DEF render, Failed
  <2>3. CASE ~(t.kind = "basic" /\ t.secretIsUsername /\ "colon" \in o) /\ ~(t.kind = "header" /\ "control" \in o)
    BY <2>3 DEF render
  <2> QED
    BY <2>1, <2>2, <2>3
<1>2. AgentTokens \cap {Secret, "none", "gzip", ""} = {} /\ t.field \notin AgentTokens
  BY TokensAssumption DEF GoodTemplate
<1>3. t.kind \in {"header", "query", "basic"} /\ (t.kind = "query" => t.name # "") /\ (t.kind # "query" => t.name # AgentTokenHeader)
  BY DEF GoodTemplate, validTemplate, reservedHeaders, AgentTokenHeader
<1>4. {made.carried, "raw"} \subseteq made.needles
  BY <1>3
<1>5. /\ made.header = (IF t.kind = "query" THEN "" ELSE t.name)
      /\ made.query = (IF t.kind = "query" THEN t.name ELSE "")
      /\ made.value.core = (IF t.kind = "basic" /\ t.secretIsUsername THEN t.field ELSE Secret)
      /\ made.value.user = (IF t.kind # "basic" THEN "" ELSE IF t.secretIsUsername THEN Secret ELSE t.field)
  OBVIOUS
<1> HIDE DEF made
<1>6. made.header # AgentTokenHeader
  BY <1>3, <1>5 DEF AgentTokenHeader
<1>7. made.value.core \notin AgentTokens /\ made.value.user \notin AgentTokens
  BY <1>2, <1>5
<1>8. made.value.core = Secret \/ made.value.user = Secret
  BY <1>5
<1>9. t.kind = "query" => made.query # "" /\ made.value.core = Secret
  BY <1>3, <1>5
<1> QED
  BY <1>1, <1>4, <1>5, <1>6, <1>7, <1>8, <1>9

\* The places that authenticateProxy looks at.
InQuery(slots, q) == ~q.bad /\ q.key \in slots.queries /\ q.core \in AgentTokens

\* What authenticateProxy finds, place by place.
LEMMA PresentedIs ==
  ASSUME NEW slots, NEW request
  PROVE  /\ \A n \in DOMAIN request.headers : \A i \in DOMAIN request.headers[n] :
              \A k \in tokensIn(slots, n, request.headers[n][i]) :
                [header |-> n, query |-> "", at |-> i, tok |-> k] \in presented(slots, request)
         /\ \A i \in DOMAIN request.query : InQuery(slots, request.query[i]) =>
              [header |-> "", query |-> request.query[i].key, at |-> i, tok |-> request.query[i].core] \in presented(slots, request)
         /\ \A p \in presented(slots, request) :
              \/ \E n \in DOMAIN request.headers : \E i \in DOMAIN request.headers[n] : tokensIn(slots, n, request.headers[n][i]) # {}
              \/ \E i \in DOMAIN request.query : InQuery(slots, request.query[i])
<1> DEFINE at(n, i) == {[header |-> n, query |-> "", at |-> i, tok |-> k] : k \in tokensIn(slots, n, request.headers[n][i])}
           A == UNION { UNION { at(n, i) : i \in DOMAIN request.headers[n]} : n \in DOMAIN request.headers}
           B == {[header |-> "", query |-> request.query[i].key, at |-> i, tok |-> request.query[i].core] :
                   i \in {j \in DOMAIN request.query : /\ ~request.query[j].bad
                                                   /\ request.query[j].key \in slots.queries
                                                   /\ request.query[j].core \in AgentTokens}}
<1>1. presented(slots, request) = A \cup B
  BY DEF presented
<1>2. \A p : p \in A <=> \E n \in DOMAIN request.headers : \E i \in DOMAIN request.headers[n] : p \in at(n, i)
  <2> HIDE DEF at
  <2> QED
    OBVIOUS
<1>3. \A p : p \in B <=> \E i \in DOMAIN request.query : InQuery(slots, request.query[i]) /\
             p = [header |-> "", query |-> request.query[i].key, at |-> i, tok |-> request.query[i].core]
  BY DEF InQuery
<1>4. \A n, i, p : p \in at(n, i) => tokensIn(slots, n, request.headers[n][i]) # {}
  OBVIOUS
<1>5. \A n, i : \A k \in tokensIn(slots, n, request.headers[n][i]) : [header |-> n, query |-> "", at |-> i, tok |-> k] \in at(n, i)
  OBVIOUS
<1> HIDE DEF A, B, at
<1>6. \A n \in DOMAIN request.headers : \A i \in DOMAIN request.headers[n] : \A k \in tokensIn(slots, n, request.headers[n][i]) :
        [header |-> n, query |-> "", at |-> i, tok |-> k] \in presented(slots, request)
  BY <1>1, <1>2, <1>5, Zenon
<1>7. \A i \in DOMAIN request.query : InQuery(slots, request.query[i]) =>
        [header |-> "", query |-> request.query[i].key, at |-> i, tok |-> request.query[i].core] \in presented(slots, request)
  BY <1>1, <1>3, Zenon
<1>8. ASSUME NEW p \in presented(slots, request)
      PROVE  \/ \E n \in DOMAIN request.headers : \E i \in DOMAIN request.headers[n] : tokensIn(slots, n, request.headers[n][i]) # {}
             \/ \E i \in DOMAIN request.query : InQuery(slots, request.query[i])
  BY <1>1, <1>2, <1>3, <1>4, Zenon
<1> QED
  BY <1>6, <1>7, <1>8, Zenon

\* A value without a token presents none outside of AgentTokenHeader.
LEMMA NoTokensIn ==
  ASSUME NEW slots, NEW n, n # AgentTokenHeader, NEW v, v.core \notin AgentTokens, v.user \notin AgentTokens
  PROVE  tokensIn(slots, n, v) = {}
<1>1. \A t : extract(v, t) \notin AgentTokens
  BY TokensAssumption DEF extract
<1>2. \A t : extractBasicAuth(v, t) \in {"none", v.user, v.core}
  BY DEF extractBasicAuth
<1>3. \A t : extractBasicAuth(v, t) \notin AgentTokens
  BY <1>2, TokensAssumption
<1> QED
  BY <1>1, <1>3 DEF tokensIn

\* When authenticateProxy found one Agent Token, and only one, the request that Rewrite
\* makes presents none, whatever else the Agent sent and whatever the templates of all the
\* Secret Names: the Upstream never gets a token it could use here.
THEOREM TokensStay ==
  ASSUME NEW K, NEW C, NEW request, request.query \in Seq(ParamsOver(K, C)),
         NEW ts, \A t \in ts : GoodTemplate(t), NEW route \in ts, NEW o, render(route, o).ok,
         NEW from, presented(newSlots(ts), request) = {from}
  PROVE  presented(newSlots(ts), Rewrite(request, from, render(route, o))) = {}
<1> DEFINE slots == newSlots(ts)
           cred == render(route, o)
           out == Rewrite(request, from, cred)
<1>1. /\ cred.header # AgentTokenHeader
      /\ route.kind = "query" => cred.value.core = Secret
      /\ cred.query = (IF route.kind = "query" THEN route.name ELSE "")
      /\ cred.value.core \notin AgentTokens /\ cred.value.user \notin AgentTokens
  BY RenderIs
<1>2. PICK w \in Seq(ParamsOver(K, C)) : QueryOut(out.query, w, request, from, cred)
  BY RewrittenQuery
<1>3. \A k \in slots.queries : k # ""
  BY DEF newSlots, GoodTemplate, validTemplate
<1> HIDE DEF slots, cred, out
<1>4. ASSUME NEW n \in DOMAIN out.headers, NEW i \in DOMAIN out.headers[n]
      PROVE  tokensIn(slots, n, out.headers[n][i]) = {}
  <2>1. DOMAIN out.headers = DOMAIN request.headers
    BY RewrittenHeaders DEF out
  <2>2. n \in DOMAIN request.headers
    BY <2>1
  <2>3. out.headers[n] = HeaderOut(request, from, cred, n)
    BY <2>2, RewrittenHeaders DEF out
  <2>4. DOMAIN <<>> = {} /\ \A v : DOMAIN <<v>> = {1} /\ <<v>>[1] = v
    OBVIOUS
  <2>5. CASE out.headers[n] = <<>>
    BY <1>4, <2>4, <2>5
  <2>6. CASE out.headers[n] = <<Plain("gzip")>> /\ n = "Accept-Encoding"
    <3>1. out.headers[n][i] = Plain("gzip")
      BY <2>4, <2>6
    <3>2. Plain("gzip").core \notin AgentTokens /\ Plain("gzip").user \notin AgentTokens
      BY TokensAssumption DEF Plain
    <3>3. n # AgentTokenHeader
      BY <2>6 DEF AgentTokenHeader
    <3> QED
      BY <3>1, <3>2, <3>3, NoTokensIn
  <2>7. CASE out.headers[n] = <<cred.value>> /\ n = cred.header
    <3>1. out.headers[n][i] = cred.value
      BY <2>4, <2>7
    <3> QED
      BY <1>1, <2>7, <3>1, NoTokensIn
  <2>8. CASE out.headers[n] = request.headers[n] /\ n # from.header
    <3> SUFFICES ASSUME NEW k \in tokensIn(slots, n, request.headers[n][i]) PROVE FALSE
      BY <2>8
    <3>1. [header |-> n, query |-> "", at |-> i, tok |-> k] \in presented(slots, request)
      BY <1>4, <2>2, <2>8, PresentedIs
    <3>2. from = [header |-> n, query |-> "", at |-> i, tok |-> k]
      BY <3>1 DEF slots
    <3> QED
      BY <2>8, <3>2
  <2> QED
    BY <2>3, <2>5, <2>6, <2>7, <2>8 DEF HeaderOut
<1>5. ASSUME NEW i \in DOMAIN out.query, InQuery(slots, out.query[i]) PROVE FALSE
  <2> DEFINE r == out.query[i]
  <2>1. r \in Range(w) \/ (cred.query # "" /\ r = Param(cred))
    <3>1. CASE cred.query = ""
      BY <1>2, <3>1 DEF Range, QueryOut
    <3>2. CASE cred.query # ""
      <4>1. out.query = Append(w, Param(cred))
        BY <1>2, <3>2 DEF QueryOut
      <4>2. Len(w) \in Nat /\ DOMAIN w = 1 .. Len(w) /\ DOMAIN Append(w, Param(cred)) = 1 .. Len(w) + 1
            /\ Append(w, Param(cred))[Len(w) + 1] = Param(cred)
            /\ \A j \in 1 .. Len(w) : Append(w, Param(cred))[j] = w[j]
        OBVIOUS
      <4>3. i \in 1 .. Len(w) \/ i = Len(w) + 1
        BY <1>5, <4>1, <4>2
      <4> QED
        BY <3>2, <4>1, <4>2, <4>3 DEF Range
    <3> QED
      BY <3>1, <3>2
  <2> HIDE DEF r
  <2>2. InQuery(slots, r)
    BY <1>5 DEF r
  <2>3. CASE cred.query # "" /\ r = Param(cred)
    <3>1. r.core = cred.value.core
      BY <2>3 DEF Param
    <3> QED
      BY <1>1, <2>2, <3>1 DEF InQuery
  <2>4. CASE r \in Range(w)
    <3>1. Kept(r, request, from, cred)
      BY <1>2, <2>4 DEF QueryOut
    <3>2. PICK j \in DOMAIN request.query : ~request.query[j].bad /\ r.key = request.query[j].key /\ r.core = request.query[j].core
      BY <3>1 DEF Kept, Range
    <3>3. InQuery(slots, request.query[j])
      BY <2>2, <3>2 DEF InQuery
    <3>4. [header |-> "", query |-> request.query[j].key, at |-> j, tok |-> request.query[j].core] \in presented(slots, request)
      BY <3>3, PresentedIs
    <3>5. from = [header |-> "", query |-> request.query[j].key, at |-> j, tok |-> request.query[j].core]
      BY <3>4 DEF slots
    <3>6. from.query = r.key
      BY <3>2, <3>5
    <3>7. r.key # ""
      BY <1>3, <2>2 DEF InQuery
    <3> QED
      BY <3>1, <3>6, <3>7 DEF Kept
  <2> QED
    BY <2>1, <2>3, <2>4
<1>6. presented(slots, out) = {}
  <2> SUFFICES ASSUME NEW p \in presented(slots, out) PROVE FALSE
    OBVIOUS
  <2>1. \/ \E n \in DOMAIN out.headers : \E i \in DOMAIN out.headers[n] : tokensIn(slots, n, out.headers[n][i]) # {}
        \/ \E i \in DOMAIN out.query : InQuery(slots, out.query[i])
    BY PresentedIs
  <2> QED
    BY <1>4, <1>5, <2>1
<1> QED
  BY <1>6 DEF slots, out, cred

-----------------------------------------------------------------------------
\* Nothing of the Secret in a header of the request.
WithoutSecret(request) ==
  \A n \in DOMAIN request.headers : \A v \in Range(request.headers[n]) : Secret \notin {v.core, v.user}

\* The parameter x of the query q, at the place k, is the only one of the name key.
OnlyParam(q, key, x, k) ==
  {p \in Range(q) : p.key = key} = {x} /\ {i \in DOMAIN q : q[i].key = key} = {k}

\* A parameter added to a query without its name is the only one of that name.
LEMMA OneParam ==
  ASSUME NEW S, NEW w \in Seq(S), NEW x, NEW key, \A r \in Range(w) : r.key # key, x.key = key
  PROVE  OnlyParam(Append(w, x), key, x, Len(w) + 1)
<1> DEFINE a == Append(w, x)
           N == Len(w) + 1
<1>1. Len(w) \in Nat /\ DOMAIN w = 1 .. Len(w) /\ DOMAIN a = 1 .. N /\ a[N] = x /\ \A j \in 1 .. Len(w) : a[j] = w[j]
  OBVIOUS
<1>2. N \in 1 .. N /\ \A i \in 1 .. N : i = N \/ i \in 1 .. Len(w)
  BY <1>1
<1> HIDE DEF a, N
<1>3. \A j \in DOMAIN a : j = N \/ a[j].key # key
  BY <1>1, <1>2 DEF Range
<1> QED
  BY <1>1, <1>2, <1>3 DEF Range, a, N, OnlyParam

\* What is in a sequence of one element or of none.
LEMMA OneOrNone == \A x : Len(<<x>>) = 1 /\ Range(<<x>>) = {x} /\ Range(<<>>) = {}
<1>1. \A x : Len(<<x>>) = 1 /\ DOMAIN <<x>> = {1} /\ <<x>>[1] = x
  OBVIOUS
<1>2. DOMAIN <<>> = {}
  OBVIOUS
<1> QED
  BY <1>1, <1>2, Zenon DEF Range

\* Whatever the Agent sent, the Upstream finds the Secret in its template's slot and there
\* alone, and Redaction looks for the form in which it was sent.  (The Agent's request does
\* not hold the Secret; from is any place.)
THEOREM SecretIsAlone ==
  ASSUME NEW K, NEW C, NEW request, request.query \in Seq(ParamsOver(K, C)), WithoutSecret(request),
         NEW route, GoodTemplate(route), NEW o, render(route, o).ok, NEW from,
         render(route, o).header = "" \/ render(route, o).header \in DOMAIN request.headers
  PROVE  SecretPlaced(render(route, o), Rewrite(request, from, render(route, o)))
<1> DEFINE cred == render(route, o)
           out == Rewrite(request, from, cred)
           slot == IF cred.query # "" THEN {p \in Range(out.query) : p.key = cred.query}
                   ELSE Range(out.headers[cred.header])
<1>1. /\ cred.header = (IF route.kind = "query" THEN "" ELSE route.name)
      /\ cred.query = (IF route.kind = "query" THEN route.name ELSE "")
      /\ route.kind = "query" => cred.query # "" /\ cred.value.core = Secret
      /\ cred.value.core = Secret \/ cred.value.user = Secret
      /\ {cred.carried, "raw"} \subseteq cred.needles
  BY RenderIs
<1>2. PICK w \in Seq(ParamsOver(K, C)) : QueryOut(out.query, w, request, from, cred)
  BY RewrittenQuery
<1>3. route.name # ""
  BY DEF GoodTemplate, validTemplate
<1>4. /\ DOMAIN out.headers = DOMAIN request.headers
      /\ \A n \in DOMAIN request.headers : out.headers[n] = HeaderOut(request, from, cred, n)
  BY RewrittenHeaders
<1>5. cred.header = "" \/ cred.header \in DOMAIN request.headers
  OBVIOUS
<1> HIDE DEF cred, out
<1>6. \A x : Len(<<x>>) = 1 /\ Range(<<x>>) = {x} /\ Range(<<>>) = {}
  BY OneOrNone
<1>7. ASSUME NEW n \in DOMAIN out.headers, n # cred.header, NEW v \in Range(out.headers[n])
      PROVE  Secret \notin {v.core, v.user}
  <2>1. n \in DOMAIN request.headers /\ out.headers[n] = HeaderOut(request, from, cred, n)
    BY <1>4
  <2>2. out.headers[n] \in {<<>>, <<Plain("gzip")>>, request.headers[n]}
    BY <1>7, <2>1 DEF HeaderOut
  <2>3. CASE out.headers[n] = <<>>
    BY <1>6, <1>7, <2>3
  <2>4. CASE out.headers[n] = <<Plain("gzip")>>
    <3>1. v = Plain("gzip")
      BY <1>6, <1>7, <2>4, ZenonT(60)
    <3> QED
      BY <3>1, AgentAssumption DEF Plain
  <2>5. CASE out.headers[n] = request.headers[n]
    BY <1>7, <2>1, <2>5 DEF WithoutSecret
  <2> QED
    BY <2>2, <2>3, <2>4, <2>5
<1>8. \A x : Cardinality({x}) = 1
  BY FS_Singleton
<1>9. ASSUME cred.header \notin {"Range", "If-Range", "Accept-Encoding"}
      PROVE  /\ Cardinality(slot) = 1 /\ \A v \in slot : v.core = Secret \/ v.user = Secret
             /\ cred.query # "" => Cardinality({i \in DOMAIN out.query : out.query[i].key = cred.query}) = 1
             /\ cred.header # "" => Len(out.headers[cred.header]) = 1
  <2>1. CASE cred.query # ""
    <3>1. out.query = Append(w, Param(cred)) /\ \A r \in Range(w) : r.key # cred.query
      BY <1>2, <2>1 DEF QueryOut, Kept
    <3>2. Param(cred).key = cred.query /\ Param(cred).core = Secret /\ cred.header = ""
      BY <1>1, <2>1 DEF Param
    <3>3. /\ {p \in Range(out.query) : p.key = cred.query} = {Param(cred)}
          /\ {i \in DOMAIN out.query : out.query[i].key = cred.query} = {Len(w) + 1}
      <4>1. OnlyParam(out.query, cred.query, Param(cred), Len(w) + 1)
        BY <3>1, <3>2, OneParam
      <4> QED
        BY <4>1 DEF OnlyParam
    <3>4. slot = {Param(cred)}
      BY <2>1, <3>3
    <3> HIDE DEF slot
    <3> QED
      BY <1>8, <3>2, <3>3, <3>4
  <2>2. CASE cred.query = ""
    <3>1. cred.header # "" /\ cred.header \in DOMAIN request.headers
      BY <1>1, <1>3, <1>5, <2>2
    <3>2. out.headers[cred.header] = <<cred.value>>
      BY <1>4, <1>9, <3>1 DEF HeaderOut
    <3>3. slot = {cred.value}
      BY <1>6, <2>2, <3>2
    <3>4. Len(out.headers[cred.header]) = 1
      BY <1>6, <3>2
    <3> HIDE DEF slot
    <3> QED
      BY <1>1, <1>8, <2>2, <3>3, <3>4
  <2> QED
    BY <2>1, <2>2
<1>10. SecretPlaced(cred, out)
  BY <1>1, <1>7, <1>9 DEF SecretPlaced
<1> QED
  BY <1>10 DEF cred, out

-----------------------------------------------------------------------------
\* The questions about requests: a request whose Agent knows no Secret.
HeaderLists == [HeaderNames -> Seq(HeaderValues)]
RequestsInv == about = "requests" =>
  input \in [route : Templates, other : Templates, headers : HeaderLists, query : Seq(Params)]

\* Every question about a request is one.
LEMMA RequestsAlways == Questions => []RequestsInv
<1> DEFINE R == [route : Templates, other : Templates, headers : HeaderLists, query : Seq(Params)]
<1>1. FirstQuestion => RequestsInv
  <2> SUFFICES ASSUME FirstQuestion, about = "requests" PROVE input \in R
    BY DEF RequestsInv
  <2>1. input \in NoRequests
    BY DEF FirstQuestion
  <2>2. <<>> \in Seq(HeaderValues) /\ <<>> \in Seq(Params)
    OBVIOUS
  <2>3. [n \in HeaderNames |-> <<>>] \in HeaderLists
    BY <2>2 DEF HeaderLists
  <2>4. PICK t \in Templates, o \in Templates :
          input = [route |-> t, other |-> o, headers |-> [n \in HeaderNames |-> <<>>], query |-> <<>>]
    BY <2>1 DEF NoRequests
  <2> QED
    BY <2>2, <2>3, <2>4
<1>2. RequestsInv /\ [NextQuestion]_asked => RequestsInv'
  <2> SUFFICES ASSUME RequestsInv, [NextQuestion]_asked, about' = "requests" PROVE input' \in R
    BY DEF RequestsInv
  <2>1. CASE AddHeader
    <3>1. input \in R
      BY <2>1 DEF AddHeader, RequestsInv
    <3>2. PICK n \in HeaderNames, v \in HeaderValues : input' = [input EXCEPT !.headers[n] = Append(@, v)]
      <4>1. CASE \E n \in {"Authorization", "X-Key"}, v \in HeaderValues :
                   input' = [input EXCEPT !.headers[n] = Append(@, v)]
        BY <4>1 DEF HeaderNames
      <4>2. CASE \E c \in Cores : input' = [input EXCEPT !.headers[AgentTokenHeader] = Append(@, Plain(c))]
        <5>1. \A c \in Cores : Plain(c) \in HeaderValues
          BY DEF Plain, HeaderValues
        <5>2. AgentTokenHeader \in HeaderNames
          BY DEF HeaderNames
        <5> QED
          BY <4>2, <5>1, <5>2
      <4> QED
        BY <2>1, <4>1, <4>2 DEF AddHeader
    <3> DEFINE hs == [input.headers EXCEPT ![n] = Append(@, v)]
    <3>3. hs \in HeaderLists
      BY <3>1 DEF HeaderLists
    <3>4. input' = [input EXCEPT !.headers = hs]
      BY <3>2
    <3> HIDE DEF hs
    <3> QED
      BY <3>1, <3>3, <3>4
  <2>2. CASE AddParam
    <3>1. input \in R
      BY <2>2 DEF AddParam, RequestsInv
    <3>2. PICK p \in Params : input' = [input EXCEPT !.query = Append(@, p)]
      BY <2>2 DEF AddParam
    <3>3. Append(input.query, p) \in Seq(Params)
      BY <3>1
    <3> QED
      BY <3>1, <3>2, <3>3
  <2>3. CASE UNCHANGED asked
    BY <2>3 DEF asked, RequestsInv
  <2> QED
    BY <2>1, <2>2, <2>3 DEF NextQuestion, AddEntry, Extend, PutRecord
<1> QED
  BY <1>1, <1>2, PTL DEF Questions

\* The templates of the questions.
LEMMA TemplatesAreGood ==
  ASSUME NEW t \in Templates
  PROVE  GoodTemplate(t) /\ (t.kind # "query" => t.name \in HeaderNames)
<1>1. t.field \in {"", "u"} /\ validTemplate(t) /\ (t.kind # "query" => t.name \in HeaderNames)
  <2>1. validTemplate(t) /\ t \in {Header("Authorization", ""), Header("Authorization", "Bearer"), Header("X-Key", ""),
                     Header("Range", ""), Header(AgentTokenHeader, ""), Query("k"),
                     Basic("u", FALSE), Basic("u", TRUE)}
    BY DEF Templates
  <2>2. CASE \E n \in HeaderNames, wrap \in {"", "Bearer"} : t = Header(n, wrap)
    <3>1. PICK n \in HeaderNames, wrap \in {"", "Bearer"} : t = Header(n, wrap)
      BY <2>2
    <3>2. t.field = "" /\ t.name = n
      BY <3>1 DEF Header
    <3> QED
      BY <2>1, <3>2
  <2>3. CASE t = Query("k")
    BY <2>1, <2>3 DEF Query
  <2>4. CASE \E b : t = Basic("u", b)
    <3>1. PICK b : t = Basic("u", b)
      BY <2>4
    <3>2. t.field = "u" /\ t.name = "Authorization"
      BY <3>1 DEF Basic
    <3> QED
      BY <2>1, <3>2 DEF HeaderNames
  <2> QED
    BY <2>1, <2>2, <2>3, <2>4 DEF HeaderNames
<1> QED
  BY <1>1, TokensAssumption, AgentAssumption DEF GoodTemplate

\* Both hold of the requests of the run, of any number of headers and parameters.
THEOREM CredentialsStayInPlace == Questions => []CredentialsInPlace
<1>1. RequestsInv => CredentialsInPlace
  <2> SUFFICES ASSUME RequestsInv, about = "requests", verifyAgentToken(Found, AgentTokens),
                      NEW o \in Oddities, render(input.route, o).ok
               PROVE  /\ presented(Slots, Sent(render(input.route, o))) = {}
                      /\ SecretPlaced(render(input.route, o), Sent(render(input.route, o)))
    BY Zenon DEF CredentialsInPlace, TokenStaysHere, SecretInItsSlot
  <2> DEFINE ts == {input.route, input.other}
             from == CHOOSE p \in Found : TRUE
             cred == render(input.route, o)
  <2>1. /\ input.route \in Templates /\ input.other \in Templates
        /\ input.headers \in HeaderLists /\ input.query \in Seq(Params)
    BY DEF RequestsInv
  <2>2. \A t \in ts : GoodTemplate(t)
    BY <2>1, TemplatesAreGood
  <2>3. Found = {from}
    <3>1. PICK p : Found = {p}
      BY DEF verifyAgentToken
    <3> QED
      BY <3>1
  <2>4. Params = ParamsOver({"k", "l"}, Cores)
    BY DEF Params, ParamsOver
  <2>5. WithoutSecret(input)
    <3>1. \A v \in HeaderValues : v.core \in Cores /\ v.user \in Cores \cup {""}
      BY DEF HeaderValues
    <3>2. Secret \notin Cores \cup {""}
      BY AgentAssumption, TokensAssumption DEF Cores
    <3>3. \A n \in DOMAIN input.headers : Range(input.headers[n]) \subseteq HeaderValues
      BY <2>1 DEF HeaderLists, Range
    <3> QED
      BY <3>1, <3>2, <3>3 DEF WithoutSecret
  <2>6. cred.header = "" \/ cred.header \in DOMAIN input.headers
    <3>1. cred.header = (IF input.route.kind = "query" THEN "" ELSE input.route.name)
      BY <2>2, RenderIs
    <3>2. DOMAIN input.headers = HeaderNames
      BY <2>1 DEF HeaderLists
    <3> QED
      BY <2>1, <3>1, <3>2, TemplatesAreGood
  <2>7. Sent(cred) = Rewrite(input, from, cred)
    BY DEF Sent
  <2>8. presented(newSlots(ts), input) = {from} /\ Slots = newSlots(ts)
    BY <2>3 DEF Found, Slots
  <2> HIDE DEF from, ts
  <2>9. input.query \in Seq(ParamsOver({"k", "l"}, Cores)) /\ input.route \in ts
    BY <2>1, <2>4 DEF ts
  <2>10. presented(newSlots(ts), Rewrite(input, from, cred)) = {}
    BY <2>2, <2>8, <2>9, TokensStay
  <2>11. SecretPlaced(cred, Rewrite(input, from, cred))
    BY <2>2, <2>5, <2>6, <2>9, SecretIsAlone
  <2> QED
    BY <2>7, <2>8, <2>10, <2>11
<1> QED
  BY <1>1, RequestsAlways, PTL

-----------------------------------------------------------------------------
(***************************************************************************)
(* Lists                                                                   *)
(***************************************************************************)

-----------------------------------------------------------------------------
\* A prefix, element by element.
Begins(a, c) == Len(a) <= Len(c) /\ \A i \in 1 .. Len(a) : a[i] = c[i]

\* IsPrefix is that.
LEMMA PrefixBegins ==
  ASSUME NEW C, NEW a \in Seq(C), NEW c \in Seq(C)
  PROVE  IsPrefix(a, c) <=> Begins(a, c)
<1>1. Len(a) \in Nat /\ Len(c) \in Nat
  OBVIOUS
<1> SUFFICES ASSUME Len(a) <= Len(c)
             PROVE  SubSeq(a, 1, Len(a)) = SubSeq(c, 1, Len(a)) <=> \A i \in 1 .. Len(a) : a[i] = c[i]
  BY DEF IsPrefix, Begins
<1> DEFINE x == SubSeq(a, 1, Len(a))
           y == SubSeq(c, 1, Len(a))
<1>2. Len(a) \in 0 .. Len(a) /\ Len(a) \in 0 .. Len(c)
  BY <1>1
<1>3. x \in Seq(C) /\ Len(x) = Len(a) /\ \A i \in 1 .. Len(a) : x[i] = a[i]
  BY <1>2, Cut
<1>4. y \in Seq(C) /\ Len(y) = Len(a) /\ \A i \in 1 .. Len(a) : y[i] = c[i]
  BY <1>2, Cut
<1> HIDE DEF x, y
<1>5. x = y <=> \A i \in 1 .. Len(a) : x[i] = y[i]
  BY <1>3, <1>4, SeqEqual
<1> QED
  BY <1>3, <1>4, <1>5 DEF x, y

\* A prefix of a prefix.
LEMMA PrefixOfPrefix ==
  ASSUME NEW C, NEW a \in Seq(C), NEW c \in Seq(C), NEW d \in Seq(C), IsPrefix(a, c), IsPrefix(c, d)
  PROVE  IsPrefix(a, d)
<1>1. Begins(a, c) /\ Begins(c, d)
  BY PrefixBegins
<1>2. Begins(a, d)
  BY <1>1 DEF Begins
<1> QED
  BY <1>2, PrefixBegins

\* Of two prefixes of a sequence one is a prefix of the other.
LEMMA PrefixesMeet ==
  ASSUME NEW C, NEW a \in Seq(C), NEW c \in Seq(C), NEW d \in Seq(C), IsPrefix(a, d), IsPrefix(c, d)
  PROVE  IsPrefix(a, c) \/ IsPrefix(c, a)
<1>1. Begins(a, d) /\ Begins(c, d)
  BY PrefixBegins
<1>2. Begins(a, c) \/ Begins(c, a)
  BY <1>1 DEF Begins
<1> QED
  BY <1>2, PrefixBegins

\* What comes after a prefix.
LEMMA PrefixRest ==
  ASSUME NEW C, NEW a \in Seq(C), NEW c \in Seq(C), IsPrefix(a, c)
  PROVE  /\ SubSeq(c, Len(a) + 1, Len(c)) \in Seq(C) /\ c = a \o SubSeq(c, Len(a) + 1, Len(c))
         /\ Len(SubSeq(c, Len(a) + 1, Len(c))) = Len(c) - Len(a)
<1> DEFINE k == Len(a)
           x == SubSeq(c, 1, k)
           y == SubSeq(c, k + 1, Len(c))
<1>1. Begins(a, c) /\ Len(a) \in Nat /\ Len(c) \in Nat
  BY PrefixBegins
<1>2. k \in 0 .. Len(c)
  BY <1>1 DEF Begins
<1>3. x \in Seq(C) /\ Len(x) = k /\ (\A i \in 1 .. k : x[i] = c[i]) /\ y \in Seq(C) /\ Len(y) = Len(c) - k /\ x \o y = c
  BY <1>2, Cut, ZenonT(60)
<1>4. x = a
  <2> HIDE DEF x
  <2> QED
    BY <1>1, <1>3, SeqEqual DEF Begins
<1> QED
  BY <1>3, <1>4

\* A sequence is a prefix of what continues it.
LEMMA PrefixJoined ==
  ASSUME NEW C, NEW a \in Seq(C), NEW c \in Seq(C)
  PROVE  IsPrefix(a, a \o c)
<1>1. a \o c \in Seq(C) /\ Len(a \o c) = Len(a) + Len(c) /\ \A i \in 1 .. Len(a) : (a \o c)[i] = a[i]
  BY Joined
<1>2. Len(a) \in Nat /\ Len(c) \in Nat
  OBVIOUS
<1>3. Begins(a, a \o c)
  BY <1>1, <1>2 DEF Begins
<1> QED
  BY <1>1, <1>3, PrefixBegins

\* Concatenation with the same sequence before keeps prefixes.
LEMMA PrefixBehind ==
  ASSUME NEW C, NEW x \in Seq(C), NEW a \in Seq(C), NEW c \in Seq(C)
  PROVE  IsPrefix(x \o a, x \o c) <=> IsPrefix(a, c)
<1> DEFINE u == x \o a
           v == x \o c
<1>1. /\ u \in Seq(C) /\ Len(u) = Len(x) + Len(a) /\ \A i \in 1 .. Len(x) : u[i] = x[i]
      /\ \A i \in 1 .. Len(a) : u[Len(x) + i] = a[i]
  BY Joined
<1>2. /\ v \in Seq(C) /\ Len(v) = Len(x) + Len(c) /\ \A i \in 1 .. Len(x) : v[i] = x[i]
      /\ \A i \in 1 .. Len(c) : v[Len(x) + i] = c[i]
  BY Joined
<1>3. Len(x) \in Nat /\ Len(a) \in Nat /\ Len(c) \in Nat
  OBVIOUS
<1> HIDE DEF u, v
<1>4. ASSUME Begins(a, c) PROVE Begins(u, v)
  <2>1. ASSUME NEW i \in 1 .. Len(u) PROVE u[i] = v[i]
    <3>1. CASE i \in 1 .. Len(x)
      BY <1>1, <1>2, <3>1
    <3>2. CASE i \notin 1 .. Len(x)
      <4>1. i - Len(x) \in 1 .. Len(a) /\ Len(x) + (i - Len(x)) = i /\ Len(a) <= Len(c)
        BY <1>1, <1>3, <1>4, <3>2 DEF Begins
      <4>2. i - Len(x) \in 1 .. Len(c)
        BY <1>3, <4>1
      <4> DEFINE j == i - Len(x)
      <4> HIDE DEF j
      <4>3. u[Len(x) + j] = a[j] /\ v[Len(x) + j] = c[j] /\ a[j] = c[j]
        BY <1>1, <1>2, <1>4, <4>1, <4>2 DEF Begins, j
      <4> QED
        BY <4>1, <4>3 DEF j
    <3> QED
      BY <3>1, <3>2
  <2> QED
    BY <1>1, <1>2, <1>3, <1>4, <2>1 DEF Begins
<1>5. ASSUME Begins(u, v) PROVE Begins(a, c)
  <2>1. Len(a) <= Len(c)
    BY <1>1, <1>2, <1>3, <1>5 DEF Begins
  <2>2. ASSUME NEW i \in 1 .. Len(a) PROVE a[i] = c[i]
    <3>1. Len(x) + i \in 1 .. Len(u) /\ i \in 1 .. Len(c)
      BY <1>1, <1>3, <2>1
    <3> QED
      BY <1>1, <1>2, <1>5, <3>1 DEF Begins
  <2> QED
    BY <2>1, <2>2 DEF Begins
<1> QED
  BY <1>1, <1>2, <1>4, <1>5, PrefixBegins DEF u, v

\* Concatenation is associative.
LEMMA JoinedAgain ==
  ASSUME NEW C, NEW x \in Seq(C), NEW a \in Seq(C), NEW c \in Seq(C)
  PROVE  (x \o a) \o c = x \o (a \o c)
  BY ConcatAssociative

\* What comes after a given beginning is determined.
LEMMA SameRest ==
  ASSUME NEW C, NEW x \in Seq(C), NEW a \in Seq(C), NEW c \in Seq(C), x \o a = x \o c
  PROVE  a = c
<1>1. /\ Len(x \o a) = Len(x) + Len(a) /\ \A i \in 1 .. Len(a) : (x \o a)[Len(x) + i] = a[i]
      /\ Len(x \o c) = Len(x) + Len(c) /\ \A i \in 1 .. Len(c) : (x \o c)[Len(x) + i] = c[i]
  BY Joined
<1>2. Len(x) \in Nat /\ Len(a) \in Nat /\ Len(c) \in Nat
  OBVIOUS
<1>3. Len(a) = Len(c)
  BY <1>1, <1>2
<1>4. \A i \in 1 .. Len(a) : a[i] = c[i]
  BY <1>1, <1>3
<1> QED
  BY <1>3, <1>4, SeqEqual

\* A path that ends in a slash.
LEMMA EndsInSlash ==
  ASSUME NEW C, NEW s \in Seq(C)
  PROVE  HasSuffix(s, Slash) <=> s # <<>> /\ s[Len(s)] = "/"
<1> DEFINE D == C \cup {"/"}
           a == Reverse(Slash)
           c == Reverse(s)
<1>1. Len(s) \in Nat /\ \A i \in 1 .. Len(s) : s[i] \in D
  OBVIOUS
<1>2. c \in Seq(D) /\ Len(c) = Len(s) /\ (Len(s) # 0 => c[1] = s[Len(s)])
  <2>1. \A i \in 1 .. Len(s) : Len(s) - i + 1 \in 1 .. Len(s)
    BY <1>1
  <2>2. \A i \in 1 .. Len(s) : s[Len(s) - i + 1] \in D
    BY <1>1, <2>1
  <2>3. c = [i \in 1 .. Len(s) |-> s[Len(s) - i + 1]]
    BY DEF Reverse
  <2>4. c \in Seq(D) /\ Len(c) = Len(s)
    BY <1>1, <2>2, <2>3
  <2>5. Len(s) # 0 => 1 \in 1 .. Len(s) /\ Len(s) - 1 + 1 = Len(s)
    BY <1>1
  <2> HIDE DEF c
  <2>6. Len(s) # 0 => c[1] = s[Len(s)]
    BY <2>3, <2>5
  <2> QED
    BY <2>4, <2>6
<1>3. a \in Seq(D) /\ Len(a) = 1 /\ a[1] = "/"
  <2>1. Len(Slash) = 1 /\ Slash[1] = "/"
    BY DEF Slash
  <2>2. a = [i \in 1 .. 1 |-> Slash[1 - i + 1]]
    BY <2>1 DEF Reverse
  <2>3. a = [i \in 1 .. 1 |-> "/"]
    BY <2>1, <2>2
  <2> QED
    BY <2>3
<1>4. HasSuffix(s, Slash) <=> IsPrefix(a, c)
  BY DEF HasSuffix, IsSuffix
<1> HIDE DEF a, c
<1>5. IsPrefix(a, c) <=> Begins(a, c)
  BY <1>2, <1>3, PrefixBegins
<1>6. Begins(a, c) <=> Len(s) # 0 /\ s[Len(s)] = "/"
  BY <1>1, <1>2, <1>3 DEF Begins
<1>7. s # <<>> <=> Len(s) # 0
  OBVIOUS
<1> QED
  BY <1>4, <1>5, <1>6, <1>7

-----------------------------------------------------------------------------
\* The key of a folder's LIST that leads to s: the whole of s, or its first folder.
LEMMA FirstPartIs ==
  ASSUME NEW C, NEW s \in Seq(C)
  PROVE  /\ FirstPart(s) \in Seq(C) /\ IsPrefix(FirstPart(s), s) /\ (s # <<>> => FirstPart(s) # <<>>)
         /\ ~HasSuffix(FirstPart(s), Slash) => FirstPart(s) = s
<1>1. Len(s) \in Nat /\ DOMAIN s = 1 .. Len(s)
  OBVIOUS
<1> DEFINE T == {i \in 1 .. Len(s) : s[i] = "/"}
           first(i) == i \in DOMAIN s /\ s[i] = "/" /\ \A j \in 1 .. i - 1 : s[j] # "/"
           at == CHOOSE i \in DOMAIN s : s[i] = "/" /\ \A j \in 1 .. i - 1 : s[j] # "/"
<1>2. CASE T # {}
  <2>1. PICK x \in T : \A y \in T : x <= y
    <3>1. T \subseteq Nat
      BY <1>1
    <3> HIDE DEF T
    <3> QED
      BY <1>2, <3>1, LeastMember
  <2>2. x \in DOMAIN s /\ s[x] = "/" /\ \A j \in 1 .. x - 1 : s[j] # "/"
    BY <1>1, <2>1
  <2>3. at \in DOMAIN s /\ s[at] = "/"
    BY <2>2
  <2>4. FirstPart(s) = SubSeq(s, 1, at)
    BY <2>2 DEF FirstPart
  <2> HIDE DEF at
  <2>5. at \in 0 .. Len(s) /\ at # 0 /\ at \in 1 .. at
    BY <1>1, <2>3
  <2> DEFINE k == SubSeq(s, 1, at)
  <2>6. k \in Seq(C) /\ Len(k) = at /\ \A i \in 1 .. at : k[i] = s[i]
    BY <2>5, Cut
  <2> HIDE DEF k
  <2>7. Begins(k, s) /\ k # <<>> /\ k[Len(k)] = "/"
    BY <1>1, <2>3, <2>5, <2>6 DEF Begins
  <2> QED
    BY <2>4, <2>6, <2>7, PrefixBegins, EndsInSlash DEF k
<1>3. CASE T = {}
  <2>1. FirstPart(s) = s
    BY <1>1, <1>3 DEF FirstPart
  <2>2. Begins(s, s)
    BY <1>1 DEF Begins
  <2> QED
    BY <2>1, <2>2, PrefixBegins
<1> QED
  BY <1>2, <1>3

-----------------------------------------------------------------------------
\* The characters of paths, and what OpenBao's mounts and records look like: a mount's
\* path is relative and ends in a slash, a record's is not empty and does not.
Letters(C) == {"/", "#", "d", "m"} \subseteq C

MountOK(C, m) ==
  /\ m.path \in Seq(C) /\ m.path # <<>> /\ m.path[1] # "/" /\ m.path[Len(m.path)] = "/"
  /\ \A i \in 1 .. Len(m.path) : m.path[i] # "#"

RecordOK(C, r) ==
  /\ r.path \in Seq(C) /\ r.path # <<>> /\ r.path[Len(r.path)] # "/"
  /\ IsFiniteSet(r.fields) /\ \A f \in r.fields : f \in Seq(C)

RecordsOK(C, store) == \A r \in store : RecordOK(C, r)

\* The roots of a mount's records and folders.
LEMMA RootsAre ==
  ASSUME NEW C, Letters(C), NEW m, MountOK(C, m)
  PROVE  /\ dataRoot(m) \in Seq(C) /\ IsPrefix(m.path, dataRoot(m))
         /\ listPath(m, <<>>) \in Seq(C)
         /\ \A dir \in Seq(C) : listPath(m, dir) = listPath(m, <<>>) \o dir
<1>1. m.path \in Seq(C)
  BY DEF MountOK
<1>2. <<"d", "/">> \in Seq(C) /\ <<"m", "/">> \in Seq(C) /\ <<>> \in Seq(C)
  BY DEF Letters
<1>3. /\ m.path \o <<"d", "/">> \in Seq(C) /\ m.path \o <<"m", "/">> \in Seq(C)
      /\ IsPrefix(m.path, m.path \o <<"d", "/">>)
  BY <1>1, <1>2, Joined, PrefixJoined
<1>4. IsPrefix(m.path, m.path)
  <2>1. Begins(m.path, m.path)
    BY <1>1 DEF Begins
  <2> QED
    BY <1>1, <2>1, PrefixBegins
<1>5. \A a \in Seq(C) : a \o <<>> = a
  BY ConcatEmptySeq
<1> QED
  BY <1>1, <1>3, <1>4, <1>5 DEF dataRoot, listPath

\* The part of a path behind a folder of it.
Behind(path, dir) == SubSeq(path, Len(dir) + 1, Len(path))

\* The keys of a folder: what comes first behind it in the records under it.
LEMMA KeysAre ==
  ASSUME NEW C, Letters(C), NEW m, MountOK(C, m), NEW store, RecordsOK(C, store), NEW dir \in Seq(C)
  PROVE  \A x : x \in listKeys(store, m, listPath(m, dir)) <=>
                  x # <<>> /\ \E r \in store : r.mount = m /\ IsPrefix(dir, r.path) /\ x = FirstPart(Behind(r.path, dir))
<1> DEFINE root == listPath(m, <<>>)
           path == listPath(m, dir)
<1>1. root \in Seq(C) /\ path = root \o dir /\ \A d \in Seq(C) : listPath(m, d) = root \o d
  BY RootsAre
<1>2. path \in Seq(C)
  BY <1>1, Joined
<1>3. ASSUME NEW r \in store
      PROVE  /\ HasPrefix(listPath(m, r.path), path) <=> IsPrefix(dir, r.path)
             /\ IsPrefix(dir, r.path) =>
                  SubSeq(listPath(m, r.path), Len(path) + 1, Len(listPath(m, r.path))) = Behind(r.path, dir)
  <2> DEFINE q == r.path
             whole == listPath(m, q)
  <2>1. q \in Seq(C)
    BY DEF RecordsOK, RecordOK
  <2>2. whole = root \o q
    BY <1>1, <2>1
  <2>3. whole \in Seq(C)
    BY <1>1, <2>1, <2>2, Joined
  <2> HIDE DEF root, path, q, whole
  <2>4. IsPrefix(path, whole) <=> IsPrefix(dir, q)
    BY <1>1, <2>1, <2>2, PrefixBehind
  <2>5. ASSUME IsPrefix(dir, q) PROVE SubSeq(whole, Len(path) + 1, Len(whole)) = Behind(q, dir)
    <3> DEFINE A == SubSeq(whole, Len(path) + 1, Len(whole))
               B == SubSeq(q, Len(dir) + 1, Len(q))
    <3>1. A \in Seq(C) /\ whole = path \o A
      BY <1>2, <2>3, <2>4, <2>5, PrefixRest
    <3>2. B \in Seq(C) /\ q = dir \o B
      BY <2>1, <2>5, PrefixRest
    <3> HIDE DEF A, B
    <3>3. whole = path \o B
      <4>1. (root \o dir) \o B = root \o (dir \o B)
        BY <1>1, <3>2, JoinedAgain, SMTT(30)
      <4> QED
        BY <1>1, <2>2, <3>2, <4>1
    <3>4. path \o A = path \o B
      BY <3>1, <3>3
    <3>5. A = B
      BY <1>2, <3>1, <3>2, <3>4, SameRest
    <3> QED
      BY <3>5 DEF A, B, Behind
  <2> QED
    BY <2>4, <2>5 DEF HasPrefix, q, whole
<1> HIDE DEF path
<1>4. \A x : x \in listKeys(store, m, path) <=>
               x # <<>> /\ \E r \in store : /\ r.mount = m /\ HasPrefix(listPath(m, r.path), path)
                                             /\ x = FirstPart(SubSeq(listPath(m, r.path), Len(path) + 1, Len(listPath(m, r.path))))
  BY DEF listKeys
<1> QED
  BY <1>3, <1>4 DEF path

-----------------------------------------------------------------------------
\* The records of m that start with prefix: the API paths of those below dir.
Wants(m, prefix, q) == HasPrefix(dataRoot(m) \o q, prefix) /\ checkPath(dataRoot(m) \o q, FALSE)

Below(store, m, prefix, dir) ==
  {r \in store : r.mount = m /\ IsPrefix(dir, r.path) /\ r.path # dir /\ Wants(m, prefix, r.path)}

Reached(store, m, prefix, dir) == {dataRoot(m) \o r.path : r \in Below(store, m, prefix, dir)}

\* What walk does in the folder dir, with what it returns for the folders in it.
Visit(store, m, prefix, under, dir) ==
  LET keys    == listKeys(store, m, listPath(m, dir))
      full(k) == dataRoot(m) \o dir \o k
      folders == {k \in keys : HasSuffix(k, Slash)}
  IN  {full(k) : k \in {j \in keys \ folders : HasPrefix(full(j), prefix) /\ checkPath(full(j), FALSE)}}
        \cup UNION {under[dir \o k] : k \in {j \in folders : overlaps(full(j), prefix)}}

\* The keys it reads, and the folders it enters.
Files(store, m, prefix, dir) ==
  {k \in listKeys(store, m, listPath(m, dir)) :
     ~HasSuffix(k, Slash) /\ HasPrefix(dataRoot(m) \o dir \o k, prefix) /\ checkPath(dataRoot(m) \o dir \o k, FALSE)}
Entered(store, m, prefix, dir) ==
  {k \in listKeys(store, m, listPath(m, dir)) : HasSuffix(k, Slash) /\ overlaps(dataRoot(m) \o dir \o k, prefix)}

\* What a visit yields: the files it reads and what the folders it enters yield.
LEMMA VisitIs ==
  ASSUME NEW store, NEW m, NEW prefix, NEW under, NEW dir
  PROVE  \A y : y \in Visit(store, m, prefix, under, dir) <=>
                  \/ \E k \in Files(store, m, prefix, dir) : y = dataRoot(m) \o dir \o k
                  \/ \E k \in Entered(store, m, prefix, dir) : y \in under[dir \o k]
<1> DEFINE keys    == listKeys(store, m, listPath(m, dir))
           full(k) == dataRoot(m) \o dir \o k
           folders == {k \in keys : HasSuffix(k, Slash)}
           A == {full(k) : k \in {j \in keys \ folders : HasPrefix(full(j), prefix) /\ checkPath(full(j), FALSE)}}
           B == UNION {under[dir \o k] : k \in {j \in folders : overlaps(full(j), prefix)}}
<1>1. Visit(store, m, prefix, under, dir) = A \cup B
  BY DEF Visit
<1>2. \A k : k \in {j \in keys \ folders : HasPrefix(full(j), prefix) /\ checkPath(full(j), FALSE)}
               <=> k \in Files(store, m, prefix, dir)
  <2> HIDE DEF keys
  <2> QED
    BY DEF Files, keys
<1>3. \A k : k \in {j \in folders : overlaps(full(j), prefix)} <=> k \in Entered(store, m, prefix, dir)
  <2> HIDE DEF keys
  <2> QED
    BY DEF Entered, keys
<1> HIDE DEF folders, keys
<1>4. \A y : y \in A <=> \E k \in Files(store, m, prefix, dir) : y = full(k)
  <2> HIDE DEF full
  <2> QED
    BY <1>2
<1>5. \A y : y \in B <=> \E k \in Entered(store, m, prefix, dir) : y \in under[dir \o k]
  <2> HIDE DEF full
  <2> QED
    BY <1>3
<1> QED
  BY <1>1, <1>4, <1>5

\* The folders it enters are folders of records.
LEMMA EnteredAre ==
  ASSUME NEW C, Letters(C), NEW m, MountOK(C, m), NEW store, RecordsOK(C, store), NEW prefix \in Seq(C), NEW dir \in Seq(C),
         NEW k \in Entered(store, m, prefix, dir)
  PROVE  /\ k \in Seq(C) /\ k # <<>> /\ dir \o k \in Seq(C) /\ Len(dir \o k) > Len(dir)
         /\ \E r \in store : IsPrefix(dir \o k, r.path)
<1>1. k \in listKeys(store, m, listPath(m, dir))
  BY DEF Entered
<1>2. PICK r \in store : r.mount = m /\ IsPrefix(dir, r.path) /\ k = FirstPart(Behind(r.path, dir))
  BY <1>1, KeysAre
<1>3. k # <<>>
  BY <1>1, KeysAre
<1>4. r.path \in Seq(C)
  BY DEF RecordsOK, RecordOK
<1> DEFINE B == Behind(r.path, dir)
<1>5. B \in Seq(C) /\ r.path = dir \o B
  BY <1>2, <1>4, PrefixRest DEF Behind
<1> HIDE DEF B
<1>6. k = FirstPart(B)
  BY <1>2 DEF B
<1>7. k \in Seq(C) /\ IsPrefix(k, B)
  BY <1>5, <1>6, FirstPartIs
<1>8. dir \o k \in Seq(C) /\ Len(dir \o k) = Len(dir) + Len(k)
  BY <1>7, Joined
<1>9. Len(dir) \in Nat /\ Len(k) \in Nat /\ Len(k) # 0
  BY <1>3, <1>7
<1>10. IsPrefix(dir \o k, r.path)
  BY <1>5, <1>7, PrefixBehind
<1> QED
  BY <1>3, <1>7, <1>8, <1>9, <1>10

\* A record below dir is a key of dir, or below one of its folders; and all that is below
\* one of its folders is below dir.
LEMMA BelowInTurn ==
  ASSUME NEW C, Letters(C), NEW m, MountOK(C, m), NEW store, RecordsOK(C, store), NEW prefix \in Seq(C), NEW dir \in Seq(C)
  PROVE  \A y : y \in Reached(store, m, prefix, dir) <=>
                  \/ \E k \in Files(store, m, prefix, dir) : y = dataRoot(m) \o dir \o k
                  \/ \E k \in Entered(store, m, prefix, dir) : y \in Reached(store, m, prefix, dir \o k)
<1> DEFINE root == dataRoot(m)
           keys == listKeys(store, m, listPath(m, dir))
<1>1. root \in Seq(C)
  BY RootsAre
<1>2. \A x : x \in keys <=> x # <<>> /\ \E r \in store : r.mount = m /\ IsPrefix(dir, r.path) /\ x = FirstPart(Behind(r.path, dir))
  BY KeysAre
<1>3. ASSUME NEW r \in store, r.mount = m, IsPrefix(dir, r.path)
      PROVE  /\ r.path \in Seq(C) /\ Behind(r.path, dir) \in Seq(C) /\ r.path = dir \o Behind(r.path, dir)
             /\ root \o r.path = root \o dir \o Behind(r.path, dir)
             /\ r.path # dir <=> Behind(r.path, dir) # <<>>
  <2>1. r.path \in Seq(C)
    BY DEF RecordsOK, RecordOK
  <2> DEFINE B == Behind(r.path, dir)
  <2>2. B \in Seq(C) /\ r.path = dir \o B /\ Len(B) = Len(r.path) - Len(dir)
    BY <1>3, <2>1, PrefixRest DEF Behind
  <2> HIDE DEF B, root
  <2>3. (root \o dir) \o B = root \o (dir \o B)
    BY <1>1, <2>2, JoinedAgain
  <2>4. Len(r.path) \in Nat /\ Len(dir) \in Nat
    BY <2>1
  <2>5. dir \o <<>> = dir
    BY ConcatEmptySeq
  <2>6. r.path # dir <=> B # <<>>
    <3>1. B = <<>> => r.path = dir
      BY <2>2, <2>5
    <3>2. r.path = dir => Len(B) = 0
      BY <2>2, <2>4
    <3>3. Len(B) = 0 => B = <<>>
      BY <2>2
    <3> QED
      BY <3>1, <3>2, <3>3
  <2> QED
    BY <2>1, <2>2, <2>3, <2>6 DEF B
<1>4. ASSUME NEW r \in Below(store, m, prefix, dir)
      PROVE  \/ \E k \in Files(store, m, prefix, dir) : root \o r.path = root \o dir \o k
             \/ \E k \in Entered(store, m, prefix, dir) : r \in Below(store, m, prefix, dir \o k)
  <2> DEFINE B == Behind(r.path, dir)
             k == FirstPart(B)
  <2>1. r \in store /\ r.mount = m /\ IsPrefix(dir, r.path) /\ r.path # dir /\ Wants(m, prefix, r.path)
    BY DEF Below
  <2>2. /\ r.path \in Seq(C) /\ B \in Seq(C) /\ r.path = dir \o B
        /\ root \o r.path = root \o dir \o B /\ B # <<>>
    BY <1>3, <2>1
  <2> HIDE DEF B
  <2>3. k \in Seq(C) /\ IsPrefix(k, B) /\ k # <<>> /\ (~HasSuffix(k, Slash) => k = B)
    BY <2>2, FirstPartIs
  <2>4. k \in keys
    BY <1>2, <2>1, <2>3 DEF B
  <2> HIDE DEF k
  <2>5. CASE ~HasSuffix(k, Slash)
    <3>1. k = B
      BY <2>3, <2>5
    <3>2. HasPrefix(root \o r.path, prefix) /\ checkPath(root \o r.path, FALSE)
      BY <2>1 DEF Wants
    <3>3. root \o r.path = root \o dir \o k
      BY <2>2, <3>1
    <3>4. k \in Files(store, m, prefix, dir)
      BY <2>4, <2>5, <3>2, <3>3 DEF Files
    <3> QED
      BY <3>3, <3>4
  <2>6. CASE HasSuffix(k, Slash)
    <3> DEFINE sub == dir \o k
    <3>1. sub \in Seq(C) /\ Len(sub) = Len(dir) + Len(k) /\ \A i \in 1 .. Len(k) : sub[Len(dir) + i] = k[i]
      BY <2>3, Joined
    <3>2. IsPrefix(sub, r.path)
      BY <2>2, <2>3, PrefixBehind
    <3>3. r.path # sub
      <4>1. r.path[Len(r.path)] # "/"
        BY <2>1 DEF RecordsOK, RecordOK
      <4>2. k[Len(k)] = "/" /\ Len(k) \in Nat /\ Len(k) # 0 /\ Len(dir) \in Nat
        BY <2>3, <2>6, EndsInSlash
      <4>3. Len(k) \in 1 .. Len(k)
        BY <4>2
      <4>4. sub[Len(sub)] = "/"
        BY <3>1, <4>2, <4>3
      <4> QED
        BY <4>1, <4>4
    <3>4. overlaps(root \o dir \o k, prefix)
      <4>1. (root \o dir) \o k = root \o sub
        BY <1>1, <2>3, JoinedAgain
      <4>2. root \o sub \in Seq(C) /\ root \o r.path \in Seq(C)
        BY <1>1, <2>2, <3>1, Joined
      <4>3. IsPrefix(root \o sub, root \o r.path)
        BY <1>1, <2>2, <3>1, <3>2, PrefixBehind
      <4>4. IsPrefix(prefix, root \o r.path)
        BY <2>1 DEF Wants, HasPrefix
      <4> HIDE DEF sub
      <4>5. IsPrefix(prefix, root \o sub) \/ IsPrefix(root \o sub, prefix)
        BY <4>2, <4>3, <4>4, PrefixesMeet
      <4> QED
        BY <4>1, <4>5 DEF overlaps, HasPrefix
    <3>5. k \in Entered(store, m, prefix, dir)
      BY <2>4, <2>6, <3>4 DEF Entered
    <3>6. r \in Below(store, m, prefix, sub)
      BY <2>1, <3>2, <3>3 DEF Below
    <3> QED
      BY <3>5, <3>6
  <2> QED
    BY <2>5, <2>6
<1>5. ASSUME NEW k \in Files(store, m, prefix, dir)
      PROVE  \E r \in Below(store, m, prefix, dir) : root \o r.path = root \o dir \o k
  <2>1. k \in keys /\ ~HasSuffix(k, Slash) /\ HasPrefix(root \o dir \o k, prefix) /\ checkPath(root \o dir \o k, FALSE)
    BY DEF Files
  <2>2. PICK r \in store : r.mount = m /\ IsPrefix(dir, r.path) /\ k = FirstPart(Behind(r.path, dir)) /\ k # <<>>
    BY <1>2, <2>1
  <2> DEFINE B == Behind(r.path, dir)
  <2>3. /\ r.path \in Seq(C) /\ B \in Seq(C) /\ r.path = dir \o B
        /\ root \o r.path = root \o dir \o B /\ (r.path # dir <=> B # <<>>)
    BY <1>3, <2>2
  <2>4. k = FirstPart(B)
    BY <2>2
  <2> HIDE DEF B
  <2>5. k = B
    BY <2>1, <2>3, <2>4, FirstPartIs
  <2>6. root \o r.path = root \o dir \o k /\ r.path # dir
    BY <2>2, <2>3, <2>5
  <2>7. Wants(m, prefix, r.path)
    BY <2>1, <2>6 DEF Wants
  <2>8. r \in Below(store, m, prefix, dir)
    BY <2>2, <2>6, <2>7 DEF Below
  <2> QED
    BY <2>6, <2>8
<1>6. ASSUME NEW k \in Entered(store, m, prefix, dir), NEW r \in Below(store, m, prefix, dir \o k)
      PROVE  r \in Below(store, m, prefix, dir)
  <2>1. k \in Seq(C) /\ k # <<>> /\ dir \o k \in Seq(C) /\ Len(dir \o k) > Len(dir)
    BY EnteredAre
  <2>2. r \in store /\ r.mount = m /\ IsPrefix(dir \o k, r.path) /\ Wants(m, prefix, r.path)
    BY <1>6 DEF Below
  <2>3. r.path \in Seq(C)
    BY <2>2 DEF RecordsOK, RecordOK
  <2>4. IsPrefix(dir, dir \o k)
    BY <2>1, PrefixJoined
  <2>5. IsPrefix(dir, r.path)
    BY <2>1, <2>2, <2>3, <2>4, PrefixOfPrefix
  <2>6. Begins(dir \o k, r.path)
    BY <2>1, <2>2, <2>3, PrefixBegins
  <2>7. Len(r.path) # Len(dir)
    <3>1. Len(r.path) \in Nat /\ Len(dir) \in Nat /\ Len(dir \o k) \in Nat
      BY <2>1, <2>3
    <3> QED
      BY <2>1, <2>6, <3>1 DEF Begins
  <2>8. r.path # dir
    BY <2>7
  <2> QED
    BY <2>2, <2>5, <2>8 DEF Below
<1>7. \A d, y : y \in Reached(store, m, prefix, d) <=> \E r \in Below(store, m, prefix, d) : y = root \o r.path
  BY DEF Reached
<1> HIDE DEF root, keys
<1> DEFINE Either(y) == \/ \E k \in Files(store, m, prefix, dir) : y = root \o dir \o k
                        \/ \E k \in Entered(store, m, prefix, dir) : y \in Reached(store, m, prefix, dir \o k)
<1>8. ASSUME NEW y \in Reached(store, m, prefix, dir) PROVE Either(y)
  <2>1. PICK r \in Below(store, m, prefix, dir) : y = root \o r.path
    BY <1>7
  <2>2. CASE \E k \in Files(store, m, prefix, dir) : root \o r.path = root \o dir \o k
    BY <2>1, <2>2
  <2>3. CASE \E k \in Entered(store, m, prefix, dir) : r \in Below(store, m, prefix, dir \o k)
    <3>1. PICK k \in Entered(store, m, prefix, dir) : r \in Below(store, m, prefix, dir \o k)
      BY <2>3
    <3>2. y \in Reached(store, m, prefix, dir \o k)
      BY <1>7, <2>1, <3>1
    <3> QED
      BY <3>2
  <2> QED
    BY <1>4, <2>2, <2>3
<1>9. ASSUME NEW y, Either(y) PROVE y \in Reached(store, m, prefix, dir)
  <2>1. CASE \E k \in Files(store, m, prefix, dir) : y = root \o dir \o k
    BY <1>5, <1>7, <2>1
  <2>2. CASE \E k \in Entered(store, m, prefix, dir) : y \in Reached(store, m, prefix, dir \o k)
    <3>1. PICK k \in Entered(store, m, prefix, dir) : y \in Reached(store, m, prefix, dir \o k)
      BY <2>2
    <3>2. PICK r \in Below(store, m, prefix, dir \o k) : y = root \o r.path
      BY <1>7, <3>1
    <3>3. r \in Below(store, m, prefix, dir)
      BY <1>6
    <3> QED
      BY <1>7, <3>2, <3>3
  <2> QED
    BY <1>9, <2>1, <2>2
<1>10. \A y : y \in Reached(store, m, prefix, dir) <=> Either(y)
  BY <1>8, <1>9
<1> QED
  BY <1>10 DEF root

\* walk reads the records of the mount that start with the prefix and that a location can
\* name, whatever folders they are in.  (What Visit makes of the records below each folder
\* is the records below it, so walk's recursion has a solution; and no other, because the
\* folders it enters are longer, and none longer than a record's path.)
LEMMA WalkIs ==
  ASSUME NEW C, Letters(C), NEW m, MountOK(C, m), NEW store, RecordsOK(C, store), NEW prefix \in Seq(C),
         NEW L \in Nat, \A r \in store : Len(r.path) <= L
  PROVE  walk(store, m, prefix) = Reached(store, m, prefix, <<>>)
<1> DEFINE D == Dirs(store)
           In(d) == Reached(store, m, prefix, d)
           Into(d) == Entered(store, m, prefix, d)
           V(f, d) == Visit(store, m, prefix, f, d)
           P(f) == f = [dir \in D |-> V(f, dir)]
           it == CHOOSE f : P(f)
<1>1. <<>> \in D /\ \A r \in store : Prefixes(r.path) \subseteq D
  BY DEF Dirs
<1>2. ASSUME NEW d \in D PROVE d \in Seq(C) /\ Len(d) \in Nat /\ Len(d) <= L
  <2>1. CASE d = <<>>
    BY <2>1
  <2>2. CASE d # <<>>
    <3>1. PICK r \in store : d \in Prefixes(r.path)
      BY <2>2 DEF Dirs
    <3>2. r.path \in Seq(C) /\ Len(r.path) \in Nat /\ Len(r.path) <= L
      BY DEF RecordsOK, RecordOK
    <3>3. PICK k \in 0 .. Len(r.path) : d = SubSeq(r.path, 1, k)
      BY <3>1 DEF Prefixes
    <3>4. d \in Seq(C) /\ Len(d) = k
      BY <3>2, <3>3, Cut
    <3> QED
      BY <3>2, <3>4
  <2> QED
    BY <2>1, <2>2
<1>3. ASSUME NEW d \in D, NEW k \in Into(d) PROVE d \o k \in D /\ Len(d \o k) > Len(d)
  <2>1. d \o k \in Seq(C) /\ Len(d \o k) > Len(d) /\ \E r \in store : IsPrefix(d \o k, r.path)
    BY <1>2, EnteredAre
  <2>2. PICK r \in store : IsPrefix(d \o k, r.path)
    BY <2>1
  <2> DEFINE x == d \o k
  <2> HIDE DEF x
  <2>3. x \in Seq(C) /\ IsPrefix(x, r.path) /\ r.path \in Seq(C)
    BY <2>1, <2>2 DEF x, RecordsOK, RecordOK
  <2>4. Begins(x, r.path) /\ Len(x) \in Nat /\ Len(r.path) \in Nat
    BY <2>3, PrefixBegins
  <2>5. Len(x) \in 0 .. Len(r.path)
    BY <2>4 DEF Begins
  <2>6. x = SubSeq(r.path, 1, Len(x))
    <3> DEFINE y == SubSeq(r.path, 1, Len(x))
    <3>1. y \in Seq(C) /\ Len(y) = Len(x) /\ \A i \in 1 .. Len(x) : y[i] = r.path[i]
      BY <2>3, <2>5, Cut
    <3> HIDE DEF y
    <3>2. x = y
      BY <2>3, <2>4, <3>1, SeqEqual, SMTT(30) DEF Begins
    <3> QED
      BY <3>2 DEF y
  <2>7. x \in Prefixes(r.path)
    BY <2>5, <2>6 DEF Prefixes
  <2> QED
    BY <1>1, <2>1, <2>7 DEF x
<1> HIDE DEF D
<1>4. ASSUME NEW f, NEW d \in D, \A k \in Into(d) : f[d \o k] = In(d \o k)
      PROVE  V(f, d) = In(d)
  <2>1. \A y : y \in V(f, d) <=>
                 \/ \E k \in Files(store, m, prefix, d) : y = dataRoot(m) \o d \o k
                 \/ \E k \in Into(d) : y \in f[d \o k]
    BY VisitIs
  <2>2. \A y : y \in In(d) <=>
                 \/ \E k \in Files(store, m, prefix, d) : y = dataRoot(m) \o d \o k
                 \/ \E k \in Into(d) : y \in In(d \o k)
    BY <1>2, BelowInTurn
  <2> HIDE DEF V, In, Into
  <2>3. \A y : y \in V(f, d) <=> y \in In(d)
    BY <1>4, <2>1, <2>2, Zenon
  <2>4. V(f, d) = {y \in V(f, d) : TRUE} /\ In(d) = {y \in In(d) : TRUE}
    OBVIOUS
  <2> QED
    BY <2>3, <2>4
<1> HIDE DEF V, In, Into
<1>5. P([dir \in D |-> In(dir)])
  <2> DEFINE S == [dir \in D |-> In(dir)]
  <2>1. ASSUME NEW d \in D PROVE V(S, d) = In(d)
    <3>1. \A k \in Into(d) : S[d \o k] = In(d \o k)
      BY <1>3
    <3> HIDE DEF S
    <3> QED
      BY <1>4, <3>1
  <2>2. S = [dir \in D |-> V(S, dir)]
    BY <2>1
  <2> QED
    BY <2>2
<1>6. P(it)
  <2> HIDE DEF P
  <2> QED
    BY <1>5
<1>7. walk(store, m, prefix) = it[<<>>]
  BY DEF walk, Visit, V, D
<1> HIDE DEF it
<1>8. \A d \in D : it[d] = V(it, d)
  BY <1>6
<1> DEFINE T == {n \in Nat : \E d \in D : Len(d) + n = L /\ it[d] # In(d)}
<1>9. T = {}
  <2> SUFFICES ASSUME T # {} PROVE FALSE
    OBVIOUS
  <2>1. PICK n \in T : \A y \in T : n <= y
    <3>1. T \subseteq Nat
      OBVIOUS
    <3> HIDE DEF T
    <3> QED
      BY <3>1, LeastMember
  <2>2. PICK d \in D : n \in Nat /\ Len(d) + n = L /\ it[d] # In(d)
    BY <2>1
  <2>3. ASSUME NEW k \in Into(d) PROVE it[d \o k] = In(d \o k)
    <3> DEFINE e == d \o k
    <3> HIDE DEF e
    <3>1. e \in D /\ Len(e) > Len(d)
      BY <1>3 DEF e
    <3>2. Len(e) \in Nat /\ Len(d) \in Nat /\ Len(e) <= L
      BY <1>2, <3>1
    <3>3. L - Len(e) \in Nat /\ Len(e) + (L - Len(e)) = L /\ ~(n <= L - Len(e))
      BY <2>2, <3>1, <3>2
    <3>4. L - Len(e) \notin T
      BY <2>1, <3>3
    <3>5. it[e] = In(e)
      BY <3>1, <3>3, <3>4
    <3> QED
      BY <3>5 DEF e
  <2>4. V(it, d) = In(d)
    BY <1>4, <2>3
  <2> QED
    BY <1>8, <2>2, <2>4
<1>10. it[<<>>] = In(<<>>)
  <2>1. L \in Nat /\ Len(<<>>) + L = L
    OBVIOUS
  <2> QED
    BY <1>1, <1>9, <2>1
<1> QED
  BY <1>7, <1>10 DEF In

-----------------------------------------------------------------------------
\* A path, or the beginning of a location that ends before its field.
NoHash(s) == \A i \in 1 .. Len(s) : s[i] # "#"

\* The sequence u is a followed by c.
IsJoined(u, a, c) ==
  /\ Len(u) = Len(a) + Len(c)
  /\ \A i \in 1 .. Len(a) : u[i] = a[i]
  /\ \A i \in 1 .. Len(c) : u[Len(a) + i] = c[i]

\* Joined, for citing.
LEMMA JoinedIs ==
  ASSUME NEW C, NEW a \in Seq(C), NEW c \in Seq(C)
  PROVE  a \o c \in Seq(C) /\ IsJoined(a \o c, a, c)
  BY Joined DEF IsJoined

\* A location, character by character.
IsLocation(l, path, f) ==
  /\ Len(l) = Len(path) + 1 + Len(f)
  /\ \A i \in 1 .. Len(path) : l[i] = path[i]
  /\ l[Len(path) + 1] = "#"
  /\ \A i \in 1 .. Len(f) : l[Len(path) + 1 + i] = f[i]

\* Location is that.
LEMMA LocationAt ==
  ASSUME NEW C, Letters(C), NEW path \in Seq(C), NEW f \in Seq(C)
  PROVE  /\ path \o <<"#">> \in Seq(C) /\ Location(path, f) = (path \o <<"#">>) \o f
         /\ Location(path, f) \in Seq(C) /\ IsLocation(Location(path, f), path, f)
<1> DEFINE h == <<"#">>
           a == path \o h
<1>1. h \in Seq(C) /\ Len(h) = 1 /\ h[1] = "#" /\ 1 \in 1 .. Len(h)
  BY DEF Letters
<1> HIDE DEF h
<1>2. a \in Seq(C) /\ IsJoined(a, path, h)
  BY <1>1, JoinedIs
<1>3. a[Len(path) + 1] = "#" /\ Len(a) = Len(path) + 1
  BY <1>1, <1>2 DEF IsJoined
<1> HIDE DEF a
<1>4. a \o f \in Seq(C) /\ IsJoined(a \o f, a, f)
  BY <1>2, JoinedIs
<1>5. Location(path, f) = a \o f
  BY DEF Location, a, h
<1>6. Len(path) \in Nat /\ Len(path) + 1 \in 1 .. Len(a) /\ \A i \in 1 .. Len(path) : i \in 1 .. Len(a)
  BY <1>3
<1>7. \A i \in 1 .. Len(path) : (a \o f)[i] = path[i]
  BY <1>2, <1>4, <1>6 DEF IsJoined
<1>8. (a \o f)[Len(path) + 1] = "#"
  BY <1>3, <1>4, <1>6 DEF IsJoined
<1>9. IsLocation(a \o f, path, f)
  BY <1>3, <1>4, <1>7, <1>8 DEF IsLocation, IsJoined
<1> QED
  BY <1>2, <1>4, <1>5, <1>9 DEF a, h

\* A beginning without "#" is one of the location's path.
LEMMA PathBegins ==
  ASSUME NEW C, Letters(C), NEW path \in Seq(C), NEW f \in Seq(C), NEW p \in Seq(C), NoHash(p)
  PROVE  IsPrefix(p, Location(path, f)) <=> IsPrefix(p, path)
<1> DEFINE l == Location(path, f)
<1>0. l \in Seq(C) /\ IsLocation(l, path, f)
  BY LocationAt
<1>1. /\ l \in Seq(C) /\ Len(l) = Len(path) + 1 + Len(f) /\ \A i \in 1 .. Len(path) : l[i] = path[i]
      /\ l[Len(path) + 1] = "#"
  BY <1>0, Zenon DEF IsLocation
<1>2. Len(path) \in Nat /\ Len(f) \in Nat /\ Len(p) \in Nat
  OBVIOUS
<1> HIDE DEF l
<1>3. ASSUME Begins(p, l) PROVE Begins(p, path)
  <2>1. Len(p) <= Len(path)
    <3> SUFFICES ASSUME Len(path) + 1 <= Len(p) PROVE FALSE
      BY <1>2
    <3>1. Len(path) + 1 \in 1 .. Len(p)
      BY <1>2
    <3> QED
      BY <1>1, <1>3, <3>1 DEF Begins, NoHash
  <2> QED
    BY <1>1, <1>2, <1>3, <2>1 DEF Begins
<1>4. ASSUME Begins(p, path) PROVE Begins(p, l)
  BY <1>1, <1>2, <1>4 DEF Begins
<1> QED
  BY <1>1, <1>3, <1>4, PrefixBegins DEF l

\* A beginning with the path and a part of the field.
LEMMA FieldBegins ==
  ASSUME NEW C, Letters(C), NEW path \in Seq(C), NEW f \in Seq(C), NEW q \in Seq(C), NEW g \in Seq(C),
         NoHash(path), NoHash(q)
  PROVE  IsPrefix(Location(q, g), Location(path, f)) <=> q = path /\ IsPrefix(g, f)
<1> DEFINE l == Location(path, f)
           k == Location(q, g)
<1>0. /\ l \in Seq(C) /\ path \o <<"#">> \in Seq(C) /\ l = (path \o <<"#">>) \o f /\ IsLocation(l, path, f)
      /\ k \in Seq(C) /\ k = (q \o <<"#">>) \o g /\ IsLocation(k, q, g)
  BY LocationAt
<1>1. /\ Len(l) = Len(path) + 1 + Len(f) /\ \A i \in 1 .. Len(path) : l[i] = path[i]
      /\ l[Len(path) + 1] = "#"
  BY <1>0, Zenon DEF IsLocation
<1>2. /\ Len(k) = Len(q) + 1 + Len(g) /\ \A i \in 1 .. Len(q) : k[i] = q[i]
      /\ k[Len(q) + 1] = "#"
  BY <1>0, Zenon DEF IsLocation
<1>3. Len(path) \in Nat /\ Len(f) \in Nat /\ Len(q) \in Nat /\ Len(g) \in Nat
  OBVIOUS
<1> HIDE DEF l, k
<1>4. ASSUME Begins(k, l) PROVE q = path
  <2>1. ~(Len(q) < Len(path))
    <3> SUFFICES ASSUME Len(q) < Len(path) PROVE FALSE
      OBVIOUS
    <3>1. Len(q) + 1 \in 1 .. Len(k) /\ Len(q) + 1 \in 1 .. Len(path)
      BY <1>2, <1>3
    <3> QED
      BY <1>1, <1>2, <1>4, <3>1 DEF Begins, NoHash
  <2>2. ~(Len(path) < Len(q))
    <3> SUFFICES ASSUME Len(path) < Len(q) PROVE FALSE
      OBVIOUS
    <3>1. Len(path) + 1 \in 1 .. Len(k) /\ Len(path) + 1 \in 1 .. Len(q)
      BY <1>2, <1>3
    <3> QED
      BY <1>1, <1>2, <1>4, <3>1 DEF Begins, NoHash
  <2>3. Len(q) = Len(path)
    BY <1>3, <2>1, <2>2
  <2>4. ASSUME NEW i \in 1 .. Len(q) PROVE q[i] = path[i]
    <3>1. i \in 1 .. Len(k) /\ i \in 1 .. Len(path)
      BY <1>2, <1>3, <2>3
    <3> QED
      BY <1>1, <1>2, <1>4, <3>1 DEF Begins
  <2> QED
    BY <2>3, <2>4, SeqEqual
<1>5. q = path => (IsPrefix(k, l) <=> IsPrefix(g, f))
  <2> SUFFICES ASSUME q = path PROVE IsPrefix(k, l) <=> IsPrefix(g, f)
    OBVIOUS
  <2> DEFINE x == path \o <<"#">>
  <2>1. x \in Seq(C) /\ l = x \o f /\ k = x \o g
    BY <1>0
  <2> HIDE DEF x
  <2> QED
    BY <2>1, PrefixBehind
<1> QED
  BY <1>0, <1>4, <1>5, PrefixBegins DEF l, k

-----------------------------------------------------------------------------
\* List cuts its prefix at the first "#".
Hashes(p) == {i \in DOMAIN p : p[i] = "#"}
CutAt(p) == IF Hashes(p) # {} THEN CHOOSE i \in Hashes(p) : \A j \in Hashes(p) : i <= j ELSE Len(p) + 1
PathPart(p) == SubSeq(p, 1, CutAt(p) - 1)
FieldPart(p) == SubSeq(p, CutAt(p) + 1, Len(p))

\* The two parts of the prefix.
LEMMA PartsOfPrefix ==
  ASSUME NEW C, Letters(C), NEW p \in Seq(C)
  PROVE  /\ PathPart(p) \in Seq(C) /\ FieldPart(p) \in Seq(C) /\ NoHash(PathPart(p))
         /\ Hashes(p) = {} => PathPart(p) = p /\ FieldPart(p) = <<>>
         /\ Hashes(p) # {} => p = Location(PathPart(p), FieldPart(p))
<1>1. Len(p) \in Nat /\ DOMAIN p = 1 .. Len(p)
  OBVIOUS
<1>2. CASE Hashes(p) = {}
  <2>1. CutAt(p) = Len(p) + 1
    BY <1>2 DEF CutAt
  <2>2. PathPart(p) = SubSeq(p, 1, Len(p)) /\ FieldPart(p) = SubSeq(p, Len(p) + 2, Len(p))
    <3>1. Len(p) + 1 - 1 = Len(p) /\ Len(p) + 1 + 1 = Len(p) + 2
      BY <1>1
    <3> QED
      BY <2>1, <3>1 DEF PathPart, FieldPart
  <2>3. SubSeq(p, 1, Len(p)) = p
    <3> DEFINE y == SubSeq(p, 1, Len(p))
    <3>1. Len(p) \in 0 .. Len(p)
      BY <1>1
    <3>2. y \in Seq(C) /\ Len(y) = Len(p) /\ \A i \in 1 .. Len(p) : y[i] = p[i]
      BY <3>1, Cut
    <3> HIDE DEF y
    <3>3. y = p
      BY <3>2, SeqEqual
    <3> QED
      BY <3>3 DEF y
  <2>4. SubSeq(p, Len(p) + 2, Len(p)) = <<>>
    BY <1>1
  <2>5. <<>> \in Seq(C)
    OBVIOUS
  <2>6. NoHash(p)
    BY <1>1, <1>2 DEF Hashes, NoHash
  <2> QED
    BY <1>2, <2>2, <2>3, <2>4, <2>5, <2>6
<1>3. CASE Hashes(p) # {}
  <2> DEFINE c == CutAt(p)
             d == c - 1
             q == SubSeq(p, 1, d)
             g == SubSeq(p, c + 1, Len(p))
  <2>1. c \in Hashes(p) /\ \A j \in Hashes(p) : c <= j
    <3>1. Hashes(p) \subseteq Nat
      BY <1>1 DEF Hashes
    <3>2. \E x \in Hashes(p) : \A j \in Hashes(p) : x <= j
      BY <1>3, <3>1, LeastMember
    <3> QED
      BY <1>3, <3>2 DEF CutAt
  <2>2. PathPart(p) = q /\ FieldPart(p) = g
    BY DEF PathPart, FieldPart
  <2> HIDE DEF c
  <2>3. c \in 1 .. Len(p) /\ p[c] = "#"
    BY <1>1, <2>1 DEF Hashes
  <2>4. d \in 0 .. Len(p) /\ c \in 0 .. Len(p) /\ d + 1 = c /\ d \in Nat
    BY <1>1, <2>3
  <2> HIDE DEF d
  <2>5. q \in Seq(C) /\ Len(q) = d /\ \A i \in 1 .. d : q[i] = p[i]
    BY <2>4, Cut
  <2>6. g \in Seq(C) /\ Len(g) = Len(p) - c /\ \A i \in 1 .. Len(p) - c : g[i] = p[c + i]
    BY <2>4, Cut
  <2> HIDE DEF q, g
  <2>7. NoHash(q)
    <3> SUFFICES ASSUME NEW i \in 1 .. d, p[i] = "#" PROVE FALSE
      BY <2>5 DEF NoHash
    <3>1. i \in DOMAIN p /\ ~(c <= i)
      BY <1>1, <2>3, <2>4
    <3> QED
      BY <2>1, <3>1 DEF Hashes
  <2>8. p = Location(q, g)
    <3> DEFINE l == Location(q, g)
    <3>1. l \in Seq(C) /\ IsLocation(l, q, g)
      BY <2>5, <2>6, LocationAt
    <3> HIDE DEF l
    <3>2. /\ Len(l) = Len(q) + 1 + Len(g) /\ \A i \in 1 .. Len(q) : l[i] = q[i]
          /\ l[Len(q) + 1] = "#" /\ \A i \in 1 .. Len(g) : l[Len(q) + 1 + i] = g[i]
      BY <3>1, Zenon DEF IsLocation
    <3>3. Len(q) + 1 = c /\ Len(l) = Len(p)
      <4>1. Len(q) + 1 = c
        BY <2>4, <2>5
      <4>2. Len(p) \in Nat /\ c \in Nat /\ Len(g) = Len(p) - c /\ Len(l) = Len(q) + 1 + Len(g)
        BY <1>1, <2>4, <2>6, <3>2
      <4>3. Len(l) = c + Len(g)
        BY <4>1, <4>2
      <4> QED
        BY <4>1, <4>2, <4>3
    <3>4. \A i \in 1 .. Len(g) : l[c + i] = g[i]
      BY <3>2, <3>3
    <3>5. ASSUME NEW i \in 1 .. Len(p) PROVE l[i] = p[i]
      <4>1. CASE i \in 1 .. d
        BY <2>5, <3>2, <4>1
      <4>2. CASE i = c
        BY <2>3, <3>2, <3>3, <4>2
      <4>3. CASE i \in c + 1 .. Len(p)
        <5> DEFINE j == i - c
        <5>1. j \in 1 .. Len(g) /\ c + j = i
          BY <1>1, <2>3, <2>6, <4>3
        <5> HIDE DEF j
        <5>2. l[c + j] = g[j] /\ g[j] = p[c + j]
          BY <2>6, <3>4, <5>1
        <5> QED
          BY <5>1, <5>2
      <4> QED
        BY <2>3, <2>4, <4>1, <4>2, <4>3
    <3>6. l = p
      BY <3>1, <3>3, <3>5, SeqEqual
    <3> QED
      BY <3>6 DEF l
  <2> QED
    BY <1>3, <2>2, <2>5, <2>6, <2>7, <2>8
<1> QED
  BY <1>2, <1>3

\* The beginnings of a path that a location can name pass the check as prefixes.
LEMMA CheckedBeginning ==
  ASSUME NEW C, NEW path \in Seq(C), checkPath(path, FALSE), NEW p \in Seq(C), IsPrefix(p, path)
  PROVE  checkPath(p, TRUE) /\ NoHash(path)
<1>1. Begins(p, path) /\ Len(p) \in Nat /\ Len(path) \in Nat /\ DOMAIN p = 1 .. Len(p) /\ DOMAIN path = 1 .. Len(path)
  BY PrefixBegins
<1>2. /\ path # <<>> => path[1] # "/"
      /\ \A i \in 1 .. Len(path) - 1 : ~(path[i] = "/" /\ path[i + 1] = "/")
      /\ \A i \in 1 .. Len(path) : path[i] \notin {"#", "?"}
  BY <1>1 DEF checkPath
<1>3. NoHash(path)
  BY <1>2 DEF NoHash
<1>4. ASSUME p # <<>> PROVE Head(p) # "/"
  <2>1. 1 \in 1 .. Len(p) /\ 1 \in 1 .. Len(path) /\ Head(p) = p[1]
    BY <1>1, <1>4 DEF Begins
  <2>2. path # <<>> /\ p[1] = path[1]
    BY <1>1, <2>1 DEF Begins
  <2> QED
    BY <1>2, <2>1, <2>2
<1>5. ASSUME NEW i \in 1 .. Len(p) - 1 PROVE ~(p[i] = "/" /\ p[i + 1] = "/")
  <2>1. i \in 1 .. Len(p) /\ i + 1 \in 1 .. Len(p) /\ i \in 1 .. Len(path) - 1
    BY <1>1 DEF Begins
  <2>2. p[i] = path[i] /\ p[i + 1] = path[i + 1]
    BY <1>1, <2>1 DEF Begins
  <2> QED
    BY <1>2, <2>1, <2>2
<1>6. \A i \in DOMAIN p : p[i] \notin {"#", "?"}
  <2>1. \A i \in 1 .. Len(p) : i \in 1 .. Len(path)
    BY <1>1 DEF Begins
  <2> QED
    BY <1>1, <1>2, <2>1 DEF Begins
<1> QED
  BY <1>3, <1>4, <1>5, <1>6 DEF checkPath

\* The image of a finite set.
LEMMA FiniteImage ==
  ASSUME NEW S, IsFiniteSet(S), NEW f, DOMAIN f = S, f = [x \in S |-> f[x]]
  PROVE  IsFiniteSet({f[x] : x \in S}) /\ Cardinality({f[x] : x \in S}) <= Cardinality(S)
<1> DEFINE T == {f[x] : x \in S}
<1>1. f \in [S -> T]
  OBVIOUS
<1>2. f \in Surjection(S, T)
  BY <1>1 DEF Surjection
<1> HIDE DEF T
<1>3. IsFiniteSet(T) /\ Cardinality(T) <= Cardinality(S)
  BY <1>2, FS_Surjection, Zenon
<1> QED
  BY <1>3 DEF T

\* The paths of the records of a store have a greatest length.
LEMMA LongestPath ==
  ASSUME NEW C, NEW store, IsFiniteSet(store), RecordsOK(C, store)
  PROVE  \E L \in Nat : \A r \in store : Len(r.path) <= L
<1>1. \A r \in store : Len(r.path) \in Nat
  BY DEF RecordsOK, RecordOK
<1> DEFINE n == Cardinality(store)
<1>2. n \in Nat /\ ExistsBijection(1 .. n, store)
  BY FS_CardinalityType
<1> HIDE DEF n
<1>3. PICK f : f \in [1 .. n -> store] /\ \A r \in store : \E i \in 1 .. n : f[i] = r
  BY <1>2 DEF ExistsBijection, Bijection, Surjection, Injection
<1> DEFINE T == {k \in 0 .. n : \E L \in Nat : \A i \in 1 .. k : Len(f[i].path) <= L}
<1>4. 0 \in T
  <2>1. 0 \in 0 .. n /\ \A i \in 1 .. 0 : Len(f[i].path) <= 0
    BY <1>2
  <2> QED
    BY <2>1
<1>5. ASSUME NEW k \in 0 .. n - 1, k \in T PROVE k + 1 \in T
  <2>1. PICK L \in Nat : \A i \in 1 .. k : Len(f[i].path) <= L
    BY <1>5
  <2> DEFINE j == Len(f[k + 1].path)
             M == IF j <= L THEN L ELSE j
  <2>2. k + 1 \in 1 .. n
    BY <1>2
  <2>3. j \in Nat /\ \A i \in 1 .. n : Len(f[i].path) \in Nat
    BY <1>1, <1>3, <2>2
  <2>4. \A i \in 1 .. k + 1 : i \in 1 .. n /\ (i \in 1 .. k \/ i = k + 1)
    BY <1>2
  <2>5. M \in Nat /\ L <= M /\ j <= M
    BY <2>3
  <2> HIDE DEF M
  <2>6. ASSUME NEW i \in 1 .. k + 1 PROVE Len(f[i].path) <= M
    BY <2>1, <2>3, <2>4, <2>5
  <2>7. k + 1 \in 0 .. n
    BY <1>2
  <2>8. \E K \in Nat : \A i \in 1 .. k + 1 : Len(f[i].path) <= K
    BY <2>5, <2>6
  <2> QED
    BY <2>7, <2>8
<1>6. n \in T
  <2> HIDE DEF T
  <2>1. \A i \in 0 .. n : i \in T
    BY <1>2, <1>4, <1>5, Climb
  <2> QED
    BY <1>2, <2>1
<1>7. PICK L \in Nat : \A i \in 1 .. n : Len(f[i].path) <= L
  BY <1>6
<1> QED
  BY <1>3, <1>7

\* The mounts of an OpenBao, none inside another, and what it stores on them.
MountsOK(C, mounts) ==
  /\ \A m \in mounts : MountOK(C, m)
  /\ \A m, n \in mounts : IsPrefix(m.path, n.path) => m = n

StoreOK(C, store, mounts) == IsFiniteSet(store) /\ RecordsOK(C, store) /\ \A r \in store : r.mount \in mounts

\* The API path of a record.
Api(r) == dataRoot(r.mount) \o r.path

\* It begins with the path of the record's mount.
LEMMA ApiBegins ==
  ASSUME NEW C, Letters(C), NEW mounts, MountsOK(C, mounts), NEW store, StoreOK(C, store, mounts), NEW r \in store
  PROVE  /\ Api(r) \in Seq(C) /\ r.mount \in mounts /\ MountOK(C, r.mount) /\ dataRoot(r.mount) \in Seq(C)
         /\ IsPrefix(r.mount.path, Api(r)) /\ IsPrefix(dataRoot(r.mount), Api(r))
<1>1. r.mount \in mounts /\ MountOK(C, r.mount) /\ r.path \in Seq(C)
  BY DEF StoreOK, RecordsOK, RecordOK, MountsOK
<1>2. dataRoot(r.mount) \in Seq(C) /\ IsPrefix(r.mount.path, dataRoot(r.mount)) /\ r.mount.path \in Seq(C)
  BY <1>1, RootsAre DEF MountOK
<1>3. Api(r) \in Seq(C) /\ IsPrefix(dataRoot(r.mount), Api(r))
  BY <1>1, <1>2, PrefixJoined DEF Api
<1>4. IsPrefix(r.mount.path, Api(r))
  BY <1>2, <1>3, PrefixOfPrefix
<1> QED
  BY <1>1, <1>2, <1>3, <1>4

\* A path lies on one mount.
LEMMA OneMount ==
  ASSUME NEW C, NEW mounts, MountsOK(C, mounts), NEW m \in mounts, NEW n \in mounts, NEW a \in Seq(C),
         IsPrefix(m.path, a), IsPrefix(n.path, a)
  PROVE  m = n
<1>1. m.path \in Seq(C) /\ n.path \in Seq(C)
  BY DEF MountsOK, MountOK
<1>2. IsPrefix(m.path, n.path) \/ IsPrefix(n.path, m.path)
  BY <1>1, PrefixesMeet
<1> QED
  BY <1>2 DEF MountsOK

\* A mount's path that begins the prefix with its slash begins the prefix, or is that.
LEMMA PrefixOfSlashed ==
  ASSUME NEW C, "/" \in C, NEW u \in Seq(C), NEW p \in Seq(C)
  PROVE  IsPrefix(u, p \o Slash) <=> IsPrefix(u, p) \/ u = p \o Slash
<1> DEFINE v == p \o Slash
<1>1. Slash \in Seq(C) /\ Len(Slash) = 1
  BY DEF Slash
<1>2. v \in Seq(C) /\ Len(v) = Len(p) + 1 /\ \A i \in 1 .. Len(p) : v[i] = p[i]
  <2>1. v \in Seq(C) /\ IsJoined(v, p, Slash)
    BY <1>1, JoinedIs
  <2> HIDE DEF v
  <2> QED
    BY <1>1, <2>1 DEF IsJoined
<1>3. IsPrefix(p, v)
  BY <1>1, PrefixJoined
<1> HIDE DEF v
<1>4. Len(u) \in Nat /\ Len(p) \in Nat
  OBVIOUS
<1>5. ASSUME IsPrefix(u, v) PROVE IsPrefix(u, p) \/ u = v
  <2>1. Begins(u, v)
    BY <1>2, <1>5, PrefixBegins
  <2>2. CASE Len(u) <= Len(p)
    <3>1. \A i \in 1 .. Len(u) : i \in 1 .. Len(p) /\ u[i] = v[i]
      BY <1>4, <2>1, <2>2 DEF Begins
    <3>2. Begins(u, p)
      BY <1>2, <2>2, <3>1 DEF Begins
    <3> QED
      BY <3>2, PrefixBegins
  <2>3. CASE Len(u) > Len(p)
    <3>1. Len(u) = Len(v)
      BY <1>2, <1>4, <2>1, <2>3 DEF Begins
    <3>2. \A i \in 1 .. Len(u) : u[i] = v[i]
      BY <2>1 DEF Begins
    <3> QED
      BY <1>2, <3>1, <3>2, SeqEqual
  <2> QED
    BY <1>4, <2>2, <2>3
<1>6. ASSUME IsPrefix(u, p) PROVE IsPrefix(u, v)
  BY <1>2, <1>3, <1>6, PrefixOfPrefix
<1>7. IsPrefix(v, v)
  <2>1. Begins(v, v)
    BY <1>2, <1>4 DEF Begins
  <2> QED
    BY <1>2, <2>1, PrefixBegins
<1>8. IsPrefix(u, v) <=> IsPrefix(u, p) \/ u = v
  BY <1>5, <1>6, <1>7
<1> QED
  BY <1>8 DEF v

\* The mounts List looks at, case by case.
LEMMA MountsOfIs ==
  ASSUME NEW mounts, NEW p, NEW failing
  PROVE  /\ p = <<>> => mountsOf(mounts, p, failing) = mounts
         /\ p # <<>> /\ mountFor(mounts, p, failing) # {} => mountsOf(mounts, p, failing) = mountFor(mounts, p, failing)
         /\ p # <<>> /\ mountFor(mounts, p, failing) = {} => mountsOf(mounts, p, failing) = {m \in mounts : HasPrefix(m.path, p)}
<1>1. ASSUME p = <<>> PROVE mountsOf(mounts, p, failing) = mounts
  BY <1>1 DEF mountsOf
<1>2. ASSUME p # <<>>, mountFor(mounts, p, failing) # {} PROVE mountsOf(mounts, p, failing) = mountFor(mounts, p, failing)
  BY <1>2 DEF mountsOf
<1>3. ASSUME p # <<>>, mountFor(mounts, p, failing) = {} PROVE mountsOf(mounts, p, failing) = {m \in mounts : HasPrefix(m.path, p)}
  BY <1>3 DEF mountsOf
<1> QED
  BY <1>1, <1>2, <1>3

\* List looks at the mount of a path that begins with its prefix, unless the prefix is
\* another mount's path but for the slash.
LEMMA MountChosen ==
  ASSUME NEW C, Letters(C), NEW mounts, MountsOK(C, mounts), NEW m \in mounts, NEW a \in Seq(C), IsPrefix(m.path, a),
         NEW p \in Seq(C), IsPrefix(p, a), NEW failing, "mountFor" \notin failing
  PROVE  m \in mountsOf(mounts, p, failing) <=> \A n \in mounts : n.path = p \o Slash => IsPrefix(n.path, a)
<1>1. "/" \in C /\ \A n \in mounts : MountOK(C, n) /\ n.path \in Seq(C)
  BY DEF Letters, MountsOK, MountOK
<1>2. \A n \in mounts : n \in mountFor(mounts, p, failing) <=> IsPrefix(n.path, p) \/ n.path = p \o Slash
  <2> SUFFICES ASSUME NEW n \in mounts
               PROVE  n \in mountFor(mounts, p, failing) <=> IsPrefix(n.path, p) \/ n.path = p \o Slash
    OBVIOUS
  <2>1. IsPrefix(n.path, p \o Slash) <=> IsPrefix(n.path, p) \/ n.path = p \o Slash
    BY <1>1, PrefixOfSlashed
  <2> QED
    BY <2>1 DEF mountFor, HasPrefix
<1>3. \A n \in mounts : IsPrefix(n.path, a) => n = m
  BY OneMount
<1>4. \A n \in mounts : IsPrefix(n.path, p) => n = m
  <2> SUFFICES ASSUME NEW n \in mounts, IsPrefix(n.path, p) PROVE n = m
    OBVIOUS
  <2>1. IsPrefix(n.path, a)
    BY <1>1, PrefixOfPrefix
  <2> QED
    BY <1>3, <2>1
<1>5. IsPrefix(p, m.path) \/ IsPrefix(m.path, p)
  BY <1>1, PrefixesMeet
<1>6. CASE p = <<>>
  <2>1. ASSUME NEW n \in mounts, n.path = p \o Slash PROVE FALSE
    <3>1. n.path = <<"/">>
      BY <1>6, <2>1 DEF Slash
    <3> QED
      BY <1>1, <3>1 DEF MountOK
  <2> QED
    BY <1>6, <2>1, MountsOfIs
<1>7. CASE p # <<>>
  <2>1. ASSUME m \in mountsOf(mounts, p, failing), NEW n \in mounts, n.path = p \o Slash PROVE IsPrefix(n.path, a)
    <3>1. n \in mountFor(mounts, p, failing)
      BY <1>2, <2>1
    <3>2. m \in mountFor(mounts, p, failing)
      BY <1>7, <2>1, <3>1, MountsOfIs
    <3>3. IsPrefix(m.path, n.path)
      BY <2>1, <3>2 DEF mountFor, HasPrefix
    <3>4. m = n
      BY <3>3 DEF MountsOK
    <3> QED
      BY <3>4
  <2>2. ASSUME \A n \in mounts : n.path = p \o Slash => IsPrefix(n.path, a) PROVE m \in mountsOf(mounts, p, failing)
    <3>1. CASE mountFor(mounts, p, failing) = {}
      <4>1. ~IsPrefix(m.path, p)
        BY <1>2, <3>1
      <4> QED
        BY <1>5, <1>7, <3>1, <4>1, MountsOfIs DEF HasPrefix
    <3>2. CASE mountFor(mounts, p, failing) # {}
      <4>1. PICK n \in mounts : n \in mountFor(mounts, p, failing)
        BY <3>2 DEF mountFor
      <4>2. n = m
        BY <1>2, <1>3, <1>4, <2>2, <4>1
      <4> QED
        BY <1>7, <3>2, <4>1, <4>2, MountsOfIs
    <3> QED
      BY <3>1, <3>2
  <2> QED
    BY <2>1, <2>2
<1> QED
  BY <1>6, <1>7

\* What List reads, and what it finds there.
ReadOn(store, m, p) ==
  IF Hashes(p) # {}
  THEN IF HasPrefix(PathPart(p), dataRoot(m)) THEN {<<m, PathPart(p)>>} ELSE {}
  ELSE IF overlaps(dataRoot(m), PathPart(p)) THEN {<<m, q>> : q \in walk(store, m, PathPart(p))} ELSE {}

ListReads(store, mounts, p, failing) == UNION {ReadOn(store, m, p) : m \in mountsOf(mounts, PathPart(p), failing)}

ListFinds(store, mounts, p, failing) ==
  UNION {emit(r[2], readRecord(store, r[1], r[2]), FieldPart(p)) : r \in ListReads(store, mounts, p, failing)}

\* Every call that List makes is answered.
Answered(mounts, p, failing) ==
  LET q == PathPart(p)
      entered == {m \in mountsOf(mounts, q, failing) :
                    IF Hashes(p) # {} THEN HasPrefix(q, dataRoot(m)) ELSE overlaps(dataRoot(m), q)}
  IN  /\ "kvMounts" \in failing => ~asksMounts(mounts, q, failing)
      /\ "records" \in failing => entered = {}

\* List in these terms.
LEMMA ListInTurn ==
  ASSUME NEW store, NEW mounts, NEW p, NEW failing
  PROVE  List(store, mounts, p, failing) =
           IF /\ checkPath(PathPart(p), TRUE) /\ Answered(mounts, p, failing)
              /\ Cardinality(ListReads(store, mounts, p, failing)) <= maxListReads
              /\ Cardinality(ListFinds(store, mounts, p, failing)) <= maxLocations
           THEN [ok |-> TRUE, locations |-> ListFinds(store, mounts, p, failing)] ELSE Refused
<1> DEFINE q == PathPart(p)
           entered == {m \in mountsOf(mounts, q, failing) :
                         IF Hashes(p) # {} THEN HasPrefix(q, dataRoot(m)) ELSE overlaps(dataRoot(m), q)}
           On(m) == IF Hashes(p) # {} THEN {<<m, q>>} ELSE {<<m, y>> : y \in walk(store, m, q)}
           reads == UNION {On(m) : m \in entered}
           finds == UNION {emit(r[2], readRecord(store, r[1], r[2]), FieldPart(p)) : r \in reads}
<1>1. List(store, mounts, p, failing) =
        IF /\ checkPath(q, TRUE)
           /\ "kvMounts" \in failing => ~asksMounts(mounts, q, failing)
           /\ "records" \in failing => entered = {}
           /\ Cardinality(reads) <= maxListReads /\ Cardinality(finds) <= maxLocations
        THEN [ok |-> TRUE, locations |-> finds] ELSE Refused
  BY DEF List, PathPart, FieldPart, CutAt, Hashes
<1>2. \A m : ReadOn(store, m, p) =
               IF IF Hashes(p) # {} THEN HasPrefix(q, dataRoot(m)) ELSE overlaps(dataRoot(m), q)
               THEN On(m) ELSE {}
  BY DEF ReadOn
<1>3. reads = ListReads(store, mounts, p, failing)
  <2>1. \A x : x \in reads <=> \E m \in entered : x \in On(m)
    <3> HIDE DEF entered, On
    <3> QED
      OBVIOUS
  <2>2. \A m : m \in entered <=>
                 /\ m \in mountsOf(mounts, q, failing)
                 /\ IF Hashes(p) # {} THEN HasPrefix(q, dataRoot(m)) ELSE overlaps(dataRoot(m), q)
    OBVIOUS
  <2>3. \A x : x \in ListReads(store, mounts, p, failing) <=>
                 \E m \in mountsOf(mounts, q, failing) : x \in ReadOn(store, m, p)
    BY DEF ListReads
  <2> HIDE DEF entered, On, reads, q
  <2> QED
    BY <1>2, <2>1, <2>2, <2>3
<1>4. finds = ListFinds(store, mounts, p, failing)
  BY <1>3 DEF ListFinds
<1>5. Answered(mounts, p, failing) <=>
        /\ "kvMounts" \in failing => ~asksMounts(mounts, q, failing)
        /\ "records" \in failing => entered = {}
  BY DEF Answered
<1> HIDE DEF reads, finds, entered, q
<1> QED
  BY <1>1, <1>3, <1>4, <1>5 DEF q

\* The record r is one that List is to read for p.
ToRead(mounts, p, r, failing) ==
  /\ checkPath(Api(r), FALSE) /\ r.mount \in mountsOf(mounts, PathPart(p), failing)
  /\ IF Hashes(p) # {} THEN Api(r) = PathPart(p) ELSE IsPrefix(p, Api(r))

\* The prefix p begins a location of the store.
BeginsOne(store, p) ==
  \E r \in store : checkPath(Api(r), FALSE) /\ \E f \in r.fields : IsPrefix(p, Location(Api(r), f))

\* How the parts of the prefix begin the location of a field.
LEMMA PartsBegin ==
  ASSUME NEW C, Letters(C), NEW p \in Seq(C), NEW path \in Seq(C), NoHash(path), NEW f \in Seq(C)
  PROVE  IsPrefix(p, Location(path, f)) <=>
           /\ IF Hashes(p) # {} THEN path = PathPart(p) ELSE IsPrefix(p, path)
           /\ IsPrefix(FieldPart(p), f)
<1>1. /\ PathPart(p) \in Seq(C) /\ FieldPart(p) \in Seq(C) /\ NoHash(PathPart(p))
      /\ Hashes(p) = {} => PathPart(p) = p /\ FieldPart(p) = <<>>
      /\ Hashes(p) # {} => p = Location(PathPart(p), FieldPart(p))
  BY PartsOfPrefix
<1>2. CASE Hashes(p) # {}
  <2>1. IsPrefix(Location(PathPart(p), FieldPart(p)), Location(path, f)) <=> PathPart(p) = path /\ IsPrefix(FieldPart(p), f)
    BY <1>1, FieldBegins
  <2> QED
    BY <1>1, <1>2, <2>1
<1>3. CASE Hashes(p) = {}
  <2>1. IsPrefix(p, Location(path, f)) <=> IsPrefix(p, path)
    BY <1>1, <1>3, PathBegins
  <2>2. Begins(<<>>, f) /\ <<>> \in Seq(C)
    BY DEF Begins
  <2>3. IsPrefix(<<>>, f)
    BY <2>2, PrefixBegins
  <2> QED
    BY <1>1, <1>3, <2>1, <2>3
<1> QED
  BY <1>2, <1>3

\* List reads the records that it is to read, and nothing else.
LEMMA ReadsAre ==
  ASSUME NEW C, Letters(C), NEW mounts, MountsOK(C, mounts), NEW store, StoreOK(C, store, mounts),
         NEW p \in Seq(C), BeginsOne(store, p), NEW failing
  PROVE  \A x : x \in ListReads(store, mounts, p, failing) <=> \E r \in store : x = <<r.mount, Api(r)>> /\ ToRead(mounts, p, r, failing)
<1> DEFINE q == PathPart(p)
<1>1. /\ q \in Seq(C) /\ FieldPart(p) \in Seq(C) /\ NoHash(q)
      /\ Hashes(p) = {} => q = p
  BY PartsOfPrefix
<1>2. PICK r0 \in store : checkPath(Api(r0), FALSE) /\ \E f \in r0.fields : IsPrefix(p, Location(Api(r0), f))
  BY DEF BeginsOne
<1>3. PICK f0 \in r0.fields : IsPrefix(p, Location(Api(r0), f0))
  BY <1>2
<1>4. f0 \in Seq(C) /\ Api(r0) \in Seq(C)
  BY <1>2, <1>3, ApiBegins DEF StoreOK, RecordsOK, RecordOK
<1>5. NoHash(Api(r0))
  <2>1. Begins(Api(r0), Api(r0))
    BY <1>4 DEF Begins
  <2>2. IsPrefix(Api(r0), Api(r0))
    BY <1>4, <2>1, PrefixBegins
  <2> QED
    BY <1>2, <1>4, <2>2, CheckedBeginning
<1>6. Hashes(p) # {} => Api(r0) = q
  BY <1>3, <1>4, <1>5, PartsBegin
<1>7. mountsOf(mounts, q, failing) \subseteq mounts
  BY MountsOfIs DEF mountFor
<1>8. \A x : x \in ListReads(store, mounts, p, failing) <=> \E m \in mountsOf(mounts, q, failing) : x \in ReadOn(store, m, p)
  BY DEF ListReads
<1> HIDE DEF q
<1>9. CASE Hashes(p) # {}
  <2>1. \A m, x : x \in ReadOn(store, m, p) <=> IsPrefix(dataRoot(m), q) /\ x = <<m, q>>
    BY <1>9 DEF ReadOn, HasPrefix, q
  <2>2. ASSUME NEW m \in mountsOf(mounts, q, failing), IsPrefix(dataRoot(m), q) PROVE m = r0.mount
    <3>1. m \in mounts /\ MountOK(C, m) /\ m.path \in Seq(C)
      BY <1>7 DEF MountsOK, MountOK
    <3>2. dataRoot(m) \in Seq(C) /\ IsPrefix(m.path, dataRoot(m))
      BY <3>1, RootsAre
    <3>3. IsPrefix(m.path, q)
      BY <1>1, <2>2, <3>1, <3>2, PrefixOfPrefix
    <3>4. r0.mount \in mounts /\ IsPrefix(r0.mount.path, q)
      BY <1>6, <1>9, ApiBegins
    <3> QED
      BY <1>1, <3>1, <3>3, <3>4, OneMount
  <2>3. ASSUME NEW x, NEW m \in mountsOf(mounts, q, failing), x \in ReadOn(store, m, p)
        PROVE  \E r \in store : x = <<r.mount, Api(r)>> /\ ToRead(mounts, p, r, failing)
    <3>1. m = r0.mount /\ x = <<m, q>>
      BY <2>1, <2>2, <2>3
    <3>2. x = <<r0.mount, Api(r0)>> /\ ToRead(mounts, p, r0, failing)
      BY <1>2, <1>6, <1>9, <2>3, <3>1 DEF ToRead, q
    <3> QED
      BY <3>2
  <2>4. ASSUME NEW x, NEW r \in store, x = <<r.mount, Api(r)>>, ToRead(mounts, p, r, failing)
        PROVE  r.mount \in mountsOf(mounts, q, failing) /\ x \in ReadOn(store, r.mount, p)
    <3>1. Api(r) = q /\ r.mount \in mountsOf(mounts, q, failing)
      BY <1>9, <2>4 DEF ToRead, q
    <3>2. IsPrefix(dataRoot(r.mount), Api(r))
      BY ApiBegins
    <3> QED
      BY <2>1, <2>4, <3>1, <3>2
  <2> QED
    BY <1>8, <2>3, <2>4, Zenon
<1>10. CASE Hashes(p) = {}
  <2>1. q = p
    BY <1>1, <1>10
  <2>2. PICK L \in Nat : \A r \in store : Len(r.path) <= L
    BY LongestPath DEF StoreOK
  <2>3. ASSUME NEW m \in mounts
        PROVE  \A x : x \in ReadOn(store, m, p) <=>
                        \E r \in store : x = <<r.mount, Api(r)>> /\ r.mount = m /\ IsPrefix(p, Api(r)) /\ checkPath(Api(r), FALSE)
    <3>1. MountOK(C, m) /\ RecordsOK(C, store)
      BY DEF MountsOK, StoreOK
    <3>2. walk(store, m, p) = Reached(store, m, p, <<>>)
      BY <2>2, <3>1, WalkIs
    <3>3. \A r \in store : IsPrefix(<<>>, r.path) /\ r.path # <<>>
      <4> SUFFICES ASSUME NEW r \in store PROVE IsPrefix(<<>>, r.path) /\ r.path # <<>>
        OBVIOUS
      <4>1. r.path \in Seq(C) /\ r.path # <<>>
        BY <3>1 DEF RecordsOK, RecordOK
      <4>2. Begins(<<>>, r.path) /\ <<>> \in Seq(C)
        BY <4>1 DEF Begins
      <4> QED
        BY <4>1, <4>2, PrefixBegins
    <3>4. \A r : r \in Below(store, m, p, <<>>) <=>
                   r \in store /\ r.mount = m /\ IsPrefix(p, Api(r)) /\ checkPath(Api(r), FALSE)
      BY <3>3 DEF Below, Wants, HasPrefix, Api
    <3>5. \A y : y \in walk(store, m, p) <=> \E r \in Below(store, m, p, <<>>) : y = Api(r)
      <4>1. \A r \in Below(store, m, p, <<>>) : dataRoot(m) \o r.path = Api(r)
        BY <3>4 DEF Api
      <4> HIDE DEF Below
      <4> QED
        BY <3>2, <4>1 DEF Reached
    <3>6. ASSUME NEW r \in Below(store, m, p, <<>>) PROVE overlaps(dataRoot(m), q)
      <4>1. r \in store /\ r.mount = m /\ IsPrefix(p, Api(r))
        BY <3>4
      <4>2. dataRoot(m) \in Seq(C) /\ Api(r) \in Seq(C) /\ IsPrefix(dataRoot(m), Api(r))
        BY <4>1, ApiBegins
      <4>3. IsPrefix(dataRoot(m), p) \/ IsPrefix(p, dataRoot(m))
        BY <4>1, <4>2, PrefixesMeet
      <4> QED
        BY <2>1, <4>3 DEF overlaps, HasPrefix
    <3>7. \A x : x \in ReadOn(store, m, p) <=>
                   overlaps(dataRoot(m), q) /\ \E y \in walk(store, m, p) : x = <<m, y>>
      BY <1>10, <2>1 DEF ReadOn, q
    <3>8. \A x : x \in ReadOn(store, m, p) <=> \E r \in Below(store, m, p, <<>>) : x = <<m, Api(r)>>
      BY <3>5, <3>6, <3>7
    <3> QED
      BY <3>4, <3>8
  <2>4. \A r \in store : ToRead(mounts, p, r, failing) <=>
          checkPath(Api(r), FALSE) /\ r.mount \in mountsOf(mounts, q, failing) /\ IsPrefix(p, Api(r))
    BY <1>10 DEF ToRead, q
  <2>5. ASSUME NEW x
        PROVE  x \in ListReads(store, mounts, p, failing) <=> \E r \in store : x = <<r.mount, Api(r)>> /\ ToRead(mounts, p, r, failing)
    <3>1. ASSUME x \in ListReads(store, mounts, p, failing)
          PROVE  \E r \in store : x = <<r.mount, Api(r)>> /\ ToRead(mounts, p, r, failing)
      <4>1. PICK m \in mountsOf(mounts, q, failing) : x \in ReadOn(store, m, p)
        BY <1>8, <3>1
      <4>2. m \in mounts
        BY <1>7
      <4>3. PICK r \in store : x = <<r.mount, Api(r)>> /\ r.mount = m /\ IsPrefix(p, Api(r)) /\ checkPath(Api(r), FALSE)
        BY <2>3, <4>1, <4>2
      <4> QED
        BY <2>4, <4>3
    <3>2. ASSUME NEW r \in store, x = <<r.mount, Api(r)>>, ToRead(mounts, p, r, failing)
          PROVE  x \in ListReads(store, mounts, p, failing)
      <4>1. checkPath(Api(r), FALSE) /\ r.mount \in mountsOf(mounts, q, failing) /\ IsPrefix(p, Api(r))
        BY <2>4, <3>2
      <4>2. x \in ReadOn(store, r.mount, p)
        BY <1>7, <2>3, <3>2, <4>1
      <4> QED
        BY <1>8, <4>1, <4>2
    <3> QED
      BY <3>1, <3>2
  <2> QED
    BY <2>5
<1> QED
  BY <1>9, <1>10

\* List finds the fields of the records it reads that begin with its field part.
LEMMA FindsAre ==
  ASSUME NEW C, Letters(C), NEW mounts, MountsOK(C, mounts), NEW store, StoreOK(C, store, mounts),
         NEW p \in Seq(C), BeginsOne(store, p), NEW failing
  PROVE  \A y : y \in ListFinds(store, mounts, p, failing) <=>
                  \E r \in store : \E f \in r.fields :
                    ToRead(mounts, p, r, failing) /\ IsPrefix(FieldPart(p), f) /\ y = Location(Api(r), f)
<1> DEFINE reads == ListReads(store, mounts, p, failing)
           g == FieldPart(p)
<1>1. \A x : x \in reads <=> \E r \in store : x = <<r.mount, Api(r)>> /\ ToRead(mounts, p, r, failing)
  BY ReadsAre
<1>2. \A r, t \in store : r.mount = t.mount /\ Api(r) = Api(t) /\ ToRead(mounts, p, t, failing) => ToRead(mounts, p, r, failing)
  BY DEF ToRead
<1>3. \A y : y \in ListFinds(store, mounts, p, failing) <=> \E x \in reads : y \in emit(x[2], readRecord(store, x[1], x[2]), g)
  BY DEF ListFinds
<1>4. \A x, y : y \in emit(x[2], readRecord(store, x[1], x[2]), g) <=>
                  \E f \in readRecord(store, x[1], x[2]) : IsPrefix(g, f) /\ y = Location(x[2], f)
  BY DEF emit, HasPrefix
<1>5. \A x, f : f \in readRecord(store, x[1], x[2]) <=>
                  \E r \in store : r.mount = x[1] /\ Api(r) = x[2] /\ f \in r.fields
  <2> SUFFICES ASSUME NEW x, NEW f
               PROVE  f \in readRecord(store, x[1], x[2]) <=>
                        \E r \in store : r.mount = x[1] /\ Api(r) = x[2] /\ f \in r.fields
    OBVIOUS
  <2>1. f \in readRecord(store, x[1], x[2]) <=>
          \E r \in store : r.mount = x[1] /\ dataRoot(x[1]) \o r.path = x[2] /\ f \in r.fields
    BY DEF readRecord
  <2> QED
    BY <2>1 DEF Api
<1> HIDE DEF reads, g
<1>6. ASSUME NEW y, y \in ListFinds(store, mounts, p, failing)
      PROVE  \E r \in store : \E f \in r.fields :
               ToRead(mounts, p, r, failing) /\ IsPrefix(g, f) /\ y = Location(Api(r), f)
  <2>1. PICK x \in reads : y \in emit(x[2], readRecord(store, x[1], x[2]), g)
    BY <1>3, <1>6
  <2>2. PICK f \in readRecord(store, x[1], x[2]) : IsPrefix(g, f) /\ y = Location(x[2], f)
    BY <1>4, <2>1
  <2>3. PICK r \in store : r.mount = x[1] /\ Api(r) = x[2] /\ f \in r.fields
    BY <1>5, <2>2
  <2>4. PICK t \in store : x = <<t.mount, Api(t)>> /\ ToRead(mounts, p, t, failing)
    BY <1>1, <2>1
  <2>5. ToRead(mounts, p, r, failing)
    BY <1>2, <2>3, <2>4
  <2> QED
    BY <2>2, <2>3, <2>5
<1>7. ASSUME NEW y, NEW r \in store, NEW f \in r.fields,
             ToRead(mounts, p, r, failing), IsPrefix(g, f), y = Location(Api(r), f)
      PROVE  y \in ListFinds(store, mounts, p, failing)
  <2> DEFINE x == <<r.mount, Api(r)>>
  <2>1. x \in reads /\ x[1] = r.mount /\ x[2] = Api(r)
    BY <1>1, <1>7
  <2> HIDE DEF x
  <2>2. f \in readRecord(store, x[1], x[2])
    BY <1>5, <2>1
  <2>3. y \in emit(x[2], readRecord(store, x[1], x[2]), g)
    BY <1>4, <1>7, <2>1, <2>2
  <2> QED
    BY <1>3, <2>1, <2>3
<1>8. ASSUME NEW y
      PROVE  y \in ListFinds(store, mounts, p, failing) <=>
               \E r \in store : \E f \in r.fields :
                 ToRead(mounts, p, r, failing) /\ IsPrefix(g, f) /\ y = Location(Api(r), f)
  BY <1>6, <1>7
<1> QED
  BY <1>8 DEF g

\* The location of a field begins with p and is on the mounts that p selects exactly when
\* its record is to be read and the field begins as p's field part.
LEMMA WantedRecord ==
  ASSUME NEW C, Letters(C), NEW mounts, MountsOK(C, mounts), NEW store, StoreOK(C, store, mounts),
         NEW p \in Seq(C), NEW r \in store, NEW f \in r.fields, NEW failing, "mountFor" \notin failing
  PROVE  LET l == Location(Api(r), f)
         IN  ToRead(mounts, p, r, failing) /\ IsPrefix(FieldPart(p), f) <=>
               /\ checkPath(Api(r), FALSE) /\ IsPrefix(p, l)
               /\ \A m \in mounts : m.path = p \o Slash => IsPrefix(m.path, l)
<1> DEFINE a == Api(r)
           l == Location(Api(r), f)
           Only == \A m \in mounts : m.path = p \o Slash => IsPrefix(m.path, l)
<1>1. /\ a \in Seq(C) /\ r.mount \in mounts /\ IsPrefix(r.mount.path, a) /\ f \in Seq(C)
      /\ \A m \in mounts : MountOK(C, m) /\ m.path \in Seq(C)
  BY ApiBegins DEF StoreOK, RecordsOK, RecordOK, MountsOK, MountOK
<1>2. IsPrefix(a, a)
  <2>1. Begins(a, a)
    BY <1>1 DEF Begins
  <2> QED
    BY <1>1, <2>1, PrefixBegins
<1> SUFFICES ASSUME checkPath(a, FALSE)
             PROVE  ToRead(mounts, p, r, failing) /\ IsPrefix(FieldPart(p), f) <=> IsPrefix(p, l) /\ Only
  BY DEF ToRead
<1>3. NoHash(a)
  BY <1>1, <1>2, CheckedBeginning
<1>4. IsPrefix(p, l) <=> (IF Hashes(p) # {} THEN a = PathPart(p) ELSE IsPrefix(p, a)) /\ IsPrefix(FieldPart(p), f)
  BY <1>1, <1>3, PartsBegin
<1>5. \A m \in mounts : NoHash(m.path) /\ (IsPrefix(m.path, l) <=> IsPrefix(m.path, a))
  <2> SUFFICES ASSUME NEW m \in mounts PROVE NoHash(m.path) /\ (IsPrefix(m.path, l) <=> IsPrefix(m.path, a))
    OBVIOUS
  <2>1. NoHash(m.path)
    BY <1>1 DEF MountOK, NoHash
  <2> QED
    BY <1>1, <2>1, PathBegins
<1>6. ASSUME IsPrefix(p, l) PROVE r.mount \in mountsOf(mounts, PathPart(p), failing) <=> Only
  <2>1. CASE Hashes(p) # {}
    <3>1. a = PathPart(p)
      BY <1>4, <1>6, <2>1
    <3>2. ASSUME NEW n \in mounts, n.path = a \o Slash PROVE IsPrefix(n.path, a)
      <4>1. IsPrefix(a, n.path)
        <5>1. Slash \in Seq(C)
          BY DEF Slash, Letters
        <5> QED
          BY <1>1, <3>2, <5>1, PrefixJoined
      <4>2. IsPrefix(r.mount.path, n.path)
        BY <1>1, <4>1, PrefixOfPrefix
      <4>3. r.mount = n
        BY <1>1, <4>2 DEF MountsOK
      <4> QED
        BY <1>1, <4>3
    <3>3. r.mount \in mountsOf(mounts, a, failing)
      BY <1>1, <1>2, <3>2, MountChosen
    <3>4. ASSUME NEW m \in mounts, m.path = p \o Slash PROVE FALSE
      <4>1. PICK i \in 1 .. Len(p) : p[i] = "#"
        BY <2>1 DEF Hashes
      <4>2. Slash \in Seq(C)
        BY DEF Slash, Letters
      <4>3. IsJoined(m.path, p, Slash)
        BY <3>4, <4>2, JoinedIs
      <4>4. i \in 1 .. Len(m.path) /\ m.path[i] = "#"
        BY <4>1, <4>2, <4>3 DEF IsJoined
      <4> QED
        BY <1>5, <4>4 DEF NoHash
    <3> QED
      BY <3>1, <3>3, <3>4
  <2>2. CASE Hashes(p) = {}
    <3>1. IsPrefix(p, a)
      BY <1>4, <1>6, <2>2
    <3>2. r.mount \in mountsOf(mounts, p, failing) <=> \A n \in mounts : n.path = p \o Slash => IsPrefix(n.path, a)
      BY <1>1, <3>1, MountChosen
    <3>3. PathPart(p) = p
      BY <2>2, PartsOfPrefix
    <3> QED
      BY <1>5, <3>2, <3>3
  <2> QED
    BY <2>1, <2>2
<1> QED
  BY <1>4, <1>6 DEF ToRead

\* The location y is on a mount whose path begins with p.
OnBeneath(mounts, p, y) == \E m \in mounts : IsPrefix(p, m.path) /\ IsPrefix(m.path, y)

\* The same when the lookup of p's mount fails.
LEMMA BeneathRecord ==
  ASSUME NEW C, Letters(C), NEW mounts, MountsOK(C, mounts), NEW store, StoreOK(C, store, mounts),
         NEW p \in Seq(C), NEW r \in store, NEW f \in r.fields, NEW failing, "mountFor" \in failing
  PROVE  ToRead(mounts, p, r, failing) /\ IsPrefix(FieldPart(p), f) <=>
           /\ checkPath(Api(r), FALSE) /\ IsPrefix(p, Location(Api(r), f))
           /\ OnBeneath(mounts, p, Location(Api(r), f))
<1> DEFINE a == Api(r)
           q == PathPart(p)
           l == Location(Api(r), f)
           Some == \E m \in mounts : IsPrefix(p, m.path) /\ IsPrefix(m.path, l)
<1>1. /\ a \in Seq(C) /\ r.mount \in mounts /\ IsPrefix(r.mount.path, a) /\ f \in Seq(C)
      /\ dataRoot(r.mount) \in Seq(C) /\ r.path \in Seq(C) /\ r.path # <<>>
      /\ \A m \in mounts : MountOK(C, m) /\ m.path \in Seq(C)
  BY ApiBegins DEF StoreOK, RecordsOK, RecordOK, MountsOK, MountOK
<1>2. IsPrefix(a, a)
  <2>1. Begins(a, a)
    BY <1>1 DEF Begins
  <2> QED
    BY <1>1, <2>1, PrefixBegins
<1> SUFFICES ASSUME checkPath(a, FALSE)
             PROVE  ToRead(mounts, p, r, failing) /\ IsPrefix(FieldPart(p), f) <=> IsPrefix(p, l) /\ Some
  BY DEF ToRead, OnBeneath
<1>3. NoHash(a)
  BY <1>1, <1>2, CheckedBeginning
<1>4. IsPrefix(p, l) <=> (IF Hashes(p) # {} THEN a = q ELSE IsPrefix(p, a)) /\ IsPrefix(FieldPart(p), f)
  BY <1>1, <1>3, PartsBegin
<1>5. \A m \in mounts : NoHash(m.path) /\ (IsPrefix(m.path, l) <=> IsPrefix(m.path, a))
  <2> SUFFICES ASSUME NEW m \in mounts PROVE NoHash(m.path) /\ (IsPrefix(m.path, l) <=> IsPrefix(m.path, a))
    OBVIOUS
  <2>1. NoHash(m.path)
    BY <1>1 DEF MountOK, NoHash
  <2> QED
    BY <1>1, <2>1, PathBegins
<1>6. q \in Seq(C) /\ (Hashes(p) = {} => q = p)
  BY PartsOfPrefix
<1>7. r.mount \in mountsOf(mounts, q, failing) <=> IsPrefix(q, r.mount.path)
  <2>1. mountFor(mounts, q, failing) = {}
    BY DEF mountFor
  <2>2. CASE q = <<>>
    <3>1. Begins(<<>>, r.mount.path) /\ <<>> \in Seq(C) /\ r.mount.path \in Seq(C)
      BY <1>1 DEF Begins
    <3>2. IsPrefix(q, r.mount.path)
      BY <2>2, <3>1, PrefixBegins
    <3> QED
      BY <1>1, <2>2, <3>2, MountsOfIs
  <2>3. CASE q # <<>>
    <3>1. mountsOf(mounts, q, failing) = {m \in mounts : HasPrefix(m.path, q)}
      BY <2>1, <2>3, MountsOfIs
    <3> QED
      BY <1>1, <3>1 DEF HasPrefix
  <2> QED
    BY <2>2, <2>3
<1>8. ASSUME IsPrefix(p, l) PROVE r.mount \in mountsOf(mounts, q, failing) <=> Some
  <2>1. CASE Hashes(p) # {}
    <3>1. a = q
      BY <1>4, <1>8, <2>1
    <3>2. ~IsPrefix(a, r.mount.path)
      <4>1. IsPrefix(r.mount.path, dataRoot(r.mount)) /\ r.mount.path \in Seq(C)
        BY <1>1, RootsAre
      <4>2. Len(r.mount.path) <= Len(dataRoot(r.mount))
        BY <1>1, <4>1, PrefixBegins DEF Begins
      <4>3. IsJoined(a, dataRoot(r.mount), r.path)
        BY <1>1, JoinedIs DEF Api
      <4>4. Len(r.path) > 0 /\ Len(a) = Len(dataRoot(r.mount)) + Len(r.path)
        BY <1>1, <4>3 DEF IsJoined
      <4>5. Len(a) > Len(r.mount.path)
        <5>1. Len(a) \in Nat /\ Len(r.mount.path) \in Nat /\ Len(dataRoot(r.mount)) \in Nat /\ Len(r.path) \in Nat
          BY <1>1, <4>1
        <5>2. \A x, y, z, w \in Nat : x <= y /\ w > 0 /\ z = y + w => z > x
          OBVIOUS
        <5> HIDE DEF a
        <5> QED
          BY <4>2, <4>4, <5>1, <5>2
      <4>6. ~Begins(a, r.mount.path)
        <5>1. Len(a) \in Nat /\ Len(r.mount.path) \in Nat
          BY <1>1, <4>1
        <5> QED
          BY <4>5, <5>1 DEF Begins
      <4> QED
        BY <1>1, <4>1, <4>6, PrefixBegins
    <3>3. ASSUME NEW m \in mounts, IsPrefix(p, m.path) PROVE FALSE
      <4>1. PICK i \in 1 .. Len(p) : p[i] = "#"
        BY <2>1 DEF Hashes
      <4>2. m.path \in Seq(C) /\ NoHash(m.path)
        BY <1>1, <1>5
      <4>3. Begins(p, m.path)
        BY <3>3, <4>2, PrefixBegins
      <4>4. i \in 1 .. Len(m.path) /\ m.path[i] = "#"
        <5>1. Len(p) \in Nat /\ Len(m.path) \in Nat
          BY <4>2
        <5> QED
          BY <4>1, <4>3, <5>1 DEF Begins
      <4> QED
        BY <4>2, <4>4 DEF NoHash
    <3> QED
      BY <1>7, <3>1, <3>2, <3>3
  <2>2. CASE Hashes(p) = {}
    <3>1. \A m \in mounts : IsPrefix(m.path, a) => m = r.mount
      BY <1>1, OneMount
    <3>2. IsPrefix(r.mount.path, l)
      BY <1>1, <1>5
    <3> QED
      BY <1>1, <1>5, <1>6, <1>7, <2>2, <3>1, <3>2
  <2> QED
    BY <2>1, <2>2
<1> HIDE DEF Some
<1> QED
  BY <1>4, <1>8 DEF ToRead

\* The locations of a store, record by record, and how they begin.
LEMMA LocationsAre ==
  ASSUME NEW C, Letters(C), NEW mounts, MountsOK(C, mounts), NEW store, StoreOK(C, store, mounts)
  PROVE  /\ \A y : y \in Locations(store) <=>
                     \E r \in store : \E f \in r.fields : checkPath(Api(r), FALSE) /\ y = Location(Api(r), f)
         /\ IsFiniteSet(Locations(store))
         /\ \A p \in Beginnings(store) : p \in Seq(C) /\ BeginsOne(store, p)
<1> DEFINE S == {r \in store : checkPath(Api(r), FALSE)}
           Of(r) == {Location(Api(r), f) : f \in r.fields}
           F == [r \in S |-> Of(r)]
<1>1. Locations(store) = UNION {Of(r) : r \in S}
  BY DEF Locations, Api
<1>2. \A y : y \in Locations(store) <=>
               \E r \in store : \E f \in r.fields : checkPath(Api(r), FALSE) /\ y = Location(Api(r), f)
  <2>1. \A y : y \in Locations(store) <=> \E r \in S : y \in Of(r)
    <3> HIDE DEF S, Of
    <3> QED
      BY <1>1
  <2>2. \A r, y : y \in Of(r) <=> \E f \in r.fields : y = Location(Api(r), f)
    OBVIOUS
  <2>3. \A r : r \in S <=> r \in store /\ checkPath(Api(r), FALSE)
    OBVIOUS
  <2> HIDE DEF Of, S
  <2>4. ASSUME NEW y, y \in Locations(store)
        PROVE  \E r \in store : \E f \in r.fields : checkPath(Api(r), FALSE) /\ y = Location(Api(r), f)
    <3>1. PICK r \in S : y \in Of(r)
      BY <2>1, <2>4
    <3>2. PICK f \in r.fields : y = Location(Api(r), f)
      BY <2>2, <3>1
    <3> QED
      BY <2>3, <3>2
  <2>5. ASSUME NEW y, NEW r \in store, NEW f \in r.fields, checkPath(Api(r), FALSE), y = Location(Api(r), f)
        PROVE  y \in Locations(store)
    <3>1. r \in S /\ y \in Of(r)
      BY <2>2, <2>3, <2>5
    <3> QED
      BY <2>1, <3>1
  <2>6. ASSUME NEW y
        PROVE  y \in Locations(store) <=>
                 \E r \in store : \E f \in r.fields : checkPath(Api(r), FALSE) /\ y = Location(Api(r), f)
    BY <2>4, <2>5
  <2> QED
    BY <2>6
<1>3. IsFiniteSet(S)
  <2>1. S \in SUBSET store /\ IsFiniteSet(store)
    BY DEF StoreOK
  <2> HIDE DEF S
  <2> QED
    BY <2>1, FS_Subset
<1>4. ASSUME NEW r \in store PROVE IsFiniteSet(Of(r))
  <2> DEFINE G == [f \in r.fields |-> Location(Api(r), f)]
  <2>1. IsFiniteSet(r.fields)
    BY DEF StoreOK, RecordsOK, RecordOK
  <2>2. DOMAIN G = r.fields /\ G = [f \in r.fields |-> G[f]] /\ Of(r) = {G[f] : f \in r.fields}
    OBVIOUS
  <2> HIDE DEF G, Of
  <2> QED
    BY <2>1, <2>2, FiniteImage
<1>5. IsFiniteSet(UNION {Of(r) : r \in S})
  <2>1. DOMAIN F = S /\ F = [r \in S |-> F[r]] /\ {Of(r) : r \in S} = {F[r] : r \in S}
    BY Zenon
  <2>2. \A T \in {Of(r) : r \in S} : IsFiniteSet(T)
    BY <1>4
  <2> HIDE DEF F, S, Of
  <2>3. IsFiniteSet({F[r] : r \in S})
    BY <1>3, <2>1, FiniteImage
  <2> QED
    BY <2>1, <2>2, <2>3, FS_UNION
<1>6. ASSUME NEW p \in Beginnings(store) PROVE p \in Seq(C) /\ BeginsOne(store, p)
  <2>1. PICK l \in Locations(store) : \E n \in 0 .. Len(l) : p = SubSeq(l, 1, n)
    BY DEF Beginnings
  <2>2. PICK n \in 0 .. Len(l) : p = SubSeq(l, 1, n)
    BY <2>1
  <2>3. PICK r \in store : \E f \in r.fields : checkPath(Api(r), FALSE) /\ l = Location(Api(r), f)
    BY <1>2
  <2>4. PICK f \in r.fields : checkPath(Api(r), FALSE) /\ l = Location(Api(r), f)
    BY <2>3
  <2>5. Api(r) \in Seq(C) /\ f \in Seq(C)
    BY ApiBegins DEF StoreOK, RecordsOK, RecordOK
  <2>6. l \in Seq(C)
    BY <2>4, <2>5, LocationAt
  <2>7. p \in Seq(C) /\ Len(p) = n /\ \A i \in 1 .. n : p[i] = l[i]
    BY <2>2, <2>6, Cut
  <2>8. Begins(p, l)
    BY <2>6, <2>7 DEF Begins
  <2>9. IsPrefix(p, l)
    BY <2>6, <2>7, <2>8, PrefixBegins
  <2> QED
    BY <2>4, <2>7, <2>9 DEF BeginsOne
<1> QED
  BY <1>1, <1>2, <1>5, <1>6

\* However many mounts OpenBao has, whatever records and folders are on them, for every
\* prefix of a location and whichever of its calls fail: List (openbao.go) returns the
\* locations that begin with it, those of one mount when the prefix is that mount's path
\* but for the slash, and those on the mounts beneath it when the lookup of its mount is
\* what fails.  It refuses only when another call fails or there are more records or
\* locations than its limits.
THEOREM ListIsExact ==
  ASSUME NEW C, Letters(C), NEW mounts, MountsOK(C, mounts), NEW store, StoreOK(C, store, mounts),
         NEW p \in Beginnings(store), NEW failing
  PROVE  Listed(store, mounts, p, failing)
<1> DEFINE reads == ListReads(store, mounts, p, failing)
           finds == ListFinds(store, mounts, p, failing)
           wanted == IF "mountFor" \in failing THEN Beneath(store, mounts, p) ELSE Wanted(store, mounts, p)
           Held(y) == IF "mountFor" \in failing
                      THEN OnBeneath(mounts, p, y)
                      ELSE \A m \in mounts : m.path = p \o Slash => IsPrefix(m.path, y)
<1>1. p \in Seq(C) /\ BeginsOne(store, p) /\ IsFiniteSet(Locations(store))
  BY LocationsAre
<1>2. finds = wanted
  <2>1. \A y : y \in finds <=>
                 \E r \in store : \E f \in r.fields :
                   ToRead(mounts, p, r, failing) /\ IsPrefix(FieldPart(p), f) /\ y = Location(Api(r), f)
    BY <1>1, FindsAre
  <2>2. \A y : y \in wanted <=>
                 /\ y \in Locations(store) /\ IsPrefix(p, y)
                 /\ Held(y)
    BY DEF Wanted, Beneath, HasPrefix, OnBeneath
  <2>3. \A y : y \in Locations(store) <=>
                 \E r \in store : \E f \in r.fields : checkPath(Api(r), FALSE) /\ y = Location(Api(r), f)
    BY LocationsAre
  <2>4. \A r \in store : \A f \in r.fields :
          ToRead(mounts, p, r, failing) /\ IsPrefix(FieldPart(p), f) <=>
            /\ checkPath(Api(r), FALSE) /\ IsPrefix(p, Location(Api(r), f))
            /\ Held(Location(Api(r), f))
    <3>1. CASE "mountFor" \in failing
      BY <1>1, <3>1, BeneathRecord
    <3>2. CASE "mountFor" \notin failing
      BY <1>1, <3>2, WantedRecord
    <3> QED
      BY <3>1, <3>2
  <2> HIDE DEF finds, wanted, Held
  <2>5. ASSUME NEW y, y \in finds PROVE y \in wanted
    <3>1. PICK r \in store : \E f \in r.fields :
            ToRead(mounts, p, r, failing) /\ IsPrefix(FieldPart(p), f) /\ y = Location(Api(r), f)
      BY <2>1, <2>5
    <3>2. PICK f \in r.fields : ToRead(mounts, p, r, failing) /\ IsPrefix(FieldPart(p), f) /\ y = Location(Api(r), f)
      BY <3>1
    <3>3. /\ checkPath(Api(r), FALSE) /\ IsPrefix(p, y)
          /\ Held(y)
      BY <2>4, <3>2
    <3> QED
      BY <2>2, <2>3, <3>2, <3>3
  <2>6. ASSUME NEW y, y \in wanted PROVE y \in finds
    <3>1. /\ y \in Locations(store) /\ IsPrefix(p, y)
          /\ Held(y)
      BY <2>2, <2>6
    <3>2. PICK r \in store : \E f \in r.fields : checkPath(Api(r), FALSE) /\ y = Location(Api(r), f)
      BY <2>3, <3>1
    <3>3. PICK f \in r.fields : checkPath(Api(r), FALSE) /\ y = Location(Api(r), f)
      BY <3>2
    <3>4. ToRead(mounts, p, r, failing) /\ IsPrefix(FieldPart(p), f)
      BY <2>4, <3>1, <3>3
    <3> QED
      BY <2>1, <3>3, <3>4
  <2> QED
    BY <2>5, <2>6
<1>3. Cardinality(reads) \in Nat /\ Cardinality(reads) <= Cardinality(store) /\ Cardinality(store) \in Nat
  <2> DEFINE F == [r \in store |-> <<r.mount, Api(r)>>]
             T == {F[r] : r \in store}
  <2>1. DOMAIN F = store /\ F = [r \in store |-> F[r]] /\ \A r \in store : F[r] = <<r.mount, Api(r)>>
    OBVIOUS
  <2>2. IsFiniteSet(store) /\ Cardinality(store) \in Nat
    BY FS_CardinalityType DEF StoreOK
  <2>3. reads \subseteq T
    BY <1>1, <2>1, ReadsAre
  <2> HIDE DEF F
  <2>4. IsFiniteSet(T) /\ Cardinality(T) <= Cardinality(store)
    BY <2>1, <2>2, FiniteImage
  <2> HIDE DEF T, reads
  <2>5. IsFiniteSet(reads) /\ Cardinality(reads) <= Cardinality(T)
    BY <2>3, <2>4, FS_Subset
  <2>6. Cardinality(reads) \in Nat /\ Cardinality(T) \in Nat
    BY <2>4, <2>5, FS_CardinalityType
  <2> QED
    BY <2>2, <2>4, <2>5, <2>6
<1>4. Cardinality(wanted) \in Nat
  <2>1. wanted \in SUBSET Locations(store)
    BY DEF Wanted, Beneath
  <2> HIDE DEF wanted
  <2>2. IsFiniteSet(wanted)
    BY <1>1, <2>1, FS_Subset
  <2> QED
    BY <2>2, FS_CardinalityType
<1>5. checkPath(PathPart(p), TRUE)
  <2>1. PICK r \in store : checkPath(Api(r), FALSE) /\ \E f \in r.fields : IsPrefix(p, Location(Api(r), f))
    BY <1>1 DEF BeginsOne
  <2>2. PICK f \in r.fields : IsPrefix(p, Location(Api(r), f))
    BY <2>1
  <2>3. f \in Seq(C) /\ Api(r) \in Seq(C)
    BY ApiBegins DEF StoreOK, RecordsOK, RecordOK
  <2>4. IsPrefix(Api(r), Api(r))
    <3>1. Begins(Api(r), Api(r))
      BY <2>3 DEF Begins
    <3> QED
      BY <2>3, <3>1, PrefixBegins
  <2>5. NoHash(Api(r))
    BY <2>1, <2>3, <2>4, CheckedBeginning
  <2>6. PathPart(p) \in Seq(C) /\ (Hashes(p) = {} => PathPart(p) = p)
    BY <1>1, PartsOfPrefix
  <2>7. IF Hashes(p) # {} THEN Api(r) = PathPart(p) ELSE IsPrefix(p, Api(r))
    BY <1>1, <2>2, <2>3, <2>5, PartsBegin
  <2>8. IsPrefix(PathPart(p), Api(r))
    BY <2>4, <2>6, <2>7
  <2> QED
    BY <2>1, <2>3, <2>6, <2>8, CheckedBeginning
<1>6. List(store, mounts, p, failing) =
        IF Answered(mounts, p, failing) /\ Cardinality(reads) <= maxListReads /\ Cardinality(finds) <= maxLocations
        THEN [ok |-> TRUE, locations |-> finds] ELSE Refused
  BY <1>5, ListInTurn
<1> HIDE DEF reads, finds, wanted
<1>7. CASE Answered(mounts, p, failing) /\ Cardinality(reads) <= maxListReads /\ Cardinality(finds) <= maxLocations
  <2>1. List(store, mounts, p, failing) = [ok |-> TRUE, locations |-> wanted]
    BY <1>2, <1>6, <1>7
  <2>2. List(store, mounts, p, failing).ok /\ List(store, mounts, p, failing).locations = wanted
    BY <2>1
  <2> QED
    BY <2>2 DEF Listed, wanted
<1>8. CASE ~(Answered(mounts, p, failing) /\ Cardinality(reads) <= maxListReads /\ Cardinality(finds) <= maxLocations)
  <2>1. ~List(store, mounts, p, failing).ok
    BY <1>6, <1>8 DEF Refused
  <2>2. ~Answered(mounts, p, failing) => failing \cap {"kvMounts", "records"} # {}
    BY DEF Answered
  <2>3. Answered(mounts, p, failing) => Cardinality(store) > maxListReads \/ Cardinality(wanted) > maxLocations
    BY <1>2, <1>3, <1>4, <1>8, LimitsAssumption
  <2> QED
    BY <2>1, <2>2, <2>3 DEF Listed, wanted
<1> QED
  BY <1>7, <1>8

\* The characters of the lists that the run asks about.
ListChars == {"a", "b", "/", "d", "m", "?", "f", "g", "#"}

\* The mounts of the lists are in order.
LEMMA MountsInOrder ==
  ASSUME NEW v \in BOOLEAN \X BOOLEAN
  PROVE  MountsOK(ListChars, Mounts(v))
<1> DEFINE a == <<"a", "/">>
           c == <<"a", "b", "/">>
<1>1. a \in Seq(ListChars) /\ Len(a) = 2 /\ a[1] = "a" /\ a[2] = "/"
  BY DEF ListChars
<1>2. c \in Seq(ListChars) /\ Len(c) = 3 /\ c[1] = "a" /\ c[2] = "b" /\ c[3] = "/"
  BY DEF ListChars
<1>3. \A m \in Mounts(v) : m.path = a \/ m.path = c
  BY DEF Mounts
<1>4. \A m, n \in Mounts(v) : m.path = n.path => m = n
  <2>1. a # c
    OBVIOUS
  <2> QED
    BY <2>1 DEF Mounts
<1> HIDE DEF a, c
<1>5. ~IsPrefix(a, c) /\ ~IsPrefix(c, a)
  <2>1. ~Begins(a, c)
    <3>1. 2 \in 1 .. Len(a) /\ a[2] # c[2]
      BY <1>1, <1>2
    <3> QED
      BY <3>1 DEF Begins
  <2>2. ~Begins(c, a)
    BY <1>1, <1>2 DEF Begins
  <2> QED
    BY <1>1, <1>2, <2>1, <2>2, PrefixBegins
<1>6. ASSUME NEW m \in Mounts(v) PROVE MountOK(ListChars, m)
  <2>1. CASE m.path = a
    <3>1. \A i \in 1 .. 2 : i = 1 \/ i = 2
      OBVIOUS
    <3>2. \A i \in 1 .. Len(a) : a[i] # "#"
      BY <1>1, <3>1
    <3>3. a # <<>>
      BY <1>1
    <3> QED
      BY <1>1, <2>1, <3>2, <3>3 DEF MountOK
  <2>2. CASE m.path = c
    <3>1. \A i \in 1 .. 3 : i = 1 \/ i = 2 \/ i = 3
      OBVIOUS
    <3>2. \A i \in 1 .. Len(c) : c[i] # "#"
      BY <1>2, <3>1
    <3>3. c # <<>>
      BY <1>2
    <3> QED
      BY <1>2, <2>2, <3>2, <3>3 DEF MountOK
  <2> QED
    BY <1>3, <2>1, <2>2
<1> QED
  BY <1>3, <1>4, <1>5, <1>6 DEF MountsOK

\* The lists are about a store on such mounts.
ListsInv == about = "lists" =>
  \E v \in BOOLEAN \X BOOLEAN : input.mounts = Mounts(v) /\ StoreOK(ListChars, input.store, Mounts(v))

\* The records that the run puts are as OpenBao's are.
LEMMA PutOK ==
  ASSUME NEW p \in RecordPaths, NEW fs \in {FieldNames, {<<"f">>}, {}}, NEW m
  PROVE  RecordOK(ListChars, [mount |-> m, path |-> p, fields |-> fs])
<1> DEFINE r == [mount |-> m, path |-> p, fields |-> fs]
<1>1. r.path = p /\ r.fields = fs
  OBVIOUS
<1> HIDE DEF r
<1>2. p \in Seq(ListChars) /\ p # <<>> /\ p[Len(p)] # "/"
  <2>1. CASE p = <<"a">>
    BY <2>1 DEF ListChars
  <2>2. CASE p = <<"a", "b">>
    BY <2>2 DEF ListChars
  <2>3. CASE p = <<"b", "/", "a">>
    BY <2>3 DEF ListChars
  <2>4. CASE p = <<"a", "/", "b">>
    BY <2>4 DEF ListChars
  <2>5. CASE p = <<"d">>
    BY <2>5 DEF ListChars
  <2>6. CASE p = <<"?">>
    BY <2>6 DEF ListChars
  <2> QED
    BY <2>1, <2>2, <2>3, <2>4, <2>5, <2>6 DEF RecordPaths
<1>3. \A f \in fs : f = <<"f">> \/ f = <<"f", "g">>
  BY DEF FieldNames
<1>4. <<"f">> \in Seq(ListChars) /\ <<"f", "g">> \in Seq(ListChars)
  BY DEF ListChars
<1>5. IsFiniteSet(fs)
  <2>1. IsFiniteSet({}) /\ IsFiniteSet({<<"f">>}) /\ IsFiniteSet({<<"f">>} \cup {<<"f", "g">>})
    BY FS_EmptySet, FS_Singleton, FS_AddElement
  <2>2. {<<"f">>} \cup {<<"f", "g">>} = FieldNames
    BY DEF FieldNames
  <2> QED
    BY <2>1, <2>2
<1>6. RecordOK(ListChars, r)
  BY <1>1, <1>2, <1>3, <1>4, <1>5 DEF RecordOK
<1> QED
  BY <1>6 DEF r

\* They stay so.
LEMMA ListsAlways == Questions => []ListsInv
<1>1. FirstQuestion => ListsInv
  <2> SUFFICES ASSUME FirstQuestion, about = "lists" PROVE ListsInv
    BY DEF ListsInv
  <2>1. input \in NoStores
    BY DEF FirstQuestion
  <2>2. PICK v \in BOOLEAN \X BOOLEAN : input = [mounts |-> Mounts(v), store |-> {}]
    BY <2>1 DEF NoStores
  <2>3. input.mounts = Mounts(v) /\ input.store = {}
    BY <2>2
  <2>4. StoreOK(ListChars, {}, Mounts(v))
    BY FS_EmptySet DEF StoreOK, RecordsOK
  <2> QED
    BY <2>3, <2>4 DEF ListsInv
<1>2. ListsInv /\ [NextQuestion]_asked => ListsInv'
  <2> SUFFICES ASSUME ListsInv, [NextQuestion]_asked, about' = "lists" PROVE ListsInv'
    BY DEF ListsInv
  <2>1. CASE UNCHANGED asked
    BY <2>1 DEF ListsInv, asked
  <2>2. CASE PutRecord
    <3>1. about = "lists"
      BY <2>2 DEF PutRecord
    <3>2. PICK v \in BOOLEAN \X BOOLEAN : input.mounts = Mounts(v) /\ StoreOK(ListChars, input.store, Mounts(v))
      BY <3>1 DEF ListsInv
    <3>3. PICK m \in input.mounts, p \in RecordPaths, fs \in {FieldNames, {<<"f">>}, {}} :
            input' = [input EXCEPT !.store = @ \cup {[mount |-> m, path |-> p, fields |-> fs]}]
      BY <2>2 DEF PutRecord
    <3> DEFINE r == [mount |-> m, path |-> p, fields |-> fs]
               both == input.store \cup {r}
    <3>4. RecordOK(ListChars, r) /\ r.mount = m
      BY PutOK
    <3> HIDE DEF r
    <3>5. IsFiniteSet(both)
      BY <3>2, FS_AddElement DEF StoreOK
    <3>6. StoreOK(ListChars, both, Mounts(v))
      BY <3>2, <3>4, <3>5 DEF StoreOK, RecordsOK
    <3>7. input'.mounts = Mounts(v) /\ input'.store = both
      BY <3>2, <3>3 DEF r
    <3> QED
      BY <3>6, <3>7 DEF ListsInv
  <2> QED
    BY <2>1, <2>2 DEF NextQuestion, AddEntry, Extend, AddHeader, AddParam
<1> QED
  BY <1>1, <1>2, PTL DEF Questions

\* Every list that the run asks for is exact, whichever calls fail (List, openbao.go).
THEOREM ListsStayExact == Questions => []ListsExactly
<1>1. ListsInv => ListsExactly
  <2> SUFFICES ASSUME ListsInv, about = "lists", NEW p \in Beginnings(input.store), NEW failing \in SUBSET Calls
               PROVE  Listed(input.store, input.mounts, p, failing)
    BY DEF ListsExactly
  <2>1. PICK v \in BOOLEAN \X BOOLEAN : input.mounts = Mounts(v) /\ StoreOK(ListChars, input.store, Mounts(v))
    BY DEF ListsInv
  <2>2. MountsOK(ListChars, Mounts(v)) /\ Letters(ListChars)
    BY MountsInOrder DEF Letters, ListChars
  <2> QED
    BY <2>1, <2>2, ListIsExact
<1> QED
  BY <1>1, ListsAlways, PTL
=============================================================================

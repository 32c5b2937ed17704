------------------------- MODULE SecretCacheProofs -------------------------
(***************************************************************************)
(* What holds of the Secret cache for every set of Secret Names, places,   *)
(* requests and TTLs and every bound.                                      *)
(***************************************************************************)
EXTENDS SecretCache, TLAPS

\* What a request's program counter says about its local variables.
Locals ==
  \A q \in Requests :
    /\ req[q].pc \notin {"idle", "done"} =>
         req[q].name \in Names /\ req[q].place \in Places /\ req[q].ttl \in TTLs
    /\ req[q].pc \notin {"hit", "delivering"} => req[q].holds = "none"
    /\ req[q].pc = "hit" => req[q].holds = "copy"
    /\ req[q].pc = "delivering" => req[q].holds \in {"value", "copy"}

TypeInv == TypeOK /\ Locals

\* A request that may have filled the cache: it holds the copy, or nothing.
Filled(q) ==
  \/ req[q].pc = "done"
  \/ req[q].pc = "delivering" /\ req[q].holds = "copy"

\* What is cached and every timer, stopped in time or not, come from a request
\* that is past its only Fill ...
FromFills ==
  /\ \A n \in Names : Cached(n) => Filled(entries[n].id)
  /\ \A t \in timers \cup firing : Filled(t.id)

\* ... so that an id stands for one Secret Name.
OneName ==
  /\ \A m, n \in Names :
       Cached(m) /\ Cached(n) /\ entries[m].id = entries[n].id => m = n
  /\ \A t \in timers \cup firing, n \in Names :
       Cached(n) /\ t.id = entries[n].id => t.name = n

\* A fetched value is there until its request caches, keeps or releases it.
FetchedIsLive == \A q \in Requests : req[q].pc = "fetched" => value(q) \in live

OwnerInv == FromFills /\ OneName /\ FetchedIsLive /\ BuffersOwned

\* Version v of the Secret at p was current at time f, or later.
CurrentAt(p, v, f) ==
  /\ v <= Len(rotations[p])
  /\ v < Len(rotations[p]) => rotations[p][v + 1] >= f

\* What is fetched was current when its fetch began, at the earliest, and a
\* hit is in the past.
FreshInv ==
  /\ \A n \in Names : Cached(n) =>
       /\ entries[n].fetched <= now
       /\ CurrentAt(entries[n].place, entries[n].version, entries[n].fetched)
  /\ \A q \in Requests :
       /\ req[q].pc \in {"fetching", "fetched"} => req[q].fetched <= now
       /\ req[q].pc = "fetched" => CurrentAt(req[q].place, req[q].got, req[q].fetched)
       /\ req[q].pc = "hit" => req[q].at <= now /\ req[q].ttl > 0
  /\ HitIsFresh

-----------------------------------------------------------------------------
(***************************************************************************)
(* Types.                                                                  *)
(***************************************************************************)
\* The actions, one by one: a request's own steps apart from the others'.
OwnStep(q) ==
  \/ \E n \in Names : Resolve(q, n)
  \/ Hit(q) \/ Miss(q) \/ BeginFetch(q) \/ FetchAnswers(q) \/ FetchFails(q)
  \/ Uncached(q) \/ Refuse(q) \/ Fill(q) \/ Deliver(q)

\* The types of a request's local variables (Resolve, get).
ReqType ==
  [pc : {"idle", "lookup", "miss", "fetching", "fetched", "hit", "delivering", "done"},
   name : Names \cup {Absent}, place : Places \cup {Absent}, ttl : TTLs \cup {0},
   fetched : Nat, got : Nat, at : Nat, holds : {"none", "value", "copy"}]

\* A TTL is a number of time units, and an entry is not the lack of one.
LEMMA Values == TTLs \subseteq Nat /\ Absent \notin Mapping /\ NoEntry \notin Entry
BY CacheAssumption DEF CacheAssumption

\* A request that has ended is typed, and so is one that has not begun (Resolve).
LEMMA Ends == Done \in ReqType /\ Idle \in ReqType /\ Done.pc = "done" /\ Done.holds = "none"
              /\ Idle.pc = "idle" /\ Idle.holds = "none"
BY DEF Done, Idle, ReqType

\* What a request's step may make of its local variables.
GoodLocals(r) ==
  /\ r \in ReqType
  /\ r.pc \notin {"idle", "done"} => r.name \in Names /\ r.place \in Places /\ r.ttl \in TTLs
  /\ r.pc \notin {"hit", "delivering"} => r.holds = "none"
  /\ r.pc = "hit" => r.holds = "copy"
  /\ r.pc = "delivering" => r.holds \in {"value", "copy"}

\* Only the request that takes a step changes its local variables, and leaves
\* them typed (every step of Resolve and get).
LEMMA OwnLocals ==
  ASSUME TypeInv, NEW q \in Requests, OwnStep(q)
  PROVE  \E r : GoodLocals(r) /\ req' = [req EXCEPT ![q] = r]
<1> USE Ends
<1>0. /\ req \in [Requests -> ReqType] /\ GoodLocals(req[q])
      /\ running \in [Names -> Mapping \cup {Absent}] /\ now \in Nat
      /\ entries \in [Names -> Entry \cup {NoEntry}]
      /\ rotations \in [Places -> Seq(Nat)]
  BY DEF TypeInv, TypeOK, Locals, ReqType, GoodLocals
<1>1. ASSUME NEW n \in Names, Resolve(q, n)
      PROVE  \E r : GoodLocals(r) /\ req' = [req EXCEPT ![q] = r]
  <2> DEFINE r == IF running[n] = Absent THEN Done
             ELSE [Idle EXCEPT !.pc = IF running[n].ttl = 0 THEN "miss" ELSE "lookup",
                               !.name = n, !.place = running[n].place,
                               !.ttl = running[n].ttl]
  <2>1. req' = [req EXCEPT ![q] = r]
    BY <1>1 DEF Resolve, Goto
  <2>2. GoodLocals(r)
    BY <1>0 DEF GoodLocals, ReqType, Idle, Mapping
  <2> QED BY <2>1, <2>2
<1>2. CASE Hit(q)
  <2> DEFINE r == [req[q] EXCEPT !.pc = "hit", !.at = now, !.holds = "copy",
                                 !.got = entries[req[q].name].version]
  <2>1. req' = [req EXCEPT ![q] = r] \/ req' = [req EXCEPT ![q] = Done]
    BY <1>2 DEF Hit, Goto
  <2>2. req[q].pc = "lookup" /\ entries[req[q].name] # NoEntry
    BY <1>2 DEF Hit, hits
  <2>3. GoodLocals(r)
    BY <1>0, <2>2 DEF GoodLocals, ReqType, Entry
  <2>4. GoodLocals(Done)
    BY DEF GoodLocals
  <2> QED BY <2>1, <2>3, <2>4
<1>3. CASE FetchAnswers(q)
  <2> DEFINE r == [req[q] EXCEPT !.pc = "fetched", !.got = Version(req[q].place)]
  <2>1. req' = [req EXCEPT ![q] = r] /\ req[q].pc = "fetching"
    BY <1>3 DEF FetchAnswers, Goto
  <2>2. Version(req[q].place) \in Nat
    BY <1>0, <2>1 DEF Version, GoodLocals
  <2>3. GoodLocals(r)
    BY <1>0, <2>1, <2>2 DEF GoodLocals, ReqType
  <2> QED BY <2>1, <2>3
<1>4. CASE Miss(q) \/ BeginFetch(q) \/ FetchFails(q) \/ Uncached(q) \/ Refuse(q)
           \/ Fill(q) \/ Deliver(q)
  <2> DEFINE R == {[req[q] EXCEPT !.pc = "miss"],
                   [req[q] EXCEPT !.pc = "fetching", !.fetched = now], Done,
                   [req[q] EXCEPT !.pc = "delivering", !.holds = "value"],
                   [req[q] EXCEPT !.pc = "delivering", !.holds = "copy"]}
  <2>1. \E r \in R : req' = [req EXCEPT ![q] = r]
    BY <1>4 DEF Miss, BeginFetch, FetchFails, Uncached, Refuse, Fill, Deliver, Goto
  <2>2. req[q].pc \notin {"idle", "done"} \/ req' = [req EXCEPT ![q] = Done]
    BY <1>4 DEF Miss, BeginFetch, FetchFails, Uncached, Refuse, Fill, Deliver, Goto
  <2>3. ~ req[q].pc \in {"hit", "delivering"} \/ req' = [req EXCEPT ![q] = Done]
    BY <1>4 DEF Miss, BeginFetch, FetchFails, Uncached, Refuse, Fill, Deliver, Goto
  <2>4. GoodLocals(Done)
    BY DEF GoodLocals
  <2>5. ASSUME req[q].pc \notin {"idle", "done", "hit", "delivering"}, NEW r \in R
        PROVE  GoodLocals(r)
    BY <1>0, <2>4, <2>5 DEF GoodLocals, ReqType
  <2> QED BY <2>1, <2>2, <2>3, <2>4, <2>5
<1> QED BY <1>1, <1>2, <1>3, <1>4 DEF OwnStep

\* The other variables' types (prune, expire, close, entry.wipe, get).
SharedTypes ==
  /\ now \in Nat /\ reloads \in Nat /\ pruning \in BOOLEAN /\ closed \in BOOLEAN
  /\ running \in [Names -> Mapping \cup {Absent}]
  /\ rotations \in [Places -> Seq(Nat)]
  /\ entries \in [Names -> Entry \cup {NoEntry}]
  /\ timers \subseteq [name : Names, id : Requests, at : Nat]
  /\ firing \subseteq [name : Names, id : Requests]
  /\ live \subseteq Requests \X {"value", "copy"}

\* A request's step leaves the shared state typed (Resolve, get).
LEMMA OwnShared ==
  ASSUME TypeInv, NEW q \in Requests, OwnStep(q)
  PROVE  SharedTypes'
<1> USE Values
<1>0. SharedTypes /\ req[q] \in ReqType /\ GoodLocals(req[q])
  BY DEF TypeInv, TypeOK, SharedTypes, Locals, GoodLocals, ReqType
<1>1. CASE Fill(q)
  <2> DEFINE name == req[q].name
             old  == {n \in {name} : entries[n] # NoEntry}
             e    == [id |-> q, place |-> req[q].place, fetched |-> req[q].fetched,
                  ttl |-> Least(req[q].ttl, running[name].ttl), version |-> req[q].got]
             T    == [name |-> name, id |-> q, at |-> e.fetched + e.ttl]
  <2>1. /\ entries' = [entries EXCEPT ![name] = e]
        /\ timers' = stopped(old) \cup {T}
        /\ live' = released(old) \cup {copy(q)}
        /\ UNCHANGED <<now, running, pruning, reloads, rotations, closed, firing>>
        /\ req[q].pc = "fetched" /\ caches(name, req[q].place)
    BY <1>1 DEF Fill, mayCache
  <2>2. name \in Names /\ running[name] \in Mapping /\ req[q].place \in Places /\ req[q].ttl \in TTLs
    BY <1>0, <2>1 DEF caches, GoodLocals, SharedTypes
  <2>3. Least(req[q].ttl, running[name].ttl) \in TTLs
    BY <2>2 DEF Least, Mapping
  <2>4. req[q].fetched \in Nat /\ req[q].got \in Nat
    BY <1>0 DEF ReqType
  <2>5. e \in Entry
    BY <2>2, <2>3, <2>4 DEF Entry
  <2>6. T \in [name : Names, id : Requests, at : Nat]
    <3>1. e.fetched \in Nat /\ e.ttl \in Nat
      BY <2>3, <2>4
    <3> HIDE DEF e
    <3>2. e.fetched + e.ttl \in Nat
      BY <3>1
    <3> QED BY <2>2, <3>2
  <2> HIDE DEF e, T, old, name
  <2>7. entries' \in [Names -> Entry \cup {NoEntry}]
    BY <1>0, <2>1, <2>5 DEF SharedTypes
  <2>8. timers' \subseteq [name : Names, id : Requests, at : Nat]
    <3>1. stopped(old) \subseteq timers
      BY DEF stopped
    <3> QED BY <1>0, <2>1, <2>6, <3>1 DEF SharedTypes
  <2>9. live' \subseteq Requests \X {"value", "copy"}
    BY <1>0, <2>1 DEF SharedTypes, released, copy
  <2> QED BY <1>0, <2>1, <2>7, <2>8, <2>9 DEF SharedTypes
<1>2. CASE \/ \E n \in Names : Resolve(q, n)
           \/ Hit(q) \/ Miss(q) \/ BeginFetch(q) \/ FetchAnswers(q) \/ FetchFails(q)
           \/ Uncached(q) \/ Refuse(q) \/ Deliver(q)
  <2>1. UNCHANGED <<now, running, pruning, reloads, rotations, entries, closed, timers, firing>>
    BY <1>2 DEF Resolve, Hit, Miss, BeginFetch, FetchAnswers, FetchFails, Uncached, Refuse,
                Deliver
  <2>2. \E X \in SUBSET {value(q), copy(q)} : live' \subseteq live \cup X
    BY <1>2 DEF Resolve, Hit, Miss, BeginFetch, FetchAnswers, FetchFails, Uncached, Refuse,
                Deliver
  <2>3. live' \subseteq Requests \X {"value", "copy"}
    BY <1>0, <2>2 DEF SharedTypes, value, copy
  <2> QED BY <1>0, <2>1, <2>3 DEF SharedTypes
<1> QED BY <1>1, <1>2 DEF OwnStep

\* The other steps leave the shared state typed (prune, expire, close).
LEMMA OtherShared ==
  ASSUME TypeInv,
         \/ Pass \/ Reload \/ Prune \/ Close \/ \E p \in Places : Rotate(p)
         \/ \E t \in timers : Fire(t)
         \/ \E t \in firing : Expire(t)
  PROVE  SharedTypes' /\ req' = req
<1> USE Values
<1>0. SharedTypes
  BY DEF TypeInv, TypeOK, SharedTypes
<1>1. CASE Pass
  BY <1>0, <1>1 DEF Pass, SharedTypes
<1>2. CASE Reload
  BY <1>0, <1>2 DEF Reload, SharedTypes
<1>3. CASE Prune
  <2> DEFINE A == {[name |-> n, id |-> entries[n].id,
                        at |-> entries[n].fetched + running[n].ttl] : n \in shortened}
  <2>1. \A n \in shortened : /\ n \in Names /\ entries[n] \in Entry
                             /\ running[n] \in Mapping
    BY <1>0 DEF shortened, pruned, caches, SharedTypes
  <2>2. A \subseteq [name : Names, id : Requests, at : Nat]
    <3>1. ASSUME NEW n \in shortened
          PROVE  /\ entries[n].fetched + running[n].ttl \in Nat
                 /\ entries[n].id \in Requests
      <4>1. /\ entries[n].fetched \in Nat /\ running[n].ttl \in Nat
            /\ entries[n].id \in Requests
        BY <2>1 DEF Entry, Mapping
      <4> QED BY <4>1
    <3> QED BY <2>1, <3>1
  <2>3. timers' \subseteq [name : Names, id : Requests, at : Nat]
    <3>1. stopped(pruned) \subseteq timers
      BY DEF stopped
    <3>2. timers' \subseteq stopped(pruned) \cup A
      BY <1>3 DEF Prune
    <3> HIDE DEF A
    <3> QED BY <1>0, <2>2, <3>1, <3>2 DEF SharedTypes
  <2>4. \A n \in shortened : [entries[n] EXCEPT !.ttl = running[n].ttl] \in Entry
    BY <2>1 DEF Entry, Mapping
  <2>5. entries' \in [Names -> Entry \cup {NoEntry}]
    BY <1>0, <1>3, <2>4 DEF Prune, SharedTypes
  <2>6. live' \subseteq live
    BY <1>3 DEF Prune, released
  <2> QED BY <1>0, <1>3, <2>3, <2>5, <2>6 DEF Prune, SharedTypes
<1>4. CASE Close
  BY <1>0, <1>4 DEF Close, SharedTypes, released, stopped
<1>5. ASSUME NEW p \in Places, Rotate(p)
      PROVE  SharedTypes' /\ req' = req
  BY <1>0, <1>5 DEF Rotate, SharedTypes
<1>6. ASSUME NEW t \in timers, Fire(t)
      PROVE  SharedTypes' /\ req' = req
  BY <1>0, <1>6 DEF Fire, SharedTypes
<1>7. ASSUME NEW t \in firing, Expire(t)
      PROVE  SharedTypes' /\ req' = req
  BY <1>0, <1>7 DEF Expire, SharedTypes
<1> QED BY <1>1, <1>2, <1>3, <1>4, <1>5, <1>6, <1>7

\* Each step preserves the types and what program counters say.
LEMMA TypeStep ==
  ASSUME TypeInv, [Next]_vars
  PROVE  TypeInv'
<1>0. req \in [Requests -> ReqType] /\ \A q \in Requests : GoodLocals(req[q])
  BY DEF TypeInv, TypeOK, Locals, GoodLocals, ReqType
<1>1. SUFFICES /\ SharedTypes' /\ req' \in [Requests -> ReqType]
               /\ \A q \in Requests : GoodLocals(req'[q])
  BY DEF TypeInv, TypeOK, SharedTypes, Locals, GoodLocals, ReqType
<1>2. ASSUME NEW q \in Requests, OwnStep(q)
      PROVE  /\ SharedTypes' /\ req' \in [Requests -> ReqType]
             /\ \A p \in Requests : GoodLocals(req'[p])
  <2>1. PICK r : GoodLocals(r) /\ req' = [req EXCEPT ![q] = r]
    BY <1>2, OwnLocals
  <2>2. r \in ReqType
    BY <2>1 DEF GoodLocals
  <2>3. req' \in [Requests -> ReqType] /\ \A p \in Requests : GoodLocals(req'[p])
    BY <1>0, <2>1, <2>2
  <2> QED BY <1>2, <2>3, OwnShared
<1>3. CASE UNCHANGED vars
  BY <1>0, <1>3 DEF vars, TypeInv, TypeOK, SharedTypes
<1>4. CASE \/ Pass \/ Reload \/ Prune \/ Close \/ \E p \in Places : Rotate(p)
           \/ \E t \in timers : Fire(t)
           \/ \E t \in firing : Expire(t)
  BY <1>0, <1>4, OtherShared
<1> QED BY <1>2, <1>3, <1>4 DEF Next, OwnStep

\* Every reachable state is typed, with the locals that each program counter of
\* Resolve and get implies.
THEOREM TypeCorrect == Spec => []TypeInv
<1>1. Init => TypeInv
  <2> SUFFICES ASSUME Init PROVE TypeInv
    OBVIOUS
  <2>1. req = [q \in Requests |-> Idle]
    BY DEF Init
  <2>2. req \in [Requests -> ReqType] /\ Locals
    BY <2>1, Ends DEF Locals
  <2>3. running \in [Names -> Mapping \cup {Absent}]
    BY DEF Init
  <2>4. SharedTypes
    <3>1. rotations \in [Places -> Seq(Nat)] /\ entries \in [Names -> Entry \cup {NoEntry}]
      BY DEF Init
    <3>2. /\ now \in Nat /\ reloads \in Nat /\ pruning \in BOOLEAN /\ closed \in BOOLEAN
          /\ timers = {} /\ firing = {} /\ live = {}
      BY DEF Init
    <3> QED BY <2>3, <3>1, <3>2 DEF SharedTypes
  <2> QED BY <2>2, <2>4 DEF TypeInv, TypeOK, SharedTypes, ReqType
<1> QED BY <1>1, TypeStep, PTL DEF Spec

-----------------------------------------------------------------------------
(***************************************************************************)
(* The cache and the config.                                               *)
(***************************************************************************)
\* What can become of an entry when the step is not a Fill: it goes, or it
\* stays and only its TTL may be another one (prune, expire, close).
LEMMA EntriesMove ==
  ASSUME TypeInv, [Next]_vars, \A q \in Requests : ~Fill(q), NEW n \in Names,
         Cached(n)'
  PROVE  /\ Cached(n) /\ entries'[n].id = entries[n].id
         /\ entries'[n].place = entries[n].place
         /\ entries'[n].fetched = entries[n].fetched
         /\ entries'[n].version = entries[n].version
<1>0. entries \in [Names -> Entry \cup {NoEntry}]
  BY DEF TypeInv, TypeOK
<1>1. CASE Prune
  <2>1. entries'[n] = IF n \in pruned THEN NoEntry
                      ELSE IF n \in shortened THEN [entries[n] EXCEPT !.ttl = running[n].ttl]
                      ELSE entries[n]
    BY <1>1 DEF Prune
  <2>2. n \notin pruned
    BY <2>1 DEF Cached
  <2>3. n \in shortened => entries[n] \in Entry /\ Cached(n)
    BY <1>0 DEF shortened, Cached
  <2>4. CASE n \in shortened
    BY <2>1, <2>2, <2>3, <2>4 DEF Entry
  <2>5. CASE n \notin shortened
    BY <2>1, <2>2, <2>5 DEF Cached
  <2> QED BY <2>4, <2>5
<1>2. CASE Close
  BY <1>2 DEF Close, Cached
<1>3. ASSUME NEW t \in firing, Expire(t)
      PROVE  entries'[n] = entries[n]
  BY <1>0, <1>3 DEF Expire, Cached
<1>4. CASE entries' = entries
  BY <1>4 DEF Cached
<1>5. Prune \/ Close \/ (\E t \in firing : Expire(t)) \/ entries' = entries
  BY DEF Next, vars, Pass, Reload, Rotate, Fire, Resolve, Hit, Miss, BeginFetch, FetchAnswers,
         FetchFails, Uncached, Refuse, Deliver
<1>6. entries'[n] = entries[n] => Cached(n)
  BY DEF Cached
<1> QED BY <1>1, <1>2, <1>3, <1>4, <1>5, <1>6

\* A Fill: the name's entry is the request's, the others stay (get).
LEMMA FillMoves ==
  ASSUME TypeInv, NEW q \in Requests, Fill(q)
  PROVE  LET name == req[q].name IN
         /\ name \in Names /\ ~closed /\ caches(name, req[q].place)
         /\ req[q].pc = "fetched"
         /\ entries'[name].id = q /\ entries'[name].place = req[q].place
         /\ entries'[name].fetched = req[q].fetched /\ entries'[name].version = req[q].got
         /\ entries'[name].ttl \in Nat /\ entries'[name].ttl <= running[name].ttl
         /\ \A n \in Names \ {name} : entries'[n] = entries[n]
         /\ UNCHANGED <<now, running, pruning, closed, rotations, firing>>
         /\ entries'[name] # NoEntry
<1> DEFINE name == req[q].name
           e    == [id |-> q, place |-> req[q].place, fetched |-> req[q].fetched,
                    ttl |-> Least(req[q].ttl, running[name].ttl), version |-> req[q].got]
<1>1. /\ name \in Names /\ req[q].ttl \in TTLs /\ req[q].place \in Places
      /\ req[q].fetched \in Nat /\ req[q].got \in Nat
      /\ entries \in [Names -> Entry \cup {NoEntry}]
      /\ running \in [Names -> Mapping \cup {Absent}]
  BY DEF TypeInv, TypeOK, Locals, Fill
<1>2. /\ entries' = [entries EXCEPT ![name] = e] /\ ~closed /\ caches(name, req[q].place)
      /\ req[q].pc = "fetched"
      /\ UNCHANGED <<now, running, pruning, closed, rotations, firing>>
  BY DEF Fill, mayCache
<1>3. running[name].ttl \in TTLs
  BY <1>1, <1>2 DEF caches, Mapping
<1>4. /\ Least(req[q].ttl, running[name].ttl) \in TTLs
      /\ Least(req[q].ttl, running[name].ttl) <= running[name].ttl
  <2>1. req[q].ttl \in Nat /\ running[name].ttl \in Nat
    BY <1>1, <1>3, Values
  <2> QED BY <1>1, <1>3, <2>1 DEF Least
<1>5. e \in Entry
  BY <1>1, <1>4 DEF Entry
<1>6. e.ttl \in Nat /\ e # NoEntry
  BY <1>4, <1>5, Values
<1>7. /\ e.id = q /\ e.place = req[q].place /\ e.fetched = req[q].fetched
      /\ e.version = req[q].got /\ e.ttl <= running[name].ttl
  BY <1>4
<1> HIDE DEF e
<1>8. entries'[name] = e /\ \A n \in Names \ {name} : entries'[n] = entries[n]
  BY <1>1, <1>2
<1> QED BY <1>1, <1>2, <1>6, <1>7, <1>8

\* Each step preserves CacheFollowsConfig.
LEMMA ConfigStep ==
  ASSUME TypeInv, CacheFollowsConfig, [Next]_vars
  PROVE  CacheFollowsConfig'
<1>0. /\ entries \in [Names -> Entry \cup {NoEntry}] /\ now \in Nat
      /\ running \in [Names -> Mapping \cup {Absent}]
  BY DEF TypeInv, TypeOK
<1>1. ASSUME NEW q \in Requests, Fill(q)
      PROVE  CacheFollowsConfig'
  BY <1>1, FillMoves DEF CacheFollowsConfig, Cached, caches
<1>2. CASE Reload
  BY <1>2 DEF Reload, CacheFollowsConfig, Cached
<1>3. CASE Prune
  <2>1. /\ UNCHANGED <<running, closed>> /\ pruning' = FALSE
        /\ \A n \in Names : entries'[n] =
             IF n \in pruned THEN NoEntry
             ELSE IF n \in shortened THEN [entries[n] EXCEPT !.ttl = running[n].ttl]
             ELSE entries[n]
    BY <1>3 DEF Prune
  <2>2. ASSUME NEW n \in Names, Cached(n)'
        PROVE  Cached(n) /\ (caches(n, entries[n].place) /\ entries[n].ttl <= running[n].ttl)'
    <3>1. n \notin pruned /\ Cached(n)
      BY <1>0, <2>1, <2>2 DEF Cached, shortened
    <3>2. entries[n] \in Entry /\ caches(n, entries[n].place)
      BY <1>0, <3>1 DEF Cached, pruned
    <3>3. running[n].ttl \in Nat /\ entries[n].ttl \in Nat
      <4>1. running[n] \in Mapping
        BY <1>0, <3>2 DEF caches
      <4> QED BY <3>2, <4>1, Values DEF Mapping, Entry
    <3>4. CASE n \in shortened
      <4>1. entries'[n].place = entries[n].place /\ entries'[n].ttl = running[n].ttl
        BY <2>1, <3>1, <3>2, <3>4 DEF Entry
      <4> QED BY <2>1, <3>1, <3>2, <3>3, <4>1 DEF caches
    <3>5. CASE n \notin shortened
      <4>1. entries'[n] = entries[n]
        BY <2>1, <3>1, <3>5
      <4>2. ~ running[n].ttl < entries[n].ttl
        BY <3>1, <3>5 DEF shortened, Cached
      <4> QED BY <2>1, <3>1, <3>2, <3>3, <4>1, <4>2 DEF caches
    <3> QED BY <3>4, <3>5
  <2> QED BY <2>1, <2>2 DEF CacheFollowsConfig
<1>4. CASE Close
  BY <1>4 DEF Close, CacheFollowsConfig, Cached
<1>5. ASSUME NEW t \in firing, Expire(t)
      PROVE  CacheFollowsConfig'
  <2>1. \A n \in Names : entries'[n] = NoEntry \/ entries'[n] = entries[n]
    BY <1>0, <1>5 DEF Expire
  <2> QED BY <1>5, <2>1 DEF Expire, CacheFollowsConfig, Cached, caches
<1>6. CASE UNCHANGED <<entries, closed, running, pruning>>
  BY <1>6 DEF CacheFollowsConfig, Cached, caches
<1> QED
  BY <1>1, <1>2, <1>3, <1>4, <1>5, <1>6
  DEF Next, vars, Pass, Rotate, Fire, Resolve, Hit, Miss, BeginFetch, FetchAnswers,
      FetchFails, Uncached, Refuse, Deliver

\* Whatever requests were under way when a reload or close came, what is cached
\* afterwards is what the running config caches, where and as long as it says
\* (get's check under mu, prune, close).
THEOREM CacheObeysConfig == Spec => []CacheFollowsConfig
<1>1. Init => CacheFollowsConfig
  BY DEF Init, CacheFollowsConfig, Cached
<1>2. TypeInv /\ CacheFollowsConfig /\ [Next]_vars => CacheFollowsConfig'
  BY ConfigStep
<1> QED BY <1>1, <1>2, TypeCorrect, PTL DEF Spec

-----------------------------------------------------------------------------
(***************************************************************************)
(* Who owns a buffer.                                                      *)
(***************************************************************************)
\* A step of a request and what it leaves alone.
LEMMA ReqMoves ==
  ASSUME TypeInv, [Next]_vars
  PROVE  \/ req' = req
         \/ \E q \in Requests : OwnStep(q) /\ \A p \in Requests \ {q} : req'[p] = req[p]
<1>1. ASSUME NEW q \in Requests, OwnStep(q)
      PROVE  \A p \in Requests \ {q} : req'[p] = req[p]
  <2>1. PICK r : req' = [req EXCEPT ![q] = r]
    BY <1>1, OwnLocals
  <2> QED BY <2>1 DEF TypeInv, TypeOK
<1> QED
  BY <1>1
  DEF Next, OwnStep, vars, Pass, Reload, Prune, Close, Rotate, Fire, Expire

\* What a request's own step makes of it (Resolve, get).
LEMMA OwnMoves ==
  ASSUME TypeInv, NEW q \in Requests
  PROVE  /\ \A n \in Names : Resolve(q, n) =>
              req[q].pc = "idle" /\ req'[q].pc \in {"done", "miss", "lookup"} /\ req'[q].holds = "none"
         /\ Hit(q) => /\ req[q].pc = "lookup" /\ hits(q)
                      /\ \/ req'[q].pc = "done" /\ req'[q].holds = "none" /\ live' = live
                         \/ /\ req'[q].pc = "hit" /\ req'[q].holds = "copy" /\ req'[q].at = now
                            /\ req'[q].got = entries[req[q].name].version
                            /\ req'[q].place = req[q].place /\ req'[q].ttl = req[q].ttl
                            /\ live' = live \cup {copy(q)}
         /\ Miss(q) => req[q].pc = "lookup" /\ req'[q].pc = "miss" /\ req'[q].holds = "none"
         /\ BeginFetch(q) => /\ req[q].pc = "miss" /\ req'[q].pc = "fetching"
                             /\ req'[q].holds = "none" /\ req'[q].fetched = now
         /\ FetchAnswers(q) => /\ req[q].pc = "fetching" /\ req'[q].pc = "fetched"
                               /\ req'[q].holds = "none" /\ req'[q].fetched = req[q].fetched
                               /\ req'[q].place = req[q].place
                               /\ req'[q].got = Version(req[q].place)
         /\ FetchFails(q) => req[q].pc = "fetching" /\ req'[q].pc = "done" /\ req'[q].holds = "none"
         /\ Uncached(q) => req[q].pc = "fetched" /\ req'[q].pc = "delivering" /\ req'[q].holds = "value"
         /\ Refuse(q) => req[q].pc = "fetched" /\ req'[q].pc = "delivering" /\ req'[q].holds = "copy"
         /\ Fill(q) => req[q].pc = "fetched" /\ req'[q].pc = "delivering" /\ req'[q].holds = "copy"
         /\ Deliver(q) => /\ req[q].pc \in {"hit", "delivering"}
                          /\ req'[q].pc = "done" /\ req'[q].holds = "none"
<1>0. req \in [Requests -> ReqType] /\ GoodLocals(req[q])
  BY DEF TypeInv, TypeOK, ReqType, Locals, GoodLocals
<1>1. ASSUME NEW r, Goto(q, r)
      PROVE  req'[q] = r
  BY <1>0, <1>1 DEF Goto
<1>2. ASSUME NEW n \in Names, Resolve(q, n)
      PROVE  req[q].pc = "idle" /\ req'[q].pc \in {"done", "miss", "lookup"} /\ req'[q].holds = "none"
  BY <1>1, <1>2, Ends DEF Resolve, Idle
<1>3. CASE Hit(q)
  <2>1. req[q].pc = "lookup" /\ hits(q)
    BY <1>3 DEF Hit
  <2> DEFINE r == [req[q] EXCEPT !.pc = "hit", !.at = now, !.holds = "copy",
                                 !.got = entries[req[q].name].version]
  <2>2. \/ req'[q] = r /\ live' = live \cup {copy(q)}
        \/ req'[q] = Done /\ live' = live
    BY <1>1, <1>3 DEF Hit
  <2>3. /\ r.pc = "hit" /\ r.holds = "copy" /\ r.at = now
        /\ r.got = entries[req[q].name].version
        /\ r.place = req[q].place /\ r.ttl = req[q].ttl
    BY <1>0 DEF ReqType
  <2> HIDE DEF r
  <2> QED BY <2>1, <2>2, <2>3, Ends, <1>3
      DEF Miss, BeginFetch, FetchAnswers, FetchFails, Uncached, Refuse, Fill, Deliver, Resolve
<1>4. Miss(q) => req[q].pc = "lookup" /\ req'[q].pc = "miss" /\ req'[q].holds = "none"
  BY <1>0, <1>1 DEF Miss, ReqType, GoodLocals
<1>5. BeginFetch(q) => /\ req[q].pc = "miss" /\ req'[q].pc = "fetching"
                             /\ req'[q].holds = "none" /\ req'[q].fetched = now
  BY <1>0, <1>1 DEF BeginFetch, ReqType, GoodLocals
<1>6. FetchAnswers(q) => /\ req[q].pc = "fetching" /\ req'[q].pc = "fetched"
                               /\ req'[q].holds = "none" /\ req'[q].fetched = req[q].fetched
                               /\ req'[q].place = req[q].place
                               /\ req'[q].got = Version(req[q].place)
  BY <1>0, <1>1 DEF FetchAnswers, ReqType, GoodLocals
<1>7. FetchFails(q) => req[q].pc = "fetching" /\ req'[q].pc = "done" /\ req'[q].holds = "none"
  BY <1>1, Ends DEF FetchFails
<1>8. Uncached(q) => req[q].pc = "fetched" /\ req'[q].pc = "delivering" /\ req'[q].holds = "value"
  BY <1>0, <1>1 DEF Uncached, ReqType
<1>9. Refuse(q) => req[q].pc = "fetched" /\ req'[q].pc = "delivering" /\ req'[q].holds = "copy"
  BY <1>0, <1>1 DEF Refuse, ReqType
<1>10. Fill(q) => req[q].pc = "fetched" /\ req'[q].pc = "delivering" /\ req'[q].holds = "copy"
  BY <1>0, <1>1 DEF Fill, ReqType
<1>11. Deliver(q) => /\ req[q].pc \in {"hit", "delivering"}
                          /\ req'[q].pc = "done" /\ req'[q].holds = "none"
  BY <1>1, Ends DEF Deliver
<1> QED BY <1>2, <1>3, <1>4, <1>5, <1>6, <1>7, <1>8, <1>9, <1>10, <1>11

\* A request that is past its Fill stays past it.
LEMMA FilledStays ==
  ASSUME TypeInv, [Next]_vars, NEW q \in Requests, Filled(q)
  PROVE  Filled(q)'
<1>1. ASSUME OwnStep(q)
      PROVE  Filled(q)'
  BY <1>1, OwnMoves DEF OwnStep, Filled
<1> QED BY <1>1, ReqMoves DEF Filled

\* Where a timer comes from when the step is not a Fill: it was there, or prune
\* reset it for what is cached.
LEMMA TimersMove ==
  ASSUME TypeInv, [Next]_vars, \A q \in Requests : ~Fill(q),
         NEW t \in timers' \cup firing'
  PROVE  \/ \E s \in timers \cup firing : s.id = t.id /\ s.name = t.name
         \/ t.name \in Names /\ Cached(t.name) /\ t.id = entries[t.name].id
<1>1. CASE Prune
  <2>1. \/ t \in timers \cup firing
        \/ \E n \in shortened : t = [name |-> n, id |-> entries[n].id,
                                     at |-> entries[n].fetched + running[n].ttl]
    BY <1>1 DEF Prune, stopped
  <2>2. \A n \in shortened : n \in Names /\ Cached(n)
    BY DEF shortened, Cached
  <2> QED BY <2>1, <2>2
<1>2. ASSUME NEW s \in timers, Fire(s)
      PROVE  \E u \in timers \cup firing : u.id = t.id /\ u.name = t.name
  BY <1>2 DEF Fire
<1>3. CASE timers' \subseteq timers /\ firing' \subseteq firing
  BY <1>3
<1> QED
  BY <1>1, <1>2, <1>3
  DEF Next, vars, Pass, Reload, Rotate, Close, Expire, Resolve, Hit, Miss, BeginFetch, FetchAnswers,
      FetchFails, Uncached, Refuse, Deliver, stopped

\* The timers after a Fill: those that were there and are not stopped, and the
\* request's own (get).
LEMMA FillTimers ==
  ASSUME TypeInv, NEW q \in Requests, Fill(q), NEW t \in timers' \cup firing'
  PROVE  t \in timers \cup firing \/ (t.id = q /\ t.name = req[q].name)
BY DEF Fill, stopped

\* Each step preserves that ids are those of requests past their Fill.
LEMMA FromFillsStep ==
  ASSUME TypeInv, FromFills, [Next]_vars
  PROVE  FromFills'
<1>0. /\ entries \in [Names -> Entry \cup {NoEntry}]
      /\ \A t \in timers \cup firing : t.id \in Requests
      /\ \A n \in Names : Cached(n) => entries[n].id \in Requests
  BY DEF TypeInv, TypeOK, Cached, Entry
<1>1. ASSUME NEW q \in Requests, Fill(q)
      PROVE  FromFills'
  <2>1. Filled(q)'
    BY <1>1, OwnMoves DEF Filled
  <2>2. ASSUME NEW n \in Names, Cached(n)'
        PROVE  Filled(entries[n].id)'
    <3>1. CASE n = req[q].name
      BY <1>1, <2>1, <3>1, FillMoves DEF Filled
    <3>2. CASE n # req[q].name
      <4>1. entries'[n] = entries[n]
        BY <1>1, <3>2, FillMoves
      <4>2. Cached(n) /\ Filled(entries[n].id)
        BY <2>2, <4>1 DEF Cached, FromFills
      <4> QED BY <1>0, <4>1, <4>2, FilledStays DEF Filled
    <3> QED BY <3>1, <3>2
  <2>3. ASSUME NEW t \in timers' \cup firing'
        PROVE  Filled(t.id)'
    BY <1>0, <1>1, <2>1, FillTimers, FilledStays DEF FromFills
  <2> QED BY <2>2, <2>3 DEF FromFills
<1>2. CASE \A q \in Requests : ~Fill(q)
  <2>1. ASSUME NEW n \in Names, Cached(n)'
        PROVE  Filled(entries[n].id)'
    <3>1. Cached(n) /\ entries'[n].id = entries[n].id
      BY <1>2, <2>1, EntriesMove
    <3>2. Filled(entries[n].id) /\ entries[n].id \in Requests
      BY <1>0, <3>1 DEF FromFills
    <3> QED BY <3>1, <3>2, FilledStays DEF Filled
  <2>2. ASSUME NEW t \in timers' \cup firing'
        PROVE  Filled(t.id)'
    BY <1>0, <1>2, TimersMove, FilledStays DEF FromFills
  <2> QED BY <2>1, <2>2 DEF FromFills
<1> QED BY <1>1, <1>2

\* Each step preserves that an id stands for one Secret Name.
LEMMA OneNameStep ==
  ASSUME TypeInv, FromFills, OneName, [Next]_vars
  PROVE  OneName'
<1>1. ASSUME NEW q \in Requests, Fill(q)
      PROVE  OneName'
  <2>0. ~Filled(q)
    BY <1>1, FillMoves DEF Filled
  <2>1. \A n \in Names : Cached(n) => entries[n].id # q
    BY <2>0 DEF FromFills
  <2>2. \A t \in timers \cup firing : t.id # q
    BY <2>0 DEF FromFills
  <2>3. \A n \in Names : Cached(n)' =>
          \/ n = req[q].name /\ entries'[n].id = q
          \/ n # req[q].name /\ Cached(n) /\ entries'[n].id = entries[n].id
    BY <1>1, FillMoves DEF Cached
  <2>4. ASSUME NEW m \in Names, NEW n \in Names, Cached(m)', Cached(n)',
               entries'[m].id = entries'[n].id
        PROVE  m = n
    BY <2>1, <2>3, <2>4 DEF OneName
  <2>5. ASSUME NEW t \in timers' \cup firing', NEW n \in Names, Cached(n)',
               t.id = entries'[n].id
        PROVE  t.name = n
    BY <1>1, <2>1, <2>2, <2>3, <2>5, FillTimers DEF OneName
  <2> QED BY <2>4, <2>5 DEF OneName
<1>2. CASE \A q \in Requests : ~Fill(q)
  <2>1. \A n \in Names : Cached(n)' => Cached(n) /\ entries'[n].id = entries[n].id
    BY <1>2, EntriesMove
  <2>2. ASSUME NEW t \in timers' \cup firing', NEW n \in Names, Cached(n)',
               t.id = entries'[n].id
        PROVE  t.name = n
    BY <1>2, <2>1, <2>2, TimersMove DEF OneName
  <2> QED BY <2>1, <2>2 DEF OneName
<1> QED BY <1>1, <1>2

\* Two buffers are the same only if they are the same request's and kind's.
LEMMA Distinct ==
  /\ \A p, q : value(p) = value(q) => p = q
  /\ \A p, q : copy(p) = copy(q) => p = q
  /\ \A p, q : value(p) # copy(q)
BY DEF value, copy

\* What a request's own step does to the buffers, a Fill apart (get, Release).
LEMMA OwnBuffers ==
  ASSUME TypeInv, NEW q \in Requests, OwnStep(q), ~Fill(q)
  PROVE  /\ UNCHANGED <<entries, timers, firing>>
         /\ \A p \in Requests \ {q} : /\ value(p) \in live' <=> value(p) \in live
                                      /\ copy(p) \in live' <=> copy(p) \in live
         /\ value(q) \in live' => value(q) \in live \/ req'[q].pc = "fetched"
         /\ copy(q) \in live' => copy(q) \in live \/ req'[q].holds = "copy"
         /\ value(q) \in live /\ value(q) \notin live' => ~Filled(q)
         /\ value(q) \in live' => ~(req[q].holds = "value" /\ req'[q].holds # "value")
         /\ copy(q) \in live' /\ req[q].holds = "copy" => req'[q].holds = "copy"
         /\ value(q) \in live' /\ req[q].pc = "fetched" => req'[q].holds = "value"
         /\ req'[q].pc = "fetched" => value(q) \in live'
         /\ req'[q].holds = "copy" => copy(q) \in live'
         /\ req'[q].holds = "value" /\ req[q].pc = "fetched" => live' = live
         /\ req'[q].holds = "value" => req[q].pc = "fetched"
<1> USE Distinct
<1>0. GoodLocals(req[q])
  BY DEF TypeInv, TypeOK, Locals, GoodLocals, ReqType
<1>1. ASSUME \/ \E n \in Names : Resolve(q, n)
             \/ Miss(q) \/ BeginFetch(q) \/ FetchFails(q)
      PROVE  /\ live' = live /\ UNCHANGED <<entries, timers, firing>>
             /\ req[q].holds = "none" /\ req'[q].holds = "none" /\ req[q].pc # "fetched"
             /\ req'[q].pc # "fetched"
  <2>1. /\ live' = live /\ UNCHANGED <<entries, timers, firing>>
    BY <1>1 DEF Resolve, Miss, BeginFetch, FetchFails
  <2>2. /\ req[q].pc \in {"idle", "lookup", "miss", "fetching"}
        /\ req'[q].holds = "none" /\ req'[q].pc # "fetched"
    BY <1>1, OwnMoves
  <2> QED BY <1>0, <2>1, <2>2 DEF GoodLocals
<1>2. ASSUME Hit(q)
      PROVE  /\ UNCHANGED <<entries, timers, firing>>
             /\ req[q].holds = "none" /\ req[q].pc = "lookup"
             /\ \/ req'[q].pc = "done" /\ req'[q].holds = "none" /\ live' = live
                \/ req'[q].pc = "hit" /\ req'[q].holds = "copy" /\ live' = live \cup {copy(q)}
  <2>1. UNCHANGED <<entries, timers, firing>>
    BY <1>2 DEF Hit
  <2> QED BY <1>0, <1>2, <2>1, OwnMoves DEF GoodLocals
<1>3. ASSUME FetchAnswers(q)
      PROVE  /\ UNCHANGED <<entries, timers, firing>> /\ live' = live \cup {value(q)}
             /\ req[q].holds = "none" /\ req[q].pc = "fetching"
             /\ req'[q].pc = "fetched" /\ req'[q].holds = "none"
  BY <1>0, <1>3, OwnMoves DEF FetchAnswers, GoodLocals
<1>4. ASSUME Uncached(q)
      PROVE  /\ UNCHANGED <<entries, timers, firing, live>>
             /\ req[q].holds = "none" /\ req[q].pc = "fetched"
             /\ req'[q].pc = "delivering" /\ req'[q].holds = "value"
  BY <1>0, <1>4, OwnMoves DEF Uncached, GoodLocals
<1>5. ASSUME Refuse(q)
      PROVE  /\ UNCHANGED <<entries, timers, firing>>
             /\ live' = (live \cup {copy(q)}) \ {value(q)}
             /\ req[q].holds = "none" /\ req[q].pc = "fetched"
             /\ req'[q].pc = "delivering" /\ req'[q].holds = "copy"
  BY <1>0, <1>5, OwnMoves DEF Refuse, GoodLocals
<1>6. ASSUME Deliver(q)
      PROVE  /\ UNCHANGED <<entries, timers, firing>>
             /\ \/ live' = live \ {value(q)} /\ req[q].holds = "value" /\ req[q].pc = "delivering"
                \/ live' = live \ {copy(q)} /\ req[q].holds = "copy"
             /\ req'[q].pc = "done" /\ req'[q].holds = "none" /\ req[q].pc # "fetched"
  BY <1>0, <1>6, OwnMoves DEF Deliver, GoodLocals, value, copy
<1>11. CASE \/ \E n \in Names : Resolve(q, n)
            \/ Miss(q) \/ BeginFetch(q) \/ FetchFails(q)
  BY <1>1, <1>11
<1>12. CASE Hit(q)
  BY <1>2, <1>12
<1>13. CASE FetchAnswers(q)
  BY <1>3, <1>13 DEF Filled
<1>14. CASE Uncached(q)
  BY <1>4, <1>14
<1>15. CASE Refuse(q)
  BY <1>5, <1>15 DEF Filled
<1>16. CASE Deliver(q)
  BY <1>6, <1>16 DEF Filled
<1> QED BY <1>11, <1>12, <1>13, <1>14, <1>15, <1>16 DEF OwnStep

\* What a Fill does to the buffers and the timers (get, entry.wipe).
LEMMA FillBuffers ==
  ASSUME TypeInv, FromFills, OneName, NEW q \in Requests, Fill(q)
  PROVE  LET name == req[q].name IN
         /\ copy(q) \in live'
         /\ value(q) \in live' <=> value(q) \in live
         /\ \A p \in Requests \ {q} :
              /\ copy(p) \in live' <=> copy(p) \in live
              /\ value(p) \in live' <=>
                   value(p) \in live /\ ~(Cached(name) /\ entries[name].id = p)
         /\ \A t \in timers : ~(Cached(name) /\ entries[name].id = t.id) => t \in timers'
         /\ \E t \in timers' : /\ t.name = name /\ t.id = q
                               /\ t.at <= entries'[name].fetched + entries'[name].ttl
<1> USE Distinct
<1> DEFINE name == req[q].name
           old  == {n \in {name} : entries[n] # NoEntry}
           e    == [id |-> q, place |-> req[q].place, fetched |-> req[q].fetched,
                    ttl |-> Least(req[q].ttl, running[name].ttl), version |-> req[q].got]
           T    == [name |-> name, id |-> q, at |-> e.fetched + e.ttl]
<1>1. /\ entries' = [entries EXCEPT ![name] = e]
      /\ timers' = stopped(old) \cup {T}
      /\ live' = released(old) \cup {copy(q)}
  BY DEF Fill
<1>2. name \in Names /\ req[q].pc = "fetched" /\ ~Filled(q) /\ entries'[name].ttl \in Nat
      /\ entries'[name].fetched \in Nat
  <2>1. req[q].fetched \in Nat
    BY DEF TypeInv, TypeOK
  <2> QED BY <2>1, FillMoves DEF Filled
<1>3. entries'[name] = e
  BY <1>1, <1>2 DEF TypeInv, TypeOK
<1>4. T.name = name /\ T.id = q /\ T.at = e.fetched + e.ttl /\ T \in timers'
  BY <1>1
<1>5. \A i : i \in wiped(old) <=> Cached(name) /\ i = entries[name].id
  BY DEF wiped, Cached
<1>6. ~(Cached(name) /\ entries[name].id = q)
  BY <1>2 DEF FromFills
<1> HIDE DEF e, T, old, name
<1>7. T.at <= entries'[name].fetched + entries'[name].ttl
  BY <1>2, <1>3, <1>4
<1>8. \A p : /\ value(p) \in live' <=> value(p) \in live /\ p \notin wiped(old)
             /\ p # q => (copy(p) \in live' <=> copy(p) \in live)
  BY <1>1 DEF released
<1>9. \A t \in timers : t.id \notin wiped(old) => t \in timers'
  BY <1>1 DEF stopped
<1> QED BY <1>1, <1>4, <1>5, <1>6, <1>7, <1>8, <1>9 DEF name

\* What the cache itself wipes, its timers included: what it held, or what a
\* timer was for (prune, expire, close, entry.wipe).
CacheStep ==
  Prune \/ Close \/ \E t \in firing : Expire(t)

\* The cache wipes only what is past its Fill, and all of it that it drops.
LEMMA CacheBuffers ==
  ASSUME TypeInv, FromFills, OneName, CacheStep
  PROVE  /\ req' = req
         /\ \A p \in Requests :
              /\ copy(p) \in live' <=> copy(p) \in live
              /\ value(p) \in live /\ value(p) \notin live' => Filled(p)
              /\ \A n \in Names : Cached(n)' =>
                   /\ entries'[n].id = p => (value(p) \in live' <=> value(p) \in live)
              /\ \A n \in Names : Cached(n) /\ entries[n].id = p /\ value(p) \in live' => Cached(n)'
         /\ live' \subseteq live
<1> USE Distinct
<1>0. \A n \in Names : Cached(n) => entries[n].id \in Requests
  BY DEF TypeInv, TypeOK, Cached, Entry
<1>m. \A n \in Names : Cached(n)' => Cached(n) /\ entries'[n].id = entries[n].id
  <2>1. \A q \in Requests : ~Fill(q)
    <3>1. req' = req
      BY DEF CacheStep, Prune, Close, Expire
    <3>2. \A q \in Requests : Fill(q) => req[q].pc = "fetched" /\ req'[q].pc = "delivering"
      BY OwnMoves
    <3> QED BY <3>1, <3>2
  <2>2. [Next]_vars
    BY DEF CacheStep, Next
  <2> QED BY <2>1, <2>2, EntriesMove
<1>1. CASE Prune
  <2>1. /\ req' = req /\ live' = released(pruned)
        /\ \A n \in Names : Cached(n) /\ n \notin pruned => Cached(n)'
    <3>1. \A n \in Names : Cached(n) => entries[n] \in Entry
      BY DEF TypeInv, TypeOK, Cached
    <3>2. \A n \in shortened : [entries[n] EXCEPT !.ttl = running[n].ttl] # NoEntry
      <4>1. ASSUME NEW n \in shortened
            PROVE  [entries[n] EXCEPT !.ttl = running[n].ttl] \in Entry
        <5>1. n \in Names /\ entries[n] \in Entry /\ caches(n, entries[n].place)
          BY <3>1 DEF shortened, pruned, Cached
        <5>2. running[n].ttl \in TTLs
          BY <5>1 DEF caches, TypeInv, TypeOK, Mapping
        <5> QED BY <5>1, <5>2 DEF Entry
      <4> QED BY <4>1, Values
    <3> QED BY <1>1, <3>2 DEF Prune, Cached
  <2>2. \A i : i \in wiped(pruned) <=> \E n \in pruned : i = entries[n].id
    BY DEF wiped
  <2>3. \A n \in pruned : n \in Names /\ Cached(n) /\ ~Cached(n)'
    BY <1>1 DEF pruned, Cached, Prune
  <2>4. \A p : /\ value(p) \in live' <=> value(p) \in live /\ p \notin wiped(pruned)
               /\ copy(p) \in live' <=> copy(p) \in live
    BY <2>1 DEF released
  <2>5. live' \subseteq live
    BY <2>1 DEF released
  <2>6. \A p \in wiped(pruned) : Filled(p)
    BY <2>2, <2>3 DEF FromFills
  <2>7. \A n \in Names : Cached(n)' => entries'[n].id \notin wiped(pruned)
    BY <1>m, <2>2, <2>3 DEF OneName
  <2>8. \A n \in Names : Cached(n) /\ entries[n].id \notin wiped(pruned) => Cached(n)'
    BY <2>1, <2>2
  <2> QED BY <2>1, <2>4, <2>5, <2>6, <2>7, <2>8
<1>2. CASE Close
  <2> DEFINE cached == {n \in Names : entries[n] # NoEntry}
  <2>1. req' = req /\ live' = released(cached) /\ \A n \in Names : ~Cached(n)'
    BY <1>2 DEF Close, Cached
  <2>2. \A i : i \in wiped(cached) <=> \E n \in Names : Cached(n) /\ i = entries[n].id
    BY DEF wiped, Cached
  <2> HIDE DEF cached
  <2>3. \A p : /\ value(p) \in live' <=> value(p) \in live /\ p \notin wiped(cached)
               /\ copy(p) \in live' <=> copy(p) \in live
    BY <2>1 DEF released
  <2>4. live' \subseteq live
    BY <2>1 DEF released
  <2> QED BY <2>1, <2>2, <2>3, <2>4 DEF FromFills
<1>3. ASSUME NEW t \in firing, Expire(t)
      PROVE  /\ req' = req /\ live' = live \ {value(t.id)} /\ t.name \in Names
             /\ \A n \in Names : Cached(n) /\ ~(n = t.name /\ entries[n].id = t.id) => Cached(n)'
             /\ \A n \in Names : Cached(n)' => ~(n = t.name /\ entries[n].id = t.id)
  BY <1>3 DEF Expire, Cached, TypeInv, TypeOK
<1>4. ASSUME NEW t \in firing, Expire(t)
      PROVE  /\ req' = req
             /\ \A p \in Requests :
                  /\ copy(p) \in live' <=> copy(p) \in live
                  /\ value(p) \in live /\ value(p) \notin live' => Filled(p)
                  /\ \A n \in Names : Cached(n)' =>
                       /\ entries'[n].id = p => (value(p) \in live' <=> value(p) \in live)
                  /\ \A n \in Names : Cached(n) /\ entries[n].id = p /\ value(p) \in live' => Cached(n)'
             /\ live' \subseteq live
  <2>1. Filled(t.id)
    BY <1>4 DEF FromFills
  <2>2. \A n \in Names : Cached(n)' => entries'[n].id # t.id
    BY <1>m, <1>3, <1>4 DEF OneName
  <2>3. \A p : /\ copy(p) \in live' <=> copy(p) \in live
               /\ value(p) \in live' <=> value(p) \in live /\ p # t.id
    BY <1>3, <1>4
  <2> QED BY <1>3, <1>4, <2>1, <2>2, <2>3
<1> QED BY <1>1, <1>2, <1>4 DEF CacheStep

\* The steps that touch no buffer and no entry.
StillStep ==
  UNCHANGED <<live, entries, req>>

\* Next, by what its steps do to buffers.
LEMMA StepKinds ==
  ASSUME [Next]_vars
  PROVE  \/ \E q \in Requests : OwnStep(q)
         \/ CacheStep
         \/ StillStep /\ (UNCHANGED <<timers, firing>> \/ \E t \in timers : Fire(t))
BY DEF Next, OwnStep, CacheStep, StillStep, vars, Pass, Reload, Rotate, Fire

\* Each step preserves that what is cached has not been wiped.
LEMMA CachedStep ==
  ASSUME TypeInv, OwnerInv, [Next]_vars
  PROVE  CachedIsLive'
<1>0. /\ FromFills /\ OneName /\ FetchedIsLive /\ CachedIsLive
      /\ \A n \in Names : Cached(n) => entries[n].id \in Requests
  BY DEF OwnerInv, BuffersOwned, TypeInv, TypeOK, Cached, Entry
<1>1. ASSUME NEW q \in Requests, Fill(q)
      PROVE  CachedIsLive'
  <2>1. req[q].pc = "fetched" /\ value(q) \in live'
    BY <1>0, <1>1, FillMoves, FillBuffers DEF FetchedIsLive
  <2>2. ASSUME NEW n \in Names, Cached(n)', n # req[q].name
        PROVE  entries'[n] = entries[n] /\ Cached(n) /\ value(entries[n].id) \in live'
    <3>1. entries'[n] = entries[n] /\ Cached(n)
      BY <1>1, <2>2, FillMoves DEF Cached
    <3>2. req[q].name \in Names
      BY <1>1, FillMoves
    <3>3. ~Filled(q)
      BY <2>1 DEF Filled
    <3>4. entries[n].id # q /\ ~(Cached(req[q].name) /\ entries[req[q].name].id = entries[n].id)
      BY <1>0, <2>2, <3>1, <3>2, <3>3 DEF OneName, FromFills
    <3> QED BY <1>0, <1>1, <3>1, <3>4, FillBuffers DEF CachedIsLive
  <2>3. entries'[req[q].name].id = q
    BY <1>1, FillMoves
  <2> QED BY <2>1, <2>2, <2>3 DEF CachedIsLive, value
<1>2. ASSUME NEW q \in Requests, OwnStep(q), ~Fill(q)
      PROVE  CachedIsLive'
  <2>1. entries' = entries
    BY <1>2, OwnBuffers
  <2>2. ASSUME NEW n \in Names, Cached(n)
        PROVE  value(entries[n].id) \in live'
    BY <1>0, <1>2, <2>2, OwnBuffers DEF CachedIsLive, FromFills
  <2> QED BY <2>1, <2>2 DEF CachedIsLive, Cached, value
<1>3. CASE CacheStep
  <2>1. \A q \in Requests : ~Fill(q)
    <3>1. \A q \in Requests : Fill(q) => req[q].pc = "fetched" /\ req'[q].pc = "delivering"
      BY OwnMoves
    <3> QED BY <1>0, <1>3, <3>1, CacheBuffers
  <2>2. ASSUME NEW n \in Names, Cached(n)'
        PROVE  value(entries[n].id)' \in live'
    <3>1. Cached(n) /\ entries'[n].id = entries[n].id
      BY <2>1, <2>2, EntriesMove
    <3> QED BY <1>0, <1>3, <2>2, <3>1, CacheBuffers DEF CachedIsLive, value
  <2> QED BY <2>2 DEF CachedIsLive
<1>4. CASE StillStep
  BY <1>0, <1>4 DEF StillStep, CachedIsLive, Cached, value
<1> QED BY <1>1, <1>2, <1>3, <1>4, StepKinds

\* Each step preserves that every buffer is in the cache or in the hands of its
\* request.
LEMMA PlaintextStep ==
  ASSUME TypeInv, OwnerInv, [Next]_vars
  PROVE  NoPlaintextLeft'
<1>0. FromFills /\ OneName /\ NoPlaintextLeft
  BY DEF OwnerInv, BuffersOwned
<1> DEFINE InCache(p) == \E n \in Names : Cached(n) /\ entries[n].id = p
           InHand(p)  == req[p].pc = "fetched" \/ req[p].holds = "value"
<1>s. SUFFICES ASSUME NEW p \in Requests
               PROVE  /\ value(p) \in live' => InCache(p)' \/ InHand(p)'
                      /\ copy(p) \in live' => req'[p].holds = "copy"
  BY DEF NoPlaintextLeft, value, copy
<1>i. /\ value(p) \in live => InCache(p) \/ InHand(p)
      /\ copy(p) \in live => req[p].holds = "copy"
  BY <1>0 DEF NoPlaintextLeft
<1>m. ASSUME NEW q \in Requests, OwnStep(q), p # q
      PROVE  req'[p] = req[p]
  <2>1. PICK r : req' = [req EXCEPT ![q] = r]
    BY <1>m, OwnLocals
  <2> QED BY <1>m, <2>1 DEF TypeInv, TypeOK
<1>1. ASSUME NEW q \in Requests, Fill(q)
      PROVE  /\ value(p) \in live' => InCache(p)' \/ InHand(p)'
             /\ copy(p) \in live' => req'[p].holds = "copy"
  <2>1. CASE p = q
    <3>1. InCache(q)' /\ req'[q].holds = "copy"
      BY <1>1, FillMoves, OwnMoves DEF Cached
    <3> QED BY <2>1, <3>1
  <2>2. CASE p # q
    <3>1. req'[p] = req[p]
      BY <1>1, <1>m, <2>2 DEF OwnStep
    <3>2. /\ copy(p) \in live' => copy(p) \in live
          /\ value(p) \in live' =>
               value(p) \in live /\ ~(Cached(req[q].name) /\ entries[req[q].name].id = p)
      BY <1>0, <1>1, <2>2, FillBuffers
    <3>3. ASSUME value(p) \in live', InCache(p)
          PROVE  InCache(p)'
      <4>1. PICK n \in Names : Cached(n) /\ entries[n].id = p
        BY <3>3
      <4>2. n # req[q].name
        BY <3>2, <3>3, <4>1
      <4>3. entries'[n] = entries[n]
        BY <1>1, <4>2, FillMoves
      <4> QED BY <4>1, <4>3 DEF Cached
    <3> QED BY <1>i, <3>1, <3>2, <3>3
  <2> QED BY <2>1, <2>2
<1>2. ASSUME NEW q \in Requests, OwnStep(q), ~Fill(q)
      PROVE  /\ value(p) \in live' => InCache(p)' \/ InHand(p)'
             /\ copy(p) \in live' => req'[p].holds = "copy"
  <2>1. InCache(p)' <=> InCache(p)
    BY <1>2, OwnBuffers DEF Cached
  <2>2. CASE p = q
    <3>1. ASSUME value(q) \in live'
          PROVE  InCache(q) \/ InHand(q)'
      BY <1>2, <1>i, <2>2, <3>1, OwnBuffers
    <3>2. copy(q) \in live' => req'[q].holds = "copy"
      BY <1>2, <1>i, <2>2, OwnBuffers
    <3> QED BY <2>1, <2>2, <3>1, <3>2
  <2>3. CASE p # q
    BY <1>2, <1>i, <1>m, <2>1, <2>3, OwnBuffers
  <2> QED BY <2>2, <2>3
<1>3. CASE CacheStep
  <2>0. /\ req' = req /\ live' \subseteq live
        /\ \A n \in Names : Cached(n) /\ entries[n].id = p /\ value(p) \in live' => Cached(n)'
    BY <1>0, <1>3, CacheBuffers
  <2>1. \A q \in Requests : ~Fill(q)
    <3>1. \A q \in Requests : Fill(q) => req[q].pc = "fetched" /\ req'[q].pc = "delivering"
      BY OwnMoves
    <3> QED BY <2>0, <3>1
  <2>2. ASSUME value(p) \in live', InCache(p)
        PROVE  InCache(p)'
    <3>1. PICK n \in Names : Cached(n) /\ entries[n].id = p
      BY <2>2
    <3>2. Cached(n)'
      BY <2>0, <2>2, <3>1
    <3>3. entries'[n].id = p
      BY <2>1, <3>1, <3>2, EntriesMove
    <3> QED BY <3>2, <3>3
  <2> QED BY <1>i, <2>0, <2>2
<1>4. CASE StillStep
  BY <1>i, <1>4 DEF StillStep, Cached
<1> QED BY <1>1, <1>2, <1>3, <1>4, StepKinds

\* Each step preserves that a request has what it fetched or was given.
LEMMA HeldStep ==
  ASSUME TypeInv, OwnerInv, [Next]_vars
  PROVE  FetchedIsLive' /\ DeliveredIsLive'
<1>0. FromFills /\ OneName /\ FetchedIsLive /\ DeliveredIsLive /\ Locals /\ Locals'
  BY TypeStep DEF OwnerInv, BuffersOwned, TypeInv
<1> DEFINE Has(p) == /\ req[p].pc = "fetched" => value(p) \in live
                     /\ req[p].holds = "value" => value(p) \in live
                     /\ req[p].holds = "copy" => copy(p) \in live
<1>1. \A p \in Requests : Has(p)
  <2> SUFFICES ASSUME NEW p \in Requests PROVE Has(p)
    OBVIOUS
  <2>1. req[p].holds \in {"value", "copy"} => req[p].pc \in {"hit", "delivering"}
    BY <1>0 DEF Locals
  <2>2. req[p].holds \in {"value", "copy"} => <<p, req[p].holds>> \in live
    BY <1>0, <2>1 DEF DeliveredIsLive
  <2> QED BY <1>0, <2>2 DEF FetchedIsLive, value, copy
<1>2. SUFFICES \A p \in Requests : Has(p)'
  <2>1. \A p \in Requests : req'[p].pc \in {"hit", "delivering"} => req'[p].holds \in {"value", "copy"}
    BY <1>0 DEF Locals
  <2> QED BY <1>2, <2>1 DEF FetchedIsLive, DeliveredIsLive, value, copy
<1>3. SUFFICES ASSUME NEW p \in Requests PROVE Has(p)'
  OBVIOUS
<1>f. Filled(p) => req[p].pc # "fetched" /\ req[p].holds # "value"
  BY <1>0 DEF Filled, Locals
<1>v. value(p)' = value(p) /\ copy(p)' = copy(p)
  BY DEF value, copy
<1>m. ASSUME NEW q \in Requests, OwnStep(q), p # q
      PROVE  req'[p] = req[p]
  <2>1. PICK r : req' = [req EXCEPT ![q] = r]
    BY <1>m, OwnLocals
  <2> QED BY <1>m, <2>1 DEF TypeInv, TypeOK
<1>4. ASSUME NEW q \in Requests, Fill(q)
      PROVE  Has(p)'
  <2>1. CASE p = q
    BY <1>4, <1>v, <2>1, <1>0, OwnMoves, FillBuffers
  <2>2. CASE p # q
    <3>1. req'[p] = req[p]
      BY <1>4, <1>m, <2>2 DEF OwnStep
    <3>2. Cached(req[q].name) /\ entries[req[q].name].id = p => Filled(p)
      BY <1>0, <1>4, FillMoves DEF FromFills
    <3>3. req[p].pc = "fetched" \/ req[p].holds = "value" => (value(p) \in live => value(p) \in live')
      BY <1>0, <1>4, <1>f, <2>2, <3>2, FillBuffers
    <3>4. copy(p) \in live => copy(p) \in live'
      BY <1>0, <1>4, <2>2, FillBuffers
    <3> QED BY <1>1, <1>v, <3>1, <3>3, <3>4
  <2> QED BY <2>1, <2>2
<1>5. ASSUME NEW q \in Requests, OwnStep(q), ~Fill(q)
      PROVE  Has(p)'
  <2>1. CASE p = q
    BY <1>1, <1>5, <1>v, <2>1, OwnBuffers
  <2>2. CASE p # q
    BY <1>1, <1>5, <1>m, <1>v, <2>2, OwnBuffers
  <2> QED BY <2>1, <2>2
<1>6. CASE CacheStep
  BY <1>0, <1>1, <1>6, <1>f, <1>v, CacheBuffers
<1>7. CASE StillStep
  BY <1>1, <1>7, <1>v DEF StillStep
<1> QED BY <1>4, <1>5, <1>6, <1>7, StepKinds

\* Each step preserves that what is cached has a timer in time.
LEMMA TimerStep ==
  ASSUME TypeInv, OwnerInv, [Next]_vars
  PROVE  TimerPending'
<1>0. /\ FromFills /\ OneName /\ TimerPending
      /\ entries \in [Names -> Entry \cup {NoEntry}]
      /\ running \in [Names -> Mapping \cup {Absent}]
      /\ timers \subseteq [name : Names, id : Requests, at : Nat]
  BY DEF OwnerInv, BuffersOwned, TypeInv, TypeOK
<1> DEFINE Pending(n) ==
             \/ \E t \in firing : t.name = n /\ t.id = entries[n].id
             \/ \E t \in timers : /\ t.name = n /\ t.id = entries[n].id
                                  /\ t.at <= entries[n].fetched + entries[n].ttl
<1>s. SUFFICES ASSUME NEW n \in Names, Cached(n)'
               PROVE  Pending(n)'
  BY DEF TimerPending
<1>1. ASSUME NEW q \in Requests, Fill(q)
      PROVE  Pending(n)'
  <2>1. CASE n = req[q].name
    <3>1. entries'[n].id = q
      BY <1>1, <2>1, FillMoves
    <3>2. \E t \in timers' : /\ t.name = n /\ t.id = q
                             /\ t.at <= entries'[n].fetched + entries'[n].ttl
      BY <1>0, <1>1, <2>1, FillBuffers
    <3> QED BY <3>1, <3>2
  <2>2. CASE n # req[q].name
    <3>1. entries'[n] = entries[n] /\ firing' = firing /\ req[q].name \in Names
      BY <1>1, <2>2, FillMoves
    <3>2. Cached(n)
      BY <1>s, <3>1 DEF Cached
    <3>3. ~(Cached(req[q].name) /\ entries[req[q].name].id = entries[n].id)
      BY <1>0, <2>2, <3>1, <3>2 DEF OneName
    <3>4. \A t \in timers : t.id = entries[n].id => t \in timers'
      BY <1>0, <1>1, <3>3, FillBuffers
    <3>5. Pending(n)
      BY <1>0, <3>2 DEF TimerPending
    <3> QED BY <3>1, <3>4, <3>5
  <2> QED BY <2>1, <2>2
<1>2. CASE Prune
  <2>1. /\ entries'[n] = IF n \in pruned THEN NoEntry
                         ELSE IF n \in shortened THEN [entries[n] EXCEPT !.ttl = running[n].ttl]
                         ELSE entries[n]
        /\ firing' = firing
        /\ timers' = {t \in stopped(pruned) : t.name \notin shortened}
                 \cup {[name |-> m, id |-> entries[m].id,
                        at |-> entries[m].fetched + running[m].ttl] : m \in shortened}
    BY <1>2 DEF Prune
  <2>2. n \notin pruned
    BY <1>s, <2>1 DEF Cached
  <2>3. CASE n \in shortened
    <3>1. /\ entries[n] \in Entry /\ caches(n, entries[n].place)
      BY <1>0, <2>2, <2>3 DEF shortened, pruned
    <3>2. /\ entries'[n].id = entries[n].id /\ entries'[n].fetched = entries[n].fetched
          /\ entries'[n].ttl = running[n].ttl
      BY <2>1, <2>2, <2>3, <3>1 DEF Entry
    <3>3. entries[n].fetched \in Nat /\ running[n].ttl \in Nat
      <4>1. running[n] \in Mapping
        BY <1>0, <3>1 DEF caches
      <4> QED BY <3>1, <4>1, Values DEF Entry, Mapping
    <3> DEFINE T == [name |-> n, id |-> entries[n].id,
                     at |-> entries[n].fetched + running[n].ttl]
    <3>4. T \in timers' /\ T.name = n /\ T.id = entries[n].id
          /\ T.at = entries[n].fetched + running[n].ttl
      BY <2>1, <2>3
    <3> HIDE DEF T
    <3> QED BY <3>2, <3>3, <3>4
  <2>4. CASE n \notin shortened
    <3>1. entries'[n] = entries[n]
      BY <2>1, <2>2, <2>4
    <3>2. Cached(n)
      BY <1>s, <3>1 DEF Cached
    <3>3. Pending(n)
      BY <1>0, <3>2 DEF TimerPending
    <3>4. entries[n].id \notin wiped(pruned)
      <4>1. \A m \in pruned : m \in Names /\ Cached(m)
        BY DEF pruned, Cached
      <4> QED BY <1>0, <2>2, <3>2, <4>1 DEF wiped, OneName
    <3>5. \A t \in timers : t.name = n /\ t.id = entries[n].id => t \in timers'
      BY <2>1, <2>4, <3>4 DEF stopped
    <3> QED BY <2>1, <3>1, <3>3, <3>5
  <2> QED BY <2>3, <2>4
<1>3. CASE Close
  BY <1>s, <1>3 DEF Close, Cached
<1>4. ASSUME NEW t \in firing, Expire(t)
      PROVE  Pending(n)'
  <2>1. /\ entries'[n] = entries[n] /\ ~(n = t.name /\ entries[n].id = t.id)
        /\ timers' = timers /\ firing' = firing \ {t}
    BY <1>0, <1>s, <1>4 DEF Expire, Cached
  <2>2. Pending(n)
    BY <1>0, <1>s, <2>1 DEF TimerPending, Cached
  <2> QED BY <2>1, <2>2
<1>5. ASSUME NEW t \in timers, Fire(t)
      PROVE  Pending(n)'
  <2>1. /\ entries' = entries /\ timers' = timers \ {t}
        /\ firing' = firing \cup {[name |-> t.name, id |-> t.id]}
    BY <1>5 DEF Fire
  <2>2. Pending(n)
    BY <1>0, <1>s, <2>1 DEF TimerPending, Cached
  <2>3. CASE t.name = n /\ t.id = entries[n].id
    <3> DEFINE f == [name |-> t.name, id |-> t.id]
    <3>1. f \in firing' /\ f.name = n /\ f.id = entries'[n].id
      BY <2>1, <2>3
    <3> HIDE DEF f
    <3> QED BY <3>1
  <2>4. CASE ~(t.name = n /\ t.id = entries[n].id)
    BY <2>1, <2>2, <2>4
  <2> QED BY <2>3, <2>4
<1>6. CASE UNCHANGED <<entries, timers, firing>>
  BY <1>0, <1>s, <1>6 DEF TimerPending, Cached
<1>7. ASSUME NEW q \in Requests, OwnStep(q), ~Fill(q)
      PROVE  UNCHANGED <<entries, timers, firing>>
  BY <1>7, OwnBuffers
<1> QED BY <1>1, <1>2, <1>3, <1>4, <1>5, <1>6, <1>7, StepKinds DEF CacheStep, StillStep

\* Every locked buffer has exactly the holder that will release it, for however
\* many requests, reloads, late timers and whenever the cache is closed (get,
\* expire, prune, close, entry.wipe).
THEOREM EveryBufferOwned == Spec => []BuffersOwned
<1>1. Init => OwnerInv
  <2> SUFFICES ASSUME Init PROVE OwnerInv
    OBVIOUS
  <2>1. /\ \A n \in Names : ~Cached(n)
        /\ timers = {} /\ firing = {} /\ live = {}
    BY DEF Init, Cached
  <2>2. \A q \in Requests : req[q].pc = "idle"
    BY Ends DEF Init
  <2> QED BY <2>1, <2>2 DEF OwnerInv, FromFills, OneName, FetchedIsLive, BuffersOwned,
            CachedIsLive, NoPlaintextLeft, DeliveredIsLive, TimerPending
<1>2. TypeInv /\ OwnerInv /\ [Next]_vars => OwnerInv'
  <2> SUFFICES ASSUME TypeInv, OwnerInv, [Next]_vars PROVE OwnerInv'
    OBVIOUS
  <2>1. FromFills' /\ OneName'
    BY FromFillsStep, OneNameStep DEF OwnerInv
  <2> QED BY <2>1, CachedStep, PlaintextStep, HeldStep, TimerStep DEF OwnerInv, BuffersOwned
<1>3. OwnerInv => BuffersOwned
  BY DEF OwnerInv
<1> QED BY <1>1, <1>2, <1>3, TypeCorrect, PTL DEF Spec

-----------------------------------------------------------------------------
(***************************************************************************)
(* How old a hit may be.                                                   *)
(***************************************************************************)
\* A version stays current as of a time, whatever is rotated later.
LEMMA StaysCurrent ==
  ASSUME TypeInv, [Next]_vars, NEW p \in Places, NEW v \in Nat, NEW f \in Nat, f <= now,
         CurrentAt(p, v, f)
  PROVE  CurrentAt(p, v, f)'
<1>0. now \in Nat /\ rotations \in [Places -> Seq(Nat)]
  BY DEF TypeInv, TypeOK
<1>1. ASSUME NEW a \in Places, Rotate(a)
      PROVE  CurrentAt(p, v, f)'
  <2>1. CASE a = p
    <3>1. rotations'[p] = Append(rotations[p], now) /\ rotations[p] \in Seq(Nat)
      BY <1>0, <1>1, <2>1 DEF Rotate
    <3>2. /\ Len(rotations'[p]) = Len(rotations[p]) + 1 /\ Len(rotations[p]) \in Nat
          /\ rotations'[p][Len(rotations[p]) + 1] = now
          /\ \A i \in 1 .. Len(rotations[p]) : rotations'[p][i] = rotations[p][i]
      BY <1>0, <3>1
    <3>3. CASE v < Len(rotations[p])
      <4>1. v + 1 \in 1 .. Len(rotations[p])
        BY <3>2, <3>3
      <4> QED BY <3>2, <3>3, <4>1 DEF CurrentAt
    <3>4. CASE v = Len(rotations[p])
      BY <1>0, <3>2, <3>4 DEF CurrentAt
    <3> QED BY <3>2, <3>3, <3>4 DEF CurrentAt
  <2>2. CASE a # p
    <3>1. rotations'[p] = rotations[p]
      BY <1>0, <1>1, <2>2 DEF Rotate
    <3> QED BY <3>1 DEF CurrentAt
  <2> QED BY <2>1, <2>2
<1>2. CASE rotations' = rotations
  BY <1>2 DEF CurrentAt
<1> QED
  BY <1>1, <1>2
  DEF Next, vars, Pass, Reload, Prune, Close, Fire, Expire, Resolve, Hit, Miss, BeginFetch,
      FetchAnswers, FetchFails, Uncached, Refuse, Fill, Deliver

\* The clock does not go back.
LEMMA TimePasses ==
  ASSUME TypeInv, [Next]_vars
  PROVE  now \in Nat /\ now' \in Nat /\ now <= now'
<1>1. now \in Nat /\ now' \in {now, now + 1}
  BY
  DEF TypeInv, TypeOK, Next, vars, Pass, Rotate, Reload, Prune, Close, Fire, Expire, Resolve, Hit,
      Miss, BeginFetch, FetchAnswers, FetchFails, Uncached, Refuse, Fill, Deliver
<1> QED BY <1>1

\* The parts of FreshInv: for one entry, one fetch and one hit.
FreshHit(q) ==
  LET R == rotations[req[q].place]
  IN  req[q].got = Len(R) \/ (req[q].got < Len(R) /\ R[req[q].got + 1] > req[q].at - req[q].ttl)

EntryFresh(n) ==
  /\ entries[n].fetched <= now
  /\ CurrentAt(entries[n].place, entries[n].version, entries[n].fetched)

FetchFresh(q) ==
  /\ req[q].pc \in {"fetching", "fetched"} => req[q].fetched <= now
  /\ req[q].pc = "fetched" => CurrentAt(req[q].place, req[q].got, req[q].fetched)

HitFresh(q) ==
  req[q].pc = "hit" => req[q].at <= now /\ req[q].ttl > 0 /\ FreshHit(q)

\* FreshInv is its parts.
LEMMA FreshParts ==
  FreshInv <=> /\ \A n \in Names : Cached(n) => EntryFresh(n)
               /\ \A q \in Requests : FetchFresh(q) /\ HitFresh(q)
BY DEF FreshInv, EntryFresh, FetchFresh, HitFresh, HitIsFresh, FreshHit

\* A hit that was fresh when it was made stays so: later rotations come after it.
LEMMA HitStays ==
  ASSUME TypeInv, [Next]_vars, NEW q \in Requests, req[q].pc = "hit", HitFresh(q),
         req'[q] = req[q]
  PROVE  HitFresh(q)'
<1> DEFINE p == req[q].place
           v == req[q].got
           f == IF req[q].at < req[q].ttl THEN 0 ELSE req[q].at - req[q].ttl + 1
<1>1. /\ p \in Places /\ v \in Nat /\ req[q].at \in Nat /\ req[q].ttl \in Nat
      /\ req[q].ttl > 0 /\ req[q].at <= now /\ now \in Nat
      /\ rotations[p] \in Seq(Nat)
  BY Values DEF TypeInv, TypeOK, Locals, HitFresh
<1>2. f \in Nat /\ f <= now
  BY <1>1
<1>3. rotations'[p] \in Seq(Nat)
  BY <1>1, TypeStep DEF TypeInv, TypeOK
<1>4. ASSUME NEW R \in Seq(Nat), NEW i \in 1 .. Len(R)
      PROVE  R[i] >= f <=> R[i] > req[q].at - req[q].ttl
  <2>1. R[i] \in Nat
    OBVIOUS
  <2> QED BY <1>1, <2>1
<1>5. CurrentAt(p, v, f)
  <2>1. v \in Nat /\ Len(rotations[p]) \in Nat
    BY <1>1
  <2>2. v < Len(rotations[p]) => v + 1 \in 1 .. Len(rotations[p])
    BY <2>1
  <2>3. FreshHit(q)
    BY DEF HitFresh
  <2> HIDE DEF f
  <2> QED BY <1>1, <1>4, <2>1, <2>2, <2>3 DEF CurrentAt, FreshHit
<1> HIDE DEF f
<1>6. CurrentAt(p, v, f)'
  <2>1. \A x \in Places, y \in Nat, z \in Nat :
          z <= now /\ CurrentAt(x, y, z) => CurrentAt(x, y, z)'
    BY StaysCurrent
  <2>2. /\ v <= Len(rotations'[p])
        /\ v < Len(rotations'[p]) => rotations'[p][v + 1] >= f
    BY <1>1, <1>2, <1>5, <2>1 DEF CurrentAt
  <2>3. p' = p /\ v' = v /\ f' = f
    BY DEF f
  <2> QED BY <2>2, <2>3 DEF CurrentAt
<1>7. FreshHit(q)'
  <2>0. p' = p /\ v' = v /\ f' = f
    BY DEF f
  <2>1. v \in Nat /\ Len(rotations'[p]) \in Nat
    BY <1>1, <1>3
  <2>2. v < Len(rotations'[p]) => v + 1 \in 1 .. Len(rotations'[p])
    BY <2>1
  <2> QED BY <1>1, <1>3, <1>4, <1>6, <2>0, <2>1, <2>2 DEF CurrentAt, FreshHit
<1> QED BY <1>1, <1>7, TimePasses DEF HitFresh

\* A request's own step takes no time, and rotates nothing.
LEMMA OwnStill ==
  ASSUME NEW q, OwnStep(q)
  PROVE  UNCHANGED <<now, rotations>>
BY DEF OwnStep, Resolve, Hit, Miss, BeginFetch, FetchAnswers, FetchFails, Uncached, Refuse, Fill,
       Deliver

\* Each step preserves that what is cached was current when its fetch began.
LEMMA EntriesFresh ==
  ASSUME TypeInv, FreshInv, [Next]_vars, NEW n \in Names, Cached(n)'
  PROVE  EntryFresh(n)'
<1>0. TypeInv'
  BY TypeStep
<1>1. ASSUME Cached(n), entries'[n].fetched = entries[n].fetched,
             entries'[n].place = entries[n].place, entries'[n].version = entries[n].version
      PROVE  EntryFresh(n)'
  <2>1. /\ entries[n].place \in Places /\ entries[n].version \in Nat
        /\ entries[n].fetched \in Nat
    BY <1>1 DEF TypeInv, TypeOK, Cached, Entry
  <2>2. EntryFresh(n)
    BY <1>1, FreshParts
  <2>3. \A x \in Places, y \in Nat, z \in Nat :
          z <= now /\ CurrentAt(x, y, z) => CurrentAt(x, y, z)'
    BY StaysCurrent
  <2>4. entries[n].fetched <= now'
    BY <2>1, <2>2, TimePasses DEF EntryFresh
  <2> QED BY <1>1, <2>1, <2>2, <2>3, <2>4 DEF EntryFresh, CurrentAt
<1>2. ASSUME NEW q \in Requests, Fill(q)
      PROVE  EntryFresh(n)'
  <2>1. CASE n = req[q].name
    <3>1. req[q].pc = "fetched" /\ FetchFresh(q)
      BY <1>2, FillMoves, FreshParts
    <3>2. /\ entries'[n].fetched = req[q].fetched /\ entries'[n].place = req[q].place
          /\ entries'[n].version = req[q].got /\ UNCHANGED <<now, rotations>>
      BY <1>2, <2>1, FillMoves
    <3> QED BY <3>1, <3>2 DEF FetchFresh, EntryFresh, CurrentAt
  <2>2. CASE n # req[q].name
    <3>1. entries'[n] = entries[n]
      BY <1>2, <2>2, FillMoves
    <3>2. Cached(n)
      BY <3>1 DEF Cached
    <3> QED BY <1>1, <3>1, <3>2
  <2> QED BY <2>1, <2>2
<1>3. CASE \A q \in Requests : ~Fill(q)
  BY <1>1, <1>3, EntriesMove
<1> QED BY <1>2, <1>3

\* Each step preserves that a hit and a fetch are fresh.
LEMMA RequestsFresh ==
  ASSUME TypeInv, FreshInv, [Next]_vars, NEW q \in Requests
  PROVE  FetchFresh(q)' /\ HitFresh(q)'
<1>0. /\ FetchFresh(q) /\ HitFresh(q) /\ req[q] \in ReqType /\ GoodLocals(req[q])
      /\ rotations \in [Places -> Seq(Nat)] /\ now \in Nat
  BY FreshParts DEF TypeInv, TypeOK, Locals, GoodLocals, ReqType
<1>1. ASSUME req'[q] = req[q]
      PROVE  FetchFresh(q)' /\ HitFresh(q)'
  <2>1. req[q].pc \in {"fetching", "fetched"} => req[q].fetched <= now'
    BY <1>0, TimePasses DEF FetchFresh, ReqType
  <2>2. req[q].pc = "fetched" => CurrentAt(req[q].place, req[q].got, req[q].fetched)'
    <3>1. \A x \in Places, y \in Nat, z \in Nat :
            z <= now /\ CurrentAt(x, y, z) => CurrentAt(x, y, z)'
      BY StaysCurrent
    <3>2. req[q].pc = "fetched" =>
            req[q].place \in Places /\ req[q].got \in Nat /\ req[q].fetched \in Nat
      BY <1>0 DEF GoodLocals, ReqType
    <3> QED BY <1>0, <1>1, <3>1, <3>2 DEF FetchFresh, CurrentAt
  <2>3. req[q].pc = "hit" => HitFresh(q)'
    BY <1>0, <1>1, HitStays
  <2> QED BY <1>1, <2>1, <2>2, <2>3 DEF FetchFresh, HitFresh
<1>2. ASSUME OwnStep(q)
      PROVE  FetchFresh(q)' /\ HitFresh(q)'
  <2>0. UNCHANGED <<now, rotations>>
    BY <1>2, OwnStill
  <2>1. CASE Hit(q)
    <3> DEFINE e == entries[req[q].name]
    <3>1. req[q].pc = "lookup" /\ hits(q)
      BY <2>1, OwnMoves
    <3>2. e # NoEntry /\ e.place = req[q].place /\ now - e.fetched < req[q].ttl
      BY <3>1 DEF hits
    <3>3. /\ req[q].name \in Names /\ req[q].place \in Places /\ req[q].ttl \in TTLs
      BY <1>0, <3>1 DEF GoodLocals
    <3>4. EntryFresh(req[q].name)
      BY <3>2, <3>3, FreshParts DEF Cached
    <3>5. e.fetched \in Nat /\ e.version \in Nat /\ req[q].ttl \in Nat
      BY <3>2, <3>3, Values DEF TypeInv, TypeOK, Entry
    <3> DEFINE R == rotations[req[q].place]
    <3>6. R \in Seq(Nat) /\ Len(R) \in Nat
      BY <1>0, <3>3
    <3>7. e.fetched <= now /\ CurrentAt(req[q].place, e.version, e.fetched)
      BY <3>2, <3>4 DEF EntryFresh
    <3>8. req[q].ttl > 0
      BY <1>0, <3>2, <3>5, <3>7
    <3>9. e.version = Len(R) \/ (e.version < Len(R) /\ R[e.version + 1] > now - req[q].ttl)
      <4>1. CASE e.version < Len(R)
        <5>1. e.version + 1 \in 1 .. Len(R)
          BY <3>5, <3>6, <4>1
        <5> DEFINE x == R[e.version + 1]
        <5>2. x >= e.fetched
          BY <3>7, <4>1 DEF CurrentAt
        <5> HIDE DEF e, R
        <5>3. x \in Nat
          BY <3>6, <5>1
        <5>4. now - e.fetched < req[q].ttl /\ e.fetched \in Nat
          BY <3>2, <3>5
        <5> HIDE DEF x
        <5>5. x > now - req[q].ttl
          BY <1>0, <3>5, <5>2, <5>3, <5>4
        <5> QED BY <4>1, <5>5 DEF x
      <4>2. CASE ~ e.version < Len(R)
        BY <3>5, <3>6, <3>7, <4>2 DEF CurrentAt
      <4> QED BY <4>1, <4>2
    <3> HIDE DEF e
    <3>10. \/ req'[q].pc = "done"
           \/ /\ req'[q].pc = "hit" /\ req'[q].at = now /\ req'[q].got = e.version
              /\ req'[q].place = req[q].place /\ req'[q].ttl = req[q].ttl
      BY <2>1, OwnMoves DEF e
    <3> QED BY <1>0, <2>0, <3>8, <3>9, <3>10 DEF FetchFresh, HitFresh, FreshHit
  <2>2. CASE BeginFetch(q)
    <3>1. req'[q].pc = "fetching" /\ req'[q].fetched = now
      BY <2>2, OwnMoves
    <3> QED BY <1>0, <2>0, <3>1 DEF FetchFresh, HitFresh
  <2>3. CASE FetchAnswers(q)
    <3>1. /\ req[q].pc = "fetching" /\ req'[q].pc = "fetched"
          /\ req'[q].fetched = req[q].fetched /\ req'[q].place = req[q].place
          /\ req'[q].got = Len(rotations[req[q].place])
      BY <2>3, OwnMoves DEF Version
    <3>2. Len(rotations[req[q].place]) \in Nat
      BY <1>0, <3>1 DEF GoodLocals
    <3>3. CurrentAt(req[q].place, req[q].got, req[q].fetched)'
      BY <2>0, <3>1, <3>2 DEF CurrentAt
    <3> QED BY <1>0, <2>0, <3>1, <3>3 DEF FetchFresh, HitFresh
  <2>4. CASE ~(Hit(q) \/ BeginFetch(q) \/ FetchAnswers(q))
    <3>1. req'[q].pc \notin {"fetching", "fetched", "hit"}
      BY <1>2, <2>4, OwnMoves DEF OwnStep
    <3> QED BY <3>1 DEF FetchFresh, HitFresh
  <2> QED BY <2>1, <2>2, <2>3, <2>4
<1> QED BY <1>1, <1>2, ReqMoves

\* A Secret served from the cache was its place's current value less than the
\* request's own TTL before the hit, however long its fetch took and whatever was
\* rotated or reloaded meanwhile (get, Resolve).
THEOREM HitsAreFresh == Spec => []HitIsFresh
<1>1. Init => FreshInv
  <2> SUFFICES ASSUME Init PROVE FreshInv
    OBVIOUS
  <2>1. /\ \A n \in Names : ~Cached(n)
        /\ \A q \in Requests : req[q].pc = "idle"
    BY Ends DEF Init, Cached
  <2> QED BY <2>1, FreshParts DEF FetchFresh, HitFresh
<1>2. TypeInv /\ FreshInv /\ [Next]_vars => FreshInv'
  <2> SUFFICES ASSUME TypeInv, FreshInv, [Next]_vars PROVE FreshInv'
    OBVIOUS
  <2>1. \A n \in Names : Cached(n)' => EntryFresh(n)'
    BY EntriesFresh
  <2>2. \A q \in Requests : FetchFresh(q)' /\ HitFresh(q)'
    BY RequestsFresh
  <2>3. (/\ \A n \in Names : Cached(n) => EntryFresh(n)
         /\ \A q \in Requests : FetchFresh(q) /\ HitFresh(q))' => FreshInv'
    BY FreshParts, PTL
  <2> QED BY <2>1, <2>2, <2>3
<1>3. FreshInv => HitIsFresh
  BY DEF FreshInv
<1> QED BY <1>1, <1>2, <1>3, TypeCorrect, PTL DEF Spec
=============================================================================

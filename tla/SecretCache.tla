---------------------------- MODULE SecretCache ----------------------------
(***************************************************************************)
(* The Secret Resolver and its cache (internal/resolver), over a config    *)
(* that reloads (internal/config/running.go) and Backends whose Secrets    *)
(* are rotated.                                                            *)
(*                                                                         *)
(* The cache's critical sections neither block nor call out, so each is    *)
(* one step.  A fetch happens outside the lock and takes as long as it     *)
(* takes; a timer that has fired waits for the lock and can no longer be   *)
(* stopped; and prune runs some time after the snapshot it applies is in   *)
(* effect.                                                                 *)
(***************************************************************************)
EXTENDS Integers, Sequences

CONSTANTS
  Names,        \* Secret Names
  Places,       \* where a Secret is: a Backend and a location in it
  Requests,     \* calls of Resolve
  TTLs,         \* the cache TTLs a config may set; 0 is no caching
  Absent,       \* a Secret Name the config does not have
  NoEntry,      \* no entry for a Secret Name in the cache
  MaxTime,      \* bound: the clock
  LastFetch,    \* bound: no fetch begins later, so that every TTL ends by MaxTime
  MaxReloads,   \* bound: config reloads
  MaxRotations  \* bound: new versions of a Secret in its Backend

Mapping == [place : Places, ttl : TTLs]

\* entry: "id" is the request whose fetch it holds.
Entry == [id : Requests, place : Places, fetched : Nat, ttl : TTLs, version : Nat]

ASSUME CacheAssumption ==
  /\ TTLs \subseteq Nat
  /\ MaxTime \in Nat /\ MaxReloads \in Nat /\ MaxRotations \in Nat
  /\ LastFetch \in Nat /\ \A ttl \in TTLs : LastFetch + ttl <= MaxTime
  /\ Absent \notin Mapping
  /\ NoEntry \notin Entry

VARIABLES
  now,       \* the clock
  running,   \* the config snapshot in effect: each Secret Name's mapping
  pruning,   \* a reload is in effect and has not pruned the cache yet
  reloads,   \* how many reloads there were
  rotations, \* external: when each place's Secret got its next version
  entries,   \* the cache
  closed,    \* cache.closed
  timers,    \* armed timers: [name, id, at]
  firing,    \* timers that have fired and wait for the lock
  live,      \* locked buffers that have not been released
  req        \* each request

vars == <<now, running, pruning, reloads, rotations, entries, closed, timers,
          firing, live, req>>

\* A buffer belongs to the request that made it: the fetched value, or a copy.
value(q) == <<q, "value">>
copy(q)  == <<q, "copy">>

Version(place) == Len(rotations[place])

\* A request's local variables.  "holds" is the buffer it releases at its end.
Idle == [pc |-> "idle", name |-> Absent, place |-> Absent, ttl |-> 0, fetched |-> 0,
         got |-> 0, at |-> 0, holds |-> "none"]
Done == [Idle EXCEPT !.pc = "done"]

Init ==
  /\ now = 0 /\ running \in [Names -> Mapping] /\ pruning = FALSE /\ reloads = 0
  /\ rotations = [p \in Places |-> <<>>]
  /\ entries = [n \in Names |-> NoEntry] /\ closed = FALSE
  /\ timers = {} /\ firing = {} /\ live = {}
  /\ req = [q \in Requests |-> Idle]

-----------------------------------------------------------------------------
(***************************************************************************)
(* The world: time passes, and Secrets are rotated in their Backends.      *)
(***************************************************************************)
Pass ==
  /\ now < MaxTime /\ now' = now + 1
  /\ UNCHANGED <<running, pruning, reloads, rotations, entries, closed, timers,
                 firing, live, req>>

Rotate(p) ==
  /\ Version(p) < MaxRotations
  /\ rotations' = [rotations EXCEPT ![p] = Append(@, now)]
  /\ UNCHANGED <<now, running, pruning, reloads, entries, closed, timers, firing,
                 live, req>>

\* Running.Reload: the new snapshot is in effect at once.  A reload that is
\* refused changes nothing.  Reloads wait for each other and for prune.
Reload ==
  /\ ~pruning /\ reloads < MaxReloads
  /\ running' \in [Names -> Mapping \cup {Absent}]
  /\ pruning' = TRUE /\ reloads' = reloads + 1
  /\ UNCHANGED <<now, rotations, entries, closed, timers, firing, live, req>>

-----------------------------------------------------------------------------
\* Whether the running config still caches name as place.
caches(name, place) ==
  /\ running[name] # Absent
  /\ running[name].place = place
  /\ running[name].ttl # 0

\* entry.wipe for a set of Secret Names: the timer is stopped if it has not
\* fired, and the value released.
wiped(names) == {entries[n].id : n \in names}

stopped(names) == {t \in timers : t.id \notin wiped(names)}

released(names) == live \ {value(i) : i \in wiped(names)}

\* (Faulty variants are named Bad...: each is a slip this code could have, and a
\* property of the module rejects it.)

\* prune, called with the snapshot in effect.
pruned ==
  {n \in Names : /\ entries[n] # NoEntry
                 /\ \/ ~caches(n, entries[n].place)
                    \/ running[n].ttl - (now - entries[n].fetched) <= 0}

shortened ==
  {n \in Names \ pruned : entries[n] # NoEntry /\ running[n].ttl < entries[n].ttl}

\* The entry is shortened and its timer is not reset.
BadPrune ==
  /\ pruning /\ pruning' = FALSE
  /\ entries' = [n \in Names |->
       IF n \in pruned THEN NoEntry
       ELSE IF n \in shortened THEN [entries[n] EXCEPT !.ttl = running[n].ttl]
       ELSE entries[n]]
  /\ timers' = stopped(pruned)
  /\ live' = released(pruned)
  /\ UNCHANGED <<now, running, reloads, rotations, closed, firing, req>>

Prune ==
  /\ pruning /\ pruning' = FALSE
  /\ entries' = [n \in Names |->
       IF n \in pruned THEN NoEntry
       ELSE IF n \in shortened THEN [entries[n] EXCEPT !.ttl = running[n].ttl]
       ELSE entries[n]]
  /\ timers' = {t \in stopped(pruned) : t.name \notin shortened}
                 \cup {[name |-> n, id |-> entries[n].id,
                        at |-> entries[n].fetched + running[n].ttl] : n \in shortened}
  /\ live' = released(pruned)
  /\ UNCHANGED <<now, running, reloads, rotations, closed, firing, req>>

\* A timer fires, and its goroutine then waits for the lock.
Fire(t) ==
  /\ now >= t.at
  /\ timers' = timers \ {t} /\ firing' = firing \cup {[name |-> t.name, id |-> t.id]}
  /\ UNCHANGED <<now, running, pruning, reloads, rotations, entries, closed, live,
                 req>>

\* The value is wiped and its entry stays.
BadExpireKeeps(t) ==
  /\ firing' = firing \ {t}
  /\ live' = live \ {value(t.id)}
  /\ UNCHANGED <<now, running, pruning, reloads, rotations, entries, closed, timers,
                 req>>

\* Whatever the cache holds under that name is dropped.
BadExpireAny(t) ==
  /\ firing' = firing \ {t}
  /\ entries' = [entries EXCEPT ![t.name] = NoEntry]
  /\ live' = live \ {value(t.id)}
  /\ UNCHANGED <<now, running, pruning, reloads, rotations, closed, timers, req>>

\* expire: the entry may have been replaced since.
Expire(t) ==
  /\ firing' = firing \ {t}
  /\ entries' = IF entries[t.name] # NoEntry /\ entries[t.name].id = t.id
                THEN [entries EXCEPT ![t.name] = NoEntry] ELSE entries
  /\ live' = live \ {value(t.id)}
  /\ UNCHANGED <<now, running, pruning, reloads, rotations, closed, timers, req>>

\* close.
Close ==
  /\ ~closed /\ closed' = TRUE
  /\ LET cached == {n \in Names : entries[n] # NoEntry}
     IN  /\ timers' = stopped(cached)
         /\ live' = released(cached)
  /\ entries' = [n \in Names |-> NoEntry]
  /\ UNCHANGED <<now, running, pruning, reloads, rotations, firing, req>>

-----------------------------------------------------------------------------
(***************************************************************************)
(* A request: Resolve with the snapshot its Delivery took, then get.       *)
(***************************************************************************)
Goto(q, fields) == req' = [req EXCEPT ![q] = fields]

\* Resolve: an unknown Secret Name is refused; without a TTL the cache is not
\* asked.
Resolve(q, name) ==
  /\ req[q].pc = "idle"
  /\ Goto(q, IF running[name] = Absent THEN Done
             ELSE [Idle EXCEPT !.pc = IF running[name].ttl = 0 THEN "miss" ELSE "lookup",
                               !.name = name, !.place = running[name].place,
                               !.ttl = running[name].ttl])
  /\ UNCHANGED <<now, running, pruning, reloads, rotations, entries, closed,
                 timers, firing, live>>

\* The timer is trusted to have removed what is too old.
Badhits(q) ==
  LET e == entries[req[q].name]
  IN  e # NoEntry /\ e.place = req[q].place

hits(q) ==
  LET e == entries[req[q].name]
  IN  /\ e # NoEntry
      /\ e.place = req[q].place
      /\ now - e.fetched < req[q].ttl

\* get, first part.  A hit is cloned under the lock, if there is locked memory.
Hit(q) ==
  /\ req[q].pc = "lookup" /\ hits(q)
  /\ \/ /\ Goto(q, [req[q] EXCEPT !.pc = "hit", !.at = now, !.holds = "copy",
                                    !.got = entries[req[q].name].version])
        /\ live' = live \cup {copy(q)}
     \/ Goto(q, Done) /\ UNCHANGED live
  /\ UNCHANGED <<now, running, pruning, reloads, rotations, entries, closed,
                 timers, firing>>

Miss(q) ==
  /\ req[q].pc = "lookup" /\ ~hits(q)
  /\ Goto(q, [req[q] EXCEPT !.pc = "miss"])
  /\ UNCHANGED <<now, running, pruning, reloads, rotations, entries, closed,
                 timers, firing, live>>

\* The fetch: its start is noted before the Backend is asked.
BeginFetch(q) ==
  /\ req[q].pc = "miss" /\ now <= LastFetch
  /\ Goto(q, [req[q] EXCEPT !.pc = "fetching", !.fetched = now])
  /\ UNCHANGED <<now, running, pruning, reloads, rotations, entries, closed,
                 timers, firing, live>>

\* external: the Backend answers with the version it has, or fails.
FetchAnswers(q) ==
  /\ req[q].pc = "fetching"
  /\ Goto(q, [req[q] EXCEPT !.pc = "fetched", !.got = Version(req[q].place)])
  /\ live' = live \cup {value(q)}
  /\ UNCHANGED <<now, running, pruning, reloads, rotations, entries, closed,
                 timers, firing>>

FetchFails(q) ==
  /\ req[q].pc = "fetching"
  /\ Goto(q, Done)
  /\ UNCHANGED <<now, running, pruning, reloads, rotations, entries, closed,
                 timers, firing, live>>

\* Delivered uncached: no TTL, or no locked memory for the copy.
Uncached(q) ==
  /\ req[q].pc = "fetched"
  /\ Goto(q, [req[q] EXCEPT !.pc = "delivering", !.holds = "value"])
  /\ UNCHANGED <<now, running, pruning, reloads, rotations, entries, closed,
                 timers, firing, live>>

\* The mapping the request began with is taken to be still in effect.
BadmayCacheStale(q) == ~closed /\ running[req[q].name] # Absent

\* get, last part: the value is cached if the running config still caches it
\* that way; the request keeps the copy.
mayCache(q) == ~closed /\ caches(req[q].name, req[q].place)

Least(a, b) == IF a < b THEN a ELSE b

\* The value is released, and it is what the request delivers.
BadRefuse(q) ==
  /\ req[q].pc = "fetched" /\ req[q].ttl # 0 /\ ~mayCache(q)
  /\ live' = live \ {value(q)}
  /\ Goto(q, [req[q] EXCEPT !.pc = "delivering", !.holds = "value"])
  /\ UNCHANGED <<now, running, pruning, reloads, rotations, entries, closed,
                 timers, firing>>

Refuse(q) ==
  /\ req[q].pc = "fetched" /\ req[q].ttl # 0 /\ ~mayCache(q)
  /\ live' = (live \cup {copy(q)}) \ {value(q)}
  /\ Goto(q, [req[q] EXCEPT !.pc = "delivering", !.holds = "copy"])
  /\ UNCHANGED <<now, running, pruning, reloads, rotations, entries, closed,
                 timers, firing>>

Fill(q) ==
  /\ req[q].pc = "fetched" /\ req[q].ttl # 0 /\ mayCache(q)
  /\ LET name == req[q].name
         old  == {n \in {name} : entries[n] # NoEntry}
         e    == [id |-> q, place |-> req[q].place, fetched |-> req[q].fetched,
                  ttl |-> Least(req[q].ttl, running[name].ttl), version |-> req[q].got]
     IN  /\ entries' = [entries EXCEPT ![name] = e]
         /\ timers' = stopped(old) \cup {[name |-> name, id |-> q, at |-> e.fetched + e.ttl]}
         /\ live' = released(old) \cup {copy(q)}
  /\ Goto(q, [req[q] EXCEPT !.pc = "delivering", !.holds = "copy"])
  /\ UNCHANGED <<now, running, pruning, reloads, rotations, closed, firing>>

\* The Delivery ends and releases what it was given.
Deliver(q) ==
  /\ req[q].pc \in {"hit", "delivering"}
  /\ live' = live \ {<<q, req[q].holds>>}
  /\ Goto(q, Done)
  /\ UNCHANGED <<now, running, pruning, reloads, rotations, entries, closed,
                 timers, firing>>

Next ==
  \/ Pass \/ Reload \/ Prune \/ Close
  \/ \E p \in Places : Rotate(p)
  \/ \E t \in timers : Fire(t)
  \/ \E t \in firing : Expire(t)
  \/ \E q \in Requests :
       \/ \E n \in Names : Resolve(q, n)
       \/ Hit(q) \/ Miss(q) \/ BeginFetch(q) \/ FetchAnswers(q) \/ FetchFails(q)
       \/ Uncached(q) \/ Refuse(q) \/ Fill(q) \/ Deliver(q)

Spec == Init /\ [][Next]_vars

-----------------------------------------------------------------------------
\* The type invariant.
TypeOK ==
  /\ now \in Nat /\ reloads \in Nat /\ pruning \in BOOLEAN /\ closed \in BOOLEAN
  /\ running \in [Names -> Mapping \cup {Absent}]
  /\ rotations \in [Places -> Seq(Nat)]
  /\ entries \in [Names -> Entry \cup {NoEntry}]
  /\ timers \subseteq [name : Names, id : Requests, at : Nat]
  /\ firing \subseteq [name : Names, id : Requests]
  /\ live \subseteq Requests \X {"value", "copy"}
  /\ req \in [Requests ->
       [pc : {"idle", "lookup", "miss", "fetching", "fetched", "hit", "delivering", "done"},
        name : Names \cup {Absent}, place : Places \cup {Absent}, ttl : TTLs \cup {0},
        fetched : Nat, got : Nat, at : Nat, holds : {"none", "value", "copy"}]]

Cached(n) == entries[n] # NoEntry

\* Once a reload has pruned the cache, every cached Secret is one the running
\* config caches, from where the config says it is and for no longer than the
\* config's TTL, and once the cache is closed there is none, even when requests
\* that began before fill the cache later (get's check under mu, prune, close).
CacheFollowsConfig ==
  /\ closed => \A n \in Names : ~Cached(n)
  /\ ~pruning => \A n \in Names : Cached(n) =>
       caches(n, entries[n].place) /\ entries[n].ttl <= running[n].ttl

\* No hit meets a released value: what is cached has not been wiped, whichever
\* of a replaced entry's late timer, prune and close ran before.
CachedIsLive == \A n \in Names : Cached(n) => value(entries[n].id) \in live

\* No plaintext is left behind: a buffer that has not been released is in the
\* cache or in the hands of a request that will release it.
NoPlaintextLeft ==
  \A q \in Requests :
    /\ value(q) \in live =>
         \/ \E n \in Names : Cached(n) /\ entries[n].id = q
         \/ req[q].pc = "fetched" \/ req[q].holds = "value"
    /\ copy(q) \in live => req[q].holds = "copy"

\* A request holds what it was given until it releases it: no timer, prune,
\* close or other request wipes a Secret that is being delivered.
DeliveredIsLive ==
  \A q \in Requests : req[q].pc \in {"hit", "delivering"} => <<q, req[q].holds>> \in live

\* A Secret served from the cache comes from the place the request's own
\* snapshot maps the Secret Name to, and was its current value less than that
\* snapshot's TTL ago, however long its fetch took.
HitIsFresh ==
  \A q \in Requests : req[q].pc = "hit" =>
    LET R == rotations[req[q].place]
    IN  req[q].got = Len(R) \/ (req[q].got < Len(R) /\ R[req[q].got + 1] > req[q].at - req[q].ttl)

\* Every cached Secret has a timer that will wipe it no later than its TTL.
TimerPending ==
  \A n \in Names : Cached(n) =>
    \/ \E t \in firing : t.name = n /\ t.id = entries[n].id
    \/ \E t \in timers : /\ t.name = n /\ t.id = entries[n].id
                         /\ t.at <= entries[n].fetched + entries[n].ttl

\* Every locked buffer has exactly the holder that will release it: the cache, with a
\* timer in time and a value not yet wiped, or a request, until it is done with it
\* (get, expire, prune, close, entry.wipe).
BuffersOwned == CachedIsLive /\ NoPlaintextLeft /\ DeliveredIsLive /\ TimerPending
=============================================================================

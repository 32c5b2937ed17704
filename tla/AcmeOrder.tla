----------------------------- MODULE AcmeOrder -----------------------------
(***************************************************************************)
(* Issuer.Obtain (internal/acmecert) with the built-in DNS providers and   *)
(* the wait for propagation (internal/dnsprovider): the account key, the   *)
(* order's authorizations, and the challenge responses that are set before *)
(* the CA is asked and removed however the order ends.                     *)
(*                                                                         *)
(* All authorizations share one TXT name, as a domain and its wildcard do; *)
(* the value of a TXT record is the authorization it answers.  The CA      *)
(* reuses an authorization that is pending, and so its token, in the next  *)
(* order.  Any request can fail, at the latest when the order's context is *)
(* done: that is the choice of every step here.  A change sent to a        *)
(* provider is carried out at any later time, even after the answer is     *)
(* given up.  Private zones and what tokens a provider wants are left out. *)
(***************************************************************************)
EXTENDS Naturals, Sequences, Functions

CONSTANTS
  None,
  Authzs,        \* authorizations of an order
  Foreign,       \* a TXT value that somebody else keeps at the same name
  Zones,         \* zoneCandidates: the zones that could hold the name, longest first
  Public,        \* the zone whose servers the world asks
  Servers,       \* its name servers
  Resolvers,     \* the values cfg.Resolvers may have; {}: the name servers are looked up
  Accounts,      \* account keys that can be generated
  MaxOrders      \* bound: calls of Obtain and changes of the foreign value, together; a
                 \* zone is added before it is reached

Candidates == Range(Zones)
\* The servers waitPropagated may ask: cfg.Resolvers or, without any, the name servers
\* whose addresses are found, of which there is one.
Askable == IF {} \in Resolvers THEN (Resolvers \cup SUBSET Servers) \ {{}} ELSE Resolvers

Values == Authzs \cup {Foreign}
Changes == [zone : Candidates, base : SUBSET Values, op : {"present", "cleanup"}, value : Authzs]

ASSUME OrderAssumption ==
  /\ MaxOrders \in Nat /\ Public \in Candidates
  /\ Foreign \notin Authzs /\ None \notin Authzs \cup Candidates \cup Accounts \cup Changes

VARIABLES
  challenge,   \* cfg.Challenge
  provider,    \* cfg.DNS.Provider
  pc,          \* where Obtain stands
  orders,      \* calls of Obtain so far
  failed,      \* this one has failed
  key,         \* the account key it uses
  created,     \* that key is new
  todo,        \* authorizations not looked at yet
  pending,     \* DNS-01 challenges of the order
  accepted,    \* challenges the CA was asked to validate
  cur,         \* the challenge being answered, or whose record is being set or removed
  cleaning,    \* the records are being removed
  asked,       \* the servers the records were looked up on
  tried,       \* pending challenges whose removal was tried
  warned,      \* those whose removal failed
  found,       \* the provider's zone cache, kept for one order: the zone that holds the name
  missing,     \* and zones the provider does not hold
  names,       \* Azure's list of zones, asked for once in an order
  waits,       \* the change whose answer is awaited
  answer,      \* that answer
  stored,      \* the account key in the Backend
  registered,  \* accounts at the CA
  ca,          \* the CA's authorizations
  held,        \* zones the provider holds
  rrset,       \* TXT values at the provider, by zone
  flight,      \* changes the provider has not carried out yet
  served,      \* what each name server answers, the foreign value left out
  foreign,     \* changes of the foreign value so far
  table,       \* the challenge responses the Agent API serves
  set,         \* history: the records this order set, by zone
  late         \* history: since the order began, a change was carried out that nobody waited
               \* for any longer

config == <<challenge, provider>>
account == <<key, created, stored, registered>>
order == <<todo, pending, accepted, cur, cleaning, asked, tried, warned, set>>
cache == <<found, missing, names>>
requests == <<waits, answer, flight, late>>
dns == <<held, rrset, served, foreign>>
vars == <<config, pc, orders, failed, account, order, cache, requests, ca, dns, table>>

Dns01 == challenge = "dns-01"

TypeOK ==
  /\ challenge \in {"dns-01", "tls-alpn-01", "http-01"}
  /\ provider \in {"cloudflare", "route53", "azure", "google"}
  /\ pc \in {"idle", "account", "store", "directory", "register", "order", "credentials",
             "authz", "find", "list", "sent", "propagate", "accept", "validate", "cleanup",
             "ready", "finalize", "poll"}
  /\ orders \in 0 .. MaxOrders /\ failed \in BOOLEAN /\ created \in BOOLEAN
  /\ key \in Accounts \cup {None} /\ stored \in Accounts \cup {None} /\ registered \subseteq Accounts
  /\ todo \subseteq Authzs /\ pending \subseteq Authzs /\ accepted \subseteq Authzs
  /\ tried \subseteq Authzs /\ warned \subseteq Authzs /\ table \subseteq Authzs
  /\ cur \in Authzs \cup {None} /\ cleaning \in BOOLEAN /\ asked \in Askable \cup {{}}
  /\ found \in Candidates \cup {None} /\ missing \subseteq Candidates
  /\ (names \subseteq Candidates \/ names = {None})
  /\ flight \subseteq Changes /\ waits \in flight \cup {None} \cup Changes
  /\ answer \in {"none", "ok", "error"} /\ late \in BOOLEAN
  /\ ca \in [Authzs -> {"pending", "processing", "valid", "invalid"}]
  /\ held \subseteq Candidates /\ rrset \in [Candidates -> SUBSET Values]
  /\ served \in [Servers -> SUBSET Authzs] /\ foreign \in 0 .. MaxOrders
  /\ set \subseteq Candidates \X Authzs

\* Somebody else's value is there already.
Init ==
  /\ challenge \in {"dns-01", "tls-alpn-01", "http-01"}
  /\ provider \in {"cloudflare", "route53", "azure", "google"}
  /\ ~Dns01 => provider = "cloudflare"
  /\ pc = "idle" /\ orders = 0 /\ failed = FALSE /\ key = None /\ created = FALSE
  /\ todo = {} /\ pending = {} /\ accepted = {} /\ cur = None /\ cleaning = FALSE
  /\ asked = {} /\ tried = {} /\ warned = {} /\ set = {}
  /\ found = None /\ missing = {} /\ names = {None} /\ waits = None /\ answer = "none" /\ flight = {} /\ late = FALSE
  /\ stored = None /\ registered = {} /\ ca = [a \in Authzs |-> "pending"]
  /\ held = {Public} /\ foreign = 0
  /\ rrset = [z \in Candidates |-> IF z = Public THEN {Foreign} ELSE {}]
  /\ served = [s \in Servers |-> {}] /\ table = {}

-----------------------------------------------------------------------------
(* Obtain up to the order.                                                 *)

Obtain ==
  /\ pc = "idle" /\ orders + foreign < MaxOrders /\ orders' = orders + 1 /\ pc' = "account" /\ failed' = FALSE
  /\ todo' = {} /\ pending' = {} /\ accepted' = {} /\ cur' = None /\ cleaning' = FALSE
  /\ asked' = {} /\ tried' = {} /\ warned' = {} /\ set' = {} /\ key' = None /\ created' = FALSE
  /\ late' = FALSE
  /\ UNCHANGED <<config, stored, registered, cache, waits, answer, flight, ca, dns, table>>

\* Obtain returns an error where no deferred call has anything to remove.
GiveUp ==
  /\ pc \in {"account", "store", "directory", "register", "order", "credentials",
             "ready", "finalize", "poll"}
  /\ pc' = "idle" /\ failed' = TRUE /\ key' = None /\ created' = FALSE
  /\ UNCHANGED <<config, orders, stored, registered, order, cache, requests, ca, dns, table>>

\* (Faulty variants are named Bad...: each is a slip this code could have, and a
\* property at the end rejects it.)

\* Any error of the Backend is taken for a missing key.
BadaccountKey ==
  /\ pc = "account"
  /\ \/ stored # None /\ pc' = "directory" /\ key' = stored /\ created' = FALSE
     \/ pc' = "store" /\ created' = TRUE /\ key' \in Accounts \ ({stored} \cup registered)
  /\ UNCHANGED <<config, orders, failed, stored, registered, order, cache, requests, ca, dns, table>>

\* accountKey: the stored key, or a new one when the Backend has none (ErrNotFound).
accountKey ==
  /\ pc = "account"
  /\ \/ stored # None /\ pc' = "directory" /\ key' = stored /\ created' = FALSE
     \/ stored = None /\ pc' = "store" /\ created' = TRUE /\ key' \in Accounts \ registered
  /\ UNCHANGED <<config, orders, failed, stored, registered, order, cache, requests, ca, dns, table>>

\* accountKey stores the new key; the write may succeed and its answer be lost.
storeAccountKey ==
  /\ pc = "store" /\ stored' = key
  /\ \/ pc' = "directory" /\ UNCHANGED failed
     \/ pc' = "idle" /\ failed' = TRUE
  /\ UNCHANGED <<config, orders, key, created, registered, order, cache, requests, ca, dns, table>>

\* client: Discover, and GetReg for a key that is not new.
client ==
  /\ pc = "directory"
  /\ pc' = IF ~created /\ key \in registered THEN "order" ELSE "register"
  /\ UNCHANGED <<config, orders, failed, account, order, cache, requests, ca, dns, table>>

\* client: hmacKey when the account is bound to another one (GiveUp when that fails), and
\* Register, whose answer may be lost.
Register ==
  /\ pc = "register" /\ registered' = registered \cup {key}
  /\ \/ pc' = "order" /\ UNCHANGED failed
     \/ pc' = "idle" /\ failed' = TRUE
  /\ UNCHANGED <<config, orders, key, created, stored, order, cache, requests, ca, dns, table>>

\* AuthorizeOrder.  The CA keeps an authorization that is not invalid.
AuthorizeOrder ==
  /\ pc = "order" /\ todo' = Authzs
  /\ ca' = [a \in Authzs |-> IF ca[a] = "invalid" THEN "pending" ELSE ca[a]]
  /\ pc' = IF Dns01 THEN "credentials" ELSE "authz"
  /\ UNCHANGED <<config, orders, failed, account, pending, accepted, cur, cleaning, asked, tried,
                 warned, set, cache, requests, dns, table>>

\* dnsProvider: the credentials are in the Backend; the provider's cache is empty.
dnsProvider ==
  /\ pc = "credentials" /\ pc' = "authz"
  /\ UNCHANGED <<config, orders, failed, account, order, cache, requests, ca, dns, table>>

-----------------------------------------------------------------------------
(* authorize and authorizeByDNS.                                           *)

\* An error ends them: the deferred calls remove what was set.
Stop ==
  /\ failed' = TRUE /\ pc' = (IF Dns01 THEN "cleanup" ELSE "idle")
  /\ cleaning' = Dns01 /\ cur' = None /\ asked' = {} /\ table' = table \ {cur}

GetAuthorization(a) ==
  /\ pc = "authz" /\ a \in todo /\ todo' = todo \ {a}
  /\ \/ Stop /\ UNCHANGED pending
     \/ /\ ca[a] = "valid" /\ UNCHANGED <<pc, failed, cleaning, cur, asked, table, pending>>
     \/ /\ ca[a] # "valid" /\ cur' = a /\ UNCHANGED <<failed, cleaning, asked>>
        /\ pc' = IF Dns01 THEN "find" ELSE "accept"
        /\ pending' = IF Dns01 THEN pending \cup {a} ELSE pending
        /\ table' = IF Dns01 THEN table ELSE table \cup {a}
  /\ UNCHANGED <<config, orders, account, accepted, tried, warned, set, cache, requests, ca, dns>>

AuthorizationsRead ==
  /\ pc = "authz" /\ todo = {} /\ pc' = IF Dns01 THEN "propagate" ELSE "ready"
  /\ UNCHANGED <<config, orders, failed, account, order, cache, requests, ca, dns, table>>

\* waitPropagated is done with the first server that answers.
BadwaitPropagated ==
  /\ pc = "propagate"
  /\ \/ /\ asked' \in IF pending = {} THEN {{}} ELSE Askable
        /\ asked' \cap Servers # {} => \E s \in asked' \cap Servers : pending \subseteq served[s]
        /\ pc' = "accept" /\ UNCHANGED <<failed, cleaning, cur, table>>
     \/ Stop
  /\ UNCHANGED <<config, orders, account, todo, pending, accepted, tried, warned, set, cache,
                 requests, ca, dns>>

\* waitPropagated: every server that is asked answers with every value, or
\* PropagationTimeout passes.  What a resolver answers that is none of the zone's name
\* servers is left open.  (The round of lookups that finds nothing missing is one step: no
\* name server forgets a value that is still set.)
waitPropagated ==
  /\ pc = "propagate"
  /\ \/ /\ asked' \in IF pending = {} THEN {{}} ELSE Askable
        /\ \A s \in asked' \cap Servers : pending \subseteq served[s]
        /\ pc' = "accept" /\ UNCHANGED <<failed, cleaning, cur, table>>
     \/ Stop
  /\ UNCHANGED <<config, orders, account, todo, pending, accepted, tried, warned, set, cache,
                 requests, ca, dns>>

\* Accept, whose answer may be lost.
Accept(a) ==
  /\ pc = "accept" /\ a \notin accepted /\ (IF Dns01 THEN a \in pending ELSE a = cur)
  /\ ca' = [ca EXCEPT ![a] = IF @ = "pending" THEN "processing" ELSE @]
  /\ \/ accepted' = accepted \cup {a} /\ pc' = (IF Dns01 THEN pc ELSE "validate")
        /\ UNCHANGED <<failed, cleaning, cur, asked, table>>
     \/ Stop /\ UNCHANGED accepted
  /\ UNCHANGED <<config, orders, account, todo, pending, tried, warned, set, cache, requests, dns>>

Accepted ==
  /\ pc = "accept" /\ Dns01 /\ accepted = pending /\ pc' = "validate"
  /\ UNCHANGED <<config, orders, failed, account, order, cache, requests, ca, dns, table>>

\* WaitAuthorization of what was accepted: all valid, or an error.
WaitAuthorization ==
  /\ pc = "validate"
  /\ \/ /\ \A a \in accepted : ca[a] = "valid"
        /\ pc' = (IF Dns01 THEN "cleanup" ELSE "authz") /\ cleaning' = Dns01
        /\ cur' = None /\ asked' = {} /\ table' = table \ {cur} /\ UNCHANGED failed
     \/ Stop
  /\ UNCHANGED <<config, orders, account, todo, pending, accepted, tried, warned, set, cache,
                 requests, ca, dns>>

\* The deferred removal of every pending record, within cleanupTimeout, and then Close.
Cleanup(a) ==
  /\ pc = "cleanup" /\ a \in pending \ tried /\ tried' = tried \cup {a} /\ cur' = a /\ pc' = "find"
  /\ UNCHANGED <<config, orders, failed, account, todo, pending, accepted, cleaning, asked, warned, set,
                 cache, requests, ca, dns, table>>

CleanedUp ==
  /\ pc = "cleanup" /\ tried = pending /\ pc' = (IF failed THEN "idle" ELSE "ready")
  /\ found' = None /\ missing' = {} /\ names' = {None}
  /\ UNCHANGED <<config, orders, failed, account, order, requests, ca, dns, table>>

-----------------------------------------------------------------------------
(* A provider's Present(cur) and Cleanup(cur).                             *)

\* It returns nil, or an error: Present's ends the order, Cleanup's is logged.
Done ==
  /\ pc' = IF cleaning THEN "cleanup" ELSE "authz"
  /\ cur' = None /\ UNCHANGED <<cleaning, failed, warned>>

Fails ==
  /\ pc' = "cleanup" /\ cur' = None /\ cleaning' = TRUE /\ failed' = (failed \/ ~cleaning)
  /\ warned' = IF cleaning THEN warned \cup {cur} ELSE warned

\* The zone is looked up afresh each time.
Badfind ==
  /\ pc = "find"
  /\ \/ /\ found' = SelectSeq(Zones, LAMBDA z : z \in held)[1]
        /\ pc' = "list" /\ UNCHANGED <<missing, names, failed, cleaning, warned, cur>>
     \/ Fails /\ UNCHANGED cache
  /\ UNCHANGED <<config, orders, account, todo, pending, accepted, asked, tried, set, requests, ca, dns,
                 table>>

\* Azure's zones are listed at the first lookup of an order and not again.
listZones == IF names # {None} THEN names ELSE held

\* zoneCache.find: the first candidate the provider holds, each asked for at most once.
find ==
  LET holds(z) == z \in (IF provider = "azure" THEN listZones ELSE held)
      next(z) == \E i \in DOMAIN Zones : z = Zones[i] /\ z \notin missing
                                         /\ \A j \in 1 .. i - 1 : Zones[j] \in missing IN
  /\ pc = "find"
  /\ \/ found # None /\ pc' = "list" /\ UNCHANGED <<cache, failed, cleaning, warned, cur>>
     \/ \E z \in Candidates :
          /\ found = None /\ next(z)
          /\ found' = IF holds(z) THEN z ELSE None
          /\ missing' = IF holds(z) THEN missing ELSE missing \cup {z}
          /\ names' = IF provider = "azure" THEN listZones ELSE names
          /\ pc' = (IF holds(z) THEN "list" ELSE "find")
          /\ UNCHANGED <<failed, cleaning, warned, cur>>
     \/ found = None /\ Fails /\ UNCHANGED cache
  /\ UNCHANGED <<config, orders, account, todo, pending, accepted, asked, tried, set, requests, ca, dns,
                 table>>

\* The values that are there, and the change that adds or removes one of them, if needed.
list ==
  LET change == [zone |-> found, base |-> rrset[found], value |-> cur,
                 op |-> IF cleaning THEN "cleanup" ELSE "present"] IN
  /\ pc = "list" /\ answer' = "none"
  /\ \/ /\ (cur \in rrset[found]) = cleaning
        /\ pc' = "sent" /\ waits' = change /\ flight' = flight \cup {change}
        /\ UNCHANGED <<cur, cleaning, failed, warned>>
     \/ (cur \in rrset[found]) # cleaning /\ Done /\ UNCHANGED <<waits, flight>>
     \/ Fails /\ UNCHANGED <<waits, flight>>
  /\ set' = IF cleaning THEN set ELSE set \cup {<<found, cur>>}
  /\ UNCHANGED <<config, orders, account, todo, pending, accepted, asked, tried, cache, late, ca, dns,
                 table>>

\* What the change asks for: withValue, withoutValue.
Wanted(c) == IF c.op = "present" THEN c.base \cup {c.value} ELSE c.base \ {c.value}

\* What each provider makes of a change: whether it refuses it, and the set it leaves.

\* Cloudflare has a record for each value, removed by its id.
cloudflare(c) ==
  [refused |-> c.op = "cleanup" /\ c.value \notin rrset[c.zone],
   leaves  |-> IF c.op = "present" THEN rrset[c.zone] \cup {c.value} ELSE rrset[c.zone] \ {c.value}]

\* Route 53's UPSERT replaces the set, whatever it is; its DELETE names the current one.
route53(c) == [refused |-> Wanted(c) = {} /\ rrset[c.zone] # c.base, leaves |-> Wanted(c)]

\* Azure's PUT and DELETE replace and remove the set, whatever it is.
azure(c) == [refused |-> FALSE, leaves |-> Wanted(c)]

\* The change does not name the current set.
Badgoogle(c) == [refused |-> FALSE, leaves |-> Wanted(c)]

\* Google's change deletes the set that was read, exactly, and adds the one wanted.
google(c) == [refused |-> rrset[c.zone] # c.base, leaves |-> Wanted(c)]

Outcome(c) ==
  CASE provider = "cloudflare" -> cloudflare(c) [] provider = "route53" -> route53(c)
    [] provider = "azure" -> azure(c)           [] provider = "google" -> google(c)

\* The provider carries a change out or refuses it.
ProviderActs(c) ==
  /\ c \in flight /\ flight' = flight \ {c}
  /\ \/ ~Outcome(c).refused /\ rrset' = [rrset EXCEPT ![c.zone] = Outcome(c).leaves]
        /\ answer' = (IF waits = c THEN "ok" ELSE answer) /\ late' = (late \/ waits # c)
     \/ answer' = (IF waits = c THEN "error" ELSE answer) /\ UNCHANGED <<rrset, late>>
  /\ UNCHANGED <<config, pc, orders, failed, account, order, cache, waits, ca, held, served, foreign, table>>

\* The answer, or none in time.
answered ==
  /\ pc = "sent" /\ waits' = None /\ answer' = "none"
  /\ \/ answer = "ok" /\ Done
     \/ Fails
  /\ UNCHANGED <<config, orders, account, todo, pending, accepted, asked, tried, set, cache, flight, late,
                 ca, dns, table>>

-----------------------------------------------------------------------------
(* Obtain after the authorizations; the world around it.                   *)

\* WaitOrder; the key and the request; CreateOrderCert, or else fetchIssued's poll of the
\* order; what is issued must be for this key and name every domain (GiveUp when not).
WaitOrder ==
  /\ pc = "ready" /\ (\A a \in Authzs : ca[a] = "valid") /\ pc' = "finalize"
  /\ UNCHANGED <<config, orders, failed, account, order, cache, requests, ca, dns, table>>

CreateOrderCert ==
  /\ pc = "finalize" /\ pc' \in {"idle", "poll"}
  /\ UNCHANGED <<config, orders, failed, account, order, cache, requests, ca, dns, table>>

fetchIssued ==
  /\ pc = "poll" /\ pc' = "idle"
  /\ UNCHANGED <<config, orders, failed, account, order, cache, requests, ca, dns, table>>

\* The process ends at any moment; the next one knows nothing of the order.
Crash ==
  /\ pc # "idle" /\ pc' = "idle" /\ failed' = TRUE /\ table' = {} /\ waits' = None /\ answer' = "none"
  /\ todo' = {} /\ pending' = {} /\ accepted' = {} /\ cur' = None /\ cleaning' = FALSE
  /\ asked' = {} /\ tried' = {} /\ warned' = {} /\ set' = {} /\ key' = None /\ created' = FALSE
  /\ found' = None /\ missing' = {} /\ names' = {None}
  /\ UNCHANGED <<config, orders, stored, registered, flight, late, ca, dns>>

\* The CA looks at one of the servers, or connects to the Agent API.
CADecides(a) ==
  /\ ca[a] = "processing"
  /\ \E s \in Servers :
       ca' = [ca EXCEPT ![a] = IF (IF Dns01 THEN a \in served[s] ELSE a \in table)
                               THEN "valid" ELSE "invalid"]
  /\ UNCHANGED <<config, pc, orders, failed, account, order, cache, requests, dns, table>>

Propagates(s) ==
  /\ served[s] # rrset[Public] \cap Authzs
  /\ served' = [served EXCEPT ![s] = rrset[Public] \cap Authzs]
  /\ UNCHANGED <<config, pc, orders, failed, account, order, cache, requests, ca, held, rrset, foreign, table>>

\* Somebody else adds or removes his value, or adds a zone at the provider.
ForeignChange(z) ==
  /\ z \in held /\ orders + foreign < MaxOrders /\ foreign' = foreign + 1
  /\ rrset' = [rrset EXCEPT ![z] = IF Foreign \in @ THEN @ \ {Foreign} ELSE @ \cup {Foreign}]
  /\ UNCHANGED <<config, pc, orders, failed, account, order, cache, requests, ca, held, served, table>>

ZoneAdded ==
  /\ held # Candidates /\ orders + foreign < MaxOrders /\ held' = Candidates
  /\ UNCHANGED <<config, pc, orders, failed, account, order, cache, requests, ca, rrset, served, foreign, table>>

Next ==
  \/ Obtain \/ GiveUp \/ accountKey \/ storeAccountKey \/ client \/ Register \/ AuthorizeOrder
  \/ dnsProvider \/ AuthorizationsRead \/ waitPropagated \/ Accepted \/ WaitAuthorization
  \/ CleanedUp \/ find \/ list \/ answered \/ WaitOrder \/ CreateOrderCert \/ fetchIssued
  \/ Crash \/ ZoneAdded
  \/ \E a \in Authzs : GetAuthorization(a) \/ Accept(a) \/ Cleanup(a) \/ CADecides(a)
  \/ \E c \in flight : ProviderActs(c)
  \/ \E s \in Servers : Propagates(s)
  \/ \E z \in Candidates : ForeignChange(z)

Spec == Init /\ [][Next]_vars

-----------------------------------------------------------------------------
\* While the order waits for a validation it asked for, whatever the CA asks has the
\* answer: the challenge is served, or somebody was asked for its record, and every name
\* server that was still has it.  (Not so for a record in a zone the world does not ask,
\* where a server may still answer with the record an earlier order set elsewhere.)
ValidationCanSucceed ==
  pc \in {"accept", "validate"} /\ ~late /\ (Dns01 => found = Public) =>
    \A a \in accepted : ca[a] = "processing" =>
      IF Dns01 THEN asked # {} /\ \A s \in asked \cap Servers : a \in served[s]
               ELSE a \in table

\* However Obtain returns, no challenge is served any longer and every record it set is
\* gone from the zone it was set in, but for those it warned of: also a record whose
\* Present failed after the provider carried it out.
NothingLeft ==
  pc = "idle" => /\ table = {}
                 /\ late \/ \A z \in Candidates, a \in Authzs :
                              <<z, a>> \in set => a \in warned \/ a \notin rrset[z]

\* A change of ours touches no other value: never at Cloudflare and Google, and at the
\* others as long as nobody changed the set since it was read.
OthersKept ==
  [][\A c \in flight \ flight' :
       provider \in {"cloudflare", "google"} \/ rrset[c.zone] = c.base
         => rrset'[c.zone] \ {c.value} = rrset[c.zone] \ {c.value}]_vars

\* Orders, crashes and lost answers never make a second account, and the account's key is
\* the one in the Backend.
OneAccount == registered \subseteq {stored}

(***************************************************************************)
(* What the source says of itself, and does not do.                        *)
(***************************************************************************)
\* "waits until every name server answers a TXT query for each record with its value, so
\* the CA's validation is asked for only once it can succeed" (WaitPropagated): not when
\* cfg.Resolvers leaves a name server out, nor when the address of one is not found.
EveryServerAnswers ==
  pc \in {"accept", "validate"} /\ ~late /\ Dns01 /\ found = Public =>
    \A a \in accepted : ca[a] = "processing" => \A s \in Servers : a \in served[s]
=============================================================================

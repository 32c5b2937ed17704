---------------------------- MODULE CertManager ----------------------------
(***************************************************************************)
(* The ACME life of the Agent API's certificate: runACME and what it calls *)
(* (internal/certmanager/certmanager.go), over a Backend that holds the    *)
(* certificate and its key as two separate values, and a CA.               *)
(*                                                                         *)
(* A certificate is its serial number, and its key has the same number, so *)
(* a key matches a certificate exactly when the numbers are equal.  Every  *)
(* write to the Backend is a step of its own: it may fail, succeed with    *)
(* the answer lost, or be the last thing the process does.                 *)
(***************************************************************************)
EXTENDS Integers, FiniteSets

CONSTANTS
  Domains,   \* the domain the config names, fixed for one process
  Lifetime,  \* how long a certificate is valid
  Backdates, \* how far in the past (< 0: in the future) a CA may set NotBefore
  MaxTime,   \* bound: the clock
  MaxCerts,  \* bound: certificates issued
  MaxStarts  \* bound: processes run one after another

ASSUME CertAssumption ==
  /\ Lifetime \in Nat \ {0}
  /\ Backdates \subseteq Int
  /\ MaxTime \in Nat /\ MaxCerts \in Nat /\ MaxStarts \in Nat

VARIABLES
  now,       \* the clock
  bKey,      \* the Backend's TLS key (0: none)
  bCert,     \* the Backend's TLS certificate (0: none)
  pc,        \* where runACME stands; "down" when there is no process
  domain,    \* the domain of the process's config
  served,    \* m.cert (0: nil)
  pending,   \* issued and not yet stored (0: nil)
  earliest,  \* the soonest the next order may be placed
  starts,    \* how many processes there were
  certs,     \* external: what the CA issued, by serial number
  stored     \* history: the pairs both writes of which were answered

vars == <<now, bKey, bCert, pc, domain, served, pending, earliest, starts, certs,
          stored>>

Serials == 1 .. MaxCerts
Issued  == DOMAIN certs

third == Lifetime \div 3

notAfter(c) == certs[c].notBefore + Lifetime

expired(c) == now > notAfter(c) \/ now < certs[c].notBefore

renewAt(c) == certs[c].notBefore + 2 * third

\* parsePEM: the certificate is valid now and the key is its key.
parses(c, k) == c # 0 /\ c = k /\ ~expired(c)

\* Certificate: what a TLS handshake gets.
Certificate == served # 0 /\ ~expired(served)

Init ==
  /\ now = 0 /\ bKey = 0 /\ bCert = 0
  /\ pc = "down" /\ domain \in Domains
  /\ served = 0 /\ pending = 0 /\ earliest = 0
  /\ starts = 0 /\ certs = [c \in {} |-> 0] /\ stored = {}

Pass ==
  /\ now < MaxTime /\ now' = now + 1
  /\ UNCHANGED <<bKey, bCert, pc, domain, served, pending, earliest, starts, certs,
                 stored>>

StartACME ==
  /\ pc = "down" /\ starts < MaxStarts
  /\ starts' = starts + 1 /\ pc' = "loading" /\ domain' \in Domains
  /\ UNCHANGED <<now, bKey, bCert, served, pending, earliest, certs, stored>>

\* The process ends, at any point: by Close or by a crash.
Stop ==
  /\ pc # "down" /\ pc' = "down"
  /\ served' = 0 /\ pending' = 0 /\ earliest' = 0
  /\ UNCHANGED <<now, bKey, bCert, domain, starts, certs, stored>>

-----------------------------------------------------------------------------
\* (Faulty variants are named Bad...: each is a slip this code could have, and a
\* property of the module rejects it.)

\* loadStored: the pair the Backend holds, when it is usable for the domain.  A
\* Backend that does not answer is asked again, which changes nothing.
usablePair == parses(bCert, bKey) /\ certs[bCert].domain = domain

\* The certificate is served whether or not the key is its key.
BadLoadStored ==
  /\ pc = "loading"
  /\ served' = bCert
  /\ pc' = "loop"
  /\ UNCHANGED <<now, bKey, bCert, domain, pending, earliest, starts, certs, stored>>

LoadStored ==
  /\ pc = "loading"
  /\ served' = IF usablePair THEN bCert ELSE 0
  /\ pc' = "loop"
  /\ UNCHANGED <<now, bKey, bCert, domain, pending, earliest, starts, certs, stored>>

\* The head of the loop: an order is due, unless a pair is still to be stored.
BaddueNow == served # 0 => now >= renewAt(served)

\* Only a certificate in service is ever replaced.
BaddueNowServed == served # 0 /\ now >= renewAt(served) /\ now >= earliest

dueNow == served # 0 => now >= renewAt(served) /\ now >= earliest

BeginOrder ==
  /\ pc = "loop" /\ pending = 0 /\ dueNow
  /\ pc' = "ordering"
  /\ UNCHANGED <<now, bKey, bCert, domain, served, pending, earliest, starts, certs,
                 stored>>

\* CheckWritable: nothing is ordered from a Backend that cannot store it.
NotWritable ==
  /\ pc = "loop" /\ pending = 0 /\ dueNow
  /\ pc' = "backoff"
  /\ UNCHANGED <<now, bKey, bCert, domain, served, pending, earliest, starts, certs,
                 stored>>

BeginStore ==
  /\ pc = "loop" /\ pending # 0
  /\ pc' = "storeKey"
  /\ UNCHANGED <<now, bKey, bCert, domain, served, pending, earliest, starts, certs,
                 stored>>

\* external: the CA issues a certificate for the order, dated b before now; taken says
\* whether the process keeps it.
issue(b, taken) ==
  /\ pc = "ordering" /\ Cardinality(Issued) < MaxCerts
  /\ LET c == Cardinality(Issued) + 1
     IN  certs' = [i \in Issued \cup {c} |->
           IF i = c THEN [notBefore |-> now - b, domain |-> domain, at |-> now, by |-> starts,
                          taken |-> taken]
                    ELSE certs[i]]

\* parsePEM takes a certificate dated b before now.
validOnArrival(b) == 0 <= b /\ b <= Lifetime

\* obtain: the order succeeds with a certificate that parses.
Obtain ==
  /\ \E b \in Backdates : validOnArrival(b) /\ issue(b, TRUE)
  /\ pending' = Cardinality(Issued) + 1
  /\ pc' = "storeKey"
  /\ UNCHANGED <<now, bKey, bCert, domain, served, earliest, starts, stored>>

\* obtain: a certificate is issued and dropped, because parsePEM refuses it (expired on
\* arrival, or not valid yet).  Nothing reads the date of a dropped certificate, so one
\* that Obtain never got to download is this case too.
ObtainUnusable ==
  /\ \E b \in Backdates : ~validOnArrival(b) /\ issue(b, FALSE)
  /\ pc' = "backoff"
  /\ UNCHANGED <<now, bKey, bCert, domain, served, pending, earliest, starts, stored>>

\* The order fails, and nothing is issued.
ObtainFails ==
  /\ pc = "ordering"
  /\ pc' = "backoff"
  /\ UNCHANGED <<now, bKey, bCert, domain, served, pending, earliest, starts, certs,
                 stored>>

\* What comes of a write.
Writes == {"written", "refused", "answer lost"}

\* store: the key goes first.
WriteKey(outcome) ==
  /\ pc = "storeKey"
  /\ bKey' = IF outcome = "refused" THEN bKey ELSE pending
  /\ pc' = IF outcome = "written" THEN "storeCert" ELSE "backoff"
  /\ UNCHANGED <<now, bCert, domain, served, pending, earliest, starts, certs, stored>>

WriteCert(outcome) ==
  /\ pc = "storeCert"
  /\ bCert' = IF outcome = "refused" THEN bCert ELSE pending
  /\ pc' = IF outcome = "written" THEN "parse" ELSE "backoff"
  /\ stored' = IF outcome = "written" THEN stored \cup {pending} ELSE stored
  /\ UNCHANGED <<now, bKey, domain, served, pending, earliest, starts, certs>>

\* A stored pair that does not parse stays the pair to be stored.
StoredUnusable ==
  /\ pc = "parse" /\ ~parses(pending, pending)
  /\ pc' = "backoff"
  /\ UNCHANGED <<now, bKey, bCert, domain, served, pending, earliest, starts, certs,
                 stored>>

serve ==
  /\ pc = "parse" /\ parses(pending, pending)
  /\ served' = pending /\ pending' = 0
  /\ earliest' = now + third
  /\ pc' = "loop"
  /\ UNCHANGED <<now, bKey, bCert, domain, starts, certs, stored>>

\* The wait after a failure ends the loop.
BadBackoffEnds ==
  /\ pc = "backoff" /\ pending = 0
  /\ pc' = "loop"
  /\ UNCHANGED <<now, bKey, bCert, domain, served, pending, earliest, starts, certs,
                 stored>>

BackoffEnds ==
  /\ pc = "backoff"
  /\ pc' = "loop"
  /\ UNCHANGED <<now, bKey, bCert, domain, served, pending, earliest, starts, certs,
                 stored>>

Next ==
  \/ Pass \/ StartACME \/ Stop
  \/ LoadStored \/ BeginOrder \/ NotWritable \/ BeginStore
  \/ Obtain \/ ObtainUnusable \/ ObtainFails
  \/ \E outcome \in Writes : WriteKey(outcome) \/ WriteCert(outcome)
  \/ StoredUnusable \/ serve \/ BackoffEnds

Spec == Init /\ [][Next]_vars

(***************************************************************************)
(* Fairness: the goroutine runs (WF), and neither the CA nor the Backend   *)
(* fails for ever (SF on the successful step).                             *)
(***************************************************************************)
Fairness ==
  /\ WF_vars(Pass)
  /\ WF_vars(LoadStored) /\ WF_vars(BeginStore) /\ WF_vars(BackoffEnds)
  /\ WF_vars(BeginOrder \/ NotWritable) /\ SF_vars(BeginOrder)
  /\ WF_vars(Obtain \/ ObtainUnusable \/ ObtainFails) /\ SF_vars(Obtain)
  /\ WF_vars(\E outcome \in Writes : WriteKey(outcome)) /\ SF_vars(WriteKey("written"))
  /\ WF_vars(\E outcome \in Writes : WriteCert(outcome)) /\ SF_vars(WriteCert("written"))
  /\ WF_vars(StoredUnusable \/ serve)

FairSpec == Spec /\ Fairness

-----------------------------------------------------------------------------
\* The type invariant.
TypeOK ==
  /\ now \in Nat /\ earliest \in Nat /\ starts \in Nat
  /\ Issued = 1 .. Cardinality(Issued)
  /\ \A c \in Issued : /\ certs[c].notBefore \in Int /\ certs[c].at \in Nat
                       /\ certs[c].domain \in Domains /\ certs[c].by \in Nat
                       /\ certs[c].taken \in BOOLEAN
  /\ {bKey, bCert, served, pending} \subseteq Issued \cup {0}
  /\ stored \subseteq Issued
  /\ pc \in {"down", "loading", "loop", "ordering", "storeKey", "storeCert", "parse",
             "backoff"}
  /\ domain \in Domains

\* The certificate in service is the pair the Backend holds, unless its
\* successor is on its way there: what handshakes use survives a restart, and is
\* never a certificate with the key of another (loadStored, store, serve).
ServedIsStored ==
  (served # 0 /\ pending = 0) => bCert = served /\ bKey = served

\* After a certificate it took, a process is issued no other, usable or not, for a third
\* of a lifetime, whatever writes fail, answers are lost and however old the CA dates it
\* (pending, earliest).
OrdersSpaced ==
  \A c, d \in Issued :
    (c < d /\ certs[c].taken /\ certs[c].by = certs[d].by)
      => certs[d].at - certs[c].at >= third

\* A pair that could not be stored is stored in the end and served, unless it
\* expires first: a failed write never ends the retries.
PendingSettles ==
  \A c \in Serials :
    (pending = c) ~> (pending = 0 \/ (pending \in Issued /\ expired(pending)))

\* A process that serves no usable certificate and has none to store obtains one.
OrderFollows ==
  (pc # "down" /\ pending = 0 /\ ~Certificate)
    ~> (pc = "down" \/ pending # 0 \/ Certificate \/ Cardinality(Issued) = MaxCerts)

\* A certificate comes in the end: one obtained is stored and served, or expires, and one
\* that is missing is ordered.
CertificateComes == PendingSettles /\ OrderFollows

-----------------------------------------------------------------------------
(***************************************************************************)
(* What the source says of itself, and does not do.                        *)
(***************************************************************************)
\* "so a restart never re-issues" (runACME): a process whose Backend was given a
\* complete pair, still valid and for its domain, never orders another before it
\* has served that pair.
RestartNeverReissues ==
  (pc = "ordering" /\ served = 0) =>
    \A c \in stored : expired(c) \/ certs[c].domain # domain

\* "earliest is the soonest the next order may be placed after an issuance: a third of
\* the lifetime" (runACME): of any issuance.  One whose certificate is dropped is
\* followed by the next order after the backoff.
EveryIssuanceSpaced ==
  \A c, d \in Issued :
    (c < d /\ certs[c].by = certs[d].by) => certs[d].at - certs[c].at >= third

\* "obtains one when it is not usable" (StartACME): a process that has no usable
\* certificate comes to order one.
UnusableIsReplaced ==
  (pc # "down" /\ ~Certificate)
    ~> (pc \in {"down", "ordering"} \/ Certificate)
=============================================================================

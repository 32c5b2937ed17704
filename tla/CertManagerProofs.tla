------------------------- MODULE CertManagerProofs -------------------------
(***************************************************************************)
(* What holds of the certificate manager for every lifetime, every way a   *)
(* CA dates its certificates, and every number of processes and orders.    *)
(***************************************************************************)
EXTENDS CertManager, FiniteSetTheorems, TLAPS

\* The serial numbers are handed out in order.
InOrder == \E n \in Nat : Issued = 1 .. n

CertTypes ==
  \A c \in Issued : /\ certs[c].notBefore \in Int /\ certs[c].at \in Nat
                    /\ certs[c].domain \in Domains /\ certs[c].by \in Nat
                    /\ certs[c].taken \in BOOLEAN

TypeInv ==
  /\ now \in Nat /\ earliest \in Nat /\ starts \in Nat
  /\ InOrder /\ CertTypes
  /\ {bKey, bCert, served, pending} \subseteq Issued \cup {0}
  /\ stored \subseteq Issued
  /\ pc \in {"down", "loading", "loop", "ordering", "storeKey", "storeCert", "parse",
             "backoff"}
  /\ domain \in Domains

\* How far store has come with the pair that is pending (obtain, store).
StoreInv ==
  /\ pc \in {"down", "loading"} => served = 0 /\ pending = 0
  /\ pc = "ordering" => pending = 0
  /\ pc \in {"storeKey", "storeCert", "parse"} => pending # 0
  /\ pc \in {"storeCert", "parse"} => bKey = pending
  /\ pc = "parse" => bCert = pending

\* What keeps the process from its next order after it took c: that c is pending
\* or, once it is served, earliest.
Held(c) ==
  certs[c].taken /\ certs[c].by = starts /\ pc # "down" =>
    /\ pending # 0 \/ (served # 0 /\ earliest >= certs[c].at + third)
    /\ pc = "ordering" => now >= certs[c].at + third

SpaceInv ==
  /\ \A c \in Issued : certs[c].at <= now /\ certs[c].by <= starts /\ Held(c)
  /\ OrdersSpaced

CertInv == TypeInv /\ StoreInv /\ ServedIsStored /\ SpaceInv

-----------------------------------------------------------------------------
\* A third of a lifetime is a number (renewAt, earliest).
LEMMA ThirdIsNat == third \in Nat
BY CertAssumption DEF CertAssumption, third

\* The steps in which the CA issues a certificate (obtain).
Issues == Obtain \/ ObtainUnusable

\* Every other step leaves what the CA issued alone.
LEMMA OnlyObtainIssues ==
  ASSUME [Next]_vars, ~Issues
  PROVE  certs' = certs
BY DEF Issues, Next, vars, Pass, StartACME, Stop, LoadStored, BeginOrder, NotWritable,
       BeginStore, ObtainFails, WriteKey, WriteCert, StoredUnusable, serve, BackoffEnds

\* What the CA hands out: one more certificate, with the next number (obtain).
LEMMA ObtainIssues ==
  ASSUME TypeInv, Issues
  PROVE  \E n \in Nat :
           LET c == n + 1 IN
           /\ Issued = 1 .. n /\ Issued' = 1 .. c /\ c # 0
           /\ \A i \in 1 .. n : certs'[i] = certs[i]
           /\ certs'[c].at = now /\ certs'[c].by = starts /\ certs'[c].domain = domain
           /\ certs'[c].notBefore \in Int /\ certs'[c].taken \in BOOLEAN
           /\ pc = "ordering"
           /\ UNCHANGED <<now, bKey, bCert, domain, served, earliest, starts, stored>>
           /\ \/ Obtain /\ pending' = c /\ pc' = "storeKey"
              \/ /\ ObtainUnusable /\ ~certs'[c].taken
                 /\ pending' = pending /\ pc' = "backoff"
<1>1. PICK n \in Nat : Issued = 1 .. n
  BY DEF TypeInv, InOrder
<1>2. Cardinality(Issued) = n
  <2>1. Cardinality(1 .. n) = IF 1 > n THEN 0 ELSE n - 1 + 1
    BY FS_Interval
  <2> QED BY <1>1, <2>1
<1> DEFINE c == n + 1
<1>3. PICK b \in Backdates, taken \in BOOLEAN :
        /\ issue(b, taken)
        /\ \/ Obtain /\ taken
           \/ ObtainUnusable /\ ~taken
  BY DEF Issues, Obtain, ObtainUnusable
<1>0. /\ pc = "ordering"
      /\ certs' = [i \in Issued \cup {c} |->
           IF i = c THEN [notBefore |-> now - b, domain |-> domain, at |-> now, by |-> starts,
                          taken |-> taken]
                    ELSE certs[i]]
  BY <1>2, <1>3 DEF issue
<1>4. Issued \cup {c} = 1 .. c
  BY <1>1
<1>5. now - b \in Int
  <2>1. b \in Int
    BY CertAssumption DEF CertAssumption
  <2> QED BY <2>1 DEF TypeInv
<1>6. Issued' = 1 .. c
  BY <1>0, <1>4 DEF Issued
<1>7. \A i \in 1 .. n : certs'[i] = certs[i]
  <2>1. \A i \in 1 .. n : i # c
    OBVIOUS
  <2> QED BY <1>1, <1>0, <2>1
<1>8. certs'[c] = [notBefore |-> now - b, domain |-> domain, at |-> now, by |-> starts,
                   taken |-> taken]
  BY <1>0
<1>9. /\ UNCHANGED <<now, bKey, bCert, domain, served, earliest, starts, stored>>
      /\ \/ Obtain /\ pending' = c /\ pc' = "storeKey"
         \/ ObtainUnusable /\ ~taken /\ pending' = pending /\ pc' = "backoff"
  BY <1>2, <1>3 DEF Obtain, ObtainUnusable
<1>10. c # 0 /\ c \in Nat
  OBVIOUS
<1> HIDE DEF c
<1>11. certs'[c].at = now /\ certs'[c].by = starts /\ certs'[c].domain = domain
       /\ certs'[c].notBefore \in Int /\ certs'[c].taken = taken
  BY <1>5, <1>8
<1> QED BY <1>0, <1>1, <1>6, <1>7, <1>9, <1>10, <1>11 DEF c

\* Each step preserves the types.
LEMMA TypeStep ==
  ASSUME TypeInv, StoreInv, [Next]_vars
  PROVE  TypeInv'
<1>1. CASE Issues
  <2>1. PICK n \in Nat :
           LET c == n + 1 IN
           /\ Issued = 1 .. n /\ Issued' = 1 .. c /\ c # 0
           /\ \A i \in 1 .. n : certs'[i] = certs[i]
           /\ certs'[c].at = now /\ certs'[c].by = starts /\ certs'[c].domain = domain
           /\ certs'[c].notBefore \in Int /\ certs'[c].taken \in BOOLEAN
           /\ pc = "ordering"
           /\ UNCHANGED <<now, bKey, bCert, domain, served, earliest, starts, stored>>
           /\ \/ Obtain /\ pending' = c /\ pc' = "storeKey"
              \/ /\ ObtainUnusable /\ ~certs'[c].taken
                 /\ pending' = pending /\ pc' = "backoff"
    BY <1>1, ObtainIssues
  <2>2. \A i \in 1 .. n + 1 : i = n + 1 \/ i \in 1 .. n
    OBVIOUS
  <2>3. CertTypes'
    BY <2>1, <2>2 DEF TypeInv, CertTypes
  <2>4. InOrder'
    BY <2>1 DEF InOrder
  <2>5. Issued \subseteq Issued' /\ n + 1 \in Issued'
    BY <2>1
  <2> QED BY <2>1, <2>3, <2>4, <2>5 DEF TypeInv
<1>2. CASE ~Issues
  <2>1. certs' = certs
    BY <1>2, OnlyObtainIssues
  <2>2. Issued' = Issued /\ InOrder' /\ CertTypes'
    BY <2>1 DEF Issued, InOrder, CertTypes, TypeInv
  <2>3. CASE serve
    BY <2>2, <2>3, ThirdIsNat DEF serve, TypeInv
  <2>4. CASE LoadStored
    BY <2>2, <2>4 DEF LoadStored, TypeInv
  <2>5. ASSUME NEW outcome \in Writes, WriteKey(outcome)
        PROVE  TypeInv'
    BY <2>2, <2>5 DEF WriteKey, TypeInv
  <2>6. ASSUME NEW outcome \in Writes, WriteCert(outcome)
        PROVE  TypeInv'
    BY <2>2, <2>6 DEF WriteCert, TypeInv, StoreInv
  <2>7. CASE \/ Pass \/ StartACME \/ Stop \/ BeginOrder \/ NotWritable \/ BeginStore
             \/ ObtainFails \/ StoredUnusable \/ BackoffEnds \/ UNCHANGED vars
    BY <2>2, <2>7 DEF Pass, StartACME, Stop, BeginOrder, NotWritable, BeginStore,
       ObtainFails, StoredUnusable, BackoffEnds, vars, TypeInv
  <2> QED BY <1>2, <2>3, <2>4, <2>5, <2>6, <2>7 DEF Next, Issues
<1> QED BY <1>1, <1>2

\* Each step preserves what is known of the pair that is pending, and that what is
\* served is what the Backend holds.
LEMMA StoreStep ==
  ASSUME TypeInv, StoreInv, ServedIsStored, [Next]_vars
  PROVE  StoreInv' /\ ServedIsStored'
<1>1. CASE Issues
  <2>1. /\ UNCHANGED <<bKey, bCert, served>>
        /\ \/ pending' # 0 /\ pc' = "storeKey"
           \/ pending' = pending /\ pc' = "backoff"
    BY <1>1, ObtainIssues
  <2> QED BY <2>1 DEF StoreInv, ServedIsStored
<1>2. CASE LoadStored
  BY <1>2 DEF LoadStored, usablePair, parses, StoreInv, ServedIsStored
<1>3. CASE serve
  BY <1>3 DEF serve, StoreInv, ServedIsStored
<1>4. ASSUME NEW outcome \in Writes, WriteKey(outcome)
      PROVE  StoreInv' /\ ServedIsStored'
  BY <1>4 DEF WriteKey, Writes, StoreInv, ServedIsStored
<1>5. ASSUME NEW outcome \in Writes, WriteCert(outcome)
      PROVE  StoreInv' /\ ServedIsStored'
  BY <1>5 DEF WriteCert, Writes, StoreInv, ServedIsStored
<1>6. CASE \/ Pass \/ StartACME \/ Stop \/ BeginOrder \/ NotWritable \/ BeginStore
           \/ ObtainFails \/ StoredUnusable \/ BackoffEnds \/ UNCHANGED vars
  BY <1>6 DEF Pass, StartACME, Stop, BeginOrder, NotWritable, BeginStore,
     ObtainFails, StoredUnusable, BackoffEnds, vars, StoreInv, ServedIsStored
<1> QED BY <1>1, <1>2, <1>3, <1>4, <1>5, <1>6 DEF Next, Issues

\* Each step preserves what keeps a process from its next order.
LEMMA SpaceStep ==
  ASSUME TypeInv, StoreInv, SpaceInv, [Next]_vars
  PROVE  SpaceInv'
<1> USE ThirdIsNat
<1>0. /\ now \in Nat /\ earliest \in Nat /\ starts \in Nat
      /\ \A c \in Issued : certs[c].at \in Nat /\ certs[c].by \in Nat
  BY DEF TypeInv, CertTypes
<1>1. CASE Issues
  <2>1. PICK n \in Nat :
           LET c == n + 1 IN
           /\ Issued = 1 .. n /\ Issued' = 1 .. c /\ c # 0
           /\ \A i \in 1 .. n : certs'[i] = certs[i]
           /\ certs'[c].at = now /\ certs'[c].by = starts /\ certs'[c].domain = domain
           /\ certs'[c].notBefore \in Int /\ certs'[c].taken \in BOOLEAN
           /\ pc = "ordering"
           /\ UNCHANGED <<now, bKey, bCert, domain, served, earliest, starts, stored>>
           /\ \/ Obtain /\ pending' = c /\ pc' = "storeKey"
              \/ /\ ObtainUnusable /\ ~certs'[c].taken
                 /\ pending' = pending /\ pc' = "backoff"
    BY <1>1, ObtainIssues
  <2>2. \A i \in Issued' : i = n + 1 \/ (i \in Issued /\ i < n + 1)
    BY <2>1
  <2>3. ASSUME NEW c \in Issued'
        PROVE  certs'[c].at <= now' /\ certs'[c].by <= starts' /\ Held(c)'
    <3>1. certs'[c].at <= now /\ certs'[c].by <= starts
      BY <1>0, <2>1, <2>2 DEF SpaceInv
    <3>2. CASE pending' = n + 1 /\ pc' = "storeKey"
      BY <2>1, <3>1, <3>2 DEF Held
    <3>3. CASE ~certs'[n + 1].taken /\ pending' = pending /\ pc' = "backoff"
      <4>1. CASE c = n + 1
        <5>1. ~certs'[c].taken
          BY <3>3, <4>1
        <5>2. Held(c)'
          BY <5>1, Zenon DEF Held
        <5> QED BY <2>1, <3>1, <5>2
      <4>2. CASE c # n + 1
        <5>1. certs'[c] = certs[c] /\ Held(c)
          BY <2>1, <2>2, <4>2 DEF SpaceInv
        <5> QED BY <2>1, <3>1, <3>3, <5>1 DEF Held
      <4> QED BY <4>1, <4>2
    <3> QED BY <2>1, <3>2, <3>3
  <2>4. ASSUME NEW c \in Issued', NEW d \in Issued', c < d, certs'[c].taken,
               certs'[c].by = certs'[d].by
        PROVE  certs'[d].at - certs'[c].at >= third
    <3>1. c \in Issued /\ certs'[c] = certs[c]
      BY <2>1, <2>2, <2>4
    <3>2. CASE d = n + 1
      <4>1. certs[c].taken /\ certs[c].by = starts /\ pc = "ordering" /\ Held(c) /\ certs[c].at \in Nat
        BY <1>0, <2>1, <2>4, <3>1, <3>2 DEF SpaceInv
      <4>2. now >= certs[c].at + third
        BY <4>1 DEF Held
      <4> QED BY <1>0, <2>1, <3>1, <3>2, <4>1, <4>2
    <3>3. CASE d # n + 1
      <4>1. d \in Issued /\ certs'[d] = certs[d]
        BY <2>1, <2>2, <3>3
      <4> QED BY <2>4, <3>1, <4>1 DEF SpaceInv, OrdersSpaced
    <3> QED BY <3>2, <3>3
  <2> QED BY <2>3, <2>4 DEF SpaceInv, OrdersSpaced
<1>2. CASE ~Issues
  <2>1. certs' = certs /\ Issued' = Issued
    BY <1>2, OnlyObtainIssues DEF Issued
  <2>2. OrdersSpaced'
    BY <2>1 DEF SpaceInv, OrdersSpaced
  <2>3. SUFFICES ASSUME NEW c \in Issued
                 PROVE  certs[c].at <= now' /\ certs[c].by <= starts' /\ Held(c)'
    BY <2>1, <2>2 DEF SpaceInv
  <2>4. /\ certs[c].at <= now /\ certs[c].by <= starts /\ Held(c)
        /\ certs[c].at \in Nat /\ certs[c].by \in Nat
    BY <1>0 DEF SpaceInv
  <2>5. CASE Pass
    <3>1. now' = now + 1 /\ UNCHANGED <<pc, starts, served, pending, earliest, certs>>
      BY <2>5 DEF Pass
    <3> QED BY <1>0, <2>4, <3>1 DEF Held
  <2>6. CASE StartACME
    <3>1. starts' = starts + 1 /\ now' = now
      BY <2>6 DEF StartACME
    <3> QED BY <1>0, <2>1, <2>4, <3>1 DEF Held
  <2>7. CASE Stop
    BY <2>1, <2>4, <2>7 DEF Stop, Held
  <2>8. CASE LoadStored
    <3>1. pc = "loading" /\ served = 0 /\ pending = 0
      BY <2>8 DEF LoadStored, StoreInv
    <3>2. certs[c].taken => certs[c].by # starts
      BY <2>4, <3>1 DEF Held
    <3> QED BY <2>1, <2>4, <2>8, <3>2 DEF LoadStored, Held
  <2>9. CASE BeginOrder
    <3>1. /\ pc = "loop" /\ pc' = "ordering" /\ pending = 0 /\ dueNow
          /\ UNCHANGED <<now, served, pending, earliest, starts>>
      BY <2>9 DEF BeginOrder
    <3>2. ASSUME certs[c].taken, certs[c].by = starts
          PROVE  served # 0 /\ earliest >= certs[c].at + third /\ now >= earliest
      BY <2>4, <3>1, <3>2 DEF Held, dueNow
    <3>3. certs[c].taken /\ certs[c].by = starts => now >= certs[c].at + third
      BY <1>0, <2>4, <3>2
    <3> QED BY <2>1, <2>4, <3>1, <3>2, <3>3 DEF Held
  <2>10. CASE serve
    <3>1. /\ pc' = "loop" /\ served' = pending /\ pending # 0 /\ earliest' = now + third
          /\ UNCHANGED <<now, starts>>
      BY <2>10 DEF serve, parses
    <3>2. earliest' >= certs[c].at + third
      BY <1>0, <2>4, <3>1
    <3> QED BY <2>1, <2>4, <3>1, <3>2 DEF Held
  <2>11. CASE \/ NotWritable \/ BeginStore \/ ObtainFails \/ StoredUnusable \/ BackoffEnds
              \/ (\E outcome \in Writes : WriteKey(outcome) \/ WriteCert(outcome))
    <3>1. /\ UNCHANGED <<now, served, pending, earliest, starts>> /\ pc # "down" /\ pc' # "ordering"
      BY <2>11 DEF NotWritable, BeginStore, ObtainFails, StoredUnusable, BackoffEnds, WriteKey,
                   WriteCert
    <3> QED BY <2>1, <2>4, <3>1 DEF Held
  <2>12. CASE UNCHANGED vars
    BY <2>4, <2>12 DEF vars, Held
  <2> QED BY <1>2, <2>5, <2>6, <2>7, <2>8, <2>9, <2>10, <2>11, <2>12 DEF Next, Issues
<1> QED BY <1>1, <1>2

\* CertInv holds of every reachable state.
THEOREM CertInvariant == Spec => []CertInv
<1>1. Init => CertInv
  <2> SUFFICES ASSUME Init PROVE CertInv
    OBVIOUS
  <2>1. Issued = {}
    BY DEF Init, Issued
  <2>2. Issued = 1 .. 0
    BY <2>1
  <2>3. TypeInv
    BY <2>1, <2>2 DEF Init, TypeInv, InOrder, CertTypes
  <2> QED BY <2>1, <2>3 DEF Init, CertInv, StoreInv, ServedIsStored, SpaceInv, OrdersSpaced
<1>2. CertInv /\ [Next]_vars => CertInv'
  BY TypeStep, StoreStep, SpaceStep DEF CertInv
<1> QED BY <1>1, <1>2, PTL DEF Spec

\* The certificate in service is the pair the Backend holds, unless its successor is
\* on its way there, whichever writes fail or lose their answer and whenever the
\* process ends (loadStored, store, serve).
THEOREM ServesWhatIsStored == FairSpec => []ServedIsStored
<1>1. CertInv => ServedIsStored
  BY DEF CertInv
<1> QED BY <1>1, CertInvariant, PTL DEF FairSpec

\* After a certificate it took, a process is issued no other, usable or not, within a
\* third of a lifetime (runACME).
THEOREM OrdersAreSpaced == FairSpec => []OrdersSpaced
<1>1. CertInv => OrdersSpaced
  BY DEF CertInv, SpaceInv
<1> QED BY <1>1, CertInvariant, PTL DEF FairSpec
=============================================================================

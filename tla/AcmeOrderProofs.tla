-------------------------- MODULE AcmeOrderProofs --------------------------
(***************************************************************************)
(* Proofs about AcmeOrder, for every set of authorizations, zones, name    *)
(* servers and accounts, and any number of orders.                         *)
(***************************************************************************)
EXTENDS AcmeOrder, TLAPS

\* A provider is at work on the record of cur.
Working == {"find", "list", "sent"}

\* The order has no record yet, or none any longer that it still has to remove.
Before  == {"account", "store", "directory", "register", "order", "credentials"}
Outside == Before \cup {"idle", "ready", "finalize", "poll"}

\* The account's key is stored before the CA knows it, and only one is ever stored.
AccountInv ==
  /\ OneAccount
  /\ pc = "store" => stored = None /\ key \in Accounts
  /\ pc \in {"directory", "register"} => key = stored /\ key \in Accounts

\* What is known of the order where Obtain stands.
PlaceInv ==
  /\ pc \in Working \cup {"cleanup", "propagate", "credentials"} \/ cleaning => Dns01
  /\ pc \in Working => cur \in pending /\ (cleaning => cur \in tried)
  /\ Dns01 /\ pc \notin Working => cur = None
  /\ ~Dns01 /\ pc \notin {"accept", "validate"} => cur = None
  /\ pc = "cleanup" => cleaning
  /\ pc \in Before \cup {"authz", "propagate", "accept", "validate"} => ~cleaning
  /\ pc \in Before => pending = {} /\ accepted = {}
  /\ tried \subseteq pending /\ (~cleaning => tried = {})
  /\ accepted \subseteq pending \/ ~Dns01
  /\ Dns01 \/ pending = {}

\* The challenge that is served is the one being validated.
TableInv ==
  table = IF ~Dns01 /\ pc \in {"accept", "validate"} THEN {cur} ELSE {}

\* The zone is the one of the first lookup until everything was tried, and a change that is
\* awaited is the one for cur.
ZoneInv ==
  /\ pc \in Outside \/ ~Dns01 => found = None
  /\ pc \in {"list", "sent"} => found \in Candidates
  /\ ~cleaning /\ found = None => pending \subseteq {cur}
  /\ waits # None <=> pc = "sent"
  /\ waits # None => /\ waits \in Changes /\ waits.zone = found /\ waits.value = cur
                     /\ waits.op = IF cleaning THEN "cleanup" ELSE "present"
  /\ \A z \in Candidates, a \in Authzs : <<z, a>> \in set =>
       /\ a \in pending
       /\ IF pc \in Outside THEN a \in tried ELSE z = found

\* What the order did at the provider, as long as nothing was carried out late: a record that was
\* removed stays away ...
GoneInv ==
  ~late =>
    /\ \A z \in Candidates, a \in tried \ (warned \cup {cur}) :
         <<z, a>> \in set => a \notin rrset[z] /\ (waits # None => a \notin waits.base)
    /\ pc = "sent" /\ answer = "ok" /\ cleaning => cur \notin rrset[found]

\* ... and one that was set stays until it is removed.
ShownInv ==
  ~late =>
    /\ ~cleaning => \A a \in pending \ {cur} :
                      a \in rrset[found] /\ (waits # None => a \in waits.base)
    /\ pc = "sent" /\ answer = "ok" /\ ~cleaning => cur \in rrset[found]

\* The CA finds what it was asked to look at.
AnsweredInv ==
  IF Dns01
  THEN pc \in {"accept", "validate"} /\ ~late /\ found = Public =>
         /\ \A a \in pending, s \in asked \cap Servers : a \in served[s]
         /\ pending # {} => asked # {}
  ELSE pc # "idle" => \A a \in accepted : ca[a] = "valid" \/ (pc = "validate" /\ a = cur)

OrderInv == TypeOK /\ AccountInv /\ PlaceInv /\ TableInv /\ ZoneInv /\ GoneInv /\ ShownInv
            /\ AnsweredInv
-----------------------------------------------------------------------------
(***************************************************************************)
(* The steps.                                                              *)
(***************************************************************************)
\* Steps of Obtain that touch no authorization, challenge or record.
PaperStep ==
  \/ GiveUp \/ accountKey \/ storeAccountKey \/ client \/ Register \/ dnsProvider
  \/ AuthorizationsRead \/ Accepted \/ WaitOrder \/ CreateOrderCert \/ fetchIssued

\* What such a step leaves alone, and where it takes Obtain.
LEMMA PaperMoves ==
  ASSUME PaperStep
  PROVE  /\ UNCHANGED <<challenge, provider, orders, todo, pending, accepted, cur, cleaning, asked,
                        tried, warned, set, found, missing, names, waits, answer, flight, late, ca, held,
                        rrset, served, foreign, table>>
         /\ failed' \in {failed, TRUE}
         /\ \/ pc \in Before /\ pc' \in Before \cup {"idle"} /\ pc' # "credentials"
            \/ pc = "credentials" /\ pc' = "authz"
            \/ pc \in {"ready", "finalize", "poll"} /\ pc' \in {"finalize", "poll", "idle"}
            \/ pc = "authz" /\ todo = {} /\ pc' = IF Dns01 THEN "propagate" ELSE "ready"
            \/ pc = "accept" /\ Dns01 /\ pc' = "validate"
BY DEF PaperStep, GiveUp, accountKey, storeAccountKey, client, Register, dnsProvider,
       AuthorizationsRead, Accepted, WaitOrder, CreateOrderCert, fetchIssued, Before,
       config, order, cache, requests, dns

\* One of them, or one of the others.
LEMMA StepKinds ==
  ASSUME [Next]_vars
  PROVE  \/ PaperStep \/ UNCHANGED vars
         \/ Obtain \/ Crash \/ AuthorizeOrder \/ waitPropagated \/ WaitAuthorization \/ CleanedUp
         \/ find \/ list \/ answered \/ ZoneAdded
         \/ \E a \in Authzs : GetAuthorization(a) \/ Accept(a) \/ Cleanup(a) \/ CADecides(a)
         \/ \E c \in flight : ProviderActs(c)
         \/ \E s \in Servers : Propagates(s)
         \/ \E z \in Candidates : ForeignChange(z)
BY DEF Next, PaperStep

-----------------------------------------------------------------------------
(***************************************************************************)
(* Types.                                                                  *)
(***************************************************************************)
\* TypeOK, in the groups that the steps change.
TypeCourse ==
  /\ challenge \in {"dns-01", "tls-alpn-01", "http-01"}
  /\ provider \in {"cloudflare", "route53", "azure", "google"}
  /\ pc \in Outside \cup Working \cup {"authz", "propagate", "accept", "validate", "cleanup"}
  /\ failed \in BOOLEAN
TypeCount ==
  orders \in 0 .. MaxOrders /\ foreign \in 0 .. MaxOrders
TypeAccount ==
  /\ created \in BOOLEAN /\ key \in Accounts \cup {None} /\ stored \in Accounts \cup {None}
  /\ registered \subseteq Accounts
TypeOrder ==
  /\ todo \subseteq Authzs /\ pending \subseteq Authzs /\ accepted \subseteq Authzs
  /\ tried \subseteq Authzs /\ warned \subseteq Authzs /\ table \subseteq Authzs
  /\ cur \in Authzs \cup {None} /\ cleaning \in BOOLEAN /\ asked \in Askable \cup {{}}
TypeZone ==
  /\ found \in Candidates \cup {None} /\ missing \subseteq Candidates
  /\ (names \subseteq Candidates \/ names = {None}) /\ set \subseteq Candidates \X Authzs
  /\ held \subseteq Candidates
TypeRequest ==
  /\ flight \subseteq Changes /\ waits \in {None} \cup Changes
  /\ answer \in {"none", "ok", "error"} /\ late \in BOOLEAN
TypeWorld ==
  /\ ca \in [Authzs -> {"pending", "processing", "valid", "invalid"}]
  /\ rrset \in [Candidates -> SUBSET Values] /\ served \in [Servers -> SUBSET Authzs]

\* TypeOK is these groups together.
LEMMA TypeGroups ==
  TypeOK <=> /\ TypeCourse /\ TypeCount /\ TypeAccount /\ TypeOrder /\ TypeZone /\ TypeRequest
             /\ TypeWorld
<1>1. TypeOK => TypeRequest
  BY DEF TypeOK, TypeRequest
<1>2. TypeOK <=> /\ TypeCourse /\ TypeCount /\ TypeAccount /\ TypeOrder /\ TypeZone /\ TypeRequest
                 /\ TypeWorld
  BY <1>1 DEF TypeOK, TypeCourse, TypeCount, TypeAccount, TypeOrder, TypeZone, TypeRequest,
     TypeWorld,
     Outside, Before, Working
<1> QED
  BY <1>2

\* What each provider makes of a change: cur's value comes or goes, and what else there is
\* was there, or had been read.
LEMMA ChangeLeaves ==
  ASSUME TypeOK, NEW c \in Changes
  PROVE  /\ Outcome(c).leaves \subseteq Values
         /\ c.op = "present" => c.value \in Outcome(c).leaves
         /\ c.op = "cleanup" => c.value \notin Outcome(c).leaves
         /\ \A v : v # c.value => /\ v \in Outcome(c).leaves => v \in rrset[c.zone] \cup c.base
                                  /\ v \in rrset[c.zone] \cap c.base => v \in Outcome(c).leaves
         /\ /\ provider \in {"cloudflare", "google"} \/ rrset[c.zone] = c.base
            /\ ~Outcome(c).refused
            => Outcome(c).leaves \ {c.value} = rrset[c.zone] \ {c.value}
<1>1. c.zone \in Candidates /\ c.base \subseteq Values /\ c.value \in Values
      /\ c.op \in {"present", "cleanup"} /\ rrset[c.zone] \subseteq Values
  BY DEF Changes, TypeOK, Values
<1>2. CASE provider = "cloudflare"
  BY <1>1, <1>2 DEF Outcome, cloudflare
<1>3. CASE provider = "route53"
  BY <1>1, <1>3 DEF Outcome, route53, Wanted
<1>4. CASE provider = "azure"
  BY <1>1, <1>4 DEF Outcome, azure, Wanted
<1>5. CASE provider = "google"
  BY <1>1, <1>5 DEF Outcome, google, Wanted
<1> QED
  BY <1>2, <1>3, <1>4, <1>5 DEF TypeOK

\* Obtain stands at one of its places.
LEMMA CourseTyped == OrderInv /\ [Next]_vars => TypeCourse'
<1> SUFFICES ASSUME OrderInv, [Next]_vars PROVE TypeCourse'
  OBVIOUS
<1> USE OrderAssumption DEF OrderInv, config, order, cache, requests, dns, TypeCourse, Outside,
   Before, Working
<1> USE TypeGroups
<1>1. CASE PaperStep
  BY <1>1, PaperMoves
<1>2. CASE Obtain
  BY <1>2 DEF Obtain
<1>3. CASE Crash
  BY <1>3 DEF Crash
<1>4. CASE AuthorizeOrder
  BY <1>4 DEF AuthorizeOrder
<1>5. CASE waitPropagated
  BY <1>5 DEF waitPropagated, Stop
<1>6. CASE WaitAuthorization
  BY <1>6 DEF WaitAuthorization, Stop
<1>7. CASE CleanedUp
  BY <1>7 DEF CleanedUp
<1>8. CASE find
  BY <1>8 DEF find, Fails, listZones
<1>9. CASE list
  BY <1>9 DEF list, Done, Fails
<1>10. CASE answered
  BY <1>10 DEF answered, Done, Fails
<1>11. CASE ZoneAdded
  BY <1>11 DEF ZoneAdded
<1>12. ASSUME NEW a \in Authzs, GetAuthorization(a) PROVE TypeCourse'
  BY <1>12 DEF GetAuthorization, Stop
<1>13. ASSUME NEW a \in Authzs, Accept(a) PROVE TypeCourse'
  BY <1>13 DEF Accept, Stop
<1>14. ASSUME NEW a \in Authzs, Cleanup(a) PROVE TypeCourse'
  BY <1>14 DEF Cleanup
<1>15. ASSUME NEW a \in Authzs, CADecides(a) PROVE TypeCourse'
  BY <1>15 DEF CADecides
<1>16. ASSUME NEW c \in flight, ProviderActs(c) PROVE TypeCourse'
  BY <1>16 DEF ProviderActs
<1>17. ASSUME NEW s \in Servers, Propagates(s) PROVE TypeCourse'
  BY <1>17 DEF Propagates
<1>18. ASSUME NEW z \in Candidates, ForeignChange(z) PROVE TypeCourse'
  BY <1>18 DEF ForeignChange
<1>19. CASE UNCHANGED vars
  BY <1>19 DEF vars
<1> QED
  BY StepKinds, <1>1, <1>2, <1>3, <1>4, <1>5, <1>6, <1>7, <1>8, <1>9, <1>10, <1>11, <1>12, <1>13,
     <1>14, <1>15, <1>16, <1>17, <1>18, <1>19

\* The bound on orders and foreign changes holds.
LEMMA CountsTyped == OrderInv /\ [Next]_vars => TypeCount'
<1> SUFFICES ASSUME OrderInv, [Next]_vars PROVE TypeCount'
  OBVIOUS
<1> USE OrderAssumption DEF OrderInv, config, order, cache, requests, dns, TypeCount
<1> USE TypeGroups
<1>1. CASE PaperStep
  BY <1>1, PaperMoves
<1>2. CASE Obtain
  BY <1>2 DEF Obtain
<1>3. ASSUME NEW z \in Candidates, ForeignChange(z) PROVE TypeCount'
  BY <1>3 DEF ForeignChange
<1>4. CASE UNCHANGED vars \/ Crash \/ AuthorizeOrder \/ waitPropagated \/ WaitAuthorization
           \/ CleanedUp \/ find \/ list \/ answered \/ ZoneAdded
  BY <1>4 DEF vars, Crash, AuthorizeOrder, waitPropagated, Stop, WaitAuthorization, CleanedUp,
     find, Fails, listZones, list, Done, answered, ZoneAdded
<1>5. CASE \/ \E a \in Authzs : GetAuthorization(a) \/ Accept(a) \/ Cleanup(a) \/ CADecides(a)
           \/ \E c \in flight : ProviderActs(c)
           \/ \E s \in Servers : Propagates(s)
  BY <1>5 DEF GetAuthorization, Accept, Cleanup, CADecides, ProviderActs, Propagates, Stop
<1> QED
  BY StepKinds, <1>1, <1>2, <1>3, <1>4, <1>5

\* Only authorizations of the order are looked at, served, removed and warned of.
LEMMA ChallengesTyped == OrderInv /\ [Next]_vars => TypeOrder'
<1> SUFFICES ASSUME OrderInv, [Next]_vars PROVE TypeOrder'
  OBVIOUS
<1> USE OrderAssumption DEF OrderInv, PlaceInv, Working, Dns01, config, order, cache, requests,
   dns, TypeOrder
<1> USE TypeGroups
<1>1. CASE PaperStep
  BY <1>1, PaperMoves
<1>2. CASE Obtain
  BY <1>2 DEF Obtain
<1>3. CASE Crash
  BY <1>3 DEF Crash
<1>4. CASE AuthorizeOrder
  BY <1>4 DEF AuthorizeOrder
<1>5. CASE waitPropagated
  BY <1>5 DEF waitPropagated, Stop
<1>6. CASE WaitAuthorization
  BY <1>6 DEF WaitAuthorization, Stop
<1>7. CASE find
  BY <1>7 DEF find, Fails, listZones
<1>8. CASE list
  BY <1>8 DEF list, Done, Fails
<1>9. CASE answered
  BY <1>9 DEF answered, Done, Fails
<1>10. ASSUME NEW a \in Authzs, GetAuthorization(a) PROVE TypeOrder'
  BY <1>10 DEF GetAuthorization, Stop
<1>11. ASSUME NEW a \in Authzs, Accept(a) PROVE TypeOrder'
  BY <1>11 DEF Accept, Stop
<1>12. ASSUME NEW a \in Authzs, Cleanup(a) PROVE TypeOrder'
  BY <1>12 DEF Cleanup
<1>13. CASE UNCHANGED vars \/ CleanedUp \/ ZoneAdded
  BY <1>13 DEF vars, CleanedUp, ZoneAdded
<1>14. CASE \/ \E a \in Authzs : CADecides(a)
            \/ \E c \in flight : ProviderActs(c)
            \/ \E s \in Servers : Propagates(s)
            \/ \E z \in Candidates : ForeignChange(z)
  BY <1>14 DEF CADecides, ProviderActs, Propagates, ForeignChange
<1> QED
  BY StepKinds, <1>1, <1>2, <1>3, <1>4, <1>5, <1>6, <1>7, <1>8, <1>9, <1>10, <1>11, <1>12, <1>13,
     <1>14

\* The zone that is found is a candidate (zoneCache.find).
LEMMA ZonesTyped == OrderInv /\ [Next]_vars => TypeZone'
<1> SUFFICES ASSUME OrderInv, [Next]_vars PROVE TypeZone'
  OBVIOUS
<1> USE OrderAssumption DEF OrderInv, PlaceInv, ZoneInv, Working, config, order, cache, requests,
   dns, TypeZone, TypeOrder
<1> USE TypeGroups
<1>1. CASE PaperStep
  BY <1>1, PaperMoves
<1>2. CASE Obtain
  BY <1>2 DEF Obtain
<1>3. CASE Crash
  BY <1>3 DEF Crash
<1>4. CASE find
  BY <1>4 DEF find, Fails, listZones
<1>5. CASE list
  BY <1>5 DEF list, Done, Fails
<1>6. CASE CleanedUp
  BY <1>6 DEF CleanedUp
<1>7. CASE ZoneAdded
  BY <1>7 DEF ZoneAdded
<1>8. CASE UNCHANGED vars \/ AuthorizeOrder \/ waitPropagated \/ WaitAuthorization \/ answered
  BY <1>8 DEF vars, AuthorizeOrder, waitPropagated, Stop, WaitAuthorization, answered, Done, Fails
<1>9. CASE \/ \E a \in Authzs : GetAuthorization(a) \/ Accept(a) \/ Cleanup(a) \/ CADecides(a)
           \/ \E c \in flight : ProviderActs(c)
           \/ \E s \in Servers : Propagates(s)
           \/ \E z \in Candidates : ForeignChange(z)
  BY <1>9 DEF GetAuthorization, Accept, Cleanup, CADecides, ProviderActs, Propagates,
     ForeignChange, Stop
<1> QED
  BY StepKinds, <1>1, <1>2, <1>3, <1>4, <1>5, <1>6, <1>7, <1>8, <1>9

\* Every change that is sent is for a candidate zone and an authorization (Present, Cleanup).
LEMMA ChangesTyped == OrderInv /\ [Next]_vars => TypeRequest'
<1> SUFFICES ASSUME OrderInv, [Next]_vars PROVE TypeRequest'
  OBVIOUS
<1> USE OrderAssumption DEF OrderInv, PlaceInv, ZoneInv, Working, config, order, cache, requests,
   dns, TypeRequest, TypeOrder
<1> USE TypeGroups
<1>1. CASE PaperStep
  BY <1>1, PaperMoves
<1>2. CASE list
  <2> DEFINE change == [zone |-> found, base |-> rrset[found], value |-> cur,
                        op |-> IF cleaning THEN "cleanup" ELSE "present"]
  <2>1. found \in Candidates /\ cur \in Authzs /\ rrset[found] \in SUBSET Values
    BY <1>2 DEF list, TypeWorld
  <2>2. change \in Changes
    BY <2>1 DEF Changes
  <2>3. UNCHANGED late /\ answer' = "none"
        /\ ((waits' = change /\ flight' = flight \cup {change}) \/ UNCHANGED <<waits, flight>>)
    BY <1>2 DEF list
  <2> QED
    BY <2>2, <2>3
<1>3. CASE answered
  BY <1>3 DEF answered, Done, Fails
<1>4. ASSUME NEW c \in flight, ProviderActs(c) PROVE TypeRequest'
  BY <1>4 DEF ProviderActs
<1>5. CASE Crash
  BY <1>5 DEF Crash
<1>6. CASE UNCHANGED vars \/ Obtain \/ AuthorizeOrder \/ waitPropagated \/ WaitAuthorization
           \/ CleanedUp \/ find \/ ZoneAdded
  BY <1>6 DEF vars, Obtain, AuthorizeOrder, waitPropagated, Stop, WaitAuthorization, CleanedUp,
     find, Fails, listZones, ZoneAdded
<1>7. CASE \/ \E a \in Authzs : GetAuthorization(a) \/ Accept(a) \/ Cleanup(a) \/ CADecides(a)
           \/ \E s \in Servers : Propagates(s)
           \/ \E z \in Candidates : ForeignChange(z)
  BY <1>7 DEF GetAuthorization, Accept, Cleanup, CADecides, Propagates, ForeignChange, Stop
<1> QED
  BY StepKinds, <1>1, <1>2, <1>3, <1>4, <1>5, <1>6, <1>7

\* The CA, the record sets and the name servers hold what they can hold.
LEMMA WorldTyped == OrderInv /\ [Next]_vars => TypeWorld'
<1> SUFFICES ASSUME OrderInv, [Next]_vars PROVE TypeWorld'
  OBVIOUS
<1> USE OrderAssumption DEF OrderInv, config, order, cache, requests, dns, TypeWorld, TypeRequest,
   Values
<1> USE TypeGroups
<1>1. CASE PaperStep
  BY <1>1, PaperMoves
<1>2. CASE AuthorizeOrder
  BY <1>2 DEF AuthorizeOrder
<1>3. ASSUME NEW a \in Authzs, Accept(a) PROVE TypeWorld'
  BY <1>3 DEF Accept, Stop
<1>4. ASSUME NEW a \in Authzs, CADecides(a) PROVE TypeWorld'
  BY <1>4 DEF CADecides
<1>5. ASSUME NEW c \in flight, ProviderActs(c) PROVE TypeWorld'
  <2>1. Outcome(c).leaves \subseteq Values
    BY ChangeLeaves
  <2>2. c.zone \in Candidates
    BY DEF Changes
  <2> QED
    BY <1>5, <2>1, <2>2 DEF ProviderActs
<1>6. ASSUME NEW s \in Servers, Propagates(s) PROVE TypeWorld'
  BY <1>6 DEF Propagates
<1>7. ASSUME NEW z \in Candidates, ForeignChange(z) PROVE TypeWorld'
  BY <1>7 DEF ForeignChange
<1>8. CASE UNCHANGED vars \/ Obtain \/ Crash \/ waitPropagated \/ WaitAuthorization \/ CleanedUp
           \/ find \/ list \/ answered \/ ZoneAdded
  BY <1>8 DEF vars, Obtain, Crash, waitPropagated, Stop, WaitAuthorization, CleanedUp, find,
     Fails, listZones, list, Done, answered, ZoneAdded
<1>9. CASE \E a \in Authzs : GetAuthorization(a) \/ Cleanup(a)
  BY <1>9 DEF GetAuthorization, Cleanup, Stop
<1> QED
  BY StepKinds, <1>1, <1>2, <1>3, <1>4, <1>5, <1>6, <1>7, <1>8, <1>9

-----------------------------------------------------------------------------
(*****************************************************************************)
(* The account.                                                              *)
(*****************************************************************************)
\* A key is stored before it is registered, and never replaced (accountKey, client).
LEMMA AccountStep == OrderInv /\ [Next]_vars => (TypeAccount /\ AccountInv)'
<1> SUFFICES ASSUME OrderInv, [Next]_vars PROVE (TypeAccount /\ AccountInv)'
  OBVIOUS
<1> USE OrderAssumption DEF OrderInv, account, config, order, cache, requests, dns, TypeAccount,
   AccountInv, OneAccount
<1> USE TypeGroups
<1>1. CASE PaperStep
  <2>1. CASE GiveUp
    BY <2>1 DEF GiveUp
  <2>2. CASE accountKey
    BY <2>2 DEF accountKey
  <2>3. CASE storeAccountKey
    BY <2>3 DEF storeAccountKey
  <2>4. CASE client
    BY <2>4 DEF client
  <2>5. CASE Register
    BY <2>5 DEF Register
  <2>6. CASE dnsProvider
    BY <2>6 DEF dnsProvider
  <2>7. CASE AuthorizationsRead
    BY <2>7 DEF AuthorizationsRead
  <2>8. CASE Accepted
    BY <2>8 DEF Accepted
  <2>9. CASE WaitOrder
    BY <2>9 DEF WaitOrder
  <2>10. CASE CreateOrderCert
    BY <2>10 DEF CreateOrderCert
  <2>11. CASE fetchIssued
    BY <2>11 DEF fetchIssued
  <2> QED
    BY <1>1, <2>1, <2>2, <2>3, <2>4, <2>5, <2>6, <2>7, <2>8, <2>9, <2>10, <2>11 DEF PaperStep
<1>2. CASE Obtain
  BY <1>2 DEF Obtain
<1>3. CASE Crash
  BY <1>3 DEF Crash
<1>4. CASE UNCHANGED vars \/ AuthorizeOrder \/ waitPropagated \/ WaitAuthorization \/ CleanedUp
           \/ find \/ list \/ answered \/ ZoneAdded
  BY <1>4 DEF vars, AuthorizeOrder, waitPropagated, Stop, WaitAuthorization, CleanedUp, find,
     Fails, listZones, list, Done, answered, ZoneAdded
<1>5. CASE \/ \E a \in Authzs : GetAuthorization(a) \/ Accept(a) \/ Cleanup(a) \/ CADecides(a)
           \/ \E c \in flight : ProviderActs(c)
           \/ \E s \in Servers : Propagates(s)
           \/ \E z \in Candidates : ForeignChange(z)
  BY <1>5 DEF GetAuthorization, Accept, Cleanup, CADecides, ProviderActs, Propagates,
     ForeignChange, Stop
<1> QED
  BY StepKinds, <1>1, <1>2, <1>3, <1>4, <1>5

-----------------------------------------------------------------------------
(*****************************************************************************)
(* The order and its records.                                                *)
(*****************************************************************************)
\* Each step leaves what is known of the order where it takes Obtain (authorizeByDNS).
LEMMA PlaceStep == OrderInv /\ [Next]_vars => PlaceInv'
<1> SUFFICES ASSUME OrderInv, [Next]_vars PROVE PlaceInv'
  OBVIOUS
<1> USE OrderAssumption DEF OrderInv, config, order, cache, requests, dns, TypeOrder, PlaceInv,
   Outside, Before, Working, Dns01
<1> USE TypeGroups
<1>1. CASE PaperStep
  BY <1>1, PaperMoves
<1>2. CASE Obtain
  BY <1>2 DEF Obtain
<1>3. CASE Crash
  BY <1>3 DEF Crash
<1>4. CASE AuthorizeOrder
  BY <1>4 DEF AuthorizeOrder
<1>5. CASE waitPropagated
  <2>1. CASE Stop
    BY <1>5, <2>1 DEF waitPropagated, Stop
  <2>2. CASE ~Stop
    BY <1>5, <2>2 DEF waitPropagated
  <2> QED
    BY <2>1, <2>2
<1>6. CASE WaitAuthorization
  <2>1. CASE Stop
    BY <1>6, <2>1 DEF WaitAuthorization, Stop
  <2>2. CASE ~Stop
    BY <1>6, <2>2 DEF WaitAuthorization
  <2> QED
    BY <2>1, <2>2
<1>7. CASE CleanedUp
  BY <1>7 DEF CleanedUp
<1>8. CASE find
  BY <1>8 DEF find, Fails, listZones
<1>9. CASE list
  BY <1>9 DEF list, Done, Fails
<1>10. CASE answered
  BY <1>10 DEF answered, Done, Fails
<1>11. CASE ZoneAdded
  BY <1>11 DEF ZoneAdded
<1>12. ASSUME NEW a \in Authzs, GetAuthorization(a) PROVE PlaceInv'
  <2>1. CASE Stop
    BY <1>12, <2>1 DEF GetAuthorization, Stop
  <2>2. CASE ~Stop
    BY <1>12, <2>2 DEF GetAuthorization
  <2> QED
    BY <2>1, <2>2
<1>13. ASSUME NEW a \in Authzs, Accept(a) PROVE PlaceInv'
  <2>1. CASE Stop
    BY <1>13, <2>1 DEF Accept, Stop
  <2>2. CASE ~Stop
    BY <1>13, <2>2 DEF Accept
  <2> QED
    BY <2>1, <2>2
<1>14. ASSUME NEW a \in Authzs, Cleanup(a) PROVE PlaceInv'
  BY <1>14 DEF Cleanup
<1>15. ASSUME NEW a \in Authzs, CADecides(a) PROVE PlaceInv'
  BY <1>15 DEF CADecides
<1>16. ASSUME NEW c \in flight, ProviderActs(c) PROVE PlaceInv'
  BY <1>16 DEF ProviderActs
<1>17. ASSUME NEW s \in Servers, Propagates(s) PROVE PlaceInv'
  BY <1>17 DEF Propagates
<1>18. ASSUME NEW z \in Candidates, ForeignChange(z) PROVE PlaceInv'
  BY <1>18 DEF ForeignChange
<1>19. CASE UNCHANGED vars
  BY <1>19 DEF vars
<1> QED
  BY StepKinds, <1>1, <1>2, <1>3, <1>4, <1>5, <1>6, <1>7, <1>8, <1>9, <1>10, <1>11, <1>12, <1>13,
     <1>14, <1>15, <1>16, <1>17, <1>18, <1>19

\* A challenge is served while it is validated, and no longer (authorize).
LEMMA TableStep == OrderInv /\ [Next]_vars => TableInv'
<1> SUFFICES ASSUME OrderInv, [Next]_vars PROVE TableInv'
  OBVIOUS
<1> USE OrderAssumption DEF OrderInv, config, order, cache, requests, dns, TypeOrder, PlaceInv,
   TableInv, Outside, Before, Working, Dns01
<1> USE TypeGroups
<1>1. CASE PaperStep
  BY <1>1, PaperMoves
<1>2. CASE Obtain
  BY <1>2 DEF Obtain
<1>3. CASE Crash
  BY <1>3 DEF Crash
<1>4. CASE AuthorizeOrder
  BY <1>4 DEF AuthorizeOrder
<1>5. CASE waitPropagated
  <2>1. CASE Stop
    BY <1>5, <2>1 DEF waitPropagated, Stop
  <2>2. CASE ~Stop
    BY <1>5, <2>2 DEF waitPropagated
  <2> QED
    BY <2>1, <2>2
<1>6. CASE WaitAuthorization
  <2>1. CASE Stop
    BY <1>6, <2>1 DEF WaitAuthorization, Stop
  <2>2. CASE ~Stop
    BY <1>6, <2>2 DEF WaitAuthorization
  <2> QED
    BY <2>1, <2>2
<1>7. CASE CleanedUp
  BY <1>7 DEF CleanedUp
<1>8. CASE find
  BY <1>8 DEF find, Fails, listZones
<1>9. CASE list
  BY <1>9 DEF list, Done, Fails
<1>10. CASE answered
  BY <1>10 DEF answered, Done, Fails
<1>11. CASE ZoneAdded
  BY <1>11 DEF ZoneAdded
<1>12. ASSUME NEW a \in Authzs, GetAuthorization(a) PROVE TableInv'
  <2>1. CASE Stop
    BY <1>12, <2>1 DEF GetAuthorization, Stop
  <2>2. CASE ~Stop
    BY <1>12, <2>2 DEF GetAuthorization
  <2> QED
    BY <2>1, <2>2
<1>13. ASSUME NEW a \in Authzs, Accept(a) PROVE TableInv'
  <2>1. CASE Stop
    BY <1>13, <2>1 DEF Accept, Stop
  <2>2. CASE ~Stop
    BY <1>13, <2>2 DEF Accept
  <2> QED
    BY <2>1, <2>2
<1>14. ASSUME NEW a \in Authzs, Cleanup(a) PROVE TableInv'
  BY <1>14 DEF Cleanup
<1>15. ASSUME NEW a \in Authzs, CADecides(a) PROVE TableInv'
  BY <1>15 DEF CADecides
<1>16. ASSUME NEW c \in flight, ProviderActs(c) PROVE TableInv'
  BY <1>16 DEF ProviderActs
<1>17. ASSUME NEW s \in Servers, Propagates(s) PROVE TableInv'
  BY <1>17 DEF Propagates
<1>18. ASSUME NEW z \in Candidates, ForeignChange(z) PROVE TableInv'
  BY <1>18 DEF ForeignChange
<1>19. CASE UNCHANGED vars
  BY <1>19 DEF vars
<1> QED
  BY StepKinds, <1>1, <1>2, <1>3, <1>4, <1>5, <1>6, <1>7, <1>8, <1>9, <1>10, <1>11, <1>12, <1>13,
     <1>14, <1>15, <1>16, <1>17, <1>18, <1>19

\* The zone stays the one of the first lookup while there are records (zoneCache).
LEMMA ZoneStep == OrderInv /\ [Next]_vars => ZoneInv'
<1> SUFFICES ASSUME OrderInv, [Next]_vars PROVE ZoneInv'
  OBVIOUS
<1> USE OrderAssumption DEF OrderInv, config, order, cache, requests, dns, TypeOrder, TypeZone,
   PlaceInv, ZoneInv, Outside, Before, Working, Dns01
<1> USE TypeGroups
<1>1. CASE PaperStep
  BY <1>1, PaperMoves
<1>2. CASE Obtain
  BY <1>2 DEF Obtain
<1>3. CASE Crash
  BY <1>3 DEF Crash
<1>4. CASE AuthorizeOrder
  BY <1>4 DEF AuthorizeOrder
<1>5. CASE waitPropagated
  <2>1. CASE Stop
    BY <1>5, <2>1 DEF waitPropagated, Stop
  <2>2. CASE ~Stop
    BY <1>5, <2>2 DEF waitPropagated
  <2> QED
    BY <2>1, <2>2
<1>6. CASE WaitAuthorization
  <2>1. CASE Stop
    BY <1>6, <2>1 DEF WaitAuthorization, Stop
  <2>2. CASE ~Stop
    BY <1>6, <2>2 DEF WaitAuthorization
  <2> QED
    BY <2>1, <2>2
<1>7. CASE CleanedUp
  BY <1>7 DEF CleanedUp
<1>8. CASE find
  BY <1>8 DEF find, Fails, listZones
<1>9. CASE list
  <2> DEFINE change == [zone |-> found, base |-> rrset[found], value |-> cur,
                        op |-> IF cleaning THEN "cleanup" ELSE "present"]
  <2>1. found \in Candidates /\ cur \in Authzs /\ rrset[found] \in SUBSET Values
    BY <1>9 DEF list, TypeWorld
  <2>2. change \in Changes
    BY <2>1 DEF Changes
  <2>3. waits' = change \/ UNCHANGED waits
    BY <1>9 DEF list
  <2> HIDE DEF Changes
  <2> QED
    BY <1>9, <2>1, <2>2, <2>3 DEF list, Done, Fails
<1>10. CASE answered
  BY <1>10 DEF answered, Done, Fails
<1>11. CASE ZoneAdded
  BY <1>11 DEF ZoneAdded
<1>12. ASSUME NEW a \in Authzs, GetAuthorization(a) PROVE ZoneInv'
  <2>1. CASE Stop
    BY <1>12, <2>1 DEF GetAuthorization, Stop
  <2>2. CASE ~Stop
    BY <1>12, <2>2 DEF GetAuthorization
  <2> QED
    BY <2>1, <2>2
<1>13. ASSUME NEW a \in Authzs, Accept(a) PROVE ZoneInv'
  <2>1. CASE Stop
    BY <1>13, <2>1 DEF Accept, Stop
  <2>2. CASE ~Stop
    BY <1>13, <2>2 DEF Accept
  <2> QED
    BY <2>1, <2>2
<1>14. ASSUME NEW a \in Authzs, Cleanup(a) PROVE ZoneInv'
  BY <1>14 DEF Cleanup
<1>15. ASSUME NEW a \in Authzs, CADecides(a) PROVE ZoneInv'
  BY <1>15 DEF CADecides
<1>16. ASSUME NEW c \in flight, ProviderActs(c) PROVE ZoneInv'
  BY <1>16 DEF ProviderActs
<1>17. ASSUME NEW s \in Servers, Propagates(s) PROVE ZoneInv'
  BY <1>17 DEF Propagates
<1>18. ASSUME NEW z \in Candidates, ForeignChange(z) PROVE ZoneInv'
  BY <1>18 DEF ForeignChange
<1>19. CASE UNCHANGED vars
  BY <1>19 DEF vars
<1> QED
  BY StepKinds, <1>1, <1>2, <1>3, <1>4, <1>5, <1>6, <1>7, <1>8, <1>9, <1>10, <1>11, <1>12, <1>13,
     <1>14, <1>15, <1>16, <1>17, <1>18, <1>19

\* No step brings a removed record back, unless it is late (Cleanup).
LEMMA GoneStep == OrderInv /\ [Next]_vars => GoneInv'
<1> SUFFICES ASSUME OrderInv, [Next]_vars PROVE GoneInv'
  OBVIOUS
<1> USE OrderAssumption DEF OrderInv, config, order, cache, requests, dns, TypeOrder, TypeZone,
   PlaceInv, ZoneInv, Outside, Before, Working, Dns01, GoneInv
<1> USE TypeGroups
<1>1. CASE PaperStep
  BY <1>1, PaperMoves
<1>2. CASE Obtain
  BY <1>2 DEF Obtain
<1>3. CASE Crash
  BY <1>3 DEF Crash
<1>4. CASE AuthorizeOrder
  BY <1>4 DEF AuthorizeOrder
<1>5. CASE waitPropagated
  <2>1. CASE Stop
    BY <1>5, <2>1 DEF waitPropagated, Stop
  <2>2. CASE ~Stop
    BY <1>5, <2>2 DEF waitPropagated
  <2> QED
    BY <2>1, <2>2
<1>6. CASE WaitAuthorization
  <2>1. CASE Stop
    BY <1>6, <2>1 DEF WaitAuthorization, Stop
  <2>2. CASE ~Stop
    BY <1>6, <2>2 DEF WaitAuthorization
  <2> QED
    BY <2>1, <2>2
<1>7. CASE CleanedUp
  BY <1>7 DEF CleanedUp
<1>8. CASE find
  BY <1>8 DEF find, Fails, listZones
<1>9. CASE list
  BY <1>9, <1>1 DEF list, Done, Fails, TypeWorld
<1>10. CASE answered
  BY <1>10 DEF answered, Done, Fails
<1>11. CASE ZoneAdded
  BY <1>11 DEF ZoneAdded
<1>12. ASSUME NEW a \in Authzs, GetAuthorization(a) PROVE GoneInv'
  <2>1. CASE Stop
    BY <1>12, <2>1 DEF GetAuthorization, Stop
  <2>2. CASE ~Stop
    BY <1>12, <2>2 DEF GetAuthorization
  <2> QED
    BY <2>1, <2>2
<1>13. ASSUME NEW a \in Authzs, Accept(a) PROVE GoneInv'
  <2>1. CASE Stop
    BY <1>13, <2>1 DEF Accept, Stop
  <2>2. CASE ~Stop
    BY <1>13, <2>2 DEF Accept
  <2> QED
    BY <2>1, <2>2
<1>14. ASSUME NEW a \in Authzs, Cleanup(a) PROVE GoneInv'
  BY <1>14 DEF Cleanup
<1>15. ASSUME NEW a \in Authzs, CADecides(a) PROVE GoneInv'
  BY <1>15 DEF CADecides
<1>16. ASSUME NEW c \in flight, ProviderActs(c) PROVE GoneInv'
  <2>1. c \in Changes /\ c # None
    BY <1>16 DEF TypeRequest
  <2>2. CASE UNCHANGED <<rrset, late>> /\ answer' = IF waits = c THEN "error" ELSE answer
    BY <1>16, <2>1, <2>2 DEF ProviderActs
  <2>3. CASE rrset' = [rrset EXCEPT ![c.zone] = Outcome(c).leaves] /\ waits = c
    BY <1>16, <2>1, <2>3, ChangeLeaves DEF ProviderActs, TypeWorld, TypeRequest
  <2>4. CASE late'
    BY <2>4
  <2> QED
    BY <1>16, <2>2, <2>3, <2>4 DEF ProviderActs
<1>17. ASSUME NEW s \in Servers, Propagates(s) PROVE GoneInv'
  BY <1>17 DEF Propagates
<1>18. ASSUME NEW z \in Candidates, ForeignChange(z) PROVE GoneInv'
  <2>1. \A y \in Candidates : rrset'[y] \ {Foreign} = rrset[y] \ {Foreign}
    BY <1>18 DEF ForeignChange, TypeWorld
  <2> QED
    BY <1>18, <2>1 DEF ForeignChange
<1>19. CASE UNCHANGED vars
  BY <1>19 DEF vars
<1> QED
  BY StepKinds, <1>1, <1>2, <1>3, <1>4, <1>5, <1>6, <1>7, <1>8, <1>9, <1>10, <1>11, <1>12, <1>13,
     <1>14, <1>15, <1>16, <1>17, <1>18, <1>19

\* No step takes a record that was set, before it is to be removed, unless it is late
\* (Present).
LEMMA ShownStep == OrderInv /\ [Next]_vars => ShownInv'
<1> SUFFICES ASSUME OrderInv, [Next]_vars PROVE ShownInv'
  OBVIOUS
<1> USE OrderAssumption DEF OrderInv, config, order, cache, requests, dns, TypeOrder, TypeZone,
   PlaceInv, ZoneInv, Outside, Before, Working, Dns01, ShownInv
<1> USE TypeGroups
<1>1. CASE PaperStep
  BY <1>1, PaperMoves
<1>2. CASE Obtain
  BY <1>2 DEF Obtain
<1>3. CASE Crash
  BY <1>3 DEF Crash
<1>4. CASE AuthorizeOrder
  BY <1>4 DEF AuthorizeOrder
<1>5. CASE waitPropagated
  <2>1. CASE Stop
    BY <1>5, <2>1 DEF waitPropagated, Stop
  <2>2. CASE ~Stop
    BY <1>5, <2>2 DEF waitPropagated
  <2> QED
    BY <2>1, <2>2
<1>6. CASE WaitAuthorization
  <2>1. CASE Stop
    BY <1>6, <2>1 DEF WaitAuthorization, Stop
  <2>2. CASE ~Stop
    BY <1>6, <2>2 DEF WaitAuthorization
  <2> QED
    BY <2>1, <2>2
<1>7. CASE CleanedUp
  BY <1>7 DEF CleanedUp
<1>8. CASE find
  BY <1>8 DEF find, Fails, listZones
<1>9. CASE list
  BY <1>9, <1>1 DEF list, Done, Fails, TypeWorld
<1>10. CASE answered
  BY <1>10 DEF answered, Done, Fails
<1>11. CASE ZoneAdded
  BY <1>11 DEF ZoneAdded
<1>12. ASSUME NEW a \in Authzs, GetAuthorization(a) PROVE ShownInv'
  <2>1. CASE Stop
    BY <1>12, <2>1 DEF GetAuthorization, Stop
  <2>2. CASE ~Stop
    BY <1>12, <2>2 DEF GetAuthorization
  <2> QED
    BY <2>1, <2>2
<1>13. ASSUME NEW a \in Authzs, Accept(a) PROVE ShownInv'
  <2>1. CASE Stop
    BY <1>13, <2>1 DEF Accept, Stop
  <2>2. CASE ~Stop
    BY <1>13, <2>2 DEF Accept
  <2> QED
    BY <2>1, <2>2
<1>14. ASSUME NEW a \in Authzs, Cleanup(a) PROVE ShownInv'
  BY <1>14 DEF Cleanup
<1>15. ASSUME NEW a \in Authzs, CADecides(a) PROVE ShownInv'
  BY <1>15 DEF CADecides
<1>16. ASSUME NEW c \in flight, ProviderActs(c) PROVE ShownInv'
  <2>1. c \in Changes /\ c # None
    BY <1>16 DEF TypeRequest
  <2>2. CASE UNCHANGED <<rrset, late>> /\ answer' = IF waits = c THEN "error" ELSE answer
    BY <1>16, <2>1, <2>2 DEF ProviderActs
  <2>3. CASE rrset' = [rrset EXCEPT ![c.zone] = Outcome(c).leaves] /\ waits = c
    BY <1>16, <2>1, <2>3, ChangeLeaves DEF ProviderActs, TypeWorld, TypeRequest
  <2>4. CASE late'
    BY <2>4
  <2> QED
    BY <1>16, <2>2, <2>3, <2>4 DEF ProviderActs
<1>17. ASSUME NEW s \in Servers, Propagates(s) PROVE ShownInv'
  BY <1>17 DEF Propagates
<1>18. ASSUME NEW z \in Candidates, ForeignChange(z) PROVE ShownInv'
  <2>1. \A y \in Candidates : rrset'[y] \ {Foreign} = rrset[y] \ {Foreign}
    BY <1>18 DEF ForeignChange, TypeWorld
  <2> QED
    BY <1>18, <2>1 DEF ForeignChange
<1>19. CASE UNCHANGED vars
  BY <1>19 DEF vars
<1> QED
  BY StepKinds, <1>1, <1>2, <1>3, <1>4, <1>5, <1>6, <1>7, <1>8, <1>9, <1>10, <1>11, <1>12, <1>13,
     <1>14, <1>15, <1>16, <1>17, <1>18, <1>19

\* The records are never looked up on no server at all (authoritativeServers).
LEMMA SomebodyAsked == {} \notin Askable
BY DEF Askable

\* Each step leaves what the CA was asked to look at where it looks (waitPropagated, authorize).
LEMMA AnsweredStep == OrderInv /\ [Next]_vars => AnsweredInv'
<1> SUFFICES ASSUME OrderInv, [Next]_vars PROVE AnsweredInv'
  OBVIOUS
<1> USE OrderAssumption DEF OrderInv, config, order, cache, requests, dns, TypeOrder, TypeZone,
   PlaceInv, ZoneInv, Outside, Before, Working, Dns01, ShownInv, TypeWorld, AnsweredInv
<1> USE TypeGroups
<1>1. CASE PaperStep
  BY <1>1, PaperMoves
<1>2. CASE Obtain
  BY <1>2 DEF Obtain
<1>3. CASE Crash
  BY <1>3 DEF Crash
<1>4. CASE AuthorizeOrder
  BY <1>4 DEF AuthorizeOrder
<1>5. CASE waitPropagated
  <2>1. CASE Stop
    BY <1>5, <2>1 DEF waitPropagated, Stop
  <2>2. CASE ~Stop
    <3>1. /\ pending' = pending /\ served' = served /\ challenge' = challenge
          /\ pc = "propagate" /\ pc' = "accept"
          /\ asked' \in IF pending = {} THEN {{}} ELSE Askable
          /\ \A s \in asked' \cap Servers : pending \subseteq served[s]
      BY <1>5, <2>2 DEF waitPropagated
    <3>2. pending # {} => asked' # {}
      BY <3>1, SomebodyAsked
    <3> QED
      BY <3>1, <3>2
  <2> QED
    BY <2>1, <2>2
<1>6. CASE WaitAuthorization
  <2>1. CASE Stop
    BY <1>6, <2>1 DEF WaitAuthorization, Stop
  <2>2. CASE ~Stop
    BY <1>6, <2>2 DEF WaitAuthorization
  <2> QED
    BY <2>1, <2>2
<1>7. CASE CleanedUp
  BY <1>7 DEF CleanedUp
<1>8. CASE find
  BY <1>8 DEF find, Fails, listZones
<1>9. CASE list
  BY <1>9 DEF list, Done, Fails
<1>10. CASE answered
  BY <1>10 DEF answered, Done, Fails
<1>11. CASE ZoneAdded
  BY <1>11 DEF ZoneAdded
<1>12. ASSUME NEW a \in Authzs, GetAuthorization(a) PROVE AnsweredInv'
  <2>1. CASE Stop
    BY <1>12, <2>1 DEF GetAuthorization, Stop
  <2>2. CASE ~Stop
    BY <1>12, <2>2 DEF GetAuthorization
  <2> QED
    BY <2>1, <2>2
<1>13. ASSUME NEW a \in Authzs, Accept(a) PROVE AnsweredInv'
  <2>1. CASE Stop
    BY <1>13, <2>1 DEF Accept, Stop
  <2>2. CASE ~Stop
    BY <1>13, <2>2 DEF Accept
  <2> QED
    BY <2>1, <2>2
<1>14. ASSUME NEW a \in Authzs, Cleanup(a) PROVE AnsweredInv'
  BY <1>14 DEF Cleanup
<1>15. ASSUME NEW a \in Authzs, CADecides(a) PROVE AnsweredInv'
  BY <1>15 DEF CADecides
<1>16. ASSUME NEW c \in flight, ProviderActs(c) PROVE AnsweredInv'
  <2>1. UNCHANGED <<challenge, served, pc, found, pending, cur, asked, accepted, ca>>
    BY <1>16 DEF ProviderActs
  <2>2. late' = (late \/ waits # c) \/ late' = late
    BY <1>16 DEF ProviderActs
  <2> QED
    BY <2>1, <2>2 DEF TypeRequest
<1>17. ASSUME NEW s \in Servers, Propagates(s) PROVE AnsweredInv'
  BY <1>17 DEF Propagates
<1>18. ASSUME NEW z \in Candidates, ForeignChange(z) PROVE AnsweredInv'
  BY <1>18 DEF ForeignChange
<1>19. CASE UNCHANGED vars
  BY <1>19 DEF vars
<1> QED
  BY StepKinds, <1>1, <1>2, <1>3, <1>4, <1>5, <1>6, <1>7, <1>8, <1>9, <1>10, <1>11, <1>12, <1>13,
     <1>14, <1>15, <1>16, <1>17, <1>18, <1>19

\* At first nothing is set, served, stored or registered.
LEMMA InitOrder == Init => OrderInv
<1> SUFFICES ASSUME Init PROVE OrderInv
  OBVIOUS
<1> USE OrderAssumption
<1>1. TypeOK
  <2>1. TypeCourse
    BY DEF Init, TypeCourse, Outside
  <2>2. TypeCount
    BY DEF Init, TypeCount
  <2>3. TypeAccount
    BY DEF Init, TypeAccount
  <2>4. TypeOrder /\ TypeRequest
    BY DEF Init, TypeOrder, TypeRequest
  <2>5. TypeZone
    BY DEF Init, TypeZone
  <2>6. TypeWorld
    BY DEF Init, TypeWorld, Values
  <2> QED
    BY <2>1, <2>2, <2>3, <2>4, <2>5, <2>6, TypeGroups
<1>2. AccountInv /\ PlaceInv /\ TableInv
  BY DEF Init, AccountInv, OneAccount, PlaceInv, TableInv, Before, Working
<1>3. ZoneInv /\ GoneInv /\ ShownInv /\ AnsweredInv
  BY DEF Init, ZoneInv, GoneInv, ShownInv, AnsweredInv, Outside, Dns01
<1> QED
  BY <1>1, <1>2, <1>3 DEF OrderInv

\* In every reachable state the types hold, and all that OrderInv says of the account, the
\* challenges and the records.
THEOREM OrderInvariant == Spec => []OrderInv
<1>1. OrderInv /\ [Next]_vars => OrderInv'
  <2> SUFFICES ASSUME OrderInv, [Next]_vars PROVE OrderInv'
    OBVIOUS
  <2>1. TypeCourse' /\ TypeCount' /\ TypeOrder' /\ TypeZone' /\ TypeRequest' /\ TypeWorld'
    BY CourseTyped, CountsTyped, ChallengesTyped, ZonesTyped, ChangesTyped, WorldTyped
  <2>2. TypeAccount' /\ AccountInv'
    BY AccountStep
  <2>3. TypeOK'
    BY <2>1, <2>2, TypeGroups, PTL
  <2> QED
    BY <2>2, <2>3, PlaceStep, TableStep, ZoneStep, GoneStep, ShownStep, AnsweredStep DEF OrderInv
<1> QED
  BY InitOrder, <1>1, PTL DEF Spec

-----------------------------------------------------------------------------
(***************************************************************************)
(* What the properties get from it.                                        *)
(***************************************************************************)
\* Orders, crashes and lost answers never make a second account, and the account's key is
\* the one in the Backend (accountKey, client).
THEOREM AccountIsOne == Spec => []OneAccount
<1>1. OrderInv => OneAccount
  BY DEF OrderInv, AccountInv
<1> QED
  BY OrderInvariant, <1>1, PTL

\* While the order waits for a validation it asked for, the answer is in the table or on
\* every name server that was asked, and somebody was (authorize, waitPropagated).
THEOREM ValidationsHaveAnswers == Spec => []ValidationCanSucceed
<1>1. OrderInv => ValidationCanSucceed
  <2> SUFFICES ASSUME OrderInv PROVE ValidationCanSucceed
    OBVIOUS
  <2>1. CASE Dns01
    BY <2>1 DEF OrderInv, AnsweredInv, PlaceInv, ValidationCanSucceed
  <2>2. CASE ~Dns01
    BY <2>2 DEF OrderInv, AnsweredInv, TableInv, ValidationCanSucceed
  <2> QED
    BY <2>1, <2>2
<1> QED
  BY OrderInvariant, <1>1, PTL

\* However Obtain returns, no challenge is served any longer, and every record it set is
\* gone from its zone, but for those it warned of (authorizeByDNS's deferred Cleanup).
THEOREM RecordsAreRemoved == Spec => []NothingLeft
<1>1. OrderInv => NothingLeft
  BY OrderAssumption
  DEF OrderInv, TableInv, ZoneInv, PlaceInv, GoneInv, NothingLeft, TypeOK, Outside, Working
<1> QED
  BY OrderInvariant, <1>1, PTL

\* A change touches no value but its own: never at Cloudflare and Google, and at the others
\* when nobody changed the set since it was read (withValue, withoutValue).
THEOREM OtherValuesStay == Spec => OthersKept
<1> DEFINE Kept == \A c \in flight \ flight' :
                     provider \in {"cloudflare", "google"} \/ rrset[c.zone] = c.base
                       => rrset'[c.zone] \ {c.value} = rrset[c.zone] \ {c.value}
<1>1. OrderInv /\ [Next]_vars => Kept
  <2> SUFFICES ASSUME OrderInv, [Next]_vars, NEW c \in flight, c \notin flight',
                      provider \in {"cloudflare", "google"} \/ rrset[c.zone] = c.base
               PROVE  rrset'[c.zone] \ {c.value} = rrset[c.zone] \ {c.value}
    OBVIOUS
  <2>1. ProviderActs(c)
    <3>1. CASE PaperStep
      BY <3>1, PaperMoves
    <3>2. CASE UNCHANGED vars \/ Obtain \/ Crash \/ AuthorizeOrder \/ waitPropagated
               \/ WaitAuthorization \/ CleanedUp \/ find \/ list \/ answered \/ ZoneAdded
      BY <3>2 DEF vars, requests, Obtain, Crash, AuthorizeOrder, waitPropagated, WaitAuthorization,
         CleanedUp, find, list, answered, ZoneAdded
    <3>3. CASE \E a \in Authzs : GetAuthorization(a) \/ Accept(a) \/ Cleanup(a) \/ CADecides(a)
      BY <3>3 DEF requests, GetAuthorization, Accept, Cleanup, CADecides
    <3>4. CASE \/ \E s \in Servers : Propagates(s)
               \/ \E z \in Candidates : ForeignChange(z)
      BY <3>4 DEF requests, Propagates, ForeignChange
    <3>5. CASE \E d \in flight : ProviderActs(d)
      BY <3>5 DEF ProviderActs
    <3> QED
      BY StepKinds, <3>1, <3>2, <3>3, <3>4, <3>5
  <2>2. c \in Changes /\ c.zone \in Candidates
    BY DEF OrderInv, TypeOK, Changes
  <2>3. rrset' = rrset
        \/ (~Outcome(c).refused /\ rrset' = [rrset EXCEPT ![c.zone] = Outcome(c).leaves])
    BY <2>1 DEF ProviderActs
  <2>4. CASE rrset' = rrset
    BY <2>4
  <2>5. CASE ~Outcome(c).refused /\ rrset'[c.zone] = Outcome(c).leaves
    BY <2>2, <2>5, ChangeLeaves DEF OrderInv
  <2> QED
    BY <2>2, <2>3, <2>4, <2>5 DEF OrderInv, TypeOK
<1> QED
  BY OrderInvariant, <1>1, PTL DEF Spec, OthersKept
=============================================================================

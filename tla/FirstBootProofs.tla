-------------------------- MODULE FirstBootProofs --------------------------
(***************************************************************************)
(* What holds of first boot for every number of runs of tc init and of the *)
(* server, every number of migrations, and every failure and crash.        *)
(***************************************************************************)
EXTENDS FirstBoot, TLAPS

\* Where a tc init is before it opens the database.
Setup == {"seal", "write", "sync", "wait", "show", "init", "mount", "policy", "check", "token",
          "link", "fill", "rename", "run", "get", "put", "again"}

\* The write lock is what a migration and the Operator Credential need: its holder
\* is alone with the version it read and with the credential it shows.
BaseInv ==
  /\ \A r \in Runs : pc[r] = "migrate" =>
       lock = r /\ version[r] = Len(schema) /\ Len(schema) < Migrations
  /\ \A r \in Runs : pc[r] = "commit" => lock = r /\ cred = None /\ r \in told.cred
  /\ \A r \in told.cred : pc[r] \in {"commit"} \cup Ended
  /\ \A r \in Runs : pc[r] \in {"credential", "commit", "done"} => Len(schema) = Migrations
  /\ \A r \in Runs : pc[r] = "done" => cred # None
  /\ CredentialReachable

\* The seal key file is one run's, which alone takes it away, and never after it was done
\* with it; so a key that OpenBao read is in the file or that run was told it is not.
Kept(k) == sealFile.key = k \/ (mine[k] # k /\ pc[k] = "failed")

SealInv ==
  /\ \A i \in Inits : pc[i] \in {"write", "sync"} => sealFile.key = i
  /\ \A i \in Inits : pc[i] \in {"idle", "seal", "write", "sync"} => mine[i] = None
  /\ \A i \in Inits : pc[i] \in {"wait", "show", "init"} => mine[i] # None
  /\ bao.read # None => Kept(bao.read)
  /\ bao.sealedBy # None => Kept(bao.sealedBy)

\* The runs that had ended, no write of theirs under way, stay so; and a run that has read
\* that there is no signing key meets only keys of runs that went on beside it.
KeyInv ==
  /\ \A i \in flight : pc[i] \in {"again"} \cup Ended
  /\ \A r \in Runs : \A q \in before[r] : pc[q] \in Ended /\ q \notin flight
  /\ \A i \in Inits : i \in flight \/ pc[i] \in {"put", "again"} => key \notin before[i]

\* The other runs of tc init ended before this one began, or have not begun.
Alone(i) == \A j \in Inits \ {i} : pc[j] = "idle" \/ j \in before[i]

\* What a tc init has done by the time it stands where it does.
FromOpen   == {"open", "migrate", "credential", "commit", "done"}
FromRun    == {"run", "get", "put", "again"} \cup FromOpen
FromCheck  == {"check", "token"} \cup InToken \cup FromRun
FromPolicy == {"policy"} \cup FromCheck
FromMount  == {"mount"} \cup FromPolicy

TokenFiles == dir.path \in tokens.issued \cup {None} /\ dir.new \in tokens.issued \cup {None}
Reached(i) ==
  /\ pc[i] \in InToken => i \in tokens.issued
  /\ pc[i] \in FromMount => bao.sealedBy # None /\ told.root
  /\ pc[i] \in FromPolicy => kv.mount
  /\ pc[i] \in FromCheck => kv.policy
  /\ pc[i] \in FromRun => dir.path # None
  /\ pc[i] \in FromOpen /\ i \in keyed => key # None
OwnFile(i) ==
  /\ pc[i] \in {"fill", "rename"} => dir.new = i
  /\ pc[i] = "rename" => inode[i] = "written"
  /\ pc[i] \in FromRun => inode[dir.path] = "written"

\* What was set up stays, and a run that is alone with the token file leaves a whole one.
SetUpInv == TokenFiles /\ \A i \in Inits : Reached(i) /\ (Alone(i) => OwnFile(i))

\* Only a tc init sets OpenBao up.
PlaceInv == \A r \in Runs : pc[r] \in Setup => r \in Inits

BootInv == TypeOK /\ PlaceInv /\ BaseInv /\ SealInv /\ KeyInv /\ SetUpInv

-----------------------------------------------------------------------------
(***************************************************************************)
(* Types, and what a step of tc init's own leaves alone.                   *)
(***************************************************************************)
\* The program counters.
Places == {"idle", "open", "migrate", "credential", "commit"} \cup Setup \cup Ended

\* None is no run, so a run that has a lock, a key or a file is told from none.
LEMMA NoneIsNoRun == None \notin Runs /\ None \notin Inits /\ Inits \subseteq Runs
                     /\ Migrations \in Nat
BY BootAssumption DEF BootAssumption, Runs

\* TypeOK gives every run one of these places.
LEMMA PlacesTyped == TypeOK => pc \in [Runs -> Places]
BY DEF TypeOK, Places, Setup, InSeal, InToken

\* A step of one run moves that run only (At).
LEMMA AtMoves ==
  ASSUME TypeOK, NEW r \in Runs, NEW at, NEW next, At(r, at, next)
  PROVE  pc[r] = at /\ pc'[r] = next /\ \A q \in Runs \ {r} : pc'[q] = pc[q]
BY DEF At, TypeOK

SetupStep(i) == Seals(i) \/ Initializes(i) \/ SetsUp(i)

\* A step of tc init before it opens the database.
LEMMA SetupMoves ==
  ASSUME TypeOK, NEW i \in Inits, SetupStep(i)
  PROVE  /\ pc[i] \in Setup /\ pc'[i] \in Setup \cup {"failed", "open"}
         /\ \A q \in Runs \ {i} : pc'[q] = pc[q]
         /\ pc' = [pc EXCEPT ![i] = pc'[i]]
         /\ UNCHANGED <<before, keyed, base, version>> /\ told'.cred = told.cred
<1>0. i \in Runs /\ pc \in [Runs -> Places]
  BY NoneIsNoRun, PlacesTyped
<1>1. /\ \E at \in Setup, next \in Setup \cup {"failed", "open"} : At(i, at, next)
      /\ UNCHANGED <<before, keyed, base, version>>
  BY DEF SetupStep, Seals, Initializes, SetsUp, Setup,
         SealKeyFound, SealKeyCreated, SealKeyWritten, SealKeySynced, WaitHealth, ShowSealKey,
         InitBao, EnsureKVMount, WritePluginPolicy, CheckPluginToken, CreatePluginToken,
         LinkTokenFile, FillTokenFile, RenameTokenFile, PluginHealthy, SigningKeyRead,
         SigningKeySent, SigningKeyStored
<1>2. told'.cred = told.cred
  <2>1. \/ told' = told
        \/ \E x : told' = [told EXCEPT !.seal = x]
        \/ told' = [told EXCEPT !.root = TRUE]
    BY DEF SetupStep, Seals, Initializes, SetsUp,
         SealKeyFound, SealKeyCreated, SealKeyWritten, SealKeySynced, WaitHealth, ShowSealKey,
         InitBao, EnsureKVMount, WritePluginPolicy, CheckPluginToken, CreatePluginToken,
         LinkTokenFile, FillTokenFile, RenameTokenFile, PluginHealthy, SigningKeyRead,
         SigningKeySent, SigningKeyStored
  <2> QED BY <2>1 DEF TypeOK
<1>3. PICK at \in Setup, next \in Setup \cup {"failed", "open"} : At(i, at, next)
  BY <1>1
<1>4. pc[i] = at /\ pc' = [pc EXCEPT ![i] = next]
  BY <1>3 DEF At
<1> QED BY <1>0, <1>1, <1>2, <1>4

\* Steps of no run.
WorldStep == BaoStarts \/ BaoStops \/ \E i \in Inits : Expires(i) \/ Stores(i)

\* A run ends by an error or a crash.
EndStep(r) == Fails(r) \/ Crash(r)

\* A step is one of OpenBao's, of a tc init's set-up, or of any run's: its first, its last, or
\* one at the database.
LEMMA StepKinds ==
  ASSUME [Next]_vars
  PROVE  \/ WorldStep \/ UNCHANGED vars
         \/ \E i \in Inits : SetupStep(i)
         \/ \E r \in Runs : Begin(r) \/ EndStep(r) \/ Stays(r)
BY DEF Next, WorldStep, SetupStep, EndStep

\* A run that begins or ends.
LEMMA EdgeMoves ==
  ASSUME TypeOK, NEW r \in Runs
  PROVE  /\ Begin(r) => /\ pc[r] = "idle" /\ pc'[r] \in {"seal", "open"}
                        /\ (r \in Inits => pc'[r] = "seal")
                        /\ \A q \in Runs \ {r} : pc'[q] = pc[q]
                        /\ before' = [before EXCEPT ![r] = {q \in Runs \ flight : pc[q] \in Ended}]
                        /\ UNCHANGED <<keyed, mine, told, disk, backend, base, version>>
         /\ EndStep(r) => /\ Begun(r) /\ pc'[r] \in {"failed", "crashed"} /\ lock' = freed(r)
                          /\ \A q \in Runs \ {r} : pc'[q] = pc[q]
                          /\ UNCHANGED <<before, keyed, mine, told, inode, backend, schema, cred, version>>
<1>1. ASSUME Begin(r)
      PROVE  /\ pc[r] = "idle" /\ pc'[r] \in {"seal", "open"}
             /\ (r \in Inits => pc'[r] = "seal")
             /\ \A q \in Runs \ {r} : pc'[q] = pc[q]
             /\ before' = [before EXCEPT ![r] = {q \in Runs \ flight : pc[q] \in Ended}]
             /\ UNCHANGED <<keyed, mine, told, disk, backend, base, version>>
  BY <1>1 DEF Begin, At, TypeOK
<1>2. ASSUME EndStep(r)
      PROVE  /\ Begun(r) /\ pc'[r] \in {"failed", "crashed"} /\ lock' = freed(r)
             /\ \A q \in Runs \ {r} : pc'[q] = pc[q]
             /\ UNCHANGED <<before, keyed, mine, told, inode, backend, schema, cred, version>>
  BY <1>2 DEF EndStep, Fails, Crash, TypeOK, disk
<1> QED BY <1>1, <1>2

\* The schema's versions are the numbers up to its length, and one more keeps them so.
LEMMA NextMigration ==
  ASSUME NEW s \in Seq(Nat), s = [n \in 1 .. Len(s) |-> n]
  PROVE  LET t == Append(s, Len(s) + 1) IN
         t = [n \in 1 .. Len(t) |-> n] /\ Len(t) = Len(s) + 1
<1> DEFINE t == Append(s, Len(s) + 1)
<1>1. Len(s) \in Nat /\ Len(t) = Len(s) + 1 /\ t \in Seq(Nat)
  OBVIOUS
<1>2. ASSUME NEW n \in 1 .. Len(t)
      PROVE  t[n] = n
  <2>1. CASE n = Len(s) + 1
    BY <2>1
  <2>2. CASE n \in 1 .. Len(s)
    <3>1. t[n] = s[n]
      BY <2>2
    <3>2. s[n] = n
      BY <2>2
    <3> QED BY <3>1, <3>2
  <2> QED BY <1>1, <2>1, <2>2
<1>3. t = [n \in 1 .. Len(t) |-> t[n]]
  BY <1>1
<1> HIDE DEF t
<1>4. t = [n \in 1 .. Len(t) |-> n]
  BY <1>2, <1>3
<1> QED BY <1>1, <1>4 DEF t

-----------------------------------------------------------------------------
(***************************************************************************)
(* The database and the Operator Credential.                               *)
(***************************************************************************)
\* Each step preserves what the write lock gives its holder.
LEMMA BaseStep ==
  ASSUME TypeOK, BaseInv, [Next]_vars
  PROVE  BaseInv'
<1> USE NoneIsNoRun
<1>0. /\ pc \in [Runs -> Places] /\ Len(schema) \in Nat /\ lock \in Runs \cup {None}
      /\ cred \in Runs \cup {None} /\ told.cred \subseteq Runs
      /\ version \in [Runs -> 0 .. Migrations] /\ schema \in Seq(1 .. Migrations)
  BY PlacesTyped DEF TypeOK
<1> DEFINE Free == {"migrate", "commit", "credential", "done"}
\* A step that moves one run between places where it has not to do with the database.
<1>p. ASSUME NEW r \in Runs, pc[r] \notin {"commit"} \cup Ended, pc'[r] \notin Free,
             \A q \in Runs \ {r} : pc'[q] = pc[q],
             UNCHANGED <<base, version>>, told'.cred = told.cred
      PROVE  BaseInv'
  <2>1. UNCHANGED <<lock, schema, cred, version>>
    BY <1>p DEF base
  <2>2. r \notin told.cred
    BY <1>p DEF BaseInv
  <2>3. \A q \in Runs : pc'[q] \in Free => q # r /\ pc'[q] = pc[q]
    BY <1>p
  <2>4. \A q \in told.cred : pc'[q] = pc[q]
    BY <1>0, <1>p, <2>2
  <2>5. CredentialReachable'
    BY <1>p, <2>1, <2>4 DEF BaseInv, CredentialReachable
  <2> QED BY <1>p, <2>1, <2>3, <2>4, <2>5 DEF BaseInv
<1>1. ASSUME NEW i \in Inits, SetupStep(i)
      PROVE  BaseInv'
  BY <1>1, <1>p, SetupMoves DEF Setup, Ended
<1>2. ASSUME NEW r \in Runs, Begin(r)
      PROVE  BaseInv'
  BY <1>2, <1>p, EdgeMoves DEF Ended
<1>3. ASSUME NEW r \in Runs, EndStep(r)
      PROVE  BaseInv'
  <2>1. /\ Begun(r) /\ pc'[r] \in {"failed", "crashed"} /\ lock' = freed(r)
        /\ \A q \in Runs \ {r} : pc'[q] = pc[q]
        /\ UNCHANGED <<told, schema, cred, version>>
    BY <1>3, EdgeMoves
  <2>2. \A q \in Runs : pc'[q] \in Free => q # r /\ pc'[q] = pc[q]
    BY <2>1
  <2>3. \A q \in Runs \ {r} : lock = q => lock' = q
    BY <2>1 DEF freed
  <2>4. \A q \in told.cred : pc'[q] = pc[q] \/ pc'[q] \in {"failed", "crashed"}
    BY <1>0, <2>1
  <2>5. CredentialReachable'
    BY <1>0, <2>1, <2>2 DEF BaseInv, CredentialReachable
  <2> QED BY <2>1, <2>2, <2>3, <2>4, <2>5 DEF BaseInv, Ended
<1>4. ASSUME NEW r \in Runs, OpenDatabase(r)
      PROVE  BaseInv'
  <2>1. /\ lock = None /\ version' = [version EXCEPT ![r] = Len(schema)]
        /\ pc[r] = "open" /\ \A q \in Runs \ {r} : pc'[q] = pc[q]
        /\ \/ Len(schema) >= Migrations /\ pc'[r] = "credential" /\ lock' = lock
           \/ Len(schema) < Migrations /\ pc'[r] = "migrate" /\ lock' = r
        /\ UNCHANGED <<told, schema, cred>>
    BY <1>0, <1>4 DEF OpenDatabase, At
  <2>2. \A q \in Runs : pc[q] # "migrate" /\ pc[q] # "commit"
    BY <2>1 DEF BaseInv
  <2>3. version'[r] = Len(schema)
    BY <1>0, <2>1
  <2>4. Len(schema) <= Migrations
    BY DEF TypeOK
  <2>5. r \notin told.cred
    BY <2>1 DEF BaseInv, Ended
  <2>6. \A q \in told.cred : pc'[q] = pc[q]
    BY <1>0, <2>1, <2>5
  <2>7. CredentialReachable'
    BY <2>1, <2>6 DEF BaseInv, CredentialReachable
  <2>8. \A q \in Runs : pc'[q] \in {"credential", "commit", "done"} => Len(schema) = Migrations
    BY <1>0, <2>1, <2>4 DEF BaseInv
  <2>9. \A q \in Runs : pc'[q] = "done" => cred # None
    BY <2>1 DEF BaseInv
  <2>10. \A q \in Runs : pc'[q] = "migrate" =>
           lock' = q /\ version'[q] = Len(schema) /\ Len(schema) < Migrations
    BY <2>1, <2>2, <2>3
  <2>11. \A q \in Runs : pc'[q] # "commit"
    BY <2>1, <2>2
  <2> QED BY <2>1, <2>6, <2>7, <2>8, <2>9, <2>10, <2>11 DEF BaseInv
<1>5. ASSUME NEW r \in Runs, migrateOnce(r)
      PROVE  BaseInv'
  <2>1. /\ pc[r] = "migrate" /\ pc'[r] = "open" /\ \A q \in Runs \ {r} : pc'[q] = pc[q]
        /\ schema' = Append(schema, version[r] + 1) /\ lock' = freed(r)
        /\ UNCHANGED <<told, cred, version>>
    BY <1>0, <1>5 DEF migrateOnce, At
  <2>2. lock = r /\ version[r] = Len(schema) /\ Len(schema) < Migrations
    BY <2>1 DEF BaseInv
  <2>3. \A q \in Runs \ {r} : pc[q] # "migrate" /\ pc[q] # "commit"
    BY <2>2 DEF BaseInv
  <2>4. \A q \in Runs : pc[q] \notin {"credential", "commit", "done"}
    BY <1>0, <2>2 DEF BaseInv
  <2>5. r \notin told.cred
    BY <2>1 DEF BaseInv, Ended
  <2>6. \A q \in told.cred : pc'[q] = pc[q]
    BY <1>0, <2>1, <2>5
  <2>7. schema' = [n \in 1 .. Len(schema') |-> n]
    <3>1. schema \in Seq(Nat)
      BY <1>0
    <3> QED BY <2>1, <2>2, <3>1, NextMigration DEF BaseInv, CredentialReachable
  <2>8. CredentialReachable'
    BY <2>1, <2>6, <2>7 DEF BaseInv, CredentialReachable
  <2>9. \A q \in Runs : pc'[q] \notin Free
    BY <2>1, <2>3, <2>4
  <2> QED BY <2>1, <2>6, <2>8, <2>9 DEF BaseInv
<1>6. ASSUME NEW r \in Runs, ShowCredential(r)
      PROVE  BaseInv'
  <2>1. /\ lock = None /\ pc[r] = "credential" /\ \A q \in Runs \ {r} : pc'[q] = pc[q]
        /\ UNCHANGED <<schema, cred, version>>
        /\ \/ cred # None /\ pc'[r] = "done" /\ UNCHANGED <<lock, told>>
           \/ /\ cred = None /\ pc'[r] = "commit" /\ lock' = r
              /\ told' = [told EXCEPT !.cred = @ \cup {r}]
    BY <1>0, <1>6 DEF ShowCredential, At
  <2>2. \A q \in Runs : pc[q] # "migrate" /\ pc[q] # "commit"
    BY <2>1 DEF BaseInv
  <2>3. Len(schema) = Migrations
    BY <2>1 DEF BaseInv
  <2>4. r \notin told.cred
    BY <2>1 DEF BaseInv, Ended
  <2>5. CASE cred # None /\ pc'[r] = "done" /\ UNCHANGED <<lock, told>>
    <3>1. \A q \in told.cred : pc'[q] = pc[q]
      BY <1>0, <2>1, <2>4
    <3>2. CredentialReachable'
      BY <2>1, <2>5, <3>1 DEF BaseInv, CredentialReachable
    <3> QED BY <2>1, <2>2, <2>3, <2>5, <3>1, <3>2 DEF BaseInv
  <2>6. CASE /\ cred = None /\ pc'[r] = "commit" /\ lock' = r
             /\ told' = [told EXCEPT !.cred = @ \cup {r}]
    <3>1. told'.cred = told.cred \cup {r}
      BY <2>6 DEF TypeOK
    <3>2. \A q \in told.cred : pc'[q] = pc[q]
      BY <1>0, <2>1, <2>4
    <3>3. CredentialReachable'
      BY <2>1, <2>6, <3>1, <3>2 DEF BaseInv, CredentialReachable
    <3> QED BY <2>1, <2>2, <2>3, <2>6, <3>1, <3>2, <3>3 DEF BaseInv
  <2> QED BY <2>1, <2>5, <2>6
<1>7. ASSUME NEW r \in Runs, CommitCredential(r)
      PROVE  BaseInv'
  <2>1. /\ pc[r] = "commit" /\ pc'[r] = "done" /\ \A q \in Runs \ {r} : pc'[q] = pc[q]
        /\ cred' = r /\ lock' = None /\ UNCHANGED <<told, schema, version>>
    BY <1>0, <1>7 DEF CommitCredential, At
  <2>2. lock = r /\ cred = None /\ r \in told.cred
    BY <2>1 DEF BaseInv
  <2>3. \A q \in Runs \ {r} : pc[q] # "migrate" /\ pc[q] # "commit"
    BY <2>2 DEF BaseInv
  <2>4. \A q \in Runs : pc[q] # "done"
    BY <2>2 DEF BaseInv
  <2>5. CredentialReachable'
    BY <1>0, <2>1, <2>2, <2>4 DEF BaseInv, CredentialReachable
  <2>6. \A q \in told.cred : pc'[q] \in {"commit"} \cup Ended
    BY <1>0, <2>1 DEF BaseInv, Ended
  <2>7. Len(schema) = Migrations
    BY <2>1 DEF BaseInv
  <2>8. \A q \in Runs : pc'[q] # "migrate" /\ pc'[q] # "commit"
    BY <2>1, <2>3
  <2> QED BY <2>1, <2>5, <2>6, <2>7, <2>8 DEF BaseInv
<1>8. CASE WorldStep \/ UNCHANGED vars
  <2>1. UNCHANGED <<pc, told, lock, schema, cred, version>>
    BY <1>8 DEF WorldStep, BaoStarts, BaoStops, Expires, Stores, vars, base
  <2> QED BY <2>1 DEF BaseInv, CredentialReachable
<1> QED BY <1>1, <1>2, <1>3, <1>4, <1>5, <1>6, <1>7, <1>8, StepKinds DEF Stays

-----------------------------------------------------------------------------
(***************************************************************************)
(* Types.                                                                  *)
(***************************************************************************)
\* TypeOK but for pc, in the groups that the steps change.
TypeSeal ==
  /\ sealFile \in [key : Inits \cup {None}, whole : BOOLEAN]
  /\ bao \in [read : Inits \cup {None}, sealedBy : Inits \cup {None}]
  /\ mine \in [Inits -> Inits \cup {None}]
TypeToken ==
  /\ kv \in [mount : BOOLEAN, policy : BOOLEAN]
  /\ tokens \in [issued : SUBSET Inits, expired : SUBSET Inits]
  /\ inode \in [Inits -> {"none", "empty", "written"}]
  /\ dir \in [path : Inits \cup {None}, new : Inits \cup {None}]
  /\ key \in Inits \cup {None} /\ flight \subseteq Inits
TypeBase ==
  /\ lock \in Runs \cup {None} /\ cred \in Runs \cup {None}
  /\ version \in [Runs -> 0 .. Migrations]
  /\ schema \in Seq(1 .. Migrations) /\ Len(schema) <= Migrations
TypeRest ==
  /\ pc \in [Runs -> Places] /\ before \in [Runs -> SUBSET Runs] /\ keyed \subseteq Inits
  /\ told \in [seal : SUBSET Inits, root : BOOLEAN, cred : SUBSET Runs]

\* TypeOK is these groups together.
LEMMA TypeGroups == TypeOK <=> TypeSeal /\ TypeToken /\ TypeBase /\ TypeRest
<1>1. Places = {"idle", "wait", "show", "init", "mount", "policy", "check", "token",
                "run", "get", "put", "again", "open", "migrate", "credential", "commit"}
                 \cup InSeal \cup InToken \cup Ended
  BY DEF Places, Setup, InSeal, InToken
<1> QED BY <1>1 DEF TypeOK, TypeSeal, TypeToken, TypeBase, TypeRest

\* What a run makes the seal key file: its own key, cut short or whole, or nothing.
LEMMA SealFiles ==
  ASSUME NEW k \in Inits \cup {None}, NEW b \in BOOLEAN
  PROVE  [key |-> k, whole |-> b] \in [key : Inits \cup {None}, whole : BOOLEAN]
OBVIOUS

\* Every step of tc init's set-up keeps the types.
LEMMA TypeSetup ==
  ASSUME TypeOK, SealInv, NEW i \in Inits, SetupStep(i)
  PROVE  TypeOK'
<1> USE NoneIsNoRun
<1>0. TypeSeal /\ TypeToken /\ TypeBase /\ TypeRest
  BY TypeGroups
<1>1. TypeBase'
  BY <1>0, SetupMoves DEF TypeBase, base
<1>2. pc' \in [Runs -> Places] /\ before' \in [Runs -> SUBSET Runs] /\ keyed' \subseteq Inits
  BY <1>0, SetupMoves DEF TypeRest, Places, Ended
<1>3. CASE Seals(i)
  <2>1. TypeSeal'
    <3>1. UNCHANGED bao
      BY <1>3 DEF Seals, SealKeyFound, SealKeyCreated, SealKeyWritten, SealKeySynced, backend
    <3>2. CASE SealKeyFound(i) \/ SealKeySynced(i)
      BY <1>0, <3>1, <3>2 DEF TypeSeal, SealKeyFound, SealKeySynced, disk
    <3>3. CASE SealKeyCreated(i) \/ SealKeyWritten(i)
      <4>1. \E b \in BOOLEAN : sealFile' = [key |-> i, whole |-> b]
        BY <3>3 DEF SealKeyCreated, SealKeyWritten
      <4>2. sealFile' \in [key : Inits \cup {None}, whole : BOOLEAN] /\ UNCHANGED mine
        BY <3>3, <4>1, SealFiles DEF SealKeyCreated, SealKeyWritten
      <4> QED BY <1>0, <3>1, <4>2 DEF TypeSeal
    <3> QED BY <1>3, <3>2, <3>3 DEF Seals
  <2>2. UNCHANGED <<told, backend, inode, dir>>
    BY <1>3 DEF Seals, SealKeyFound, SealKeyCreated, SealKeyWritten, SealKeySynced, disk
  <2>3. TypeToken' /\ TypeRest'
    BY <1>0, <1>2, <2>2 DEF TypeToken, TypeRest, backend
  <2> QED BY <1>1, <2>1, <2>3, TypeGroups, PTL
<1>4. CASE Initializes(i)
  <2>1. UNCHANGED <<mine, disk, kv, tokens, key, flight>>
    BY <1>4 DEF Initializes, WaitHealth, ShowSealKey, InitBao, backend
  <2>2. bao' \in [read : Inits \cup {None}, sealedBy : Inits \cup {None}]
    BY <1>0, <1>4 DEF TypeSeal, Initializes, WaitHealth, ShowSealKey, InitBao, backend
  <2>3. TypeSeal' /\ TypeToken'
    BY <1>0, <2>1, <2>2 DEF TypeSeal, TypeToken, disk
  <2>4. told' \in [seal : SUBSET Inits, root : BOOLEAN, cred : SUBSET Runs]
    <3>1. CASE ShowSealKey(i)
      <4>1. mine[i] \in Inits
        BY <1>0, <3>1 DEF ShowSealKey, At, SealInv, TypeSeal
      <4> QED BY <1>0, <3>1, <4>1 DEF TypeRest, TypeSeal, ShowSealKey
    <3>2. CASE ~ShowSealKey(i)
      BY <1>0, <1>4, <3>2 DEF TypeRest, Initializes, WaitHealth, InitBao
    <3> QED BY <3>1, <3>2
  <2>5. TypeRest'
    BY <1>2, <2>4 DEF TypeRest
  <2> QED BY <1>1, <2>3, <2>5, TypeGroups, PTL
<1>5. CASE SetsUp(i)
  <2>1. UNCHANGED <<mine, sealFile, bao, told>>
    BY <1>5 DEF SetsUp, EnsureKVMount, WritePluginPolicy, CheckPluginToken, CreatePluginToken,
         LinkTokenFile, FillTokenFile, RenameTokenFile, PluginHealthy, SigningKeyRead,
         SigningKeySent, SigningKeyStored, disk, backend
  <2>2. TypeSeal' /\ TypeRest'
    BY <1>0, <1>2, <2>1 DEF TypeSeal, TypeRest
  <2>3. TypeToken'
    <3>1. CASE EnsureKVMount(i) \/ WritePluginPolicy(i)
      BY <1>0, <3>1 DEF EnsureKVMount, WritePluginPolicy, TypeToken, disk
    <3>2. CASE CreatePluginToken(i)
      BY <1>0, <3>2 DEF CreatePluginToken, TypeToken, disk
    <3>3. CASE LinkTokenFile(i) \/ FillTokenFile(i) \/ RenameTokenFile(i)
      BY <1>0, <3>3 DEF LinkTokenFile, FillTokenFile, RenameTokenFile, TypeToken, backend
    <3>4. CASE SigningKeySent(i)
      BY <1>0, <3>4 DEF SigningKeySent, TypeToken, disk
    <3>5. CASE CheckPluginToken(i) \/ PluginHealthy(i) \/ SigningKeyRead(i) \/ SigningKeyStored(i)
      <4>1. UNCHANGED <<disk, backend>>
        BY <3>5 DEF CheckPluginToken, PluginHealthy, SigningKeyRead, SigningKeyStored
      <4> QED BY <1>0, <4>1 DEF disk, backend, TypeToken
    <3> QED BY <1>5, <3>1, <3>2, <3>3, <3>4, <3>5 DEF SetsUp
  <2> QED BY <1>1, <2>2, <2>3, TypeGroups, PTL
<1> QED BY <1>3, <1>4, <1>5 DEF SetupStep

\* Every step keeps the types: a run that migrates holds the lock, so the schema's next
\* version is one of the Migrations.
LEMMA TypeStep ==
  ASSUME TypeOK, BaseInv, SealInv, [Next]_vars
  PROVE  TypeOK'
<1> USE NoneIsNoRun
<1>0. TypeSeal /\ TypeToken /\ TypeBase /\ TypeRest
  BY TypeGroups
<1>1. ASSUME NEW i \in Inits, SetupStep(i)
      PROVE  TypeOK'
  BY <1>1, TypeSetup
<1>2. ASSUME NEW r \in Runs, Begin(r)
      PROVE  TypeOK'
  <2>1. UNCHANGED <<keyed, mine, told, disk, backend, base, version>>
    BY <1>2, EdgeMoves
  <2>2. TypeSeal' /\ TypeToken' /\ TypeBase'
    BY <1>0, <2>1 DEF TypeSeal, TypeToken, TypeBase, disk, backend, base
  <2>3. TypeRest'
    BY <1>0, <1>2, <2>1 DEF Begin, At, TypeRest, Places, Setup
  <2> QED BY <2>2, <2>3, TypeGroups, PTL
<1>3. ASSUME NEW r \in Runs, EndStep(r)
      PROVE  TypeOK'
  <2>1. UNCHANGED <<before, keyed, mine, told, inode, backend, schema, cred, version>>
    BY <1>3, EdgeMoves
  <2>2. TypeSeal'
    <3>1. sealFile' = sealFile \/ sealFile' = [key |-> None, whole |-> FALSE]
      BY <1>3 DEF EndStep, Fails, Crash, disk
    <3>2. sealFile' \in [key : Inits \cup {None}, whole : BOOLEAN]
      BY <1>0, <3>1, SealFiles DEF TypeSeal
    <3> QED BY <1>0, <2>1, <3>2 DEF TypeSeal, backend
  <2>3. TypeToken'
    BY <1>0, <1>3, <2>1 DEF EndStep, Fails, Crash, TypeToken, disk, backend
  <2>4. TypeBase'
    BY <1>0, <1>3, <2>1 DEF EndStep, Fails, Crash, TypeBase, freed
  <2>5. TypeRest'
    BY <1>0, <1>3, <2>1 DEF EndStep, Fails, Crash, TypeRest, Places, Ended
  <2> QED BY <2>2, <2>3, <2>4, <2>5, TypeGroups, PTL
<1>4. ASSUME NEW r \in Runs, Stays(r)
      PROVE  TypeOK'
  <2>1. UNCHANGED <<before, keyed, mine, disk, backend>>
    BY <1>4 DEF Stays, OpenDatabase, migrateOnce, ShowCredential, CommitCredential
  <2>2. TypeSeal' /\ TypeToken'
    BY <1>0, <2>1 DEF TypeSeal, TypeToken, disk, backend
  <2>3. TypeRest'
    <3>1. pc' \in [Runs -> Places]
      BY <1>0, <1>4 DEF Stays, OpenDatabase, migrateOnce, ShowCredential, CommitCredential, At,
           TypeRest, Places, Ended
    <3>2. told' \in [seal : SUBSET Inits, root : BOOLEAN, cred : SUBSET Runs]
      BY <1>0, <1>4 DEF Stays, OpenDatabase, migrateOnce, ShowCredential, CommitCredential,
           TypeRest
    <3> QED BY <1>0, <2>1, <3>1, <3>2 DEF TypeRest
  <2>4. TypeBase'
    <3>1. CASE OpenDatabase(r)
      <4>1. Len(schema) \in 0 .. Migrations
        BY <1>0 DEF TypeBase
      <4> QED BY <1>0, <3>1, <4>1 DEF OpenDatabase, TypeBase
    <3>2. CASE migrateOnce(r)
      <4>1. pc[r] = "migrate" /\ schema' = Append(schema, version[r] + 1) /\ lock' = freed(r)
            /\ UNCHANGED <<cred, version>>
        BY <3>2 DEF migrateOnce, At
      <4>2. version[r] = Len(schema) /\ Len(schema) < Migrations
        BY <4>1 DEF BaseInv
      <4>3. Len(schema) + 1 \in 1 .. Migrations
        BY <1>0, <4>2 DEF TypeBase
      <4>4. schema' \in Seq(1 .. Migrations) /\ Len(schema') = Len(schema) + 1
        BY <1>0, <4>1, <4>2, <4>3 DEF TypeBase
      <4> QED BY <1>0, <4>1, <4>3, <4>4 DEF TypeBase, freed
    <3>3. CASE ShowCredential(r) \/ CommitCredential(r)
      BY <1>0, <3>3 DEF ShowCredential, CommitCredential, TypeBase
    <3> QED BY <1>4, <3>1, <3>2, <3>3 DEF Stays
  <2> QED BY <2>2, <2>3, <2>4, TypeGroups, PTL
<1>5. CASE WorldStep
  <2>1. UNCHANGED <<pc, before, keyed, mine, told, disk, kv, base, version>>
    BY <1>5 DEF WorldStep, BaoStarts, BaoStops, Expires, Stores
  <2>2. TypeBase' /\ TypeRest'
    BY <1>0, <2>1 DEF TypeBase, TypeRest, base
  <2>3. TypeSeal'
    BY <1>0, <1>5, <2>1 DEF WorldStep, BaoStarts, BaoStops, Expires, Stores, TypeSeal, disk
  <2>4. TypeToken'
    BY <1>0, <1>5, <2>1 DEF WorldStep, BaoStarts, BaoStops, Expires, Stores, TypeToken, disk
  <2> QED BY <2>2, <2>3, <2>4, TypeGroups, PTL
<1>6. CASE UNCHANGED vars
  <2>1. TypeSeal' /\ TypeToken' /\ TypeBase' /\ TypeRest'
    BY <1>0, <1>6 DEF vars, disk, backend, base, TypeSeal, TypeToken, TypeBase, TypeRest
  <2> QED BY <2>1, TypeGroups, PTL
<1> QED BY <1>1, <1>2, <1>3, <1>4, <1>5, <1>6, StepKinds

\* A server begins at the database, and no run goes back.
LEMMA PlaceStep ==
  ASSUME TypeOK, PlaceInv, [Next]_vars
  PROVE  PlaceInv'
<1> USE NoneIsNoRun
<1>1. ASSUME NEW i \in Inits, SetupStep(i)
      PROVE  PlaceInv'
  BY <1>1, SetupMoves DEF PlaceInv
<1>2. ASSUME NEW r \in Runs, Begin(r) \/ EndStep(r) \/ Stays(r)
      PROVE  PlaceInv'
  <2>1. /\ r \notin Inits => pc'[r] \in FromOpen \cup {"failed", "crashed"}
        /\ \A q \in Runs \ {r} : pc'[q] = pc[q]
    BY <1>2 DEF Begin, EndStep, Fails, Crash, Stays, OpenDatabase, migrateOnce, ShowCredential,
         CommitCredential, At, FromOpen, TypeOK
  <2> QED BY <2>1 DEF PlaceInv, FromOpen, Setup
<1>3. CASE WorldStep \/ UNCHANGED vars
  BY <1>3 DEF WorldStep, BaoStarts, BaoStops, Expires, Stores, vars, PlaceInv
<1> QED BY <1>1, <1>2, <1>3, StepKinds

-----------------------------------------------------------------------------
(***************************************************************************)
(* The seal key.                                                           *)
(***************************************************************************)
\* A step of a run that has not ended keeps a key in the file or known to be gone, if it
\* takes away no file but its own, and that only by failing before it was done with it.
LEMMA KeptStays ==
  ASSUME TypeOK, NEW r \in Runs, pc[r] \notin Ended, \A q \in Runs \ {r} : pc'[q] = pc[q],
         \A i \in Inits \ {r} : mine'[i] = mine[i],
         \/ sealFile'.key = sealFile.key
         \/ sealFile.key = None
         \/ sealFile.key = r /\ pc'[r] = "failed" /\ mine'[r] # r,
         NEW k \in Inits, Kept(k)
  PROVE  Kept(k)'
<1> USE NoneIsNoRun
<1>1. CASE mine[k] # k /\ pc[k] = "failed"
  <2>1. k # r
    BY <1>1 DEF Ended
  <2> QED BY <1>1, <2>1 DEF Kept
<1>2. CASE sealFile.key = k
  BY <1>2 DEF Kept
<1> QED BY <1>1, <1>2 DEF Kept

\* A step that leaves OpenBao and the places where a run has to do with the seal key alone.
LEMMA SealKept ==
  ASSUME TypeOK, SealInv, NEW r \in Runs, pc[r] \notin Ended,
         \A q \in Runs \ {r} : pc'[q] = pc[q], UNCHANGED <<bao, mine>>,
         \/ UNCHANGED sealFile
         \/ pc[r] \in {"write", "sync"} /\ r \in Inits /\ pc'[r] = "failed"
            /\ sealFile' = [key |-> None, whole |-> FALSE],
         r \in Inits => \/ pc'[r] \notin InSeal \cup {"idle", "wait", "show", "init"}
                        \/ pc[r] = "idle" /\ pc'[r] = "seal"
                        \/ pc[r] \in {"wait", "show"} /\ pc'[r] \in {"show", "init"}
  PROVE  SealInv'
<1> USE NoneIsNoRun
<1>0. bao.read \in Inits \cup {None} /\ bao.sealedBy \in Inits \cup {None}
      /\ mine \in [Inits -> Inits \cup {None}]
  BY DEF TypeOK
<1>1. \/ UNCHANGED sealFile
      \/ sealFile.key = r /\ pc'[r] = "failed" /\ mine[r] = None /\ sealFile'.key = None
         /\ r \in Inits
  BY DEF SealInv
<1>2. ASSUME NEW k \in Inits, Kept(k)
      PROVE  Kept(k)'
  BY <1>1, <1>2, KeptStays
<1>3. \A i \in Inits : pc'[i] \in {"write", "sync"} => sealFile'.key = i
  <2>1. ASSUME NEW i \in Inits, pc'[i] \in {"write", "sync"}
        PROVE  sealFile'.key = i
    <3>1. i # r /\ pc[i] \in {"write", "sync"}
      BY <2>1 DEF InSeal
    <3> QED BY <1>1, <3>1 DEF SealInv
  <2> QED BY <2>1
<1>4. \A i \in Inits : pc'[i] \in {"idle", "seal", "write", "sync"} => mine'[i] = None
  BY DEF SealInv, InSeal
<1>5. \A i \in Inits : pc'[i] \in {"wait", "show", "init"} => mine'[i] # None
  BY DEF SealInv, InSeal
<1>6. bao'.read # None => Kept(bao.read)'
  BY <1>0, <1>2 DEF SealInv
<1>7. bao'.sealedBy # None => Kept(bao.sealedBy)'
  BY <1>0, <1>2 DEF SealInv
<1> QED BY <1>3, <1>4, <1>5, <1>6, <1>7 DEF SealInv

\* Each step preserves that the keys OpenBao was given are kept.
LEMMA SealStep ==
  ASSUME TypeOK, PlaceInv, SealInv, [Next]_vars
  PROVE  SealInv'
<1> USE NoneIsNoRun
<1>0. /\ pc \in [Runs -> Places] /\ mine \in [Inits -> Inits \cup {None}]
      /\ sealFile \in [key : Inits \cup {None}, whole : BOOLEAN]
      /\ bao \in [read : Inits \cup {None}, sealedBy : Inits \cup {None}]
  BY PlacesTyped DEF TypeOK
<1>1. ASSUME NEW i \in Inits, Seals(i)
      PROVE  SealInv'
  <2>1. UNCHANGED bao /\ pc[i] \notin Ended
    BY <1>1 DEF Seals, SealKeyFound, SealKeyCreated, SealKeyWritten, SealKeySynced, backend, At,
         Ended
  <2>2. \A q \in Runs \ {i} : pc'[q] = pc[q]
    BY <1>0, <1>1 DEF Seals, SealKeyFound, SealKeyCreated, SealKeyWritten, SealKeySynced, At
  <2>3. \A j \in Inits \ {i} : mine'[j] = mine[j]
    BY <1>0, <1>1 DEF Seals, SealKeyFound, SealKeyCreated, SealKeyWritten, SealKeySynced
  <2>4. sealFile'.key = sealFile.key \/ sealFile.key = None
    BY <1>0, <1>1 DEF Seals, SealKeyFound, SealKeyCreated, SealKeyWritten, SealKeySynced, At, disk,
         SealInv
  <2>5. \A k \in Inits : Kept(k) => Kept(k)'
    BY <2>1, <2>2, <2>3, <2>4, KeptStays
  <2>6. (bao'.read # None => Kept(bao.read)') /\ (bao'.sealedBy # None => Kept(bao.sealedBy)')
    BY <1>0, <2>1, <2>5 DEF SealInv
  <2>7. \A j \in Inits \ {i} : pc[j] \in {"write", "sync"} => sealFile'.key = j
    BY <2>4 DEF SealInv
  <2>8. /\ pc'[i] \in {"write", "sync"} => sealFile'.key = i
        /\ pc'[i] \in {"idle", "seal", "write", "sync"} => mine'[i] = None
        /\ pc'[i] \in {"wait", "show", "init"} => mine'[i] # None
    BY <1>0, <1>1 DEF Seals, SealKeyFound, SealKeyCreated, SealKeyWritten, SealKeySynced, At, SealInv
  <2>9. \A j \in Inits : pc'[j] \in {"write", "sync"} => sealFile'.key = j
    BY <2>2, <2>7, <2>8
  <2>10. \A j \in Inits : /\ pc'[j] \in {"idle", "seal", "write", "sync"} => mine'[j] = None
                          /\ pc'[j] \in {"wait", "show", "init"} => mine'[j] # None
    BY <2>2, <2>3, <2>8 DEF SealInv
  <2> QED BY <2>6, <2>9, <2>10 DEF SealInv
<1>2. ASSUME NEW i \in Inits, InitBao(i)
      PROVE  SealInv'
  <2>1. /\ UNCHANGED <<mine, sealFile>> /\ bao'.read = bao.read /\ bao'.sealedBy = bao.read
        /\ bao.read # None /\ pc[i] = "init" /\ pc'[i] \in {"mount", "failed"}
        /\ \A q \in Runs \ {i} : pc'[q] = pc[q]
    BY <1>0, <1>2 DEF InitBao, Answers, At, disk
  <2>2. Kept(bao.read)'
    BY <1>0, <2>1, KeptStays DEF SealInv, Ended
  <2>3. \A j \in Inits : pc'[j] # pc[j] => pc'[j] \in {"mount", "failed"}
    BY <2>1
  <2> QED BY <2>1, <2>2, <2>3 DEF SealInv
<1>3. ASSUME NEW i \in Inits, WaitHealth(i) \/ ShowSealKey(i)
      PROVE  SealInv'
  <2>1. /\ UNCHANGED <<mine, sealFile, bao>>
        /\ \/ pc[i] \in {"wait", "show"} /\ pc'[i] \in {"show", "init"}
           \/ pc[i] = "wait" /\ pc'[i] = "mount"
        /\ \A q \in Runs \ {i} : pc'[q] = pc[q]
    BY <1>0, <1>3 DEF WaitHealth, ShowSealKey, At, disk, backend
  <2> QED BY <2>1, SealKept DEF Ended, InSeal
<1>4. ASSUME NEW i \in Inits, SetsUp(i)
      PROVE  SealInv'
  <2>1. UNCHANGED <<mine, sealFile, bao>>
    BY <1>4 DEF SetsUp, EnsureKVMount, WritePluginPolicy, CheckPluginToken, CreatePluginToken,
         LinkTokenFile, FillTokenFile, RenameTokenFile, PluginHealthy, SigningKeyRead,
         SigningKeySent, SigningKeyStored, disk, backend
  <2>2. pc'[i] \notin InSeal \cup {"idle", "wait", "show", "init"}
    BY <1>0, <1>4 DEF SetsUp, EnsureKVMount, WritePluginPolicy, CheckPluginToken, CreatePluginToken,
         LinkTokenFile, FillTokenFile, RenameTokenFile, PluginHealthy, SigningKeyRead,
         SigningKeySent, SigningKeyStored, At, InSeal
  <2>3. pc[i] \notin Ended /\ \A q \in Runs \ {i} : pc'[q] = pc[q]
    BY <1>4, SetupMoves DEF SetupStep, Setup, Ended
  <2> QED BY <2>1, <2>2, <2>3, SealKept
<1>5. ASSUME NEW r \in Runs, Begin(r)
      PROVE  SealInv'
  <2>1. /\ UNCHANGED <<mine, sealFile, bao>> /\ pc[r] = "idle"
        /\ (r \in Inits => pc'[r] = "seal") /\ \A q \in Runs \ {r} : pc'[q] = pc[q]
    BY <1>5, EdgeMoves DEF disk, backend
  <2> QED BY <2>1, SealKept DEF Ended
<1>6. ASSUME NEW r \in Runs, EndStep(r)
      PROVE  SealInv'
  <2>1. /\ UNCHANGED <<mine, bao>> /\ pc[r] \notin Ended /\ pc'[r] \in {"failed", "crashed"}
        /\ \A q \in Runs \ {r} : pc'[q] = pc[q]
    BY <1>6, EdgeMoves DEF backend, Begun
  <2>2. \/ UNCHANGED sealFile
        \/ pc[r] \in {"write", "sync"} /\ pc'[r] = "failed"
           /\ sealFile' = [key |-> None, whole |-> FALSE]
    BY <1>0, <1>6 DEF EndStep, Fails, Crash, disk
  <2>3. pc[r] \in {"write", "sync"} => r \in Inits
    BY DEF PlaceInv, Setup
  <2> QED BY <2>1, <2>2, <2>3, SealKept DEF InSeal
<1>7. ASSUME NEW r \in Runs, Stays(r)
      PROVE  SealInv'
  <2>1. /\ UNCHANGED <<mine, sealFile, bao>> /\ pc[r] \notin Ended
        /\ pc'[r] \in FromOpen /\ \A q \in Runs \ {r} : pc'[q] = pc[q]
    BY <1>0, <1>7 DEF Stays, OpenDatabase, migrateOnce, ShowCredential, CommitCredential, At, Ended,
         FromOpen, disk, backend
  <2> QED BY <2>1, SealKept DEF InSeal, FromOpen
<1>8. CASE WorldStep \/ UNCHANGED vars
  <2>1. UNCHANGED <<pc, mine, sealFile>>
    BY <1>8 DEF WorldStep, BaoStarts, BaoStops, Expires, Stores, vars, disk
  <2>2. bao'.sealedBy = bao.sealedBy /\ bao'.read \in {None, sealFile.key, bao.read}
    BY <1>0, <1>8 DEF WorldStep, BaoStarts, BaoStops, Expires, Stores, vars, backend
  <2>3. \A k : Kept(k) => Kept(k)'
    BY <2>1 DEF Kept
  <2>4. sealFile.key # None => Kept(sealFile.key)
    BY DEF Kept
  <2> QED BY <2>1, <2>2, <2>3, <2>4 DEF SealInv
<1> QED BY <1>1, <1>2, <1>3, <1>4, <1>5, <1>6, <1>7, <1>8, StepKinds
        DEF SetupStep, Initializes

-----------------------------------------------------------------------------
(***************************************************************************)
(* The signing key.                                                        *)
(***************************************************************************)
\* A step that has not to do with signing keys.
LEMMA KeyKept ==
  ASSUME TypeOK, KeyInv, NEW r \in Runs, pc[r] \notin Ended,
         \A q \in Runs \ {r} : pc'[q] = pc[q], UNCHANGED <<before, key, flight>>,
         pc'[r] \notin {"put", "again"}, r \in flight => pc'[r] \in Ended
  PROVE  KeyInv'
<1> USE NoneIsNoRun
<1>0. flight \subseteq Inits /\ before \in [Runs -> SUBSET Runs]
  BY DEF TypeOK
<1>1. \A i \in flight : pc'[i] \in {"again"} \cup Ended
  BY <1>0 DEF KeyInv
<1>2. \A x \in Runs : \A q \in before[x] : pc'[q] \in Ended /\ q \notin flight
  BY <1>0 DEF KeyInv
<1>3. \A i \in Inits : i \in flight \/ pc'[i] \in {"put", "again"} => key \notin before[i]
  BY DEF KeyInv
<1> QED BY <1>1, <1>2, <1>3 DEF KeyInv

\* Each step preserves what the history of ended runs says of the signing key.
LEMMA KeyStep ==
  ASSUME TypeOK, KeyInv, [Next]_vars
  PROVE  KeyInv'
<1> USE NoneIsNoRun
<1>0. /\ pc \in [Runs -> Places] /\ flight \subseteq Inits /\ before \in [Runs -> SUBSET Runs]
      /\ key \in Inits \cup {None}
  BY PlacesTyped DEF TypeOK
<1>1. ASSUME NEW i \in Inits, SigningKeyRead(i)
      PROVE  KeyInv'
  <2>1. /\ pc[i] = "get" /\ pc'[i] = IF key # None THEN "open" ELSE "put"
        /\ \A q \in Runs \ {i} : pc'[q] = pc[q]
        /\ UNCHANGED <<before, key, flight>>
    BY <1>0, <1>1 DEF SigningKeyRead, At, backend
  <2>2. i \notin flight
    BY <2>1 DEF KeyInv, Ended
  <2>3. CASE key # None
    BY <2>1, <2>2, <2>3, KeyKept DEF Ended
  <2>4. CASE key = None
    <3>1. \A x \in Runs : i \notin before[x]
      BY <2>1 DEF KeyInv, Ended
    <3>2. \A j \in flight : pc'[j] \in {"again"} \cup Ended
      BY <1>0, <2>1, <2>2 DEF KeyInv
    <3>3. \A x \in Runs : \A q \in before[x] : pc'[q] \in Ended /\ q \notin flight
      BY <1>0, <2>1, <3>1 DEF KeyInv
    <3>4. \A j \in Inits : key \notin before[j]
      BY <1>0, <2>4
    <3> QED BY <2>1, <3>2, <3>3, <3>4 DEF KeyInv
  <2> QED BY <2>3, <2>4
<1>2. ASSUME NEW i \in Inits, SigningKeySent(i)
      PROVE  KeyInv'
  <2>1. /\ pc[i] = "put" /\ pc'[i] = "again" /\ \A q \in Runs \ {i} : pc'[q] = pc[q]
        /\ flight' = flight \cup {i} /\ UNCHANGED <<before, key>>
    BY <1>0, <1>2 DEF SigningKeySent, At
  <2>2. \A x \in Runs : i \notin before[x]
    BY <2>1 DEF KeyInv, Ended
  <2>3. \A j \in flight' : pc'[j] \in {"again"} \cup Ended
    BY <1>0, <2>1 DEF KeyInv
  <2>4. \A x \in Runs : \A q \in before[x] : pc'[q] \in Ended /\ q \notin flight'
    BY <1>0, <2>1, <2>2 DEF KeyInv
  <2>5. \A j \in Inits : j \in flight' \/ pc'[j] \in {"put", "again"} => key \notin before[j]
    BY <2>1 DEF KeyInv
  <2> QED BY <2>1, <2>3, <2>4, <2>5 DEF KeyInv
<1>3. ASSUME NEW i \in Inits, SetupStep(i), ~SigningKeyRead(i), ~SigningKeySent(i)
      PROVE  KeyInv'
  <2>1. UNCHANGED <<key, flight>>
    BY <1>3 DEF SetupStep, Seals, Initializes, SetsUp, backend,
         SealKeyFound, SealKeyCreated, SealKeyWritten, SealKeySynced, WaitHealth, ShowSealKey,
         InitBao, EnsureKVMount, WritePluginPolicy, CheckPluginToken, CreatePluginToken,
         LinkTokenFile, FillTokenFile, RenameTokenFile, PluginHealthy, SigningKeyStored
  <2>2. pc'[i] \notin {"put", "again"} /\ (pc[i] = "again" => i \notin flight)
    BY <1>0, <1>3 DEF SetupStep, Seals, Initializes, SetsUp, At,
         SealKeyFound, SealKeyCreated, SealKeyWritten, SealKeySynced, WaitHealth, ShowSealKey,
         InitBao, EnsureKVMount, WritePluginPolicy, CheckPluginToken, CreatePluginToken,
         LinkTokenFile, FillTokenFile, RenameTokenFile, PluginHealthy, SigningKeyStored
  <2>3. pc[i] \notin Ended /\ UNCHANGED before /\ \A q \in Runs \ {i} : pc'[q] = pc[q]
    BY <1>3, SetupMoves DEF Setup, Ended
  <2>4. i \notin flight
    BY <2>2, <2>3 DEF KeyInv
  <2> QED BY <2>1, <2>2, <2>3, <2>4, KeyKept
<1>4. ASSUME NEW r \in Runs, Begin(r)
      PROVE  KeyInv'
  <2>1. /\ pc[r] = "idle" /\ pc'[r] \in {"seal", "open"} /\ \A q \in Runs \ {r} : pc'[q] = pc[q]
        /\ before' = [before EXCEPT ![r] = {q \in Runs \ flight : pc[q] \in Ended}]
        /\ UNCHANGED <<key, flight>>
    BY <1>4, EdgeMoves DEF backend
  <2>2. r \notin flight /\ \A x \in Runs : r \notin before[x]
    BY <2>1 DEF KeyInv, Ended
  <2>3. \A i \in flight : pc'[i] \in {"again"} \cup Ended
    BY <1>0, <2>1, <2>2 DEF KeyInv
  <2>4. \A q \in before'[r] : pc'[q] \in Ended /\ q \notin flight
    BY <1>0, <2>1 DEF Ended
  <2>5. \A x \in Runs \ {r} : before'[x] = before[x]
    BY <1>0, <2>1
  <2>6. \A x \in Runs : \A q \in before'[x] : pc'[q] \in Ended /\ q \notin flight
    BY <1>0, <2>1, <2>2, <2>4, <2>5 DEF KeyInv
  <2>7. \A i \in Inits : i \in flight \/ pc'[i] \in {"put", "again"} => key \notin before'[i]
    BY <2>1, <2>2, <2>5 DEF KeyInv
  <2> QED BY <2>1, <2>3, <2>6, <2>7 DEF KeyInv
<1>5. ASSUME NEW r \in Runs, EndStep(r)
      PROVE  KeyInv'
  <2>1. /\ Begun(r) /\ pc'[r] \in {"failed", "crashed"} /\ UNCHANGED <<before, key, flight>>
        /\ \A q \in Runs \ {r} : pc'[q] = pc[q]
    BY <1>5, EdgeMoves DEF backend
  <2> QED BY <2>1, KeyKept DEF Begun, Ended
<1>6. ASSUME NEW r \in Runs, Stays(r)
      PROVE  KeyInv'
  <2>1. /\ UNCHANGED <<before, key, flight>> /\ pc[r] \notin {"again"} \cup Ended
        /\ pc'[r] \in FromOpen /\ \A q \in Runs \ {r} : pc'[q] = pc[q]
    BY <1>0, <1>6 DEF Stays, OpenDatabase, migrateOnce, ShowCredential, CommitCredential, At, Ended,
         FromOpen, backend
  <2>2. r \notin flight
    BY <2>1 DEF KeyInv
  <2> QED BY <2>1, <2>2, KeyKept DEF FromOpen
<1>7. ASSUME NEW i \in Inits, Stores(i)
      PROVE  KeyInv'
  <2>1. i \in flight /\ flight' = flight \ {i} /\ key' = i /\ UNCHANGED <<pc, before>>
    BY <1>7 DEF Stores
  <2>2. \A x \in Runs : i \notin before[x]
    BY <2>1 DEF KeyInv
  <2> QED BY <2>1, <2>2 DEF KeyInv
<1>8. ASSUME UNCHANGED <<pc, before, key, flight>>
      PROVE  KeyInv'
  BY <1>8 DEF KeyInv
<1>9. CASE WorldStep \/ UNCHANGED vars
  BY <1>7, <1>8, <1>9 DEF WorldStep, BaoStarts, BaoStops, Expires, vars, backend
<1> QED BY <1>1, <1>2, <1>3, <1>4, <1>5, <1>6, <1>9, StepKinds

\* A step changes the signing key only by carrying out a write that was under way.
LEMMA KeyChanges ==
  ASSUME TypeOK, [Next]_vars, key' # key
  PROVE  key' \in flight
<1> USE NoneIsNoRun
<1>1. ASSUME NEW i \in Inits, SetupStep(i)
      PROVE  UNCHANGED key
    BY <1>1 DEF SetupStep, Seals, Initializes, SetsUp, backend,
         SealKeyFound, SealKeyCreated, SealKeyWritten, SealKeySynced, WaitHealth, ShowSealKey,
         InitBao, EnsureKVMount, WritePluginPolicy, CheckPluginToken, CreatePluginToken,
         LinkTokenFile, FillTokenFile, RenameTokenFile, PluginHealthy, SigningKeyRead,
         SigningKeySent, SigningKeyStored
<1>2. ASSUME NEW r \in Runs, Begin(r) \/ EndStep(r) \/ Stays(r)
      PROVE  UNCHANGED key
  BY <1>2 DEF Begin, EndStep, Fails, Crash, Stays, OpenDatabase, migrateOnce, ShowCredential,
       CommitCredential, backend
<1>3. CASE WorldStep
  BY <1>3 DEF WorldStep, BaoStarts, BaoStops, Expires, Stores
<1>4. CASE UNCHANGED vars
  BY <1>4 DEF vars, backend
<1> QED BY <1>1, <1>2, <1>3, <1>4, StepKinds

-----------------------------------------------------------------------------
(***************************************************************************)
(* What tc init sets up.                                                   *)
(***************************************************************************)
\* Nothing that was set up is ever taken away: not OpenBao's initialization, its engine and
\* policy, an issued token, a token file or a signing key; and no config changes.
Grows ==
  /\ bao.sealedBy # None => bao'.sealedBy # None
  /\ told.root => told'.root
  /\ kv.mount => kv'.mount
  /\ kv.policy => kv'.policy
  /\ tokens.issued \subseteq tokens'.issued
  /\ dir.path # None => dir'.path # None
  /\ key # None => key' # None
  /\ keyed' = keyed

\* Every step of every run, and of OpenBao, adds to what was set up.
LEMMA NothingTakenAway ==
  ASSUME TypeOK, [Next]_vars
  PROVE  Grows
<1> USE NoneIsNoRun
<1>0. TypeSeal /\ TypeToken /\ TypeRest
  BY TypeGroups
<1>9. keyed' = keyed
  <2>1. ASSUME NEW r \in Runs, Begin(r) \/ EndStep(r)
        PROVE  keyed' = keyed
    BY <2>1, EdgeMoves
  <2> QED BY <2>1, SetupMoves, StepKinds
     DEF WorldStep, BaoStarts, BaoStops, Expires, Stores, Stays, OpenDatabase, migrateOnce,
         ShowCredential, CommitCredential, vars
<1>1. ASSUME UNCHANGED <<bao, told, kv, tokens, dir, key>>
      PROVE  Grows
  BY <1>1, <1>9 DEF Grows
<1>2. ASSUME NEW i \in Inits, Seals(i)
      PROVE  Grows
  BY <1>1, <1>2 DEF Seals, SealKeyFound, SealKeyCreated, SealKeyWritten, SealKeySynced, disk, backend
<1>3. ASSUME NEW i \in Inits, Initializes(i)
      PROVE  Grows
  BY <1>9, <1>0, <1>3 DEF Initializes, WaitHealth, ShowSealKey, InitBao, Answers, disk, backend, Grows,
       TypeSeal, TypeRest
<1>4. ASSUME NEW i \in Inits, SetsUp(i)
      PROVE  Grows
  <2>1. UNCHANGED <<bao, told, key>>
    BY <1>4 DEF SetsUp, EnsureKVMount, WritePluginPolicy, CheckPluginToken, CreatePluginToken,
         LinkTokenFile, FillTokenFile, RenameTokenFile, PluginHealthy, SigningKeyRead,
         SigningKeySent, SigningKeyStored, backend
  <2>2. (kv.mount => kv'.mount) /\ (kv.policy => kv'.policy)
    BY <1>0, <1>4 DEF SetsUp, EnsureKVMount, WritePluginPolicy, CheckPluginToken, CreatePluginToken,
         LinkTokenFile, FillTokenFile, RenameTokenFile, PluginHealthy, SigningKeyRead,
         SigningKeySent, SigningKeyStored, backend, TypeToken
  <2>3. tokens.issued \subseteq tokens'.issued
    BY <1>0, <1>4 DEF SetsUp, EnsureKVMount, WritePluginPolicy, CheckPluginToken, CreatePluginToken,
         LinkTokenFile, FillTokenFile, RenameTokenFile, PluginHealthy, SigningKeyRead,
         SigningKeySent, SigningKeyStored, backend, TypeToken
  <2>4. dir.path # None => dir'.path # None
    BY <1>0, <1>4 DEF SetsUp, EnsureKVMount, WritePluginPolicy, CheckPluginToken, CreatePluginToken,
         LinkTokenFile, FillTokenFile, RenameTokenFile, PluginHealthy, SigningKeyRead,
         SigningKeySent, SigningKeyStored, disk, TypeToken
  <2> QED BY <1>9, <2>1, <2>2, <2>3, <2>4 DEF Grows
<1>5. ASSUME NEW r \in Runs, Begin(r) \/ EndStep(r)
      PROVE  Grows
  BY <1>9, <1>0, <1>5 DEF Begin, EndStep, Fails, Crash, disk, backend, TypeToken, Grows
<1>6. ASSUME NEW r \in Runs, Stays(r)
      PROVE  Grows
  <2>1. UNCHANGED <<bao, kv, tokens, dir, key>> /\ told'.root = told.root
    BY <1>0, <1>6 DEF Stays, OpenDatabase, migrateOnce, ShowCredential, CommitCredential, disk, backend,
         TypeRest
  <2> QED BY <1>9, <2>1 DEF Grows
<1>7. CASE WorldStep
  BY <1>9, <1>0, <1>7 DEF WorldStep, BaoStarts, BaoStops, Expires, Stores, disk, Grows, TypeSeal, TypeToken
<1>8. CASE UNCHANGED vars
  BY <1>1, <1>8 DEF vars, disk, backend
<1> QED BY <1>2, <1>3, <1>4, <1>5, <1>6, <1>7, <1>8, StepKinds DEF SetupStep

\* A run that takes a step is one that a run which is alone need not reckon with: it is
\* that run or no tc init, and the run was alone before.
LEMMA AloneBefore ==
  ASSUME TypeOK, KeyInv, NEW r \in Runs, NEW i \in Inits,
         pc[r] \notin Ended, pc'[r] # "idle", \A q \in Runs \ {r} : pc'[q] = pc[q],
         before'[i] = before[i], Alone(i)'
  PROVE  Alone(i) /\ (r \in Inits => r = i)
<1> USE NoneIsNoRun
<1>1. ASSUME r \in Inits, r # i
      PROVE  FALSE
  <2>1. r \in before[i]
    BY <1>1 DEF Alone
  <2> QED BY <2>1 DEF KeyInv
<1> QED BY <1>1 DEF Alone

\* A run that stays where it is keeps what it has reached.
LEMMA ReachedKept ==
  ASSUME TypeOK, Grows, NEW i \in Inits, Reached(i), pc'[i] = pc[i]
  PROVE  Reached(i)'
BY DEF Grows, Reached

\* Each step of a tc init's set-up gives that run what its next place promises.
LEMMA ReachedBySetup ==
  ASSUME TypeOK, SetUpInv, Grows, NEW i \in Inits, SetupStep(i)
  PROVE  Reached(i)'
<1> USE NoneIsNoRun
<1>0. TypeSeal /\ TypeToken /\ TypeRest /\ Reached(i)
  BY TypeGroups DEF SetUpInv
<1> DEFINE Past(at, next) == pc[i] = at /\ pc'[i] = next
<1>1. CASE Seals(i)
  <2>1. pc'[i] \in {"write", "sync", "wait"}
    BY <1>0, <1>1 DEF Seals, SealKeyFound, SealKeyCreated, SealKeyWritten, SealKeySynced, At, TypeRest
  <2> QED BY <2>1 DEF Reached, InToken, FromMount, FromPolicy, FromCheck, FromRun, FromOpen
<1>2. CASE Initializes(i)
  <2>1. \/ pc'[i] \in {"show", "init", "failed"}
        \/ pc'[i] = "mount" /\ bao'.sealedBy # None /\ told'.root
    BY <1>0, <1>2 DEF Initializes, WaitHealth, ShowSealKey, InitBao, Answers, At, TypeRest, TypeSeal,
         backend
  <2> QED BY <2>1 DEF Reached, InToken, FromMount, FromPolicy, FromCheck, FromRun, FromOpen
<1>3. CASE EnsureKVMount(i) \/ WritePluginPolicy(i)
  <2>1. \/ Past("mount", "policy") /\ kv'.mount
        \/ Past("policy", "check") /\ kv'.policy
    BY <1>0, <1>3 DEF EnsureKVMount, WritePluginPolicy, At, TypeRest, TypeToken
  <2> QED BY <1>0, <2>1 DEF Reached, Grows, InToken, FromMount, FromPolicy, FromCheck, FromRun, FromOpen
<1>4. CASE CheckPluginToken(i)
  <2>1. \/ Past("check", "token")
        \/ Past("check", "run") /\ Working # {} /\ UNCHANGED dir
    BY <1>0, <1>4 DEF CheckPluginToken, At, TypeRest, disk
  <2>2. Working # {} => dir.path # None
    BY <1>0 DEF Working, TypeToken
  <2> QED BY <1>0, <2>1, <2>2 DEF Reached, Grows, InToken, FromMount, FromPolicy, FromCheck, FromRun,
            FromOpen
<1>5. CASE CreatePluginToken(i)
  <2>1. \/ Past("token", "link") /\ i \in tokens'.issued
        \/ Past("token", "failed")
    BY <1>0, <1>5 DEF CreatePluginToken, At, TypeRest, TypeToken
  <2> QED BY <1>0, <2>1 DEF Reached, Grows, InToken, FromMount, FromPolicy, FromCheck, FromRun, FromOpen
<1>6. CASE LinkTokenFile(i) \/ FillTokenFile(i) \/ RenameTokenFile(i)
  <2>1. \/ Past("link", "fill")
        \/ Past("fill", "rename")
        \/ Past("rename", "run") /\ dir'.path # None
    BY <1>0, <1>6 DEF LinkTokenFile, FillTokenFile, RenameTokenFile, At, TypeRest, TypeToken
  <2> QED BY <1>0, <2>1 DEF Reached, Grows, InToken, FromMount, FromPolicy, FromCheck, FromRun, FromOpen
<1>7. CASE PluginHealthy(i) \/ SigningKeyRead(i) \/ SigningKeySent(i) \/ SigningKeyStored(i)
  <2>1. \/ pc[i] \in {"run", "get", "put", "again"} /\ pc'[i] \in {"get", "put", "again"}
        \/ pc[i] \in {"get", "again"} /\ pc'[i] = "open" /\ key' # None
        \/ pc[i] = "run" /\ pc'[i] = "open" /\ i \notin keyed
    BY <1>0, <1>7 DEF PluginHealthy, SigningKeyRead, SigningKeySent, SigningKeyStored, At, TypeRest,
         backend
  <2> QED BY <1>0, <2>1 DEF Reached, Grows, InToken, FromMount, FromPolicy, FromCheck, FromRun, FromOpen
<1> QED BY <1>1, <1>2, <1>3, <1>4, <1>5, <1>6, <1>7 DEF SetupStep, SetsUp

\* A tc init that is alone finds its own file at the .new name, and moves it when written.
LEMMA OwnFileBySetup ==
  ASSUME TypeOK, SetUpInv, NEW i \in Inits, Alone(i), SetupStep(i)
  PROVE  OwnFile(i)'
<1> USE NoneIsNoRun
<1>0. TypeToken /\ TypeRest /\ OwnFile(i)
  BY TypeGroups DEF SetUpInv
<1> DEFINE Past(at, next) == pc[i] = at /\ pc'[i] = next
<1>1. CASE Seals(i) \/ Initializes(i)
  <2>1. pc'[i] \in {"write", "sync", "wait", "show", "init", "failed", "mount"}
    BY <1>0, <1>1 DEF Seals, SealKeyFound, SealKeyCreated, SealKeyWritten, SealKeySynced,
         Initializes, WaitHealth, ShowSealKey, InitBao, At, TypeRest
  <2> QED BY <2>1 DEF OwnFile, FromRun, FromOpen
<1>2. CASE EnsureKVMount(i) \/ WritePluginPolicy(i) \/ CreatePluginToken(i)
  <2>1. pc'[i] \in {"policy", "check", "link", "failed"}
    BY <1>0, <1>2 DEF EnsureKVMount, WritePluginPolicy, CreatePluginToken, At, TypeRest
  <2> QED BY <2>1 DEF OwnFile, FromRun, FromOpen
<1>3. CASE CheckPluginToken(i)
  <2>1. /\ \/ Past("check", "token")
           \/ Past("check", "run") /\ Working # {}
        /\ UNCHANGED <<dir, inode>>
    BY <1>0, <1>3 DEF CheckPluginToken, At, TypeRest, disk
  <2>2. Working # {} => inode[dir.path] = "written"
    BY DEF Working
  <2> QED BY <2>1, <2>2 DEF OwnFile, FromRun, FromOpen
<1>4. CASE LinkTokenFile(i)
  <2>1. pc'[i] = "fill" /\ dir'.new = i
    BY <1>0, <1>4 DEF LinkTokenFile, At, TypeRest, TypeToken
  <2> QED BY <2>1 DEF OwnFile, FromRun, FromOpen
<1>5. CASE FillTokenFile(i)
  <2>1. Past("fill", "rename") /\ inode'[i] = "written" /\ UNCHANGED dir
    BY <1>0, <1>5 DEF FillTokenFile, At, TypeRest, TypeToken
  <2> QED BY <1>0, <2>1 DEF OwnFile, FromRun, FromOpen
<1>6. CASE RenameTokenFile(i)
  <2>1. Past("rename", "run") /\ dir'.path = dir.new /\ UNCHANGED inode
    BY <1>0, <1>6 DEF RenameTokenFile, At, TypeRest
  <2> QED BY <1>0, <2>1 DEF OwnFile, FromRun, FromOpen
<1>7. CASE PluginHealthy(i) \/ SigningKeyRead(i) \/ SigningKeySent(i) \/ SigningKeyStored(i)
  <2>1. /\ pc[i] \in {"run", "get", "put", "again"} /\ pc'[i] \in {"get", "put", "again", "open"}
        /\ UNCHANGED <<dir, inode>>
    BY <1>0, <1>7 DEF PluginHealthy, SigningKeyRead, SigningKeySent, SigningKeyStored, At, TypeRest,
         disk
  <2> QED BY <1>0, <2>1 DEF OwnFile, FromRun, FromOpen
<1> QED BY <1>1, <1>2, <1>3, <1>4, <1>5, <1>6, <1>7 DEF SetupStep, SetsUp

\* The token file's names are names of files that were made for an issued token.
LEMMA FilesStep ==
  ASSUME TypeOK, SetUpInv, Grows, [Next]_vars
  PROVE  TokenFiles'
<1> USE NoneIsNoRun
<1>0. TypeToken /\ TokenFiles
  BY TypeGroups DEF SetUpInv
<1>1. dir'.path \in {None, dir.path, dir.new}
      /\ (dir'.new \in {None, dir.new} \/ \E i \in Inits : dir'.new = i /\ pc[i] = "link")
  <2>1. ASSUME NEW i \in Inits, SetupStep(i)
        PROVE  \/ UNCHANGED dir
               \/ dir' = [path |-> dir.new, new |-> None]
               \/ dir' = [dir EXCEPT !.new = i] /\ pc[i] = "link"
    BY <2>1 DEF SetupStep, Seals, Initializes, SetsUp, disk, At,
         SealKeyFound, SealKeyCreated, SealKeyWritten, SealKeySynced, WaitHealth, ShowSealKey,
         InitBao, EnsureKVMount, WritePluginPolicy, CheckPluginToken, CreatePluginToken,
         LinkTokenFile, FillTokenFile, RenameTokenFile, PluginHealthy, SigningKeyRead,
         SigningKeySent, SigningKeyStored
  <2>2. ASSUME NEW r \in Runs, Begin(r) \/ EndStep(r) \/ Stays(r)
        PROVE  UNCHANGED dir \/ dir' = [dir EXCEPT !.new = None]
    BY <2>2 DEF Begin, EndStep, Fails, Crash, Stays, OpenDatabase, migrateOnce, ShowCredential,
       CommitCredential, disk
  <2>3. WorldStep \/ UNCHANGED vars => UNCHANGED dir
    BY DEF WorldStep, BaoStarts, BaoStops, Expires, Stores, vars, disk
  <2>4. \/ UNCHANGED dir
        \/ dir' = [path |-> dir.new, new |-> None]
        \/ dir' = [dir EXCEPT !.new = None]
        \/ \E i \in Inits : dir' = [dir EXCEPT !.new = i] /\ pc[i] = "link"
    BY <2>1, <2>2, <2>3, StepKinds
  <2> QED BY <1>0, <2>4 DEF TypeToken
<1>2. \A i \in Inits : pc[i] = "link" => i \in tokens.issued
  BY DEF SetUpInv, Reached, InToken
<1> QED BY <1>0, <1>1, <1>2 DEF TokenFiles, Grows

\* Each step preserves what the runs of tc init have set up.
LEMMA SetUpStep ==
  ASSUME TypeOK, PlaceInv, KeyInv, SetUpInv, [Next]_vars
  PROVE  SetUpInv'
<1> USE NoneIsNoRun
<1>0. Grows /\ TokenFiles' /\ TypeToken /\ TypeRest
  BY NothingTakenAway, FilesStep, TypeGroups
<1>1. ASSUME NEW i \in Inits, SetupStep(i)
      PROVE  SetUpInv'
  <2>1. /\ pc[i] \notin Ended /\ pc'[i] # "idle" /\ UNCHANGED before
        /\ \A q \in Runs \ {i} : pc'[q] = pc[q]
    BY <1>1, SetupMoves DEF Setup, Ended
  <2>2. ASSUME NEW j \in Inits
        PROVE  Reached(j)'
    BY <1>0, <1>1, <2>1, ReachedBySetup, ReachedKept DEF SetUpInv
  <2>3. ASSUME NEW j \in Inits, Alone(j)'
        PROVE  OwnFile(j)'
    BY <1>1, <2>1, <2>3, AloneBefore, OwnFileBySetup
  <2> QED BY <1>0, <2>2, <2>3 DEF SetUpInv
<1>2. ASSUME NEW r \in Runs, pc[r] \notin Ended, pc'[r] # "idle", \A q \in Runs \ {r} : pc'[q] = pc[q],
             r \in Inits => \/ pc'[r] \in {"seal", "failed", "crashed"}
                            \/ pc[r] \in FromOpen /\ pc'[r] \in FromOpen /\ UNCHANGED <<dir, inode>>,
             r \notin Inits => UNCHANGED <<dir, inode>>,
             \A j \in Inits : before'[j] = before[j] \/ (j = r /\ pc'[j] = "seal")
      PROVE  SetUpInv'
  <2>1. ASSUME NEW j \in Inits
        PROVE  Reached(j)'
    <3>1. CASE j # r
      BY <1>0, <1>2, <3>1, ReachedKept DEF SetUpInv
    <3>2. CASE j = r /\ pc'[r] \in {"seal", "failed", "crashed"}
      BY <3>2 DEF Reached, InToken, FromMount, FromPolicy, FromCheck, FromRun, FromOpen
    <3>3. CASE j = r /\ pc[r] \in FromOpen /\ pc'[r] \in FromOpen
      <4>1. Reached(j)
        BY DEF SetUpInv
      <4>2. pc'[j] \notin InToken
        BY <3>3 DEF FromOpen, InToken
      <4> QED BY <1>0, <3>3, <4>1, <4>2 DEF Reached, Grows, FromMount, FromPolicy, FromCheck, FromRun
    <3> QED BY <1>2, <3>1, <3>2, <3>3
  <2>2. ASSUME NEW j \in Inits, Alone(j)'
        PROVE  OwnFile(j)'
    <3>1. CASE j = r /\ pc'[r] \in {"seal", "failed", "crashed"}
      BY <3>1 DEF OwnFile, FromRun, FromOpen
    <3>2. CASE ~(j = r /\ pc'[r] \in {"seal", "failed", "crashed"})
      <4>1. before'[j] = before[j]
        BY <1>2, <3>2
      <4>2. Alone(j) /\ (r \in Inits => r = j)
        BY <1>2, <2>2, <4>1, AloneBefore
      <4>3. OwnFile(j) /\ UNCHANGED <<dir, inode>>
        BY <1>2, <3>2, <4>2 DEF SetUpInv
      <4>4. pc'[j] = pc[j] \/ (pc[j] \in FromOpen /\ pc'[j] \in FromOpen)
        BY <1>2, <3>2
      <4> QED BY <4>3, <4>4 DEF OwnFile, FromRun, FromOpen
    <3> QED BY <3>1, <3>2
  <2> QED BY <1>0, <2>1, <2>2 DEF SetUpInv
<1>3. ASSUME NEW r \in Runs, Begin(r)
      PROVE  SetUpInv'
  <2>1. /\ pc[r] \notin Ended /\ pc'[r] # "idle" /\ (r \in Inits => pc'[r] = "seal")
        /\ \A q \in Runs \ {r} : pc'[q] = pc[q]
        /\ UNCHANGED <<dir, inode>>
    BY <1>3, EdgeMoves DEF disk, Ended
  <2>2. \A j \in Inits : before'[j] = before[j] \/ (j = r /\ pc'[j] = "seal")
    BY <1>0, <1>3, <2>1, EdgeMoves DEF TypeRest
  <2> QED BY <1>2, <2>1, <2>2
<1>4. ASSUME NEW r \in Runs, EndStep(r)
      PROVE  SetUpInv'
  <2>1. /\ pc[r] \notin Ended /\ pc'[r] \in {"failed", "crashed"} /\ UNCHANGED before
        /\ \A q \in Runs \ {r} : pc'[q] = pc[q]
    BY <1>4, EdgeMoves DEF Begun
  <2>2. r \notin Inits => UNCHANGED <<dir, inode>>
    <3>1. r \notin Inits => pc[r] \notin InToken
      BY DEF PlaceInv, Setup, InToken
    <3> QED BY <1>4, <3>1 DEF EndStep, Fails, Crash, disk
  <2> QED BY <1>2, <2>1, <2>2
<1>5. ASSUME NEW r \in Runs, Stays(r)
      PROVE  SetUpInv'
  <2>1. /\ pc[r] \in FromOpen \ Ended /\ pc'[r] \in FromOpen /\ UNCHANGED <<before, dir, inode>>
        /\ \A q \in Runs \ {r} : pc'[q] = pc[q]
    BY <1>0, <1>5 DEF Stays, OpenDatabase, migrateOnce, ShowCredential, CommitCredential, At, Ended,
         FromOpen, disk, TypeRest
  <2>2. pc'[r] # "idle"
    BY <2>1 DEF FromOpen
  <2> QED BY <1>2, <2>1, <2>2
<1>6. CASE WorldStep \/ UNCHANGED vars
  <2>1. UNCHANGED <<pc, before, dir, inode>>
    BY <1>6 DEF WorldStep, BaoStarts, BaoStops, Expires, Stores, vars, disk
  <2>2. \A j \in Inits : Reached(j)'
    BY <1>0, <2>1, ReachedKept DEF SetUpInv
  <2>3. \A j \in Inits : Alone(j)' => OwnFile(j)'
    BY <2>1 DEF SetUpInv, Alone, OwnFile
  <2> QED BY <1>0, <2>2, <2>3 DEF SetUpInv
<1> QED BY <1>1, <1>3, <1>4, <1>5, <1>6, StepKinds

-----------------------------------------------------------------------------
(***************************************************************************)
(* The theorems.                                                           *)
(***************************************************************************)
\* BootInv holds always: each of its parts is preserved with the help of the others.
THEOREM BootInvariant == Spec => []BootInv
<1> USE NoneIsNoRun
<1>1. Init => BootInv
  <2> SUFFICES ASSUME Init PROVE BootInv
    OBVIOUS
  <2>1. TypeOK
    <3>1. TypeSeal
      BY SealFiles DEF Init, TypeSeal
    <3>2. TypeToken /\ TypeRest
      BY DEF Init, TypeToken, TypeRest, Places
    <3>3. TypeBase
      BY DEF Init, TypeBase
    <3> QED BY <3>1, <3>2, <3>3, TypeGroups
  <2>2. PlaceInv /\ SealInv /\ KeyInv
    BY DEF Init, PlaceInv, SealInv, KeyInv, Setup
  <2>3. BaseInv
    BY DEF Init, BaseInv, CredentialReachable
  <2>4. SetUpInv
    BY DEF Init, SetUpInv, TokenFiles, Reached, OwnFile, InToken, FromMount, FromPolicy, FromCheck,
       FromRun, FromOpen
  <2> QED BY <2>1, <2>2, <2>3, <2>4 DEF BootInv
<1>2. BootInv /\ [Next]_vars => BootInv'
  BY TypeStep, PlaceStep, BaseStep, SealStep, KeyStep, SetUpStep DEF BootInv
<1> QED BY <1>1, <1>2, PTL DEF Spec

\* Every state is one the types allow, in particular no database has more migrations than
\* there are, however many runs raced to open it (internal/store, migrateOnce).
THEOREM TypeCorrect == Spec => []TypeOK
<1>1. BootInv => TypeOK
  BY DEF BootInv
<1> QED BY <1>1, BootInvariant, PTL

\* The Operator can always hold the Operator Credential that counts, and the migrations ran
\* once each in their order, however many runs opened the database (BaseInv: the write lock).
THEOREM OperatorHoldsCredential == Spec => []CredentialReachable
<1>1. BootInv => CredentialReachable
  BY DEF BootInv, BaseInv
<1> QED BY <1>1, BootInvariant, PTL

\* An initialized OpenBao can be opened again, whatever runs of tc init failed or crashed
\* (EnsureSealKey), but for the one exception SealKeyReachable names.
THEOREM SealKeyNotLost == Spec => []SealKeyReachable
<1>1. BootInv => SealKeyReachable
  BY DEF BootInv, SealInv, Kept, SealKeyReachable
<1> QED BY <1>1, BootInvariant, PTL

\* A tc init that ends well leaves all the server needs, the signing key included when its
\* config keeps one in the Backend it set up (internal/cli/init.go).
THEOREM DoneLeavesAll == Spec => []DoneIsComplete
<1>1. BootInv => DoneIsComplete
  <2> SUFFICES ASSUME BootInv, NEW i \in Inits, pc[i] = "done"
               PROVE  /\ bao.sealedBy # None /\ told.root /\ kv.mount /\ kv.policy
                      /\ dir.path \in tokens.issued
                      /\ Alone(i) => inode[dir.path] = "written"
                      /\ i \in keyed => key # None
                      /\ cred # None /\ Len(schema) = Migrations
    BY DEF DoneIsComplete, Alone
  <2>1. pc[i] \in FromOpen /\ pc[i] \in FromRun /\ pc[i] \in FromCheck /\ pc[i] \in FromPolicy
        /\ pc[i] \in FromMount
    BY DEF FromOpen, FromRun, FromCheck, FromPolicy, FromMount
  <2>2. Reached(i) /\ TokenFiles /\ (Alone(i) => OwnFile(i))
    BY DEF BootInv, SetUpInv
  <2>3. cred # None /\ Len(schema) = Migrations
    BY NoneIsNoRun DEF BootInv, BaseInv
  <2> QED BY <2>1, <2>2, <2>3 DEF Reached, TokenFiles, OwnFile
<1> QED BY <1>1, BootInvariant, PTL

\* A signing key is replaced only by a run that was under way beside the one that stored it
\* (storeSigningKey).
THEOREM SigningKeyStays == Spec => SigningKeyKept
<1>1. BootInv /\ [Next]_vars => [key # None /\ key' # key => key \notin before[key']]_vars
  BY KeyChanges DEF BootInv, KeyInv, TypeOK
<1> QED BY <1>1, BootInvariant, PTL DEF Spec, SigningKeyKept
=============================================================================

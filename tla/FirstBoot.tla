----------------------------- MODULE FirstBoot -----------------------------
(***************************************************************************)
(* First boot: runs of tc init (internal/cli/init.go, internal/bootstrap)  *)
(* and of the server, which open the database (internal/store) and create  *)
(* the Operator Credential (internal/access), against an OpenBao that      *)
(* waits for its seal key file (deploy/compose.yaml).  A run may fail at   *)
(* every step or crash between two of them, and runs may overlap; a rerun  *)
(* is another run.                                                         *)
(*                                                                         *)
(* Everything a run makes up (a seal key, a plugin token, the file it      *)
(* writes that token to, an audit signing key, an Operator Credential) is  *)
(* named after the run.  tc init --dev, which has no seal and an OpenBao   *)
(* that keeps nothing, is left out.                                        *)
(***************************************************************************)
EXTENDS Naturals, Sequences

CONSTANTS
  Inits,       \* runs of tc init
  Servers,     \* runs of tc server
  None,
  Migrations   \* how many migrations the database has

Runs == Inits \cup Servers

ASSUME BootAssumption == None \notin Runs /\ Migrations \in Nat \ {0}

VARIABLES
  pc,        \* where each run is
  before,    \* history: the runs that had ended, no write under way, when a run began
  keyed,     \* runs of tc init whose config has a signing key, in the Backend they set up
  sealFile,  \* the seal key file: absent, or whose key, and whether all of it is there
  bao,       \* OpenBao: the key its process read, and the one it was initialized with
  mine,      \* the seal key each tc init read or wrote
  told,      \* what the Operator was shown: seal keys, root token, Operator Credentials
  kv,        \* the KV engine and the plugin's policy are in OpenBao
  tokens,    \* plugin tokens: issued, expired
  inode,     \* the token file each run creates: none, empty or written
  dir,       \* what the token file's name and its .new name are linked to
  key,       \* the audit signing key stored at its Location
  flight,    \* signing keys whose write OpenBao has not carried out yet
  lock,      \* who holds SQLite's write lock
  schema,    \* migrations the database went through
  version,   \* the schema version each run read last
  cred       \* the Operator Credential in the database

disk == <<sealFile, inode, dir>>
backend == <<bao, kv, tokens, key, flight>>
base == <<lock, schema, cred>>
vars == <<pc, before, keyed, mine, told, disk, backend, base, version>>

Ended == {"done", "failed", "crashed"}
Begun(r) == pc[r] \notin {"idle"} \cup Ended
InSeal == {"seal", "write", "sync"}
InToken == {"link", "fill", "rename"}

TypeOK ==
  /\ pc \in [Runs -> {"idle", "wait", "show", "init", "mount", "policy", "check", "token",
                      "run", "get", "put", "again", "open", "migrate", "credential", "commit"}
                       \cup InSeal \cup InToken \cup Ended]
  /\ before \in [Runs -> SUBSET Runs] /\ keyed \subseteq Inits
  /\ sealFile \in [key : Inits \cup {None}, whole : BOOLEAN]
  /\ bao \in [read : Inits \cup {None}, sealedBy : Inits \cup {None}]
  /\ mine \in [Inits -> Inits \cup {None}]
  /\ told \in [seal : SUBSET Inits, root : BOOLEAN, cred : SUBSET Runs]
  /\ kv \in [mount : BOOLEAN, policy : BOOLEAN]
  /\ tokens \in [issued : SUBSET Inits, expired : SUBSET Inits]
  /\ inode \in [Inits -> {"none", "empty", "written"}]
  /\ dir \in [path : Inits \cup {None}, new : Inits \cup {None}]
  /\ key \in Inits \cup {None} /\ flight \subseteq Inits
  /\ lock \in Runs \cup {None}
  /\ version \in [Runs -> 0 .. Migrations]
  /\ schema \in Seq(1 .. Migrations) /\ Len(schema) <= Migrations
  /\ cred \in Runs \cup {None}

Init ==
  /\ pc = [r \in Runs |-> "idle"] /\ before = [r \in Runs |-> {}] /\ keyed \in SUBSET Inits
  /\ sealFile = [key |-> None, whole |-> FALSE]
  /\ bao = [read |-> None, sealedBy |-> None] /\ mine = [i \in Inits |-> None]
  /\ told = [seal |-> {}, root |-> FALSE, cred |-> {}]
  /\ kv = [mount |-> FALSE, policy |-> FALSE] /\ tokens = [issued |-> {}, expired |-> {}]
  /\ inode = [i \in Inits |-> "none"] /\ dir = [path |-> None, new |-> None]
  /\ key = None /\ flight = {} /\ lock = None /\ schema = <<>>
  /\ version = [r \in Runs |-> 0] /\ cred = None

At(r, at, next) == pc[r] = at /\ pc' = [pc EXCEPT ![r] = next]

-----------------------------------------------------------------------------
(* OpenBao, outside this repository.                                        *)

\* It waits for a seal key file that is not empty, and keeps what it read.
BaoStarts ==
  /\ bao.read = None /\ sealFile.key # None /\ sealFile.whole
  /\ bao' = [bao EXCEPT !.read = sealFile.key]
  /\ UNCHANGED <<pc, before, keyed, mine, told, disk, kv, tokens, key, flight, base, version>>

BaoStops ==
  /\ bao.read # None /\ bao' = [bao EXCEPT !.read = None]
  /\ UNCHANGED <<pc, before, keyed, mine, told, disk, kv, tokens, key, flight, base, version>>

\* Initialized with one key, a process that read another one stays sealed.
Answers == bao.read # None
Sealed == bao.sealedBy \notin {None, bao.read}
Serving == Answers /\ bao.sealedBy = bao.read

\* The plugin's token in the token file reaches a lifetime's end.
Expires(i) ==
  /\ i \in tokens.issued \ tokens.expired
  /\ tokens' = [tokens EXCEPT !.expired = @ \cup {i}]
  /\ UNCHANGED <<pc, before, keyed, mine, told, disk, bao, kv, key, flight, base, version>>

\* The plugin's write of a signing key, perhaps after the run that sent it is gone.
Stores(i) ==
  /\ i \in flight /\ Serving
  /\ flight' = flight \ {i} /\ key' = i
  /\ UNCHANGED <<pc, before, keyed, mine, told, disk, bao, kv, tokens, base, version>>

-----------------------------------------------------------------------------
(* Ends of a run.                                                           *)

\* A run that ends gives back SQLite's lock: its transaction is rolled back.
freed(r) == IF lock = r THEN None ELSE lock

\* Faulty: a run that waited for OpenBao in vain takes its seal key file away again.
BadFails(r) ==
  /\ Begun(r) /\ pc' = [pc EXCEPT ![r] = "failed"] /\ lock' = freed(r)
  /\ sealFile' = IF pc[r] \in {"write", "sync"} \/ (pc[r] = "wait" /\ mine[r] = r)
                 THEN [key |-> None, whole |-> FALSE] ELSE sealFile
  /\ dir' = IF pc[r] \in InToken THEN [dir EXCEPT !.new = None] ELSE dir
  /\ UNCHANGED <<before, keyed, mine, told, inode, backend, schema, cred, version>>

\* A failed step ends the run with an error.  The seal key file is kept, except by the
\* run that could not finish writing it, and so is a token file's .new name, except by the
\* run that could not finish with it.
Fails(r) ==
  /\ Begun(r) /\ pc' = [pc EXCEPT ![r] = "failed"] /\ lock' = freed(r)
  /\ sealFile' = IF pc[r] \in {"write", "sync"} THEN [key |-> None, whole |-> FALSE] ELSE sealFile
  /\ dir' = IF pc[r] \in InToken THEN [dir EXCEPT !.new = None] ELSE dir
  /\ UNCHANGED <<before, keyed, mine, told, inode, backend, schema, cred, version>>

Crash(r) ==
  /\ Begun(r) /\ pc' = [pc EXCEPT ![r] = "crashed"] /\ lock' = freed(r)
  /\ UNCHANGED <<before, keyed, mine, told, disk, backend, schema, cred, version>>

-----------------------------------------------------------------------------
(* tc init: the seal key and sys/init.                                      *)

Begin(r) ==
  /\ At(r, "idle", IF r \in Inits THEN "seal" ELSE "open")
  /\ before' = [before EXCEPT ![r] = {q \in Runs \ flight : pc[q] \in Ended}]
  /\ UNCHANGED <<keyed, mine, told, disk, backend, base, version>>

\* EnsureSealKey: a key that is there is used, and one that is cut short refused.
SealKeyFound(i) ==
  /\ At(i, "seal", "wait") /\ sealFile.key # None /\ sealFile.whole
  /\ mine' = [mine EXCEPT ![i] = sealFile.key]
  /\ UNCHANGED <<before, keyed, told, disk, backend, base, version>>

SealKeyCreated(i) ==
  /\ At(i, "seal", "write") /\ sealFile.key = None
  /\ sealFile' = [key |-> i, whole |-> FALSE]
  /\ UNCHANGED <<before, keyed, mine, told, inode, dir, backend, base, version>>

SealKeyWritten(i) ==
  /\ At(i, "write", "sync") /\ sealFile' = [key |-> i, whole |-> TRUE]
  /\ UNCHANGED <<before, keyed, mine, told, inode, dir, backend, base, version>>

SealKeySynced(i) ==
  /\ At(i, "sync", "wait") /\ mine' = [mine EXCEPT ![i] = i]
  /\ UNCHANGED <<before, keyed, told, disk, backend, base, version>>

\* Faulty: an initialized OpenBao is taken to be set up.
BadWaitHealth(i) ==
  /\ Answers
  /\ \/ bao.sealedBy # None /\ ~Sealed /\ told.root /\ At(i, "wait", "check")
     \/ bao.sealedBy = None /\ At(i, "wait", "show")
  /\ UNCHANGED <<before, keyed, mine, told, disk, backend, base, version>>

\* WaitHealth: an initialized OpenBao must be unsealed, and the Operator must have its
\* root token; one that is not initialized is initialized by this run.
WaitHealth(i) ==
  /\ Answers
  /\ \/ bao.sealedBy # None /\ ~Sealed /\ told.root /\ At(i, "wait", "mount")
     \/ bao.sealedBy = None /\ At(i, "wait", "show")
  /\ UNCHANGED <<before, keyed, mine, told, disk, backend, base, version>>

ShowSealKey(i) ==
  /\ At(i, "show", "init") /\ told' = [told EXCEPT !.seal = @ \cup {mine[i]}]
  /\ UNCHANGED <<before, keyed, mine, disk, backend, base, version>>

\* sys/init happens once.  Its answer, the only copy of the root token, is shown, unless
\* it is lost or the run is: then no run can go on.
InitBao(i) ==
  /\ Answers /\ bao.sealedBy = None /\ bao' = [bao EXCEPT !.sealedBy = bao.read]
  /\ \/ At(i, "init", "mount") /\ told' = [told EXCEPT !.root = TRUE]
     \/ At(i, "init", "failed") /\ UNCHANGED told
  /\ UNCHANGED <<before, keyed, mine, disk, kv, tokens, key, flight, base, version>>

-----------------------------------------------------------------------------
(* tc init: what the plugin needs.                                          *)

EnsureKVMount(i) ==
  /\ Serving /\ At(i, "mount", "policy") /\ kv' = [kv EXCEPT !.mount = TRUE]
  /\ UNCHANGED <<before, keyed, mine, told, disk, bao, tokens, key, flight, base, version>>

WritePluginPolicy(i) ==
  /\ Serving /\ At(i, "policy", "check") /\ kv' = [kv EXCEPT !.policy = TRUE]
  /\ UNCHANGED <<before, keyed, mine, told, disk, bao, tokens, key, flight, base, version>>

\* The token the token file holds, if it is there in full and OpenBao accepts it.
Working == {i \in tokens.issued \ tokens.expired : dir.path = i /\ inode[i] = "written"}

\* A call that fails counts as a token that does not work.
CheckPluginToken(i) ==
  /\ \/ Serving /\ Working # {} /\ At(i, "check", "run")
     \/ At(i, "check", "token")
  /\ UNCHANGED <<before, keyed, mine, told, disk, backend, base, version>>

\* OpenBao may issue a token and its answer be lost.
CreatePluginToken(i) ==
  /\ Serving /\ tokens' = [tokens EXCEPT !.issued = @ \cup {i}]
  /\ At(i, "token", "link") \/ At(i, "token", "failed")
  /\ UNCHANGED <<before, keyed, mine, told, disk, bao, kv, key, flight, base, version>>

\* writeTokenFile: a stale .new file is removed and this run's own created, ...
LinkTokenFile(i) ==
  /\ At(i, "link", "fill")
  /\ inode' = [inode EXCEPT ![i] = "empty"] /\ dir' = [dir EXCEPT !.new = i]
  /\ UNCHANGED <<before, keyed, mine, told, sealFile, backend, base, version>>

\* ... written through its descriptor, whatever its name is by now, ...
FillTokenFile(i) ==
  /\ At(i, "fill", "rename") /\ inode' = [inode EXCEPT ![i] = "written"]
  /\ UNCHANGED <<before, keyed, mine, told, sealFile, dir, backend, base, version>>

\* ... and the name moved over the token file's: another run's file, if it is that one's.
RenameTokenFile(i) ==
  /\ At(i, "rename", "run") /\ dir.new # None
  /\ dir' = [path |-> dir.new, new |-> None]
  /\ UNCHANGED <<before, keyed, mine, told, sealFile, inode, backend, base, version>>

\* runPlugin: the plugin ran, reached OpenBao with the token in its file and was healthy;
\* the signing key follows when the config keeps it in this Backend.
PluginHealthy(i) ==
  /\ Serving /\ Working # {} /\ At(i, "run", IF i \in keyed THEN "get" ELSE "open")
  /\ UNCHANGED <<before, keyed, mine, told, disk, backend, base, version>>

\* Faulty: any error stands for an empty Location.
BadSigningKeyRead(i) ==
  /\ \/ Serving /\ key # None /\ At(i, "get", "open")
     \/ At(i, "get", "put")
  /\ UNCHANGED <<before, keyed, mine, told, disk, backend, base, version>>

\* storeSigningKey: a key that is there is kept; a new one only follows ErrNotFound.
SigningKeyRead(i) ==
  /\ Serving /\ At(i, "get", IF key # None THEN "open" ELSE "put")
  /\ UNCHANGED <<before, keyed, mine, told, disk, backend, base, version>>

SigningKeySent(i) ==
  /\ Serving /\ At(i, "put", "again") /\ flight' = flight \cup {i}
  /\ UNCHANGED <<before, keyed, mine, told, disk, bao, kv, tokens, key, base, version>>

\* The write was answered and the key is there to be read back.
SigningKeyStored(i) ==
  /\ Serving /\ i \notin flight /\ key # None /\ At(i, "again", "open")
  /\ UNCHANGED <<before, keyed, mine, told, disk, backend, base, version>>

-----------------------------------------------------------------------------
(* tc init and the server: the database and the Operator Credential.        *)

\* Faulty: the version is read before the lock is taken.
BadOpenDatabase(r) ==
  /\ version' = [version EXCEPT ![r] = Len(schema)]
  /\ \/ Len(schema) >= Migrations /\ At(r, "open", "credential")
     \/ Len(schema) < Migrations /\ At(r, "open", "migrate")
  /\ UNCHANGED <<before, keyed, mine, told, disk, backend, base>>

\* migrateOnce: with the write lock, the version is read; the last one ends the loop.
OpenDatabase(r) ==
  /\ lock = None /\ version' = [version EXCEPT ![r] = Len(schema)]
  /\ \/ Len(schema) >= Migrations /\ At(r, "open", "credential") /\ UNCHANGED lock
     \/ Len(schema) < Migrations /\ At(r, "open", "migrate") /\ lock' = r
  /\ UNCHANGED <<before, keyed, mine, told, disk, backend, schema, cred>>

\* The migration after that version and its number are committed together, and the loop
\* goes on.
migrateOnce(r) ==
  /\ At(r, "migrate", "open") /\ lock \in {r, None}
  /\ schema' = Append(schema, version[r] + 1) /\ lock' = freed(r)
  /\ UNCHANGED <<before, keyed, mine, told, disk, backend, version, cred>>

\* EnsureOperatorCredential: under the write lock, a credential that is there ends it;
\* otherwise a new one is inserted and shown, ...
ShowCredential(r) ==
  /\ lock = None
  /\ \/ cred # None /\ At(r, "credential", "done") /\ UNCHANGED <<lock, told>>
     \/ /\ cred = None /\ At(r, "credential", "commit") /\ lock' = r
        /\ told' = [told EXCEPT !.cred = @ \cup {r}]
  /\ UNCHANGED <<before, keyed, mine, disk, backend, schema, cred, version>>

\* ... and the transaction committed.
CommitCredential(r) ==
  /\ At(r, "commit", "done") /\ cred' = r /\ lock' = None
  /\ UNCHANGED <<before, keyed, mine, told, disk, backend, schema, version>>

-----------------------------------------------------------------------------
Seals(i) == SealKeyFound(i) \/ SealKeyCreated(i) \/ SealKeyWritten(i) \/ SealKeySynced(i)
Initializes(i) == WaitHealth(i) \/ ShowSealKey(i) \/ InitBao(i)
SetsUp(i) ==
  \/ EnsureKVMount(i) \/ WritePluginPolicy(i) \/ CheckPluginToken(i) \/ CreatePluginToken(i)
  \/ LinkTokenFile(i) \/ FillTokenFile(i) \/ RenameTokenFile(i)
  \/ PluginHealthy(i) \/ SigningKeyRead(i) \/ SigningKeySent(i) \/ SigningKeyStored(i)
Stays(r) == OpenDatabase(r) \/ migrateOnce(r) \/ ShowCredential(r) \/ CommitCredential(r)

Next ==
  \/ BaoStarts \/ BaoStops
  \/ \E i \in Inits : Expires(i) \/ Stores(i) \/ Seals(i) \/ Initializes(i) \/ SetsUp(i)
  \/ \E r \in Runs : Begin(r) \/ Fails(r) \/ Crash(r) \/ Stays(r)

Spec == Init /\ [][Next]_vars

-----------------------------------------------------------------------------
(* Properties.                                                              *)

\* An OpenBao that is initialized can be opened again: the key it was initialized with is
\* in the seal key file or was shown to the Operator, who was shown the file's key before
\* sys/init (internal/cli/init.go), however many runs failed before.  The exception is a
\* run told that its write of the file failed, which takes the file away (EnsureSealKey)
\* although OpenBao may have read it.
SealKeyReachable ==
  bao.sealedBy # None =>
    \/ bao.sealedBy \in told.seal
    \/ sealFile.key = bao.sealedBy
    \/ bao.sealedBy # mine[bao.sealedBy] /\ pc[bao.sealedBy] = "failed"

\* A tc init that ends well leaves all that the server needs: an initialized OpenBao whose
\* root token was shown, its KV engine and policy, a plugin token in the token file (in full,
\* unless another tc init went on beside it), a signing key if its config keeps one there,
\* every migration and an Operator Credential, whatever runs failed, crashed or went on
\* beside it (internal/cli/init.go, "run").
DoneIsComplete ==
  \A i \in Inits : pc[i] = "done" =>
    /\ bao.sealedBy # None /\ told.root /\ kv.mount /\ kv.policy
    /\ dir.path \in tokens.issued
    /\ (\A j \in Inits \ {i} : pc[j] = "idle" \/ j \in before[i]) => inode[dir.path] = "written"
    /\ i \in keyed => key # None
    /\ cred # None /\ Len(schema) = Migrations

\* A signing key that checkpoints may have been signed with is replaced only by a run
\* that was under way beside the one that stored it: a run that began after that one had
\* ended, its last write carried out or dropped, keeps it (storeSigningKey).
SigningKeyKept ==
  [][key # None /\ key' # key => key \notin before[key']]_vars

\* The Operator can always hold the Operator Credential that counts: it was shown before it
\* was stored, it is never replaced, every run that ended well showed the one that
\* is stored or none, and the migrations under it ran once each, in their order, however
\* tc init and the server raced to open the database (EnsureOperatorCredential, migrate).
CredentialReachable ==
  /\ cred # None => cred \in told.cred
  /\ \A r \in told.cred : pc[r] = "done" => cred = r
  /\ schema = [n \in 1 .. Len(schema) |-> n]

-----------------------------------------------------------------------------
\* What the source says of itself (bootstrap/openbao.go, EnsureSealKey): "the store must
\* never outlive the only key that opens it".  It does when OpenBao started with the key
\* before its Sync was reported to have failed: the file is removed, the next tc init makes
\* another key and shows that, and then initializes the OpenBao that has the first.
NeverOutlivesItsKey ==
  bao.sealedBy # None => bao.sealedBy \in told.seal \/ sealFile.key = bao.sealedBy
=============================================================================

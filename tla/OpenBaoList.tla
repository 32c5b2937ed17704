---------------------------- MODULE OpenBaoList ----------------------------
(***************************************************************************)
(* List of the OpenBao Backend Plugin                                      *)
(* (plugins/openbao/internal/openbao/openbao.go): the locations that start *)
(* with a prefix, found by walking the KV mounts that can hold one.        *)
(*                                                                         *)
(* Paths, fields and prefixes are sequences of characters.  "d" and "m"    *)
(* stand for the words data and metadata, "?" for a character that a       *)
(* location cannot hold.  A mount is [path, v2], the path with its slash;  *)
(* OpenBao's records are [mount, path, fields], without fields when the    *)
(* newest version is deleted.                                              *)
(***************************************************************************)
EXTENDS Naturals, Sequences, FiniteSets, SequencesExt

CONSTANTS
  maxListReads,  \* the records one List reads
  maxLocations   \* the locations one List returns

ASSUME LimitsAssumption == maxListReads \in Nat /\ maxLocations \in Nat

HasPrefix(s, p) == IsPrefix(p, s)
HasSuffix(s, p) == IsSuffix(p, s)
Slash == <<"/">>

\* The API paths of a mount's records and of its folders.
dataRoot(m) == IF m.v2 THEN m.path \o <<"d", "/">> ELSE m.path
listPath(m, dir) == IF m.v2 THEN m.path \o <<"m", "/">> \o dir ELSE m.path \o dir

\* The location of a field.
Location(path, field) == path \o <<"#">> \o field

\* A path a location can name, or with prefix the beginning of one.
checkPath(path, prefix) ==
  \/ path = <<>> /\ prefix
  \/ /\ path # <<>> => Head(path) # "/"
     /\ \A i \in 1 .. Len(path) - 1 : ~(path[i] = "/" /\ path[i + 1] = "/")
     /\ ~prefix => ~HasSuffix(path, Slash)
     /\ \A i \in DOMAIN path : path[i] \notin {"#", "?"}

\* A location under folder could start with prefix.
overlaps(folder, prefix) == HasPrefix(folder, prefix) \/ HasPrefix(prefix, folder)

-----------------------------------------------------------------------------
\* What OpenBao answers to LIST: the keys of the folder at an API path, folders with a
\* slash.  A deleted record keeps its key.
FirstPart(s) == IF \E i \in DOMAIN s : s[i] = "/"
                THEN SubSeq(s, 1, CHOOSE i \in DOMAIN s : s[i] = "/" /\ \A j \in 1 .. i - 1 : s[j] # "/")
                ELSE s

listKeys(store, m, path) ==
  {FirstPart(SubSeq(listPath(m, r.path), Len(path) + 1, Len(listPath(m, r.path)))) :
     r \in {q \in store : q.mount = m /\ HasPrefix(listPath(m, q.path), path)}} \ {<<>>}

\* readRecord: the fields of the record at an API path, none when there is no record.
readRecord(store, m, path) ==
  UNION {r.fields : r \in {q \in store : q.mount = m /\ dataRoot(m) \o q.path = path}}

\* The calls that may fail, by a transport error, a status or an answer that cannot be
\* read: the lookup of a path's mount, the list of the mounts, and one of those that list
\* folders and read records.
Calls == {"mountFor", "kvMounts", "records"}

\* The KV mount that holds path, from the cache or from OpenBao, for which a path that
\* is the mount's own without its slash is on the mount.  A lookup that fails, no mount,
\* and an engine that is not KV are all an error, here the empty set.
mountFor(mounts, path, failing) ==
  IF "mountFor" \in failing THEN {} ELSE {m \in mounts : HasPrefix(path \o Slash, m.path)}

\* The mounts List looks at: all, the one holding the prefix, or, after any error of its
\* lookup, those whose paths begin with it.
mountsOf(mounts, pathPrefix, failing) ==
  IF pathPrefix = <<>> THEN mounts
  ELSE IF mountFor(mounts, pathPrefix, failing) # {} THEN mountFor(mounts, pathPrefix, failing)
  ELSE {m \in mounts : HasPrefix(m.path, pathPrefix)}

\* kvMounts is asked for the list of the mounts.
asksMounts(mounts, pathPrefix, failing) ==
  pathPrefix = <<>> \/ mountFor(mounts, pathPrefix, failing) = {}

\* (Faulty variants are named Bad...: each is a slip this code could have, and a
\* property of MCRequests rejects it.)

\* The folders that walk may come to.
Dirs(store) == {<<>>} \cup UNION {Prefixes(r.path) : r \in store}

\* Only folders inside the prefix are entered, not those that lead to it.
Badwalk(store, m, prefix) ==
  LET under[dir \in Dirs(store)] ==
        LET keys    == listKeys(store, m, listPath(m, dir))
            full(k) == dataRoot(m) \o dir \o k
            folders == {k \in keys : HasSuffix(k, Slash)}
        IN  {full(k) : k \in {j \in keys \ folders : HasPrefix(full(j), prefix) /\ checkPath(full(j), FALSE)}}
              \cup UNION {under[dir \o k] : k \in {j \in folders : HasPrefix(full(j), prefix)}}
  IN  under[<<>>]

\* walk: the paths of the records it reads, those that start with the prefix, in every
\* folder that could hold one.  A key that no location can spell is skipped.
walk(store, m, prefix) ==
  LET under[dir \in Dirs(store)] ==
        LET keys    == listKeys(store, m, listPath(m, dir))
            full(k) == dataRoot(m) \o dir \o k
            folders == {k \in keys : HasSuffix(k, Slash)}
        IN  {full(k) : k \in {j \in keys \ folders : HasPrefix(full(j), prefix) /\ checkPath(full(j), FALSE)}}
              \cup UNION {under[dir \o k] : k \in {j \in folders : overlaps(full(j), prefix)}}
  IN  under[<<>>]

\* emit: the locations of the fields that begin with fieldPrefix.
emit(path, fields, fieldPrefix) ==
  {Location(path, f) : f \in {g \in fields : HasPrefix(g, fieldPrefix)}}

\* List: the locations, or a refusal, for any error but that of the lookup.
Refused == [ok |-> FALSE, locations |-> {}]

List(store, mounts, prefix, failing) ==
  LET hash        == {i \in DOMAIN prefix : prefix[i] = "#"}
      hasField    == hash # {}
      cut         == IF hasField THEN CHOOSE i \in hash : \A j \in hash : i <= j ELSE Len(prefix) + 1
      pathPrefix  == SubSeq(prefix, 1, cut - 1)
      fieldPrefix == SubSeq(prefix, cut + 1, Len(prefix))
      entered     == {m \in mountsOf(mounts, pathPrefix, failing) :
                        IF hasField THEN HasPrefix(pathPrefix, dataRoot(m))
                        ELSE overlaps(dataRoot(m), pathPrefix)}
      reads == UNION {IF hasField THEN {<<m, pathPrefix>>}
                      ELSE {<<m, p>> : p \in walk(store, m, pathPrefix)} : m \in entered}
      locations == UNION {emit(r[2], readRecord(store, r[1], r[2]), fieldPrefix) : r \in reads}
  IN  IF /\ checkPath(pathPrefix, TRUE)
         /\ "kvMounts" \in failing => ~asksMounts(mounts, pathPrefix, failing)
         /\ "records" \in failing => entered = {}
         /\ Cardinality(reads) <= maxListReads /\ Cardinality(locations) <= maxLocations
      THEN [ok |-> TRUE, locations |-> locations] ELSE Refused
=============================================================================

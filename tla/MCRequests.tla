----------------------------- MODULE MCRequests -----------------------------
(***************************************************************************)
(* The decisions the server makes on data alone, each against what it is   *)
(* for, over bounded inputs: the Policies, the paths and the requests of a *)
(* Proxy Delivery, its responses, the config files, and the locations that *)
(* the OpenBao plugin lists.  about says which of them a behaviour asks    *)
(* about, and input is the question, which may grow from step to step.     *)
(***************************************************************************)
EXTENDS FiniteSetsExt, PolicyRules, PathRules, ProxyRequest, ProxyResponse, OpenBaoList, ConfigRules

CONSTANTS
  MaxEntries,  \* bound: entries of the two Policies
  MaxPath,     \* bound: characters of a path after its slash
  MaxItems,    \* bound: headers and query parameters of a request
  MaxRecords   \* bound: records at OpenBao

VARIABLES about, input

asked == <<about, input>>

SeqsOf(S, n) == UNION {[1 .. m -> S] : m \in 0 .. n}

-----------------------------------------------------------------------------
\* Policies: the entries of the Policies "first" and "second".
Names == {"s1", "s2"}
Methods == {"GET", "POST"}
Paths == {"p", "q"}

Entries == [secret : Names, delivery : {{"reveal"}, {"proxy"}, {"reveal", "proxy"}},
            methods : {NoLimit} \cup {{m} : m \in Methods},
            paths : {NoLimit} \cup {{p} : p \in Paths}]

NoEntries == [first |-> <<>>, second |-> <<>>]

AddEntry ==
  /\ about = "policies" /\ Len(input.first) + Len(input.second) < MaxEntries
  /\ \E e \in Entries : \/ input' = [input EXCEPT !.first = Append(@, e)]
                        \/ input' = [input EXCEPT !.second = Append(@, e)]
  /\ UNCHANGED about

\* A Proxy Delivery is allowed exactly when one single entry names the Secret Name and
\* proxy and allows both the method and the path: the method of one entry and the path
\* of another do not add up, proxy is not implied by reveal, and the order in which the
\* token names its Policies changes neither the outcome nor the reason for it.
OneEntryAllows == about = "policies" =>
  LET cfg == [secrets |-> Names, upstreams |-> Names, policies |-> input]
      all == input.first \o input.second
  IN  \A s \in Names, m \in Methods, p \in Paths :
        LET ask(names) == AuthorizeProxy(cfg, names, s, m, p)
        IN  /\ ask(<<"first", "second">>).allowed <=>
                 \E i \in DOMAIN all :
                   /\ all[i].secret = s /\ "proxy" \in all[i].delivery
                   /\ all[i].methods = NoLimit \/ m \in all[i].methods
                   /\ all[i].paths = NoLimit \/ p \in all[i].paths
            /\ ask(<<"first", "second">>) = ask(<<"second", "first">>)

-----------------------------------------------------------------------------
\* Paths: one path after /proxy/{secret_name}/{upstream}.
Chars == DOMAIN unescaped

Extend ==
  /\ about = "paths" /\ Len(input) <= MaxPath
  /\ \E c \in Chars : input' = Append(input, c)
  /\ UNCHANGED about

\* The prefixes a Policy can have, as decoded segments.
PathPrefixes == {ParsePathPrefix(s).segments : s \in {t \in SeqsOf(Chars \cup {Invalid}, 3) : ParsePathPrefix(t).ok}}

\* A way an Upstream may read an escaped path: which characters separate segments,
\* and whether ;parameters are cut.  Dot segments are then carried out; the
\* result is the segments, or Out when the path climbs above where it started.
Out == << <<"out">> >>

\* The name that the part p of the path stands for.
NameOf(p, cutsParams) == PathUnescape(IF cutsParams THEN Head(Split(p, {";"})) ELSE p)

ReadPart(at, p, cutsParams) ==
  LET n == NameOf(p, cutsParams)
  IN  IF at = Out \/ p = <<>> \/ n = <<".">> THEN at
      ELSE IF n # <<".", ".">> THEN Append(at, n)
      ELSE IF at = <<>> THEN Out ELSE Front(at)

ReadPath(path, seps, cutsParams) ==
  FoldLeft(LAMBDA at, p : ReadPart(at, p, cutsParams), <<>>, Split(path, seps))

\* A path that forwardedPath lets through stays below the Upstream's base path, and one
\* that a Policy's prefix matches stays below that prefix, whether or not the Upstream
\* takes encoded slashes and backslashes for separators and cuts ;parameters.
StaysInside == about = "paths" /\ forwardedPath(input) =>
  \A seps \in {{"/"} \cup S : S \in SUBSET {"%2F", "%5C"}}, cuts \in BOOLEAN :
    LET at == ReadPath(input, seps, cuts)
    IN  /\ at # Out
        /\ \A p \in PathPrefixes : Matches(p, input) => IsPrefix(p, at)

-----------------------------------------------------------------------------
\* Requests: the Agent's request on the route of the first template; the second is that
\* of another Secret Name.
Header(name, wrap) == [kind |-> "header", name |-> name, wrap |-> wrap, field |-> "", secretIsUsername |-> FALSE]
Query(name) == [kind |-> "query", name |-> name, wrap |-> "", field |-> "", secretIsUsername |-> FALSE]
Basic(field, isUser) == [kind |-> "basic", name |-> "Authorization", wrap |-> "Basic", field |-> field,
                         secretIsUsername |-> isUser]

HeaderNames == {"Authorization", "X-Key", "Range", "Accept-Encoding", AgentTokenHeader}

Templates == {t \in {Header("Authorization", ""), Header("Authorization", "Bearer"), Header("X-Key", ""),
                     Header("Range", ""), Header(AgentTokenHeader, ""), Query("k"),
                     Basic("u", FALSE), Basic("u", TRUE)} : validTemplate(t)}

NoRequests == {[route |-> t, other |-> o, headers |-> [n \in HeaderNames |-> <<>>], query |-> <<>>] :
                 t \in Templates, o \in Templates}

Cores == AgentTokens \cup {"key", "u"}
Params == [key : {"k", "l"}, escaped : BOOLEAN, bad : BOOLEAN, core : Cores]

\* The Agent does not know the Secret, and the literal field "u" is no Agent Token.
ASSUME AgentAssumption == Secret \notin {"key", "u", "gzip", ""} /\ "u" \notin AgentTokens
HeaderValues == [wrap : {"", "Bearer"}, user : {""}, core : Cores]
                  \cup [wrap : {"Basic"}, user : Cores, core : Cores]

Size == Len(input.query) + MapThenSumSet(LAMBDA n : Len(input.headers[n]), HeaderNames)

AddHeader ==
  /\ about = "requests" /\ Size < MaxItems
  /\ \/ \E n \in {"Authorization", "X-Key"}, v \in HeaderValues :
          input' = [input EXCEPT !.headers[n] = Append(@, v)]
     \/ \E c \in Cores : input' = [input EXCEPT !.headers[AgentTokenHeader] = Append(@, Plain(c))]
  /\ UNCHANGED about

AddParam ==
  /\ about = "requests" /\ Size < MaxItems
  /\ \E p \in Params : input' = [input EXCEPT !.query = Append(@, p)]
  /\ UNCHANGED about

Slots == newSlots({input.route, input.other})
Found == presented(Slots, input)
Sent(cred) == Rewrite(input, CHOOSE p \in Found : TRUE, cred)

Oddities == SUBSET {"colon", "control"}

\* The Agent Token stays here: no place of the request to the Upstream that any Secret
\* Name's template or AgentTokenHeader defines holds one, however the Agent spelled the
\* place and whatever else it sent.
TokenStaysHere == about = "requests" /\ verifyAgentToken(Found, AgentTokens) =>
  \A o \in Oddities : LET cred == render(input.route, o)
                      IN  cred.ok => presented(Slots, Sent(cred)) = {}

\* The Upstream that is sent out finds the Secret in its template's slot, alone: nothing the
\* Agent put there goes along, no other place has it, and Redaction looks for the form it
\* is sent in and for the Secret itself.  (Range, If-Range and Accept-Encoding are not
\* reserved, and a Secret put there is lost: Rewrite sets them for itself.)
SecretPlaced(cred, out) ==
  LET slot == IF cred.query # "" THEN {p \in Range(out.query) : p.key = cred.query}
              ELSE Range(out.headers[cred.header])
  IN  /\ {cred.carried, "raw"} \subseteq cred.needles
      /\ \A n \in DOMAIN out.headers \ {cred.header} :
           \A v \in Range(out.headers[n]) : Secret \notin {v.core, v.user}
      /\ cred.header \notin {"Range", "If-Range", "Accept-Encoding"} =>
           /\ Cardinality(slot) = 1 /\ \A v \in slot : v.core = Secret \/ v.user = Secret
           /\ cred.query # "" => Cardinality({i \in DOMAIN out.query : out.query[i].key = cred.query}) = 1
           /\ cred.header # "" => Len(out.headers[cred.header]) = 1

SecretInItsSlot == about = "requests" /\ verifyAgentToken(Found, AgentTokens) =>
  \A o \in Oddities : LET cred == render(input.route, o)
                      IN  cred.ok => SecretPlaced(cred, Sent(cred))

\* Each credential is where it belongs when Rewrite is done, and nowhere else.
CredentialsInPlace == TokenStaysHere /\ SecretInItsSlot

-----------------------------------------------------------------------------
\* Responses: what an Upstream answers.
ResponseHeaders == [name : {"Server", "Cache-Control"} \cup Forms, value : {"plain", "Secret"}]
UpTo(S, n) == UNION {kSubset(k, S) : k \in 0 .. n}
SomeHeaders == UpTo(ResponseHeaders, 2)

Responses == [early : SeqsOf(UpTo(ResponseHeaders, 1), 1), fields : SomeHeaders, trailers : UpTo(ResponseHeaders, 1),
              encodings : SeqsOf({"gzip", "identity", "br"}, 2), bodyless : BOOLEAN]

\* What the Agent is sent for the Upstream's response res has nothing of the Secret
\* beside the body, and no body that Redaction could not read.
Clean(res) ==
  LET sent == Delivered(res)
      main == IF decodeBody(res) = Unreadable THEN Len(sent) ELSE Len(sent) - 1
  IN  /\ \A i \in DOMAIN sent :
           /\ \A f \in sent[i].fields : f.value # "Secret" /\ f.name \notin Forms
           /\ sent[i].trailer \cap Forms = {}
      /\ noStore \in sent[main].fields
      /\ ~res.bodyless /\ decodeBody(res) # Unreadable => Range(decodeBody(res)) \subseteq {"identity"}

\* Nothing of the Secret slips past Redaction beside the body: no header or trailer that
\* the Agent is sent, of a 1xx response either, holds it in its value or, in any case,
\* in its name or is announced under such a name; no body goes out that Redaction saw
\* only encoded; and a 1xx response does not undo the ban on caching.
NothingSlipsThrough == about = "responses" => Clean(input)

-----------------------------------------------------------------------------
\* Lists: the records at OpenBao, on two mounts whose paths begin alike.
Mounts(v) == {[path |-> <<"a", "/">>, v2 |-> v[1]], [path |-> <<"a", "b", "/">>, v2 |-> v[2]]}

RecordPaths == {<<"a">>, <<"a", "b">>, <<"b", "/", "a">>, <<"a", "/", "b">>, <<"d">>, <<"?">>}
FieldNames == {<<"f">>, <<"f", "g">>}

NoStores == {[mounts |-> Mounts(v), store |-> {}] : v \in BOOLEAN \X BOOLEAN}

PutRecord ==
  /\ about = "lists" /\ Cardinality(input.store) < MaxRecords
  /\ \E m \in input.mounts, p \in RecordPaths, fs \in {FieldNames, {<<"f">>}, {}} :
       /\ fs = {} => m.v2
       /\ ~\E r \in input.store : r.mount = m /\ r.path = p
       /\ input' = [input EXCEPT !.store = @ \cup {[mount |-> m, path |-> p, fields |-> fs]}]
  /\ UNCHANGED about

\* The locations that name something, and how they begin.
Locations(store) == UNION {{Location(dataRoot(r.mount) \o r.path, f) : f \in r.fields} :
                             r \in {q \in store : checkPath(dataRoot(q.mount) \o q.path, FALSE)}}

Beginnings(store) == UNION {{SubSeq(l, 1, n) : n \in 0 .. Len(l)} : l \in Locations(store)}

\* What List is to return for the prefix p, ...
Wanted(store, mounts, p) ==
  {l \in Locations(store) : HasPrefix(l, p) /\ \A m \in mounts : m.path = p \o Slash => HasPrefix(l, m.path)}

\* ... and when the lookup of p's mount fails: what is on the mounts whose paths begin
\* with p, and so nothing when p is a path on a mount.
Beneath(store, mounts, p) ==
  {l \in Locations(store) : HasPrefix(l, p) /\ \E m \in mounts : HasPrefix(m.path, p) /\ HasPrefix(l, m.path)}

Listed(store, mounts, p, failing) ==
  LET got == List(store, mounts, p, failing)
      due == IF "mountFor" \in failing THEN Beneath(store, mounts, p) ELSE Wanted(store, mounts, p)
  IN  IF got.ok THEN got.locations = due
      ELSE \/ failing \cap {"kvMounts", "records"} # {}
           \/ Cardinality(store) > maxListReads \/ Cardinality(due) > maxLocations

\* List returns every location that starts with the prefix, and nothing else, on mounts
\* of both versions, for a prefix that ends in a mount's path, in its data or metadata
\* segment, in a folder, a record or a field.  A prefix that is one mount's path but for
\* the slash lists that mount alone.  Whichever of its calls fail, it returns no less and
\* nothing else without an error, unless the lookup of the prefix's mount is what fails:
\* then it is as if no mount held the prefix.  Only the limits and the other calls make
\* it refuse.
ListsExactly == about = "lists" =>
  \A p \in Beginnings(input.store), failing \in SUBSET Calls : Listed(input.store, input.mounts, p, failing)

\* What the source says of itself (openbao.go, List): "List returns every location
\* starting with prefix."  Not when the lookup fails: the error is dropped, and a prefix
\* on a mount lists nothing, as one under which there is nothing does.
ListsEvery == about = "lists" =>
  \A p \in Beginnings(input.store), failing \in SUBSET Calls :
    LET got == List(input.store, input.mounts, p, failing)
    IN  got.ok => Wanted(input.store, input.mounts, p) \subseteq got.locations

-----------------------------------------------------------------------------
\* Config files.
Ref(i) == IF i = 0 THEN None ELSE [backend |-> "p", location |-> i]
Locs == 1 .. 4
Addrs == {[ip |-> "any", port |-> 80], [ip |-> "loopback", port |-> 80], [ip |-> "host", port |-> 80],
          [ip |-> "loopback", port |-> 81], [ip |-> "any", port |-> 0]}

File(secrets, policy, admin, agent, signing) ==
  [plugins |-> {"p"}, secrets |-> secrets, policy |-> policy, admin |-> admin, agent |-> agent, signing |-> signing]
NoAdmin == [listen |-> None, tls |-> None]
AgentAt(listen, socket, tls) == [listen |-> listen, socket |-> socket, tls |-> tls]
SecretAt(i) == [backend |-> "p", location |-> i, preset |-> "ok", template |-> None, upstreams |-> None]
AcmeWith(account, hmac, dns) ==
  [challenge |-> IF dns = None THEN "tls-alpn-01" ELSE "dns-01", httpListen |-> None,
   accountKey |-> Ref(account), hmacKey |-> Ref(hmac), dns |-> dns]

Credentials(k) == [provider |-> "route53", settings |-> "ok",
                   credentials |-> [c \in {"access_key_id", "secret_access_key"} |->
                                      Ref(IF c = "access_key_id" THEN 3 ELSE k)]]

Pairs == [certificate : {Ref(i) : i \in Locs}, key : {Ref(i) : i \in Locs}, clientCA : {"ok"}]
Acmes == {AcmeWith(i, j, d) : i \in Locs, j \in {0, 3, 4},
            d \in {None} \cup {Credentials(k) : k \in {3, 4}}}

\* Every way to place the Courier Keys and one Secret Name on four locations.
KeySecrets(s) == IF s = 0 THEN <<>> ELSE [n \in {"s1"} |-> SecretAt(s)]
KeyAdmin(pair) == IF pair = None THEN NoAdmin ELSE [listen |-> [ip |-> "any", port |-> 8300], tls |-> pair]
KeyAgent(k, acme) ==
  IF k = 0 THEN AgentAt(None, "own", None)
  ELSE AgentAt([ip |-> "any", port |-> 443], None, [certificate |-> Ref(1), key |-> Ref(k), acme |-> acme])

KeyFiles ==
  {File(KeySecrets(s), <<>>, KeyAdmin(pair), KeyAgent(k, acme), Ref(g)) :
    s \in 0 .. 4, k \in 0 .. 4, acme \in Acmes \cup {None}, pair \in Pairs \cup {None}, g \in 0 .. 4}

\* Every choice of addresses.
Listeners == [agent : Addrs \cup {None}, admin : Addrs \cup {None}, http : Addrs \cup {None}, signing : {0, 4},
            socket : {None, "own", "admin socket"}, tls : {"none", "pair", "acme"}, ca : {"ok", "bad"}]

ListenAdmin(c) ==
  IF c.admin = None THEN NoAdmin
  ELSE [listen |-> c.admin, tls |-> [certificate |-> Ref(1), key |-> Ref(2), clientCA |-> c.ca]]
ListenAgent(c) ==
  AgentAt(c.agent, c.socket,
          IF c.tls = "none" THEN None
          ELSE [certificate |-> Ref(1), key |-> Ref(2),
                acme |-> IF c.tls = "pair" THEN None
                         ELSE [AcmeWith(3, 0, None) EXCEPT !.challenge = "http-01", !.httpListen = c.http]])

ListenFiles == {File(<<>>, <<>>, ListenAdmin(c), ListenAgent(c), Ref(c.signing)) : c \in Listeners}

\* Every Secret Name with every Policy of up to two entries.
PolicyEntries == [secret : Names, delivery : {{}, {"proxy"}, {"reveal"}, {"proxy", "reveal"}},
                  limits : {None, "ok", "bad"}]
SecretRecords == [backend : {"p", "q"}, location : {1, None}, preset : {None, "ok", "bad"},
                  template : {None, "ok", "bad"}, upstreams : {None, "ok", "bad"}]
SecretFiles ==
  {File([n \in {"s1"} |-> s], p, NoAdmin, AgentAt(None, None, None), None) :
    s \in SecretRecords,
    p \in SeqsOf(PolicyEntries, 1) \cup {<<[secret |-> "s1", delivery |-> {"reveal"}, limits |-> None], e>> : e \in PolicyEntries}}

Distinct(f) ==
  courierKeys(f) \cup (IF f.admin.tls = None THEN {}
                       ELSE {<<"admin.certificate", f.admin.tls.certificate>>, <<"admin.key", f.admin.tls.key>>})

\* A file that never lets ACME overwrite a key, an Agent receive one, or a request fall
\* into a hole.
Sound(f) ==
  LET pair(k) == CASE k[1] = "admin.certificate" -> "certificate" [] k[1] = "admin.key" -> "key" [] OTHER -> k[1]
      all == Distinct(f) \cup
               (IF f.agent.tls = None THEN {}
                ELSE {<<"certificate", f.agent.tls.certificate>>, <<"key", f.agent.tls.key>>})
      acme == IF f.agent.tls = None THEN None ELSE f.agent.tls.acme
      http == IF acme = None \/ acme.challenge # "http-01" THEN None ELSE httpListen(acme)
  IN  /\ \A k, l \in all : k[2] = l[2] => /\ pair(k) = pair(l)
                                          /\ k = l \/ SharesAgentCertificate(f)
      /\ \A k \in all, n \in DOMAIN f.secrets :
           <<f.secrets[n].backend, f.secrets[n].location>> # <<k[2].backend, k[2].location>>
      /\ ~sameBind(f.agent.listen, f.admin.listen)
      /\ ~sameBind(http, f.agent.listen) /\ ~sameBind(http, f.admin.listen)
      /\ \A r \in newRoutes(f) : r.template = "ok"
      /\ \A i \in DOMAIN f.policy : "proxy" \in f.policy[i].delivery =>
           \E r \in newRoutes(f) : r.secret = f.policy[i].secret
      /\ Served(f.agent) => f.signing # None

\* A file that Load accepts is sound: two Courier Keys share a location only where the
\* admin listener shares the Agent API's whole pair, no Secret Name is at the location of
\* one, no two listeners bind the same socket, every route has a template, every Proxy
\* Delivery a Policy allows has a route, and Deliveries come with a signing key.
AcceptedIsSound == about = "files" /\ validate(input) => Sound(input)

-----------------------------------------------------------------------------
FirstQuestion ==
  \/ about = "policies" /\ input = NoEntries
  \/ about = "paths" /\ input = <<"/">>
  \/ about = "requests" /\ input \in NoRequests
  \/ about = "responses" /\ input \in Responses
  \/ about = "lists" /\ input \in NoStores
  \/ about = "files" /\ input \in KeyFiles
  \/ about = "files" /\ input \in ListenFiles
  \/ about = "files" /\ input \in SecretFiles

NextQuestion == AddEntry \/ Extend \/ AddHeader \/ AddParam \/ PutRecord

Questions == FirstQuestion /\ [][NextQuestion]_asked
=============================================================================

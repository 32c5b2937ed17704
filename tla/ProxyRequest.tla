---------------------------- MODULE ProxyRequest ----------------------------
(***************************************************************************)
(* What a Proxy Delivery does to the Agent's request                       *)
(* (internal/agentapi/proxy.go): where it looks for the Agent Token, and   *)
(* the request it sends to the Upstream, with the Secret where the         *)
(* Injection Template (internal/config/config.go) puts it.                 *)
(*                                                                         *)
(* A header value is [wrap, user, core]: a core within the literal text    *)
(* wrap, or for wrap "Basic" the encoded pair user:core.  A query          *)
(* parameter is [key, escaped, bad, core]: its decoded name, whether the   *)
(* name is spelled with escapes, and whether the pair does not parse.  A   *)
(* template is [kind, name, wrap, field, secretIsUsername]; field is the   *)
(* literal field of a basic_auth one.                                      *)
(***************************************************************************)
EXTENDS Naturals, Sequences, SequencesExt

CONSTANTS
  AgentTokens,  \* what looks like an Agent Token: it has the prefix
  Secret        \* the Secret of the route

\* What Rewrite and extract put in place of a value is no Agent Token, and the Secret of
\* the route is not shaped like one (so that the two can be told apart).
ASSUME TokensAssumption == AgentTokens \cap {Secret, "none", "gzip", ""} = {}

AgentTokenHeader == "X-Tc-Agent-Token"
reservedHeaders == {"Connection", "Content-Length", "Host", "Keep-Alive", "Proxy-Authenticate",
                    "Proxy-Authorization", "Proxy-Connection", "Te", "Trailer",
                    "Transfer-Encoding", "Upgrade", AgentTokenHeader}

-----------------------------------------------------------------------------
\* The templates config.Load accepts.  (A basic_auth template puts the Secret in one
\* whole field, in Authorization.)
validTemplate(t) ==
  CASE t.kind = "header" -> t.name # "" /\ t.name \notin reservedHeaders
    [] t.kind = "query" -> t.name # ""
    [] t.kind = "basic" -> t.name = "Authorization" /\ t.wrap = "Basic" /\ t.field # ":"
    [] OTHER -> FALSE

\* newSlots: the credential slots of every Secret Name's template.
newSlots(templates) ==
  [headers   |-> {t \in templates : t.kind = "header"},
   queries   |-> {t.name : t \in {u \in templates : u.kind = "query"}},
   basicAuth |-> {t \in templates : t.kind = "basic"}]

\* extract: what sits where the Secret would in the value v under the header template t.
\* (A template without literal text takes the whole value.)
extract(v, t) == IF v.wrap = t.wrap THEN v.core ELSE "none"

extractBasicAuth(v, t) ==
  CASE v.wrap # "Basic" -> "none"
    [] t.secretIsUsername /\ v.core = t.field -> v.user
    [] ~t.secretIsUsername /\ v.user = t.field -> v.core
    [] OTHER -> "none"

\* What the value v of the header name presents: in a slot only something shaped like
\* an Agent Token counts, in AgentTokenHeader everything does.
tokensIn(slots, name, v) ==
  IF name = AgentTokenHeader THEN {v.core}
  ELSE AgentTokens \cap
         ({extract(v, t) : t \in {u \in slots.headers : u.name = name}}
            \cup (IF name = "Authorization"
                  THEN {extractBasicAuth(v, t) : t \in slots.basicAuth} ELSE {}))

\* authenticateProxy: every place that presents an Agent Token, with the token.
presented(slots, req) ==
  (UNION { UNION { {[header |-> n, query |-> "", at |-> i, tok |-> k] :
                      k \in tokensIn(slots, n, req.headers[n][i])} : i \in DOMAIN req.headers[n]} :
           n \in DOMAIN req.headers})
  \cup
  { [header |-> "", query |-> req.query[i].key, at |-> i, tok |-> req.query[i].core] :
      i \in {j \in DOMAIN req.query : /\ ~req.query[j].bad
                                      /\ req.query[j].key \in slots.queries
                                      /\ req.query[j].core \in AgentTokens} }

\* verifyAgentToken: the one Agent Token presented, which authenticates.
verifyAgentToken(found, valid) == \E p \in found : found = {p} /\ p.tok \in valid

-----------------------------------------------------------------------------
\* render and renderBasicAuth: the credential for the Secret, with the forms of it that
\* the request carries and that Redaction looks for.  oddities are what the Secret
\* contains: a control character, which a header refuses, or a colon, which a username does.
Failed == [ok |-> FALSE]

render(t, oddities) ==
  CASE t.kind = "basic" /\ t.secretIsUsername /\ "colon" \in oddities -> Failed
    [] t.kind = "header" /\ "control" \in oddities -> Failed
    [] OTHER ->
         [ok |-> TRUE,
          header |-> IF t.kind = "query" THEN "" ELSE t.name,
          query |-> IF t.kind = "query" THEN t.name ELSE "",
          value |-> [wrap |-> t.wrap,
                     user |-> IF t.kind # "basic" THEN "" ELSE IF t.secretIsUsername THEN Secret ELSE t.field,
                     core |-> IF t.kind = "basic" /\ t.secretIsUsername THEN t.field ELSE Secret],
          carried |-> CASE t.kind = "basic" -> "base64" [] t.kind = "query" -> "escaped" [] OTHER -> "raw",
          needles |-> CASE t.kind = "basic" -> {"raw", "base64"}
                        [] t.kind = "query" -> {"raw", "escaped"} [] OTHER -> {"raw"}]

\* The query without the parameters in drop, in order.
Without(query, drop) == FoldLeft(LAMBDA kept, p : IF p \in drop THEN kept ELSE Append(kept, p), <<>>, query)

\* (Faulty variants are named Bad...: each is a slip this code could have, and a
\* property of MCRequests rejects it.)
BadwithoutParam(query, name) == Without(query, {p \in Range(query) : p.key = name /\ ~p.escaped})
withoutParam(query, name) == Without(query, {p \in Range(query) : p.key = name})

\* ReverseProxy drops the parameters it cannot parse, and spells the others anew when
\* there was one.
cleanQuery(query) ==
  LET parsed == Without(query, {p \in Range(query) : p.bad})
  IN  IF parsed = query THEN query ELSE [i \in DOMAIN parsed |-> [parsed[i] EXCEPT !.escaped = FALSE]]

Del(headers, names) == [n \in DOMAIN headers |-> IF n \in names THEN <<>> ELSE headers[n]]
Set(headers, name, v) == [n \in DOMAIN headers |-> IF n = name THEN <<v>> ELSE headers[n]]
Plain(core) == [wrap |-> "", user |-> "", core |-> core]

\* The credential is added to what the Agent sent.
BadRewrite(req, from, cred) ==
  LET query0 == cleanQuery(req.query)
      query1 == IF from.query # "" THEN withoutParam(query0, from.query) ELSE query0
      hdrs0  == Del(req.headers, {AgentTokenHeader, from.header})
      hdrs1  == IF cred.header # "" THEN Set(hdrs0, cred.header, cred.value) ELSE hdrs0
      param  == [key |-> cred.query, escaped |-> FALSE, bad |-> FALSE, core |-> cred.value.core]
  IN  [headers |-> Del(Set(hdrs1, "Accept-Encoding", Plain("gzip")), {"Range", "If-Range"}),
       query   |-> IF cred.query # "" THEN Append(query1, param) ELSE query1]

\* Rewrite: the request for the Upstream, from the Agent's, the place its token came from
\* and the credential.
Rewrite(req, from, cred) ==
  LET query0 == cleanQuery(req.query)
      query1 == IF from.query # "" THEN withoutParam(query0, from.query) ELSE query0
      hdrs0  == Del(req.headers, {AgentTokenHeader, from.header})
      hdrs1  == IF cred.header # "" THEN Set(hdrs0, cred.header, cred.value) ELSE hdrs0
      param  == [key |-> cred.query, escaped |-> FALSE, bad |-> FALSE, core |-> cred.value.core]
  IN  [headers |-> Del(Set(hdrs1, "Accept-Encoding", Plain("gzip")), {"Range", "If-Range"}),
       query   |-> IF cred.query # "" THEN Append(withoutParam(query1, cred.query), param) ELSE query1]
=============================================================================

--------------------------- MODULE ProxyResponse ---------------------------
(***************************************************************************)
(* What a Proxy Delivery does to the Upstream's response                   *)
(* (internal/agentapi/proxy.go): the body is made plain bytes for          *)
(* Redaction, and the redactingWriter masks the Secret in the headers of   *)
(* each response, 1xx included, and in the trailers.  The body itself is   *)
(* Redact's.                                                               *)
(*                                                                         *)
(* A header is [name, value]; a name or a value is "plain", or holds the   *)
(* Secret as it is ("Secret") or in another case ("sEcret").               *)
(***************************************************************************)
EXTENDS Naturals, Sequences, SequencesExt

Forms == {"Secret", "sEcret"}

\* (Faulty variants are named Bad...: each is a slip this code could have, and a
\* property of MCRequests rejects it.)

\* Names are compared as they are; HTTP/2 lowercases them.
BadnamesSecret(name) == name = "Secret"

namesSecret(name) == name \in Forms

\* redact.String: what a value becomes.
mask(value) == IF value = "Secret" THEN "plain" ELSE value

\* redactHeader: the header map h, with the names that its Trailer announces.
redactHeader(h) ==
  [fields  |-> {[name |-> f.name, value |-> mask(f.value)] : f \in {g \in h.fields : ~namesSecret(g.name)}},
   trailer |-> {n \in h.trailer : ~namesSecret(n)}]

\* WriteHeader: a final response is kept out of caches, whatever the Upstream says.
noStore == [name |-> "Cache-Control", value |-> "no-store"]

WriteHeader(code, h) ==
  IF code < 200 THEN redactHeader(h)
  ELSE [redactHeader(h) EXCEPT !.fields = {f \in @ : f.name # "Cache-Control"} \cup {noStore}]

\* finish: the trailers, which are in the header map by then.
finish(h) == redactHeader(h)

\* decodeBody: the encodings left for the Agent to decode, or a refusal.
Unreadable == <<"unreadable">>

decodeBody(res) ==
  LET coded == {i \in DOMAIN res.encodings : res.encodings[i] # "identity"}
  IN  CASE res.bodyless -> res.encodings
        [] coded = {} -> res.encodings
        [] \E i \in coded : coded = {i} /\ res.encodings[i] = "gzip" -> <<>>
        [] OTHER -> Unreadable

\* The header maps the Agent is sent, in order: for each 1xx, for the response, for its
\* trailers.  A response that is refused is an error of the server's own.
Delivered(res) ==
  LET early == [i \in DOMAIN res.early |-> WriteHeader(103, [fields |-> res.early[i], trailer |-> {}])]
      final == IF decodeBody(res) = Unreadable
               THEN << WriteHeader(502, [fields |-> {}, trailer |-> {}]) >>
               ELSE << WriteHeader(200, [fields |-> res.fields, trailer |-> {f.name : f \in res.trailers}]),
                       finish([fields |-> res.trailers, trailer |-> {}]) >>
  IN  early \o final
=============================================================================

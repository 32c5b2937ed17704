---------------------------- MODULE ConfigRules ----------------------------
(***************************************************************************)
(* What config.Load (internal/config/config.go) accepts: the Secret Names, *)
(* the Policies, the listeners and the Courier Keys, which refer to each   *)
(* other and are checked in that order.                                    *)
(*                                                                         *)
(* A file is [plugins, secrets, policy, admin, agent, signing]; None is a  *)
(* setting left out.  A Courier Key is its reference [backend, location].  *)
(* Single values are "ok" or "bad", "bad" for whatever their own syntax    *)
(* check refuses (names, URLs, durations, templates, CA files).            *)
(***************************************************************************)
EXTENDS Naturals, Sequences, FiniteSets, SequencesExt

CONSTANT None

ASSUME NoneAssumption == None \notin {"ok", "bad"}

-----------------------------------------------------------------------------
\* A Secret Name [backend, location, preset, template, upstreams] of the file, as Load
\* stores it: a Preset brings its own template and Upstreams, which the file's replace.
secretName(s) ==
  [s EXCEPT !.template = IF s.preset # None THEN "ok" ELSE @,
            !.upstreams = IF s.preset # None /\ @ = None THEN "ok" ELSE @]

\* (Faulty variants are named Bad...: each is a slip this code could have, and a
\* property of MCRequests rejects it.)
validSecret(s, plugins) ==
  /\ s.backend \in plugins /\ s.location # None
  /\ \/ s.preset = "ok" /\ s.template = None /\ s.upstreams # "bad"
     \/ s.preset = None /\ s.template = None /\ s.upstreams = None
     \/ s.preset = None /\ s.template = "ok" /\ s.upstreams = "ok"

\* validateLimits: methods and paths limit Proxy Delivery, and an empty list is refused.
validateLimits(e) ==
  e.limits # None => e.limits = "ok" /\ "proxy" \in e.delivery

\* A Policy [secret, delivery, limits]* on its own.
validPolicy(entries) ==
  /\ \A i, j \in DOMAIN entries : i # j => entries[i].secret # entries[j].secret
  /\ \A i \in DOMAIN entries : /\ entries[i].delivery # {}
                               /\ entries[i].delivery \subseteq {"proxy", "reveal"}
                               /\ validateLimits(entries[i])

\* A Policy against the Secret Names.
policyFits(entries, secrets) ==
  \A i \in DOMAIN entries :
    /\ entries[i].secret \in DOMAIN secrets
    /\ "proxy" \in entries[i].delivery => secrets[entries[i].secret].upstreams # None

-----------------------------------------------------------------------------
\* Two addresses [ip, port] would bind the same socket.  Port 0 is any free port.
sameBind(a, b) ==
  /\ a # None /\ b # None
  /\ a.port = b.port /\ a.port # 0
  /\ a.ip = "any" \/ b.ip = "any" \/ a.ip = b.ip

\* A Courier Key is never delivered to Agents.
validateCourierKey(k, plugins, secrets) ==
  /\ k # None /\ k.backend \in plugins
  /\ \A n \in DOMAIN secrets : <<secrets[n].backend, secrets[n].location>> # <<k.backend, k.location>>

\* The remote admin listener: admin is [listen, tls], tls [certificate, key, clientCA].
validateListener(admin, plugins, secrets) ==
  \/ admin.listen = None /\ admin.tls = None
  \/ /\ admin.listen # None /\ admin.tls # None
     /\ validateCourierKey(admin.tls.certificate, plugins, secrets)
     /\ validateCourierKey(admin.tls.key, plugins, secrets)
     /\ admin.tls.certificate # admin.tls.key /\ admin.tls.clientCA = "ok"

DefaultACMEHTTPListen == [ip |-> "any", port |-> 80]
httpListen(acme) == IF acme.httpListen = None THEN DefaultACMEHTTPListen ELSE acme.httpListen

\* dns is [provider, credentials, settings]: every credential of the provider, and no
\* other, is a Courier Key; settings are the rest.
DNSProviders == [p \in {"cloudflare", "route53", "azure", "google"} |->
                   CASE p = "cloudflare" -> {"api_token"} [] p = "azure" -> {"client_secret"}
                     [] p = "route53" -> {"access_key_id", "secret_access_key"}
                     [] OTHER -> {"service_account_key"}]

validateDNS(dns, plugins, secrets) ==
  /\ dns.provider \in DOMAIN DNSProviders
  /\ DOMAIN dns.credentials = DNSProviders[dns.provider]
  /\ \A c \in DOMAIN dns.credentials : validateCourierKey(dns.credentials[c], plugins, secrets)
  /\ dns.settings = "ok"

\* acme is [challenge, httpListen, accountKey, hmacKey, dns].
validateACME(acme, listen, admin, plugins, secrets) ==
  /\ IF acme.challenge = "http-01"
     THEN ~sameBind(httpListen(acme), listen) /\ ~sameBind(httpListen(acme), admin.listen)
     ELSE acme.httpListen = None
  /\ IF acme.challenge = "dns-01"
     THEN acme.dns # None /\ validateDNS(acme.dns, plugins, secrets)
     ELSE acme.dns = None
  /\ validateCourierKey(acme.accountKey, plugins, secrets)
  /\ acme.hmacKey # None => validateCourierKey(acme.hmacKey, plugins, secrets)

\* The Agent API: agent is [listen, socket, tls], tls [certificate, key, acme].
validateAgentAPI(agent, admin, plugins, secrets) ==
  /\ agent.listen = None \/ agent.socket = None
  /\ agent.tls # None => agent.listen # None
  /\ agent.listen # None => /\ agent.tls # None \/ agent.listen.ip = "loopback"
                            /\ ~sameBind(agent.listen, admin.listen)
  /\ agent.socket # "admin socket"
  /\ agent.tls # None =>
       /\ validateCourierKey(agent.tls.certificate, plugins, secrets)
       /\ validateCourierKey(agent.tls.key, plugins, secrets)
       /\ agent.tls.acme # None => validateACME(agent.tls.acme, agent.listen, admin, plugins, secrets)

Served(agent) == agent.listen # None \/ agent.socket # None

\* The audit log needs its signing key where there are Deliveries to record.
validateAudit(signing, agent, plugins, secrets) ==
  IF signing = None THEN ~Served(agent) ELSE validateCourierKey(signing, plugins, secrets)

SharesAgentCertificate(f) ==
  /\ f.admin.tls # None /\ f.agent.tls # None
  /\ f.admin.tls.certificate = f.agent.tls.certificate /\ f.admin.tls.key = f.agent.tls.key

\* The Courier Keys of a file by the names of their settings, the pair that the admin
\* listener shares with the Agent API once.
Named(name, k) == IF k = None THEN {} ELSE {<<name, k>>}

acmeKeys(acme) ==
  IF acme = None THEN {}
  ELSE Named("account_key", acme.accountKey) \cup Named("hmac_key", acme.hmacKey)
         \cup (IF acme.dns = None THEN {} ELSE {<<c, acme.dns.credentials[c]>> : c \in DOMAIN acme.dns.credentials})

BadcourierKeys(f) ==
  (IF f.agent.tls = None THEN {}
   ELSE Named("certificate", f.agent.tls.certificate) \cup Named("key", f.agent.tls.key)
          \cup acmeKeys(f.agent.tls.acme))
  \cup (IF f.admin.tls = None \/ f.agent.tls # None THEN {}
        ELSE Named("admin.certificate", f.admin.tls.certificate) \cup Named("admin.key", f.admin.tls.key))
  \cup Named("signing_key", f.signing)

courierKeys(f) ==
  (IF f.agent.tls = None THEN {}
   ELSE Named("certificate", f.agent.tls.certificate) \cup Named("key", f.agent.tls.key)
          \cup acmeKeys(f.agent.tls.acme))
  \cup (IF f.admin.tls = None \/ SharesAgentCertificate(f) THEN {}
        ELSE Named("admin.certificate", f.admin.tls.certificate) \cup Named("admin.key", f.admin.tls.key))
  \cup Named("signing_key", f.signing)

\* Each Courier Key needs a location of its own.
validateCourierKeyLocations(f) ==
  \A k, l \in courierKeys(f) : k[2] = l[2] => k = l

-----------------------------------------------------------------------------
Secrets(f) == [n \in DOMAIN f.secrets |-> secretName(f.secrets[n])]

\* Load accepts the file.
validate(f) ==
  /\ validPolicy(f.policy)
  /\ \A n \in DOMAIN f.secrets : validSecret(f.secrets[n], f.plugins)
  /\ policyFits(f.policy, Secrets(f))
  /\ validateListener(f.admin, f.plugins, Secrets(f))
  /\ validateAgentAPI(f.agent, f.admin, f.plugins, Secrets(f))
  /\ validateAudit(f.signing, f.agent, f.plugins, Secrets(f))
  /\ validateCourierKeyLocations(f)

\* newRoutes: the Upstreams it serves, each with the template of its Secret Name.
newRoutes(f) ==
  {[secret |-> n, template |-> Secrets(f)[n].template] :
     n \in {m \in DOMAIN f.secrets : Secrets(f)[m].upstreams # None}}
=============================================================================

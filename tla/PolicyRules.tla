---------------------------- MODULE PolicyRules ----------------------------
(***************************************************************************)
(* Authorize and AuthorizeProxy (internal/access/access.go): whether the   *)
(* Policies of an Agent Token allow a Delivery, and if not, why.           *)
(*                                                                         *)
(* A config is [secrets, upstreams, policies]: the Secret Names it has,    *)
(* the ones with the Upstream a request asks for, and for each Policy its  *)
(* entries in order.  An entry is [secret, delivery, methods, paths], with *)
(* NoLimit where the config sets no methods or no paths; "paths" are the   *)
(* paths its prefixes match.                                               *)
(***************************************************************************)
EXTENDS Naturals, Sequences, SequencesExt

CONSTANT NoLimit

\* The entries a token's Policies have in cfg, in the order they are tried.  A
\* Policy removed from the config has none.
EntriesOf(cfg, names) ==
  FlattenSeq([i \in DOMAIN names |->
    IF names[i] \in DOMAIN cfg.policies THEN cfg.policies[names[i]] ELSE <<>>])

Verdict(allowed, denial) == [allowed |-> allowed, denial |-> denial]

\* The next entry in the loop of AuthorizeProxy, given what came of the ones
\* before it.
within(limit, x) == limit = NoLimit \/ x \in limit

\* The method limit is not looked at when there are path limits.
BadtryEntryMethod(v, e, secret, method, path) ==
  IF v.allowed \/ e.secret # secret \/ "proxy" \notin e.delivery THEN v
  ELSE IF e.paths = NoLimit /\ ~within(e.methods, method)
       THEN Verdict(FALSE, IF v.denial = "policy" THEN "method" ELSE v.denial)
  ELSE IF ~within(e.paths, path) THEN Verdict(FALSE, "path")
  ELSE Verdict(TRUE, "none")

tryEntry(v, e, secret, method, path) ==
  IF v.allowed \/ e.secret # secret \/ "proxy" \notin e.delivery THEN v
  ELSE IF ~within(e.methods, method)
       THEN Verdict(FALSE, IF v.denial = "policy" THEN "method" ELSE v.denial)
  ELSE IF ~within(e.paths, path) THEN Verdict(FALSE, "path")
  ELSE Verdict(TRUE, "none")

AuthorizeProxy(cfg, names, secret, method, path) ==
  IF secret \notin cfg.secrets THEN Verdict(FALSE, "unknown")
  ELSE FoldLeft(LAMBDA v, e : tryEntry(v, e, secret, method, path),
                Verdict(FALSE, "policy"), EntriesOf(cfg, names))

Authorize(cfg, names, secret, mode) ==
  IF secret \notin cfg.secrets THEN Verdict(FALSE, "unknown")
  ELSE IF \E i \in DOMAIN EntriesOf(cfg, names) :
            LET e == EntriesOf(cfg, names)[i] IN e.secret = secret /\ mode \in e.delivery
       THEN Verdict(TRUE, "none")
       ELSE Verdict(FALSE, "policy")
=============================================================================

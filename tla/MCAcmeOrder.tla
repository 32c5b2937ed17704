---------------------------- MODULE MCAcmeOrder ----------------------------
(* An instance of AcmeOrder for TLC: the name could be in a zone of its    *)
(* own or in its parent, which is the one the world asks.                  *)
EXTENDS AcmeOrder, TLC

CONSTANTS sub, apex, resolver

MCZones == <<sub, apex>>
\* Nothing is configured, or a resolver that is none of the name servers.
MCResolvers == {{}, {resolver}}

Symmetric == Permutations(Authzs) \cup Permutations(Servers) \cup Permutations(Accounts)
=============================================================================

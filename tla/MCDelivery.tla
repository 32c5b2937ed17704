----------------------------- MODULE MCDelivery -----------------------------
(***************************************************************************)
(* Delivery for TLC: one Secret Name and one Policy, in a config that      *)
(* allows both Delivery modes and one that allows Proxy Delivery only.     *)
(***************************************************************************)
EXTENDS Delivery, TLC

Entry(modes) == [secret |-> "s", delivery |-> modes, methods |-> NoLimit, paths |-> NoLimit]

Config(modes) == [secrets |-> {"s"}, upstreams |-> {"s"}, policies |-> [p \in {"p"} |-> <<Entry(modes)>>]]

TwoConfigs == {Config({"reveal", "proxy"}), Config({"proxy"})}

OnePolicy == [t \in Tokens |-> <<"p">>]

CONSTANTS q1, q2

TwoRequests == {q1, q2}

\* Two requests meet only in the snapshot and at shutdown, whatever their modes.
ProxyAndReveal == q1 :> {"proxy"} @@ q2 :> {"reveal"}

=============================================================================

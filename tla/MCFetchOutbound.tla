--------------------------- MODULE MCFetchOutbound ---------------------------
(* FetchOutbound for TLC: a gateway, its sandbox subdomain, a subdomain the *)
(* operator denies, a foreign host and the metadata address.                *)
EXTENDS FetchOutbound

Gateway  == <<"net", "gw">>
Sandbox  == <<"net", "gw", "sandbox">>
Operator == <<"net", "gw", "op", "x">>
Foreign  == <<"com", "other">>
Metadata == <<"169.254.169.254">>

Https(host) == [proto |-> "https", host |-> host]

MCDenyHosts ==
  {[glob |-> TRUE, host |-> <<"net", "gw", "op">>],
   [glob |-> FALSE, host |-> <<"localhost">>],
   [glob |-> FALSE, host |-> <<"127.0.0.1">>]}

MCLocations ==
  {Https(h) : h \in {Gateway, Sandbox, Operator, Foreign, Metadata}}
    \cup {[proto |-> "http", host |-> Sandbox], NoUrl}

Ask(url, method, purpose, transport) ==
  [url |-> url, method |-> method, purpose |-> purpose, transport |-> transport]

MCRequests ==
  {Ask(Https(Gateway), "GET", "arweave", "default"),
   Ask(Https(Gateway), "POST", "cardano", "custom"),
   Ask(Https(Foreign), "GET", "ipfs", "default"),
   Ask(Https(Gateway), "GET", "webhook", "default"),
   Ask(NoUrl, "GET", "ipfs", "default"),
   Ask(Https(Gateway), "PUT", "cardano", "custom"),
   Ask(Https(<<"127.1.2.3">>), "GET", "arweave", "default"),
   Ask(Https(Operator), "GET", "ipfs", "custom")}
=============================================================================

----------------------------- MODULE MCStartup -----------------------------
(***************************************************************************)
(* Configurations for TLC: three resources, with and without a fault, and  *)
(* settings that are missing, wrong, given, or taken from the environment. *)
(***************************************************************************)
EXTENDS Startup

\* One variable has a text that reads as a reference to the other.
MCEnviron ==
    [ref \in {"${SET}", "${NESTED}"} |-> IF ref = "${SET}" THEN "good" ELSE "${SET}"]
MCNames == {"cache", "docs", "orders"}
MCTypes == [cache |-> "redis", docs |-> "mongodb", orders |-> "mysql"]
MCUnknown == [MCTypes EXCEPT !.cache = "memcached"]
MCSearch == [MCTypes EXCEPT !.orders = "elasticsearch"]

MCAddresses ==
    [cache : {"good", "${UNSET}", "${NESTED}"}, docs : {"${SET}", "bad", "no db"},
     orders : {"good", "bad"}]

MCRawConfigs ==
    [issuer : {"good", "bad"}, client_id : {"good", "${UNSET}"}, group : {"${NESTED}"},
     private_key : {"${UNSET}", "${SET}", "bad"}, wireguard : {"good", "bad"},
     types : {MCTypes, MCUnknown, MCSearch}, address : MCAddresses, metering : BOOLEAN]
=============================================================================

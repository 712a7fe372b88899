----------------------------- MODULE MCSecurity -----------------------------
\* Two limited keys of different allowance: an address, of bucket 4, and the login
\* of the same address, of bucket 2.
EXTENDS Security

MCAddress == <<"", "host">>
MCLogin == <<"login", "host">>
MCKey == {MCAddress, MCLogin}

MCCapacity == [k \in Key |-> IF k = MCAddress THEN 4 ELSE 2]
MCRate == [k \in Key |-> IF k = MCAddress THEN 2 ELSE 1]

MCRequest ==
  [path : {"/auth/login", "/rovers", "/health"}, method : {"GET", "POST"},
   id : {[ip |-> "host"]}]

MCRules == <<[endpoint |-> "login", paths |-> {"/auth/login"}, methods |-> {"POST"},
              scope |-> "ip"]>>
=============================================================================

------------------------------ MODULE MCStartup ------------------------------
(* Addresses with every registered scheme and an unknown one, with every   *)
(* kind of suffix, and addresses that lack a part.                         *)
EXTENDS Startup

Networks ==
  {"tcp", "tcp4", "tcp6", "unix", "unixpacket", "capnp", "mdcapnp", "grpc", "udp"}

Suffixes == {<<>>, <<"+", "tls">>, <<"+", "ssl">>, <<"+", "tls", "+", "x">>, <<"+", "x", "+", "tls">>}

Odd == {<<>>, <<"tcp">>, <<"tcp", "+", "tls">>, <<"://", "a">>, <<"tcp", "://">>,
        <<"+", "tls", "://", "a">>, <<"grpc", "://", "a", "://", "b">>,
        <<"tcp", "://", "a", "+", "tls">>}

SomeAddresses == {<<n>> \o x \o <<"://", "a">> : n \in Networks, x \in Suffixes} \cup Odd

=============================================================================

------------------------- MODULE MCEgressFirewall -------------------------
(* A small instance of EgressFirewall: a good document, a refused one, a good one.*)
EXTENDS EgressFirewall
MCContents == <<"a", "x", "b">>
=============================================================================

----------------------------- MODULE MCAIAChase -----------------------------
(* An instance of AIAChase: two leaves share a URL where each finds another *)
(* issuer; the one of the first is signed by a root, which one scan already *)
(* holds, and by a cross-signed CA, whose own issuer is one level too far.  *)
EXTENDS AIAChaseProofs

MCSigned == {<<"ca", "leaf">>, <<"ca2", "odd">>, <<"root", "ca">>, <<"cross", "ca">>, <<"old", "cross">>}
MCCerts == {"leaf", "odd", "ca", "ca2", "cross", "root", "old"}
MCAIA == [c \in MCCerts |->
  CASE c \in {"leaf", "odd"} -> {"u1"} [] c = "ca" -> {"u2"} [] c = "cross" -> {"u3"} [] OTHER -> {}]
MCPublished == [u \in {"u1", "u2", "u3"} |->
  CASE u = "u1" -> {"ca", "ca2"} [] u = "u2" -> {"root", "cross"} [] OTHER -> {"old"}]
MCScans == {{"leaf", "root"}, {"leaf", "odd"}}
=============================================================================

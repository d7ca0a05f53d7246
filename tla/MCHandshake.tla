------------------------------ MODULE MCHandshake ------------------------------
(* Model-checking instance of Handshake: two connections with an acceptable   *)
(* offer and the right pin, or with an offer, a suite or a pin that cannot go   *)
(* through.                                                                     *)
EXTENDS Handshake

Config(m, s, p) == [mode |-> m, suite |-> s, pin |-> p]
SomeSetups == {[c \in Conns |-> g] : g \in
    {Config(2, 1, "S"), Config(0, 1, Anyone), Config(2, 2, "S"), Config(2, 1, "T")}}
================================================================================

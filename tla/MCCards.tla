------------------------------ MODULE MCCards -------------------------------
(* Two cards for TLC, with a ROM folder and a file that have the name of one. *)
EXTENDS Cards

MCAliases == <<"sd", "sd2">>

MCPaths == {<<"a">>, <<"sd2">>, <<"sd2", "a">>}
=============================================================================

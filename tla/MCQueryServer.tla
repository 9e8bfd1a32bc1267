----------------------------- MODULE MCQueryServer -----------------------------
(* Instances of QueryServer for TLC. *)
EXTENDS QueryServer

MCDbOptions == {<<>>, <<"host">>, <<"other">>, <<"host", "other">>,
                <<"other", "host">>}
================================================================================

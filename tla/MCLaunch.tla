------------------------------ MODULE MCLaunch -------------------------------
(* The inputs of Launch: records a configuration file cannot write.        *)
EXTENDS Launch

POP(id, echo) == [id |-> <<id>>, echo |-> echo]
Runs == {<<>>, <<[limit |-> <<2>>, roots |-> <<>>]>>, <<[limit |-> <<0>>, roots |-> <<0>>]>>}

MCBuilds ==
  [ingest_url : {"", "built"}, pops : {<<>>, << <<POP("a", <<TRUE>>), POP("b", <<>>)>> >>}]

MCSidecars ==
  {[kind |-> "absent"], [kind |-> "malformed"]} \union
  [kind : {"doc"},
   doc : [ingest_url : {<<>>, <<"">>, <<"bad">>, <<"theirs">>},
          pops : {<<>>, << <<>> >>, << <<POP("c", <<>>)>> >>},
          run : Runs]]

MCLives ==
  {Failed} \union
  [kind : {"ok"}, pops : {<<>>, <<POP("d", <<TRUE>>), POP("e", <<TRUE>>)>>}, run : Runs]
=============================================================================

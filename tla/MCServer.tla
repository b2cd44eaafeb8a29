------------------------------ MODULE MCServer -------------------------------
(* Feed files for Server: scripts with every event, one meant for looping,   *)
(* and the files a server is not started with.                               *)
EXTENDS Server

MCFiles ==
  {<<"set", "drop">>, <<"halt", "set", "end">>, <<"set", "end", "set">>, <<"set", "bad">>, << >>}
==============================================================================

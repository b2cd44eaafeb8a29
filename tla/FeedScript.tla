----------------------------- MODULE FeedScript ------------------------------
(***************************************************************************)
(* A feed file as cpp/src/feed.cpp loads it: a line is what parse_line     *)
(* made of it (module FeedLine), an event or Bad.                          *)
(***************************************************************************)
EXTENDS Naturals, Sequences

Bad == "bad"
Events == {"set", "halt", "drop", "end"}

(* load_feed_stream: << >> stands for the exception it throws on a bad     *)
(* line, on a line after the end event, on a read error and on a file      *)
(* without events; otherwise the lines are the script.                     *)
load_feed_stream(lines, readError) ==
  IF \/ readError
     \/ \E k \in 1 .. Len(lines) :
          lines[k] = Bad \/ (lines[k] = "end" /\ k < Len(lines))
  THEN << >> ELSE lines
==============================================================================

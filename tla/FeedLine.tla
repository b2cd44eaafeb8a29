------------------------------ MODULE FeedLine -------------------------------
(***************************************************************************)
(* parse_line of cpp/src/feed.cpp: what a line of a feed file becomes once *)
(* the frame preflight has passed it.  An event is a tuple of its key and  *)
(* the spellings of its numbers; Rejected stands for the exception.        *)
(***************************************************************************)
EXTENDS WireCodec

Rejected == <<"rejected">>

\* to_i64: the spelling first, then the range.
to_i64(v) == is_integer_token(v) /\ \A i \in DOMAIN Body(v[1]) : Body(v[1])[i] \notin {"M", "H"}

\* Mutant: the sign of the value, not of the spelling.
NonNegativeValue(v) == Body(v[1])[1] = "-" => Body(v[1]) = <<"-", "0">>

\* Spelled without a sign: -0 is refused too.
NonNegative(v) == Body(v[1])[1] # "-"

\* The pieces of the body of an array between its commas, nested ones included.
SplitAtCommas(body) ==
    LET cuts == SetToSortSeq({j \in DOMAIN body : Kind(body[j]) = ","}, <)
        Start(k) == IF k = 1 THEN 1 ELSE cuts[k - 1] + 1
        Stop(k) == IF k > Len(cuts) THEN Len(body) ELSE cuts[k] - 1
    IN  [k \in 1 .. Len(cuts) + 1 |-> SubSeq(body, Start(k), Stop(k))]

parse_set(v) ==
    LET body == SubSeq(v, 2, Len(v) - 1)
        pieces == SplitAtCommas(body)
    IN  IF \/ Kind(v[1]) # "[" \/ body = <<>>
           \/ \E k \in 1 .. 4 : k <= Len(pieces) /\ ~(to_i64(pieces[k]) /\ NonNegative(pieces[k]))
           \/ Len(pieces) # 4
        THEN Rejected
        ELSE <<"set">> \o [k \in 1 .. 4 |-> Body(pieces[k][1])]

\* 1 .. kMaxHaltMs; "D" is a number of milliseconds past a day.
parse_halt(v) ==
    IF ~to_i64(v) \/ Body(v[1])[1] \in {"-", "0"} \/ \E i \in DOMAIN Body(v[1]) : Body(v[1])[i] = "D"
    THEN Rejected
    ELSE <<"halt_ms", Body(v[1])>>

require_true(v, event) == IF v = <<<<"lit", <<"true">>>>>> THEN event ELSE Rejected

parse_line(f, sc) ==
    IF frame_preflight(f, sc) # "none" \/ Len(sc.fields) # 1 THEN Rejected
    ELSE LET key == sc.fields[1][1]
             value == sc.fields[1][2]
         IN  CASE key = <<"set">> -> parse_set(value)
               [] key = <<"halt_ms">> -> parse_halt(value)
               [] key = <<"drop">> -> require_true(value, <<"drop">>)
               [] key = <<"end">> -> require_true(value, <<"end">>)
               [] OTHER -> Rejected
=============================================================================

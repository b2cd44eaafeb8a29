--------------------------- MODULE MCInboundFrames ---------------------------
(* Bounded inputs of InboundFrames.  The key and depth caps are small, so    *)
(* that frames meet them.                                                    *)
EXTENDS InboundFrames

Str(u) == <<"str", u>>
Num(s) == <<"num", s>>
True == <<"lit", <<"true">>>>
Null == <<"lit", <<"null">>>>

MCTokens ==
    {Punct(p) : p \in {"{", "}", "[", "]", ":", ","}} \cup {Str(<<"a">>), <<"raw", <<>>>>, <<"bom", <<>>>>}

Words(units, n) == UNION {[1 .. k -> units] : k \in 0 .. n}

FlattenFrame(members) ==
    LET Join[k \in 0 .. Len(members)] ==
            IF k = 0 THEN <<>>
            ELSE Join[k - 1] \o (IF k = 1 THEN <<>> ELSE <<Punct(",")>>)
                 \o <<Str(members[k][1]), Punct(":")>> \o members[k][2]
    IN  <<Punct("{")>> \o Join[Len(members)] \o <<Punct("}")>>

\* An object with as many members as the key cap admits and not yet closed.
MCLongStarts == {Front(FlattenFrame([k \in 1 .. MaxTopLevelKeys |-> <<<<ToString(k)>>, <<True>>>>]))}

\* One lexeme as a value, and as a key where it is a string.
LexicalFrames ==
    {FlattenFrame(<<<<<<"a">>, <<Num(s)>>>>>>) :
            s \in (Words({"-", "0", "1", ".", "e", "+"}, 4) \cup [1 .. 5 -> {"-", "1", ".", "e"}]) \ {<<>>}}
    \cup {FlattenFrame(<<<<<<"a">>, <<Str(u)>>>>>>) : u \in Words({"c", "hi", "lo", "esc", "ctl", "bad"}, 4)}
    \cup {FlattenFrame(<<<<<<"a">>, <<<<"lit", <<s>>>>>>>>>>) : s \in {"true", "false", "null", "tru"}}
    \cup {FlattenFrame(<<<<u, <<True>>>>>>) : u \in Words({"c", "hi", "lo", "esc"}, 2)}

\* Objects at and past the key cap, with repeated and escaped keys and with
\* nested values between them.
KeyFrames ==
    LET Keys == {<<"a">>, <<"b">>, <<"esc">>, <<>>}
        Nested == <<Punct("{"), Str(<<"a">>), Punct(":"), True, Punct("}")>>
    IN  {FlattenFrame([k \in 1 .. 3 |-> <<ks[k], vs[k]>>]) :
            ks \in [1 .. 3 -> Keys], vs \in [1 .. 3 -> {<<True>>, Nested}]}
        \cup {FlattenFrame([k \in 1 .. n |-> <<<<ToString(k % m)>>, <<True>>>>]) :
            n \in MaxTopLevelKeys - 1 .. MaxTopLevelKeys + 1, m \in {MaxTopLevelKeys, 99}}

\* new_order and cancel_order frames with a field missing, mistyped, out of
\* range or right: every tag with every version and one field off, and two
\* fields off.
Absent == <<>>
MessageKeys == <<"t", "v", "seq", "epoch", "md_seq", "cl_id", "symbol", "side", "px", "qty", "post_only">>
Unsigned == {"v", "seq", "epoch", "md_seq"}
Signed == {"px", "qty"}
Identifiers == {"cl_id", "symbol", "side"}

Right(k) ==
    CASE k = "t" -> <<Str(<<"new_order">>)>>
      [] k \in Unsigned \cup Signed -> <<Num(<<"1">>)>>
      [] k \in Identifiers -> <<Str(<<"c">>)>>
      [] k = "post_only" -> <<True>>

Off(k) ==
    {Absent, <<Null>>} \cup
    CASE k = "t" -> {<<Str(u)>> : u \in {<<"cancel_order">>, <<"esctag">>, <<"tob">>, <<"c", "long">>}}
      [] k \in Unsigned \cup Signed ->
           {<<Num(s)>> : s \in {<<"M">>, <<"H">>, <<"-", "1">>, <<"-", "M">>, <<"1", ".", "0">>, <<"1", "e", "0">>}}
           \cup {<<Str(<<"1">>)>>}
      [] k \in Identifiers -> {<<Str(<<"long">>)>>, <<Str(<<"esc">>)>>, <<Punct("["), Punct("]")>>}
      [] k = "post_only" -> {<<Num(<<"1">>)>>}

MessageFrames ==
    LET Keys == Range(MessageKeys)
        Present(m) == SelectSeq(MessageKeys, LAMBDA k : m[k] # Absent)
        Frame(m) == FlattenFrame([k \in DOMAIN Present(m) |-> <<<<Present(m)[k]>>, m[Present(m)[k]]>>])
        Message(t, v, k, x) == [key \in Keys |-> IF key = k THEN x ELSE IF key = "t" THEN t
                                                 ELSE IF key = "v" THEN v ELSE Right(key)]
        Known == {<<Str(<<"new_order">>)>>, <<Str(<<"cancel_order">>)>>}
        OneOff == UNION {{Message(t, v, k, x) : x \in Off(k)} :
                            t \in Known \cup Off("t"), v \in {Right("v")} \cup Off("v"), k \in Keys}
        TwoOff == UNION {{[Message(t, Right("v"), MessageKeys[p[1]], x) EXCEPT ![MessageKeys[p[2]]] = y] :
                            x \in Off(MessageKeys[p[1]]), y \in Off(MessageKeys[p[2]])} :
                            t \in Known, p \in {p \in (3 .. 11) \X (3 .. 11) : p[1] < p[2]}}
    IN  {Frame(m) : m \in OneOff \cup TwoOff}

\* Lines of a feed file: every event with every kind of value, and `set` with
\* three to five elements.
FeedLines ==
    LET Values == {<<Num(<<"0">>)>>, <<Num(<<"1", "0">>)>>, <<Num(<<"D">>)>>, <<Num(<<"M">>)>>,
                   <<Num(<<"-", "0">>)>>, <<Num(<<"-", "1">>)>>, <<Num(<<"1", ".", "0">>)>>}
        Others == {<<True>>, <<Null>>, <<<<"lit", <<"false">>>>>>, <<Str(<<"1">>)>>,
                   <<Punct("["), Punct("]")>>, <<Punct("["), Num(<<"1">>), Punct(","), Num(<<"1">>), Punct("]")>>}
        Join(es) == FoldLeft(LAMBDA a, b : a \o <<Punct(",")>> \o b, es[1], Tail(es))
        Line(key, v) == FlattenFrame(<<<<<<key>>, v>>>>)
        Set(es) == Line("set", <<Punct("[")>> \o Join(es) \o <<Punct("]")>>)
        One == <<Num(<<"1">>)>>
    IN  {Line(k, v) : k \in {"set", "halt_ms", "drop", "end", "other"}, v \in Values \cup Others}
        \cup {Set(es) : es \in [1 .. 4 -> Values]}
        \cup {Set([k \in 1 .. n |-> IF k = i THEN v ELSE One]) : n \in 3 .. 5, i \in 1 .. 5, v \in Values \cup Others}
        \cup {FlattenFrame(<<<<<<"drop">>, <<True>>>>, <<<<k>>, <<True>>>>>>) : k \in {"drop", "end"}}

MCWholeFrames == LexicalFrames \cup KeyFrames \cup MessageFrames \cup FeedLines

\* The boundaries of utf8_valid's table: 41 80 8F 90 9F A0 BF C1 C2 DF E0 E1 EC
\* ED EE EF F0 F3 F4 F5.
MCBytes == {65, 128, 143, 144, 159, 160, 191, 193, 194, 223, 224, 225, 236, 237, 238, 239, 240, 243, 244, 245}
=============================================================================

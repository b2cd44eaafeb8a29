---------------------------- MODULE PreflightTwin ----------------------------
(***************************************************************************)
(* python/mmclient/_preflight.py: the Python twin of the frame preflight, *)
(* a recursive descent over regular-expression tokens with a one-regex     *)
(* member loop in front of it.  A scan is [ok, pos, top]: whether it       *)
(* raised, the last token consumed, the root's members in order.           *)
(***************************************************************************)
EXTENDS FramePreflight, FiniteSetsExt

Failed == [ok |-> FALSE, pos |-> 0, top |-> <<>>]
Scanned(pos, top) == [ok |-> TRUE, pos |-> pos, top |-> top]

\* _check_escapes: pending is where a high surrogate still awaiting its low
\* half ended, 0 for none.
CheckEscapes(u) ==
    LET Walk[i \in 1 .. Len(u) + 1, pending \in 0 .. Len(u) + 1] ==
            IF i > Len(u) THEN pending = 0
            ELSE IF u[i] \notin Escape THEN Walk[i + 1, pending]
            ELSE IF pending > 0 THEN pending = i /\ u[i] = "lo" /\ Walk[i + 1, 0]
            ELSE u[i] # "lo" /\ Walk[i + 1, IF u[i] = "hi" THEN i + 1 ELSE 0]
    IN  Walk[1, 0]

\* The number production of _TOKEN and _MEMBER, as a set of spellings.
NumberRe(s) ==
    LET All(i, j) == \A k \in i .. j : s[k] \in Digit
        n == Len(s)
        IntEnds == LET a == IF n > 0 /\ s[1] = "-" THEN 2 ELSE 1
                   IN  {j \in a .. n : All(a, j) /\ (s[a] = "0" => j = a)}
        FracEnds == IntEnds \cup {j \in 1 .. n : \E i \in IntEnds :
                        i + 2 <= j /\ s[i + 1] = "." /\ All(i + 2, j)}
        ExpEnds == FracEnds \cup {j \in 1 .. n : \E i \in FracEnds :
                        /\ i + 2 <= j
                        /\ s[i + 1] = "e"
                        /\ LET d == IF s[i + 2] \in {"+", "-"} THEN i + 3 ELSE i + 2
                           IN  d <= j /\ All(d, j)}
    IN  ExpEnds

\* token(): what the regex takes of a lexeme is a token of its own, and what
\* it leaves of a number is never the punctuation that must follow a value.
Tok(f, p) ==
    /\ p <= Len(f)
    /\ Kind(f[p]) \notin {"raw", "bom"}
    /\ Kind(f[p]) = "str" =>
            /\ \A k \in DOMAIN Body(f[p]) : Body(f[p])[k] \notin {"ctl", "bad"}
            /\ HasEscape(Body(f[p])) => CheckEscapes(Body(f[p]))
    /\ Kind(f[p]) = "num" => Len(Body(f[p])) \in NumberRe(Body(f[p]))
    /\ Kind(f[p]) = "lit" => Body(f[p]) \in Literal

TokIs(f, p, kind) == Tok(f, p) /\ Kind(f[p]) = kind

Enter(depth) == depth <= MaxNestingDepth

\* Mutant: the cap is compared after the member was added.
RecordOneMore(top, key) ==
    /\ ~HasEscape(key)
    /\ \A k \in DOMAIN top : top[k][1] # key
    /\ Len(top) <= MaxTopLevelKeys

Record(top, key) ==
    /\ ~HasEscape(key)
    /\ \A k \in DOMAIN top : top[k][1] # key
    /\ Len(top) < MaxTopLevelKeys

RECURSIVE Value(_, _, _), Members(_, _, _, _, _), Elements(_, _, _)

Value(f, p, depth) ==
    IF ~Tok(f, p) THEN Failed
    ELSE CASE Kind(f[p]) = "{" ->
                IF ~Enter(depth) THEN Failed
                ELSE IF TokIs(f, p + 1, "}") THEN Scanned(p + 1, <<>>)
                ELSE Members(f, p + 1, depth, FALSE, <<>>)
           [] Kind(f[p]) = "[" ->
                IF ~Enter(depth) THEN Failed
                ELSE IF TokIs(f, p + 1, "]") THEN Scanned(p + 1, <<>>)
                ELSE Elements(f, p + 1, depth)
           [] Kind(f[p]) \in {"str", "num", "lit"} -> Scanned(p, <<>>)
           [] OTHER -> Failed

\* The loop of members(): the member whose name is token p, and the rest.
Members(f, p, depth, root, top) ==
    IF ~TokIs(f, p, "str") \/ ~TokIs(f, p + 1, ":") THEN Failed
    ELSE LET v == Value(f, p + 2, depth + 1)
             key == Body(f[p])
             more == IF root THEN Append(top, <<key, SubSeq(f, p + 2, v.pos)>>) ELSE top
         IN  IF ~v.ok \/ (root /\ ~Record(top, key)) THEN Failed
             ELSE IF TokIs(f, v.pos + 1, "}") THEN Scanned(v.pos + 1, more)
             ELSE IF TokIs(f, v.pos + 1, ",") THEN Members(f, v.pos + 2, depth, root, more)
             ELSE Failed

Elements(f, p, depth) ==
    LET v == Value(f, p, depth + 1)
    IN  IF ~v.ok THEN Failed
        ELSE IF TokIs(f, v.pos + 1, "]") THEN Scanned(v.pos + 1, <<>>)
        ELSE IF TokIs(f, v.pos + 1, ",") THEN Elements(f, v.pos + 2, depth)
        ELSE Failed

ScanGeneral(f) ==
    LET root == TokIs(f, 1, "{")
        v == IF ~root THEN Value(f, 1, 1)
             ELSE IF ~Enter(1) THEN Failed
             ELSE IF TokIs(f, 2, "}") THEN Scanned(2, <<>>)
             ELSE Members(f, 2, 1, TRUE, <<>>)
    IN  IF v.ok /\ v.pos = Len(f) /\ root THEN v ELSE Failed

\* What _MEMBER matches from token p on: a name, a colon, a scalar and what ends
\* the member, with no backslash in either string.
MemberRe(f, p) ==
    /\ p + 3 <= Len(f)
    /\ TokIs(f, p, "str") /\ ~HasEscape(Body(f[p]))
    /\ TokIs(f, p + 1, ":")
    /\ Tok(f, p + 2) /\ Kind(f[p + 2]) \in {"str", "num", "lit"}
    /\ Kind(f[p + 2]) = "str" => ~HasEscape(Body(f[p + 2]))
    /\ TokIs(f, p + 3, ",") \/ TokIs(f, p + 3, "}")

RECURSIVE FastMembers(_, _, _)

\* The _MEMBER loop from token p on; Failed stands for "hand over".
FastMembers(f, p, top) ==
    LET key == Body(f[p])
        more == Append(top, <<key, <<f[p + 2]>>>>)
    IN  IF \/ ~MemberRe(f, p)
           \/ \E k \in DOMAIN top : top[k][1] = key
           \/ Len(top) >= MaxTopLevelKeys
        THEN Failed
        ELSE IF TokIs(f, p + 3, ",") THEN FastMembers(f, p + 4, more)
        ELSE IF p + 3 = Len(f) THEN Scanned(p + 3, more)
        ELSE Failed

\* _scan behind _check_frame_bytes.
Scan(f) ==
    LET plain == \A k \in DOMAIN f : Kind(f[k]) = "str" => ~HasEscape(Body(f[k]))
        fast == IF plain /\ f # <<>> /\ Kind(f[1]) = "{" THEN FastMembers(f, 2, <<>>) ELSE Failed
    IN  IF fast.ok THEN fast ELSE ScanGeneral(f)
=============================================================================

---------------------------- MODULE FrameGrammar ----------------------------
(***************************************************************************)
(* What a frame is, stated without a scanner: RFC 8259 as a grammar over   *)
(* the tokens of FramePreflight, UTF-8 as the encodings of the Unicode     *)
(* scalar values (RFC 3629), and the frame policy of codec.hpp.            *)
(***************************************************************************)
EXTENDS FramePreflight, FiniteSets

IsString(u) ==
    /\ \A i \in DOMAIN u : u[i] \notin {"ctl", "bad"}
    /\ \A i \in DOMAIN u : u[i] = "hi" => i < Len(u) /\ u[i + 1] = "lo"
    /\ \A i \in DOMAIN u : u[i] = "lo" => i > 1 /\ u[i - 1] = "hi"

IsDigits(s) == s # <<>> /\ \A i \in DOMAIN s : s[i] \in Digit
IsInt(s) == IsDigits(s) /\ (s[1] = "0" => Len(s) = 1)
IsFrac(s) == s # <<>> => (s[1] = "." /\ IsDigits(Tail(s)))
IsExp(s) ==
    s # <<>> =>
        /\ s[1] = "e"
        /\ \/ IsDigits(Tail(s))
           \/ Len(s) > 1 /\ s[2] \in {"+", "-"} /\ IsDigits(SubSeq(s, 3, Len(s)))

IsNumber(s) ==
    \E a \in 0 .. 1, b, c \in 0 .. Len(s) :
        /\ a <= b /\ b <= c
        /\ a = 1 => s[1] = "-"
        /\ IsInt(SubSeq(s, a + 1, b))
        /\ IsFrac(SubSeq(s, b + 1, c))
        /\ IsExp(SubSeq(s, c + 1, Len(s)))

IsScalar(tok) ==
    CASE Kind(tok) = "str" -> IsString(Body(tok))
      [] Kind(tok) = "num" -> IsNumber(Body(tok))
      [] OTHER -> Kind(tok) = "lit" /\ Body(tok) \in {<<"true">>, <<"false">>, <<"null">>}

IsKey(tok) == Kind(tok) = "str" /\ IsString(Body(tok))

Inner(s) == SubSeq(s, 2, Len(s) - 1)
Wrapped(s, open, close) == Len(s) >= 2 /\ Kind(s[1]) = open /\ Kind(s[Len(s)]) = close
Commas(s) == {j \in DOMAIN s : Kind(s[j]) = ","}
Before(s, j) == SubSeq(s, 1, j - 1)
After(s, j) == SubSeq(s, j + 1, Len(s))

RECURSIVE IsValue(_, _), IsMembers(_, _), IsElements(_, _)

\* s is one value with at most d levels of containers.
IsValue(s, d) ==
    \/ Len(s) = 1 /\ IsScalar(s[1])
    \/ d > 0 /\ Wrapped(s, "{", "}") /\ (Inner(s) = <<>> \/ IsMembers(Inner(s), d - 1))
    \/ d > 0 /\ Wrapped(s, "[", "]") /\ (Inner(s) = <<>> \/ IsElements(Inner(s), d - 1))

IsMember(s, d) ==
    Len(s) >= 3 /\ IsKey(s[1]) /\ Kind(s[2]) = ":" /\ IsValue(SubSeq(s, 3, Len(s)), d)

IsMembers(s, d) ==
    \/ IsMember(s, d)
    \/ \E j \in Commas(s) : IsMember(Before(s, j), d) /\ IsMembers(After(s, j), d)

IsElements(s, d) ==
    \/ IsValue(s, d)
    \/ \E j \in Commas(s) : IsValue(Before(s, j), d) /\ IsElements(After(s, j), d)

RECURSIVE MembersOf(_)

\* The name and the value of every member of the inside of an object.
MembersOf(s) ==
    IF s = <<>> THEN <<>>
    ELSE IF IsMember(s, MaxNestingDepth) THEN <<<<Body(s[1]), SubSeq(s, 3, Len(s))>>>>
    ELSE LET j == CHOOSE j \in Commas(s) :
                    /\ IsMember(Before(s, j), MaxNestingDepth)
                    /\ IsMembers(After(s, j), MaxNestingDepth)
         IN  <<<<Body(s[1]), SubSeq(s, 3, j - 1)>>>> \o MembersOf(After(s, j))

IsObject(f) == f # <<>> /\ Kind(f[1]) = "{"
MembersOfFrame(f) == MembersOf(Inner(f))

\* A frame: one value, within the depth and the key cap.
IsFrame(f) ==
    /\ IsValue(f, MaxNestingDepth)
    /\ IsObject(f) => Len(MembersOfFrame(f)) <= MaxTopLevelKeys

\* What the frame policy says of a whole frame, in its order of precedence.
PolicyOf(f) ==
    IF f # <<>> /\ Kind(f[1]) = "bom" THEN "bom"
    ELSE IF ~IsFrame(f) THEN "grammar"
    ELSE IF ~IsObject(f) THEN "root"
    ELSE LET m == MembersOfFrame(f)
         IN  IF \E a \in DOMAIN m : HasEscape(m[a][1]) THEN "escaped key"
             ELSE IF \E a, b \in DOMAIN m : a # b /\ m[a][1] = m[b][1] THEN "duplicate key"
             ELSE "none"

\* What the start of a value lacks is at most the rest of one member or element
\* and the closing brackets.
Completions ==
    LET v == <<"lit", <<"null">>>>
        Rest == {<<>>, <<v>>, <<Punct(":"), v>>, <<<<"str", <<>>>>, Punct(":"), v>>}
        Closers == UNION {[1 .. n -> {Punct("}"), Punct("]")}] : n \in 0 .. MaxNestingDepth}
    IN  {r \o c : r \in Rest, c \in Closers}

\* Where a whole member of the root object ends in p: there it could be closed.
MemberEnds(p) ==
    {j \in 2 .. Len(p) : IsValue(SubSeq(p, 1, j) \o <<Punct("}")>>, MaxNestingDepth)}

\* The start of a value within the depth in which no more members than the key
\* cap are whole: the cap is not exceeded before an extra value has ended.
IsStart(p) ==
    /\ \E c \in Completions : IsValue(p \o c, MaxNestingDepth)
    /\ Cardinality(MemberEnds(p)) <= MaxTopLevelKeys

(***************************************************************************)
(* UTF-8: the code point a sequence of len bytes spells, and the sequences *)
(* that spell a scalar value in the fewest bytes.                          *)
(***************************************************************************)
CodePoint(b) ==
    CASE Len(b) = 1 -> b[1]
      [] Len(b) = 2 -> (b[1] % 32) * 64 + (b[2] % 64)
      [] Len(b) = 3 -> (b[1] % 16) * 4096 + (b[2] % 64) * 64 + (b[3] % 64)
      [] Len(b) = 4 -> (b[1] % 8) * 262144 + (b[2] % 64) * 4096 + (b[3] % 64) * 64 + (b[4] % 64)

SpellsScalar(b) ==
    /\ CASE Len(b) = 1 -> b[1] < 128
         [] Len(b) = 2 -> b[1] \div 32 = 6 /\ CodePoint(b) >= 128
         [] Len(b) = 3 -> b[1] \div 16 = 14 /\ CodePoint(b) >= 2048
         [] Len(b) = 4 -> b[1] \div 8 = 30 /\ CodePoint(b) >= 65536
    /\ \A k \in 2 .. Len(b) : b[k] \div 64 = 2
    /\ CodePoint(b) <= 1114111
    /\ CodePoint(b) \notin 55296 .. 57343

RECURSIVE IsUtf8(_)
IsUtf8(b) ==
    \/ b = <<>>
    \/ \E n \in 1 .. 4 : n <= Len(b) /\ SpellsScalar(SubSeq(b, 1, n)) /\ IsUtf8(SubSeq(b, n + 1, Len(b)))
=============================================================================

--------------------------- MODULE FramePreflight ---------------------------
(***************************************************************************)
(* cpp/src/frame_preflight.cpp: the byte policy, the iterative RFC 8259    *)
(* scan and the top-level key policy every inbound frame passes before a   *)
(* codec library sees it.                                                  *)
(*                                                                         *)
(* A frame is a sequence of tokens <<kind, body>>.  Kinds: the punctuation *)
(* { } [ ] : , and "str", "num", "lit", "raw" (a raw control byte outside  *)
(* a string) and "bom".  White space is left out.  The body of a string is *)
(* a sequence of units (an ordinary byte or one whole escape), that of a   *)
(* number a sequence of characters; a digit unit may stand for a run of    *)
(* digits of a given magnitude: "D" past a day in milliseconds, "M" past   *)
(* INT64_MAX, "H" past UINT64_MAX.  The body of a literal is its spelling. *)
(***************************************************************************)
EXTENDS Integers, Sequences, SequencesExt

CONSTANTS
    MaxNestingDepth,    \* kMaxNestingDepth
    MaxTopLevelKeys     \* kMaxTopLevelKeys

ASSUME PreflightAssumption ==
    /\ MaxNestingDepth \in Nat \ {0}
    /\ MaxTopLevelKeys \in Nat \ {0}

Kind(tok) == tok[1]
Body(tok) == tok[2]
Punct(p) == <<p, <<>>>>

Digit == {"0", "1", "D", "M", "H"}
Literal == {<<"true">>, <<"false">>, <<"null">>}

\* Units spelled with a backslash: a high and a low surrogate, an escape that
\* JSON does not have (or a string cut short), an escaped control character,
\* and the tag new_order with one letter escaped.
Escape == {"hi", "lo", "bad", "esc", "esctag"}

(***************************************************************************)
(* utf8_valid over byte values.                                            *)
(***************************************************************************)
Utf8Length(c) ==
    CASE c \in 0 .. 127 -> 1
      [] c \in 194 .. 223 -> 2
      [] c \in 224 .. 239 -> 3
      [] c \in 240 .. 244 -> 4
      [] OTHER -> 0

\* Mutant: ED may be followed by A0..BF, so that encoded surrogates pass.
FirstContinuationSurrogates(c) ==
    CASE c = 224 -> 160 .. 191
      [] c = 240 -> 144 .. 191
      [] c = 244 -> 128 .. 143
      [] OTHER -> 128 .. 191

\* lo .. hi: what may follow the lead byte.
FirstContinuation(c) ==
    CASE c = 224 -> 160 .. 191
      [] c = 237 -> 128 .. 159
      [] c = 240 -> 144 .. 191
      [] c = 244 -> 128 .. 143
      [] OTHER -> 128 .. 191

utf8_valid(b) ==
    LET From[p \in 1 .. Len(b) + 1] ==
            \/ p > Len(b)
            \/ LET len == Utf8Length(b[p])
               IN  /\ len > 0
                   /\ p + len - 1 <= Len(b)
                   /\ len > 1 => b[p + 1] \in FirstContinuation(b[p])
                   /\ \A k \in 2 .. len - 1 : b[p + k] \in 128 .. 191
                   /\ From[p + len]
    IN  From[1]

(***************************************************************************)
(* scan_number: the number of characters consumed, or -1.                  *)
(***************************************************************************)
scan_number(s) ==
    LET n == Len(s)
        DigitAt(i) == i <= n /\ s[i] \in Digit
        Skip(i, cs) == IF i <= n /\ s[i] \in cs THEN i + 1 ELSE i
        PastDigits(i) ==
            CHOOSE j \in i .. n + 1 : ~DigitAt(j) /\ \A k \in i .. j - 1 : DigitAt(k)
        int == Skip(1, {"-"})
        dot == IF DigitAt(int) /\ s[int] = "0" THEN int + 1 ELSE PastDigits(int)
        frac == dot <= n /\ s[dot] = "."
        exp == IF frac THEN PastDigits(dot + 1) ELSE dot
        isExp == exp <= n /\ s[exp] = "e"
        mag == Skip(exp + 1, {"+", "-"})
    IN  CASE ~DigitAt(int) -> -1
          [] frac /\ ~DigitAt(dot + 1) -> -1
          [] isExp /\ ~DigitAt(mag) -> -1
          [] OTHER -> (IF isExp THEN PastDigits(mag) ELSE exp) - 1

(***************************************************************************)
(* scan_string: the Tok it returns for the units between the quotes.       *)
(***************************************************************************)
scan_string(u) ==
    LET From[i \in 1 .. Len(u) + 1] ==
            CASE i > Len(u) -> "Ok"
              [] i <= Len(u) /\ u[i] = "ctl" -> "RawControl"
              [] i <= Len(u) /\ u[i] = "bad" -> "Bad"
              [] i <= Len(u) /\ u[i] = "lo" -> "UnpairedSurrogate"
              [] i <= Len(u) /\ u[i] = "hi" ->
                    CASE i < Len(u) /\ u[i + 1] = "lo" -> From[i + 2]
                      [] i < Len(u) /\ u[i + 1] = "bad" -> "Bad"
                      [] OTHER -> "UnpairedSurrogate"
              [] OTHER -> From[i + 1]
    IN  From[1]

-----------------------------------------------------------------------------
(***************************************************************************)
(* FrameScanner.  i is the number of tokens consumed; mask holds the       *)
(* depths whose bit of object_mask_ is set; key is <<>> or <<pending key>>.*)
(***************************************************************************)
ScannerInit ==
    [i |-> 0, st |-> "Value", depth |-> 0, mask |-> {}, key |-> <<>>,
     start |-> 0, root |-> FALSE, done |-> FALSE, fields |-> <<>>, err |-> "none"]

Reject(sc, what) == [sc EXCEPT !.err = what]

\* The key cap bites here, once the value of the extra member is whole.
value_done(f, sc) ==
    LET records == sc.depth = 1 /\ sc.key # <<>>
        recorded ==
            IF records
            THEN [sc EXCEPT !.fields = Append(@, <<sc.key[1], SubSeq(f, sc.start, sc.i)>>),
                            !.key = <<>>]
            ELSE sc
    IN  CASE records /\ Len(sc.fields) = MaxTopLevelKeys -> Reject(sc, "keys")
          [] sc.depth = 0 -> [recorded EXCEPT !.done = TRUE]
          [] OTHER -> [recorded EXCEPT !.st = "AfterValue"]

Close(f, sc) == value_done(f, [sc EXCEPT !.depth = @ - 1])

\* Mutant: '[' leaves the bit an object set earlier at the same depth.
OpenStaleBit(sc, kind) ==
    IF sc.depth = MaxNestingDepth THEN Reject(sc, "depth")
    ELSE [sc EXCEPT !.mask = IF kind = "{" THEN @ \cup {sc.depth} ELSE @,
                    !.depth = @ + 1,
                    !.st = IF kind = "{" THEN "ObjKeyOrClose" ELSE "ArrValueOrClose"]

Open(sc, kind) ==
    IF sc.depth = MaxNestingDepth THEN Reject(sc, "depth")
    ELSE [sc EXCEPT !.mask = IF kind = "{" THEN @ \cup {sc.depth} ELSE @ \ {sc.depth},
                    !.depth = @ + 1,
                    !.st = IF kind = "{" THEN "ObjKeyOrClose" ELSE "ArrValueOrClose"]

ScanKey(sc, tok) ==
    CASE Kind(tok) # "str" -> Reject(sc, "expected a string key")
      [] Kind(tok) = "str" /\ scan_string(Body(tok)) # "Ok" -> Reject(sc, "string")
      [] OTHER -> [sc EXCEPT !.key = IF sc.depth = 1 /\ sc.root THEN <<Body(tok)>> ELSE @,
                             !.st = "ObjColon"]

\* What scan_number leaves of a number is a digit, a sign, a dot or an 'e': the
\* next turn of the loop (or the trailing check) rejects it.
ScanValue(f, sc, tok) ==
    LET s == IF sc.depth = 1 /\ sc.root THEN [sc EXCEPT !.start = sc.i] ELSE sc
    IN  CASE Kind(tok) \in {"{", "["} -> Open(s, Kind(tok))
          [] Kind(tok) = "str" ->
                IF scan_string(Body(tok)) = "Ok" THEN value_done(f, s) ELSE Reject(s, "string")
          [] Kind(tok) = "num" ->
                CASE scan_number(Body(tok)) = -1 -> Reject(s, "invalid number token")
                  [] scan_number(Body(tok)) = Len(Body(tok)) -> value_done(f, s)
                  [] OTHER -> Reject(value_done(f, s), "after value")
          [] Kind(tok) = "lit" ->
                IF Body(tok) \in Literal THEN value_done(f, s) ELSE Reject(s, "invalid literal")
          [] OTHER -> Reject(s, "invalid number token")

\* One turn of the loop in run(): the scanner sc consumes the next token of f.
ScanStep(f, sc) ==
    LET tok == f[sc.i + 1]
        kind == Kind(tok)
        s == [sc EXCEPT !.i = @ + 1, !.root = IF sc.i = 0 THEN kind = "{" ELSE @]
        inObject == sc.depth - 1 \in sc.mask
    IN  IF sc.err # "none" THEN sc
        ELSE IF sc.done THEN Reject(s, "trailing content")
        ELSE IF kind = "raw" THEN Reject(s, "raw control byte")
        ELSE CASE sc.st \in {"ObjKeyOrClose", "ObjKey"} ->
                    IF sc.st = "ObjKeyOrClose" /\ kind = "}" THEN Close(f, s) ELSE ScanKey(s, tok)
               [] sc.st \in {"ArrValueOrClose", "Value"} ->
                    IF sc.st = "ArrValueOrClose" /\ kind = "]" THEN Close(f, s)
                    ELSE ScanValue(f, s, tok)
               [] sc.st = "ObjColon" ->
                    IF kind = ":" THEN [s EXCEPT !.st = "Value"] ELSE Reject(s, "expected ':'")
               [] sc.st = "AfterValue" ->
                    CASE kind = "," -> [s EXCEPT !.st = IF inObject THEN "ObjKey" ELSE "Value"]
                      [] kind = (IF inObject THEN "}" ELSE "]") -> Close(f, s)
                      [] OTHER -> Reject(s, "expected ',' or a close")

\* The end of run(): a rejection stands, a frame that stops early is
\* truncated (or empty), and only then the root must have been an object.
run(sc) ==
    IF sc.err # "none" \/ ~sc.done THEN "grammar"
    ELSE IF sc.root THEN "none" ELSE "root"

HasEscape(units) == \E k \in DOMAIN units : units[k] \in Escape

\* Literal keys first, then no duplicates: raw equality is key equality.
key_policy(fields) ==
    IF \E a \in DOMAIN fields : HasEscape(fields[a][1]) THEN "escaped key"
    ELSE IF \E a, b \in DOMAIN fields : b < a /\ fields[a][1] = fields[b][1] THEN "duplicate key"
    ELSE "none"

frame_preflight(f, sc) ==
    IF f # <<>> /\ Kind(f[1]) = "bom" THEN "bom"
    ELSE IF run(sc) # "none" THEN run(sc)
    ELSE key_policy(sc.fields)
=============================================================================

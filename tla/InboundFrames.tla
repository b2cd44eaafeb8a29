---------------------------- MODULE InboundFrames ----------------------------
(***************************************************************************)
(* Every frame, and every start of a frame, of a bounded size put through  *)
(* the C++ preflight, its Python twin, the two decoders and, as a line of  *)
(* a feed file, the feed's parser.  A frame arrives token by token, so     *)
(* that only the frames the scan has not rejected yet grow, or whole; it   *)
(* may begin at the key cap.  Bytes grow one at a time.                                               *)
(***************************************************************************)
EXTENDS PreflightTwin, FrameGrammar, FeedLine

CONSTANTS
    Tokens,         \* what a frame that arrives token by token is made of
    MaxTokens,      \* the length of such a frame
    LongStarts,     \* the starts, longer than that, from which it may arrive instead
    MaxMore,        \* how many tokens it has behind one of those
    WholeFrames,    \* the frames that arrive whole
    Bytes,          \* the bytes of the UTF-8 check
    MaxBytes        \* the length of a sequence of them

VARIABLES
    frame,      \* the tokens so far
    scanner,    \* the FrameScanner's members
    ended,      \* the frame is complete
    bytes       \* the raw bytes, where only those are looked at

vars == <<frame, scanner, ended, bytes>>

ScanAll(f) ==
    LET Turn[k \in 0 .. Len(f)] == IF k = 0 THEN ScannerInit ELSE ScanStep(f, Turn[k - 1])
    IN  Turn[Len(f)]

Init ==
    /\ frame \in {<<>>} \cup LongStarts
    /\ scanner = ScanAll(frame)
    /\ ended = FALSE
    /\ bytes = <<>>

HasRoom == Len(frame) < MaxTokens \/ \E s \in LongStarts : Len(frame) \in Len(s) .. Len(s) + MaxMore - 1

\* One more token: one more turn of the scan loop.
Arrive(tok) ==
    /\ ~ended /\ bytes = <<>>
    /\ scanner.err = "none"
    /\ HasRoom
    /\ frame' = Append(frame, tok)
    /\ scanner' = ScanStep(frame', scanner)
    /\ UNCHANGED <<ended, bytes>>

\* The frame ends here.
End ==
    /\ ~ended /\ bytes = <<>>
    /\ ended' = TRUE
    /\ UNCHANGED <<frame, scanner, bytes>>

ArriveWhole ==
    /\ frame = <<>> /\ ~ended /\ bytes = <<>>
    /\ frame' \in WholeFrames
    /\ scanner' = ScanAll(frame')
    /\ ended' = TRUE
    /\ UNCHANGED bytes

ArriveByte(b) ==
    /\ frame = <<>> /\ ~ended
    /\ Len(bytes) < MaxBytes
    /\ bytes' = Append(bytes, b)
    /\ UNCHANGED <<frame, scanner, ended>>

Next ==
    \/ \E tok \in Tokens : Arrive(tok)
    \/ ArriveWhole
    \/ \E b \in Bytes : ArriveByte(b)
    \/ End

Spec == Init /\ [][Next]_vars

-----------------------------------------------------------------------------
Outcome == frame_preflight(frame, scanner)

\* The iterative scan with its depth mask decides exactly the RFC 8259 grammar
\* under the frame policy of codec.hpp.  It rejects at the first token that no
\* value within the depth can start with, and a root member too many at the end
\* of its value, neither earlier nor later; a complete frame gets the verdict
\* the policy gives it, in the policy's order of precedence; and what it records
\* of an accepted frame are the members of the root object with their whole
\* values (FrameScanner::run, value_done, the key checks of frame_preflight).
ScanDecidesGrammar ==
    /\ ~ended /\ bytes = <<>> => (scanner.err = "none" <=> IsStart(frame))
    /\ ended => Outcome = PolicyOf(frame)
    /\ ended /\ Outcome = "none" => scanner.fields = MembersOfFrame(frame)

\* The engine and the Python client accept the same frames and find the same
\* members in them, whichever of _scan's two paths the client takes
\* (_preflight.py: "Cross-language parity is the contract").
TwinAgrees ==
    ended =>
        /\ Scan(frame).ok <=> Outcome = "none"
        /\ Outcome = "none" => Scan(frame).top = scanner.fields

\* The two codec arms give every frame the same code and the same detail,
\* although each has its own field lists, one gets field by field from nlohmann
\* and the other reads the struct with glaze after a token check, in another
\* order (decode of both).  It speaks of the tags, their escapes, the lists, the
\* token checks and the precedence of the errors; that the two libraries draw
\* the same range for an integer is assumed.
ArmsAgree ==
    ended /\ Outcome = "none" => NlohmannDecode(scanner.fields) = GlazeDecode(scanner.fields)

\* The numbers of a line that spell an unsigned int64, and the events over them:
\* a halt lasts from a millisecond to a day.
NumbersOf(f) ==
    {s \in {Body(f[i]) : i \in {i \in DOMAIN f : Kind(f[i]) = "num"}} :
        IsInt(s) /\ \A i \in DOMAIN s : s[i] \notin {"M", "H"}}

EventsOver(nums) ==
    {<<"drop">>, <<"end">>}
    \cup {<<"halt_ms", n>> : n \in {n \in nums : n # <<"0">> /\ \A i \in DOMAIN n : n[i] # "D"}}
    \cup {<<"set", a, b, c, d>> : a, b, c, d \in nums}

\* How a scenario spells an event.
Spelling(e) ==
    LET Num(s) == <<"num", s>>
        value == CASE e[1] = "set" -> <<Punct("["), Num(e[2]), Punct(","), Num(e[3]), Punct(","),
                                        Num(e[4]), Punct(","), Num(e[5]), Punct("]")>>
                   [] e[1] = "halt_ms" -> <<Num(e[2])>>
                   [] OTHER -> <<<<"lit", <<"true">>>>>>
    IN  <<Punct("{"), <<"str", <<e[1]>>>>, Punct(":")>> \o value \o <<Punct("}")>>

\* A feed line parses to the event it spells and is refused when it spells
\* none: no sign, no other key, no other arity, no float, no number outside the
\* domain (parse_line with parse_set, parse_halt and require_true).
FeedLineExact ==
    ended =>
        LET spelled == {e \in EventsOver(NumbersOf(frame)) : Spelling(e) = frame}
        IN  {parse_line(frame, scanner)} = IF spelled = {} THEN {Rejected} ELSE spelled

\* The lead-byte table of utf8_valid accepts exactly the concatenations of the
\* shortest encodings of Unicode scalar values.
Utf8IsScalarValues == utf8_valid(bytes) <=> IsUtf8(bytes)
=============================================================================

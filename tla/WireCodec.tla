------------------------------ MODULE WireCodec ------------------------------
(***************************************************************************)
(* The two decoders behind the preflight: codec_nlohmann.cpp (the naive    *)
(* arm) and codec_glaze.cpp (the tuned arm).  Both get the members the     *)
(* scan recorded and return a verdict [code, detail].  Each arm has its    *)
(* own list of fields.  The libraries are modelled by how the arms use     *)
(* them: what nlohmann and glaze convert is assumed, and where the arms do *)
(* not rely on it the typed read of glaze takes more than the library may. *)
(***************************************************************************)
EXTENDS FramePreflight

Verdict(code, detail) == [code |-> code, detail |-> detail]
Malformed(detail) == Verdict("Malformed", <<detail>>)

\* FrameScan::find: the value of a top-level key, <<>> when absent.
Find(fields, key) ==
    LET at == {k \in DOMAIN fields : fields[k][1] = <<key>>}
    IN  IF at = {} THEN <<>> ELSE fields[CHOOSE k \in at : \A j \in at : k <= j][2]

IsDigitRun(s) == s # <<>> /\ \A i \in DOMAIN s : s[i] \in Digit

is_unsigned_integer_token(v) == Len(v) = 1 /\ Kind(v[1]) = "num" /\ IsDigitRun(Body(v[1]))

is_integer_token(v) ==
    /\ Len(v) = 1 /\ Kind(v[1]) = "num"
    /\ LET s == Body(v[1])
       IN  IsDigitRun(IF s # <<>> /\ s[1] = "-" THEN Tail(s) ELSE s)

\* What a string spells once unescaped.
Unescape(u) == IF u = <<"esctag">> THEN <<"new_order">> ELSE u
Spells(v) == Unescape(Body(v[1]))

\* check_identifier on a decoded string: the details it rejects with, if any.
check_identifier(id, name) ==
    IF \E i \in DOMAIN id : id[i] = "long" THEN <<Verdict("Malformed", <<name, "exceeds the length cap">>)>>
    ELSE IF \E i \in DOMAIN id : id[i] \in {"esc", "del"} THEN <<Verdict("Malformed", <<"control byte in", name>>)>>
    ELSE <<>>

\* The first identifier of the message that breaks the shape policy decides.
check_inbound_strings(fields, isNew) ==
    LET Check(name) == check_identifier(Spells(Find(fields, name)), name)
    IN  Head(Check("cl_id")
             \o (IF isNew THEN Check("symbol") \o Check("side") ELSE <<>>)
             \o <<Verdict("Ok", <<>>)>>)

\* A tag past the cap is cut, which the ellipsis marks, and a control character
\* becomes a '?'.
sanitized_tag(u) ==
    LET long == {i \in DOMAIN u : u[i] = "long"}
        take == IF long = {} THEN Len(u) ELSE CHOOSE i \in long : \A j \in long : i <= j
    IN  [i \in 1 .. take |-> CASE u[i] = "long" -> "cut"
                               [] u[i] \in {"esc", "del"} -> "?"
                               [] OTHER -> u[i]]

UnknownType(tag) == Verdict("UnknownType", sanitized_tag(tag))
BadFields(isNew) ==
    Malformed(IF isNew THEN "new_order: missing or mistyped field"
                       ELSE "cancel_order: missing or mistyped field")

-----------------------------------------------------------------------------
(***************************************************************************)
(* The naive arm.  NlohmannType: the type json::parse gives a span; an     *)
(* integer past its type becomes a double, past the double it is           *)
(* discarded, which the callers do not tell from a mistyped one.           *)
(***************************************************************************)
NlohmannType(v) ==
    IF Len(v) # 1 THEN IF v = <<>> THEN "absent" ELSE "container"
    ELSE CASE Kind(v[1]) = "str" -> "string"
           [] Kind(v[1]) = "lit" -> IF Body(v[1]) = <<"null">> THEN "null" ELSE "boolean"
           [] Kind(v[1]) = "num" ->
                LET s == Body(v[1])
                    digits == {s[i] : i \in DOMAIN s}
                IN  IF ~is_integer_token(v) \/ "H" \in digits THEN "double"
                    ELSE IF s[1] # "-" THEN "unsigned"
                    ELSE IF "M" \in digits THEN "double" ELSE "integer"

get_u64(v) == is_unsigned_integer_token(v) /\ NlohmannType(v) = "unsigned"

get_i64(v) ==
    /\ is_integer_token(v)
    /\ NlohmannType(v) \in {"unsigned", "integer"}
    /\ NlohmannType(v) = "unsigned" => \A i \in DOMAIN Body(v[1]) : Body(v[1])[i] # "M"

GetField(type, v) ==
    CASE type = "u64" -> get_u64(v)
      [] type = "i64" -> get_i64(v)
      [] type = "str" -> NlohmannType(v) = "string"
      [] type = "bool" -> NlohmannType(v) = "boolean"

\* The fields decode gets, one call each.
NlohmannFields(isNew) ==
    IF isNew
    THEN [seq |-> "u64", epoch |-> "u64", md_seq |-> "u64", cl_id |-> "str", symbol |-> "str",
          side |-> "str", px |-> "i64", qty |-> "i64", post_only |-> "bool"]
    ELSE [seq |-> "u64", epoch |-> "u64", cl_id |-> "str"]

NlohmannDecode(fields) ==
    LET t == Find(fields, "t")
        v == Find(fields, "v")
        isNew == Spells(t) = <<"new_order">>
        wanted == NlohmannFields(isNew)
    IN  IF NlohmannType(t) # "string" THEN Malformed("t missing or not a string")
        ELSE IF ~isNew /\ Spells(t) # <<"cancel_order">> THEN UnknownType(Spells(t))
        ELSE IF ~get_u64(v) THEN Malformed("v missing or not an unsigned integer")
        ELSE IF Body(v[1]) # <<"1">> THEN Verdict("UnsupportedVersion", Body(v[1]))
        ELSE IF \E k \in DOMAIN wanted : ~GetField(wanted[k], Find(fields, k)) THEN BadFields(isNew)
        ELSE check_inbound_strings(fields, isNew)

-----------------------------------------------------------------------------
(***************************************************************************)
(* The tuned arm.  GlazeReads: whether the typed read of a member takes a  *)
(* value.  Of a number it judges the range only: a sign, a fraction or an  *)
(* exponent is the token check's to refuse.                                *)
(***************************************************************************)
GlazeReads(type, v) ==
    /\ Len(v) = 1
    /\ LET s == Body(v[1])
           digits == {s[i] : i \in DOMAIN s}
       IN  CASE type = "u64" -> Kind(v[1]) = "num" /\ "H" \notin digits
             [] type = "i64" -> Kind(v[1]) = "num" /\ digits \cap {"M", "H"} = {}
             [] type = "str" -> Kind(v[1]) = "str"
             [] type = "bool" -> Kind(v[1]) = "lit" /\ s # <<"null">>

\* The members of the struct that glz::meta lists, with their C++ types: the
\* strict read wants all of them.
GlazeMembers(isNew) ==
    IF isNew
    THEN [v |-> "u64", seq |-> "u64", epoch |-> "u64", md_seq |-> "u64", cl_id |-> "str",
          symbol |-> "str", side |-> "str", px |-> "i64", qty |-> "i64", post_only |-> "bool"]
    ELSE [v |-> "u64", seq |-> "u64", epoch |-> "u64", cl_id |-> "str"]

SignedKeys(isNew) == IF isNew THEN {"px", "qty"} ELSE {}

\* Mutant: a field of the struct is not listed for the token check.
UnsignedKeysShort(isNew) == {"seq", "epoch"}

UnsignedKeys(isNew) == IF isNew THEN {"seq", "epoch", "md_seq"} ELSE {"seq", "epoch"}

\* A missing field passes here: the strict read owns that verdict.
integer_fields_are_integral(fields, signed, unsigned) ==
    /\ \A k \in signed : Find(fields, k) = <<>> \/ is_integer_token(Find(fields, k))
    /\ \A k \in unsigned : Find(fields, k) = <<>> \/ is_unsigned_integer_token(Find(fields, k))

\* TagProbe: <<>> when t is missing, null or not a string.
TagProbe(t) == IF GlazeReads("str", t) THEN <<Spells(t)>> ELSE <<>>

\* from_chars on the token of v: only the range is left to it.
FromCharsOk(v) == \A i \in DOMAIN Body(v[1]) : Body(v[1])[i] # "H"

GlazeDecode(fields) ==
    LET t == Find(fields, "t")
        v == Find(fields, "v")
        fast == t \in {<<<<"str", <<"new_order">>>>>>, <<<<"str", <<"cancel_order">>>>>>}
        tag == IF fast THEN <<Body(t[1])>> ELSE TagProbe(t)
        isNew == tag[1] = <<"new_order">>
        struct == GlazeMembers(isNew)
    IN  IF tag = <<>> THEN Malformed("t missing or not a string")
        ELSE IF ~isNew /\ tag[1] # <<"cancel_order">> THEN UnknownType(tag[1])
        ELSE IF ~is_unsigned_integer_token(v) \/ ~FromCharsOk(v)
             THEN Malformed("v missing or not an unsigned integer")
        ELSE IF Body(v[1]) # <<"1">> THEN Verdict("UnsupportedVersion", Body(v[1]))
        ELSE IF \/ ~integer_fields_are_integral(fields, SignedKeys(isNew), UnsignedKeys(isNew))
                \/ \E k \in DOMAIN struct : ~GlazeReads(struct[k], Find(fields, k))
             THEN BadFields(isNew)
        ELSE check_inbound_strings(fields, isNew)
=============================================================================

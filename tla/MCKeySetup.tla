----------------------------- MODULE MCKeySetup -----------------------------
(* Files of at most one line before the first start; the user and the wizard *)
(* append more.  Keys are typed without quotes, in quotes, and as two quotes *)
(* with nothing between.                                                   *)
EXTENDS KeySetup

QuotedKeys == {"k1", "'k2'", "''"}
QuotesOff  == [k \in QuotedKeys |-> CASE k = "'k2'" -> "k2" [] k = "''" -> "" [] OTHER -> k]

PlainKeys  == [k \in {"k1", "k2"} |-> k]

FileLines ==
    {Line("GROQ_API_KEY", "f1"), Line("GROQ_API_KEY", ""), Line("OPENAI_API_KEY", "f2"),
     Line("MODEL_NAME", "m1"), Line("MAX_L1_TOKENS", "1000"), Line("other", "")}

SmallFiles == UNION {[1..n -> FileLines] : n \in 0..1}

AddedLines == {Line("MODEL_NAME", "m2"), Line("MAX_L1_TOKENS", "bad"), Line("other", "")}
=============================================================================

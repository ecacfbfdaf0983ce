------------------------------- MODULE Pruner -------------------------------
(***************************************************************************)
(* Compression of the text of an evicted chunk (src/memory/pruner.cpp): a  *)
(* text is a sequence of characters; letters have no case here.  The       *)
(* replacement of phrases in the system prompt, a constant, is left out.   *)
(***************************************************************************)
EXTENDS Integers, Sequences, SequencesExt, FiniteSetsExt

Blank == {" ", "NL"}       \* and the tab
Punctuation == {".", "!"}  \* "?" is treated like "!"

(* Besides the marks, "7" stands for everything that is no letter. *)
NoLetters == Punctuation \cup {"7"}

(* The hesitation words that can be spelled with u, m, h, e and r. *)
kFillers ==
    {<<"u", "m">>, <<"u", "h">>, <<"e", "r", "m">>, <<"e", "r">>, <<"h", "m", "m">>,
     <<"u", "m", "m">>, <<"u", "h", "h">>, <<"u", "h", "m">>, <<"h", "e", "h">>}

-----------------------------------------------------------------------------
OnlyParagraphs(run) == IF run >= 2 THEN <<"NL", "NL">> ELSE <<>>

(* What a run of newlines becomes. *)
Newlines(run) == IF run >= 2 THEN <<"NL", "NL">> ELSE <<"NL">>

(* One character: blanks are pending until the next character that is none,  *)
(* and those before the first one are dropped.                             *)
CollapseOne(st, c) ==
    CASE c = "NL" -> [out |-> st.out, newline_run |-> st.newline_run + 1,
                      pending_space |-> FALSE]
      [] c = " "  -> [out |-> st.out, newline_run |-> st.newline_run,
                      pending_space |-> st.pending_space \/ st.newline_run = 0]
      [] OTHER    ->
           [out |-> Append(IF st.out = <<>> THEN <<>>
                           ELSE IF st.newline_run > 0 THEN st.out \o Newlines(st.newline_run)
                           ELSE IF st.pending_space THEN Append(st.out, " ") ELSE st.out, c),
            newline_run |-> 0, pending_space |-> FALSE]

Collapsed(input) ==
    LET upTo[n \in 0..Len(input)] ==
            IF n = 0 THEN [out |-> <<>>, newline_run |-> 0, pending_space |-> FALSE]
            ELSE CollapseOne(upTo[n - 1], input[n])
    IN  upTo[Len(input)]

collapse_whitespace(input) == Collapsed(input).out

(* The length of the run of input[i] that starts at i. *)
RunAt(input, i) ==
    Max({k \in 1..(Len(input) - i + 1) : \A j \in i..(i + k - 1) : input[j] = input[i]})

collapse_punctuation(s) ==
    LET from[i \in 1..(Len(s) + 1)] ==
            IF i > Len(s) THEN <<>>
            ELSE IF s[i] \notin Punctuation THEN <<s[i]>> \o from[i + 1]
            ELSE (IF s[i] = "." /\ RunAt(s, i) = 3 THEN <<".", ".", ".">> ELSE <<s[i]>>)
                 \o from[i + RunAt(s, i)]
    IN  from[1]

(* A token without what is no letter at its ends. *)
Core(token) ==
    LET letters == {i \in DOMAIN token : token[i] \notin NoLetters}
    IN  IF letters = {} THEN <<>> ELSE SubSeq(token, Min(letters), Max(letters))

(* The token read last is complete, if there is one. *)
Ended(st) ==
    IF st.token = <<>> THEN st
    ELSE [tokens |-> Append(st.tokens, st.token), token |-> <<>>]

Tokenized(s) ==
    LET upTo[n \in 0..Len(s)] ==
            IF n = 0 THEN [tokens |-> <<>>, token |-> <<>>]
            ELSE IF s[n] \in Blank THEN Ended(upTo[n - 1])
            ELSE [tokens |-> upTo[n - 1].tokens, token |-> Append(upTo[n - 1].token, s[n])]
    IN  upTo[Len(s)]

(* The tokens of s in order. *)
TokensIn(s) == Ended(Tokenized(s)).tokens

Joined(out, token) == IF out = <<>> THEN token ELSE out \o <<" ">> \o token

WithoutFillers(tokens) ==
    LET upTo[n \in 0..Len(tokens)] ==
            IF n = 0 THEN <<>>
            ELSE IF Core(tokens[n]) \in kFillers THEN upTo[n - 1]
            ELSE Joined(upTo[n - 1], tokens[n])
    IN  upTo[Len(tokens)]

remove_fillers(s) == WithoutFillers(TokensIn(s))

compress_context(input) ==
    remove_fillers(collapse_punctuation(collapse_whitespace(input)))

-----------------------------------------------------------------------------
(* The reference: the words of a text, one by one and by their positions.  *)

EndsWord(s, n) == s[n] \notin Blank /\ (n = Len(s) \/ s[n + 1] \in Blank)

(* The word that ends at n. *)
WordUpTo(s, n) ==
    LET start == CHOOSE i \in 1..n :
                     /\ \A j \in i..n : s[j] \notin Blank
                     /\ i = 1 \/ s[i - 1] \in Blank
    IN  SubSeq(s, start, n)

(* Exactly three dots stand at i, i + 1 and i + 2. *)
ThreeDots(w, i) ==
    /\ i \in 1..(Len(w) - 2)
    /\ w[i] = "." /\ w[i + 1] = "." /\ w[i + 2] = "."
    /\ i > 1 => w[i - 1] # "."
    /\ i + 3 <= Len(w) => w[i + 3] # "."

(* A mark like the one before it goes, but three dots stay. *)
Goes(w, i) ==
    /\ i > 1 /\ w[i] \in Punctuation /\ w[i - 1] = w[i]
    /\ ~ ThreeDots(w, i - 1) /\ ~ ThreeDots(w, i - 2)

Squeezed(w) ==
    LET upTo[n \in 0..Len(w)] ==
            IF n = 0 THEN <<>>
            ELSE IF Goes(w, n) THEN upTo[n - 1] ELSE Append(upTo[n - 1], w[n])
    IN  upTo[Len(w)]

(* The words of s that are no fillers, squeezed, with one space between. *)
Compressed(s) ==
    LET upTo[n \in 0..Len(s)] ==
            LET word == Squeezed(WordUpTo(s, n))
            IN  IF n = 0 THEN <<>>
                ELSE IF EndsWord(s, n) /\ Core(word) \notin kFillers
                     THEN Joined(upTo[n - 1], word)
                ELSE upTo[n - 1]
    IN  upTo[Len(s)]
=============================================================================

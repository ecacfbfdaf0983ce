---------------------------- MODULE TextKernels ----------------------------
(***************************************************************************)
(* A streamed text on its way through the text functions: pieces of it are *)
(* sanitised one by one and shown, its lines are found with the search     *)
(* kernel of whatever level the machine has (src/network/api_client.cpp),   *)
(* and the text is compressed when its turn is evicted                     *)
(* (src/memory/context_manager.cpp).                                       *)
(***************************************************************************)
EXTENDS SimdMatcher, Sanitizer, Pruner

CONSTANTS Inputs   \* texts, each with a level and what the buffer of a tail holds

Levels == {"Avx512", "Avx2", "Neon", "Scalar"}

TextAssumption ==
    /\ Inputs \subseteq [text : Seq(STRING), level : Levels, junk : Seq(STRING)]
    /\ W256 <= W512 /\ \A input \in Inputs : Len(input.junk) = W512

VARIABLES
    data,    \* the text that arrives
    taken,   \* bytes of it that arrived
    shown    \* what was written to the terminal

vars == <<level, junk, data, taken, shown>>

Init ==
    /\ \E input \in Inputs :
         data = input.text /\ level = input.level /\ junk = input.junk
    /\ taken = 0
    /\ shown = <<>>

(* A piece of any length arrives and is shown. *)
ShowPiece ==
    /\ taken < Len(data)
    /\ \E n \in 1..(Len(data) - taken) :
         /\ taken' = taken + n
         /\ shown' = shown \o sanitize_terminal_output(SubSeq(data, taken + 1, taken'))
    /\ UNCHANGED <<level, junk, data>>

Next == ShowPiece

Spec == Init /\ [][Next]_vars

TypeOK ==
    /\ data \in Seq(STRING) /\ level \in Levels
    /\ junk \in Seq(STRING) /\ Len(junk) = W512
    /\ taken \in 0..Len(data) /\ shown \in Seq(STRING)

-----------------------------------------------------------------------------
(* The maximal runs of bytes that are no spaces, as pairs of offsets. *)
Words(p) ==
    LET isWord(i, j) ==
            /\ i < j
            /\ \A k \in (i + 1)..j : p[k] \notin Spaces
            /\ i = 0 \/ p[i] \in Spaces
            /\ j = Len(p) \/ p[j + 1] \in Spaces
    IN  {w \in (0..Len(p)) \X (0..Len(p)) : isWord(w[1], w[2])}

(* t lists the words of p in order. *)
ListsWords(t, p) ==
    /\ \A i, j \in DOMAIN t : i < j => t[i][1] < t[j][1]
    /\ {t[i] : i \in DOMAIN t} = Words(p)

(* The whole blocks of W128 bytes at the start of p do not hold c. *)
OnlyInTail(p, c) ==
    \A k \in 0..Len(p) :
        k * W128 + W128 <= Len(p) => Lanes(Block(p, k * W128, W128), {c}) = {}

(* Whatever the level, the length and the bytes behind the end, a search for *)
(* a set, a count and the tokens are those of the scalar loop, and so is    *)
(* the search for one byte on every level but NEON.  The NEON kernel        *)
(* (simd_matcher.cpp:402) takes a lane that differs for the one that is     *)
(* equal: its answer is right only for a byte that is in no whole block.    *)
KernelsAgree ==
    taken = 0 =>
        /\ \A c \in ToSet(data) \cup {" "} :
             /\ level # "Neon" \/ OnlyInTail(data, c) =>
                    simd_find_byte(data, c) = find_byte_scalar(data, c)
             /\ simd_count_byte(data, c) = count_byte_scalar(data, c)
        /\ \A set \in SUBSET ToSet(data) \ {{}} :
             simd_find_first_of(data, set) = find_first_of_scalar(data, set)
        /\ ListsWords(simd_tokens(data), data)

(* The first n bytes of s without those that control the terminal. *)
Visible(s, n) ==
    LET upTo[k \in 0..Len(s)] ==
            IF k = 0 THEN <<>>
            ELSE IF s[k] \in Controls THEN upTo[k - 1] ELSE Append(upTo[k - 1], s[k])
    IN  upTo[n]

(* Whatever the pieces an answer arrives in, and although an escape sequence *)
(* may be cut anywhere, no control byte reaches the terminal, chunks of     *)
(* bytes are treated like single bytes, and a text without escapes arrives  *)
(* complete.                                                               *)
TerminalSafe ==
    /\ ToSet(shown) \cap Controls = {}
    /\ sanitize_terminal_output(data) = SafeFrom(data, 1)
    /\ "ESC" \notin ToSet(data) => shown = Visible(data, taken)

(* Its inductive invariant. *)
IInv ==
    /\ TypeOK
    /\ ToSet(shown) \cap Controls = {}
    /\ "ESC" \notin ToSet(data) => shown = Visible(data, taken)

(* The three passes of compression together keep exactly the words that are  *)
(* no fillers, squeezed and in order, with one space between them, and what *)
(* was compressed is not changed by compressing it again.                  *)
CompressedAsWords ==
    taken = 0 =>
        /\ compress_context(data) = Compressed(data)
        /\ compress_context(compress_context(data)) = compress_context(data)
=============================================================================

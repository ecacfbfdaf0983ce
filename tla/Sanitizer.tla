------------------------------ MODULE Sanitizer ------------------------------
(***************************************************************************)
(* What of an answer reaches the terminal (src/security/sanitizer.cpp).    *)
(*                                                                         *)
(* A byte is one of its class: "ESC", "BEL" (0x07, which ends an operating *)
(* system command), other control characters and DEL ("CTL"), "[", "]"     *)
(* (also "_" and "P"), the backslash "BSL", a letter ("x"), another visible *)
(* byte ("7"), and the newline "NL" (also the tab).                        *)
(***************************************************************************)
EXTENDS Integers, Sequences, FiniteSetsExt

CONSTANT Chunk   \* bytes the AVX2 loop looks at together

SanitizerAssumption == Chunk \in Nat \ {0}

Finals == {"x", "[", "]", "BSL"}        \* 0x40 to 0x7E
Controls == {"ESC", "BEL", "CTL"}

(* Where the sequence that the escape at i starts is over, in 1..n+1. *)
consume_escape(data, i) ==
    LET n == Len(data)
        after(ends) == IF ends = {} THEN n + 1 ELSE Min(ends)
    IN  IF i = n THEN n + 1
        ELSE CASE data[i + 1] = "[" -> after({k + 1 : k \in {k \in (i + 2)..n : data[k] \in Finals}})
               [] data[i + 1] = "]" ->
                    after({k + 1 : k \in {k \in (i + 2)..n : data[k] = "BEL"}}
                          \cup {k + 2 : k \in {k \in (i + 2)..(n - 1) :
                                                 data[k] = "ESC" /\ data[k + 1] = "BSL"}})
               [] OTHER -> i + 1

(* The loop that looks at one byte at a time, from byte i on. *)
SafeFrom(data, i) ==
    LET from[k \in 1..(Len(data) + 1)] ==
            IF k > Len(data) THEN <<>>
            ELSE IF data[k] = "ESC" THEN from[consume_escape(data, k)]
            ELSE IF data[k] \in Controls THEN from[k + 1]
            ELSE <<data[k]>> \o from[k + 1]
    IN  from[i]

EscapesOnly == {"ESC"}

(* The bytes at which the AVX2 loop stops. *)
Dirty == Controls

(* The whole function where AVX2 is compiled in: chunks while there is one,  *)
(* then the rest byte by byte.                                             *)
sanitize_terminal_output(data) ==
    LET from[k \in 1..(Len(data) + 1)] ==
            LET dirty == {j \in k..(k + Chunk - 1) : data[j] \in Dirty}
                first == Min(dirty)
            IN  IF k + Chunk - 1 > Len(data) THEN SafeFrom(data, k)
                ELSE IF dirty = {} THEN SubSeq(data, k, k + Chunk - 1) \o from[k + Chunk]
                ELSE SubSeq(data, k, first - 1)
                     \o from[IF data[first] = "ESC" THEN consume_escape(data, first)
                             ELSE first + 1]
    IN  from[1]
=============================================================================

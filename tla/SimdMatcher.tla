----------------------------- MODULE SimdMatcher -----------------------------
(***************************************************************************)
(* Byte search and tokens (src/core/simd_matcher.cpp).                     *)
(*                                                                         *)
(* Each search exists four times: a scalar loop, and kernels that compare  *)
(* a block of bytes at once.  The x86 kernels copy the last, partial block *)
(* to a buffer that is otherwise uninitialised and mask its lanes; the     *)
(* NEON kernels finish with the scalar loop.  Offsets start at 0, and a    *)
(* search that finds nothing returns the length.                           *)
(*                                                                         *)
(* The floating-point kernels are left out.                                *)
(***************************************************************************)
EXTENDS Integers, Sequences, FiniteSets, FiniteSetsExt

CONSTANTS Spaces,            \* kWsSet
          W512, W256, W128   \* lanes of a register

MatcherAssumption ==
    W512 \in Nat \ {0} /\ W256 \in Nat \ {0} /\ W128 \in Nat \ {0}

VARIABLES
    level,   \* simd_level(): "Avx512", "Avx2", "Neon" or "Scalar"
    junk     \* what the uninitialised buffer of a tail holds

-----------------------------------------------------------------------------
(* The lanes of a block that hold a byte of set. *)
Lanes(block, set) == {k \in 0..(Len(block) - 1) : block[k + 1] \in set}

FirstFrom(p, off, set) ==
    LET found == {i \in off..(Len(p) - 1) : p[i + 1] \in set}
    IN  IF found = {} THEN Len(p) ELSE Min(found)

find_byte_scalar(p, c) == FirstFrom(p, 0, {c})
count_byte_scalar(p, c) == Cardinality(Lanes(p, {c}))
find_first_of_scalar(p, set) == FirstFrom(p, 0, set)

Block(p, off, W) == SubSeq(p, off + 1, off + W)

(* The buffer tmp with the rest of p, whose length is tail < W. *)
TailBlock(p, off, W) ==
    LET tail == Len(p) - off
    IN  SubSeq(p, off + 1, Len(p)) \o SubSeq(junk, tail + 1, W)

WholeMask(p, off, W) == 0..(W - 1)

TailMask(p, off, W) == 0..(Len(p) - off - 1)

(* The lanes with a byte of set, of the W bytes at off or of what is left. *)
Matches(p, off, set, W) ==
    IF off + W <= Len(p) THEN Lanes(Block(p, off, W), set)
    ELSE Lanes(TailBlock(p, off, W), set) \cap TailMask(p, off, W)

MaskedFind(p, set, W) ==
    LET from[off \in 0..(Len(p) + W)] ==
            IF off >= Len(p) THEN Len(p)
            ELSE IF Matches(p, off, set, W) # {} THEN off + Min(Matches(p, off, set, W))
            ELSE from[off + W]
    IN  from[0]

find_byte_avx512(p, c) == MaskedFind(p, {c}, W512)
find_byte_avx2(p, c) == MaskedFind(p, {c}, W256)
find_first_of_avx512(p, set) == MaskedFind(p, set, W512)
find_first_of_avx2(p, set) == MaskedFind(p, set, W256)

MaskedCount(p, c, W) ==
    LET from[off \in 0..(Len(p) + W)] ==
            IF off >= Len(p) THEN 0
            ELSE Cardinality(Matches(p, off, {c}, W)) + from[off + W]
    IN  from[0]

count_byte_avx512(p, c) == MaskedCount(p, c, W512)
count_byte_avx2(p, c) == MaskedCount(p, c, W256)

(* The NEON kernels: hit says whether a block has a match, lane which lane  *)
(* is returned then, if any.                                               *)
NeonFind(p, set, lane(_)) ==
    LET from[off \in 0..(Len(p) + W128)] ==
            LET hits == Lanes(Block(p, off, W128), set)
            IN  IF off + W128 > Len(p) THEN FirstFrom(p, off, set)
                ELSE IF hits # {} /\ lane(hits) # {} THEN off + Min(lane(hits))
                ELSE from[off + W128]
    IN  from[0]

(* The lane that the byte search returns is one whose comparison gave 0. *)
find_byte_neon(p, c) == NeonFind(p, {c}, LAMBDA hits : (0..(W128 - 1)) \ hits)
find_first_of_neon(p, set) == NeonFind(p, set, LAMBDA hits : hits)

count_byte_neon(p, c) ==
    LET from[off \in 0..(Len(p) + W128)] ==
            IF off + W128 > Len(p) THEN Cardinality({i \in off..(Len(p) - 1) : p[i + 1] = c})
            ELSE Cardinality(Lanes(Block(p, off, W128), {c})) + from[off + W128]
    IN  from[0]

-----------------------------------------------------------------------------
simd_find_byte(p, c) ==
    CASE level = "Avx512" -> find_byte_avx512(p, c)
      [] level = "Avx2"   -> find_byte_avx2(p, c)
      [] level = "Neon"   -> find_byte_neon(p, c)
      [] OTHER            -> find_byte_scalar(p, c)

simd_count_byte(p, c) ==
    CASE level = "Avx512" -> count_byte_avx512(p, c)
      [] level = "Avx2"   -> count_byte_avx2(p, c)
      [] level = "Neon"   -> count_byte_neon(p, c)
      [] OTHER            -> count_byte_scalar(p, c)

(* For a set of up to eight bytes; a larger one is always searched by the   *)
(* scalar loop.                                                            *)
simd_find_first_of(p, set) ==
    CASE level = "Avx512" -> find_first_of_avx512(p, set)
      [] level = "Avx2"   -> find_first_of_avx2(p, set)
      [] level = "Neon"   -> find_first_of_neon(p, set)
      [] OTHER            -> find_first_of_scalar(p, set)

simd_find_ws(p) == simd_find_first_of(p, Spaces)

(* Where the token of p that starts at start ends. *)
TokenEnd(p, start) == start + simd_find_ws(SubSeq(p, start + 1, Len(p)))

(* simd_next_token called until it returns nothing: the begin and end of     *)
(* each token.  Spaces before a token are skipped byte by byte.             *)
simd_tokens(p) ==
    LET from[pos \in 0..Len(p)] ==
            LET starts == {i \in pos..(Len(p) - 1) : p[i + 1] \notin Spaces}
                end    == TokenEnd(p, Min(starts))
            IN  IF starts = {} THEN <<>> ELSE <<<<Min(starts), end>>>> \o from[end]
    IN  from[0]
=============================================================================

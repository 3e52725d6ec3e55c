-------------------------- MODULE GridstoreBitmask --------------------------
(***************************************************************************)
(* The allocator of a Gridstore (bitmask/mod.rs, bitmask/gaps.rs): one bit *)
(* per block, and for each region of bits its largest, its leading and its *)
(* trailing gap.  Bits are looked at in chunks, the machine words of the   *)
(* code; a bit is used when its number is in the set `bits'.               *)
(***************************************************************************)
EXTENDS Integers, Sequences, FiniteSets, Folds

CONSTANTS
    PageBlocks,    \* page_size_bytes / block_size_bytes
    RegionBlocks,  \* region_size_blocks
    ChunkBits      \* usize::BITS

ASSUME SizesAssumption ==
    /\ {PageBlocks, RegionBlocks, ChunkBits} \subseteq Nat \ {0}
    /\ PageBlocks % RegionBlocks = 0 /\ RegionBlocks % ChunkBits = 0

None == -1

LargerOf(a, b) == IF a > b THEN a ELSE b

CeilDiv(a, b) == (a + b - 1) \div b

Least(S) == CHOOSE x \in S : \A y \in S : x <= y

Greatest(S) == CHOOSE x \in S : \A y \in S : x >= y

\* The result of op over the elements of seq, from the first to the last.
Through(op(_, _), base, seq) ==
    MapThenFoldSet(LAMBDA x, acc : op(acc, x), base, LAMBDA i : seq[i], Greatest, DOMAIN seq)

Backwards(seq) == [i \in 1..Len(seq) |-> seq[Len(seq) + 1 - i]]

-----------------------------------------------------------------------------
\* Chunks.

\* The bits of a chunk, the lowest first.
ChunkAt(bits, from) == [i \in 0..(ChunkBits - 1) |-> from + i \in bits]

\* Where the first bit that equals b is, from s on, or the end of the chunk.
NextBit(chunk, b, s) ==
    LET at == {i \in DOMAIN chunk : i >= s /\ chunk[i] = b}
    IN  IF at = {} THEN ChunkBits ELSE Least(at)

\* The same downwards: one above the last bit below s that equals b, or 0.
PreviousBit(chunk, b, s) ==
    LET at == {i \in DOMAIN chunk : i < s /\ chunk[i] = b}
    IN  IF at = {} THEN 0 ELSE 1 + Greatest(at)

LowZeros(chunk) == NextBit(chunk, TRUE, 0)

HighZeros(chunk) == ChunkBits - PreviousBit(chunk, TRUE, ChunkBits)

AllFree(chunk) == \A i \in DOMAIN chunk : ~chunk[i]

AllUsed(chunk) == \A i \in DOMAIN chunk : chunk[i]

\* The most zeros there can be between the first and the last one.
MaxMiddleGap(chunk) == LargerOf(ChunkBits - LowZeros(chunk) - HighZeros(chunk) - 2, 0)

-----------------------------------------------------------------------------
\* find_available_blocks_in_slice: `size' zeros end where the walk is, the first
\* of them is at `start'.

\* The runs of zeros in a chunk that begins at bit `base'.
WalkChunk(acc, chunk, base, num) ==
    LET walk[s \in 0..ChunkBits] ==
            LET size == IF s = 0 THEN acc.size ELSE 0
                start == IF s = 0 THEN acc.start ELSE base + s
                one == NextBit(chunk, TRUE, s)
            IN  CASE one = ChunkBits ->
                        [acc EXCEPT !.size = size + ChunkBits - s, !.start = start]
                  [] one < ChunkBits /\ size + one - s >= num ->
                        [acc EXCEPT !.found = start]
                  [] OTHER -> walk[NextBit(chunk, FALSE, one)]
    IN  walk[0]

SearchChunk(acc, chunk, base, num) ==
    CASE acc.found # None -> acc
      [] acc.found = None /\ AllFree(chunk) -> [acc EXCEPT !.size = @ + ChunkBits]
      [] acc.found = None /\ AllUsed(chunk) ->
            IF acc.size >= num THEN [acc EXCEPT !.found = acc.start]
            ELSE [acc EXCEPT !.size = 0, !.start = base + ChunkBits]
      [] acc.found = None /\ ~AllFree(chunk) /\ ~AllUsed(chunk)
         /\ num > MaxMiddleGap(chunk) ->
            IF acc.size + LowZeros(chunk) >= num THEN [acc EXCEPT !.found = acc.start]
            ELSE [acc EXCEPT !.size = HighZeros(chunk),
                             !.start = base + ChunkBits - HighZeros(chunk)]
      [] OTHER -> WalkChunk(acc, chunk, base, num)

\* The first of num free bits from `from' up to `to', or None.
FindInSlice(bits, from, to, num) ==
    LET chunks == [i \in 1..((to - from) \div ChunkBits) |-> from + (i - 1) * ChunkBits]
        end == Through(LAMBDA acc, base : SearchChunk(acc, ChunkAt(bits, base), base, num),
                       [found |-> None, size |-> 0, start |-> from], chunks)
    IN  CASE end.found # None -> end.found
          [] end.found = None /\ end.size >= num -> end.start
          [] OTHER -> None

-----------------------------------------------------------------------------
\* calculate_gaps: from the last chunk of a region to the first; `current' zeros
\* begin where the walk is.

WalkChunkDown(acc, chunk) ==
    LET walk[s \in 0..ChunkBits, max \in 0..RegionBlocks] ==
            LET current == IF s = ChunkBits THEN acc.current ELSE 0
                one == PreviousBit(chunk, TRUE, s)
            IN  IF one = 0 THEN [max |-> max, current |-> current + s]
                ELSE walk[PreviousBit(chunk, FALSE, one), LargerOf(max, current + s - one)]
    IN  walk[ChunkBits, acc.max]

GapsChunk(acc, chunk) ==
    CASE AllFree(chunk) -> [acc EXCEPT !.current = @ + ChunkBits]
      [] AllUsed(chunk) -> [max |-> LargerOf(acc.max, acc.current), current |-> 0]
      [] ~AllFree(chunk) /\ ~AllUsed(chunk) /\ acc.max > MaxMiddleGap(chunk) ->
            [max |-> LargerOf(acc.max, acc.current + HighZeros(chunk)),
             current |-> LowZeros(chunk)]
      [] OTHER -> WalkChunkDown(acc, chunk)

\* The zeros that a sequence of chunks begins with, counted by zeros(chunk).
Run(chunks, zeros(_)) ==
    Through(LAMBDA acc, chunk :
               IF acc.over THEN acc
               ELSE [sum |-> acc.sum + zeros(chunk), over |-> ~AllFree(chunk)],
            [sum |-> 0, over |-> FALSE], chunks).sum

CalculateGaps(bits, region) ==
    LET chunks == [i \in 1..(RegionBlocks \div ChunkBits) |->
                      ChunkAt(bits, region * RegionBlocks + (i - 1) * ChunkBits)]
        end == Through(GapsChunk, [max |-> 0, current |-> 0], Backwards(chunks))
        max == LargerOf(end.max, end.current)
    IN  IF max = RegionBlocks THEN [max |-> max, leading |-> max, trailing |-> max]
        ELSE [max |-> max, leading |-> Run(chunks, LowZeros),
              trailing |-> Run(Backwards(chunks), HighZeros)]

AllFreeGaps == [max |-> RegionBlocks, leading |-> RegionBlocks, trailing |-> RegionBlocks]

-----------------------------------------------------------------------------
\* Looking for a gap; gaps[r + 1] are those of region r.

\* The first window of regions whose gaps make up num blocks.
MergedGap(gaps, window, num) ==
    LET fits(r) ==
            /\ \A i \in (r + 1)..(r + window - 2) : gaps[i + 1].max = RegionBlocks
            /\ gaps[r + 1].trailing + gaps[r + window].leading
                   + (window - 2) * RegionBlocks >= num
        found == {r \in 0..(Len(gaps) - window) : fits(r)}
    IN  IF found = {} THEN <<>>
        ELSE <<Least(found), Least(found) + window>>

SingleGap(gaps, num) ==
    LET found == {r \in 1..Len(gaps) : gaps[r].max >= num}
    IN  IF found = {} THEN <<>> ELSE <<Least(found) - 1, Least(found)>>

\* The search that does not try one more region than the size needs.
FittingGapMinimal(gaps, num) ==
    LET needed == CeilDiv(num, RegionBlocks)
    IN  IF Len(gaps) = 1 \/ needed = 1 THEN SingleGap(gaps, num)
        ELSE MergedGap(gaps, needed, num)

\* The regions, from the first to the one after the last, or <<>>.
FittingGap(gaps, num) ==
    LET needed == CeilDiv(num, RegionBlocks)
        least == IF needed = 1 THEN SingleGap(gaps, num) ELSE MergedGap(gaps, needed, num)
    IN  CASE Len(gaps) = 1 -> SingleGap(gaps, num)
          [] Len(gaps) # 1 /\ least # <<>> -> least
          [] OTHER -> MergedGap(gaps, needed + 1, num)

\* find_available_blocks: the number of the first block, counted over all pages.
FindAvailable(bits, gaps, num) ==
    LET regions == FittingGap(gaps, num)
    IN  IF regions = <<>> THEN None
        ELSE FindInSlice(bits, regions[1] * RegionBlocks, regions[2] * RegionBlocks, num)

TrailingFree(gaps) ==
    Through(LAMBDA acc, g :
               IF acc.over THEN acc
               ELSE [sum |-> acc.sum + g.trailing, over |-> g.trailing # RegionBlocks],
            [sum |-> 0, over |-> FALSE], Backwards(gaps)).sum
=============================================================================

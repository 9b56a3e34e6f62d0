------------------------------ MODULE GifReader ------------------------------
(***************************************************************************)
(* What a reader of GIF makes of the bytes LZWEncoder has written (GIF89a, *)
(* appendix F): the reference the encoder has to satisfy, defined from the *)
(* format and from nothing in the encoder.  The reader goes from state to  *)
(* state: first it joins the data of the sub-blocks, then it takes codes   *)
(* from them.                                                              *)
(***************************************************************************)
EXTENDS GifLzw

(* Sub-blocks.                                                              *)

\* Behind the size byte, with no data yet.
FirstBlock == [at |-> "block", next |-> 2, data |-> <<>>]

\* One sub-block, at `next`: its length and its data, or the terminator, which is last.
ReadBlock(bytes, r) ==
    IF r.next > Len(bytes) THEN [r EXCEPT !.at = "bad"]
    ELSE LET length == bytes[r.next]
         IN  IF length = 0 THEN [r EXCEPT !.at = IF r.next = Len(bytes) THEN "joined" ELSE "bad"]
             ELSE IF r.next + length > Len(bytes) THEN [r EXCEPT !.at = "bad"]
             ELSE [at |-> "block", next |-> r.next + length + 1,
                   data |-> r.data \o SubSeq(bytes, r.next + 1, r.next + length)]
-----------------------------------------------------------------------------
(* Codes.                                                                   *)

\* The code of `width` bits from bit `pos` on, low bits first.
CodeAt(data, pos, width) ==
    LET Byte(k) == IF k < Len(data) THEN data[k + 1] ELSE 0
        first == pos \div 8
        bits == Byte(first) + 256 * Byte(first + 1) + 65536 * Byte(first + 2)
    IN  (bits \div TwoTo(pos % 8)) % TwoTo(width)

\* At bit pos: the width of the codes, the strings of the codes after EOFCode, the
\* string it had last, and the pixels.
Reader(pos, width, dict, last, out) ==
    [at |-> "code", pos |-> pos, width |-> width, dict |-> dict, last |-> last, out |-> out]

FirstCode == Reader(0, g_init_bits, <<>>, <<>>, <<>>)

\* The string of a code: a pixel, an entry, or the entry to be made next.
StringOf(r, code) ==
    IF code < ClearCode THEN <<code>>
    ELSE IF code <= EOFCode + Len(r.dict) THEN r.dict[code - EOFCode]
    ELSE Append(r.last, Head(r.last))

\* The string last read and the first pixel of this one make an entry, the first
\* time none, and none when the table is full.
Grown(r, string) ==
    IF r.last = <<>> \/ EOFCode + 1 + Len(r.dict) >= maxmaxcode THEN r.dict
    ELSE Append(r.dict, Append(r.last, Head(string)))

\* The codes get wider as soon as the next entry's, which will be `free`, needs it.
WidthFor(width, free) == IF free = TwoTo(width) /\ width < MaxBits THEN width + 1 ELSE width

\* A string code.
TakeString(r, code) ==
    LET string == StringOf(r, code)
        grown == Grown(r, string)
    IN  Reader(r.pos, WidthFor(r.width, EOFCode + 1 + Len(grown)), grown, string, r.out \o string)

\* Any code, once its bits have been passed.
TakeCode(r, code) ==
    IF code = ClearCode THEN Reader(r.pos, g_init_bits, <<>>, <<>>, r.out)
    ELSE IF code = EOFCode THEN [r EXCEPT !.at = "ended"]
    ELSE IF code > EOFCode + Len(r.dict) /\ (code # EOFCode + 1 + Len(r.dict) \/ r.last = <<>>)
         THEN [r EXCEPT !.at = "bad"]
    ELSE TakeString(r, code)

ReadCode(data, r) ==
    IF r.pos + r.width > 8 * Len(data) THEN [r EXCEPT !.at = "bad"]
    ELSE TakeCode([r EXCEPT !.pos = @ + r.width], CodeAt(data, r.pos, r.width))
-----------------------------------------------------------------------------
Step(input, r) ==
    IF r.at = "block" THEN ReadBlock(input, r)
    ELSE IF r.at = "code" THEN ReadCode(input, r)
    ELSE r

\* The reader's state n steps behind r.
After(input, r, n) ==
    LET state[i \in 0..n] == IF i = 0 THEN r ELSE Step(input, state[i - 1])
    IN  state[n]

\* A sub-block is a byte at least, and so is what it takes for a step from code to code
\* to be made eight times.  <<-1>> stands for bytes that are none of the format.
Decode(bytes) ==
    LET blocks == After(bytes, FirstBlock, Len(bytes))
        codes == After(blocks.data, FirstCode, 8 * Len(blocks.data))
    IN  IF Head(bytes) = InitCodeSize /\ blocks.at = "joined" /\ codes.at = "ended"
        THEN codes.out
        ELSE <<-1>>
-----------------------------------------------------------------------------
\* A reader gets back the pixels that were given: the widths change at the same code
\* on both sides, a string used right after it was entered is understood, clear codes
\* come where both tables are full, no bits are lost between bytes, bytes or packets.
DecodesToItsPixels == at = "encoded" => Decode(writer.outs) = pixAry
=============================================================================

------------------------------- MODULE GifLzw -------------------------------
(***************************************************************************)
(* LZWEncoder of BeautyGifEncoder.java: the pixels of a frame, as indexes  *)
(* of the palette, become codes of a growing width, the codes bytes, and   *)
(* the bytes packets of a limited length.  The dictionary is a hash table  *)
(* with open addressing, started afresh with a clear code when it is full. *)
(* What a reader of the GIF format makes of the bytes is in GifReader.     *)
(***************************************************************************)
EXTENDS Integers, SequencesExt

CONSTANTS InitCodeSize,   \* max(2, color_depth); 8 in the source
          MaxBits,        \* BITS = 12
          HSize,          \* HSIZE = 5003, a prime
          PacketSize,     \* 254
          xor(_, _),      \* the exclusive or of the bits of two codes
          Frames          \* bound: the frames given, as sequences of indexes

\* 1 << n
TwoTo(n) == 2^n

\* HSIZE is a prime, for the secondary hash to visit every slot.
ASSUME SizeAssumption ==
    /\ InitCodeSize \in 2..8 /\ MaxBits \in (InitCodeSize + 2)..12
    /\ HSize \in Nat /\ HSize > TwoTo(MaxBits)
    /\ \A d \in 2..(HSize - 1) : HSize % d # 0
    /\ PacketSize \in 1..255
    /\ \A frame \in Frames : frame \in Seq(0..(TwoTo(InitCodeSize) - 1)) /\ Len(frame) > 0
ASSUME XorAssumption ==
    \A a, b \in 0..(TwoTo(MaxBits) - 1) : xor(a, b) \in 0..(TwoTo(MaxBits) - 1)

\* compress() computes hshift from HSIZE: 4 for 8-bit pixels and 12-bit codes, so
\* that the pixel shifted covers the upper bits of a code.
hshift == MaxBits - InitCodeSize
maxmaxcode == TwoTo(MaxBits)
MAXCODE(bits) == TwoTo(bits) - 1
g_init_bits == InitCodeSize + 1
ClearCode == TwoTo(InitCodeSize)
EOFCode == ClearCode + 1
Free == -1      \* htab's mark of an empty slot

VARIABLES
    at,         \* "encode", "outer_loop" or "encoded"
    pixAry,     \* the frame; imgW * imgH is its length
    curPixel,   \* pixels nextPixel() has given
    ent,        \* the code of the string of pixels read and not put out
    free_ent,   \* first unused code
    htab,       \* each slot's prefix code and pixel, in one number, or Free
    codetab,    \* each slot's code
    writer      \* what output() works on

vars == <<at, pixAry, curPixel, ent, free_ent, htab, codetab, writer>>
-----------------------------------------------------------------------------
(* Putting codes out.                                                       *)

\* flush_char: the packet's length and its bytes.
flush_char(w) ==
    IF w.accum = <<>> THEN w
    ELSE [w EXCEPT !.outs = (@ \o <<Len(w.accum)>>) \o w.accum, !.accum = <<>>]

\* char_out: the packet is written as soon as it is full.
char_out(w, c) ==
    LET w1 == [w EXCEPT !.accum = Append(@, c)]
    IN  IF Len(w1.accum) >= PacketSize THEN flush_char(w1) ELSE w1

\* The loops of output(): the low bytes of cur_accum while more than `rest` bits
\* are in it.
ShiftOut(w, rest) ==
    LET count == IF w.cur_bits <= rest THEN 0 ELSE (w.cur_bits - rest + 7) \div 8
        Byte(k) == (w.cur_accum \div TwoTo(8 * k)) % 256
        after[k \in 0..count] == IF k = 0 THEN w ELSE char_out(after[k - 1], Byte(k - 1))
    IN  [after[count] EXCEPT !.cur_accum = @ \div TwoTo(8 * count), !.cur_bits = @ - 8 * count]

\* Mutated form of Widen: the width changes one entry late.
WidenLate(w, free) ==
    IF w.clear_flg
    THEN [w EXCEPT !.n_bits = g_init_bits, !.maxcode = MAXCODE(g_init_bits), !.clear_flg = FALSE]
    ELSE IF free <= w.maxcode + 1 THEN w
    ELSE LET bits == w.n_bits + 1
         IN  [w EXCEPT !.n_bits = bits,
                       !.maxcode = IF bits = MaxBits THEN maxmaxcode ELSE MAXCODE(bits)]

\* Mutated form of Widen: the last width's limit is not set apart.
WidenOn(w, free) ==
    IF w.clear_flg
    THEN [w EXCEPT !.n_bits = g_init_bits, !.maxcode = MAXCODE(g_init_bits), !.clear_flg = FALSE]
    ELSE IF free <= w.maxcode THEN w
    ELSE [w EXCEPT !.n_bits = @ + 1, !.maxcode = MAXCODE(w.n_bits + 1)]

\* The second half of output(): back to the first width after a clear code, one bit
\* more when the next entry would be too big.
Widen(w, free) ==
    IF w.clear_flg
    THEN [w EXCEPT !.n_bits = g_init_bits, !.maxcode = MAXCODE(g_init_bits), !.clear_flg = FALSE]
    ELSE IF free <= w.maxcode THEN w
    ELSE LET bits == w.n_bits + 1
         IN  [w EXCEPT !.n_bits = bits,
                       !.maxcode = IF bits = MaxBits THEN maxmaxcode ELSE MAXCODE(bits)]

\* output(code): the code goes above the bits left over, of which cur_accum is
\* first cleared; whole bytes go out; at the end the rest and the packet do.
output(w, code, free) ==
    LET joined == [w EXCEPT !.cur_accum = (@ % TwoTo(w.cur_bits)) + code * TwoTo(w.cur_bits),
                            !.cur_bits = @ + w.n_bits]
        wider == Widen(ShiftOut(joined, 7), free)
    IN  IF code = EOFCode THEN flush_char(ShiftOut(wider, 0)) ELSE wider
-----------------------------------------------------------------------------
(* The dictionary.                                                          *)

fcode(prefix, c) == c * TwoTo(MaxBits) + prefix

\* The slot looked at after j steps: the secondary hash goes down by disp, round
\* the table.
Probe(prefix, c, j) ==
    LET i == xor(c * TwoTo(hshift), prefix)
        disp == IF i = 0 THEN 1 ELSE HSize - i
    IN  (i - j * disp) % HSize

\* Where the search for a pair stops: at the pair or at an empty slot.
StopsAt(table, prefix, c, j) == table[Probe(prefix, c, j)] \in {fcode(prefix, c), Free}
SearchEnds(table, prefix, c) == \E j \in 0..(HSize - 1) : StopsAt(table, prefix, c, j)
Slot(table, prefix, c) ==
    Probe(prefix, c, CHOOSE j \in 0..(HSize - 1) :
                        /\ StopsAt(table, prefix, c, j)
                        /\ \A k \in 0..(j - 1) : ~StopsAt(table, prefix, c, k))

\* An empty table.
cl_hash == [i \in 0..(HSize - 1) |-> Free]
-----------------------------------------------------------------------------
\* encode() up to compress(): the size byte is written.
Init ==
    /\ at = "encode"
    /\ pixAry \in Frames
    /\ curPixel = 0
    /\ ent = 0
    /\ free_ent = 0
    /\ htab = cl_hash
    /\ codetab = [i \in 0..(HSize - 1) |-> 0]
    /\ writer = [cur_accum |-> 0, cur_bits |-> 0, accum |-> <<>>, outs |-> <<InitCodeSize>>,
                 n_bits |-> g_init_bits, maxcode |-> MAXCODE(g_init_bits), clear_flg |-> FALSE]

\* nextPixel() gives c.
nextPixel(c) ==
    /\ curPixel < Len(pixAry)
    /\ c = pixAry[curPixel + 1]
    /\ curPixel' = curPixel + 1
    /\ UNCHANGED pixAry

\* compress() before its loop: the first pixel and a clear code.
Compress(c) ==
    /\ at = "encode"
    /\ nextPixel(c)
    /\ at' = "outer_loop"
    /\ ent' = c
    /\ free_ent' = ClearCode + 2
    /\ writer' = output(writer, ClearCode, ClearCode + 2)
    /\ UNCHANGED <<htab, codetab>>

\* The string so far and the pixel have a code: read on.
Extend(c) ==
    /\ at = "outer_loop"
    /\ nextPixel(c)
    /\ LET i == Slot(htab, ent, c)
       IN  /\ htab[i] = fcode(ent, c)
           /\ ent' = codetab[i]
    /\ UNCHANGED <<at, free_ent, htab, codetab, writer>>

\* Mutated form of cl_block: the hash table is left as it is.
KeepsTable(w) ==
    /\ UNCHANGED <<htab, codetab>>
    /\ free_ent' = ClearCode + 2
    /\ writer' = output([w EXCEPT !.clear_flg = TRUE], ClearCode, ClearCode + 2)

\* cl_block: clear the table, say so to the reader.
cl_block(w) ==
    /\ htab' = cl_hash
    /\ UNCHANGED codetab
    /\ free_ent' = ClearCode + 2
    /\ writer' = output([w EXCEPT !.clear_flg = TRUE], ClearCode, ClearCode + 2)

\* They have none: put the string's code out; enter the pair, or clear the table.
PutOut(c) ==
    /\ at = "outer_loop"
    /\ nextPixel(c)
    /\ LET i == Slot(htab, ent, c)
           w == output(writer, ent, free_ent)
       IN  /\ htab[i] = Free
           /\ \/ /\ free_ent < maxmaxcode
                 /\ codetab' = [codetab EXCEPT ![i] = free_ent]
                 /\ htab' = [htab EXCEPT ![i] = fcode(ent, c)]
                 /\ free_ent' = free_ent + 1
                 /\ writer' = w
              \/ /\ free_ent >= maxmaxcode
                 /\ cl_block(w)
    /\ ent' = c
    /\ UNCHANGED at

\* No pixel left: the last string, the end code, the block terminator.
Finish ==
    /\ at = "outer_loop"
    /\ curPixel = Len(pixAry)
    /\ at' = "encoded"
    /\ LET w == output(output(writer, ent, free_ent), EOFCode, free_ent)
       IN  writer' = [w EXCEPT !.outs = Append(@, 0)]
    /\ UNCHANGED <<pixAry, curPixel, ent, free_ent, htab, codetab>>

Next ==
    \/ \E c \in ToSet(pixAry) : Compress(c) \/ Extend(c) \/ PutOut(c)
    \/ Finish

Spec == Init /\ [][Next]_vars
-----------------------------------------------------------------------------
\* Types.  A code never needs more than MaxBits bits, nor an index more than HSize.
TypeOK ==
    /\ at \in {"encode", "outer_loop", "encoded"}
    /\ pixAry \in Frames /\ curPixel \in 0..Len(pixAry)
    /\ ent \in 0..(maxmaxcode - 1) /\ free_ent \in 0..maxmaxcode
    /\ htab \in [0..(HSize - 1) -> {Free} \union 0..(TwoTo(MaxBits + InitCodeSize) - 1)]
    /\ codetab \in [0..(HSize - 1) -> 0..(maxmaxcode - 1)]
    /\ writer.n_bits \in g_init_bits..MaxBits
    /\ writer.cur_accum \in Nat /\ writer.cur_bits \in -7..7
    /\ Len(writer.accum) < PacketSize
    /\ writer.outs \in Seq(0..255)

\* The slots in use, and the pair that one holds.
used == {i \in DOMAIN htab : htab[i] # Free}
prefix_of(pair) == pair % TwoTo(MaxBits)
pixel_of(pair) == pair \div TwoTo(MaxBits)

\* compress: every code given since the last clear code is found again under its
\* prefix and pixel, once, whatever collides with it; and a search for a pair that
\* is not there comes to an empty slot, so the probing loop ends.
EveryCodeIsFoundAgain ==
    at = "outer_loop" =>
        /\ {codetab[i] : i \in used} = (ClearCode + 2)..(free_ent - 1)
        /\ Cardinality(used) = free_ent - (ClearCode + 2)
        /\ \A i \in used : Slot(htab, prefix_of(htab[i]), pixel_of(htab[i])) = i
        /\ \A c \in 0..(ClearCode - 1) : SearchEnds(htab, ent, c)
-----------------------------------------------------------------------------
(* The inductive invariant.                                                 *)

Writers == [cur_accum : Nat, cur_bits : Int, accum : Seq(0..255), outs : Seq(0..255),
            n_bits : g_init_bits..MaxBits, maxcode : Nat, clear_flg : BOOLEAN]

\* A packet has room, and the limit is that of the width.
Ready(w) ==
    /\ w \in Writers
    /\ Len(w.accum) < PacketSize
    /\ w.maxcode = IF w.n_bits = MaxBits THEN maxmaxcode ELSE MAXCODE(w.n_bits)

\* Behind output(), less than a byte is left over.
WriterInv ==
    /\ Ready(writer)
    /\ ~writer.clear_flg
    /\ at # "encoded" => writer.cur_bits \in 0..7

\* The search for the pair in slot i gets there, past slots in use that hold other pairs.
Reached(i) ==
    \E j \in 0..(HSize - 1) :
        /\ Probe(prefix_of(htab[i]), pixel_of(htab[i]), j) = i
        /\ \A k \in 0..(j - 1) :
               htab[Probe(prefix_of(htab[i]), pixel_of(htab[i]), k)] \notin {htab[i], Free}

TableInv ==
    /\ at = "encode" => htab = cl_hash
    /\ at = "outer_loop" =>
           /\ free_ent \in (ClearCode + 2)..maxmaxcode
           /\ {codetab[i] : i \in used} = (ClearCode + 2)..(free_ent - 1)
           /\ Cardinality(used) = free_ent - (ClearCode + 2)
           /\ \A i \in used : Reached(i)
           /\ ent \in 0..(ClearCode - 1) \union (ClearCode + 2)..(free_ent - 1)

IInv == TypeOK /\ WriterInv /\ TableInv
=============================================================================

------------------------------ MODULE MCGifLzw ------------------------------
(* GifLzw with 2-bit pixels and codes of at most 4 bits: ten entries fill the  *)
(* table.  See README.md for the bounds.                                       *)
EXTENDS GifReader, Bitwise

ExclusiveOr(a, b) == a ^^ b

\* Every pair in it is new: after it the table is full.
Fills == <<0, 0, 1, 1, 2, 2, 3, 3, 0, 2, 1>>

\* Frames with few colours, whose strings are long; frames that go on in every way
\* when the table is full; frames with several clear codes.
SomeFrames ==
    LET Strings(colours, lengths) == UNION {[1..n -> colours] : n \in lengths}
    IN  Strings({0, 3}, {1, 2, 11}) \union Strings({0, 1, 2, 3}, {4})
            \union {Fills \o rest : rest \in Strings({0, 2, 3}, 1..7)}
            \union {Fills \o rest \o Fills \o rest \o Fills : rest \in Strings({0, 1, 2, 3}, 1..3)}
=============================================================================

------------------------------ MODULE MC_Graphics ------------------------------
(* The string and drawing functions on small inputs.                        *)
EXTENDS Graphics

\* Bytes whose rows and columns of the table differ.
PacketBytes == {0, 1, 18, 52, 128, 170, 255}

\* Words of the table, others, and two whose bytes begin or end like theirs.
Characters == {26228, 38632, 20113, 39118, 22810, 26227, 36712, 49}

\* Two letters, a blank and the ends of lines.
Bytes == {97, 98, SPACE, CR, LF}
Letters == {97, 98}

\* The ends of every length of UTF-8, and of what one UTF-16 unit holds.
Edges == {1, 65, 127, 128, 233, 2047, 2048, 20013, 65535, 65536, 128512, 983039, 983040, 1114111}

SmallInts == (-128..127) \cup (610..760) \cup {-2147483647, 2147483647, 1000000, -65536, 1023}

SmallWords == {<<97>>, <<97, 98>>, <<98>>, <<49, 50>>, <<55>>}

\* ASCII, a line feed, two bytes, three, and a character beyond 16 bits.
SomeGlyphs == {48, 10, 20013, 128512}

\* The corner, and places where a line has room for one more character or two.
Corners == {0, 100, 218, 222, 226, 232, 238} \X {0, 68, 87, 91, 106, 110}

\* Lines of ten pixels, in two bytes.
SomeLines == {<<0, 0>>, <<255, 3>>, <<85, 2>>, <<0, 3>>}

=============================================================================

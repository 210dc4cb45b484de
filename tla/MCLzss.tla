-------------------------------- MODULE MCLzss --------------------------------
(* LZSS with a ring of 16 and strings of 4 bytes.                          *)
EXTENDS Lzss

Over(chars, lengths) == UNION {[1 .. n -> chars] : n \in lengths}

\* Words that begin alike put many strings into one tree; texts of eighteen
\* bytes take the window around the ring and delete nodes with two children.
Words == {<<2, 0>>, <<2, 1>>, <<2, 2>>}
Sentences == {<<2, 1, 2, 2, 2, 0>> \o w[1] \o w[2] \o w[3] \o w[4] \o w[5] \o w[6] :
                w \in [1 .. 6 -> Words]}

\* All short texts over three characters, longer ones over two, and sentences.
MCTexts == Over(0 .. 2, 0 .. 5) \cup Over(1 .. 2, 6 .. 8) \cup Sentences
=============================================================================

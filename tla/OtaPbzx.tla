------------------------------- MODULE OtaPbzx --------------------------------
(***************************************************************************)
(* doPBZX of ota (src/src/ota.c): the chunks of a pbzx file are decoded    *)
(* one after the other into one buffer, which grows as it fills up.        *)
(*                                                                         *)
(* The decoder (decompressXZChunk) is not part of the repository: an       *)
(* intact chunk is decoded up to the room there is, a damaged one to any   *)
(* number of bytes, and doPBZX does not look at what the decoder returns.  *)
(***************************************************************************)
EXTENDS Integers, Sequences

CONSTANTS
    OUT_BUFSIZE,    \* the first size of the buffer
    IntMax,         \* largest value of a C int
    PbzxFiles       \* the sequences of chunks that may be given

\* xz: the chunk begins with the XZ magic; intact: and decodes to `size` bytes.
\* A chunk without the magic is copied, `size` is its length.  whole: the file
\* does not end inside the chunk.
Chunk == [xz : BOOLEAN, intact : BOOLEAN, whole : BOOLEAN, size : Nat]

ASSUME PbzxAssumption ==
    /\ OUT_BUFSIZE \in Nat \ {0}
    /\ IntMax \in Nat /\ OUT_BUFSIZE <= IntMax
    /\ PbzxFiles \subseteq Seq(Chunk)

VARIABLES
    decoder,        \* "idle" (not called), "reading" or how it ended
    chunks,         \* the chunks still to be read
    returnedSize,   \* the size of the buffer
    available,      \* the room left in it
    totalSize,      \* bytes produced
    wanted,         \* history: the bytes the chunks read so far stand for
    clean           \* history: these were XZ, intact and no larger than OUT_BUFSIZE

pbzxVars == <<decoder, chunks, returnedSize, available, totalSize, wanted, clean>>

PbzxInit ==
    /\ decoder = "reading"
    /\ chunks \in PbzxFiles
    /\ returnedSize = OUT_BUFSIZE
    /\ available = returnedSize
    /\ totalSize = 0
    /\ wanted = 0
    /\ clean = TRUE

chunk == Head(chunks)

\* A chunk is taken off the file.
TakeChunk ==
    /\ decoder = "reading" /\ chunks # <<>> /\ chunk.whole
    /\ chunks' = Tail(chunks)
    /\ wanted' = wanted + chunk.size
    /\ clean' = (clean /\ chunk.xz /\ chunk.intact /\ chunk.size <= OUT_BUFSIZE)

\* Mutant: the room left is not adjusted to the larger buffer.
GrowForgotten(room) ==
    IF room >= OUT_BUFSIZE
    THEN available' = room /\ UNCHANGED <<returnedSize, decoder>>
    ELSE /\ returnedSize' = returnedSize + 10 * OUT_BUFSIZE
         /\ available' = room
         /\ UNCHANGED decoder

\* Mutant: the size of the larger buffer is not recorded.
GrowUnrecorded(room) ==
    IF room >= OUT_BUFSIZE
    THEN available' = room /\ UNCHANGED <<returnedSize, decoder>>
    ELSE available' = room + 10 * OUT_BUFSIZE /\ UNCHANGED <<returnedSize, decoder>>

\* Mutant: the buffer grows only when it is full.
GrowLate(room) ==
    IF room > 0
    THEN available' = room /\ UNCHANGED <<returnedSize, decoder>>
    ELSE /\ returnedSize' = returnedSize + 10 * OUT_BUFSIZE
         /\ available' = room + 10 * OUT_BUFSIZE
         /\ UNCHANGED decoder

\* When less than OUT_BUFSIZE is left, a larger buffer takes the place of the
\* old one.  There may be no memory for it, and there is none for a size that
\* has overflowed.
Grow(room) ==
    IF room >= OUT_BUFSIZE
    THEN available' = room /\ UNCHANGED <<returnedSize, decoder>>
    ELSE \/ /\ returnedSize + 10 * OUT_BUFSIZE <= IntMax
            /\ returnedSize' = returnedSize + 10 * OUT_BUFSIZE
            /\ available' = room + 10 * OUT_BUFSIZE
            /\ UNCHANGED decoder
         \/ /\ decoder' = "no_memory"
            /\ UNCHANGED <<returnedSize, available>>

\* A chunk with the XZ magic is decoded into what is left of the buffer.
DecodeXZ ==
    /\ TakeChunk
    /\ chunk.xz
    /\ \E written \in 0 .. IF chunk.size <= available THEN chunk.size ELSE available :
         /\ chunk.intact => written = IF chunk.size <= available THEN chunk.size ELSE available
         /\ totalSize' = totalSize + written
         /\ Grow(available - written)

\* Any other chunk is copied, whether there is room for it or not, and the
\* buffer does not grow.
CopyRaw ==
    /\ TakeChunk
    /\ ~chunk.xz
    /\ IF chunk.size <= available
       THEN /\ totalSize' = totalSize + chunk.size
            /\ available' = available - chunk.size
            /\ UNCHANGED <<returnedSize, decoder>>
       ELSE /\ decoder' = "overrun"
            /\ UNCHANGED <<totalSize, available, returnedSize>>

\* The length of a chunk is not compared with the size of the file.
ReadOutside ==
    /\ decoder = "reading" /\ chunks # <<>> /\ ~chunk.whole
    /\ decoder' = "outside"
    /\ UNCHANGED <<chunks, returnedSize, available, totalSize, wanted, clean>>

PbzxReturn ==
    /\ decoder = "reading" /\ chunks = <<>>
    /\ decoder' = "returned"
    /\ UNCHANGED <<chunks, returnedSize, available, totalSize, wanted, clean>>

PbzxNext == DecodeXZ \/ CopyRaw \/ ReadOutside \/ PbzxReturn

PbzxSpec == PbzxInit /\ [][PbzxNext]_pbzxVars

-----------------------------------------------------------------------------

PbzxTypeOK ==
    /\ decoder \in {"idle", "reading", "returned", "no_memory", "overrun", "outside"}
    /\ chunks \in Seq(Chunk)
    /\ returnedSize \in 1 .. IntMax
    /\ available \in 0 .. returnedSize
    /\ totalSize \in Nat /\ wanted \in Nat
    /\ clean \in BOOLEAN

\* What processFile is told to walk is what was written, all of it inside the
\* buffer: the sum of what is used and what is left is the buffer, whatever the
\* mixture of chunks and however often the buffer grew.
BufferIsAccounted == decoder \in {"reading", "returned"} => totalSize = returnedSize - available

\* "Largest chunk I've seen is 8MB. This is double that" (line 511): as long as
\* chunks are XZ, intact and no larger than the first buffer, no byte is lost.
NothingLost == clean /\ decoder \in {"reading", "returned"} => totalSize = wanted
=============================================================================

-------------------------------- MODULE Md5 --------------------------------
(***************************************************************************)
(* md5.c: which bytes md5_string and md5_file hand to md5_transform, block *)
(* by block.  A byte is its position in the stream that is hashed, which   *)
(* is the message, the padding and the eight bytes of the length, so what  *)
(* holds here holds of every message.  What md5_transform makes of a block *)
(* is left out: the digest is a function of the blocks.                    *)
(***************************************************************************)
EXTENDS Integers

CONSTANTS Word,           \* how many values an unsigned int has (2^32)
          ReadSize,       \* MD5_READ_DATA_SIZE
          MessageLengths  \* the lengths of the files and strings hashed

\* md5_string is given its length as an unsigned int.
ASSUME Md5Assumption ==
    /\ Word \in Nat \ {0} /\ Word % 512 = 0
    /\ ReadSize \in Nat \ {0} /\ ReadSize < Word - 64
    /\ MessageLengths \subseteq Nat

VARIABLES ctx,      \* the md5_ctx, with what was given and taken so far
          job,      \* "none", "file" (in md5_file's loop), "digest", "failed", or
                    \* "looping" (in md5_update's)
          message,  \* length of the message
          unread,   \* bytes of the file that were not read yet
          coded     \* the length field, as md5_encode was given it

md5Vars == <<ctx, job, message, unread, coded>>

BlockSize == 64

\* The 64 positions from p on.
Block(p) == [i \in 0 .. BlockSize - 1 |-> p + i]

\* lo and hi are count; "given" and "taken" are the positions that md5_update
\* got and that md5_transform used; "straight" says that every block was the
\* next 64 positions.
md5_init ==
    [lo |-> 0, hi |-> 0, buffer |-> [i \in 0 .. BlockSize - 1 |-> -1],
     given |-> 0, taken |-> 0, straight |-> TRUE]

Index(c) == (c.lo \div 8) % BlockSize

\* A plausible bug: the carry is lost.
Counted_NoCarry(c, n) ==
    [c EXCEPT !.lo = (@ + 8 * n) % Word, !.given = @ + n]

\* count, as a number of bits in two words.
Counted(c, n) ==
    LET bits == (8 * n) % Word
        lo == (c.lo + bits) % Word
        carry == IF lo < bits THEN 1 ELSE 0
    IN  [c EXCEPT !.lo = lo,
                  !.hi = (@ + carry + (8 * n) \div Word) % Word,
                  !.given = @ + n]

\* The input fills the buffer up: md5_transform on it, then on every whole
\* block of what follows; the remainder starts the buffer.
Transformed(c, n) ==
    LET partlen == BlockSize - Index(c)
        filled == [i \in 0 .. BlockSize - 1 |->
                     IF i >= Index(c) THEN c.given + i - Index(c) ELSE c.buffer[i]]
        loops == (n - partlen) \div BlockSize
        i == partlen + loops * BlockSize
    IN  [Counted(c, n) EXCEPT
            !.straight = /\ @
                         /\ filled = Block(c.taken)
                         /\ loops > 0 => c.given + partlen = c.taken + BlockSize,
            !.taken = @ + (1 + loops) * BlockSize,
            !.buffer = [k \in 0 .. BlockSize - 1 |->
                          IF k < n - i THEN c.given + i + k ELSE filled[k]]]

\* The input does not fill the buffer.
Buffered(c, n) ==
    [Counted(c, n) EXCEPT
        !.buffer = [k \in 0 .. BlockSize - 1 |->
                      IF k >= Index(c) /\ k < Index(c) + n
                      THEN c.given + k - Index(c) ELSE c.buffer[k]]]

\* A plausible bug: an input that fills the buffer exactly waits for more.
md5_update_Strict(c, n) ==
    IF n > BlockSize - Index(c) THEN Transformed(c, n) ELSE Buffered(c, n)

md5_update(c, n) ==
    IF n >= BlockSize - Index(c) THEN Transformed(c, n) ELSE Buffered(c, n)

\* A plausible bug: no extra block when the length does not fit in this one.
PadLen_OneBlock(c) == IF Index(c) < 57 THEN 57 - Index(c) ELSE 120 - Index(c)

PadLen(c) == IF Index(c) < 56 THEN 56 - Index(c) ELSE 120 - Index(c)

\* PADDING up to the length field, then the length field.
md5_final(c) == md5_update(md5_update(c, PadLen(c)), 8)

Finish(c) ==
    /\ ctx' = md5_final(c)
    /\ coded' = <<c.lo, c.hi>>
    /\ job' = "digest"

-----------------------------------------------------------------------------
Md5Init ==
    /\ ctx = md5_init
    /\ job = "none"
    /\ message = 0
    /\ unread = 0
    /\ coded = <<0, 0>>

\* The index of the last block and 64 are more than an unsigned int has.
IndexWraps(n) == n >= Word - BlockSize

md5_string ==
    /\ job = "none"
    /\ \E n \in MessageLengths :
          /\ n < Word /\ ~IndexWraps(n)
          /\ message' = n
          /\ Finish(md5_update(md5_init, n))
    /\ UNCHANGED unread

\* The index of md5_update goes back to 0, past the end of the string and then
\* from its start again: this never ends, unless it ends the process.
StringLoops ==
    /\ job = "none"
    /\ \E n \in MessageLengths :
          /\ n < Word /\ IndexWraps(n)
          /\ message' = n
          /\ ctx' = [Counted(md5_init, n) EXCEPT !.straight = FALSE]
    /\ job' = "looping"
    /\ UNCHANGED <<unread, coded>>

\* md5_file opens a file of some length.
FileOpened ==
    /\ job = "none"
    /\ \E n \in MessageLengths :
          /\ message' = n
          /\ unread' = n
    /\ job' = "file"
    /\ ctx' = md5_init
    /\ UNCHANGED coded

\* A plausible bug: a read of 0 bytes is taken for the end, a short one is not,
\* and a whole one is.
LastRead_Inverted(n) == n = 0 \/ n = ReadSize

LastRead(n) == n = 0 \/ n < ReadSize

\* One turn of the loop; a file gives less than was asked for at its end only.
FileRead ==
    /\ job = "file"
    /\ LET n == IF unread < ReadSize THEN unread ELSE ReadSize
           c == md5_update(ctx, n)
       IN  /\ unread' = unread - n
           /\ IF LastRead(n) THEN Finish(c)
                             ELSE ctx' = c /\ UNCHANGED <<coded, job>>
    /\ UNCHANGED message

\* open or read fails: no digest is written.
FileFails ==
    /\ job \in {"none", "file"}
    /\ job' = "failed"
    /\ UNCHANGED <<ctx, message, unread, coded>>

Md5Next == md5_string \/ StringLoops \/ FileOpened \/ FileRead \/ FileFails

Md5Spec == Md5Init /\ [][Md5Next]_md5Vars

-----------------------------------------------------------------------------
(* Properties.                                                             *)

\* The types, and how the words of the count relate to what was given.
Md5TypeOK ==
    /\ ctx \in [lo : 0 .. Word - 1, hi : 0 .. Word - 1,
                buffer : [0 .. BlockSize - 1 -> Int],
                given : Nat, taken : Nat, straight : BOOLEAN]
    /\ job \in {"none", "file", "digest", "failed", "looping"}
    /\ message \in Nat /\ unread \in Nat
    /\ coded \in (0 .. Word - 1) \X (0 .. Word - 1)

\* However the message was cut into inputs, md5_transform has got its bytes
\* in order, 64 at a time, each once, and the buffer holds the rest; but of a
\* string whose blocks the index of md5_update cannot count.
BlocksInOrder ==
    job # "looping" =>
        /\ ctx.straight
        /\ ctx.given - ctx.taken = Index(ctx)
        /\ \A i \in 0 .. Index(ctx) - 1 : ctx.buffer[i] = ctx.taken + i

\* A digest is of the whole message: nothing of the file was left unread, the
\* stream ends with a block, the padding is 1 to 64 bytes (PADDING has 64),
\* and the length field is the number of bits, in two words.
DigestOfWhole ==
    job = "digest" =>
        /\ unread = 0
        /\ ctx.taken = ctx.given
        /\ ctx.given - 8 - message \in 1 .. 64
        /\ coded[1] + Word * coded[2] = (8 * message) % (Word * Word)
=============================================================================

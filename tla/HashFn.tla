------------------------------- MODULE HashFn -------------------------------
(***************************************************************************)
(* gfs_hashfn (hash.c): the words and bytes of the message it takes, one   *)
(* memory access a step.  The mixing of dm_round is left out.              *)
(***************************************************************************)
EXTENDS Integers

CONSTANT HashLengths   \* lengths of the messages

ASSUME HashAssumption == HashLengths \subseteq Nat

VARIABLES len,         \* length of the message
          quads,       \* full_quads - i: runs of the first loop that are left
          slot,        \* j: the word of the array that is filled next
          intmsg,      \* the next word of the message
          full_words,
          full_bytes,
          hashing      \* "quads", "tail", "bytes" or "done"

hashVars == <<len, quads, slot, intmsg, full_words, full_bytes, hashing>>

HashInit ==
    /\ len \in HashLengths
    /\ quads = len \div 16
    /\ slot = 0
    /\ intmsg = 0
    /\ full_words = len \div 4
    /\ full_bytes = len
    /\ hashing = "quads"

\* Word intmsg of the message goes to the array.
TakeWord ==
    /\ intmsg' = intmsg + 1
    /\ full_words' = full_words - 1
    /\ full_bytes' = full_bytes - 4

\* Four words make an array, which dm_round mixes in.
QuadWord ==
    /\ hashing = "quads"
    /\ quads > 0
    /\ TakeWord
    /\ slot' = (slot + 1) % 4
    /\ quads' = IF slot = 3 THEN quads - 1 ELSE quads
    /\ UNCHANGED <<len, hashing>>

QuadsEnd ==
    /\ hashing = "quads"
    /\ quads = 0
    /\ hashing' = "tail"
    /\ UNCHANGED <<len, quads, slot, intmsg, full_words, full_bytes>>

\* A plausible bug: the last loop takes words while there are bytes.
MoreWords_Bytes == full_bytes > 0

MoreWords == full_words # 0

TailWord ==
    /\ hashing = "tail"
    /\ slot < 4
    /\ MoreWords
    /\ TakeWord
    /\ slot' = slot + 1
    /\ UNCHANGED <<len, quads, hashing>>

\* The word is the padding, shifted to take in the bytes that are left.
TailPad ==
    /\ hashing = "tail"
    /\ slot < 4
    /\ ~MoreWords
    /\ hashing' = "bytes"
    /\ UNCHANGED <<len, quads, slot, intmsg, full_words, full_bytes>>

TailByte ==
    /\ hashing = "bytes"
    /\ full_bytes # 0
    /\ full_bytes' = full_bytes - 1
    /\ UNCHANGED <<len, quads, slot, intmsg, full_words, hashing>>

BytesEnd ==
    /\ hashing = "bytes"
    /\ full_bytes = 0
    /\ slot' = slot + 1
    /\ hashing' = "tail"
    /\ UNCHANGED <<len, quads, intmsg, full_words, full_bytes>>

HashEnds ==
    /\ hashing = "tail"
    /\ slot = 4
    /\ hashing' = "done"
    /\ UNCHANGED <<len, quads, slot, intmsg, full_words, full_bytes>>

HashNext ==
    \/ QuadWord \/ QuadsEnd \/ TailWord \/ TailPad \/ TailByte \/ BytesEnd \/ HashEnds

HashSpec == HashInit /\ [][HashNext]_hashVars

-----------------------------------------------------------------------------
(* Properties.                                                             *)

\* No access is outside the message, no byte is taken twice (what was taken is
\* a prefix of the message), a byte is taken alone only when no word is left,
\* and at the end every byte was taken.
HashTakesAll ==
    LET alone == len - 4 * intmsg - full_bytes
    IN  /\ full_bytes >= 0 /\ full_words >= 0 /\ slot \in 0 .. 4
        /\ alone >= 0
        /\ alone > 0 => full_words = 0 /\ (hashing = "bytes" \/ full_bytes = 0)
        /\ hashing = "done" => full_bytes = 0 /\ alone <= 3
=============================================================================

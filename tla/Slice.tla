------------------------------- MODULE Slice -------------------------------
(***************************************************************************)
(* slice.c: a text with its size, inline in the slice when it is short and *)
(* on the heap otherwise.  Nothing in a slice says which of the two it is  *)
(* but its size, and nothing says whether it was initialised at all.  A    *)
(* text is a name and a length; a text cut short keeps its name.           *)
(***************************************************************************)
EXTENDS Naturals

CONSTANTS StackSlices,   \* local variables: garbage until they are initialised
          HeapSlices,    \* what slice_create returns
          TextNames, Lengths,
          Blocks,        \* heap blocks for the texts
          NoText,        \* the null char pointer, and the content of no block
          NoBlock,       \* the null pointer in data.ptr
          Wild           \* bytes that were not written as a pointer

Texts == [name : TextNames, len : Lengths]

ASSUME SliceAssumption ==
    /\ Lengths \subseteq Nat /\ 0 \in Lengths
    /\ NoText \notin Texts
    /\ NoBlock \notin Blocks /\ Wild \notin Blocks /\ Wild # NoBlock

Slices == StackSlices \cup HeapSlices

VARIABLES held,     \* the slices
          block,    \* the text in each heap block, NoText when it is free
          asked,    \* the text each slice was last set to
          over,     \* blocks whose slice was written over
          misused,  \* slices that were freed as garbage, or given to slice_strncpy
          corrupt   \* what freed a pointer, or wrote a place, not its own

sliceVars == <<held, block, asked, over, misused, corrupt>>

SLICE_INTERNAL_SZ == 16

\* The two members of the union share their room: writing one spoils the other.
Inline(t) == [state |-> "set", sz |-> t.len, buf |-> t, ptr |-> Wild]
OnHeap(n, b) == [state |-> "set", sz |-> n, buf |-> NoText, ptr |-> b]
Garbage == [state |-> "raw", sz |-> 0, buf |-> NoText, ptr |-> Wild]
Absent == [state |-> "absent", sz |-> 0, buf |-> NoText, ptr |-> Wild]

FreeBlocks == {b \in Blocks : block[b] = NoText}

\* What slice_value points at: nothing for an empty text.
slice_value(s) ==
    LET e == held[s]
    IN  IF e.sz = 0 THEN NoText
        ELSE IF e.sz < SLICE_INTERNAL_SZ THEN e.buf
        ELSE IF e.ptr \in Blocks THEN block[e.ptr] ELSE NoText

\* A plausible bug: a text that fills the buffer goes there, without room for
\* its end.
Short_Full(n) == n <= SLICE_INTERNAL_SZ

Short(n) == n < SLICE_INTERNAL_SZ

\* The slices and blocks after slice_init of s with v, when the blocks are bl
\* before: strdup may find no memory, and nothing notices.
Stored(s, v, bl) ==
    \/ /\ v = NoText
       /\ held' = [held EXCEPT ![s] = OnHeap(0, NoBlock)]
       /\ block' = bl
    \/ /\ v # NoText /\ Short(v.len)
       /\ held' = [held EXCEPT ![s] = Inline(v)]
       /\ block' = bl
    \/ /\ v # NoText /\ ~Short(v.len)
       /\ \/ \E b \in Blocks :
                /\ bl[b] = NoText
                /\ held' = [held EXCEPT ![s] = OnHeap(v.len, b)]
                /\ block' = [bl EXCEPT ![b] = v]
          \/ /\ held' = [held EXCEPT ![s] = OnHeap(v.len, NoBlock)]
             /\ block' = bl

Frees(s) == held[s].sz >= SLICE_INTERNAL_SZ

\* What is lost when s is written over.
Forgotten(s) == IF Frees(s) THEN Blocks \cap {held[s].ptr} ELSE {}

\* The blocks after slice_deinit of s.
Released(s) ==
    IF Frees(s) /\ held[s].ptr \in Blocks
    THEN [block EXCEPT ![held[s].ptr] = NoText] ELSE block

\* A plausible bug: the size stays, so that the next deinit frees once more.
Deinited_KeepsSize(s) == held[s]

\* A short slice keeps its size and its text.
Deinited(s) == IF Frees(s) THEN [held[s] EXCEPT !.sz = 0] ELSE held[s]

\* free of a pointer that is not a live block.
FreesWild(s) ==
    Frees(s) /\ held[s].ptr # NoBlock /\ held[s].ptr \notin Blocks \ FreeBlocks

\* What slice_deinit of an initialised slice adds to corrupt.
Harm(s) == IF FreesWild(s) THEN {"kept"} ELSE {}

-----------------------------------------------------------------------------
SliceInit ==
    /\ held = [s \in Slices |-> IF s \in StackSlices THEN Garbage ELSE Absent]
    /\ block = [b \in Blocks |-> NoText]
    /\ asked = [s \in Slices |-> NoText]
    /\ over = {}
    /\ misused = {}
    /\ corrupt = {}

\* slice_init, of a fresh slice or over a text that it forgets (which
\* bucketset_create does: set_name is initialised twice).
slice_init ==
    /\ \E s \in Slices, v \in Texts \cup {NoText} :
          /\ held[s].state # "absent"
          /\ Stored(s, v, block)
          /\ asked' = [asked EXCEPT ![s] = v]
          /\ over' = over \cup Forgotten(s)
          /\ misused' = misused \ {s}
    /\ UNCHANGED corrupt

\* slice_create and slice_create_with_fmt, on zeroed memory.  Without memory for
\* the slice there is none, and slice_create_with_fmt ends the process.
slice_create ==
    /\ \E s \in HeapSlices, v \in Texts :
          /\ held[s].state = "absent"
          /\ Stored(s, v, block)
          /\ asked' = [asked EXCEPT ![s] = v]
    /\ UNCHANGED <<over, misused, corrupt>>

\* What slice_init of d finds at the value of s: an empty slice has none, and a
\* short text of d itself is cleared before it is read.
ValueFor(d, s) ==
    IF s = d /\ held[s].sz \in 1 .. SLICE_INTERNAL_SZ - 1
    THEN [slice_value(s) EXCEPT !.len = 0] ELSE slice_value(s)

\* slice_init with the value of another slice, or of the same.
slice_copy ==
    /\ \E s, d \in Slices :
          /\ held[s].state = "set" /\ held[d].state # "absent"
          /\ s \notin misused
          /\ Stored(d, ValueFor(d, s), block)
          /\ asked' = [asked EXCEPT ![d] = ValueFor(d, s)]
          /\ over' = over \cup Forgotten(d)
          /\ misused' = misused \ {d}
    /\ UNCHANGED corrupt

\* The text is not the slice's own, which slice_deinit has freed by then.
slice_repace_value ==
    \E s \in Slices, v \in Texts \cup {NoText} :
        /\ held[s].state = "set" /\ s \notin misused
        /\ Stored(s, v, Released(s))
        /\ asked' = [asked EXCEPT ![s] = v]
        /\ corrupt' = corrupt \cup Harm(s)
        /\ UNCHANGED <<over, misused>>

slice_deinit ==
    \E s \in Slices :
        /\ held[s].state = "set" /\ s \notin misused
        /\ block' = Released(s)
        /\ held' = [held EXCEPT ![s] = Deinited(s)]
        /\ corrupt' = corrupt \cup Harm(s)
        /\ asked' = IF Frees(s) THEN [asked EXCEPT ![s] = NoText] ELSE asked
        /\ UNCHANGED <<over, misused>>

\* main of the client deinits three slices it never set when the server cannot
\* be reached, or an option is not given: any bytes are freed, or none.
DeinitGarbage ==
    /\ \E s \in StackSlices :
          /\ held[s].state = "raw"
          /\ misused' = misused \cup {s}
          /\ corrupt' \in {corrupt, corrupt \cup {"garbage"}}
    /\ UNCHANGED <<held, block, asked, over>>

slice_destroy ==
    \E s \in HeapSlices :
        /\ held[s].state = "set" /\ s \notin misused
        /\ block' = Released(s)
        /\ held' = [held EXCEPT ![s] = Absent]
        /\ corrupt' = corrupt \cup Harm(s)
        /\ asked' = [asked EXCEPT ![s] = NoText]
        /\ UNCHANGED <<over, misused>>

\* At most n bytes of v.  A short v is copied over n bytes, past its own end
\* and past the buffer's; a long one is copied over the pointer to the block
\* that was just allocated for it, which is lost.
slice_strncpy ==
    \E s \in Slices, v \in Texts, n \in Lengths \ {0} :
        LET sz == IF n > v.len THEN v.len ELSE n
            cut == [name |-> v.name, len |-> sz]
        IN  /\ held[s].state # "absent"
            /\ misused' = misused \cup {s}
            /\ held' = [held EXCEPT ![s] =
                          IF sz < SLICE_INTERNAL_SZ THEN Inline(cut) ELSE OnHeap(sz, Wild)]
            /\ corrupt' = IF (IF Short(v.len) THEN n ELSE sz) > SLICE_INTERNAL_SZ
                          THEN corrupt \cup {"strncpy"} ELSE corrupt
            /\ asked' = [asked EXCEPT ![s] = cut]
            /\ \/ /\ UNCHANGED block
                  /\ over' = over \cup Forgotten(s)
               \/ \E b \in FreeBlocks :
                     /\ ~Short(v.len)
                     /\ block' = [block EXCEPT ![b] = cut]
                     /\ over' = over \cup Forgotten(s) \cup {b}

SliceNext ==
    \/ slice_init \/ slice_create \/ slice_copy \/ slice_repace_value
    \/ slice_deinit \/ DeinitGarbage \/ slice_destroy \/ slice_strncpy

SliceSpec == SliceInit /\ [][SliceNext]_sliceVars

-----------------------------------------------------------------------------
(* Properties.                                                             *)

\* A slice has the text it was last set to, on the side of the union that its
\* size names: no operation leaves it with another slice's text, with freed
\* memory or with the bytes of a text for a pointer.  An empty text has no
\* value, and a long one for which there was no memory has none either.
SliceHolds ==
    \A s \in Slices \ misused :
        held[s].state = "set" =>
            \/ slice_value(s) = asked[s]
            \/ asked[s] # NoText /\ slice_value(s) = NoText
               /\ (asked[s].len = 0 \/ held[s].ptr = NoBlock)

\* Blocks are freed once, and a block that no slice has any more was lost by
\* initialising over it.  Through a slice that was initialised and not given to
\* slice_strncpy, no pointer is freed but that of its own block.
BlocksAccounted ==
    /\ \A b \in Blocks \ FreeBlocks :
          b \in over \/ \E s \in Slices \ misused : Frees(s) /\ held[s].ptr = b
    /\ \A s, d \in Slices \ misused :
          Frees(s) /\ Frees(d) /\ s # d /\ held[s].ptr = held[d].ptr
              => held[s].ptr \notin Blocks
    /\ "kept" \notin corrupt
=============================================================================

------------------------------ MODULE StrSplit ------------------------------
(***************************************************************************)
(* strsplit (utils/string_utils.c), on which every parser of the program   *)
(* rests: commands at ' ', the commands of --run at ';', key=value at '='  *)
(* and attachment points at '|'.                                           *)
(*                                                                         *)
(* A text is a sequence of symbols of which only the delimiter matters.    *)
(* `start' and the delimiters strchr finds are positions of the text, one  *)
(* past its end for the terminating '\0'.  `heap' is what the call has     *)
(* allocated and not freed: the array, the copy of the text, the parts.    *)
(***************************************************************************)
EXTENDS Integers, Sequences, FiniteSets

CONSTANTS Symbols,        \* what texts are made of
          Delim,          \* the delimiter
          Texts,          \* the texts split
          Limits          \* the values of max_parts, 0 for "no limit"

ASSUME DelimAssumption  == Delim \in Symbols
ASSUME TextsAssumption  == Texts \subseteq Seq(Symbols)
ASSUME LimitsAssumption == Limits \subseteq Nat

Array   == <<"result">>
Copy    == <<"copy">>
Part(k) == <<"part", k>>

VARIABLES str, max_parts, start, index, result, heap,
          at              \* the control point of the call

split == <<str, max_parts, start, index, result, heap, at>>

\* count_char(str, Delim).
CountDelims(text) == Cardinality({j \in DOMAIN text : text[j] = Delim})

\* The first position from j on with one of the symbols, or the end.
EndOf(text) == Len(text) + 1
FirstFrom(text, j, symbols) ==
    CHOOSE k \in j..EndOf(text) :
        /\ k = EndOf(text) \/ text[k] \in symbols
        /\ \A l \in j..(k - 1) : text[l] \notin symbols

\* while (*start == delim) start++, and strchr(start, delim).
Skip(j)   == FirstFrom(str, j, Symbols \ {Delim})
NextDelim == FirstFrom(str, start, {Delim})

\* max_parts == 0 stands for as many parts as there can be.
MaxParts == IF max_parts = 0 THEN CountDelims(str) + 1 ELSE max_parts

SplitInit ==
    /\ str \in Texts
    /\ max_parts \in Limits
    /\ start = 1 /\ index = 0 /\ result = <<>> /\ heap = {}
    /\ at = "enter"

\* calloc of MaxParts + 1 pointers, strdup of the text, and the delimiters it
\* begins with.
Allocate ==
    /\ at = "enter"
    /\ heap' = {Array, Copy}
    /\ start' = Skip(1)
    /\ at' = "loop"
    /\ UNCHANGED <<str, max_parts, index, result>>

AllocateFails ==
    /\ at = "enter"
    /\ at' = "NULL"
    /\ UNCHANGED <<str, max_parts, start, index, result, heap>>

\* Mutant: index < max_parts.
MorePartsOneMore == start < EndOf(str) /\ index < MaxParts /\ NextDelim < EndOf(str)

\* The condition of the loop, and strchr finding a delimiter.
MoreParts == start < EndOf(str) /\ index < MaxParts - 1 /\ NextDelim < EndOf(str)

\* result[index++] = strdup(...), the part that ends before `end'.
Store(end) ==
    /\ index' = index + 1
    /\ result' = Append(result, SubSeq(str, start, end - 1))
    /\ heap' = heap \cup {Part(index')}

\* Mutant: only one delimiter is skipped.
SplitPartOneDelim ==
    /\ at = "loop" /\ MoreParts
    /\ Store(NextDelim)
    /\ start' = NextDelim + 1
    /\ UNCHANGED <<str, max_parts, at>>

\* One iteration.
SplitPart ==
    /\ at = "loop" /\ MoreParts
    /\ Store(NextDelim)
    /\ start' = Skip(NextDelim + 1)
    /\ UNCHANGED <<str, max_parts, at>>

\* What is left of the text is the last part.
LastPart ==
    /\ at = "loop" /\ ~MoreParts
    /\ IF start < EndOf(str) THEN Store(EndOf(str)) ELSE UNCHANGED <<index, result, heap>>
    /\ start' = EndOf(str)
    /\ at' = "end"
    /\ UNCHANGED <<str, max_parts>>

\* What strsplit_free frees: it stops at the first NULL of the array.
strsplit_free == {Array} \cup {Part(k) : k \in 1..index}

\* Mutant: free(result) without the parts.
StrdupFailsFreesArray ==
    /\ at = "loop" /\ start < EndOf(str)
    /\ heap' = heap \ {Copy, Array}
    /\ at' = "NULL"
    /\ UNCHANGED <<str, max_parts, start, index, result>>

\* Either strdup fails.
StrdupFails ==
    /\ at = "loop" /\ start < EndOf(str)
    /\ heap' = heap \ ({Copy} \cup strsplit_free)
    /\ at' = "NULL"
    /\ UNCHANGED <<str, max_parts, start, index, result>>

\* result[index] = NULL and free(copy).
Finish ==
    /\ at = "end"
    /\ heap' = heap \ {Copy}
    /\ at' = "returned"
    /\ UNCHANGED <<str, max_parts, start, index, result>>

SplitNext ==
    \/ Allocate \/ AllocateFails
    \/ SplitPart \/ LastPart \/ StrdupFails
    \/ Finish

SplitSpec == SplitInit /\ [][SplitNext]_split

-----------------------------------------------------------------------------
(* Properties.                                                             *)

\* result has MaxParts + 1 slots: the parts and the NULL that ends them never
\* go beyond it, whatever the number of delimiters.
SplitInBounds == at \notin {"enter", "NULL"} => index + 1 <= MaxParts + 1

\* On failure everything allocated is freed; on success the caller owns the
\* array and exactly the parts that strsplit_free will find in it.
SplitOwnsHeap ==
    /\ at = "NULL" => heap = {}
    /\ at = "returned" => heap = {Array} \cup {Part(k) : k \in 1..index}

\* The runs of symbols between delimiters, in order, the last one allowed
\* extending to the end of the text.
Starts(text) == {j \in DOMAIN text : text[j] # Delim /\ (j = 1 \/ text[j - 1] = Delim)}
Ordinal(text, j) == Cardinality({k \in Starts(text) : k <= j})
Parts(text, limit) ==
    LET limited == {j \in Starts(text) : limit = 0 \/ Ordinal(text, j) <= limit}
        first(k) == CHOOSE j \in limited : Ordinal(text, j) = k
        last(k)  == IF k = limit THEN Len(text) ELSE FirstFrom(text, first(k), {Delim}) - 1
    IN  [k \in 1..Cardinality(limited) |-> SubSeq(text, first(k), last(k))]

\* strsplit returns the parts of its text; a limit of 0 loses none.
SplitsIntoParts == at = "returned" => result = Parts(str, max_parts)
=============================================================================

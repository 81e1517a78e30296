----------------------------- MODULE PtrString -----------------------------
(***************************************************************************)
(* ptr_string.c: strings of signed bytes in a buffer that grows.  The      *)
(* buffer is its capacity; malloc and realloc do not fail.                 *)
(***************************************************************************)
EXTENDS Integers, SequencesExt

CONSTANT PTR_STRING_CHUNK

ASSUME ChunkAssumption == PTR_STRING_CHUNK \in Nat \ {0}

Char == -128..127

\* All bytes that were written lie in the buffer.
PtrString ==
    {str \in [text : Seq(Char), capacity : Nat] : Len(str.text) <= str.capacity}

\* ptr_string, and a string of a given length that is filled at once.
ptr_string(text) == [text |-> text, capacity |-> Len(text)]

ptr_string_new == [text |-> <<>>, capacity |-> PTR_STRING_CHUNK]

ptr_string_length(str) == Len(str.text)

\* Mutant of should_resize: one byte too late.
should_resize_Late(str, extra_length) == ptr_string_length(str) + extra_length > str.capacity + 1

should_resize(str, extra_length) == ptr_string_length(str) + extra_length > str.capacity

resize(str, extra_length) ==
    IF should_resize(str, extra_length)
    THEN str.capacity + extra_length + PTR_STRING_CHUNK
    ELSE str.capacity

ptr_string_append(str, c) ==
    [text |-> Append(str.text, c), capacity |-> resize(str, 1)]

ptr_string_concat(str, str_to_concat) ==
    [text |-> str.text \o str_to_concat.text,
     capacity |-> resize(str, ptr_string_length(str_to_concat))]

ptr_string_insert(str, str_to_insert) ==
    [text |-> str_to_insert.text \o str.text,
     capacity |-> resize(str, ptr_string_length(str_to_insert))]

ptr_string_substring(str, start, end) == ptr_string(SubSeq(str.text, start + 1, end))

ptr_string_clone(str) == ptr_string(str.text)

ptr_string_get_char(str, index) == str.text[index + 1]

ptr_string_find_char_from_index(str, c, index) ==
    LET found == {i \in index..ptr_string_length(str) - 1 : ptr_string_get_char(str, i) = c}
    IN IF found = {} THEN -1 ELSE Min(found)
=============================================================================

---------------------------- MODULE MCBlockDevice ----------------------------
(* BlockDevice for TLC: a caller's buffer is empty, or every word is another. *)
EXTENDS BlockDevice

MCContents == {[k \in 0 .. (MaxCount * Words - 1) |-> c * (k + 1)] : c \in {0, 1}}
=============================================================================

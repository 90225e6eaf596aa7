----------------------------- MODULE BlockStore -----------------------------
(***************************************************************************)
(* What the callers of block_device_read and block_device_write rely on,   *)
(* the file system first of all: a call moves the words of its blocks      *)
(* between the caller's buffer and the device, in order, and returns 0     *)
(* only when all of them have arrived; without a device it returns -1 and  *)
(* moves nothing.  Only the words of the call's own blocks change.         *)
(***************************************************************************)
EXTENDS Integers

CONSTANTS Blocks,    \* blocks of the device
          MaxCount,  \* blocks of the caller's buffer
          Words,     \* words of a block
          Vals,      \* values of a word, and the one of an erased word
          Erased,
          Contents,  \* what callers' buffers hold when they call
          Counts,    \* block counts of calls
          NoCall

VARIABLES
    store,   \* the device's words
    buffer,  \* the caller's words
    call,    \* the call under way, or NoCall
    moved,   \* how many of its words have arrived
    ret      \* what the last call returned

vars == <<store, buffer, call, moved, ret>>

Buffers == [0 .. (MaxCount * Words - 1) -> Vals]
Call == {c \in [op : {"read", "write"}, lba : 0 .. (Blocks - 1), n : Counts] :
           c.lba + c.n <= Blocks}

\* Words from .. to - 1 of call c copied between device and buffer.
Stored(c, from, to) ==
    [w \in DOMAIN store |-> IF w - c.lba * Words \in from .. (to - 1)
                            THEN buffer[w - c.lba * Words] ELSE store[w]]
Fetched(c, from, to) ==
    [k \in DOMAIN buffer |-> IF k \in from .. (to - 1)
                             THEN store[c.lba * Words + k] ELSE buffer[k]]

Init ==
    /\ store = [w \in 0 .. (Blocks * Words - 1) |-> Erased]
    /\ buffer \in Contents
    /\ call = NoCall
    /\ moved = 0
    /\ ret = 0

\* A caller fills its buffer and calls.
Begin(c, contents) ==
    /\ call = NoCall
    /\ call' = c
    /\ buffer' = contents
    /\ moved' = 0
    /\ UNCHANGED <<store, ret>>

Refuse ==
    /\ call = NoCall
    /\ ret' = -1
    /\ UNCHANGED <<store, buffer, call, moved>>

Transfer ==
    /\ call # NoCall
    /\ moved' \in (moved + 1) .. (call.n * Words)
    /\ store' = IF call.op = "write" THEN Stored(call, moved, moved') ELSE store
    /\ buffer' = IF call.op = "read" THEN Fetched(call, moved, moved') ELSE buffer
    /\ UNCHANGED <<call, ret>>

Return ==
    /\ call # NoCall
    /\ moved = call.n * Words
    /\ call' = NoCall
    /\ moved' = 0
    /\ ret' = 0
    /\ UNCHANGED <<store, buffer>>

Next ==
    \/ \E c \in Call, contents \in Contents : Begin(c, contents)
    \/ Refuse \/ Transfer \/ Return

Spec == Init /\ [][Next]_vars
=============================================================================

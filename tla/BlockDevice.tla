----------------------------- MODULE BlockDevice -----------------------------
(***************************************************************************)
(* The block device drivers, src/kern/drivers/block/block_device.c: the    *)
(* UFS driver, which leaves a descriptor in memory, rings a doorbell and   *)
(* polls it, and the eMMC driver, which issues commands through registers  *)
(* and moves the data word by word through a FIFO.  No driver waits with a *)
(* timeout.                                                                *)
(*                                                                         *)
(* The controllers are known only from how the drivers use them: one step  *)
(* of a controller comes at any time after the step of the driver that     *)
(* asks for it.  The eMMC controller reports TRANSFER_COMPLETE for every   *)
(* command, which is what emmc_send_command waits for.  They see the       *)
(* driver's accesses to memory and registers in program order; the code    *)
(* has no barrier between the descriptor and the doorbell.                 *)
(***************************************************************************)
EXTENDS Integers, Sequences

CONSTANTS Blocks, MaxCount, Words, Vals, Erased, Contents, Counts, NoCall,  \* as in BlockStore
          LbaMod,    \* 2^32: an address has four bytes in the descriptor
          CountMod,  \* 2^16: a block count has two
          BytesMod,  \* 2^32, the modulus of the byte count, here of words
          Types      \* the types set_active_block_device is called with

ASSUME BlockDeviceAssumption ==
    /\ {Blocks, MaxCount, Words, LbaMod, CountMod, BytesMod} \subseteq Nat \ {0}
    /\ Counts \subseteq 0 .. MaxCount
    /\ Blocks <= LbaMod /\ MaxCount < CountMod /\ MaxCount * Words <= BytesMod
    /\ Erased \in Vals /\ Contents \subseteq [0 .. (MaxCount * Words - 1) -> Vals]
    /\ Types \subseteq {"NONE", "UFS", "EMMC"}

VARIABLES
    store, buffer, call, ret,  \* as in BlockStore
    moved,     \* history: words of the call that have arrived
    active,    \* active_block_device_type
    pc,        \* where the driver is
    word,      \* word of the call the eMMC loops are at, i * Words + j
    reset,     \* UFS: CONTROLLER_RESET, CONTROLLER_ENABLE, CONTROLLER_STATUS
    enable,
    status,
    list_base, \* UFS: TRANSFER_REQ_LIST_BASE points to the descriptor list
    doorbell,  \* UFS: TRANSFER_REQ_DOORBELL
    trd, prdt, \* UFS: the descriptor list's first entry and its data entry
    dma,       \* UFS controller: the request it carries out
    command,   \* eMMC: COMMAND and ARGUMENT, a command the controller has not taken
    inhibit,   \* eMMC: CMD_INHIBIT
    complete,  \* eMMC: TRANSFER_COMPLETE in INTERRUPT_STATUS
    fifo,      \* eMMC: the words behind DATA
    card       \* eMMC controller: what it transfers, and the next block

Store == INSTANCE BlockStore

ASSUME NoCallAssumption == NoCall \notin Store!Call

vars  == <<store, buffer, call, moved, ret>>
ufs   == <<reset, enable, status, list_base, doorbell, trd, prdt, dma>>
emmc  == <<command, inhibit, complete, fifo, card, word>>
local == <<active, pc>>
all   == <<vars, local, ufs, emmc>>

Trd  == [op : {"none", "read", "write"}, lba : 0 .. (LbaMod - 1), n : 0 .. (CountMod - 1)]
Idle == [op |-> "none", lba |-> 0, n |-> 0]
Card == [op : {"none", "read", "write"}, next : 0 .. Blocks]
Stopped == [op |-> "none", next |-> 0]
Commands == [cmd : {"none", "read", "write", "stop"}, arg : 0 .. (LbaMod - 1)]
NoCommand == [cmd |-> "none", arg |-> 0]

\* Firmware may have left the UFS controller running.
Init ==
    /\ Store!Init
    /\ active = "NONE"
    /\ pc = "idle"
    /\ word = 0
    /\ reset = FALSE /\ doorbell = FALSE
    /\ enable \in BOOLEAN /\ status = enable /\ list_base = enable
    /\ trd = Idle /\ prdt = 0 /\ dma = Idle
    /\ command = NoCommand
    /\ inhibit = FALSE /\ complete = FALSE
    /\ fifo = <<>>
    /\ card = Stopped

At(from, to) == pc = from /\ pc' = to

set_active_block_device(type) ==
    /\ pc = "idle"
    /\ active' = type
    /\ UNCHANGED <<vars, pc, ufs, emmc>>

\* block_device_read and block_device_write: the call goes to the active
\* driver, and without one it returns -1.  eMMC returns at once for no blocks.
block_device_call(c, contents) ==
    /\ pc = "idle"
    /\ IF active = "NONE" THEN ret' = -1 /\ UNCHANGED <<buffer, call, moved, pc>>
       ELSE /\ call' = c /\ buffer' = contents /\ moved' = 0
            /\ pc' = CASE active = "UFS" -> "u_build"
                      [] active = "EMMC" -> IF c.n = 0 THEN "return" ELSE "e_issue"
            /\ UNCHANGED ret
    /\ UNCHANGED <<store, active, ufs, emmc>>

Return ==
    /\ At("return", "idle")
    /\ call' = NoCall /\ ret' = 0 /\ moved' = 0 /\ word' = 0
    /\ UNCHANGED <<store, buffer, active, ufs, command, inhibit, complete, fifo, card>>

-----------------------------------------------------------------------------
(* UFS *)

\* ufs_init: reset, enable, then the address of the descriptor list.
ufs_init ==
    /\ \/ /\ At("idle", "u_reset")
          /\ reset' = TRUE
          /\ UNCHANGED <<enable, list_base>>
       \/ /\ At("u_reset", "u_enable") /\ ~reset
          /\ enable' = TRUE
          /\ UNCHANGED <<reset, list_base>>
       \/ /\ At("u_enable", "idle") /\ status
          /\ list_base' = TRUE
          /\ UNCHANGED <<reset, enable>>
    /\ UNCHANGED <<vars, active, status, doorbell, trd, prdt, dma, emmc>>

\* ufs_send_command clears and fills the data entry and the descriptor: the
\* count of bytes less one, the address and the block count in the command.
ufs_send_command ==
    /\ At("u_build", "u_ring")
    /\ prdt' = (call.n * Words - 1) % BytesMod
    /\ trd' = [op |-> call.op, lba |-> call.lba % LbaMod, n |-> call.n % CountMod]
    /\ UNCHANGED <<vars, active, reset, enable, status, list_base, doorbell, dma, emmc>>

Ring ==
    /\ At("u_ring", "u_wait")
    /\ doorbell' = TRUE
    /\ UNCHANGED <<vars, active, reset, enable, status, list_base, trd, prdt, dma, emmc>>

\* Slip: the doorbell is not polled.
Answered_Unpolled == TRUE

\* The polling loop ends when the doorbell is clear.
Answered == ~doorbell

Wait ==
    /\ At("u_wait", "return")
    /\ Answered
    /\ UNCHANGED <<vars, active, ufs, emmc>>

\* The controller: a reset stops it, enabling makes it ready, and while it is
\* ready and knows the list it fetches a request, moves its words and clears
\* the doorbell.
UfsController ==
    \/ /\ reset
       /\ reset' = FALSE /\ enable' = FALSE /\ status' = FALSE
       /\ doorbell' = FALSE /\ list_base' = FALSE /\ dma' = Idle
       /\ UNCHANGED <<vars, local, trd, prdt, emmc>>
    \/ /\ enable /\ ~status /\ ~reset
       /\ status' = TRUE
       /\ UNCHANGED <<vars, local, reset, enable, list_base, doorbell, trd, prdt, dma, emmc>>
    \/ /\ status /\ list_base /\ doorbell /\ dma = Idle
       /\ dma' = trd
       /\ UNCHANGED <<vars, local, reset, enable, status, list_base, doorbell, trd, prdt, emmc>>
    \/ /\ dma # Idle /\ moved < dma.n * Words /\ moved <= prdt
       /\ moved' = moved + 1
       /\ store' = IF dma.op = "write" THEN Store!Stored(dma, moved, moved') ELSE store
       /\ buffer' = IF dma.op = "read" THEN Store!Fetched(dma, moved, moved') ELSE buffer
       /\ UNCHANGED <<call, ret, local, ufs, emmc>>
    \/ /\ dma # Idle /\ (moved = dma.n * Words \/ moved > prdt)
       /\ dma' = Idle
       /\ doorbell' = FALSE
       /\ UNCHANGED <<vars, local, reset, enable, status, list_base, trd, prdt, emmc>>

-----------------------------------------------------------------------------
(* eMMC *)

\* emmc_send_command up to the write of COMMAND: with no command under way.
Issue(from, to, cmd, arg) ==
    /\ At(from, to)
    /\ ~inhibit
    /\ command' = [cmd |-> cmd, arg |-> arg % LbaMod]
    /\ inhibit' = TRUE
    /\ UNCHANGED <<vars, active, ufs, complete, fifo, card, word>>

\* Slip: TRANSFER_COMPLETE is left set.
Acknowledge_Forgotten == complete /\ UNCHANGED complete

\* The end of emmc_send_command: TRANSFER_COMPLETE is awaited and cleared.
Acknowledge == complete /\ complete' = FALSE

emmc_send_command(from, to) ==
    /\ At(from, to)
    /\ Acknowledge
    /\ UNCHANGED <<vars, active, ufs, command, inhibit, fifo, card, word>>

\* Slip: the FIFO is polled before every word.
AtBlock_Always == TRUE

\* BUFFER_READ_READY or BUFFER_WRITE_READY is polled before the first word of a
\* block; the others are moved unasked.
AtBlock == word % Words = 0
ReadReady == card.op = "read" /\ fifo # <<>>

\* Slip: the FIFO is not polled before a block is written.
WriteReady_Unpolled == card.op = "write"

WriteReady == card.op = "write" /\ fifo = <<>>

\* The loops of emmc_read_blocks and emmc_write_blocks, one word.
emmc_read_word ==
    /\ pc = "e_data" /\ call.op = "read" /\ word < call.n * Words
    /\ AtBlock => ReadReady
    /\ buffer' = [buffer EXCEPT ![word] = Head(fifo)]
    /\ fifo' = Tail(fifo)
    /\ word' = word + 1 /\ moved' = moved + 1
    /\ UNCHANGED <<store, call, ret, local, ufs, command, inhibit, complete, card>>

emmc_write_word ==
    /\ pc = "e_data" /\ call.op = "write" /\ word < call.n * Words
    /\ AtBlock => WriteReady
    /\ fifo' = Append(fifo, buffer[word])
    /\ word' = word + 1
    /\ UNCHANGED <<vars, local, ufs, command, inhibit, complete, card>>

emmc_stop ==
    /\ pc = "e_data" /\ word = call.n * Words
    /\ Issue("e_data", "e_stopping", "stop", 0)

\* The controller: it takes a command, a stop only when what was written is
\* stored; while a command to read is in force it keeps the next block ready,
\* and it stores each block that was written.
EmmcController ==
    \/ /\ inhibit /\ command.cmd \in {"read", "write"}
       /\ card' = [op |-> command.cmd, next |-> command.arg]
       /\ command' = NoCommand /\ inhibit' = FALSE /\ complete' = TRUE
       /\ fifo' = <<>>
       /\ UNCHANGED <<vars, local, ufs, word>>
    \/ /\ inhibit /\ command.cmd = "stop" /\ ~(card.op = "write" /\ fifo # <<>>)
       /\ card' = Stopped
       /\ command' = NoCommand /\ inhibit' = FALSE /\ complete' = TRUE
       /\ fifo' = <<>>
       /\ UNCHANGED <<vars, local, ufs, word>>
    \/ /\ card.op = "read" /\ card.next < Blocks /\ fifo = <<>>
       /\ fifo' = [j \in 1 .. Words |-> store[card.next * Words + j - 1]]
       /\ card' = [card EXCEPT !.next = @ + 1]
       /\ UNCHANGED <<vars, local, ufs, command, inhibit, complete, word>>
    \/ /\ card.op = "write" /\ Len(fifo) = Words
       /\ store' = [w \in DOMAIN store |-> IF w \div Words = card.next
                                           THEN fifo[(w % Words) + 1] ELSE store[w]]
       /\ fifo' = <<>>
       /\ card' = [card EXCEPT !.next = @ + 1]
       /\ moved' = moved + Words
       /\ UNCHANGED <<buffer, call, ret, local, ufs, command, inhibit, complete, word>>

-----------------------------------------------------------------------------
Driver ==
    \/ ufs_init \/ ufs_send_command \/ Ring \/ Wait \/ Return
    \/ Issue("e_issue", "e_issued", call.op, call.lba)
    \/ emmc_send_command("e_issued", "e_data")
    \/ emmc_read_word \/ emmc_write_word \/ emmc_stop
    \/ emmc_send_command("e_stopping", "return")

Controllers == UfsController \/ EmmcController

Next ==
    \/ \E type \in Types : set_active_block_device(type)
    \/ \E c \in Store!Call, contents \in Contents : block_device_call(c, contents)
    \/ Driver \/ Controllers

\* The core executes the driver's instructions, and a controller does in time
\* what it is asked to; nobody has to call.
Spec ==
    /\ Init /\ [][Next]_all
    /\ WF_all(pc # "idle" /\ Driver) /\ WF_all(UfsController) /\ WF_all(EmmcController)

-----------------------------------------------------------------------------
\* Types; the FIFO holds no more than the block it has room for.
TypeOK ==
    /\ store \in [0 .. (Blocks * Words - 1) -> Vals] /\ buffer \in Store!Buffers
    /\ call \in Store!Call \cup {NoCall} /\ moved \in 0 .. (MaxCount * Words)
    /\ active \in {"NONE"} \cup Types
    /\ trd \in Trd /\ dma \in Trd /\ prdt \in 0 .. (BytesMod - 1)
    /\ {reset, enable, status, list_base, doorbell, inhibit, complete} \subseteq BOOLEAN
    /\ command \in Commands /\ card \in Card
    /\ fifo \in Seq(Vals) /\ Len(fifo) <= Words
    /\ word \in 0 .. (MaxCount * Words)

\* Through either driver, however the controllers' steps fall: a call moves
\* the words of its blocks in order between buffer and device, touches no
\* others, and returns 0 only when all have arrived (BlockStore).
ImplementsStore == Store!Spec

\* While the doorbell is rung the UFS controller may read the descriptor at
\* any time: the driver, which has one descriptor for all calls
\* (block_device.c:54-55), does not change it.
DescriptorStable == [][doorbell /\ doorbell' => UNCHANGED <<trd, prdt>>]_all

\* A call comes back although no wait has a timeout (block_device.c:83, 127,
\* 132, 144, 161): no interrupt status is lost and none of the loops waits for
\* the other side while that waits for it.  The UFS controller has to have
\* been started, which kernel_main leaves to the firmware (kernel.c:89-90).
CallsReturn ==
    (call # NoCall /\ (active = "UFS" => status /\ list_base)) ~> (call = NoCall)
=============================================================================

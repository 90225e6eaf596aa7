------------------------- MODULE BlockDeviceProofs -------------------------
(***************************************************************************)
(* Proofs about the block device drivers (BlockDevice), for every size of  *)
(* device, block and call and every number of bits in the descriptor that  *)
(* hold them: both drivers implement BlockStore.                           *)
(***************************************************************************)
EXTENDS BlockDevice, SequenceTheorems, TLAPS

-----------------------------------------------------------------------------
(* The inductive invariant.                                                *)

\* The words of the call, and the device's word that is its first.
Total == call.n * Words
First == call.lba * Words

Calm == {"idle", "u_reset", "u_enable"}
Busy == {"u_build", "u_ring", "u_wait", "return", "e_issue", "e_issued", "e_data", "e_stopping"}

\* There is a call exactly between block_device_call and its return, which
\* waits for the last word.
CallInv ==
    /\ pc \in Calm \cup Busy
    /\ pc \in Calm => call = NoCall /\ moved = 0 /\ word = 0
    /\ pc \in Busy => call \in Store!Call /\ moved \in 0 .. Total
    /\ pc \in {"u_build", "u_ring", "e_issue"} => moved = 0 /\ word = 0
    /\ pc = "return" => moved = Total

\* The doorbell is rung only while the driver polls it, for the request of the
\* call, which the controller carries out from its first word on; it is clear
\* again when all have moved.
UfsInv ==
    /\ reset => pc = "u_reset"
    /\ doorbell => pc = "u_wait"
    /\ pc \in {"u_ring", "u_wait"} =>
         /\ trd = [op |-> call.op, lba |-> call.lba, n |-> call.n]
         /\ call.n = 0 \/ prdt = Total - 1
    /\ dma # Idle => doorbell /\ dma = trd
    /\ doorbell /\ dma = Idle => moved = 0
    /\ pc = "u_wait" /\ ~doorbell => moved = Total

\* A command to read or to write is in force: the FIFO holds the rest of the
\* block before card.next, or the words of the block at card.next so far.
Moving ==
    /\ card.op = call.op /\ card.next \in call.lba .. Blocks
    /\ word \in 0 .. Total
    /\ \/ /\ call.op = "read" /\ moved = word
          /\ card.next * Words = First + word + Len(fifo)
          /\ \A j \in 1 .. Len(fifo) : fifo[j] = store[First + word + j - 1]
       \/ /\ call.op = "write" /\ word = moved + Len(fifo)
          /\ card.next * Words = First + moved
          /\ \A j \in 1 .. Len(fifo) : fifo[j] = buffer[moved + j - 1]

Resting == card = Stopped /\ fifo = <<>>

\* What a wait for CMD_INHIBIT or TRANSFER_COMPLETE may find.
EmmcInv ==
    /\ pc \notin {"e_issued", "e_data", "e_stopping"} => Resting /\ ~inhibit /\ ~complete
    /\ pc = "e_issued" =>
         \/ /\ inhibit /\ ~complete /\ command = [cmd |-> call.op, arg |-> call.lba]
            /\ Resting /\ word = 0 /\ moved = 0
         \/ ~inhibit /\ complete /\ Moving
    /\ pc = "e_data" => ~inhibit /\ ~complete /\ Moving
    /\ pc = "e_stopping" =>
         \/ /\ inhibit /\ ~complete /\ command = [cmd |-> "stop", arg |-> 0]
            /\ Moving /\ word = Total
         \/ ~inhibit /\ complete /\ Resting /\ moved = Total

Inv == TypeOK /\ CallInv /\ UfsInv /\ EmmcInv

-----------------------------------------------------------------------------
(* Arithmetic of blocks and words.                                         *)

LEMMA Products ==
    ASSUME NEW a \in Int, NEW b \in Int, NEW w \in Nat \ {0}
    PROVE  /\ a * w \in Int
           /\ (a + b) * w = a * w + b * w
           /\ (a + 1) * w = a * w + w
           /\ a <= b <=> a * w <= b * w
           /\ 0 <= a => 0 <= a * w
OBVIOUS

LEMMA NextBlock ==
    ASSUME NEW b \in Nat, NEW n \in Nat, b < n, NEW w \in Nat \ {0}
    PROVE  /\ (b + 1) * w = b * w + w /\ b * w \in Nat
           /\ b * w + w <= n * w
<1>1. (b + 1) * w = b * w + w /\ b * w \in Nat
  BY Products
<1>2. b + 1 \in Int /\ b + 1 <= n
  OBVIOUS
<1>3. (b + 1) * w <= n * w
  BY <1>2, Products
<1> QED
  BY <1>1, <1>3

\* The words of a block.
LEMMA BlockOfWord ==
    ASSUME NEW x \in Nat, NEW b \in Nat, NEW w \in Nat \ {0}
    PROVE  /\ x \div w = b <=> x \in (b * w) .. (b * w + w - 1)
           /\ x \div w = b => x % w = x - b * w
OBVIOUS

LEMMA WordOfBlock ==
    ASSUME NEW x \in Nat, NEW b \in Nat, NEW w \in Nat \ {0}
    PROVE  /\ x = b * w => x % w = 0
           /\ x % w \in 0 .. (w - 1)
<1>1. (b * w) % w = 0
  OBVIOUS
<1>2. x % w \in 0 .. (w - 1)
  OBVIOUS
<1> QED
  BY <1>1, <1>2

LEMMA Sizes ==
    /\ Blocks \in Nat \ {0} /\ MaxCount \in Nat \ {0} /\ Words \in Nat \ {0}
    /\ LbaMod \in Nat \ {0} /\ CountMod \in Nat \ {0} /\ BytesMod \in Nat \ {0}
    /\ Blocks * Words \in Nat /\ MaxCount * Words \in Nat
    /\ Blocks <= LbaMod /\ MaxCount < CountMod /\ MaxCount * Words <= BytesMod
    /\ \A n \in Counts : n \in Nat /\ n <= MaxCount
<1>1. /\ Blocks \in Nat \ {0} /\ MaxCount \in Nat \ {0} /\ Words \in Nat \ {0}
      /\ LbaMod \in Nat \ {0} /\ CountMod \in Nat \ {0} /\ BytesMod \in Nat \ {0}
      /\ Blocks <= LbaMod /\ MaxCount < CountMod /\ MaxCount * Words <= BytesMod
      /\ Counts \subseteq 0 .. MaxCount
  BY BlockDeviceAssumption
<1> QED
  BY <1>1

LEMMA CallFacts ==
    ASSUME call \in Store!Call
    PROVE  /\ call # NoCall
           /\ call.op \in {"read", "write"} /\ call.n \in Counts
           /\ call.lba \in Nat /\ call.lba < Blocks
           /\ call.n \in Nat /\ call.n <= MaxCount
           /\ First \in Nat /\ Total \in Nat
           /\ Total <= MaxCount * Words /\ First + Total <= Blocks * Words
<1>1. call # NoCall
  BY NoCallAssumption
<1>2. /\ call.op \in {"read", "write"} /\ call.lba \in 0 .. (Blocks - 1) /\ call.n \in Counts
      /\ call.lba + call.n <= Blocks
  BY DEF Store!Call
<1>3. /\ call.lba \in Nat /\ call.lba < Blocks /\ call.n \in Nat /\ call.n <= MaxCount
  BY <1>2, Sizes
<1>4. First \in Nat /\ Total \in Nat
  BY <1>3, Sizes, Products DEF First, Total
<1>5. Total <= MaxCount * Words
  BY <1>3, Sizes, Products DEF Total
<1>6. First + Total <= Blocks * Words
  <2>1. First + Total = (call.lba + call.n) * Words
    BY <1>3, Sizes, Products DEF First, Total
  <2>2. call.lba + call.n \in Int
    BY <1>3
  <2> QED
    BY <1>2, <2>1, <2>2, Sizes, Products
<1> QED
  BY <1>1, <1>2, <1>3, <1>4, <1>5, <1>6

-----------------------------------------------------------------------------
(* The invariant, action by action.                                        *)

LEMMA InitInv == Init => Inv
<1> SUFFICES ASSUME Init PROVE Inv
  OBVIOUS
<1>1. /\ store = [w \in 0 .. (Blocks * Words - 1) |-> Erased] /\ buffer \in Contents
      /\ call = NoCall /\ moved = 0
  BY DEF Init, Store!Init
<1>2. TypeOK
  <2>1. store \in [0 .. (Blocks * Words - 1) -> Vals] /\ buffer \in Store!Buffers
    BY <1>1, BlockDeviceAssumption DEF Store!Buffers
  <2>2. {reset, enable, status, list_base, doorbell, inhibit, complete} \subseteq BOOLEAN
    BY DEF Init
  <2>3. trd \in Trd /\ dma \in Trd /\ prdt \in 0 .. (BytesMod - 1)
    BY Sizes DEF Init, Idle, Trd
  <2>4. command \in Commands /\ card \in Card
    BY Sizes DEF Init, NoCommand, Commands, Stopped, Card
  <2>5. fifo \in Seq(Vals) /\ Len(fifo) <= Words
    BY Sizes DEF Init
  <2> QED
    BY <1>1, <2>1, <2>2, <2>3, <2>4, <2>5, Sizes DEF TypeOK, Init
<1>3. CallInv /\ UfsInv /\ EmmcInv
  BY <1>1 DEF Init, CallInv, UfsInv, EmmcInv, Resting, Calm, Busy
<1> QED
  BY <1>2, <1>3 DEF Inv

EmmcPcs == {"e_issued", "e_data", "e_stopping"}
UfsPcs  == {"u_reset", "u_ring", "u_wait"}

\* A driver that does not run leaves its controller alone.
LEMMA EmmcAside ==
    ASSUME EmmcInv, pc \notin EmmcPcs, pc' \notin EmmcPcs, UNCHANGED <<card, fifo, inhibit, complete>>
    PROVE  EmmcInv'
BY DEF EmmcInv, EmmcPcs, Resting

LEMMA UfsAside ==
    ASSUME UfsInv, pc \notin UfsPcs, pc' \notin UfsPcs, UNCHANGED <<reset, doorbell, dma>>
    PROVE  UfsInv'
BY DEF UfsInv, UfsPcs

LEMMA SelectInv ==
    ASSUME Inv, NEW type \in Types, set_active_block_device(type)
    PROVE  Inv'
<1>1. pc = "idle" /\ active' = type /\ UNCHANGED <<vars, pc, ufs, emmc>>
  BY DEF set_active_block_device
<1>2. TypeOK'
  BY <1>1 DEF Inv, TypeOK, vars, ufs, emmc
<1>3. CallInv'
  BY <1>1 DEF Inv, CallInv, vars, emmc, Total
<1>4. UfsInv'
  BY <1>1, UfsAside DEF Inv, UfsPcs, ufs
<1>5. EmmcInv'
  BY <1>1, EmmcAside DEF Inv, EmmcPcs, emmc
<1> QED
  BY <1>2, <1>3, <1>4, <1>5 DEF Inv

LEMMA CallStep ==
    ASSUME Inv, NEW c \in Store!Call, NEW contents \in Contents, block_device_call(c, contents)
    PROVE  Inv'
<1>1. pc = "idle" /\ UNCHANGED <<store, active, ufs, emmc>>
  BY DEF block_device_call
<1>2. CASE active = "NONE"
  <2>1. UNCHANGED <<store, buffer, call, moved, active, pc, ufs, emmc>>
    BY <1>1, <1>2 DEF block_device_call
  <2>2. TypeOK'
    BY <2>1 DEF Inv, TypeOK, ufs, emmc
  <2>3. CallInv'
    BY <2>1 DEF Inv, CallInv, emmc, Total
  <2> QED
    BY <1>1, <2>1, <2>2, <2>3, UfsAside, EmmcAside DEF Inv, UfsPcs, EmmcPcs, ufs, emmc
<1>3. CASE active # "NONE"
  <2>1. active \in {"UFS", "EMMC"}
    BY <1>3, BlockDeviceAssumption DEF Inv, TypeOK
  <2>2. /\ call' = c /\ buffer' = contents /\ moved' = 0
        /\ \/ pc' = "u_build"
           \/ pc' = "return" /\ c.n = 0
           \/ pc' = "e_issue"
    BY <1>3, <2>1 DEF block_device_call
  <2>3. TypeOK'
    <3>1. contents \in Store!Buffers
      BY BlockDeviceAssumption DEF Store!Buffers
    <3>2. MaxCount * Words \in Nat
      BY Sizes
    <3>3. 0 \in 0 .. (MaxCount * Words)
      BY <3>2
    <3>4. /\ store' = store /\ active' = active /\ UNCHANGED ufs /\ UNCHANGED emmc
          /\ call' = c /\ buffer' = contents /\ moved' = 0
      BY <1>1, <2>2
    <3> QED
      BY <3>1, <3>3, <3>4 DEF Inv, TypeOK, ufs, emmc
  <2>4. CallInv'
    <3>1. word' = 0
      BY <1>1 DEF Inv, CallInv, Calm, emmc
    <3>2. Total' = c.n * Words /\ Total' \in Nat
      <4>1. Total' = c.n * Words /\ c.n \in Counts
        BY <2>2 DEF Total, Store!Call
      <4>2. c.n \in Nat /\ Words \in Nat \ {0}
        BY <4>1, Sizes
      <4> QED
        BY <4>1, <4>2, Products
    <3>3. c.n = 0 => Total' = 0
      BY <3>2, Sizes
    <3> QED
      BY <2>2, <3>1, <3>2, <3>3 DEF CallInv, Calm, Busy
  <2> QED
    BY <1>1, <2>2, <2>3, <2>4, UfsAside, EmmcAside DEF Inv, UfsPcs, EmmcPcs, ufs, emmc
<1> QED
  BY <1>2, <1>3

LEMMA ReturnStep == Inv /\ Return => Inv'
<1> SUFFICES ASSUME Inv, Return PROVE Inv'
  OBVIOUS
<1>1. /\ pc = "return" /\ pc' = "idle" /\ call' = NoCall /\ moved' = 0 /\ word' = 0
      /\ UNCHANGED <<store, buffer, active, ufs, command, inhibit, complete, fifo, card>>
  BY DEF Return, At
<1>2. TypeOK'
  BY <1>1, Sizes DEF Inv, TypeOK, ufs
<1>3. CallInv'
  BY <1>1 DEF CallInv, Calm, Busy
<1> QED
  BY <1>1, <1>2, <1>3, UfsAside, EmmcAside DEF Inv, UfsPcs, EmmcPcs, ufs

-----------------------------------------------------------------------------
(* UFS.                                                                    *)

LEMMA UfsInitStep == Inv /\ ufs_init => Inv'
<1> SUFFICES ASSUME Inv, ufs_init PROVE Inv'
  OBVIOUS
<1>1. /\ UNCHANGED <<vars, active, status, doorbell, trd, prdt, dma, emmc>>
      /\ pc \in Calm /\ pc' \in Calm
      /\ reset' => pc' = "u_reset"
      /\ {reset', enable', list_base'} \subseteq BOOLEAN
  <2>1. {reset, enable, list_base} \subseteq BOOLEAN /\ (reset => pc = "u_reset")
    BY DEF Inv, TypeOK, UfsInv
  <2>2. CASE At("idle", "u_reset") /\ reset' = TRUE /\ UNCHANGED <<enable, list_base>>
    BY <2>1, <2>2 DEF ufs_init, At, Calm
  <2>3. CASE At("u_reset", "u_enable") /\ ~reset /\ enable' = TRUE /\ UNCHANGED <<reset, list_base>>
    BY <2>1, <2>3 DEF ufs_init, At, Calm
  <2>4. CASE At("u_enable", "idle") /\ list_base' = TRUE /\ UNCHANGED <<reset, enable>>
    BY <2>1, <2>4 DEF ufs_init, At, Calm
  <2> QED
    BY <2>2, <2>3, <2>4 DEF ufs_init
<1>2. TypeOK'
  BY <1>1 DEF Inv, TypeOK, vars, emmc
<1>3. CallInv'
  BY <1>1 DEF Inv, CallInv, vars, emmc, Total, Calm, Busy
<1>4. UfsInv'
  BY <1>1 DEF Inv, UfsInv, vars, Calm
<1>5. EmmcInv'
  BY <1>1, EmmcAside DEF Inv, EmmcPcs, emmc, Calm
<1> QED
  BY <1>2, <1>3, <1>4, <1>5 DEF Inv

\* The descriptor has room for the request: nothing is cut off.
LEMMA BuildStep == Inv /\ ufs_send_command => Inv'
<1> SUFFICES ASSUME Inv, ufs_send_command PROVE Inv'
  OBVIOUS
<1>1. /\ pc = "u_build" /\ pc' = "u_ring"
      /\ prdt' = (call.n * Words - 1) % BytesMod
      /\ trd' = [op |-> call.op, lba |-> call.lba % LbaMod, n |-> call.n % CountMod]
      /\ UNCHANGED <<vars, active, reset, enable, status, list_base, doorbell, dma, emmc>>
  BY DEF ufs_send_command, At
<1>2. call \in Store!Call /\ moved = 0 /\ word = 0
  BY <1>1 DEF Inv, CallInv, Busy
<1>3. /\ call.op \in {"read", "write"} /\ call.lba \in Nat /\ call.lba < LbaMod
      /\ call.n \in Nat /\ call.n < CountMod
      /\ Total \in Nat /\ Total <= BytesMod
  BY <1>2, CallFacts, Sizes
<1>4. trd' = [op |-> call.op, lba |-> call.lba, n |-> call.n] /\ trd' \in Trd
  <2>1. call.lba % LbaMod = call.lba /\ call.n % CountMod = call.n
    BY <1>3, Sizes
  <2> QED
    BY <1>1, <1>3, <2>1, Sizes DEF Trd
<1>5. prdt' \in 0 .. (BytesMod - 1) /\ (call.n = 0 \/ prdt' = Total - 1)
  <2>1. prdt' = (Total - 1) % BytesMod
    BY <1>1 DEF Total
  <2>2. call.n # 0 => Total >= 1
    BY <1>3, Sizes, Products DEF Total
  <2> QED
    BY <1>3, <2>1, <2>2, Sizes
<1>6. TypeOK'
  BY <1>1, <1>4, <1>5 DEF Inv, TypeOK, vars, emmc
<1>7. CallInv'
  BY <1>1, <1>2, <1>3 DEF CallInv, vars, emmc, Total, Calm, Busy
<1>8. UfsInv'
  BY <1>1, <1>4, <1>5 DEF Inv, UfsInv, vars, Total
<1>9. EmmcInv'
  BY <1>1, EmmcAside DEF Inv, EmmcPcs, emmc
<1> QED
  BY <1>6, <1>7, <1>8, <1>9 DEF Inv

LEMMA RingStep == Inv /\ Ring => Inv'
<1> SUFFICES ASSUME Inv, Ring PROVE Inv'
  OBVIOUS
<1>1. /\ pc = "u_ring" /\ pc' = "u_wait" /\ doorbell' = TRUE
      /\ UNCHANGED <<vars, active, reset, enable, status, list_base, trd, prdt, dma, emmc>>
  BY DEF Ring, At
<1>2. TypeOK'
  BY <1>1 DEF Inv, TypeOK, vars, emmc
<1>3. CallInv'
  BY <1>1 DEF Inv, CallInv, vars, emmc, Total, Calm, Busy
<1>4. UfsInv'
  BY <1>1 DEF Inv, UfsInv, CallInv, vars, Total
<1>5. EmmcInv'
  BY <1>1, EmmcAside DEF Inv, EmmcPcs, emmc
<1> QED
  BY <1>2, <1>3, <1>4, <1>5 DEF Inv

LEMMA WaitStep == Inv /\ Wait => Inv'
<1> SUFFICES ASSUME Inv, Wait PROVE Inv'
  OBVIOUS
<1>1. pc = "u_wait" /\ pc' = "return" /\ ~doorbell /\ UNCHANGED <<vars, active, ufs, emmc>>
  BY DEF Wait, At, Answered
<1>2. TypeOK'
  BY <1>1 DEF Inv, TypeOK, vars, ufs, emmc
<1>3. CallInv'
  BY <1>1 DEF Inv, CallInv, UfsInv, vars, emmc, Total, Calm, Busy
<1>4. UfsInv'
  BY <1>1 DEF Inv, UfsInv, vars, ufs, Total
<1>5. EmmcInv'
  BY <1>1, EmmcAside DEF Inv, EmmcPcs, emmc
<1> QED
  BY <1>2, <1>3, <1>4, <1>5 DEF Inv

\* What words up to m of the call make of the device and of the buffer.
LEMMA TransferTypes ==
    ASSUME TypeOK, call \in Store!Call, NEW m \in 0 .. Total
    PROVE  /\ Store!Stored(call, moved, m) \in [0 .. (Blocks * Words - 1) -> Vals]
           /\ Store!Fetched(call, moved, m) \in Store!Buffers
<1>1. /\ store \in [0 .. (Blocks * Words - 1) -> Vals]
      /\ buffer \in [0 .. (MaxCount * Words - 1) -> Vals]
      /\ moved \in Nat
  <2>1. store \in [0 .. (Blocks * Words - 1) -> Vals] /\ moved \in 0 .. (MaxCount * Words)
    BY DEF TypeOK
  <2>2. buffer \in [0 .. (MaxCount * Words - 1) -> Vals]
    BY Zenon DEF TypeOK, Store!Buffers
  <2> QED
    BY <2>1, <2>2, Sizes
<1>2. /\ First \in Nat /\ Total \in Nat
      /\ Total <= MaxCount * Words /\ First + Total <= Blocks * Words
      /\ Blocks * Words \in Nat /\ MaxCount * Words \in Nat
  BY CallFacts, Sizes
<1>3. Store!Stored(call, moved, m) =
        [w \in 0 .. (Blocks * Words - 1) |-> IF w - First \in moved .. (m - 1)
                                             THEN buffer[w - First] ELSE store[w]]
  BY <1>1 DEF Store!Stored, First
<1>4. Store!Fetched(call, moved, m) =
        [k \in 0 .. (MaxCount * Words - 1) |-> IF k \in moved .. (m - 1)
                                               THEN store[First + k] ELSE buffer[k]]
  BY <1>1 DEF Store!Fetched, First
<1>5. \A w \in 0 .. (Blocks * Words - 1) :
        w - First \in moved .. (m - 1) => w - First \in 0 .. (MaxCount * Words - 1)
  BY <1>1, <1>2
<1>6. \A k \in 0 .. (MaxCount * Words - 1) :
        k \in moved .. (m - 1) => First + k \in 0 .. (Blocks * Words - 1)
  BY <1>1, <1>2
<1> QED
  BY <1>1, <1>3, <1>4, <1>5, <1>6 DEF Store!Buffers

LEMMA UfsMoveStep ==
    ASSUME Inv, dma # Idle, moved < dma.n * Words, moved <= prdt, moved' = moved + 1,
           store' = IF dma.op = "write" THEN Store!Stored(dma, moved, moved') ELSE store,
           buffer' = IF dma.op = "read" THEN Store!Fetched(dma, moved, moved') ELSE buffer,
           UNCHANGED <<call, ret, local, ufs, emmc>>
    PROVE  Inv' /\ Store!Transfer
<1>1. /\ doorbell /\ pc = "u_wait" /\ dma = trd
      /\ trd = [op |-> call.op, lba |-> call.lba, n |-> call.n]
  BY DEF Inv, UfsInv
<1>2. /\ call \in Store!Call /\ call.op \in {"read", "write"} /\ call # NoCall
      /\ dma.op = call.op /\ dma.lba = call.lba /\ dma.n = call.n
  BY <1>1, CallFacts DEF Inv, CallInv, Busy
<1>3. moved \in Nat /\ Total \in Nat /\ Total <= MaxCount * Words /\ moved < Total
  BY <1>2, CallFacts, Sizes DEF Inv, TypeOK, Total
<1>4. moved' \in 0 .. Total /\ moved' \in 0 .. (MaxCount * Words)
      /\ moved' \in (moved + 1) .. Total
  BY <1>3, Sizes
<1>5. /\ store' = IF call.op = "write" THEN Store!Stored(call, moved, moved') ELSE store
      /\ buffer' = IF call.op = "read" THEN Store!Fetched(call, moved, moved') ELSE buffer
  BY <1>2 DEF Store!Stored, Store!Fetched
<1>6. Store!Transfer
  BY <1>2, <1>4, <1>5 DEF Store!Transfer, Total
<1>7. store' \in [0 .. (Blocks * Words - 1) -> Vals] /\ buffer' \in Store!Buffers
  <2>1. /\ Store!Stored(call, moved, moved') \in [0 .. (Blocks * Words - 1) -> Vals]
        /\ Store!Fetched(call, moved, moved') \in Store!Buffers
    BY <1>2, <1>4, TransferTypes DEF Inv
  <2> QED
    BY <1>5, <2>1 DEF Inv, TypeOK
<1>8. TypeOK'
  BY <1>4, <1>7 DEF Inv, TypeOK, local, ufs, emmc
<1>9. CallInv'
  BY <1>1, <1>2, <1>4 DEF CallInv, local, Total, Calm, Busy
<1>10. UfsInv'
  BY <1>1, Zenon DEF Inv, UfsInv, local, ufs, Total
<1>11. EmmcInv'
  BY <1>1, EmmcAside DEF Inv, EmmcPcs, local, emmc
<1> QED
  BY <1>6, <1>8, <1>9, <1>10, <1>11 DEF Inv

LEMMA UfsControllerStep ==
    ASSUME Inv, UfsController
    PROVE  Inv' /\ (Store!Transfer \/ UNCHANGED vars)
<1>1. CASE /\ reset
           /\ reset' = FALSE /\ enable' = FALSE /\ status' = FALSE
           /\ doorbell' = FALSE /\ list_base' = FALSE /\ dma' = Idle
           /\ UNCHANGED <<vars, local, trd, prdt, emmc>>
  <2>1. pc = "u_reset"
    BY <1>1 DEF Inv, UfsInv
  <2>2. dma' \in Trd
    BY <1>1, Sizes DEF Idle, Trd
  <2>3. TypeOK'
    BY <1>1, <2>2 DEF Inv, TypeOK, vars, local, emmc
  <2>4. CallInv'
    BY <1>1 DEF Inv, CallInv, vars, local, emmc, Total
  <2>5. UfsInv'
    BY <1>1, <2>1 DEF UfsInv, local
  <2>6. EmmcInv'
    BY <1>1, <2>1, EmmcAside DEF Inv, EmmcPcs, local, emmc
  <2> QED
    BY <1>1, <2>3, <2>4, <2>5, <2>6 DEF Inv
<1>2. CASE /\ enable /\ ~status /\ ~reset
           /\ status' = TRUE
           /\ UNCHANGED <<vars, local, reset, enable, list_base, doorbell, trd, prdt, dma, emmc>>
  <2>1. TypeOK'
    BY <1>2 DEF Inv, TypeOK, vars, local, emmc
  <2>2. CallInv'
    BY <1>2 DEF Inv, CallInv, vars, local, emmc, Total
  <2>3. UfsInv'
    BY <1>2 DEF Inv, UfsInv, vars, local, Total
  <2>4. EmmcInv'
    BY <1>2 DEF Inv, EmmcInv, Moving, Resting, vars, local, emmc, Total, First
  <2> QED
    BY <1>2, <2>1, <2>2, <2>3, <2>4 DEF Inv
<1>3. CASE /\ status /\ list_base /\ doorbell /\ dma = Idle
           /\ dma' = trd
           /\ UNCHANGED <<vars, local, reset, enable, status, list_base, doorbell, trd, prdt, emmc>>
  <2>1. pc = "u_wait" /\ trd = [op |-> call.op, lba |-> call.lba, n |-> call.n]
    BY <1>3 DEF Inv, UfsInv
  <2>2. trd # Idle
    BY <2>1, CallFacts DEF Inv, CallInv, Busy, Idle
  <2>3. TypeOK'
    BY <1>3 DEF Inv, TypeOK, vars, local, emmc
  <2>4. CallInv'
    BY <1>3 DEF Inv, CallInv, vars, local, emmc, Total
  <2>5. UfsInv'
    BY <1>3, <2>1, <2>2 DEF Inv, UfsInv, vars, local, Total
  <2>6. EmmcInv'
    BY <1>3, <2>1, EmmcAside DEF Inv, EmmcPcs, local, emmc
  <2> QED
    BY <1>3, <2>3, <2>4, <2>5, <2>6 DEF Inv
<1>4. CASE /\ dma # Idle /\ (moved = dma.n * Words \/ moved > prdt)
           /\ dma' = Idle
           /\ doorbell' = FALSE
           /\ UNCHANGED <<vars, local, reset, enable, status, list_base, trd, prdt, emmc>>
  <2>1. /\ pc = "u_wait" /\ dma = trd
        /\ trd = [op |-> call.op, lba |-> call.lba, n |-> call.n]
        /\ call.n = 0 \/ prdt = Total - 1
    BY <1>4 DEF Inv, UfsInv
  <2>2. call \in Store!Call /\ moved \in 0 .. Total /\ Total \in Nat /\ dma.n * Words = Total
    BY <2>1, CallFacts DEF Inv, CallInv, Busy, Total
  <2>3. call.n = 0 => Total = 0
    BY <2>2, Sizes DEF Total
  <2>4. moved = Total
    BY <1>4, <2>1, <2>2, <2>3
  <2>5. dma' \in Trd
    BY <1>4, Sizes DEF Idle, Trd
  <2>6. TypeOK'
    BY <1>4, <2>5 DEF Inv, TypeOK, vars, local, emmc
  <2>7. CallInv'
    BY <1>4 DEF Inv, CallInv, vars, local, emmc, Total
  <2>8. UfsInv'
    BY <1>4, <2>1, <2>4 DEF Inv, UfsInv, vars, local, Total
  <2>9. EmmcInv'
    BY <1>4, <2>1, EmmcAside DEF Inv, EmmcPcs, local, emmc
  <2> QED
    BY <1>4, <2>6, <2>7, <2>8, <2>9 DEF Inv
<1> QED
  BY <1>1, <1>2, <1>3, <1>4, UfsMoveStep DEF UfsController

-----------------------------------------------------------------------------
(* eMMC.                                                                   *)

LEMMA MovingStays ==
    ASSUME Moving, UNCHANGED <<card, call, word, moved, fifo, store, buffer>>
    PROVE  Moving'
BY DEF Moving, Total, First

LEMMA EmmcFacts ==
    ASSUME Inv, pc \in EmmcPcs
    PROVE  /\ call \in Store!Call /\ call.op \in {"read", "write"} /\ call # NoCall
           /\ First \in Nat /\ Total \in Nat /\ Total <= MaxCount * Words
           /\ First + Total <= Blocks * Words
           /\ moved \in 0 .. Total /\ moved \in Nat
           /\ word \in Nat /\ fifo \in Seq(Vals) /\ Len(fifo) \in Nat /\ Len(fifo) <= Words
           /\ ~reset /\ ~doorbell /\ dma = Idle
<1>1. call \in Store!Call /\ moved \in 0 .. Total
  BY DEF Inv, CallInv, Busy, EmmcPcs
<1>2. ~reset /\ ~doorbell /\ dma = Idle
  BY DEF Inv, UfsInv, EmmcPcs
<1>3. fifo \in Seq(Vals) /\ Len(fifo) <= Words /\ word \in 0 .. (MaxCount * Words)
  BY DEF Inv, TypeOK
<1>4. word \in Nat /\ Len(fifo) \in Nat
  BY <1>3, Sizes, LenProperties
<1> QED
  BY <1>1, <1>2, <1>3, <1>4, CallFacts

\* Between commands, the commands of a call.
LEMMA IssueStep ==
    ASSUME Inv, Issue("e_issue", "e_issued", call.op, call.lba)
    PROVE  Inv' /\ UNCHANGED vars
<1>1. /\ pc = "e_issue" /\ pc' = "e_issued" /\ inhibit' = TRUE
      /\ command' = [cmd |-> call.op, arg |-> call.lba % LbaMod]
      /\ UNCHANGED <<vars, active, ufs, complete, fifo, card, word>>
  BY DEF Issue, At
<1>2. call \in Store!Call /\ moved = 0 /\ word = 0 /\ Resting /\ ~complete
  BY <1>1 DEF Inv, CallInv, Busy, EmmcInv
<1>3. call.op \in {"read", "write"} /\ call.lba \in 0 .. (LbaMod - 1) /\ Total \in Nat
  BY <1>2, CallFacts, Sizes
<1>4. command' = [cmd |-> call.op, arg |-> call.lba] /\ command' \in Commands
  <2>1. call.lba % LbaMod = call.lba
    BY <1>3, Sizes
  <2> QED
    BY <1>1, <1>3, <2>1 DEF Commands
<1>5. TypeOK'
  BY <1>1, <1>4 DEF Inv, TypeOK, vars, ufs
<1>6. CallInv'
  BY <1>1, <1>2, <1>3 DEF CallInv, vars, Total, Calm, Busy
<1>7. UfsInv'
  BY <1>1, UfsAside DEF Inv, UfsPcs, ufs
<1>8. EmmcInv'
  BY <1>1, <1>2, <1>4 DEF EmmcInv, Resting, vars
<1> QED
  BY <1>1, <1>5, <1>6, <1>7, <1>8 DEF Inv

LEMMA CommandStep ==
    ASSUME Inv, \/ emmc_send_command("e_issued", "e_data")
                \/ emmc_send_command("e_stopping", "return")
    PROVE  Inv' /\ UNCHANGED vars
<1>1. PICK from \in {"e_issued", "e_stopping"} :
        pc = from /\ pc' = IF from = "e_issued" THEN "e_data" ELSE "return"
  BY DEF emmc_send_command, At
<1>2. /\ complete /\ complete' = FALSE
      /\ UNCHANGED <<vars, active, ufs, command, inhibit, fifo, card, word>>
  BY DEF emmc_send_command, Acknowledge
<1>3. pc' \notin UfsPcs /\ pc \notin UfsPcs
  BY <1>1 DEF UfsPcs
<1>4. TypeOK'
  BY <1>2 DEF Inv, TypeOK, vars, ufs
<1>5. UfsInv'
  BY <1>2, <1>3, UfsAside DEF Inv, ufs
<1>6. CASE pc = "e_issued" /\ pc' = "e_data"
  <2>1. Moving /\ ~inhibit
    BY <1>2, <1>6 DEF Inv, EmmcInv
  <2>2. Moving'
    BY <1>2, <2>1, MovingStays DEF vars
  <2>3. EmmcInv'
    BY <1>2, <1>6, <2>1, <2>2 DEF EmmcInv
  <2>4. CallInv'
    BY <1>2, <1>6 DEF Inv, CallInv, vars, Total, Calm, Busy
  <2> QED
    BY <1>2, <1>4, <1>5, <2>3, <2>4 DEF Inv
<1>7. CASE pc = "e_stopping" /\ pc' = "return"
  <2>1. Resting /\ ~inhibit /\ moved = Total
    BY <1>2, <1>7 DEF Inv, EmmcInv
  <2>2. EmmcInv'
    BY <1>2, <1>7, <2>1 DEF EmmcInv, Resting
  <2>3. CallInv'
    BY <1>2, <1>7, <2>1 DEF Inv, CallInv, vars, Total, Calm, Busy
  <2> QED
    BY <1>2, <1>4, <1>5, <2>2, <2>3 DEF Inv
<1> QED
  BY <1>1, <1>6, <1>7

LEMMA StopStep ==
    ASSUME Inv, emmc_stop
    PROVE  Inv' /\ UNCHANGED vars
<1>1. /\ pc = "e_data" /\ pc' = "e_stopping" /\ word = Total /\ inhibit' = TRUE
      /\ command' = [cmd |-> "stop", arg |-> 0 % LbaMod]
      /\ UNCHANGED <<vars, active, ufs, complete, fifo, card, word>>
  BY DEF emmc_stop, Issue, At, Total
<1>2. command' = [cmd |-> "stop", arg |-> 0] /\ command' \in Commands
  <2>1. 0 % LbaMod = 0 /\ 0 \in 0 .. (LbaMod - 1)
    BY Sizes
  <2> QED
    BY <1>1, <2>1 DEF Commands
<1>3. TypeOK'
  BY <1>1, <1>2 DEF Inv, TypeOK, vars, ufs
<1>4. CallInv'
  BY <1>1 DEF Inv, CallInv, vars, Total, Calm, Busy
<1>5. UfsInv'
  BY <1>1, UfsAside DEF Inv, UfsPcs, ufs
<1>6. Moving' /\ ~complete /\ Total' = Total
  BY <1>1, MovingStays DEF Inv, EmmcInv, vars, Total
<1>7. EmmcInv'
  BY <1>1, <1>2, <1>6 DEF EmmcInv
<1> QED
  BY <1>1, <1>3, <1>4, <1>5, <1>7 DEF Inv

\* Where the FIFO is empty on reading, or full on writing, a block ends: there the
\* driver polls.
LEMMA FifoAtBlock ==
    ASSUME Inv, pc \in EmmcPcs, Moving
    PROVE  /\ call.op = "read" /\ Len(fifo) = 0 => AtBlock
           /\ call.op = "write" /\ Len(fifo) = Words => AtBlock
<1> DEFINE b == card.next - call.lba
<1>1. b \in Nat /\ call.lba \in Nat /\ card.next \in Nat /\ Words \in Nat \ {0}
  BY EmmcFacts, CallFacts, Sizes DEF Moving
<1>2. b * Words = card.next * Words - First
  BY <1>1, Products DEF First
<1>3. (b + 1) * Words = b * Words + Words /\ b * Words \in Int
  BY <1>1, Products
<1> HIDE DEF b
<1>4. First \in Nat /\ word \in Nat /\ moved \in Nat
  BY EmmcFacts
<1>5. ASSUME call.op = "read", Len(fifo) = 0 PROVE word = b * Words
  BY <1>1, <1>2, <1>4, <1>5 DEF Moving
<1>6. ASSUME call.op = "write", Len(fifo) = Words PROVE word = (b + 1) * Words
  <2>1. card.next * Words = First + moved /\ word = moved + Words
    BY <1>6 DEF Moving
  <2> QED
    BY <1>1, <1>2, <1>3, <1>4, <2>1
<1>7. b + 1 \in Nat
  BY <1>1
<1> QED
  BY <1>1, <1>4, <1>5, <1>6, <1>7, WordOfBlock DEF AtBlock

LEMMA ReadWordStep ==
    ASSUME Inv, emmc_read_word
    PROVE  Inv' /\ Store!Transfer
<1>1. /\ pc = "e_data" /\ call.op = "read" /\ word < Total
      /\ AtBlock => ReadReady
      /\ buffer' = [buffer EXCEPT ![word] = Head(fifo)]
      /\ fifo' = Tail(fifo) /\ word' = word + 1 /\ moved' = moved + 1
      /\ UNCHANGED <<store, call, ret, local, ufs, command, inhibit, complete, card>>
  BY DEF emmc_read_word, Total
<1>2. pc \in EmmcPcs /\ Moving /\ ~inhibit /\ ~complete
  BY <1>1 DEF EmmcPcs, Inv, EmmcInv
<1>3. /\ First \in Nat /\ Total \in Nat /\ Total <= MaxCount * Words /\ word \in Nat
      /\ moved = word /\ fifo \in Seq(Vals) /\ Len(fifo) \in Nat /\ Len(fifo) <= Words
      /\ call \in Store!Call /\ call # NoCall
      /\ MaxCount * Words \in Nat /\ First + Total <= Blocks * Words
  BY <1>1, <1>2, EmmcFacts, Sizes DEF Moving
<1>4. /\ card.op = call.op /\ card.next \in call.lba .. Blocks
      /\ card.next * Words = First + word + Len(fifo)
      /\ \A j \in 1 .. Len(fifo) : fifo[j] = store[First + word + j - 1]
  BY <1>1, <1>2 DEF Moving
<1>5. fifo # <<>> /\ Len(fifo) > 0
  <2>1. fifo = <<>> => Len(fifo) = 0 /\ ~AtBlock
    BY <1>1 DEF ReadReady
  <2>2. fifo # <<>>
    BY <1>1, <1>2, <2>1, FifoAtBlock
  <2> QED
    BY <1>3, <2>2, EmptySeq
<1>6. /\ Tail(fifo) \in Seq(Vals) /\ Len(Tail(fifo)) = Len(fifo) - 1
      /\ \A j \in 1 .. (Len(fifo) - 1) : Tail(fifo)[j] = fifo[j + 1]
      /\ Head(fifo) = fifo[1] /\ Head(fifo) \in Vals
  BY <1>3, <1>5, HeadTailProperties
<1>7. Head(fifo) = store[First + word]
  <2>1. 1 \in 1 .. Len(fifo) /\ First + word + 1 - 1 = First + word
    BY <1>3, <1>5
  <2> QED
    BY <1>4, <1>6, <2>1
<1>8. /\ buffer' = Store!Fetched(call, moved, moved') /\ moved' \in 0 .. Total
      /\ buffer' \in Store!Buffers
  <2>1. moved' = word + 1 /\ moved .. (moved' - 1) = {word} /\ moved' \in 0 .. Total
    BY <1>1, <1>3
  <2>2. buffer \in [0 .. (MaxCount * Words - 1) -> Vals]
    BY Zenon DEF Inv, TypeOK, Store!Buffers
  <2>3. Store!Fetched(call, moved, moved') =
          [k \in DOMAIN buffer |-> IF k \in {word} THEN store[First + k] ELSE buffer[k]]
    BY <2>1 DEF Store!Fetched, First
  <2>4. buffer' = [k \in DOMAIN buffer |-> IF k \in {word} THEN store[First + k] ELSE buffer[k]]
    BY <1>1, <1>7, <2>2
  <2>5. Store!Fetched(call, moved, moved') \in Store!Buffers
    BY <1>3, <2>1, TransferTypes DEF Inv
  <2> QED
    BY <2>1, <2>3, <2>4, <2>5
<1>9. Store!Transfer
  <2>1. moved' \in (moved + 1) .. (call.n * Words)
    BY <1>1, <1>3 DEF Total
  <2> QED
    BY <1>1, <1>3, <1>8, <2>1 DEF Store!Transfer
<1>10. TypeOK'
  <2>1. /\ fifo' \in Seq(Vals) /\ Len(fifo') <= Words
        /\ word' \in 0 .. (MaxCount * Words) /\ moved' \in 0 .. (MaxCount * Words)
    BY <1>1, <1>3, <1>6, Sizes
  <2> QED
    BY <1>1, <1>8, <2>1 DEF Inv, TypeOK, local, ufs
<1>11. CallInv'
  BY <1>1, <1>3, <1>8 DEF CallInv, local, Total, Calm, Busy
<1>12. UfsInv'
  BY <1>1, UfsAside DEF Inv, UfsPcs, local, ufs
<1>13. Moving'
  <2>1. First' = First /\ Total' = Total /\ call' = call /\ card' = card /\ store' = store
    BY <1>1 DEF First, Total
  <2>2. word' \in 0 .. Total /\ moved' = word'
    BY <1>1, <1>3
  <2>3. card.next * Words = First + word' + Len(fifo')
    BY <1>1, <1>3, <1>4, <1>6
  <2>4. \A j \in 1 .. Len(fifo') : fifo'[j] = store[First + word' + j - 1]
    <3> SUFFICES ASSUME NEW j \in 1 .. (Len(fifo) - 1)
                 PROVE  Tail(fifo)[j] = store[First + (word + 1) + j - 1]
      BY <1>1, <1>6
    <3>1. j + 1 \in 1 .. Len(fifo)
          /\ First + word + (j + 1) - 1 = First + (word + 1) + j - 1
      BY <1>3
    <3>2. Tail(fifo)[j] = fifo[j + 1]
      BY <1>6
    <3> QED
      BY <1>4, <3>1, <3>2
  <2> QED
    BY <1>1, <1>4, <2>1, <2>2, <2>3, <2>4 DEF Moving
<1>14. EmmcInv'
  BY <1>1, <1>2, <1>13 DEF EmmcInv, local
<1> QED
  BY <1>9, <1>10, <1>11, <1>12, <1>14 DEF Inv

LEMMA WriteWordStep ==
    ASSUME Inv, emmc_write_word
    PROVE  Inv' /\ UNCHANGED vars
<1>1. /\ pc = "e_data" /\ call.op = "write" /\ word < Total
      /\ AtBlock => WriteReady
      /\ fifo' = Append(fifo, buffer[word]) /\ word' = word + 1
      /\ UNCHANGED <<vars, local, ufs, command, inhibit, complete, card>>
  BY DEF emmc_write_word, Total
<1>2. pc \in EmmcPcs /\ Moving /\ ~inhibit /\ ~complete
  BY <1>1 DEF EmmcPcs, Inv, EmmcInv
<1>3. /\ First \in Nat /\ Total \in Nat /\ Total <= MaxCount * Words
      /\ moved \in Nat /\ word \in Nat
      /\ fifo \in Seq(Vals) /\ Len(fifo) \in Nat /\ Len(fifo) <= Words
      /\ call \in Store!Call /\ Words \in Nat \ {0} /\ MaxCount * Words \in Nat
  BY <1>1, <1>2, EmmcFacts, Sizes
<1>4. /\ card.op = call.op /\ card.next \in call.lba .. Blocks
      /\ word = moved + Len(fifo) /\ card.next * Words = First + moved
      /\ \A j \in 1 .. Len(fifo) : fifo[j] = buffer[moved + j - 1]
  BY <1>1, <1>2 DEF Moving
<1>5. Len(fifo) < Words
  <2>1. Len(fifo) = Words => fifo = <<>>
    BY <1>1, <1>2, FifoAtBlock DEF WriteReady
  <2>2. fifo = <<>> => Len(fifo) = 0
    OBVIOUS
  <2> QED
    BY <1>3, <2>1, <2>2
<1>6. buffer[word] \in Vals
  <2>1. buffer \in [0 .. (MaxCount * Words - 1) -> Vals]
    BY Zenon DEF Inv, TypeOK, Store!Buffers
  <2>2. word \in 0 .. (MaxCount * Words - 1)
    BY <1>1, <1>3
  <2> QED
    BY <2>1, <2>2
<1>7. /\ fifo' \in Seq(Vals) /\ Len(fifo') = Len(fifo) + 1
      /\ fifo'[Len(fifo) + 1] = buffer[word]
      /\ \A j \in 1 .. Len(fifo) : fifo'[j] = fifo[j]
  BY <1>1, <1>3, <1>6, AppendProperties
<1>8. TypeOK'
  <2>1. Len(fifo') <= Words /\ word' \in 0 .. (MaxCount * Words)
    BY <1>1, <1>3, <1>5, <1>7
  <2> QED
    BY <1>1, <1>7, <2>1 DEF Inv, TypeOK, vars, local, ufs
<1>9. CallInv'
  BY <1>1 DEF Inv, CallInv, vars, local, Total, Calm, Busy
<1>10. UfsInv'
  BY <1>1, UfsAside DEF Inv, UfsPcs, local, ufs
<1>11. Moving'
  <2>1. /\ First' = First /\ Total' = Total /\ call' = call /\ card' = card
        /\ moved' = moved /\ buffer' = buffer
    BY <1>1 DEF First, Total, vars
  <2>2. word' \in 0 .. Total /\ word' = moved + Len(fifo')
    BY <1>1, <1>3, <1>4, <1>7
  <2>3. \A j \in 1 .. Len(fifo') : fifo'[j] = buffer[moved + j - 1]
    <3> SUFFICES ASSUME NEW j \in 1 .. (Len(fifo) + 1)
                 PROVE  fifo'[j] = buffer[moved + j - 1]
      BY <1>7
    <3>1. CASE j = Len(fifo) + 1
      <4>1. moved + (Len(fifo) + 1) - 1 = word
        BY <1>3, <1>4
      <4> QED
        BY <1>7, <3>1, <4>1
    <3>2. CASE j # Len(fifo) + 1
      <4>1. j \in 1 .. Len(fifo)
        BY <1>3, <3>2
      <4> QED
        BY <1>4, <1>7, <4>1
    <3> QED
      BY <3>1, <3>2
  <2> QED
    BY <1>1, <1>4, <2>1, <2>2, <2>3 DEF Moving
<1>12. EmmcInv'
  BY <1>1, <1>2, <1>11 DEF EmmcInv, local
<1> QED
  BY <1>1, <1>8, <1>9, <1>10, <1>12 DEF Inv

\* The controller has taken a command to read or to write.
LEMMA InForce ==
    ASSUME Inv, card.op \in {"read", "write"}
    PROVE  /\ pc \in EmmcPcs /\ Moving
           /\ Moving' /\ UNCHANGED <<pc, inhibit, complete, command, call, word>> => EmmcInv'
<1>1. ~Resting
  BY DEF Resting, Stopped
<1>2. pc \in EmmcPcs /\ Moving
  BY <1>1 DEF Inv, EmmcInv, EmmcPcs
<1>3. ASSUME Moving', UNCHANGED <<pc, inhibit, complete, command, call, word>>
      PROVE  EmmcInv'
  BY <1>1, <1>2, <1>3 DEF Inv, EmmcInv, EmmcPcs, Total
<1> QED
  BY <1>2, <1>3

LEMMA TakeCommand ==
    ASSUME Inv, inhibit, command.cmd \in {"read", "write"},
           card' = [op |-> command.cmd, next |-> command.arg],
           command' = NoCommand, inhibit' = FALSE, complete' = TRUE, fifo' = <<>>,
           UNCHANGED <<vars, local, ufs, word>>
    PROVE  Inv'
<1>1. /\ pc = "e_issued" /\ command = [cmd |-> call.op, arg |-> call.lba]
      /\ word = 0 /\ moved = 0
  BY DEF Inv, EmmcInv
<1>2. /\ call \in Store!Call /\ call.op \in {"read", "write"} /\ Total \in Nat /\ First \in Nat
      /\ call.lba \in Nat /\ call.lba < Blocks /\ Blocks \in Nat /\ Words \in Nat \ {0}
  BY <1>1, EmmcFacts, CallFacts, Sizes DEF EmmcPcs
<1>3. card' = [op |-> call.op, next |-> call.lba]
  BY <1>1
<1>4. TypeOK'
  <2>1. card' \in Card
    BY <1>2, <1>3 DEF Card
  <2>2. command' \in Commands
    BY Sizes DEF NoCommand, Commands
  <2>3. fifo' \in Seq(Vals) /\ Len(fifo') <= Words
    BY <1>2
  <2> QED
    BY <2>1, <2>2, <2>3 DEF Inv, TypeOK, vars, local, ufs
<1>5. CallInv'
  BY DEF Inv, CallInv, vars, local, Total
<1>6. UfsInv'
  BY <1>1, UfsAside DEF Inv, UfsPcs, local, ufs
<1>7. Moving'
  <2>1. First' = First /\ Total' = Total /\ call' = call /\ word' = 0 /\ moved' = 0
    BY <1>1 DEF First, Total, vars
  <2>2. card'.op = call.op /\ card'.next = call.lba /\ Len(fifo') = 0
    BY <1>3
  <2>3. card'.next * Words = First
    BY <2>2 DEF First
  <2> QED
    BY <1>2, <2>1, <2>2, <2>3 DEF Moving
<1>8. EmmcInv'
  BY <1>1, <1>7 DEF EmmcInv, local
<1> QED
  BY <1>4, <1>5, <1>6, <1>8 DEF Inv

\* A stop waits for the last block: everything has arrived.
LEMMA TakeStop ==
    ASSUME Inv, inhibit, command.cmd = "stop", ~(card.op = "write" /\ fifo # <<>>),
           card' = Stopped,
           command' = NoCommand, inhibit' = FALSE, complete' = TRUE, fifo' = <<>>,
           UNCHANGED <<vars, local, ufs, word>>
    PROVE  Inv'
<1>1. pc = "e_stopping" /\ Moving /\ word = Total
  <2>1. pc \in EmmcPcs
    BY DEF Inv, EmmcInv, EmmcPcs
  <2>2. call.op # "stop"
    BY <2>1, EmmcFacts
  <2> QED
    BY <2>1, <2>2 DEF Inv, EmmcInv, EmmcPcs
<1>2. moved \in Nat /\ Total \in Nat
  BY <1>1, EmmcFacts DEF EmmcPcs
<1>3. moved = Total
  <2>1. CASE call.op = "read"
    BY <1>1, <2>1 DEF Moving
  <2>2. CASE call.op = "write"
    <3>1. word = moved + Len(fifo) /\ fifo = <<>>
      BY <1>1, <2>2 DEF Moving
    <3> QED
      BY <1>1, <1>2, <3>1
  <2> QED
    BY <1>1, <2>1, <2>2 DEF Moving
<1>4. TypeOK'
  <2>1. card' \in Card /\ command' \in Commands
    BY Sizes DEF Card, Stopped, NoCommand, Commands
  <2>2. fifo' \in Seq(Vals) /\ Len(fifo') <= Words
    BY Sizes
  <2> QED
    BY <2>1, <2>2 DEF Inv, TypeOK, vars, local, ufs
<1>5. CallInv'
  BY DEF Inv, CallInv, vars, local, Total
<1>6. UfsInv'
  BY <1>1, UfsAside DEF Inv, UfsPcs, local, ufs
<1>7. EmmcInv'
  BY <1>1, <1>3 DEF EmmcInv, Resting, local, vars, Total
<1> QED
  BY <1>4, <1>5, <1>6, <1>7 DEF Inv

\* The controller reads a block.
Fill ==
    /\ card.op = "read" /\ card.next < Blocks /\ fifo = <<>>
    /\ fifo' = [j \in 1 .. Words |-> store[card.next * Words + j - 1]]
    /\ card' = [card EXCEPT !.next = @ + 1]
    /\ UNCHANGED <<vars, local, ufs, command, inhibit, complete, word>>

LEMMA FillStep ==
    ASSUME Inv, Fill
    PROVE  Inv' /\ UNCHANGED vars
<1> DEFINE p == card.next * Words
<1>1. /\ card.op = "read" /\ fifo = <<>> /\ card.next < Blocks
      /\ fifo' = [j \in 1 .. Words |-> store[p + j - 1]]
      /\ card' = [card EXCEPT !.next = @ + 1]
      /\ UNCHANGED <<vars, local, ufs, command, inhibit, complete, word>>
  BY DEF Fill
<1>2. /\ pc \in EmmcPcs /\ Moving /\ card.op = call.op /\ card.next \in call.lba .. Blocks
      /\ moved = word /\ p = First + word + Len(fifo)
      /\ word \in 0 .. Total
  BY <1>1, InForce DEF Moving
<1>3. /\ First \in Nat /\ Total \in Nat /\ word \in Nat /\ Len(fifo) = 0
      /\ call.lba \in Nat /\ Blocks \in Nat /\ card.next \in Nat /\ Words \in Nat \ {0}
      /\ card \in Card /\ Blocks * Words \in Nat
  <2>1. First \in Nat /\ Total \in Nat /\ word \in Nat /\ call.lba \in Nat
    BY <1>2, EmmcFacts, CallFacts
  <2>2. card \in Card /\ Len(fifo) = 0
    BY <1>1 DEF Inv, TypeOK
  <2> QED
    BY <1>2, <2>1, <2>2, Sizes
<1>4. (card.next + 1) * Words = p + Words /\ p \in Nat /\ p + Words <= Blocks * Words
  BY <1>1, <1>3, NextBlock
<1> HIDE DEF p
<1>5. fifo' \in Seq(Vals) /\ Len(fifo') = Words
  <2> DEFINE e == Blocks * Words
  <2>1. /\ p \in Nat /\ e \in Nat /\ Words \in Nat /\ p + Words <= e
        /\ store \in [0 .. (e - 1) -> Vals]
    BY <1>3, <1>4 DEF Inv, TypeOK
  <2> HIDE DEF e
  <2>2. \A j \in 1 .. Words : p + j - 1 \in 0 .. (e - 1)
    BY <2>1
  <2>3. \A j \in 1 .. Words : store[p + j - 1] \in Vals
    BY <2>1, <2>2
  <2>4. fifo' = [j \in 1 .. Words |-> store[p + j - 1]]
    BY <1>1
  <2>5. fifo' \in [1 .. Words -> Vals]
    BY ONLY <2>3, <2>4
  <2> QED
    BY ONLY <2>1, <2>5
<1>6. card'.op = card.op /\ card'.next = card.next + 1 /\ card' \in Card
  BY <1>1, <1>3 DEF Card
<1>7. TypeOK'
  BY <1>1, <1>3, <1>5, <1>6 DEF Inv, TypeOK, vars, local, ufs
<1>8. CallInv'
  BY <1>1 DEF Inv, CallInv, vars, local, Total
<1>9. UfsInv'
  BY <1>1, <1>2, UfsAside DEF Inv, EmmcPcs, UfsPcs, local, ufs
<1>10. Moving'
  <2>1. /\ First' = First /\ Total' = Total /\ call' = call /\ word' = word /\ moved' = moved
        /\ store' = store
    BY <1>1 DEF First, Total, vars
  <2>2. card'.next * Words = First + word + Len(fifo')
    BY <1>2, <1>3, <1>4, <1>5, <1>6
  <2>3. \A j \in 1 .. Len(fifo') : fifo'[j] = store[First + word + j - 1]
    <3>1. p = First + word
      BY <1>2, <1>3
    <3> QED
      BY <1>1, <1>5, <3>1
  <2>4. card'.next \in call.lba .. Blocks
    BY <1>1, <1>2, <1>3, <1>6
  <2> QED
    BY <1>1, <1>2, <1>6, <2>1, <2>2, <2>3, <2>4 DEF Moving
<1>11. EmmcInv'
  BY <1>1, <1>10, InForce DEF local, vars
<1> QED
  BY <1>1, <1>7, <1>8, <1>9, <1>11 DEF Inv

\* The controller stores a block.
Drain ==
    /\ card.op = "write" /\ Len(fifo) = Words
    /\ store' = [w \in DOMAIN store |-> IF w \div Words = card.next
                                        THEN fifo[(w % Words) + 1] ELSE store[w]]
    /\ fifo' = <<>>
    /\ card' = [card EXCEPT !.next = @ + 1]
    /\ moved' = moved + Words
    /\ UNCHANGED <<buffer, call, ret, local, ufs, command, inhibit, complete, word>>

LEMMA DrainStep ==
    ASSUME Inv, Drain
    PROVE  Inv' /\ Store!Transfer
<1> DEFINE p == card.next * Words
           e == Blocks * Words
<1>1. /\ card.op = "write" /\ Len(fifo) = Words
      /\ store' = [w \in DOMAIN store |-> IF w \div Words = card.next
                                          THEN fifo[(w % Words) + 1] ELSE store[w]]
      /\ fifo' = <<>>
      /\ card' = [card EXCEPT !.next = @ + 1]
      /\ moved' = moved + Words
      /\ UNCHANGED <<buffer, call, ret, local, ufs, command, inhibit, complete, word>>
  BY DEF Drain
<1>2. /\ pc \in EmmcPcs /\ Moving /\ call.op = "write" /\ card.next \in call.lba .. Blocks
      /\ word \in 0 .. Total /\ word = moved + Words /\ p = First + moved
      /\ \A j \in 1 .. Words : fifo[j] = buffer[moved + j - 1]
  BY <1>1, InForce DEF Moving
<1>3. /\ First \in Nat /\ Total \in Nat /\ word \in Nat /\ moved \in Nat
      /\ call.lba \in Nat /\ Blocks \in Nat /\ card.next \in Nat /\ Words \in Nat \ {0}
      /\ call \in Store!Call /\ call # NoCall
      /\ card \in Card /\ e \in Nat /\ First + Total <= e
      /\ Total <= MaxCount * Words /\ MaxCount * Words \in Nat
  <2>1. /\ First \in Nat /\ Total \in Nat /\ word \in Nat /\ moved \in Nat /\ call.lba \in Nat
        /\ call \in Store!Call /\ call # NoCall
        /\ First + Total <= e /\ Total <= MaxCount * Words
    BY <1>2, EmmcFacts, CallFacts
  <2>2. card \in Card
    BY DEF Inv, TypeOK
  <2> QED
    BY <1>2, <2>1, <2>2, Sizes
<1>4. (card.next + 1) * Words = p + Words /\ p \in Nat
  BY <1>3, Products
<1>5. store \in [0 .. (e - 1) -> Vals]
  BY DEF Inv, TypeOK
<1>6. card.next + 1 <= Blocks
  <2>1. p + Words <= e
    <3> HIDE DEF p, e
    <3> QED
      BY <1>2, <1>3, <1>4
  <2>2. card.next + 1 \in Int /\ Blocks \in Int
    BY <1>3
  <2>3. (card.next + 1) * Words <= Blocks * Words
    BY <1>4, <2>1
  <2> QED
    BY <1>3, <2>2, <2>3, Products
<1>7. \A w \in 0 .. (e - 1) : /\ w \div Words = card.next <=> w \in p .. (p + Words - 1)
                              /\ w \div Words = card.next => w % Words = w - p
  <2> SUFFICES ASSUME NEW w \in 0 .. (e - 1)
               PROVE  /\ w \div Words = card.next <=> w \in p .. (p + Words - 1)
                      /\ w \div Words = card.next => w % Words = w - p
    OBVIOUS
  <2>1. w \in Nat /\ card.next \in Nat /\ Words \in Nat \ {0}
    BY <1>3
  <2> QED
    BY <2>1, BlockOfWord, Zenon
<1> HIDE DEF p, e
<1>8. moved' \in 0 .. Total /\ moved' = word /\ moved' \in (moved + 1) .. Total
  BY <1>1, <1>2, <1>3
<1>9. store' = Store!Stored(call, moved, moved')
  <2>1. Store!Stored(call, moved, moved') =
          [w \in DOMAIN store |-> IF w - First \in moved .. (moved' - 1)
                                  THEN buffer[w - First] ELSE store[w]]
    BY DEF Store!Stored, First
  <2>2. ASSUME NEW w \in 0 .. (e - 1)
        PROVE  /\ w \div Words = card.next <=> w - First \in moved .. (moved' - 1)
               /\ w \div Words = card.next => fifo[(w % Words) + 1] = buffer[w - First]
    <3>1. w \div Words = card.next <=> w \in p .. (p + Words - 1)
      BY <1>7
    <3>2. w \in p .. (p + Words - 1) <=> w - First \in moved .. (moved' - 1)
      <4>1. w \in Int /\ p = First + moved /\ moved' = moved + Words
        BY <1>1, <1>2, <1>3
      <4> QED
        BY <1>3, <4>1
    <3>3. ASSUME w \div Words = card.next PROVE fifo[(w % Words) + 1] = buffer[w - First]
      <4>1. w % Words = w - p /\ w \in p .. (p + Words - 1)
        BY <1>7, <3>3
      <4>2. (w - p) + 1 \in 1 .. Words /\ moved + ((w - p) + 1) - 1 = w - First
        BY <1>2, <1>3, <1>4, <4>1
      <4> QED
        BY <1>2, <4>1, <4>2
    <3> QED
      BY <3>1, <3>2, <3>3
  <2>3. DOMAIN store = 0 .. (e - 1)
    BY <1>5
  <2> QED
    BY <1>1, <2>1, <2>2, <2>3, Zenon
<1>10. Store!Transfer
  BY <1>1, <1>2, <1>3, <1>8, <1>9 DEF Store!Transfer, Total
<1>11. card'.op = card.op /\ card'.next = card.next + 1 /\ card' \in Card
  BY <1>1, <1>3, <1>6 DEF Card
<1>12. TypeOK'
  <2>1. store' \in [0 .. (Blocks * Words - 1) -> Vals]
    BY <1>3, <1>8, <1>9, TransferTypes DEF Inv
  <2>2. moved' \in 0 .. (MaxCount * Words) /\ fifo' \in Seq(Vals) /\ Len(fifo') <= Words
    BY <1>1, <1>3, <1>8
  <2> QED
    BY <1>1, <1>11, <2>1, <2>2 DEF Inv, TypeOK, local, ufs
<1>13. CallInv'
  BY <1>1, <1>2, <1>3, <1>8 DEF Inv, CallInv, EmmcPcs, local, Total, Calm, Busy
<1>14. UfsInv'
  BY <1>1, <1>2, UfsAside DEF Inv, EmmcPcs, UfsPcs, local, ufs
<1>15. Moving'
  <2>1. First' = First /\ Total' = Total /\ call' = call /\ word' = word /\ Len(fifo') = 0
    BY <1>1 DEF First, Total
  <2>2. card'.next * Words = First + moved'
    BY <1>1, <1>2, <1>3, <1>4, <1>11
  <2>3. card'.next \in call.lba .. Blocks
    BY <1>2, <1>3, <1>6, <1>11
  <2>4. word = moved' + 0
    BY <1>3, <1>8
  <2> QED
    BY <1>1, <1>2, <1>11, <2>1, <2>2, <2>3, <2>4 DEF Moving
<1>16. EmmcInv'
  BY <1>1, <1>15, InForce DEF local
<1> QED
  BY <1>10, <1>12, <1>13, <1>14, <1>16 DEF Inv

LEMMA EmmcControllerStep ==
    ASSUME Inv, EmmcController
    PROVE  Inv' /\ (Store!Transfer \/ UNCHANGED vars)
<1>1. CASE /\ inhibit /\ command.cmd \in {"read", "write"}
           /\ card' = [op |-> command.cmd, next |-> command.arg]
           /\ command' = NoCommand /\ inhibit' = FALSE /\ complete' = TRUE
           /\ fifo' = <<>>
           /\ UNCHANGED <<vars, local, ufs, word>>
  BY <1>1, TakeCommand
<1>2. CASE /\ inhibit /\ command.cmd = "stop" /\ ~(card.op = "write" /\ fifo # <<>>)
           /\ card' = Stopped
           /\ command' = NoCommand /\ inhibit' = FALSE /\ complete' = TRUE
           /\ fifo' = <<>>
           /\ UNCHANGED <<vars, local, ufs, word>>
  BY <1>2, TakeStop
<1> QED
  BY <1>1, <1>2, FillStep, DrainStep DEF EmmcController, Fill, Drain

-----------------------------------------------------------------------------
(* The theorems.                                                           *)

LEMMA DriverStep ==
    ASSUME Inv, Driver
    PROVE  Inv' /\ (Store!Transfer \/ Store!Return \/ UNCHANGED vars)
<1>1. CASE ufs_init
  BY <1>1, UfsInitStep DEF ufs_init
<1>2. CASE ufs_send_command
  BY <1>2, BuildStep DEF ufs_send_command
<1>3. CASE Ring
  BY <1>3, RingStep DEF Ring
<1>4. CASE Wait
  BY <1>4, WaitStep DEF Wait
<1>5. CASE Return
  <2>1. call # NoCall /\ moved = call.n * Words
    BY <1>5, CallFacts DEF Return, At, Inv, CallInv, Busy, Total
  <2>2. Store!Return
    BY <1>5, <2>1 DEF Return, Store!Return
  <2> QED
    BY <1>5, <2>2, ReturnStep
<1> QED
  BY <1>1, <1>2, <1>3, <1>4, <1>5, IssueStep, CommandStep, ReadWordStep, WriteWordStep, StopStep
     DEF Driver

\* Every step keeps the invariant and is a step of BlockStore, or none for it.
LEMMA NextStep ==
    ASSUME Inv, [Next]_all
    PROVE  Inv' /\ [Store!Next]_(Store!vars)
<1>1. UNCHANGED vars => UNCHANGED Store!vars
  BY DEF vars, Store!vars
<1>2. ASSUME NEW type \in Types, set_active_block_device(type)
      PROVE  Inv' /\ [Store!Next]_(Store!vars)
  BY <1>1, <1>2, SelectInv DEF set_active_block_device
<1>3. ASSUME NEW c \in Store!Call, NEW contents \in Contents, block_device_call(c, contents)
      PROVE  Inv' /\ [Store!Next]_(Store!vars)
  <2>1. Inv' /\ call = NoCall
    BY <1>3, CallStep DEF block_device_call, Inv, CallInv, Calm
  <2>2. Store!Refuse \/ Store!Begin(c, contents)
    BY <1>3, <2>1 DEF block_device_call, Store!Refuse, Store!Begin
  <2> QED
    BY <2>1, <2>2 DEF Store!Next
<1>4. CASE Driver
  BY <1>1, <1>4, DriverStep DEF Store!Next
<1>5. CASE Controllers
  BY <1>1, <1>5, UfsControllerStep, EmmcControllerStep DEF Controllers, Store!Next
<1>6. CASE UNCHANGED all
  <2>1. UNCHANGED <<vars, local, ufs, emmc>>
    BY <1>6 DEF all
  <2>2. TypeOK' /\ CallInv' /\ UfsInv'
    BY <2>1 DEF Inv, TypeOK, CallInv, UfsInv, vars, local, ufs, emmc, Total
  <2>3. EmmcInv'
    BY <2>1 DEF Inv, EmmcInv, Moving, Resting, vars, local, emmc, Total, First
  <2> QED
    BY <1>1, <2>1, <2>2, <2>3 DEF Inv
<1> QED
  BY <1>2, <1>3, <1>4, <1>5, <1>6 DEF Next

\* The state of both drivers and controllers keeps its types.
THEOREM DeviceTypeCorrect == Spec => []TypeOK
<1>1. Inv /\ [Next]_all => Inv'
  BY NextStep
<1>2. Inv => TypeOK
  BY DEF Inv
<1> QED
  BY <1>1, <1>2, InitInv, PTL DEF Spec

\* Both drivers do what the callers of block_device_read and block_device_write
\* rely on.
THEOREM DriversImplementStore == Spec => ImplementsStore
<1>1. Inv /\ [Next]_all => Inv'
  BY NextStep
<1>2. Init => Store!Init
  BY DEF Init
<1>3. Inv /\ [Next]_all => [Store!Next]_(Store!vars)
  BY NextStep
<1> QED
  BY <1>1, <1>2, <1>3, InitInv, PTL DEF Spec, ImplementsStore, Store!Spec

\* The driver leaves the descriptor alone while the controller may read it.
THEOREM DescriptorIsStable == Spec => DescriptorStable
<1>1. Inv /\ [Next]_all => Inv'
  BY NextStep
<1>2. Inv /\ [Next]_all => [doorbell /\ doorbell' => UNCHANGED <<trd, prdt>>]_all
  <2> SUFFICES ASSUME Inv, Next, doorbell PROVE UNCHANGED <<trd, prdt>>
    OBVIOUS
  <2>1. pc = "u_wait"
    BY DEF Inv, UfsInv
  <2>2. ~ufs_send_command
    BY <2>1 DEF ufs_send_command, At
  <2> QED
    BY <2>2 DEF Next, Driver, Controllers, set_active_block_device, block_device_call, ufs_init,
       Ring, Wait, Return, Issue, emmc_send_command, emmc_read_word, emmc_write_word, emmc_stop,
       UfsController, EmmcController, ufs
<1> QED
  BY <1>1, <1>2, InitInv, PTL DEF Spec, DescriptorStable
=============================================================================

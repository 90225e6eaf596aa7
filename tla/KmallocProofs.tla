--------------------------- MODULE KmallocProofs ---------------------------
(***************************************************************************)
(* Proofs about the kernel heap (Kmalloc), for every heap address and      *)
(* size, every word size and every set of request sizes that the           *)
(* assumption of Kmalloc admits.                                           *)
(*                                                                         *)
(* The first part is about the list alone: what marking, cutting and       *)
(* merging a block do to any tiled list of headers h.  The second part     *)
(* lifts these lemmas to the actions.                                      *)
(***************************************************************************)
EXTENDS Kmalloc, TLAPS

\* Rounding a request up to eight bytes does not make it smaller.
LEMMA Align8Covers ==
    ASSUME NEW n \in Requests
    PROVE  /\ Align8(n) \in Nat
           /\ n <= Align8(n)
<1> DEFINE m == n + 7
<1>1. m \in 0 .. (WordSize - 1) /\ n \in Nat /\ WordSize \in Nat
  BY HeapAssumption
<1>2. m % WordSize = m
  BY <1>1
<1>3. Align8(n) = m - (m % 8)
  BY <1>2 DEF Align8
<1> QED
  BY <1>1, <1>3

\* What tiling says of one listed block: where it ends, what its header
\* holds, and that its address is not the null pointer.
LEMMA BlockFacts ==
    ASSUME NEW h, Headers(h), Tiled(h), NEW b \in DOMAIN h
    PROVE  /\ b \in Nat /\ b # NULL /\ HeapStart <= b
           /\ h[b] \in Header
           /\ h[b].size \in Nat /\ h[b].free \in BOOLEAN
           /\ h[b].next \in DOMAIN h \cup {NULL}
           /\ h[b].next # NULL => h[b].next = End(h, b)
           /\ h[b].next = NULL => End(h, b) = HeapEnd
           /\ b < End(h, b)
           /\ End(h, b) = b + Hdr + h[b].size
           /\ End(h, b) <= HeapEnd
           /\ b + Hdr \in HeapStart .. HeapEnd
BY HeapAssumption DEF Headers, Tiled, Header, End, Hdr, NULL, HeapEnd

\* g is h with block b marked f.
Marked(g, h, b, f) ==
    /\ Headers(g)
    /\ Tiled(g)
    /\ DOMAIN g = DOMAIN h
    /\ \A c \in DOMAIN h : /\ g[c].size = h[c].size
                           /\ g[c].next = h[c].next
                           /\ g[c].free = IF c = b THEN f ELSE h[c].free

\* Marking a block leaves the shape of the list alone.
LEMMA MarkFacts ==
    ASSUME NEW h, Headers(h), Tiled(h), NEW b \in DOMAIN h, NEW f \in BOOLEAN,
           NEW g, g = Mark(h, b, f)
    PROVE  Marked(g, h, b, f)
<1>1. /\ DOMAIN g = DOMAIN h
      /\ \A c \in DOMAIN h :
           g[c] = IF c = b THEN [size |-> h[b].size, next |-> h[b].next, free |-> f]
                  ELSE h[c]
  BY DEF Mark
<1>2. \A c \in DOMAIN h : /\ g[c].size = h[c].size
                          /\ g[c].next = h[c].next
                          /\ g[c].free = IF c = b THEN f ELSE h[c].free
  BY <1>1
<1>3. Headers(g)
  <2>1. \A c \in DOMAIN h : g[c] \in Header
    BY <1>1 DEF Headers, Header
  <2>2. g = [c \in DOMAIN h |-> g[c]]
    BY <1>1 DEF Mark
  <2> QED
    BY <1>1, <2>1, <2>2 DEF Headers
<1>4. Tiled(g)
  BY <1>1, <1>2 DEF Tiled, End
<1> QED
  BY <1>1, <1>2, <1>3, <1>4 DEF Marked

\* g is h with block b cut behind n bytes.
Cut(g, h, b, n) ==
    LET new == b + Hdr + n
    IN  /\ Headers(g)
        /\ Tiled(g)
        /\ new \notin DOMAIN h
        /\ DOMAIN g = DOMAIN h \cup {new}
        /\ g[new] = [size |-> h[b].size - n - Hdr, next |-> h[b].next, free |-> TRUE]
        /\ g[b] = [size |-> n, next |-> new, free |-> FALSE]
        /\ \A c \in DOMAIN h \ {b} : g[c] = h[c]

\* Cutting a block that is large enough keeps the tiling.
LEMMA SplitFacts ==
    ASSUME NEW h, Headers(h), Tiled(h), NEW b \in DOMAIN h,
           NEW n \in Nat, h[b].size > n + Hdr,
           NEW g, g = Split(h, b, n)
    PROVE  Cut(g, h, b, n)
<1> DEFINE new == b + Hdr + n
<1>1. /\ b \in Nat /\ new \in Nat /\ b < new /\ new < End(h, b)
      /\ new \in HeapStart .. HeapEnd
      /\ End(h, b) \in Nat
  BY BlockFacts, HeapAssumption DEF Hdr, HeapEnd
<1>2. \A c \in DOMAIN h : /\ c \in Nat
                          /\ c < b => End(h, c) <= b
                          /\ b < c => End(h, b) <= c
                          /\ c < End(h, c) /\ End(h, c) \in Nat
                          /\ c # new
  BY <1>1, BlockFacts DEF Tiled, Hdr
<1>3. /\ DOMAIN g = DOMAIN h \cup {new}
      /\ g[new] = [size |-> h[b].size - n - Hdr, next |-> h[b].next, free |-> TRUE]
      /\ g[b] = [size |-> n, next |-> new, free |-> FALSE]
      /\ \A c \in DOMAIN h \ {b} : g[c] = h[c]
  BY <1>1, <1>2 DEF Split
<1>4. Headers(g)
  <2>1. \A c \in DOMAIN g : g[c] \in Header
    <3>1. g[new] \in Header
      BY <1>3, BlockFacts DEF Header, Hdr, Headers, NULL
    <3>2. g[b] \in Header
      BY <1>1, <1>3 DEF Header
    <3> QED
      BY <1>3, <3>1, <3>2 DEF Headers
  <2>2. g = [c \in DOMAIN g |-> g[c]]
    BY <1>3 DEF Split
  <2> QED
    BY <1>1, <1>3, <2>1, <2>2 DEF Headers
<1>5. /\ End(g, new) = End(h, b)
      /\ End(g, b) = new
      /\ \A c \in DOMAIN h \ {b} : End(g, c) = End(h, c)
  <2>1. End(g, new) = new + Hdr + (h[b].size - n - Hdr)
    BY <1>3 DEF End
  <2>2. End(g, b) = new
    BY <1>3 DEF End
  <2>3. \A c \in DOMAIN h \ {b} : End(g, c) = End(h, c)
    BY <1>3 DEF End
  <2> QED
    BY <2>1, <2>2, <2>3, BlockFacts DEF Hdr
<1>6. Tiled(g)
  <2>1. DOMAIN g # {} => HeapStart \in DOMAIN g
    BY <1>3 DEF Tiled
  <2>2. \A c \in DOMAIN g :
          /\ End(g, c) \in DOMAIN g \cup {HeapEnd}
          /\ g[c].next = IF End(g, c) = HeapEnd THEN NULL ELSE End(g, c)
    <3>1. \A c \in DOMAIN h \ {b} :
          /\ End(g, c) \in DOMAIN g \cup {HeapEnd}
          /\ g[c].next = IF End(g, c) = HeapEnd THEN NULL ELSE End(g, c)
      BY <1>3, <1>5 DEF Tiled
    <3>2. /\ End(g, new) \in DOMAIN g \cup {HeapEnd}
          /\ g[new].next = IF End(g, new) = HeapEnd THEN NULL ELSE End(g, new)
      BY <1>3, <1>5 DEF Tiled
    <3>3. new # HeapEnd
      BY <1>1, BlockFacts, HeapAssumption DEF HeapEnd
    <3>4. /\ End(g, b) \in DOMAIN g \cup {HeapEnd}
          /\ g[b].next = IF End(g, b) = HeapEnd THEN NULL ELSE End(g, b)
      BY <1>3, <1>5, <3>3
    <3> QED
      BY <1>3, <3>1, <3>2, <3>4
  <2>3. \A c, d \in DOMAIN g : c < d => End(g, c) <= d
    <3> SUFFICES ASSUME NEW c \in DOMAIN g, NEW d \in DOMAIN g, c < d
                 PROVE  End(g, c) <= d
      OBVIOUS
    <3>1. CASE c = new
      <4>1. d \in DOMAIN h /\ b < d
        BY <3>1, <1>1, <1>2, <1>3
      <4> QED
        BY <3>1, <4>1, <1>2, <1>5
    <3>2. CASE c = b
      BY <3>2, <1>1, <1>2, <1>3, <1>5
    <3>3. CASE c # new /\ c # b
      <4>1. c \in DOMAIN h \ {b} /\ End(g, c) = End(h, c)
        BY <3>3, <1>3, <1>5
      <4>2. CASE d \in DOMAIN h
        BY <4>1, <4>2 DEF Tiled
      <4>3. CASE d = new
        BY <4>1, <4>3, <1>1, <1>2
      <4> QED
        BY <4>2, <4>3, <1>3
    <3> QED
      BY <3>1, <3>2, <3>3
  <2> QED
    BY <2>1, <2>2, <2>3 DEF Tiled
<1> QED
  BY <1>2, <1>3, <1>4, <1>6 DEF Cut

\* g is h with block b and its successor merged into one.
Merged(g, h, b) ==
    LET n == h[b].next
    IN  /\ Headers(g)
        /\ Tiled(g)
        /\ n \in DOMAIN h /\ b < n /\ n = End(h, b)
        /\ \A c \in DOMAIN h : b < c => n <= c
        /\ DOMAIN g = DOMAIN h \ {n}
        /\ g[b] = [size |-> h[b].size + Hdr + h[n].size, next |-> h[n].next, free |-> h[b].free]
        /\ \A c \in DOMAIN h \ {b, n} : g[c] = h[c]

\* Merging a block with its successor keeps the tiling.
LEMMA MergeFacts ==
    ASSUME NEW h, Headers(h), Tiled(h), NEW b \in DOMAIN h, Mergeable(h, b),
           NEW g, g = Merge(h, b)
    PROVE  Merged(g, h, b)
<1> DEFINE n == h[b].next
<1>1. /\ n \in DOMAIN h /\ n = End(h, b) /\ b \in Nat /\ n \in Nat /\ b < n
      /\ h[b].free \in BOOLEAN
  BY BlockFacts DEF Mergeable, NULL
<1>2. \A c \in DOMAIN h : /\ c \in Nat
                          /\ c < b => End(h, c) <= b
                          /\ b < c => n <= c
                          /\ n < c => End(h, n) <= c
                          /\ c < End(h, c) /\ End(h, c) \in Nat
  BY <1>1, BlockFacts DEF Tiled, Hdr
<1>3. /\ DOMAIN g = DOMAIN h \ {n}
      /\ g[b] = [size |-> h[b].size + Hdr + h[n].size, next |-> h[n].next, free |-> h[b].free]
      /\ \A c \in DOMAIN h \ {b, n} : g[c] = h[c]
  BY <1>1 DEF Merge
<1>4. Headers(g)
  <2>1. g[b] \in Header
    <3>1. h[b].size + Hdr + h[n].size \in Nat /\ h[n].next \in Nat
      BY <1>1, BlockFacts DEF Hdr, NULL
    <3> QED
      BY <1>1, <1>3, <3>1 DEF Header
  <2>2. \A c \in DOMAIN g : g[c] \in Header
    BY <1>3, <2>1 DEF Headers
  <2>3. g = [c \in DOMAIN g |-> g[c]]
    BY <1>3 DEF Merge
  <2> QED
    BY <1>3, <2>2, <2>3 DEF Headers
<1>5. /\ End(g, b) = End(h, n)
      /\ \A c \in DOMAIN h \ {b, n} : End(g, c) = End(h, c)
  <2>1. End(g, b) = b + Hdr + (h[b].size + Hdr + h[n].size)
    BY <1>3 DEF End
  <2>2. End(h, n) = n + Hdr + h[n].size /\ n = b + Hdr + h[b].size
    BY <1>1 DEF End
  <2>3. \A c \in DOMAIN h \ {b, n} : End(g, c) = End(h, c)
    BY <1>3 DEF End
  <2> QED
    BY <2>1, <2>2, <2>3, <1>1, BlockFacts DEF Hdr
<1>6. Tiled(g)
  <2>1. DOMAIN g # {} => HeapStart \in DOMAIN g
    <3>1. n # HeapStart
      BY <1>1, BlockFacts, HeapAssumption
    <3> QED
      BY <1>3, <3>1 DEF Tiled
  <2>2. \A c \in DOMAIN g :
          /\ End(g, c) \in DOMAIN g \cup {HeapEnd}
          /\ g[c].next = IF End(g, c) = HeapEnd THEN NULL ELSE End(g, c)
    <3> SUFFICES ASSUME NEW c \in DOMAIN g
                 PROVE  /\ End(g, c) \in DOMAIN g \cup {HeapEnd}
                        /\ g[c].next = IF End(g, c) = HeapEnd THEN NULL ELSE End(g, c)
      OBVIOUS
    <3>1. CASE c = b
      <4>1. End(h, n) \in DOMAIN h \cup {HeapEnd} /\ End(h, n) # n
        BY <1>1, <1>2 DEF Tiled
      <4>2. h[n].next = IF End(h, n) = HeapEnd THEN NULL ELSE End(h, n)
        BY <1>1 DEF Tiled
      <4> QED
        BY <3>1, <4>1, <4>2, <1>3, <1>5
    <3>2. CASE c # b
      <4>1. c \in DOMAIN h \ {b, n} /\ End(g, c) = End(h, c)
        BY <3>2, <1>3, <1>5
      <4>2. End(h, c) # n
        \* c is before b and ends at b or earlier, or it is behind n.
        BY <4>1, <1>1, <1>2
      <4> QED
        BY <4>1, <4>2, <1>3 DEF Tiled
    <3> QED
      BY <3>1, <3>2
  <2>3. \A c, d \in DOMAIN g : c < d => End(g, c) <= d
    <3> SUFFICES ASSUME NEW c \in DOMAIN g, NEW d \in DOMAIN g, c < d
                 PROVE  End(g, c) <= d
      OBVIOUS
    <3>1. CASE c = b
      <4>1. n < d
        BY <3>1, <1>1, <1>2, <1>3
      <4> QED
        BY <3>1, <4>1, <1>2, <1>3, <1>5
    <3>2. CASE c # b
      BY <3>2, <1>3, <1>5 DEF Tiled
    <3> QED
      BY <3>1, <3>2
  <2> QED
    BY <2>1, <2>2, <2>3 DEF Tiled
<1> QED
  BY <1>1, <1>2, <1>3, <1>4, <1>6 DEF Merged

-----------------------------------------------------------------------------
\* Before kmalloc_init there is no list; from then on it starts at HeapStart.
StartListed ==
    /\ heap_start_ptr = NULL => blocks = {}
    /\ heap_start_ptr = HeapStart => HeapStart \in blocks

\* The walk of kmalloc runs with a non-zero request.
WalkHasRequest == pc = "walk" => want # 0

HeapInv ==
    /\ TypeOK
    /\ StartListed
    /\ WalkHasRequest
    /\ HeapTiled
    /\ LiveBlocksAreUsed
    /\ FailsOnlyWhenFull

\* The heap starts out with no list at all.
LEMMA InitHeapInv == Init => HeapInv
BY HeapAssumption
   DEF Init, HeapInv, TypeOK, StartListed, WalkHasRequest, HeapTiled, Tiled,
       LiveBlocksAreUsed, FailsOnlyWhenFull, Headers, blocks, Header, NULL, HeapEnd, Hdr

\* kmalloc_init lists one free block that spans the heap.
LEMMA InitCallKeepsInv == HeapInv /\ kmalloc_init => HeapInv'
<1> SUFFICES ASSUME HeapInv, kmalloc_init PROVE HeapInv'
  OBVIOUS
<1> DEFINE h == [size |-> HeapSize - Hdr, next |-> NULL, free |-> TRUE]
<1>1. /\ blocks' = {HeapStart}
      /\ hdr' = [b \in {HeapStart} |-> h]
      /\ h \in Header
      /\ heap_start_ptr' = HeapStart
      /\ pc = "idle"
      /\ UNCHANGED <<pc, cur, want, live>>
  BY HeapAssumption DEF kmalloc_init, blocks, Header, Hdr, NULL
<1>2. HeapStart # NULL /\ blocks = {} /\ cur = NULL /\ DOMAIN live = {}
  BY HeapAssumption DEF HeapInv, TypeOK, StartListed, LiveBlocksAreUsed, kmalloc_init
<1>3. TypeOK'
  BY <1>1, <1>2, HeapAssumption DEF HeapInv, TypeOK, Headers, blocks, HeapEnd, Hdr
<1>4. StartListed' /\ WalkHasRequest' /\ FailsOnlyWhenFull'
  BY <1>1, <1>2 DEF HeapInv, StartListed, WalkHasRequest, FailsOnlyWhenFull
<1>5. HeapTiled'
  BY <1>1, HeapAssumption DEF HeapTiled, Tiled, End, HeapEnd, Hdr, NULL
<1>6. LiveBlocksAreUsed'
  BY <1>1, <1>2 DEF HeapInv, LiveBlocksAreUsed
<1> QED
  BY <1>3, <1>4, <1>5, <1>6 DEF HeapInv

\* The list's blocks in the words of the state.
LEMMA ListedFacts ==
    ASSUME HeapInv, NEW b \in blocks
    PROVE  /\ b \in Nat /\ b # NULL /\ HeapStart <= b
           /\ hdr[b].size \in Nat /\ hdr[b].free \in BOOLEAN
           /\ hdr[b].next \in blocks \cup {NULL}
           /\ hdr[b].next # NULL => hdr[b].next = End(hdr, b)
           /\ hdr[b].next = NULL => End(hdr, b) = HeapEnd
           /\ b < End(hdr, b)
           /\ End(hdr, b) = b + Hdr + hdr[b].size
           /\ End(hdr, b) <= HeapEnd
           /\ b + Hdr \in HeapStart .. HeapEnd
           /\ \A c \in blocks : b < c => End(hdr, b) <= c
<1>1. Headers(hdr) /\ Tiled(hdr)
  BY DEF HeapInv, TypeOK, HeapTiled
<1>2. \A c \in blocks : b < c => End(hdr, b) <= c
  BY <1>1 DEF Tiled, blocks
<1> QED
  BY <1>1, <1>2, BlockFacts DEF blocks

\* A call of kmalloc starts at the head of the list.
LEMMA CallKeepsInv ==
    ASSUME HeapInv, NEW n \in Requests, kmalloc(n)
    PROVE  HeapInv'
<1>1. /\ UNCHANGED <<heap_start_ptr, hdr, live>>
      /\ blocks' = blocks
      /\ pc' = "walk" /\ want' = n /\ n # 0
      /\ cur' = heap_start_ptr
  BY DEF kmalloc, blocks
<1>2. TypeOK' /\ StartListed' /\ WalkHasRequest' /\ HeapTiled' /\ LiveBlocksAreUsed'
  BY <1>1 DEF HeapInv, TypeOK, StartListed, WalkHasRequest, HeapTiled, LiveBlocksAreUsed
<1>3. FailsOnlyWhenFull'
  <2>1. CASE heap_start_ptr = NULL
    BY <1>1, <2>1 DEF HeapInv, StartListed, FailsOnlyWhenFull
  <2>2. CASE heap_start_ptr = HeapStart
    BY <1>1, <2>2, ListedFacts, HeapAssumption DEF FailsOnlyWhenFull, NULL
  <2> QED
    BY <2>1, <2>2 DEF HeapInv, TypeOK
<1> QED
  BY <1>2, <1>3 DEF HeapInv

\* The walk moves on from a block that does not fit.
LEMMA WalkNextKeepsInv == ASSUME HeapInv, WalkNext PROVE HeapInv'
<1>1. /\ UNCHANGED <<heap_start_ptr, hdr, pc, want, live>>
      /\ blocks' = blocks
      /\ cur \in blocks /\ pc = "walk"
      /\ cur' = hdr[cur].next
      /\ cur' \in blocks \cup {NULL}
  BY ListedFacts DEF WalkNext, blocks, HeapInv, TypeOK
<1>2. TypeOK' /\ StartListed' /\ WalkHasRequest' /\ HeapTiled' /\ LiveBlocksAreUsed'
  BY <1>1 DEF HeapInv, TypeOK, StartListed, WalkHasRequest, HeapTiled, LiveBlocksAreUsed
<1>3. FailsOnlyWhenFull'
  <2> SUFFICES ASSUME NEW b \in blocks, cur' = NULL \/ b < cur'
               PROVE  ~(hdr[b].free /\ hdr[b].size >= Align8(want))
    BY <1>1 DEF FailsOnlyWhenFull
  <2>1. CASE b < cur
    BY <1>1, <2>1 DEF HeapInv, FailsOnlyWhenFull
  <2>2. CASE b = cur
    BY <2>2 DEF WalkNext, Fits
  <2>3. CASE cur < b
    BY <1>1, <2>3, ListedFacts, HeapAssumption DEF HeapEnd
  <2> QED
    BY <1>1, <2>1, <2>2, <2>3, ListedFacts
<1> QED
  BY <1>2, <1>3 DEF HeapInv

\* A loop that has reached the end of the list returns.
LEMMA ReturnKeepsInv == ASSUME HeapInv, WalkFail \/ CoalesceDone PROVE HeapInv'
<1>1. /\ UNCHANGED <<heap_start_ptr, hdr, cur, live>>
      /\ blocks' = blocks
      /\ pc' = "idle"
      /\ want' \in Requests \cup {0}
  BY DEF WalkFail, CoalesceDone, blocks, HeapInv, TypeOK
<1> QED
  BY <1>1 DEF HeapInv, TypeOK, StartListed, WalkHasRequest, HeapTiled,
              LiveBlocksAreUsed, FailsOnlyWhenFull

\* A block is handed out, whole or cut in two.
LEMMA TakeKeepsInv == ASSUME HeapInv, WalkTake PROVE HeapInv'
<1> DEFINE n == Align8(want)
<1>1. /\ cur \in blocks /\ cur # NULL
      /\ Fits(cur)
      /\ pc = "walk" /\ pc' = "idle" /\ cur' = NULL /\ want' = 0
      /\ UNCHANGED heap_start_ptr
      /\ live' = [p \in DOMAIN live \cup {cur + Hdr} |->
                    IF p = cur + Hdr THEN want ELSE live[p]]
      /\ want \in Requests \ {0}
  BY DEF WalkTake, HeapInv, TypeOK, WalkHasRequest
<1>2. /\ n \in Nat /\ want \in Nat /\ want <= n
      /\ hdr[cur].free /\ hdr[cur].size >= n /\ hdr[cur].size \in Nat
      /\ cur \in Nat /\ cur + Hdr \in HeapStart .. HeapEnd
  BY <1>1, Align8Covers, ListedFacts, HeapAssumption DEF Fits
<1>3. Headers(hdr) /\ Tiled(hdr) /\ cur \in DOMAIN hdr
  BY <1>1 DEF HeapInv, TypeOK, HeapTiled, blocks
<1>4. /\ Headers(hdr') /\ Tiled(hdr')
      /\ blocks \subseteq blocks'
      /\ hdr'[cur].free = FALSE /\ hdr'[cur].size \in Nat /\ n <= hdr'[cur].size
      /\ \A b \in blocks \ {cur} : /\ hdr'[b].size = hdr[b].size
                                   /\ hdr'[b].free = hdr[b].free
      /\ \A b \in blocks' \ blocks : hdr'[b].free = TRUE
  <2>1. CASE Splits(cur)
    <3>1. hdr' = Split(hdr, cur, n)
      BY <2>1 DEF WalkTake
    <3>2. hdr[cur].size > n + Hdr
      BY <2>1 DEF Splits
    <3> HIDE DEF n
    <3>3. Cut(hdr', hdr, cur, n)
      BY <1>2, <1>3, <3>1, <3>2, SplitFacts
    <3> QED
      BY <1>2, <1>3, <3>3 DEF blocks, Cut
  <2>2. CASE ~Splits(cur)
    <3>1. hdr' = Mark(hdr, cur, FALSE)
      BY <2>2 DEF WalkTake
    <3>2. Marked(hdr', hdr, cur, FALSE)
      BY <1>3, <3>1, MarkFacts
    <3> HIDE DEF n
    <3> QED
      BY <1>2, <1>3, <3>2 DEF blocks, Marked
  <2> QED
    BY <2>1, <2>2
<1>5. TypeOK'
  <2>1. /\ DOMAIN live' \subseteq HeapStart .. HeapEnd
        /\ live' \in [DOMAIN live' -> Requests \ {0}]
    BY <1>1, <1>2 DEF HeapInv, TypeOK
  <2> QED
    BY <1>1, <1>4, <2>1 DEF HeapInv, TypeOK
<1>6. StartListed' /\ WalkHasRequest' /\ FailsOnlyWhenFull'
  <2>1. heap_start_ptr # NULL
    BY <1>1 DEF HeapInv, StartListed
  <2> QED
    BY <1>1, <1>4, <2>1 DEF HeapInv, StartListed, WalkHasRequest, FailsOnlyWhenFull
<1>7. LiveBlocksAreUsed'
  <2>1. \A p \in DOMAIN live' : /\ p - Hdr \in blocks'
                                /\ ~hdr'[p - Hdr].free
                                /\ live'[p] <= hdr'[p - Hdr].size
    <3> SUFFICES ASSUME NEW p \in DOMAIN live'
                 PROVE  /\ p - Hdr \in blocks'
                        /\ ~hdr'[p - Hdr].free
                        /\ live'[p] <= hdr'[p - Hdr].size
      OBVIOUS
    <3>1. CASE p = cur + Hdr
      <4>1. p - Hdr = cur /\ live'[p] = want
        BY <1>1, <1>2, <3>1 DEF Hdr
      <4> HIDE DEF n
      <4> QED
        BY <4>1, <1>1, <1>2, <1>4
    <3>2. CASE p # cur + Hdr
      <4>1. p \in DOMAIN live /\ live'[p] = live[p] /\ p \in Int
        BY <1>1, <3>2, HeapAssumption DEF HeapInv, TypeOK, HeapEnd
      <4>2. p - Hdr # cur
        BY <4>1, <1>2, <3>2 DEF Hdr
      <4> QED
        BY <4>1, <4>2, <1>4 DEF HeapInv, LiveBlocksAreUsed
    <3> QED
      BY <3>1, <3>2
  <2>2. \A b \in blocks' : ~hdr'[b].free => b + Hdr \in DOMAIN live'
    BY <1>1, <1>4 DEF HeapInv, LiveBlocksAreUsed
  <2> QED
    BY <2>1, <2>2 DEF LiveBlocksAreUsed
<1>8. HeapTiled'
  BY <1>4 DEF HeapTiled
<1> QED
  BY <1>5, <1>6, <1>7, <1>8 DEF HeapInv

\* The block that a caller gives back is marked free and loses its owner.
LEMMA FreeKeepsInv ==
    ASSUME HeapInv, NEW p \in DOMAIN live, kfree(p)
    PROVE  HeapInv'
<1> DEFINE b == p - Hdr
<1>1. /\ b \in blocks /\ b \in DOMAIN hdr
      /\ hdr' = Mark(hdr, b, TRUE)
      /\ live' = [q \in DOMAIN live \ {p} |-> live[q]]
      /\ pc' = "coalesce" /\ cur' = heap_start_ptr
      /\ UNCHANGED <<heap_start_ptr, want>>
  BY DEF kfree, HeapInv, LiveBlocksAreUsed, blocks
<1>2. p \in Int /\ b \in Int /\ b + Hdr = p
  BY HeapAssumption DEF HeapInv, TypeOK, HeapEnd, Hdr
<1> HIDE DEF b
<1>3. Marked(hdr', hdr, b, TRUE)
  BY <1>1, MarkFacts DEF HeapInv, TypeOK, HeapTiled
<1>4. blocks' = blocks
  BY <1>3 DEF Marked, blocks
<1>5. TypeOK'
  <2>1. /\ DOMAIN live' \subseteq HeapStart .. HeapEnd
        /\ live' \in [DOMAIN live' -> Requests \ {0}]
    BY <1>1 DEF HeapInv, TypeOK
  <2>2. Headers(hdr')
    BY <1>3 DEF Marked
  <2>3. cur' \in blocks' \cup {NULL}
    BY <1>1, <1>4 DEF HeapInv, TypeOK, StartListed
  <2> QED
    BY <1>1, <2>1, <2>2, <2>3 DEF HeapInv, TypeOK
<1>6. StartListed' /\ WalkHasRequest' /\ FailsOnlyWhenFull' /\ HeapTiled'
  BY <1>1, <1>3, <1>4
     DEF HeapInv, StartListed, WalkHasRequest, FailsOnlyWhenFull, HeapTiled, Marked
<1>7. LiveBlocksAreUsed'
  <2>1. \A q \in DOMAIN live' : q \in DOMAIN live /\ q # p /\ live'[q] = live[q] /\ q - Hdr # b
    BY <1>1, <1>2, HeapAssumption DEF HeapInv, TypeOK, HeapEnd, Hdr
  <2>2. \A c \in blocks : ~hdr'[c].free => c # b /\ ~hdr[c].free
    BY <1>3 DEF Marked, blocks
  <2>3. \A c \in blocks : c # b => c + Hdr # p
    BY <1>2, ListedFacts DEF Hdr
  <2>4. \A q \in DOMAIN live' : /\ q - Hdr \in blocks'
                                /\ ~hdr'[q - Hdr].free
                                /\ live'[q] <= hdr'[q - Hdr].size
    BY <2>1, <1>3, <1>4 DEF HeapInv, LiveBlocksAreUsed, Marked, blocks
  <2>5. \A c \in blocks' : ~hdr'[c].free => c + Hdr \in DOMAIN live'
    BY <2>2, <2>3, <1>1, <1>4 DEF HeapInv, LiveBlocksAreUsed
  <2> QED
    BY <2>4, <2>5 DEF LiveBlocksAreUsed
<1> QED
  BY <1>5, <1>6, <1>7 DEF HeapInv

\* An iteration of kfree's pass merges two free blocks or none.
LEMMA CoalesceKeepsInv == ASSUME HeapInv, CoalesceNext PROVE HeapInv'
<1>1. /\ cur \in blocks /\ cur \in DOMAIN hdr
      /\ cur' = hdr'[cur].next
      /\ pc = "coalesce"
      /\ UNCHANGED <<heap_start_ptr, pc, want, live>>
  BY DEF CoalesceNext, HeapInv, TypeOK, blocks
<1>2. CASE ~Mergeable(hdr, cur)
  <2>1. hdr' = hdr /\ blocks' = blocks /\ cur' = hdr[cur].next
    BY <1>2, <1>1 DEF CoalesceNext, blocks
  <2>2. cur' \in blocks \cup {NULL}
    BY <1>1, <2>1, ListedFacts
  <2> QED
    BY <1>1, <2>1, <2>2 DEF HeapInv, TypeOK, StartListed, WalkHasRequest, HeapTiled,
                            LiveBlocksAreUsed, FailsOnlyWhenFull
<1>3. CASE Mergeable(hdr, cur)
  <2> DEFINE n == hdr[cur].next
  <2>1. Merged(hdr', hdr, cur)
    BY <1>1, <1>3, MergeFacts DEF CoalesceNext, HeapInv, TypeOK, HeapTiled
  <2>2. /\ hdr[n].free /\ hdr[cur].free /\ n \in blocks /\ n # NULL
        /\ cur < n /\ cur \in Nat /\ n \in Nat
        /\ blocks' = blocks \ {n}
        /\ hdr'[cur].free = hdr[cur].free
        /\ \A c \in blocks' \ {cur} : hdr'[c] = hdr[c]
        /\ cur' = hdr[n].next
        /\ Headers(hdr') /\ Tiled(hdr')
    BY <1>1, <1>3, <2>1, ListedFacts DEF Mergeable, Merged, blocks
  <2> HIDE DEF n
  <2>3. cur' \in blocks' \cup {NULL}
    <3>1. hdr[n].next # n
      BY <2>2, ListedFacts
    <3> QED
      BY <2>2, <3>1, ListedFacts
  <2>4. TypeOK' /\ WalkHasRequest' /\ FailsOnlyWhenFull' /\ HeapTiled'
    BY <1>1, <2>2, <2>3 DEF HeapInv, TypeOK, WalkHasRequest, HeapTiled, FailsOnlyWhenFull
  <2>5. StartListed'
    <3>1. n # HeapStart
      BY <1>1, <2>2, ListedFacts, HeapAssumption
    <3> QED
      BY <1>1, <2>2, <3>1 DEF HeapInv, StartListed
  <2>6. LiveBlocksAreUsed'
    <3>1. \A p \in DOMAIN live : p - Hdr # n /\ p - Hdr # cur
      BY <2>2 DEF HeapInv, LiveBlocksAreUsed
    <3>2. \A c \in blocks' : ~hdr'[c].free => c \in blocks /\ ~hdr[c].free
      BY <1>1, <2>2
    <3> QED
      BY <1>1, <2>2, <3>1, <3>2 DEF HeapInv, LiveBlocksAreUsed
  <2> QED
    BY <2>4, <2>5, <2>6 DEF HeapInv
<1> QED
  BY <1>2, <1>3

\* The invariant survives every step of the heap.
LEMMA NextHeapInv == HeapInv /\ [Next]_vars => HeapInv'
<1> SUFFICES ASSUME HeapInv, [Next]_vars PROVE HeapInv'
  OBVIOUS
<1>1. CASE kmalloc_init
  BY <1>1, InitCallKeepsInv
<1>2. CASE \E n \in Requests : kmalloc(n)
  BY <1>2, CallKeepsInv
<1>3. CASE \E p \in DOMAIN live : kfree(p)
  BY <1>3, FreeKeepsInv
<1>4. CASE WalkNext
  BY <1>4, WalkNextKeepsInv
<1>5. CASE WalkTake
  BY <1>5, TakeKeepsInv
<1>6. CASE WalkFail \/ CoalesceDone
  BY <1>6, ReturnKeepsInv
<1>7. CASE CoalesceNext
  BY <1>7, CoalesceKeepsInv
<1>8. CASE UNCHANGED vars
  BY <1>8 DEF vars, HeapInv, TypeOK, StartListed, WalkHasRequest, HeapTiled,
              LiveBlocksAreUsed, FailsOnlyWhenFull, blocks
<1> QED
  BY <1>1, <1>2, <1>3, <1>4, <1>5, <1>6, <1>7, <1>8 DEF Next, Call, Step

\* The inductive invariant holds in every state the heap can reach.
THEOREM HeapInvariant == Spec => []HeapInv
BY InitHeapInv, NextHeapInv, PTL DEF Spec

\* kmalloc and kfree never leave the listed blocks badly typed, or a loop
\* with a cursor that is not on the list.
THEOREM TypeCorrect == Spec => []TypeOK
<1>1. HeapInv => TypeOK
  BY DEF HeapInv
<1> QED
  BY <1>1, HeapInvariant, PTL

\* The blocks that kmalloc cuts and kfree merges tile the heap at all times.
THEOREM Tiling == Spec => []HeapTiled
<1>1. HeapInv => HeapTiled
  BY DEF HeapInv
<1> QED
  BY <1>1, HeapInvariant, PTL

\* Owners and used blocks correspond, also during kfree's pass.
THEOREM Ownership == Spec => []LiveBlocksAreUsed
<1>1. HeapInv => LiveBlocksAreUsed
  BY DEF HeapInv
<1> QED
  BY <1>1, HeapInvariant, PTL

\* kmalloc returns 0 only when no listed block would do.
THEOREM FirstFitIsComplete == Spec => []FailsOnlyWhenFull
<1>1. HeapInv => FailsOnlyWhenFull
  BY DEF HeapInv
<1> QED
  BY <1>1, HeapInvariant, PTL

-----------------------------------------------------------------------------
\* Handing a block out is an allocation of the contract: its payload is
\* inside the heap and apart from everything that is owned.
LEMMA TakeAllocates ==
    ASSUME HeapInv, WalkTake
    PROVE  Contract!Next
<1> DEFINE p == cur + Hdr
<1>1. /\ cur \in blocks /\ Fits(cur) /\ want \in Requests \ {0}
      /\ live' = [q \in DOMAIN live \cup {p} |-> IF q = p THEN want ELSE live[q]]
  BY DEF WalkTake, HeapInv, TypeOK, WalkHasRequest
<1>2. /\ hdr[cur].free /\ want <= hdr[cur].size /\ want \in Nat
      /\ cur \in Nat /\ hdr[cur].size \in Nat
      /\ End(hdr, cur) = cur + Hdr + hdr[cur].size
      /\ End(hdr, cur) <= HeapEnd
      /\ p \in HeapStart .. HeapEnd
  BY <1>1, Align8Covers, ListedFacts, HeapAssumption DEF Fits
<1>3. p \notin DOMAIN live
  <2>1. p - Hdr = cur
    BY <1>2 DEF Hdr
  <2> QED
    BY <1>2, <2>1 DEF HeapInv, LiveBlocksAreUsed
<1>4. HeapStart <= p /\ p + want <= HeapStart + HeapSize
  BY <1>2, HeapAssumption DEF HeapEnd, Hdr
<1>5. Contract!Unshared(p, want)
  <2> SUFFICES ASSUME NEW q \in DOMAIN live
               PROVE  p + want <= q \/ q + live[q] <= p
    BY DEF Contract!Unshared, Contract!Owned
  <2> DEFINE c == q - Hdr
  <2>1. c \in blocks /\ ~hdr[c].free /\ live[q] <= hdr[c].size /\ live[q] \in Nat /\ q \in Int
    BY HeapAssumption DEF HeapInv, LiveBlocksAreUsed, TypeOK, HeapEnd
  <2>2. c # cur /\ q = c + Hdr
    BY <1>2, <2>1 DEF Hdr
  <2> HIDE DEF c
  <2>3. c \in Nat /\ End(hdr, c) = c + Hdr + hdr[c].size /\ hdr[c].size \in Nat
    BY <2>1, ListedFacts
  <2>4. c < cur => End(hdr, c) <= cur
    BY <1>1, <2>1, ListedFacts
  <2>5. cur < c => End(hdr, cur) <= c
    BY <1>1, <2>1, ListedFacts
  <2> QED
    BY <1>2, <2>1, <2>2, <2>3, <2>4, <2>5 DEF Hdr
<1>6. Contract!Alloc(p, want)
  BY <1>1, <1>3, <1>4, <1>5 DEF Contract!Alloc, Contract!Owned
<1> QED
  BY <1>1, <1>2, <1>6 DEF Contract!Next, HeapEnd

\* Every step of the heap is a step of its contract or changes no ownership.
LEMMA StepImplements == HeapInv /\ [Next]_vars => [Contract!Next]_live
<1> SUFFICES ASSUME HeapInv, [Next]_vars PROVE Contract!Next \/ live' = live
  OBVIOUS
<1>1. CASE WalkTake
  BY <1>1, TakeAllocates
<1>2. CASE \E p \in DOMAIN live : kfree(p)
  BY <1>2 DEF kfree, Contract!Next, Contract!Free, Contract!Owned
<1>3. CASE \/ kmalloc_init \/ \E n \in Requests : kmalloc(n)
           \/ WalkNext \/ WalkFail \/ CoalesceNext \/ CoalesceDone \/ UNCHANGED vars
  BY <1>3 DEF kmalloc_init, kmalloc, WalkNext, WalkFail, CoalesceNext, CoalesceDone, vars
<1> QED
  BY <1>1, <1>2, <1>3 DEF Next, Call, Step

\* The block list implements the contract of memory/kmalloc.h: what callers
\* own at the same time is disjoint and inside the heap.
THEOREM HeapImplementsContract == Spec => ImplementsContract
<1>1. Init => Contract!Init
  BY DEF Init, Contract!Init
<1> QED
  BY <1>1, StepImplements, HeapInvariant, PTL DEF Spec, ImplementsContract, Contract!Spec

-----------------------------------------------------------------------------
\* Fragmentation.  Three free neighbours x, its successor and the one after.
FreeTriple(h, x) == FreePair(h, x) /\ FreePair(h, h[x].next)

OnePair(h) == \A x, y \in DOMAIN h : FreePair(h, x) /\ FreePair(h, y) => x = y

\* The pass with its cursor at c has dealt with block x.
Behind(c, x) == c = NULL \/ x < c

\* What the pass leaves behind its cursor and may still find ahead: one pair
\* behind; no triple ahead once a pair is behind; and triples ahead are the
\* same or neighbours, so that two merges resolve them.
PassOK(h, c) ==
    /\ \A x, y \in DOMAIN h :
         FreePair(h, x) /\ Behind(c, x) /\ FreePair(h, y) /\ Behind(c, y) => x = y
    /\ \A x, y \in DOMAIN h :
         FreePair(h, x) /\ Behind(c, x) /\ FreeTriple(h, y) => Behind(c, y)
    /\ \A x, y \in DOMAIN h :
         FreeTriple(h, x) /\ ~Behind(c, x) /\ FreeTriple(h, y) /\ ~Behind(c, y)
           => x = y \/ h[x].next = y \/ h[y].next = x

PairInv ==
    /\ pc # "coalesce" => OnePair(hdr)
    /\ pc = "coalesce" => PassOK(hdr, cur)

\* The order of the list is the order of the addresses: nothing lies between
\* a block and its successor, and no two blocks share a successor.
LEMMA SuccessorFacts ==
    ASSUME NEW h, Headers(h), Tiled(h), NEW b \in DOMAIN h, NEW x \in DOMAIN h
    PROVE  /\ Behind(h[b].next, x) <=> (x < b \/ x = b)
           /\ h[b].next # NULL /\ h[b].next = h[x].next => b = x
           /\ h[b].next # b
<1>1. /\ b \in Nat /\ x \in Nat /\ b < End(h, b) /\ x < End(h, x)
      /\ End(h, b) \in Nat /\ End(h, x) \in Nat
      /\ End(h, x) <= HeapEnd
      /\ h[b].next # NULL => h[b].next = End(h, b)
      /\ h[x].next # NULL => h[x].next = End(h, x)
      /\ h[b].next = NULL => End(h, b) = HeapEnd
      /\ b # NULL
  BY BlockFacts DEF Hdr
<1>2. (b < x => End(h, b) <= x) /\ (x < b => End(h, x) <= b)
  BY DEF Tiled
<1>3. HeapEnd \in Nat
  BY HeapAssumption DEF HeapEnd
<1> QED
  BY <1>1, <1>2, <1>3 DEF Behind

\* The cursor passes a block that is not merged.
LEMMA SkipKeepsPass ==
    ASSUME NEW h, Headers(h), Tiled(h), NEW b \in DOMAIN h, b # NULL,
           PassOK(h, b), ~Mergeable(h, b)
    PROVE  PassOK(h, h[b].next)
<1>1. ~FreePair(h, b)
  BY BlockFacts DEF Mergeable, FreePair
<1>2. \A x \in DOMAIN h : /\ Behind(h[b].next, x) <=> (x < b \/ x = b)
                          /\ Behind(b, x) <=> x < b
  BY SuccessorFacts DEF Behind
<1>3. \A x \in DOMAIN h : FreePair(h, x) => (Behind(h[b].next, x) <=> Behind(b, x))
  BY <1>1, <1>2
<1>4. \A x \in DOMAIN h : FreeTriple(h, x) => FreePair(h, x)
  BY DEF FreeTriple
<1> QED
  BY <1>3, <1>4 DEF PassOK

\* The cursor merges two blocks and passes them both.
LEMMA MergeKeepsPass ==
    ASSUME NEW h, Headers(h), Tiled(h), NEW b \in DOMAIN h, b # NULL,
           PassOK(h, b), Mergeable(h, b),
           NEW g, Merged(g, h, b)
    PROVE  PassOK(g, g[b].next)
<1> DEFINE n == h[b].next
           m == h[n].next
<1>1. /\ n \in DOMAIN h /\ n # NULL /\ b < n /\ b \in Nat /\ n \in Nat
      /\ DOMAIN g = DOMAIN h \ {n}
      /\ g[b].next = m /\ g[b].free = h[b].free
      /\ h[b].free /\ h[n].free
      /\ \A c \in DOMAIN g \ {b} : g[c] = h[c]
      /\ m \in DOMAIN h \cup {NULL} /\ m # n /\ m # b
  <2>1. m \in DOMAIN h \cup {NULL} /\ m # n
    BY BlockFacts, SuccessorFacts DEF Merged
  <2>2. m # b
    BY SuccessorFacts, BlockFacts DEF Merged
  <2> QED
    BY <2>1, <2>2, BlockFacts DEF Merged, Mergeable
<1> HIDE DEF m, n
<1>2. \A x \in DOMAIN g : /\ x \in DOMAIN h /\ x # n /\ x \in Nat
                          /\ Behind(m, x) <=> (x < b \/ x = b)
                          /\ Behind(b, x) <=> x < b
  <2> SUFFICES ASSUME NEW x \in DOMAIN g
               PROVE  /\ x \in DOMAIN h /\ x # n /\ x \in Nat
                      /\ Behind(m, x) <=> (x < b \/ x = b)
                      /\ Behind(b, x) <=> x < b
    OBVIOUS
  <2>1. x \in DOMAIN h /\ x # n /\ x \in Nat
    BY <1>1, BlockFacts
  <2>2. Behind(m, x) <=> x < n \/ x = n
    BY <1>1, <2>1, SuccessorFacts DEF m
  <2>3. b < x => n <= x
    BY <2>1 DEF Merged, n
  <2> QED
    BY <1>1, <2>1, <2>2, <2>3 DEF Behind
<1>3. \A x \in DOMAIN g : g[x].next = n => FALSE
  <2>1. \A x \in DOMAIN h : h[x].next = n => x = b
    BY <1>1, SuccessorFacts DEF n
  <2> QED
    BY <1>1, <1>2, <2>1
<1>4. \A x \in DOMAIN g : x # b => (FreePair(g, x) <=> FreePair(h, x))
  <2> SUFFICES ASSUME NEW x \in DOMAIN g, x # b
               PROVE  FreePair(g, x) <=> FreePair(h, x)
    OBVIOUS
  <2>1. g[x] = h[x] /\ x \in DOMAIN h /\ h[x].next # n /\ h[x].next \in DOMAIN h \cup {NULL}
    BY <1>1, <1>2, <1>3, BlockFacts
  <2>2. h[x].next # NULL => g[h[x].next].free = h[h[x].next].free
    BY <1>1, <2>1
  <2> QED
    BY <2>1, <2>2 DEF FreePair
<1>5. FreePair(g, b) => FreeTriple(h, b)
  BY <1>1 DEF FreePair, FreeTriple, n, m
<1>6. \A x \in DOMAIN g : FreePair(g, x) =>
        (x = b /\ FreeTriple(h, b)) \/ (x # b /\ FreePair(h, x))
  BY <1>4, <1>5
<1>7. \A x \in DOMAIN g : FreeTriple(g, x) /\ ~Behind(m, x) =>
        FreeTriple(h, x) /\ ~Behind(b, x) /\ x # b /\ x # n
  <2> SUFFICES ASSUME NEW x \in DOMAIN g, FreeTriple(g, x), ~Behind(m, x)
               PROVE  FreeTriple(h, x) /\ ~Behind(b, x) /\ x # b /\ x # n
    OBVIOUS
  <2>1. x # b /\ x # n /\ b < x /\ x \in DOMAIN h /\ ~Behind(b, x)
    BY <1>1, <1>2
  <2>2. FreePair(g, x) /\ FreePair(g, g[x].next) /\ g[x] = h[x]
    BY <1>1, <2>1 DEF FreeTriple
  <2>3. g[x].next # b /\ g[x].next \in DOMAIN g
    <3>1. ~Behind(b, x) /\ g[x].next # NULL /\ g[x].next \in DOMAIN g
      BY <2>1, <2>2 DEF FreePair
    <3>2. Behind(h[x].next, b) <=> (b < x \/ b = x)
      BY <2>1, SuccessorFacts
    <3> QED
      BY <1>1, <2>1, <2>2, <3>1, <3>2 DEF Behind
  <2> QED
    BY <1>4, <2>1, <2>2, <2>3 DEF FreeTriple
<1>8. \A x, y \in DOMAIN g :
        FreePair(g, x) /\ Behind(m, x) /\ FreePair(g, y) /\ Behind(m, y) => x = y
  <2> SUFFICES ASSUME NEW x \in DOMAIN g, NEW y \in DOMAIN g,
                      FreePair(g, x), Behind(m, x), FreePair(g, y), Behind(m, y)
               PROVE  x = y
    OBVIOUS
  <2>1. CASE x # b /\ y # b
    BY <2>1, <1>2, <1>6 DEF PassOK
  <2>2. CASE x = b /\ y # b
    <3>1. FreeTriple(h, b) /\ FreePair(h, y) /\ Behind(b, y) /\ y \in DOMAIN h
      BY <2>2, <1>2, <1>6
    <3>2. ~Behind(b, b)
      BY <1>1 DEF Behind
    <3> QED
      BY <3>1, <3>2 DEF PassOK
  <2>3. CASE x # b /\ y = b
    <3>1. FreeTriple(h, b) /\ FreePair(h, x) /\ Behind(b, x) /\ x \in DOMAIN h
      BY <2>3, <1>2, <1>6
    <3>2. ~Behind(b, b)
      BY <1>1 DEF Behind
    <3> QED
      BY <3>1, <3>2 DEF PassOK
  <2> QED
    BY <2>1, <2>2, <2>3
<1>9. \A x, y \in DOMAIN g :
        FreePair(g, x) /\ Behind(m, x) /\ FreeTriple(g, y) => Behind(m, y)
  <2> SUFFICES ASSUME NEW x \in DOMAIN g, NEW y \in DOMAIN g,
                      FreePair(g, x), Behind(m, x), FreeTriple(g, y), ~Behind(m, y)
               PROVE  FALSE
    OBVIOUS
  <2>1. FreeTriple(h, y) /\ ~Behind(b, y) /\ y # b /\ y # n /\ y \in DOMAIN h
    BY <1>2, <1>7
  <2>2. CASE x # b
    <3>1. FreePair(h, x) /\ Behind(b, x) /\ x \in DOMAIN h
      BY <2>2, <1>2, <1>6
    <3> QED
      BY <2>1, <3>1 DEF PassOK
  <2>3. CASE x = b
    <3>1. FreeTriple(h, b) /\ ~Behind(b, b)
      BY <2>3, <1>1, <1>6 DEF Behind
    <3>2. h[b].next = y \/ h[y].next = b
      BY <2>1, <3>1 DEF PassOK
    <3>3. h[y].next # b
      <4>1. Behind(h[y].next, b) <=> (b < y \/ b = y)
        BY <2>1, SuccessorFacts
      <4>2. b < y /\ b # NULL
        BY <1>1, <1>2, <2>1
      <4> QED
        BY <4>1, <4>2, <1>1 DEF Behind
    <3> QED
      BY <2>1, <3>2, <3>3 DEF n
  <2> QED
    BY <2>2, <2>3
<1>10. \A x, y \in DOMAIN g :
        FreeTriple(g, x) /\ ~Behind(m, x) /\ FreeTriple(g, y) /\ ~Behind(m, y)
           => x = y \/ g[x].next = y \/ g[y].next = x
  BY <1>1, <1>2, <1>7 DEF PassOK
<1> QED
  BY <1>1, <1>8, <1>9, <1>10 DEF PassOK

\* Freeing one block of a list with one pair makes at most two new pairs, at
\* the block and at its predecessor, so all triples are neighbours.
LEMMA FreeStartsPass ==
    ASSUME NEW h, Headers(h), Tiled(h), NEW b \in DOMAIN h, ~h[b].free,
           OnePair(h), NEW g, Marked(g, h, b, TRUE)
    PROVE  PassOK(g, HeapStart)
<1>1. /\ DOMAIN g = DOMAIN h
      /\ \A c \in DOMAIN h : g[c].next = h[c].next /\ (c # b => g[c].free = h[c].free)
      /\ Headers(g) /\ Tiled(g)
  BY DEF Marked
<1>2. \A x \in DOMAIN h : ~Behind(HeapStart, x)
  BY BlockFacts, HeapAssumption DEF Behind, NULL
<1>3. \A x \in DOMAIN h : FreePair(g, x) => FreePair(h, x) \/ x = b \/ h[x].next = b
  BY <1>1, BlockFacts DEF FreePair
<1>4. \A x, y \in DOMAIN h : h[x].next = h[y].next /\ h[x].next # NULL => x = y
  BY SuccessorFacts
<1>5. ASSUME NEW x \in DOMAIN g, NEW y \in DOMAIN g, FreeTriple(g, x), FreeTriple(g, y)
      PROVE  x = y \/ g[x].next = y \/ g[y].next = x
  <2> DEFINE u == h[x].next
             v == h[y].next
  <2>1. /\ u = g[x].next /\ v = g[y].next
        /\ FreePair(g, x) /\ FreePair(g, u) /\ FreePair(g, y) /\ FreePair(g, v)
        /\ u \in DOMAIN h /\ v \in DOMAIN h /\ u # NULL /\ v # NULL
    BY <1>1, <1>5 DEF FreeTriple, FreePair
  <2>2. x # u /\ y # v
    BY <1>1, <1>5, SuccessorFacts
  <2> HIDE DEF u, v
  <2>3. /\ FreePair(h, x) \/ x = b \/ h[x].next = b
        /\ FreePair(h, u) \/ u = b \/ h[u].next = b
        /\ FreePair(h, y) \/ y = b \/ h[y].next = b
        /\ FreePair(h, v) \/ v = b \/ h[v].next = b
    BY <1>1, <1>3, <2>1
  <2>4. \A c, d \in DOMAIN h : FreePair(h, c) /\ FreePair(h, d) => c = d
    BY DEF OnePair
  <2>5. b # NULL
    BY BlockFacts
  <2>6. \A c, d \in DOMAIN h : h[c].next = b /\ h[d].next = b => c = d
    BY <1>4, <2>5
  <2>7. u = v => x = y
    BY <1>1, <1>4, <2>1 DEF u, v
  <2> QED
    BY <1>1, <2>1, <2>2, <2>3, <2>4, <2>6, <2>7
<1> QED
  BY <1>1, <1>2, <1>5 DEF PassOK

\* Handing out a block, whole or cut, makes no new pair beside the one that
\* the rest of the block inherits.
LEMMA TakeKeepsOnePair ==
    ASSUME NEW h, Headers(h), Tiled(h), NEW b \in DOMAIN h, h[b].free,
           OnePair(h), NEW g, NEW n \in Nat, Marked(g, h, b, FALSE) \/ Cut(g, h, b, n)
    PROVE  OnePair(g)
<1>1. CASE Marked(g, h, b, FALSE)
  <2>1. \A x \in DOMAIN g : FreePair(g, x) => FreePair(h, x)
    BY <1>1, BlockFacts DEF Marked, FreePair
  <2> QED
    BY <1>1, <2>1 DEF OnePair, Marked
<1>2. CASE Cut(g, h, b, n)
  <2> DEFINE new == b + Hdr + n
  <2>1. /\ DOMAIN g = DOMAIN h \cup {new} /\ new \notin DOMAIN h
        /\ g[new].next = h[b].next /\ g[b].free = FALSE
        /\ g[new].free = TRUE
        /\ \A c \in DOMAIN h \ {b} : g[c] = h[c]
    BY <1>2 DEF Cut
  <2> HIDE DEF new
  <2>2. \A x \in DOMAIN h : x # b /\ FreePair(g, x) => FreePair(h, x)
    BY <2>1, BlockFacts DEF FreePair
  <2>3. FreePair(g, new) => FreePair(h, b)
    BY <2>1, BlockFacts, SuccessorFacts DEF FreePair
  <2>4. ~FreePair(g, b)
    BY <2>1 DEF FreePair
  <2>5. \A x \in DOMAIN g : FreePair(g, x) =>
          (x = new /\ FreePair(h, b)) \/ (x \in DOMAIN h \ {b} /\ FreePair(h, x))
    BY <2>1, <2>2, <2>3, <2>4
  <2> QED
    BY <2>5 DEF OnePair
<1> QED
  BY <1>1, <1>2

\* No step of the heap adds to the fragmentation it starts from.
LEMMA NextPairInv ==
    HeapInv /\ HeapInv' /\ PairInv /\ [Next]_vars => PairInv'
<1> SUFFICES ASSUME HeapInv, PairInv, [Next]_vars PROVE PairInv'
  OBVIOUS
<1>1. Headers(hdr) /\ Tiled(hdr)
  BY DEF HeapInv, TypeOK, HeapTiled
<1>2. CASE kmalloc_init
  <2>1. pc' = "idle" /\ hdr' = [b \in {HeapStart} |->
                 [size |-> HeapSize - Hdr, next |-> NULL, free |-> TRUE]]
    BY <1>2 DEF kmalloc_init
  <2> QED
    BY <2>1 DEF PairInv, OnePair
<1>3. CASE (\E n \in Requests : kmalloc(n)) \/ WalkNext \/ WalkFail
  BY <1>3 DEF kmalloc, WalkNext, WalkFail, PairInv
<1>4. CASE WalkTake
  <2> DEFINE n == Align8(want)
  <2>1. /\ cur \in DOMAIN hdr /\ hdr[cur].free
        /\ pc = "walk" /\ pc' = "idle" /\ want \in Requests
    BY <1>4 DEF WalkTake, Fits, HeapInv, TypeOK, WalkHasRequest, blocks
  <2>2. n \in Nat
    BY <2>1, Align8Covers
  <2>3. Marked(hdr', hdr, cur, FALSE) \/ Cut(hdr', hdr, cur, n)
    <3>1. CASE Splits(cur)
      <4>1. hdr' = Split(hdr, cur, n) /\ hdr[cur].size > n + Hdr
        BY <1>4, <3>1 DEF WalkTake, Splits
      <4> HIDE DEF n
      <4> QED
        BY <1>1, <2>1, <2>2, <4>1, SplitFacts
    <3>2. CASE ~Splits(cur)
      <4>1. hdr' = Mark(hdr, cur, FALSE)
        BY <1>4, <3>2 DEF WalkTake
      <4> QED
        BY <1>1, <2>1, <4>1, MarkFacts
    <3> QED
      BY <3>1, <3>2
  <2> HIDE DEF n
  <2>4. OnePair(hdr)
    BY <2>1 DEF PairInv
  <2>5. OnePair(hdr')
    BY <1>1, <2>1, <2>2, <2>3, <2>4, TakeKeepsOnePair
  <2> QED
    BY <2>1, <2>5 DEF PairInv
<1>5. ASSUME NEW p \in DOMAIN live, kfree(p) PROVE PairInv'
  <2> DEFINE b == p - Hdr
  <2>1. /\ b \in DOMAIN hdr /\ ~hdr[b].free
        /\ hdr' = Mark(hdr, b, TRUE)
        /\ pc = "idle" /\ pc' = "coalesce" /\ cur' = heap_start_ptr
    BY <1>5 DEF kfree, HeapInv, LiveBlocksAreUsed, blocks
  <2> HIDE DEF b
  <2>2. heap_start_ptr = HeapStart
    BY <2>1 DEF HeapInv, TypeOK, StartListed, blocks
  <2>3. Marked(hdr', hdr, b, TRUE)
    BY <1>1, <2>1, MarkFacts
  <2>4. OnePair(hdr)
    BY <2>1 DEF PairInv
  <2>5. PassOK(hdr', HeapStart)
    BY <1>1, <2>1, <2>3, <2>4, FreeStartsPass
  <2> QED
    BY <2>1, <2>2, <2>5 DEF PairInv
<1>6. CASE CoalesceNext
  <2>1. /\ cur \in DOMAIN hdr /\ cur # NULL
        /\ pc = "coalesce" /\ pc' = "coalesce"
        /\ cur' = hdr'[cur].next
        /\ PassOK(hdr, cur)
    BY <1>6 DEF CoalesceNext, HeapInv, TypeOK, blocks, PairInv
  <2>2. CASE Mergeable(hdr, cur)
    <3>1. Merged(hdr', hdr, cur)
      BY <1>1, <1>6, <2>1, <2>2, MergeFacts DEF CoalesceNext
    <3>2. PassOK(hdr', hdr'[cur].next)
      BY <1>1, <2>1, <2>2, <3>1, MergeKeepsPass
    <3> QED
      BY <2>1, <3>2 DEF PairInv
  <2>3. CASE ~Mergeable(hdr, cur)
    <3>1. hdr' = hdr
      BY <1>6, <2>3 DEF CoalesceNext
    <3>2. PassOK(hdr, hdr[cur].next)
      BY <1>1, <2>1, <2>3, SkipKeepsPass
    <3> QED
      BY <2>1, <3>1, <3>2 DEF PairInv
  <2> QED
    BY <2>2, <2>3
<1>7. CASE CoalesceDone
  <2>1. /\ hdr' = hdr /\ pc' = "idle" /\ cur = NULL /\ PassOK(hdr, cur)
    BY <1>7 DEF CoalesceDone, PairInv
  <2>2. OnePair(hdr)
    BY <2>1 DEF PassOK, OnePair, Behind
  <2> QED
    BY <2>1, <2>2 DEF PairInv
<1>8. CASE UNCHANGED vars
  BY <1>8 DEF vars, PairInv
<1> QED
  BY <1>2, <1>3, <1>4, <1>5, <1>6, <1>7, <1>8 DEF Next, Call, Step

\* kfree's single pass bounds the fragmentation it leaves: between calls
\* there is never a second pair of neighbouring free blocks.
THEOREM FragmentationBound == Spec => []AtMostOneFreePair
<1>1. Init => PairInv
  BY DEF Init, PairInv, OnePair
<1>2. PairInv => AtMostOneFreePair
  BY DEF PairInv, OnePair, AtMostOneFreePair, blocks
<1> QED
  BY <1>1, <1>2, NextPairInv, HeapInvariant, PTL DEF Spec
=============================================================================

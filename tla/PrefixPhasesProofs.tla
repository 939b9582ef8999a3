-------------------------- MODULE PrefixPhasesProofs --------------------------
(***************************************************************************)
(* The phases of the parallel prefix sum, for every NITEMS and NTHREADS:   *)
(* as long as the synchronisation between them keeps PhasesOrdered, no two *)
(* threads access the same item at once, every step of a phase keeps       *)
(* PhasesInv, and main finds the result it compares with.                  *)
(***************************************************************************)
EXTENDS PrefixPhases, TLAPS

(* NTHREADS slices fit into the array, and none is empty.                  *)
LEMMA SliceBounds ==
  /\ NTHREADS \in Nat \ {0} /\ NITEMS \in Nat
  /\ Slice \in Nat /\ Slice >= 1
  /\ NTHREADS * Slice <= NITEMS
<1>1. NTHREADS \in Nat \ {0} /\ NITEMS \in Nat /\ NITEMS >= NTHREADS
  BY ThreadsAssumption, PrefixAssumption
<1>2. Slice \in Nat /\ NTHREADS * Slice <= NITEMS
  BY <1>1 DEF Slice
<1>3. Slice >= 1
  BY <1>1 DEF Slice
<1>4. QED
  BY <1>1, <1>2, <1>3

(* Multiplication by the slice keeps the order.                            *)
LEMMA SlicesMonotone ==
  ASSUME NEW a \in Nat, NEW b \in Nat, a <= b
  PROVE  a * Slice \in Nat /\ a * Slice <= b * Slice
BY SliceBounds

(* The chunks are not empty, lie within the array and do not overlap.      *)
LEMMA ChunkBounds ==
  ASSUME NEW t \in Threads
  PROVE  /\ Start(t) \in Nat /\ End(t) \in Nat
         /\ Start(t) < End(t) /\ End(t) <= NITEMS
         /\ \A u \in Threads : t < u => End(t) <= Start(u)
         /\ t = 0 <=> Start(t) = 0
         /\ t # 0 => t - 1 \in Threads /\ End(t - 1) = Start(t)
<1> USE SliceBounds DEF Threads
<1>1. t \in Nat /\ t + 1 <= NTHREADS
  OBVIOUS
<1>2. /\ t * Slice \in Nat /\ (t + 1) * Slice \in Nat
      /\ (t + 1) * Slice = t * Slice + Slice
      /\ (t + 1) * Slice <= NTHREADS * Slice
  BY <1>1, SlicesMonotone
<1>3. Start(t) \in Nat /\ End(t) \in Nat /\ Start(t) < End(t) /\ End(t) <= NITEMS
  BY <1>1, <1>2 DEF Start, End
<1>4. ASSUME NEW u \in Threads, t < u PROVE End(t) <= Start(u)
  <2>1. t # NTHREADS - 1 /\ t + 1 <= u
    BY <1>4
  <2>2. (t + 1) * Slice <= u * Slice
    BY <2>1, SlicesMonotone
  <2>3. QED
    BY <2>1, <2>2 DEF Start, End
<1>5. t = 0 <=> Start(t) = 0
  BY <1>1 DEF Start
<1>6. t # 0 => t - 1 \in Threads /\ End(t - 1) = Start(t)
  BY <1>1 DEF Start, End
<1>7. QED
  BY <1>3, <1>4, <1>5, <1>6

(* Every item is in a chunk, and in one only.                              *)
LEMMA ItemsInChunks ==
  ASSUME NEW k \in Items
  PROVE  \E t \in Threads : k \in Start(t) .. End(t) - 1
<1> USE SliceBounds DEF Threads, Items
<1>1. CASE k < (NTHREADS - 1) * Slice
  <2> DEFINE t == k \div Slice
  <2>1. t \in Nat /\ t * Slice <= k /\ k < (t + 1) * Slice
    OBVIOUS
  <2>2. t < NTHREADS - 1
    <3> SUFFICES ASSUME NTHREADS - 1 <= t PROVE FALSE
      BY <2>1
    <3>1. (NTHREADS - 1) * Slice <= t * Slice
      BY <2>1, SlicesMonotone
    <3>2. QED
      BY <1>1, <2>1, <3>1
  <2>3. t \in Threads /\ k \in Start(t) .. End(t) - 1
    BY <2>1, <2>2 DEF Start, End
  <2>4. QED
    BY <2>3
<1>2. CASE k >= (NTHREADS - 1) * Slice
  <2>1. NTHREADS - 1 \in Threads
    OBVIOUS
  <2>2. k \in Start(NTHREADS - 1) .. End(NTHREADS - 1) - 1
    BY <1>2 DEF Start, End
  <2>3. QED
    BY <2>1, <2>2
<1>3. QED
  BY <1>1, <1>2

LEMMA OwnItem ==
  ASSUME NEW t \in Threads, NEW u \in Threads, NEW k \in Start(t) .. End(t) - 1
  PROVE  /\ k \in Items
         /\ k \in Start(u) .. End(u) - 1 => t = u
<1>1. t \in Nat /\ u \in Nat
  BY SliceBounds DEF Threads
<1>2. k \in Items
  BY ChunkBounds, SliceBounds DEF Items
<1>3. CASE t < u
  BY <1>2, <1>3, ChunkBounds DEF Items
<1>4. CASE u < t
  BY <1>2, <1>4, ChunkBounds DEF Items
<1>5. QED
  BY <1>1, <1>2, <1>3, <1>4

(* The sum of two values is a value, and adjacent intervals join.          *)
LEMMA PlusValue ==
  ASSUME NEW a \in Values, NEW b \in Values
  PROVE  Plus(a, b) \in Values
<1>1. CASE a = Garbage \/ b = Garbage
  BY <1>1, SliceBounds DEF Plus, Garbage, Sum, Values, Items
<1>2. CASE a # Garbage /\ b # Garbage
  BY <1>2, SliceBounds DEF Plus, Garbage, Sum, Values, Items
<1>3. QED
  BY <1>1, <1>2

LEMMA PlusAdjacent ==
  ASSUME NEW lo \in Int, NEW mid \in Int, NEW hi \in Int, lo < mid, mid <= hi
  PROVE  /\ Plus(Sum(lo, mid - 1), Sum(mid, hi)) = Sum(lo, hi)
         /\ Plus(Sum(mid, hi), Sum(lo, mid - 1)) = Sum(lo, hi)
BY DEF Plus, Sum


(* NoDataRace holds in every state in which the phases are ordered: two    *)
(* threads in the same phase access different chunks, and the one access   *)
(* of phase 3 to another chunk is to its last item, which phase 3 does not *)
(* write.                                                                  *)
LEMMA OrderedPhasesDoNotRace ==
  ASSUME PhasesTypeOK, PhaseRanges, PhasesOrdered
  PROVE  NoDataRace
<1> SUFFICES ASSUME NEW t \in Threads, NEW u \in Threads, t # u
             PROVE  Writes(t) \cap (Reads(u) \cup Writes(u)) = {}
  BY DEF NoDataRace
<1>1. \A v \in Threads : tpc[v] = "phase1" => i[v] \in Start(v) + 1 .. End(v)
  BY DEF PhaseRanges
<1>2. CASE tpc[t] = "phase1" /\ i[t] < End(t)
  <2>1. tpc[u] \in {"unborn", "phase1", "sync1"}
    BY <1>2 DEF PhasesOrdered, PhasesTypeOK, PhaseNames
  <2>2. i[t] \in Start(t) .. End(t) - 1
    BY <1>1, <1>2, ChunkBounds
  <2>3. CASE tpc[u] = "phase1" /\ i[u] < End(u)
    <3>1. i[u] - 1 \in Start(u) .. End(u) - 1 /\ i[u] \in Start(u) .. End(u) - 1
      BY <1>1, <2>3, ChunkBounds
    <3>2. i[t] # i[u] - 1 /\ i[t] # i[u]
      BY <2>2, <3>1, OwnItem
    <3>3. QED
      BY <1>2, <2>3, <3>2 DEF Writes, Reads
  <2>4. CASE ~(tpc[u] = "phase1" /\ i[u] < End(u))
    BY <2>1, <2>4 DEF Writes, Reads
  <2>5. QED
    BY <2>3, <2>4
<1>3. CASE tpc[t] = "phase2"
  <2>1. t = 0 /\ tpc[u] \notin {"unborn", "phase1", "phase2"}
    BY <1>3 DEF PhasesOrdered, PhaseRanges
  <2>2. tpc[u] \notin {"enter3", "phase3"}
    BY <1>3, <2>1 DEF PhasesOrdered
  <2>3. QED
    BY <2>1, <2>2 DEF Writes, Reads
<1>4. CASE tpc[t] = "phase3" /\ i[t] < End(t) - 1
  <2>1. t # 0 /\ i[t] \in Start(t) .. End(t) - 1
    BY <1>4 DEF PhaseRanges
  <2>2. tpc[u] \notin {"unborn", "phase1", "phase2"}
    BY <1>4, <2>1 DEF PhasesOrdered, PhaseRanges
  <2>3. CASE tpc[u] = "enter3"
    <3>1. u # 0 /\ u - 1 \in Threads /\ Start(u) - 1 = End(u - 1) - 1
      BY <2>3, ChunkBounds DEF PhaseRanges
    <3>2. End(u - 1) - 1 \in Start(u - 1) .. End(u - 1) - 1
      BY <3>1, ChunkBounds
    <3>3. i[t] # End(u - 1) - 1
      BY <1>4, <2>1, <3>1, <3>2, OwnItem
    <3>4. QED
      BY <1>4, <2>3, <3>1, <3>3 DEF Writes, Reads
  <2>4. CASE tpc[u] = "phase3" /\ i[u] < End(u) - 1
    <3>1. i[u] \in Start(u) .. End(u) - 1
      BY <2>4 DEF PhaseRanges
    <3>2. i[t] # i[u]
      BY <2>1, <3>1, OwnItem
    <3>3. QED
      BY <1>4, <2>4, <3>2 DEF Writes, Reads
  <2>5. CASE tpc[u] # "enter3" /\ ~(tpc[u] = "phase3" /\ i[u] < End(u) - 1)
    BY <2>2, <2>5 DEF Writes, Reads
  <2>6. QED
    BY <2>3, <2>4, <2>5
<1>5. CASE /\ ~(tpc[t] = "phase1" /\ i[t] < End(t))
           /\ tpc[t] # "phase2"
           /\ ~(tpc[t] = "phase3" /\ i[t] < End(t) - 1)
  BY <1>5 DEF Writes
<1>6. QED
  BY <1>2, <1>3, <1>4, <1>5

-----------------------------------------------------------------------------
(* Every step of main and of a phase keeps PhasesInv.                      *)
LEMMA PhasesInitInv == PhasesInit => PhasesInv
<1> SUFFICES ASSUME PhasesInit PROVE PhasesInv
  OBVIOUS
<1> USE SliceBounds DEF PhasesInit
<1>1. PhasesTypeOK
  BY DEF PhasesTypeOK, PhaseNames, Values, Sum, Garbage, Items
<1>2. PhaseRanges
  BY DEF PhaseRanges
<1>3. 0 \in Threads
  BY DEF Threads
<1>4. PhaseData /\ ResultMatches
  BY <1>3, OwnItem DEF PhaseData, ResultMatches, ItemValue
<1>5. QED
  BY <1>1, <1>2, <1>4 DEF PhasesInv

LEMMA CreateThreadInv ==
  ASSUME PhasesInv, PhasesOrdered, CreateThread
  PROVE  PhasesInv'
<1> DEFINE c == created
<1> USE SliceBounds DEF CreateThread, Move, PhasesInv, locals
<1>1. c \in Threads /\ 0 \in Threads
  BY DEF PhasesTypeOK, Threads
<1>2. PhasesTypeOK'
  BY <1>1, ChunkBounds DEF PhasesTypeOK, PhaseNames
<1>3. PhaseRanges'
  BY <1>1, ChunkBounds DEF PhaseRanges, PhasesTypeOK
<1>4. \A t \in Threads : tpc[t] \in {"unborn", "phase1", "sync1"}
  BY <1>1 DEF PhasesOrdered, PhasesTypeOK, PhaseNames
<1>5. \A t \in Threads : LastItemDone(t)' <=> t = 0
  BY <1>1, <1>4 DEF LastItemDone, PhasesTypeOK
<1>6. \A t \in Threads : LastItemDone(t) <=> t = 0
  BY <1>1, <1>4 DEF LastItemDone, PhasesTypeOK
<1>7. PhaseData'
  <2>1. ASSUME NEW t \in Threads, NEW k \in Start(t) .. End(t) - 1
        PROVE  ItemValue(t, k)' = ItemValue(t, k)
    <3>1. CASE t = c
      BY <1>1, <1>5, <1>6, <2>1, <3>1, ChunkBounds DEF ItemValue, PhasesTypeOK
    <3>2. CASE t # c
      BY <1>1, <1>5, <1>6, <3>2 DEF ItemValue, PhasesTypeOK
    <3>3. QED
      BY <3>1, <3>2
  <2>2. QED
    BY <1>1, <1>4, <2>1 DEF PhaseData, PhasesTypeOK
<1>8. ResultMatches'
  BY DEF ResultMatches
<1>9. QED
  BY <1>2, <1>3, <1>7, <1>8

LEMMA JoinThreadInv == ASSUME PhasesInv, JoinThread PROVE PhasesInv'
<1> USE SliceBounds DEF JoinThread, PhasesInv, locals
<1>1. PhasesTypeOK'
  BY DEF PhasesTypeOK
<1>2. PhaseRanges'
  BY DEF PhaseRanges, PhasesTypeOK
<1>3. PhaseData' /\ ResultMatches'
  BY DEF PhaseData, ItemValue, LastItemDone, ResultMatches
<1>4. QED
  BY <1>1, <1>2, <1>3

(* When main has joined all threads, every item is the sum of all inputs   *)
(* up to its own.                                                          *)
LEMMA CheckResultInv == ASSUME PhasesInv, CheckResult PROVE PhasesInv'
<1> USE SliceBounds DEF CheckResult, PhasesInv, locals
<1>1. \A t \in Threads : tpc[t] = "exited"
  BY DEF PhaseRanges, Threads
<1>2. ASSUME NEW k \in Items PROVE data[k] = Sum(0, k)
  <2>1. PICK t \in Threads : k \in Start(t) .. End(t) - 1
    BY ItemsInChunks
  <2>2. QED
    BY <1>1, <2>1 DEF PhaseData, ItemValue
<1>3. data = SequentialPrefixSum
  BY <1>2 DEF PhasesTypeOK, SequentialPrefixSum
<1>4. PhasesTypeOK' /\ ResultMatches'
  BY <1>3 DEF PhasesTypeOK, ResultMatches
<1>5. PhaseRanges' /\ PhaseData'
  BY DEF PhaseRanges, PhaseData, ItemValue, LastItemDone
<1>6. QED
  BY <1>4, <1>5

(* What a thread does to itself leaves the values due elsewhere as they    *)
(* are, unless phase 2 has made progress.                                  *)
LEMMA OthersKeepValue ==
  ASSUME NEW t \in Threads, NEW u \in Threads \ {t}, NEW k \in Int,
         tpc'[u] = tpc[u], i'[u] = i[u], LastItemDone(u)' <=> LastItemDone(u)
  PROVE  ItemValue(u, k)' = ItemValue(u, k)
BY DEF ItemValue

LEMMA Phase1StepInv ==
  ASSUME PhasesInv, PhasesOrdered, NEW t \in Threads, Phase1Step(t)
  PROVE  PhasesInv' /\ ExtendsSums
<1> USE SliceBounds DEF Phase1Step, PhasesInv, locals, mainvars
<1>1. /\ i[t] \in Start(t) .. End(t) - 1 /\ i[t] - 1 \in Start(t) .. End(t) - 1
      /\ i[t] \in Items /\ i[t] - 1 \in Items
  <2>1. i[t] \in Start(t) + 1 .. End(t)
    BY DEF PhaseRanges
  <2>2. i[t] \in Start(t) .. End(t) - 1 /\ i[t] - 1 \in Start(t) .. End(t) - 1
    BY <2>1, ChunkBounds
  <2>3. QED
    BY <2>2, OwnItem
<1>2. \A u \in Threads : LastItemDone(u) <=> u = 0
  BY DEF PhasesOrdered, LastItemDone, Threads
<1>3. data[i[t]] = Sum(i[t], i[t]) /\ data[i[t] - 1] = Sum(Start(t), i[t] - 1)
  <2>1. /\ data[i[t]] = ItemValue(t, i[t])
        /\ data[i[t] - 1] = ItemValue(t, i[t] - 1)
    BY <1>1 DEF PhaseData
  <2>2. t = 0 => Start(t) = 0
    BY ChunkBounds
  <2>3. QED
    BY <1>1, <1>2, <2>1, <2>2 DEF ItemValue
<1>4. data' = [data EXCEPT ![i[t]] = Sum(Start(t), i[t])]
  <2>1. Start(t) \in Int /\ i[t] \in Int /\ Start(t) < i[t]
    BY <1>1, ChunkBounds
  <2>2. Plus(Sum(i[t], i[t]), Sum(Start(t), i[t] - 1)) = Sum(Start(t), i[t])
    BY <2>1, PlusAdjacent
  <2>3. QED
    BY <1>3, <2>2
<1>5. PhasesTypeOK'
  <2>0. Start(t) \in Items
    BY ChunkBounds DEF Items
  <2>1. Sum(Start(t), i[t]) \in Values
    BY <1>1, <2>0 DEF Values
  <2>2. i[t] + 1 \in 0 .. NITEMS
    BY <1>1 DEF Items
  <2>3. QED
    BY <1>1, <1>4, <2>1, <2>2 DEF PhasesTypeOK
<1>6. PhaseRanges'
  <2>1. i'[t] \in Start(t) + 1 .. End(t) /\ \A u \in Threads \ {t} : i'[u] = i[u]
    BY <1>1, ChunkBounds DEF PhasesTypeOK
  <2>2. QED
    BY <2>1 DEF PhaseRanges
<1>7. PhaseData' /\ ResultMatches'
  <2>1. \A u \in Threads : LastItemDone(u)' <=> u = 0
    BY <1>2 DEF LastItemDone, PhasesTypeOK, PhasesOrdered
  <2>2. ASSUME NEW u \in Threads \ {t}, NEW k \in Start(u) .. End(u) - 1
        PROVE  data'[k] = ItemValue(u, k)'
    <3>1. k # i[t] /\ k \in Items /\ k \in Int
      BY <1>1, OwnItem DEF Items
    <3>2. ItemValue(u, k)' = ItemValue(u, k)
      BY <1>2, <2>1, <3>1, OthersKeepValue DEF PhasesTypeOK
    <3>3. QED
      BY <1>4, <3>1, <3>2 DEF PhaseData, PhasesTypeOK
  <2>3. ASSUME NEW k \in Start(t) .. End(t) - 1
        PROVE  data'[k] = ItemValue(t, k)'
    <3>1. k \in Items /\ k \in Int /\ data[k] = ItemValue(t, k)
      BY OwnItem DEF PhaseData, Items
    <3>2. t = 0 => Start(t) = 0
      BY ChunkBounds
    <3>3. i'[t] = i[t] + 1 /\ tpc'[t] = "phase1"
      BY DEF PhasesTypeOK
    <3>4. CASE k = i[t]
      BY <1>1, <1>2, <1>4, <2>1, <3>1, <3>2, <3>3, <3>4 DEF ItemValue, PhasesTypeOK
    <3>5. CASE k # i[t]
      BY <1>1, <1>2, <1>4, <2>1, <3>1, <3>2, <3>3, <3>5 DEF ItemValue, PhasesTypeOK
    <3>6. QED
      BY <3>4, <3>5
  <2>4. QED
    BY <2>2, <2>3 DEF PhaseData, PhasesOrdered, ResultMatches
<1>8. ExtendsSums
  BY <1>1, <1>3, <1>4, ChunkBounds DEF ExtendsSums, Sum, PhasesTypeOK
<1>9. QED
  BY <1>5, <1>6, <1>7, <1>8

LEMMA Phase1EndInv ==
  ASSUME PhasesInv, NEW t \in Threads, Phase1End(t)
  PROVE  PhasesInv'
<1> USE SliceBounds DEF Phase1End, Move, PhasesInv, locals, mainvars
<1>1. PhasesTypeOK' /\ PhaseRanges' /\ ResultMatches'
  BY DEF PhasesTypeOK, PhaseNames, PhaseRanges, ResultMatches
<1>2. \A u \in Threads : LastItemDone(u)' <=> LastItemDone(u)
  BY DEF LastItemDone, PhasesTypeOK
<1>3. \A u \in Threads : \A k \in Start(u) .. End(u) - 1 : ItemValue(u, k)' = ItemValue(u, k)
  BY <1>2, ChunkBounds DEF ItemValue, PhasesTypeOK
<1>4. PhaseData'
  BY <1>3 DEF PhaseData, PhasesTypeOK
<1>5. QED
  BY <1>1, <1>4

LEMMA Phase2BeginInv ==
  ASSUME PhasesInv, NEW t \in Threads, t = 0, Phase2Begin(t)
  PROVE  PhasesInv'
<1> USE SliceBounds DEF Phase2Begin, Move, PhasesInv, mainvars
<1>1. Start(t) = 0 /\ Size(t) - 1 = End(t) - 1 /\ End(t) - 1 \in Items
  BY ChunkBounds DEF Size, Items
<1>2. PhasesTypeOK' /\ PhaseRanges' /\ ResultMatches'
  BY <1>1 DEF PhasesTypeOK, PhaseNames, PhaseRanges, ResultMatches
<1>3. \A u \in Threads : (LastItemDone(u) <=> u = 0) /\ (LastItemDone(u)' <=> u = 0)
  BY DEF LastItemDone, PhasesTypeOK, Threads
<1>4. \A u \in Threads : \A k \in Start(u) .. End(u) - 1 : ItemValue(u, k)' = ItemValue(u, k)
  BY <1>3 DEF ItemValue, PhasesTypeOK
<1>5. PhaseData'
  BY <1>1, <1>4 DEF PhaseData, PhasesTypeOK
<1>6. QED
  BY <1>2, <1>5

(* Phase 2 completes the last item of the next chunk: the value it adds is *)
(* complete, and the chunk's own sum is there because phase 1 is over.     *)
LEMMA NextChunkIndexValue ==
  ASSUME NEW t \in Threads, t = 0, i[t] \in 1 .. NTHREADS - 1,
         chunk_last_index = End(i[t] - 1) - 1
  PROVE  NextChunkIndex(t) = End(i[t]) - 1
<1> USE SliceBounds
<1>1. i[t] - 1 \in Nat /\ i[t] - 1 # NTHREADS - 1 /\ i[t] \in Threads
  BY DEF Threads
<1>2. chunk_last_index = i[t] * Slice - 1
  BY <1>1 DEF End
<1>3. CASE i[t] = NTHREADS - 1
  BY <1>3 DEF NextChunkIndex, End
<1>4. CASE i[t] # NTHREADS - 1
  <2>1. NTHREADS - 1 # 0
    BY <1>1, <1>4 DEF Threads
  <2>2. Size(t) = Slice
    BY <2>1 DEF Size, Start, End
  <2>3. (i[t] + 1) * Slice = i[t] * Slice + Slice /\ i[t] * Slice \in Nat
    BY <1>1, SlicesMonotone
  <2>4. QED
    BY <1>2, <1>4, <2>2, <2>3 DEF NextChunkIndex, End
<1>5. QED
  BY <1>3, <1>4

LEMMA Phase2StepInv ==
  ASSUME PhasesInv, PhasesOrdered, NEW t \in Threads, Phase2Step(t)
  PROVE  PhasesInv' /\ ExtendsSums
<1> USE SliceBounds DEF Phase2Step, PhasesInv, mainvars
<1> DEFINE c == i[t]
<1> DEFINE next == NextChunkIndex(t)
<1>1. t = 0 /\ c \in 1 .. NTHREADS - 1 /\ c \in Threads /\ c - 1 \in Threads
  BY DEF PhaseRanges, Threads
<1>2. chunk_last_index = End(c - 1) - 1
  BY <1>1 DEF PhaseData
<1>3. next = End(c) - 1
  BY <1>1, <1>2, NextChunkIndexValue
<1>4. /\ chunk_last_index \in Start(c - 1) .. End(c - 1) - 1
      /\ next \in Start(c) .. End(c) - 1
      /\ chunk_last_index \in Items /\ next \in Items
      /\ Start(c) = chunk_last_index + 1
  <2>1. Start(c) = End(c - 1)
    BY <1>1, ChunkBounds
  <2>2. /\ End(c - 1) - 1 \in Start(c - 1) .. End(c - 1) - 1
        /\ End(c) - 1 \in Start(c) .. End(c) - 1
    BY <1>1, ChunkBounds
  <2>3. QED
    BY <1>1, <1>2, <1>3, <2>1, <2>2, OwnItem, ChunkBounds
<1>5. \A u \in Threads : tpc[u] \notin {"unborn", "phase1", "enter3", "phase3", "exited"}
  BY <1>1 DEF PhasesOrdered
<1>6. \A u \in Threads : LastItemDone(u) <=> u < c
  BY <1>1, <1>5 DEF LastItemDone, Threads
<1>7. data[chunk_last_index] = Sum(0, chunk_last_index)
  <2>1. data[chunk_last_index] = ItemValue(c - 1, chunk_last_index)
    BY <1>1, <1>4 DEF PhaseData
  <2>2. QED
    BY <1>1, <1>2, <1>5, <1>6, <2>1 DEF ItemValue
<1>8. data[next] = Sum(Start(c), next)
  <2>1. data[next] = ItemValue(c, next)
    BY <1>1, <1>4 DEF PhaseData
  <2>2. QED
    BY <1>1, <1>5, <1>6, <2>1 DEF ItemValue
<1>9. data' = [data EXCEPT ![next] = Sum(0, next)]
  <2>1. Start(c) \in Int /\ next \in Int /\ 0 < Start(c) /\ Start(c) <= next
    BY <1>4 DEF Items
  <2>2. Plus(Sum(0, Start(c) - 1), Sum(Start(c), next)) = Sum(0, next)
    BY <2>1, PlusAdjacent
  <2>3. chunk_last_index = Start(c) - 1
    BY <1>4 DEF Items
  <2>4. QED
    BY <1>7, <1>8, <2>2, <2>3
<1>10. PhasesTypeOK'
  <2>1. Sum(0, next) \in Values
    BY <1>4 DEF Values, Items
  <2>2. QED
    BY <1>1, <1>4, <1>9, <2>1 DEF PhasesTypeOK
<1>11. PhaseRanges' /\ ResultMatches'
  BY <1>1 DEF PhaseRanges, PhasesTypeOK, ResultMatches
<1>12. PhaseData'
  <2>1. i'[t] = c + 1 /\ tpc' = tpc
    BY DEF PhasesTypeOK, locals
  <2>2. \A u \in Threads : LastItemDone(u)' <=> u < c \/ u = c
    BY <1>1, <1>5, <2>1 DEF LastItemDone, Threads
  <2>3. ASSUME NEW u \in Threads, NEW k \in Start(u) .. End(u) - 1
        PROVE  data'[k] = ItemValue(u, k)'
    <3>1. data[k] = ItemValue(u, k) /\ k \in Items
      BY OwnItem DEF PhaseData
    <3>2. CASE k = next
      <4>1. u = c
        BY <1>1, <1>4, <3>2, OwnItem
      <4>2. ItemValue(u, k)' = Sum(0, k)
        BY <1>1, <1>3, <1>5, <2>1, <2>2, <3>2, <4>1 DEF ItemValue
      <4>3. QED
        BY <1>4, <1>9, <3>2, <4>2 DEF PhasesTypeOK
    <3>3. CASE k # next
      <4>1. k = End(u) - 1 => (LastItemDone(u)' <=> LastItemDone(u))
        BY <1>3, <1>6, <2>2, <3>3
      <4>2. ItemValue(u, k)' = ItemValue(u, k)
        BY <1>5, <2>1, <4>1 DEF ItemValue
      <4>3. QED
        BY <1>9, <3>1, <3>3, <4>2 DEF PhasesTypeOK
    <3>4. QED
      BY <3>2, <3>3
  <2>4. chunk_last_index' = End(i'[0] - 1) - 1
    BY <1>1, <1>3, <2>1
  <2>5. QED
    BY <1>5, <2>1, <2>3, <2>4 DEF PhaseData
<1>13. ExtendsSums
  <2>1. 0 < Start(c) /\ Start(c) \in Int
    BY <1>4 DEF Items
  <2>2. QED
    BY <1>4, <1>8, <1>9, <2>1 DEF ExtendsSums, Sum, PhasesTypeOK
<1>14. QED
  BY <1>10, <1>11, <1>12, <1>13

LEMMA Phase2EndInv ==
  ASSUME PhasesInv, NEW t \in Threads, Phase2End(t, "sync2")
  PROVE  PhasesInv'
<1> USE SliceBounds DEF Phase2End, Move, PhasesInv, locals, mainvars
<1>1. t = 0 /\ i[t] = NTHREADS
  BY DEF PhaseRanges
<1>2. PhasesTypeOK' /\ PhaseRanges' /\ ResultMatches'
  BY DEF PhasesTypeOK, PhaseNames, PhaseRanges, ResultMatches
<1>3. \A u \in Threads : LastItemDone(u)' /\ LastItemDone(u)
  BY <1>1 DEF LastItemDone, PhasesTypeOK, Threads
<1>4. \A u \in Threads : \A k \in Start(u) .. End(u) - 1 : ItemValue(u, k)' = ItemValue(u, k)
  BY <1>3 DEF ItemValue, PhasesTypeOK
<1>5. PhaseData'
  BY <1>1, <1>4 DEF PhaseData, PhasesTypeOK
<1>6. QED
  BY <1>2, <1>5

(* A thread that goes from one phase to another accesses no item.          *)
LEMMA MoveOnInv ==
  ASSUME PhasesInv, NEW t \in Threads, NEW from, NEW to, Move(t, from, to),
         \/ t # 0 /\ from \in {"sync1", "sync2"} /\ to \in {"sync2", "enter3"}
         \/ t = 0 /\ from = "sync2" /\ to = "exited",
         UNCHANGED <<i, locals, data, mainvars>>
  PROVE  PhasesInv'
<1> USE SliceBounds DEF Move, PhasesInv, locals, mainvars
<1>1. PhasesTypeOK' /\ PhaseRanges' /\ ResultMatches'
  BY DEF PhasesTypeOK, PhaseNames, PhaseRanges, ResultMatches
<1>2. \A u \in Threads : LastItemDone(u)' <=> LastItemDone(u)
  BY DEF LastItemDone, PhasesTypeOK, Threads
<1>3. ASSUME NEW u \in Threads, NEW k \in Start(u) .. End(u) - 1
      PROVE  ItemValue(u, k)' = ItemValue(u, k)
  <2>1. u = 0 => Start(u) = 0
    BY ChunkBounds
  <2>2. QED
    BY <1>2, <2>1 DEF ItemValue, PhasesTypeOK
<1>4. PhaseData'
  BY <1>3 DEF PhaseData, PhasesTypeOK
<1>5. QED
  BY <1>1, <1>4

LEMMA Phase3BeginInv ==
  ASSUME PhasesInv, PhasesOrdered, NEW t \in Threads, Phase3Begin(t)
  PROVE  PhasesInv'
<1> USE SliceBounds DEF Phase3Begin, Move, PhasesInv, mainvars
<1>1. t # 0 /\ tpc[0] \in {"sync2", "exited"} /\ 0 \in Threads
  BY DEF PhaseRanges, PhasesOrdered, Threads
<1>2. /\ t - 1 \in Threads /\ Start(t) - 1 = End(t - 1) - 1
      /\ Start(t) - 1 \in Start(t - 1) .. End(t - 1) - 1
      /\ Start(t) - 1 \in Items
  <2>1. t - 1 \in Threads /\ Start(t) - 1 = End(t - 1) - 1
    BY <1>1, ChunkBounds
  <2>2. Start(t) - 1 \in Start(t - 1) .. End(t - 1) - 1
    BY <2>1, ChunkBounds
  <2>3. QED
    BY <2>1, <2>2, OwnItem
<1>3. \A u \in Threads : tpc[u] \notin {"unborn", "phase1"}
  BY DEF PhasesOrdered
<1>4. data[Start(t) - 1] = Sum(0, Start(t) - 1)
  <2>1. data[Start(t) - 1] = ItemValue(t - 1, Start(t) - 1)
    BY <1>2 DEF PhaseData
  <2>2. LastItemDone(t - 1)
    BY <1>1 DEF LastItemDone
  <2>3. QED
    BY <1>2, <1>3, <2>1, <2>2 DEF ItemValue
<1>5. Start(t) \in 0 .. NITEMS /\ Start(t) \in Start(t) .. End(t) - 1
  BY ChunkBounds
<1>6. PhasesTypeOK' /\ PhaseRanges' /\ ResultMatches'
  BY <1>1, <1>2, <1>5 DEF PhasesTypeOK, PhaseNames, PhaseRanges, ResultMatches
<1>7. \A u \in Threads : LastItemDone(u)' /\ LastItemDone(u)
  BY <1>1 DEF LastItemDone, PhasesTypeOK
<1>8. ASSUME NEW u \in Threads, NEW k \in Start(u) .. End(u) - 1
      PROVE  ItemValue(u, k)' = ItemValue(u, k)
  BY <1>3, <1>5, <1>7 DEF ItemValue, PhasesTypeOK
<1>9. PhaseData'
  BY <1>1, <1>4, <1>8 DEF PhaseData, PhasesTypeOK
<1>10. QED
  BY <1>6, <1>9

LEMMA Phase3StepInv ==
  ASSUME PhasesInv, PhasesOrdered, NEW t \in Threads, Phase3Step(t)
  PROVE  PhasesInv' /\ ExtendsSums
<1> USE SliceBounds DEF Phase3Step, PhasesInv, locals, mainvars
<1>1. t # 0 /\ tpc[0] \in {"sync2", "exited"} /\ 0 \in Threads
  BY DEF PhaseRanges, PhasesOrdered, Threads
<1>2. /\ i[t] \in Start(t) .. End(t) - 1 /\ i[t] # End(t) - 1
      /\ i[t] \in Items /\ Start(t) \in Int /\ 0 < Start(t)
  <2>1. i[t] \in Start(t) .. End(t) - 1
    BY DEF PhaseRanges
  <2>2. QED
    BY <1>1, <2>1, OwnItem, ChunkBounds
<1>3. data[i[t]] = Sum(Start(t), i[t])
  <2>1. data[i[t]] = ItemValue(t, i[t])
    BY <1>2 DEF PhaseData
  <2>2. QED
    BY <1>2, <2>1 DEF ItemValue, Items
<1>4. data' = [data EXCEPT ![i[t]] = Sum(0, i[t])]
  <2>1. prev_chunk_last_val[t] = Sum(0, Start(t) - 1)
    BY DEF PhaseData
  <2>2. i[t] \in Int /\ Start(t) <= i[t]
    BY <1>2
  <2>3. Plus(Sum(Start(t), i[t]), Sum(0, Start(t) - 1)) = Sum(0, i[t])
    BY <1>2, <2>2, PlusAdjacent
  <2>4. QED
    BY <1>3, <2>1, <2>3
<1>5. i[t] + 1 \in Start(t) .. End(t) - 1 /\ i[t] + 1 \in 0 .. NITEMS
  <2>1. i[t] + 1 \in Start(t) .. End(t) - 1
    BY <1>2, ChunkBounds
  <2>2. QED
    BY <1>2, <2>1 DEF Items
<1>6. PhasesTypeOK'
  <2>1. Sum(0, i[t]) \in Values
    BY <1>2 DEF Values, Items
  <2>2. QED
    BY <1>2, <1>4, <1>5, <2>1 DEF PhasesTypeOK
<1>7. PhaseRanges' /\ ResultMatches'
  BY <1>5 DEF PhaseRanges, PhasesTypeOK, ResultMatches
<1>8. \A u \in Threads : LastItemDone(u)' /\ LastItemDone(u)
  BY <1>1 DEF LastItemDone, PhasesTypeOK
<1>9. PhaseData'
  <2>1. ASSUME NEW u \in Threads, NEW k \in Start(u) .. End(u) - 1
        PROVE  data'[k] = ItemValue(u, k)'
    <3>1. data[k] = ItemValue(u, k) /\ k \in Items /\ k \in Int
      BY OwnItem DEF PhaseData, Items
    <3>2. CASE k = i[t]
      <4>1. u = t
        BY <1>2, <3>2, OwnItem
      <4>2. QED
        BY <1>2, <1>4, <3>1, <3>2, <4>1 DEF ItemValue, PhasesTypeOK, Items
    <3>3. CASE k # i[t]
      <4>1. u = t => (k < i'[u] <=> k < i[u])
        BY <1>2, <3>1, <3>3 DEF PhasesTypeOK
      <4>2. ItemValue(u, k)' = ItemValue(u, k)
        BY <1>8, <4>1 DEF ItemValue, PhasesTypeOK
      <4>3. QED
        BY <1>4, <3>1, <3>3, <4>2 DEF PhasesTypeOK
    <3>4. QED
      BY <3>2, <3>3
  <2>2. QED
    BY <1>1, <2>1 DEF PhaseData
<1>10. ExtendsSums
  BY <1>2, <1>3, <1>4 DEF ExtendsSums, Sum, PhasesTypeOK
<1>11. QED
  BY <1>6, <1>7, <1>9, <1>10

LEMMA Phase3EndInv ==
  ASSUME PhasesInv, PhasesOrdered, NEW t \in Threads, Phase3End(t)
  PROVE  PhasesInv'
<1> USE SliceBounds DEF Phase3End, Move, PhasesInv, locals, mainvars
<1>1. t # 0 /\ tpc[0] \in {"sync2", "exited"} /\ 0 \in Threads
  BY DEF PhaseRanges, PhasesOrdered, Threads
<1>2. i[t] = End(t) - 1
  <2>1. i[t] \in Start(t) .. End(t) - 1
    BY DEF PhaseRanges
  <2>2. QED
    BY <2>1, ChunkBounds
<1>3. PhasesTypeOK' /\ PhaseRanges' /\ ResultMatches'
  BY DEF PhasesTypeOK, PhaseNames, PhaseRanges, ResultMatches
<1>4. \A u \in Threads : LastItemDone(u)' /\ LastItemDone(u)
  BY <1>1 DEF LastItemDone, PhasesTypeOK
<1>5. ASSUME NEW u \in Threads, NEW k \in Start(u) .. End(u) - 1
      PROVE  ItemValue(u, k)' = ItemValue(u, k)
  <2>1. u = t => k < i[u] \/ k = End(u) - 1
    BY <1>2, ChunkBounds
  <2>2. QED
    BY <1>4, <2>1 DEF ItemValue, PhasesTypeOK
<1>6. PhaseData'
  BY <1>1, <1>5 DEF PhaseData, PhasesTypeOK
<1>7. QED
  BY <1>3, <1>6

LEMMA PhasesStutterInv == ASSUME PhasesInv, UNCHANGED pvars PROVE PhasesInv'
BY DEF PhasesInv, pvars, locals, mainvars, PhasesTypeOK, PhaseRanges, PhaseData,
       ItemValue, LastItemDone, ResultMatches

-----------------------------------------------------------------------------
(* Types do not depend on the order of the phases: racing threads still    *)
(* stay in their ranges and leave a value in every item.                   *)
Sane ==
  /\ PhasesTypeOK
  /\ PhaseRanges
  /\ tpc[0] = "phase2" => chunk_last_index = End(i[0] - 1) - 1

LEMMA OrderedIsSane == PhasesInv => Sane
BY DEF PhasesInv, PhaseData, Sane

LEMMA MainSane == ASSUME Sane, Main PROVE Sane'
<1> USE SliceBounds DEF Sane, locals, PhasesTypeOK
<1>1. CASE CreateThread
  <2>1. created \in Threads /\ 0 \in Threads
    BY <1>1 DEF CreateThread, Threads
  <2>2. PhasesTypeOK' /\ PhaseRanges'
    BY <1>1, <2>1, ChunkBounds DEF CreateThread, Move, PhaseNames, PhaseRanges
  <2>3. tpc'[0] = "phase2" => tpc[0] = "phase2" /\ i'[0] = i[0]
    BY <1>1, <2>1 DEF CreateThread, Move
  <2>4. QED
    BY <1>1, <2>2, <2>3 DEF CreateThread
<1>2. CASE JoinThread
  BY <1>2 DEF JoinThread, PhaseRanges
<1>3. CASE CheckResult
  BY <1>3 DEF CheckResult, PhaseRanges
<1>4. QED
  BY <1>1, <1>2, <1>3 DEF Main

LEMMA Phase1Sane == ASSUME Sane, NEW t \in Threads, Phase1Step(t) PROVE Sane'
<1> USE SliceBounds DEF Sane, locals, mainvars, Phase1Step
<1>1. i[t] \in Start(t) + 1 .. End(t) - 1 /\ i[t] \in Items /\ i[t] - 1 \in Items
  BY ChunkBounds DEF PhaseRanges, Items
<1>2. Plus(data[i[t]], data[i[t] - 1]) \in Values
  BY <1>1, PlusValue DEF PhasesTypeOK
<1>3. data' \in [Items -> Values]
  BY <1>2 DEF PhasesTypeOK
<1>4. i[t] + 1 \in Start(t) + 1 .. End(t) /\ i[t] + 1 \in 0 .. NITEMS
  BY <1>1, ChunkBounds
<1>5. PhasesTypeOK' /\ PhaseRanges'
  BY <1>3, <1>4 DEF PhasesTypeOK, PhaseRanges
<1>6. tpc'[0] = "phase2" => i'[0] = i[0]
  BY DEF PhasesTypeOK
<1>7. QED
  BY <1>5, <1>6

LEMMA Phase2Sane ==
  ASSUME Sane, NEW t \in Threads,
         (t = 0 /\ Phase2Begin(t)) \/ Phase2Step(t) \/ Phase2End(t, "sync2")
  PROVE  Sane'
<1> USE SliceBounds DEF Sane, locals, mainvars
<1>1. CASE t = 0 /\ Phase2Begin(t)
  <2>1. Size(t) - 1 = End(t) - 1 /\ End(t) - 1 \in Items
    BY <1>1, ChunkBounds DEF Size, Items
  <2>2. PhasesTypeOK' /\ PhaseRanges'
    BY <1>1, <2>1 DEF Phase2Begin, Move, PhasesTypeOK, PhaseNames, PhaseRanges
  <2>3. QED
    BY <1>1, <2>1, <2>2 DEF Phase2Begin, PhasesTypeOK
<1>2. CASE Phase2Step(t)
  <2> USE DEF Phase2Step
  <2>1. t = 0 /\ i[t] \in 1 .. NTHREADS - 1 /\ i[t] \in Threads
    BY <1>2 DEF PhaseRanges, Threads
  <2>2. NextChunkIndex(t) = End(i[t]) - 1 /\ NextChunkIndex(t) \in Items
    BY <1>2, <2>1, NextChunkIndexValue, ChunkBounds DEF Items
  <2>3. Plus(data[chunk_last_index], data[NextChunkIndex(t)]) \in Values
    BY <2>2, PlusValue DEF PhasesTypeOK
  <2>4. data' \in [Items -> Values]
    BY <1>2, <2>3 DEF PhasesTypeOK
  <2>5. i' = [i EXCEPT ![t] = i[t] + 1] /\ i[t] + 1 \in 1 .. NTHREADS
        /\ i[t] + 1 \in 0 .. NITEMS
    BY <1>2, <2>1, PrefixAssumption
  <2>6. PhasesTypeOK' /\ PhaseRanges'
    BY <1>2, <2>1, <2>2, <2>4, <2>5 DEF PhasesTypeOK, PhaseRanges
  <2>7. i'[0] - 1 = i[0]
    BY <2>1, <2>5 DEF PhasesTypeOK
  <2>8. QED
    BY <1>2, <2>1, <2>2, <2>6, <2>7
<1>3. CASE Phase2End(t, "sync2")
  BY <1>3 DEF Phase2End, Move, PhasesTypeOK, PhaseNames, PhaseRanges
<1>4. QED
  BY <1>1, <1>2, <1>3

LEMMA Phase3Sane ==
  ASSUME Sane, NEW t \in Threads, Phase3Begin(t) \/ Phase3Step(t) \/ Phase3End(t)
  PROVE  Sane'
<1> USE SliceBounds DEF Sane, locals, mainvars
<1>1. t # 0
  BY DEF PhaseRanges, Phase3Begin, Phase3Step, Phase3End, Move
<1>2. CASE Phase3Begin(t)
  <2>1. Start(t) - 1 \in Items /\ Start(t) \in Start(t) .. End(t) - 1
        /\ Start(t) \in 0 .. NITEMS
    BY <1>1, ChunkBounds DEF Items
  <2>2. data[Start(t) - 1] \in Values
    BY <2>1 DEF PhasesTypeOK
  <2>3. PhasesTypeOK' /\ PhaseRanges'
    BY <1>1, <1>2, <2>1, <2>2
       DEF Phase3Begin, Move, PhasesTypeOK, PhaseNames, PhaseRanges
  <2>4. QED
    BY <1>1, <1>2, <2>3 DEF Phase3Begin, Move, PhasesTypeOK
<1>3. CASE Phase3Step(t)
  <2> USE DEF Phase3Step
  <2>1. i[t] \in Items /\ i[t] + 1 \in Start(t) .. End(t) - 1 /\ i[t] + 1 \in 0 .. NITEMS
    BY <1>3, ChunkBounds DEF PhaseRanges, Items
  <2>2. Plus(data[i[t]], prev_chunk_last_val[t]) \in Values
    BY <2>1, PlusValue DEF PhasesTypeOK
  <2>3. data' \in [Items -> Values]
    BY <1>3, <2>2 DEF PhasesTypeOK
  <2>4. PhasesTypeOK' /\ PhaseRanges'
    BY <1>3, <2>1, <2>3 DEF PhasesTypeOK, PhaseRanges
  <2>5. QED
    BY <1>1, <1>3, <2>4 DEF PhasesTypeOK
<1>4. CASE Phase3End(t)
  BY <1>1, <1>4 DEF Phase3End, Move, PhasesTypeOK, PhaseNames, PhaseRanges
<1>5. QED
  BY <1>2, <1>3, <1>4

LEMMA StutterSane == ASSUME Sane, UNCHANGED pvars PROVE Sane'
BY DEF Sane, pvars, locals, mainvars, PhasesTypeOK, PhaseRanges

(* With an item for every thread, every item that the next step of a       *)
(* thread accesses exists.                                                 *)
LEMMA SensibleIndices ==
  ASSUME Sane
  PROVE  IndicesInBounds
<1> SUFFICES ASSUME NEW t \in Threads
             PROVE  Reads(t) \cup Writes(t) \subseteq Items
  BY DEF IndicesInBounds
<1> USE SliceBounds DEF Sane
<1>1. CASE tpc[t] = "phase1" /\ i[t] < End(t)
  <2>1. i[t] - 1 \in Items /\ i[t] \in Items
    BY <1>1, ChunkBounds DEF PhaseRanges, Items
  <2>2. QED
    BY <1>1, <2>1 DEF Reads, Writes
<1>2. CASE tpc[t] = "phase2" /\ i[t] < NTHREADS
  <2>1. t = 0 /\ i[t] \in 1 .. NTHREADS - 1 /\ i[t] - 1 \in Threads /\ i[t] \in Threads
    BY <1>2 DEF PhaseRanges, Threads
  <2>2. chunk_last_index = End(i[t] - 1) - 1
    BY <1>2, <2>1
  <2>3. NextChunkIndex(t) = End(i[t]) - 1
    BY <2>1, <2>2, NextChunkIndexValue
  <2>4. chunk_last_index \in Items /\ NextChunkIndex(t) \in Items
    BY <2>1, <2>2, <2>3, ChunkBounds DEF Items
  <2>5. chunk_last_index = i[t] * Slice - 1 /\ Size(t) = Slice
    BY <2>1, <2>2 DEF End, Start, Size
  <2>6. /\ i[t] * Slice \in Nat /\ (i[t] + 1) * Slice = i[t] * Slice + Slice
        /\ (i[t] + 1) * Slice <= NTHREADS * Slice
    BY <2>1, SlicesMonotone
  <2>7. chunk_last_index + Size(t) \in Items
    BY <2>4, <2>5, <2>6 DEF Items
  <2>8. QED
    BY <1>2, <2>4, <2>7 DEF Reads, Writes
<1>3. CASE tpc[t] = "enter3"
  <2>1. Start(t) - 1 \in Items
    BY <1>3, ChunkBounds DEF PhaseRanges, Items
  <2>2. QED
    BY <1>3, <2>1 DEF Reads, Writes
<1>4. CASE tpc[t] = "phase3" /\ i[t] < End(t) - 1
  <2>1. i[t] \in Items
    BY <1>4, ChunkBounds DEF PhaseRanges, Items
  <2>2. QED
    BY <1>4, <2>1 DEF Reads, Writes
<1>5. CASE /\ ~(tpc[t] = "phase1" /\ i[t] < End(t))
           /\ ~(tpc[t] = "phase2" /\ i[t] < NTHREADS)
           /\ tpc[t] # "enter3"
           /\ ~(tpc[t] = "phase3" /\ i[t] < End(t) - 1)
  BY <1>5 DEF Reads, Writes
<1>6. QED
  BY <1>1, <1>2, <1>3, <1>4, <1>5
=============================================================================

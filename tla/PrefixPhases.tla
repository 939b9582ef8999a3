---------------------------- MODULE PrefixPhases ----------------------------
(***************************************************************************)
(* What prefix-sum/s2768394.c and prefix-sum/badMonitor.c share: main,     *)
(* which creates the threads, joins them and compares the result with the  *)
(* sequential one, and the three phases of the parallel prefix sum.  The   *)
(* two programs differ in how a thread waits between the phases; the       *)
(* modules that extend this one model that.                                *)
(*                                                                         *)
(* Every int the program computes is the sum of some of the inputs.  A     *)
(* value is modelled by the interval of input positions it sums, so one    *)
(* behaviour stands for all inputs.  Adding two adjacent intervals gives   *)
(* their union; any other sum is Garbage, a value that no prefix sum has.  *)
(***************************************************************************)
EXTENDS ThreadSet

CONSTANT NITEMS   \* length of the array

(* An empty chunk would make phase_2 read data[-1], so the programs need   *)
(* at least one item per thread; both define far more (10000 and           *)
(* 10000000), but main only checks that there are not too many (219).      *)
ASSUME PrefixAssumption == NITEMS \in Nat /\ NITEMS >= NTHREADS

Items == 0 .. NITEMS - 1

VARIABLES
  tpc,                  \* what each thread is doing
  i,                    \* the loop variable of each thread
  chunk_last_index,     \* local variable of phase_2 (thread 0)
  prev_chunk_last_val,  \* local variable of phase_3, per thread
  data,                 \* the shared array
  created,              \* threads main has created
  joined,               \* threads main has joined
  verdict               \* what main prints: "none" yet, "match", "mismatch"

mainvars == <<created, joined, verdict>>

locals == <<chunk_last_index, prev_chunk_last_val>>

pvars == <<tpc, i, locals, data, mainvars>>

-----------------------------------------------------------------------------
Sum(lo, hi) == [lo |-> lo, hi |-> hi]

Garbage == Sum(-2, -2)

Plus(a, b) == IF a.hi + 1 = b.lo THEN Sum(a.lo, b.hi)
              ELSE IF b.hi + 1 = a.lo THEN Sum(b.lo, a.hi)
              ELSE Garbage

Values == {Garbage} \cup {Sum(lo, hi) : lo, hi \in Items}

(* worker_params: chunk_slice items each, the last chunk takes the surplus *)
Slice == NITEMS \div NTHREADS

Start(t) == t * Slice

End(t) == IF t = NTHREADS - 1 THEN NITEMS ELSE (t + 1) * Slice

Size(t) == End(t) - Start(t)

PhaseNames == {"unborn", "phase1", "sync1", "phase2", "sync2",
               "enter3", "phase3", "exited"}

PhasesTypeOK ==
  /\ tpc \in [Threads -> PhaseNames]
  /\ i \in [Threads -> 0 .. NITEMS]
  /\ chunk_last_index \in Items
  /\ prev_chunk_last_val \in [Threads -> Values]
  /\ data \in [Items -> Values]
  /\ created \in 0 .. NTHREADS
  /\ joined \in 0 .. created
  /\ verdict \in {"none", "match", "mismatch"}

PhasesInit ==
  /\ tpc = [t \in Threads |-> "unborn"]
  /\ i = [t \in Threads |-> 0]
  /\ chunk_last_index = 0
  /\ prev_chunk_last_val = [t \in Threads |-> Garbage]
  /\ data = [k \in Items |-> Sum(k, k)]
  /\ created = 0
  /\ joined = 0
  /\ verdict = "none"

Move(t, from, to) == tpc[t] = from /\ tpc' = [tpc EXCEPT ![t] = to]

-----------------------------------------------------------------------------
(* The two loops of parallelprefixsum, and checkresult.                    *)
CreateThread ==
  /\ created < NTHREADS
  /\ Move(created, "unborn", "phase1")
  /\ i' = [i EXCEPT ![created] = Start(created) + 1]
  /\ created' = created + 1
  /\ UNCHANGED <<locals, data, joined, verdict>>

JoinThread ==
  /\ created = NTHREADS
  /\ joined < NTHREADS
  /\ tpc[joined] = "exited"
  /\ joined' = joined + 1
  /\ UNCHANGED <<tpc, i, locals, data, created, verdict>>

SequentialPrefixSum == [k \in Items |-> Sum(0, k)]

CheckResult ==
  /\ joined = NTHREADS
  /\ verdict = "none"
  /\ verdict' = IF data = SequentialPrefixSum THEN "match" ELSE "mismatch"
  /\ UNCHANGED <<tpc, i, locals, data, created, joined>>

Main == CreateThread \/ JoinThread \/ CheckResult

-----------------------------------------------------------------------------
(* phase_1: one iteration of the prefix sum of the thread's own chunk.     *)
Phase1Step(t) ==
  /\ tpc[t] = "phase1"
  /\ i[t] < End(t)
  /\ data' = [data EXCEPT ![i[t]] = Plus(@, data[i[t] - 1])]
  /\ i' = [i EXCEPT ![t] = @ + 1]
  /\ UNCHANGED <<tpc, locals, mainvars>>

Phase1End(t) ==
  /\ Move(t, "phase1", "sync1")
  /\ i[t] >= End(t)
  /\ UNCHANGED <<i, locals, data, mainvars>>

(* phase_2: thread 0 adds up the last items of the chunks, left to right.  *)
Phase2Begin(t) ==
  /\ Move(t, "sync1", "phase2")
  /\ i' = [i EXCEPT ![t] = 1]
  /\ chunk_last_index' = Size(t) - 1
  /\ UNCHANGED <<prev_chunk_last_val, data, mainvars>>

(* Mutant of NextChunkIndex: the last chunk is taken for one like the rest *)
NextChunkIndexRegular(t) == chunk_last_index + Size(t)

NextChunkIndex(t) == IF i[t] = NTHREADS - 1 THEN NITEMS - 1
                     ELSE chunk_last_index + Size(t)

Phase2Step(t) ==
  /\ tpc[t] = "phase2"
  /\ i[t] < NTHREADS
  /\ data' = [data EXCEPT ![NextChunkIndex(t)] = Plus(data[chunk_last_index], @)]
  /\ chunk_last_index' = NextChunkIndex(t)
  /\ i' = [i EXCEPT ![t] = @ + 1]
  /\ UNCHANGED <<tpc, prev_chunk_last_val, mainvars>>

Phase2End(t, to) ==
  /\ Move(t, "phase2", to)
  /\ i[t] >= NTHREADS
  /\ UNCHANGED <<i, locals, data, mainvars>>

(* phase_3: add the last value of the previous chunk to all items of the   *)
(* chunk but the last, which phase_2 has completed.                        *)
Phase3Begin(t) ==
  /\ Move(t, "enter3", "phase3")
  /\ prev_chunk_last_val' = [prev_chunk_last_val EXCEPT ![t] = data[Start(t) - 1]]
  /\ i' = [i EXCEPT ![t] = Start(t)]
  /\ UNCHANGED <<chunk_last_index, data, mainvars>>

(* Mutant of Phase3Step: it goes on to the last item of the chunk.         *)
Phase3StepWhole(t) ==
  /\ tpc[t] = "phase3"
  /\ i[t] < End(t)
  /\ data' = [data EXCEPT ![i[t]] = Plus(@, prev_chunk_last_val[t])]
  /\ i' = [i EXCEPT ![t] = @ + 1]
  /\ UNCHANGED <<tpc, locals, mainvars>>

Phase3Step(t) ==
  /\ tpc[t] = "phase3"
  /\ i[t] < End(t) - 1
  /\ data' = [data EXCEPT ![i[t]] = Plus(@, prev_chunk_last_val[t])]
  /\ i' = [i EXCEPT ![t] = @ + 1]
  /\ UNCHANGED <<tpc, locals, mainvars>>

Phase3End(t) ==
  /\ Move(t, "phase3", "exited")
  /\ i[t] >= End(t) - 1
  /\ UNCHANGED <<i, locals, data, mainvars>>

-----------------------------------------------------------------------------
(* The items of data that a thread's next step reads and writes.           *)
Writes(t) ==
  CASE tpc[t] = "phase1" /\ i[t] < End(t)     -> {i[t]}
    [] tpc[t] = "phase2" /\ i[t] < NTHREADS   -> {NextChunkIndex(t)}
    [] tpc[t] = "phase3" /\ i[t] < End(t) - 1 -> {i[t]}
    [] OTHER                                  -> {}

Reads(t) ==
  CASE tpc[t] = "phase1" /\ i[t] < End(t)     -> {i[t] - 1, i[t]}
    [] tpc[t] = "phase2" /\ i[t] < NTHREADS   ->
         {chunk_last_index, chunk_last_index + Size(t), NextChunkIndex(t)}
    [] tpc[t] = "enter3"                      -> {Start(t) - 1}
    [] tpc[t] = "phase3" /\ i[t] < End(t) - 1 -> {i[t]}
    [] OTHER                                  -> {}

(* No two threads are about to access the same item, one of them writing   *)
(* it: the phases need no lock on data because the synchronisation between *)
(* them separates the accesses (s2768394.c:133-145, comment at 14-15).     *)
NoDataRace ==
  \A t, u \in Threads : t # u => Writes(t) \cap (Reads(u) \cup Writes(u)) = {}

(* No thread is ever about to access an item outside of the array, in the  *)
(* first chunk (nothing precedes it) and the last, longer one either: one  *)
(* item per thread is all that the sizes have to provide                   *)
(* (s2768394.c:149-180).                                                   *)
IndicesInBounds == \A t \in Threads : Reads(t) \cup Writes(t) \subseteq Items

(* The last item of chunk t is final: phase_2 has passed it.               *)
LastItemDone(t) ==
  \/ t = 0
  \/ tpc[0] \in {"sync2", "exited"}
  \/ tpc[0] = "phase2" /\ t < i[0]

(* What item k of chunk t holds, by how far thread t and phase_2 have got. *)
ItemValue(t, k) ==
  IF tpc[t] = "unborn" \/ (tpc[t] = "phase1" /\ k >= i[t]) THEN Sum(k, k)
  ELSE IF \/ k = End(t) - 1 /\ LastItemDone(t)
          \/ tpc[t] = "phase3" /\ k < i[t]
          \/ tpc[t] = "exited"
       THEN Sum(0, k)
       ELSE Sum(Start(t), k)

(* At every moment every item holds exactly the partial sum that the       *)
(* progress of the phases accounts for: no update is lost, doubled or made *)
(* from a value another thread has not finished (s2768394.c:130-180).      *)
PhaseData ==
  /\ \A t \in Threads : \A k \in Start(t) .. End(t) - 1 : data[k] = ItemValue(t, k)
  /\ tpc[0] = "phase2" => chunk_last_index = End(i[0] - 1) - 1
  /\ \A t \in Threads :
       tpc[t] = "phase3" => prev_chunk_last_val[t] = Sum(0, Start(t) - 1)

(* A step that changes an item extends the sum it holds to the left, over  *)
(* inputs not in it yet, and never loses its own input.                    *)
ExtendsSums ==
  \A k \in Items :
    data'[k] # data[k] => data'[k].hi = k /\ data'[k].lo < data[k].lo

(* main never reports that the parallel and the sequential prefix sums     *)
(* differ (s2768394.c:243-249, badMonitor.c:270-276).                      *)
ResultMatches == verdict # "mismatch"

(* What each thread runs in a phase, and how far its loop variable goes.   *)
PhaseRanges ==
  /\ \A t \in Threads :
       /\ tpc[t] = "phase1" => i[t] \in Start(t) + 1 .. End(t)
       /\ tpc[t] = "phase2" => t = 0 /\ i[t] \in 1 .. NTHREADS
       /\ tpc[t] \in {"enter3", "phase3"} => t # 0
       /\ tpc[t] = "phase3" => i[t] \in Start(t) .. End(t) - 1
  /\ \A t \in 0 .. joined - 1 : tpc[t] = "exited"

(* What the phases need of the synchronisation between them: phase 2 and   *)
(* all after it come after every phase 1, phase 3 comes after phase 2.     *)
PhasesOrdered ==
  /\ (\E t \in Threads : tpc[t] \in {"phase2", "sync2", "enter3", "phase3", "exited"})
       => \A u \in Threads : tpc[u] \notin {"unborn", "phase1"}
  /\ (\E t \in Threads \ {0} : tpc[t] \in {"enter3", "phase3", "exited"})
       => tpc[0] \in {"sync2", "exited"}

(* As long as PhasesOrdered holds, every step of the phases keeps this.    *)
PhasesInv == PhasesTypeOK /\ PhaseRanges /\ PhaseData /\ ResultMatches

(* main gets to its report.                                                *)
Reported == verdict # "none"
=============================================================================

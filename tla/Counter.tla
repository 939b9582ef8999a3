------------------------------- MODULE Counter -------------------------------
(***************************************************************************)
(* counter/goodCounter.c and counter/badCounter.c: P threads that each add *)
(* 1 to the shared int target N times; main joins them and prints target.  *)
(* The programs differ in one thing: the good one (guarded) brackets the   *)
(* addition with sem_wait and sem_post on the semaphore lock.              *)
(*                                                                         *)
(* target is volatile, so "target = target+1" loads it and then stores the *)
(* sum, and other threads may run in between.                              *)
(***************************************************************************)
EXTENDS Integers, FiniteSets

CONSTANTS P, N

ASSUME CounterAssumption == P \in Nat \ {0} /\ N \in Nat \ {0}

Threads == 0 .. P - 1

VARIABLES
  guarded,     \* which of the two programs this is
  target,
  lock,        \* value of the semaphore
  tpc,         \* what each thread is doing
  i,           \* its loop variable
  loaded,      \* the value of target it has loaded
  created, joined,
  printed      \* the final value that main prints, or -1

mainvars == <<created, joined, printed>>

vars == <<guarded, target, lock, tpc, i, loaded, mainvars>>

TypeOK ==
  /\ guarded \in BOOLEAN
  /\ target \in Nat
  /\ lock \in {0, 1}
  /\ tpc \in [Threads -> {"unborn", "loop", "load", "store", "post", "exited"}]
  /\ i \in [Threads -> 0 .. N]
  /\ loaded \in [Threads -> Nat]
  /\ created \in 0 .. P
  /\ joined \in 0 .. created
  /\ printed \in Nat \cup {-1}

Init ==
  /\ guarded \in BOOLEAN
  /\ target = 0
  /\ lock = 1
  /\ tpc = [t \in Threads |-> "unborn"]
  /\ i = [t \in Threads |-> 0]
  /\ loaded = [t \in Threads |-> 0]
  /\ created = 0
  /\ joined = 0
  /\ printed = -1

Goto(t, from, to) == tpc[t] = from /\ tpc' = [tpc EXCEPT ![t] = to]

-----------------------------------------------------------------------------
(* main                                                                    *)
CreateThread ==
  /\ created < P
  /\ Goto(created, "unborn", "loop")
  /\ created' = created + 1
  /\ UNCHANGED <<guarded, target, lock, i, loaded, joined, printed>>

JoinThread ==
  /\ created = P
  /\ joined < P
  /\ tpc[joined] = "exited"
  /\ joined' = joined + 1
  /\ UNCHANGED <<guarded, target, lock, tpc, i, loaded, created, printed>>

PrintTarget ==
  /\ joined = P
  /\ printed = -1
  /\ printed' = target
  /\ UNCHANGED <<guarded, target, lock, tpc, i, loaded, created, joined>>

MainStep == CreateThread \/ JoinThread \/ PrintTarget

-----------------------------------------------------------------------------
(* Mutant of StartAddition: the good program does not wait either.         *)
StartAdditionUnguarded(t) ==
  /\ Goto(t, "loop", "load")
  /\ i[t] < N
  /\ UNCHANGED <<guarded, target, lock, i, loaded, mainvars>>

(* adderthread: the loop test, and sem_wait in the good program            *)
StartAddition(t) ==
  /\ Goto(t, "loop", "load")
  /\ i[t] < N
  /\ IF guarded THEN lock > 0 /\ lock' = lock - 1 ELSE UNCHANGED lock
  /\ UNCHANGED <<guarded, target, i, loaded, mainvars>>

Load(t) ==
  /\ Goto(t, "load", "store")
  /\ loaded' = [loaded EXCEPT ![t] = target]
  /\ UNCHANGED <<guarded, target, lock, i, mainvars>>

StoreValue(t, value) ==
  /\ Goto(t, "store", "post")
  /\ target' = value
  /\ UNCHANGED <<guarded, lock, i, loaded, mainvars>>

(* Mutant of Store: what was loaded is stored again.                       *)
StoreOld(t) == StoreValue(t, loaded[t])

Store(t) == StoreValue(t, loaded[t] + 1)

(* Mutant of EndAddition: the semaphore is not posted.                     *)
EndAdditionNoPost(t) ==
  /\ Goto(t, "post", "loop")
  /\ i' = [i EXCEPT ![t] = @ + 1]
  /\ UNCHANGED <<guarded, target, lock, loaded, mainvars>>

(* sem_post in the good program, and the end of the loop body              *)
EndAddition(t) ==
  /\ Goto(t, "post", "loop")
  /\ i' = [i EXCEPT ![t] = @ + 1]
  /\ lock' = IF guarded THEN lock + 1 ELSE lock
  /\ UNCHANGED <<guarded, target, loaded, mainvars>>

Return(t) ==
  /\ Goto(t, "loop", "exited")
  /\ i[t] >= N
  /\ UNCHANGED <<guarded, target, lock, i, loaded, mainvars>>

ThreadStep(t) ==
  \/ StartAddition(t)
  \/ Load(t)
  \/ Store(t)
  \/ EndAddition(t)
  \/ Return(t)

Terminated == printed # -1 /\ UNCHANGED vars

Next == MainStep \/ (\E t \in Threads : ThreadStep(t)) \/ Terminated

Safety == Init /\ [][Next]_vars

Spec == Safety /\ WF_vars(MainStep) /\ \A t \in Threads : WF_vars(ThreadStep(t))

-----------------------------------------------------------------------------
InAddition(t) == tpc[t] \in {"load", "store", "post"}

(* The additions that have been stored: the first so many of each thread   *)
Stored(t) == IF tpc[t] = "post" THEN i[t] + 1 ELSE i[t]

Additions == {a \in Threads \X (1 .. N) : a[2] <= Stored(a[1])}

(* A thread adds only as often as it should, and main joins only threads   *)
(* that have done so.                                                      *)
Progress ==
  /\ \A t \in Threads : InAddition(t) => i[t] < N
  /\ \A t \in Threads : tpc[t] = "exited" => i[t] = N
  /\ \A t \in 0 .. joined - 1 : tpc[t] = "exited"

(* With the semaphore one thread adds at a time, on the value it loaded,   *)
(* so that target counts every addition made so far                        *)
(* (goodCounter.c:37-41).                                                  *)
NoLostUpdate ==
  guarded =>
    /\ target = Cardinality(Additions)
    /\ lock = IF \E t \in Threads : InAddition(t) THEN 0 ELSE 1
    /\ \A t, u \in Threads : InAddition(t) /\ InAddition(u) => t = u
    /\ \A t \in Threads : tpc[t] = "store" => loaded[t] = target

(* With the semaphore main prints P*N, what it says the value should be    *)
(* (goodCounter.c:64); the rest is why.                                    *)
CounterInv ==
  /\ TypeOK
  /\ Progress
  /\ NoLostUpdate
  /\ guarded /\ printed # -1 => printed = P * N

LeastFinal == IF N = 1 THEN 1 ELSE 2

(* The program without the semaphore may lose additions, but no addition   *)
(* counts twice, and main prints no more than P*N and no less than 2,      *)
(* however large P and N are: a store of 1 may undo all but the last       *)
(* addition of another thread, which may load that 1 and store 2 last of   *)
(* all.  An addition that is not the first of its thread starts from 1 at  *)
(* least, and if N > 1 the last to be stored is such an addition           *)
(* (badCounter.c:8-13, 32-34, 51).                                         *)
BoundedLoss ==
  ~guarded =>
    /\ target <= Cardinality(Additions)
    /\ \A t \in Threads : loaded[t] <= Cardinality(Additions)
    /\ \A t \in Threads : Stored(t) >= 1 => target >= 1
    /\ \A t \in Threads : tpc[t] = "store" /\ i[t] >= 1 => loaded[t] >= 1
    /\ (\A t \in Threads : Stored(t) = N) => target >= LeastFinal
    /\ printed # -1 => printed \in LeastFinal .. P * N

(* main gets past its joins: nobody waits for the semaphore for ever       *)
(* (goodCounter.c:36-62).                                                  *)
Termination == <>(printed # -1)
=============================================================================

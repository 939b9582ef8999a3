--------------------------- MODULE ThreadArguments ---------------------------
(***************************************************************************)
(* hello-world/badHelloWorld.c, hello-world/goodHelloWorld.c and           *)
(* prefix-sum/multiArgumentThreads.c: main creates the threads in one loop *)
(* and joins them in another; each thread prints what it was passed.  The  *)
(* programs differ in what pthread_create is given:                        *)
(*   "bad"    the address of i, the loop variable of main;                 *)
(*   "good"   the value of i;                                              *)
(*   "packs"  the address of threadargs[i], filled in a loop of its own.   *)
(*                                                                         *)
(* In the bad program i is read while main changes it, a data race.  Every *)
(* store to i that a thread can see comes before a library call that might *)
(* read it through the address passed, and a long is stored in one piece,  *)
(* so a thread reads one of the values that i has in the model.            *)
(***************************************************************************)
EXTENDS ThreadSet, Sequences

VARIABLES
  program,      \* which of the three programs this is
  i,            \* the loop variable of main
  mpc,          \* the loop main is in; created: about to increment i
  threadargs,   \* the argument packs, filled in up to now
  arg,          \* which value, or which pack, each thread was passed
  tpc,          \* what each thread is doing
  values        \* what each thread has read of its arguments

vars == <<program, i, mpc, threadargs, arg, tpc, values>>

Pack(k) == <<k, k * 10, k * 100>>

(* malloc does not set the packs                                           *)
Unset == <<-1, -1, -1>>

TypeOK ==
  /\ program \in {"bad", "good", "packs"}
  /\ i \in 0 .. NTHREADS
  /\ mpc \in {"fill", "create", "created", "join", "done"}
  /\ threadargs \in [Threads -> {Unset} \cup {Pack(k) : k \in Threads}]
  /\ arg \in [Threads -> Threads]
  /\ tpc \in [Threads -> {"unborn", "read", "print", "exited"}]
  /\ values \in [Threads -> Seq(Int)]

Init ==
  /\ program \in {"bad", "good", "packs"}
  /\ i = 0
  /\ mpc = IF program = "packs" THEN "fill" ELSE "create"
  /\ threadargs = [t \in Threads |-> Unset]
  /\ arg = [t \in Threads |-> 0]
  /\ tpc = [t \in Threads |-> "unborn"]
  /\ values = [t \in Threads |-> << >>]

-----------------------------------------------------------------------------
(* main                                                                    *)
FillPack ==
  /\ mpc = "fill"
  /\ i < NTHREADS
  /\ threadargs' = [threadargs EXCEPT ![i] = Pack(i)]
  /\ i' = i + 1
  /\ UNCHANGED <<program, mpc, arg, tpc, values>>

CreateThread ==
  /\ mpc = "create"
  /\ i < NTHREADS
  /\ mpc' = "created"
  /\ arg' = [arg EXCEPT ![i] = i]
  /\ tpc' = [tpc EXCEPT ![i] = "read"]
  /\ UNCHANGED <<program, i, threadargs, values>>

(* The thread just created may run before i is incremented.                *)
NextThread ==
  /\ mpc = "created"
  /\ mpc' = "create"
  /\ i' = i + 1
  /\ UNCHANGED <<program, threadargs, arg, tpc, values>>

(* The loop that joins: on to the next thread                              *)
JoinNext ==
  /\ mpc = "join"
  /\ i < NTHREADS
  /\ i' = i + 1
  /\ UNCHANGED <<program, mpc, threadargs, arg, tpc, values>>

(* Mutant of JoinThread: it does not wait for the thread.                  *)
JoinThreadNever == JoinNext

(* pthread_join returns when thread i has ended.                           *)
JoinThread == JoinNext /\ tpc[i] = "exited"

EndLoopWith(first) ==
  /\ i = NTHREADS
  /\ \/ mpc = "fill" /\ mpc' = "create" /\ i' = first
     \/ mpc = "create" /\ mpc' = "join" /\ i' = first
     \/ mpc = "join" /\ mpc' = "done" /\ i' = i
  /\ UNCHANGED <<program, threadargs, arg, tpc, values>>

(* Mutant of EndLoop: the next loop goes on with i as it is.               *)
EndLoopNoReset == EndLoopWith(i)

(* The end of a loop, and i = 0 at the start of the next                   *)
EndLoop == EndLoopWith(0)

MainStep == FillPack \/ CreateThread \/ NextThread \/ JoinThread \/ EndLoop

-----------------------------------------------------------------------------
(* Mutant of Arguments: the good program reads i by its address too.       *)
ArgumentsByAddress(t) == IF program = "packs" THEN threadargs[arg[t]] ELSE <<i>>

(* What a thread finds where its argument leads it: *id, id, or *args      *)
Arguments(t) ==
  CASE program = "bad"   -> <<i>>
    [] program = "good"  -> <<arg[t]>>
    [] program = "packs" -> threadargs[arg[t]]

(* The thread function: its reads one by one, and the output               *)
ReadArgument(t) ==
  /\ tpc[t] = "read"
  /\ values' = [values EXCEPT ![t] = Append(@, Arguments(t)[Len(@) + 1])]
  /\ tpc' = [tpc EXCEPT ![t] = IF Len(values'[t]) = Len(Arguments(t)) THEN "print" ELSE "read"]
  /\ UNCHANGED <<program, i, mpc, threadargs, arg>>

SayHello(t) ==
  /\ tpc[t] = "print"
  /\ tpc' = [tpc EXCEPT ![t] = "exited"]
  /\ UNCHANGED <<program, i, mpc, threadargs, arg, values>>

ThreadStep(t) == ReadArgument(t) \/ SayHello(t)

Terminated == mpc = "done" /\ UNCHANGED vars

Next == MainStep \/ (\E t \in Threads : ThreadStep(t)) \/ Terminated

Safety == Init /\ [][Next]_vars

Spec == Safety /\ WF_vars(MainStep) /\ \A t \in Threads : WF_vars(ThreadStep(t))

-----------------------------------------------------------------------------
HasRead(t) == tpc[t] \in {"print", "exited"}

(* What thread t is meant to get                                           *)
Own(t) == IF program = "good" THEN <<t>> ELSE Pack(t)

(* The value that a thread of the hello-world programs prints              *)
Printed(t) == values[t][1]

(* "each thread always gets a distinct value of i" (goodHelloWorld.c:3-4): *)
(* whenever it reads, its own number; and with packs all three arguments   *)
(* that main meant for it (multiArgumentThreads.c:25-31, 46-56).           *)
OwnArguments ==
  program # "bad" =>
    \A t \in Threads :
      HasRead(t) => values[t] = Own(t)

(* By address a thread may get any number from 0 to NTHREADS.  A number    *)
(* below its own can only come from the loop that joins: then all threads  *)
(* have been created, and all below that number have ended, because main   *)
(* waits for them in order (badHelloWorld.c:2-8, 48-54).                   *)
LateReads ==
  program = "bad" =>
    \A t \in Threads :
      HasRead(t) /\ Printed(t) < t =>
        /\ \A u \in Threads : tpc[u] # "unborn"
        /\ \A u \in 0 .. Printed(t) - 1 : tpc[u] = "exited"

(* Which threads exist, by how far the loops of main have got              *)
Created(t) == mpc \in {"join", "done"} \/ (mpc # "fill" /\ t < i)
                \/ (mpc = "created" /\ t = i)

Filled(t) == mpc # "fill" \/ t < i

(* A pack is complete before any thread is created, a thread is passed its *)
(* own, and main joins in order: why the two properties above hold         *)
(* (multiArgumentThreads.c:46-61).                                         *)
LoopsInOrder ==
  /\ mpc = "fill" => program = "packs"
  /\ mpc = "created" => i < NTHREADS
  /\ mpc = "done" => i = NTHREADS
  /\ \A t \in Threads :
       /\ tpc[t] = "unborn" <=> ~Created(t)
       /\ Created(t) => arg[t] = t
       /\ program = "packs" /\ Filled(t) => threadargs[t] = Pack(t)
       /\ mpc \in {"join", "done"} /\ t < i => tpc[t] = "exited"

(* What a thread has read so far is the beginning of what it reads.        *)
ReadsInOrder ==
  \A t \in Threads :
    LET all == IF program = "packs" THEN 3 ELSE 1 IN
    /\ Len(values[t]) <= all
    /\ HasRead(t) <=> Len(values[t]) = all
    /\ program # "bad" =>
         \A k \in 1 .. Len(values[t]) : values[t][k] = Own(t)[k]

ArgumentsInv == TypeOK /\ LoopsInOrder /\ ReadsInOrder

(* main says goodbye in the end, and not before every thread has printed:  *)
(* what the addresses it passed point to outlives their use                *)
(* (badHelloWorld.c:52-56, goodHelloWorld.c:35-39,                         *)
(* multiArgumentThreads.c:58-63).                                          *)
GoodbyeAfterAll ==
  /\ [](mpc = "done" => \A t \in Threads : tpc[t] = "exited")
  /\ <>(mpc = "done")
=============================================================================

------------------------------ MODULE PrimeSieve ------------------------------
(***************************************************************************)
(* mpi/prime-sieve: generator.cpp sends the candidates 2, 3, .. below N to *)
(* the first siever process, siever.cpp keeps the first number it gets as  *)
(* its prime and passes on the later ones that its prime does not divide,  *)
(* to a successor that it spawns for the first of them.  -1 ends it all.   *)
(*                                                                         *)
(* pipe[k] holds the messages on their way to the k-th siever.  As in      *)
(* TaskFarm a process may return from MPI_Send at any time, and must once  *)
(* the message is received.  MPI_Finalize, which waits for all connected   *)
(* processes, is the end of a process.                                     *)
(***************************************************************************)
EXTENDS Integers, Sequences

CONSTANT N   \* the argument of the generator

ASSUME SieveAssumption == N \in Nat \ {0}

Sievers == 1 .. N

Stop == -1   \* the terminate signal

VARIABLES
  gpc,           \* where the generator is
  candidate,     \* its next candidate
  spc,           \* where each siever is
  prime,         \* local variables of the sievers
  tested,        \* (candidate in siever.cpp)
  first_output,
  pipe,          \* messages to each siever
  primes         \* the numbers called prime, in the order of printing

gvars == <<gpc, candidate>>

svars == <<spc, prime, tested, first_output>>

sievevars == <<gvars, svars, pipe, primes>>

Numbers == 0 .. N \cup {Stop}

(* test: has a candidate to look at; output: has to pass it on; send and   *)
(* sendStop: in MPI_Send                                                   *)
SieveTypeOK ==
  /\ gpc \in {"spawn", "loop", "send", "sendStop", "finalize"}
  /\ candidate \in 2 .. N \cup {2, Stop}
  /\ spc \in [Sievers -> {"unborn", "first", "recv", "test", "output", "send",
                          "sendStop", "finalize"}]
  /\ prime \in [Sievers -> Numbers]
  /\ tested \in [Sievers -> Numbers]
  /\ first_output \in [Sievers -> BOOLEAN]
  /\ pipe \in [Sievers -> Seq(2 .. N - 1 \cup {Stop})]
  /\ primes \in Seq(Numbers)

SieveInit ==
  /\ gpc = "spawn"
  /\ candidate = 2
  /\ spc = [k \in Sievers |-> "unborn"]
  /\ prime = [k \in Sievers |-> 0]
  /\ tested = [k \in Sievers |-> 0]
  /\ first_output = [k \in Sievers |-> TRUE]
  /\ pipe = [k \in Sievers |-> << >>]
  /\ primes = << >>

Put(k, number) == pipe' = [pipe EXCEPT ![k] = Append(@, number)]

Get(k) == pipe[k] # << >> /\ pipe' = [pipe EXCEPT ![k] = Tail(@)]

-----------------------------------------------------------------------------
(* generator.cpp                                                           *)
SpawnFirst ==
  /\ gpc = "spawn"
  /\ gpc' = "loop"
  /\ spc' = [spc EXCEPT ![1] = "first"]
  /\ UNCHANGED <<candidate, prime, tested, first_output, pipe, primes>>

SendCandidate ==
  /\ gpc = "loop"
  /\ candidate < N
  /\ gpc' = "send"
  /\ Put(1, candidate)
  /\ UNCHANGED <<candidate, svars, primes>>

SendStop ==
  /\ gpc = "loop"
  /\ candidate >= N
  /\ gpc' = "sendStop"
  /\ candidate' = Stop
  /\ Put(1, Stop)
  /\ UNCHANGED <<svars, primes>>

SentAndNext(step) ==
  /\ \/ gpc = "send" /\ gpc' = "loop" /\ candidate' = candidate + step
     \/ gpc = "sendStop" /\ gpc' = "finalize" /\ UNCHANGED candidate
  /\ UNCHANGED <<svars, pipe, primes>>

(* Mutant of GeneratorSent: every other candidate is left out.             *)
GeneratorSentSkips == SentAndNext(2)

GeneratorSent == SentAndNext(1)

GeneratorStep == SpawnFirst \/ SendCandidate \/ SendStop

GeneratorMatched == GeneratorSent /\ pipe[1] = << >>

-----------------------------------------------------------------------------
(* siever.cpp                                                              *)
ReceivePrime(k) ==
  /\ spc[k] = "first"
  /\ Get(k)
  /\ prime' = [prime EXCEPT ![k] = Head(pipe[k])]
  /\ primes' = Append(primes, Head(pipe[k]))
  /\ spc' = [spc EXCEPT ![k] = "recv"]
  /\ UNCHANGED <<gvars, tested, first_output>>

ReceiveCandidate(k) ==
  /\ spc[k] = "recv"
  /\ Get(k)
  /\ tested' = [tested EXCEPT ![k] = Head(pipe[k])]
  /\ spc' = [spc EXCEPT ![k] = "test"]
  /\ UNCHANGED <<gvars, prime, first_output, primes>>

(* Mutant of Divisible: only the prime itself is sifted out.               *)
IsItsPrime(k) == tested[k] = prime[k]

Divisible(k) == tested[k] % prime[k] = 0

Drop(k) ==
  /\ spc[k] = "test"
  /\ tested[k] # Stop
  /\ Divisible(k)
  /\ spc' = [spc EXCEPT ![k] = "recv"]
  /\ UNCHANGED <<gvars, prime, tested, first_output, pipe, primes>>

(* The candidate goes on, first of all to a successor spawned for it.      *)
KeepThen(k, there) ==
  /\ spc[k] = "test"
  /\ tested[k] # Stop
  /\ ~Divisible(k)
  /\ spc' = IF first_output[k]
            THEN [spc EXCEPT ![k] = there, ![k + 1] = "first"]
            ELSE [spc EXCEPT ![k] = "output"]
  /\ first_output' = [first_output EXCEPT ![k] = FALSE]
  /\ UNCHANGED <<gvars, prime, tested, pipe, primes>>

(* Mutant of Keep: the candidate that spawned the successor is not sent.   *)
KeepLosesFirst(k) == KeepThen(k, "recv")

Keep(k) == KeepThen(k, "output")

PassOn(k) ==
  /\ spc[k] = "output"
  /\ spc' = [spc EXCEPT ![k] = "send"]
  /\ Put(k + 1, tested[k])
  /\ UNCHANGED <<gvars, prime, tested, first_output, primes>>

(* The terminate signal has come.                                          *)
Stopping(k, there) ==
  /\ spc[k] = "test"
  /\ tested[k] = Stop
  /\ spc' = [spc EXCEPT ![k] = there]
  /\ UNCHANGED <<gvars, prime, tested, first_output, primes>>

(* Mutant of PassStop: the successor gets no signal.                       *)
PassStopSilent(k) == ~first_output[k] /\ Stopping(k, "finalize") /\ UNCHANGED pipe

PassStop(k) == ~first_output[k] /\ Stopping(k, "sendStop") /\ Put(k + 1, Stop)

LastSieverEnds(k) == first_output[k] /\ Stopping(k, "finalize") /\ UNCHANGED pipe

SieverSent(k) ==
  /\ \/ spc[k] = "send" /\ spc' = [spc EXCEPT ![k] = "recv"]
     \/ spc[k] = "sendStop" /\ spc' = [spc EXCEPT ![k] = "finalize"]
  /\ UNCHANGED <<gvars, prime, tested, first_output, pipe, primes>>

SieverStep(k) ==
  \/ ReceivePrime(k)
  \/ ReceiveCandidate(k)
  \/ Drop(k)
  \/ Keep(k)
  \/ PassOn(k)
  \/ PassStop(k)
  \/ LastSieverEnds(k)

SieverMatched(k) == SieverSent(k) /\ pipe[k + 1] = << >>

-----------------------------------------------------------------------------
SieveEnded ==
  /\ gpc = "finalize"
  /\ \A k \in Sievers : spc[k] \in {"unborn", "finalize"}

SieveTerminated == SieveEnded /\ UNCHANGED sievevars

SieveNext ==
  \/ GeneratorStep
  \/ GeneratorSent
  \/ \E k \in Sievers : SieverStep(k) \/ SieverSent(k)
  \/ SieveTerminated

SieveSafety == SieveInit /\ [][SieveNext]_sievevars

SieveFairness ==
  /\ WF_sievevars(GeneratorStep)
  /\ WF_sievevars(GeneratorMatched)
  /\ \A k \in Sievers : WF_sievevars(SieverStep(k)) /\ WF_sievevars(SieverMatched(k))

SieveSpec == SieveSafety /\ SieveFairness

-----------------------------------------------------------------------------
(* The pipeline prints the primes below N, each once and in ascending      *)
(* order, whatever the speed of its stages, and all of them in the end     *)
(* (generator.cpp:15-26, siever.cpp:15-43).                                *)
List == INSTANCE PrimeList WITH printed <- primes

ListsPrimes == List!Spec

(* The candidates at stage k, in the order in which it handles them        *)
Held(k) == IF spc[k] \in {"test", "output"} THEN <<tested[k]>> ELSE << >>

Queue(k) == Held(k) \o pipe[k]

Waiting(k) == {Queue(k)[a] : a \in DOMAIN Queue(k)}

(* The order in which numbers go through the pipeline: Stop comes last.    *)
Before(x, y) == x # Stop /\ (x < y \/ y = Stop)

Sorted(q) == \A a, b \in DOMAIN q : a < b => Before(q[a], q[b])

HasPrime(k) == spc[k] \notin {"unborn", "first"}

Ended(k) == spc[k] \in {"sendStop", "finalize"}

(* What the generator has not sent yet begins with this number.            *)
Upcoming == IF gpc \in {"spawn", "loop"} THEN candidate
            ELSE IF gpc = "send" THEN candidate + 1 ELSE N

(* Candidates never overtake one another and the stop signal is the last:  *)
(* what waits at a stage is ascending, goes before all that waits at the   *)
(* stages before it, is larger than all primes found and is divisible by   *)
(* the prime of no stage before it; when Stop is at a stage, the stages    *)
(* before it have ended (siever.cpp:24-48).                                *)
SortedAndSifted ==
  \A k \in Sievers :
    /\ Sorted(Queue(k))
    /\ \A x \in Waiting(k) \ {Stop} :
         /\ x \in 2 .. Upcoming - 1
         /\ \A j \in Sievers : HasPrime(j) => x > prime[j] /\ (j < k => x % prime[j] # 0)
    /\ \A j \in 1 .. k - 1 :
         /\ \A x \in Waiting(k), y \in Waiting(j) : Before(x, y)
         /\ Stop \in Waiting(k) => Ended(j)
    /\ Stop \in Waiting(k) => candidate = Stop

(* The generator, and the stages in use: every one but the last has a      *)
(* successor, a new one has a candidate coming, and one ends after all     *)
(* before it.                                                              *)
GeneratorInOrder ==
  /\ IF gpc \in {"sendStop", "finalize"} THEN candidate = Stop
     ELSE candidate \in 2 .. IF gpc = "send" THEN N - 1 ELSE N
  /\ gpc = "spawn" => candidate = 2

SieverInOrder(k) ==
  /\ spc[k] = "unborn" => pipe[k] = << >>
  /\ spc[k] = "unborn" <=> IF k = 1 THEN gpc = "spawn" ELSE first_output[k - 1]
  /\ ~HasPrime(k) => first_output[k] /\ \A j \in k + 1 .. N : spc[j] = "unborn"
  /\ spc[k] = "first" /\ pipe[k] = << >> =>
       IF k = 1 THEN gpc = "loop" /\ candidate = 2 ELSE spc[k - 1] = "output"
  /\ spc[k] = "first" /\ pipe[k] # << >> => Head(pipe[k]) # Stop
  /\ spc[k] = "output" => tested[k] # Stop /\ ~first_output[k] /\ ~Divisible(k)
  /\ Ended(k) => candidate = Stop /\ pipe[k] = << >> /\ \A j \in 1 .. k - 1 : Ended(j)

Stages == GeneratorInOrder /\ \A k \in Sievers : SieverInOrder(k)

(* Their primes are ascending, and are what has been printed.              *)
PrimesPrinted ==
  /\ DOMAIN primes = {k \in Sievers : HasPrime(k)}
  /\ \A k \in Sievers :
       IF HasPrime(k)
       THEN /\ primes[k] = prime[k]
            /\ prime[k] \in k + 1 .. Upcoming - 1
            /\ \A j \in 1 .. k - 1 : HasPrime(j) /\ prime[j] < prime[k]
       ELSE prime[k] = 0

PipelineInv == SieveTypeOK /\ SortedAndSifted /\ Stages /\ PrimesPrinted

(* Every candidate sent is accounted for: it is some siever's prime, waits *)
(* at a stage, or is divisible by the prime of a siever                    *)
(* (generator.cpp:15-21, siever.cpp:26-37).                                *)
NoCandidateLost ==
  \A n \in 2 .. Upcoming - 1 :
    \E k \in Sievers : (HasPrime(k) /\ n % prime[k] = 0) \/ n \in Waiting(k)

(* All processes end, whether or not the library buffers sends, when N > 2 *)
(* (generator.cpp:24-27, siever.cpp:44-50).                                *)
SieveTermination == <>SieveEnded

(* "Siever: .. is a prime number." is printed of primes only               *)
(* (siever.cpp:17).                                                        *)
OnlyPrimesPrinted == \A k \in DOMAIN primes : List!IsPrime(primes[k])
=============================================================================

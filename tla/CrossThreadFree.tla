--------------------------- MODULE CrossThreadFree ---------------------------
(***************************************************************************)
(* Producers and consumers over the std allocator, as                      *)
(* bench/cross_thread_free_benchmark.cpp runs them: each producer          *)
(* allocates batches of nodes from its own thread's pool and hands them    *)
(* over in a one-slot channel, its consumer frees them, which parks each   *)
(* node on the remote stack of the producer's pool.  The threads of a      *)
(* round are started together behind two barriers and joined; a sweep goes *)
(* through rounds with more and more pairs.                                *)
(*                                                                         *)
(* Nodes are counted, not named: NodePool says what becomes of each, and   *)
(* StdAllocator that a consumer, having no state of its own, parks what it *)
(* frees.  Every round has new threads and so new pools; the old ones stay *)
(* as their round left them.                                               *)
(***************************************************************************)
EXTENDS Integers, Sequences, FiniteSets

CONSTANTS MaxPairs,    \* max_pairs
          Rounds,      \* warm-up and repeated runs at each point of the sweep
          Batches,     \* batches_per_pair
          BatchSize,   \* nodes of a batch
          FirstChunk,  \* nodes of a pool's first chunk
          SizeMax      \* numeric_limits<size_t>::max()

ASSUME SweepAssumption == /\ MaxPairs \in Nat \ {0} /\ Rounds \in Nat \ {0}
                          /\ MaxPairs <= SizeMax
                          /\ \A e \in 0 .. MaxPairs : 2 ^ e \in Nat \ {0}
ASSUME BatchAssumption == /\ Batches \in Nat \ {0} /\ BatchSize \in Nat \ {0}
                          /\ FirstChunk \in Nat \ {0}

VARIABLES
  point,    \* the sweep's position in the pair counts
  round,    \* the run at this point
  main,     \* where the main thread is
  joined,   \* threads started or, later, joined
  ready,    \* who has arrived at the first barrier
  start,    \* who has arrived at the second
  pc,       \* where each worker is
  batch,    \* batches each worker has finished
  nodes,    \* nodes in each worker's hands
  channel,  \* nodes in each pair's slot
  pool      \* the pool of each pair's producer

vars == <<point, round, main, joined, ready, start, pc, batch, nodes, channel, pool>>

-----------------------------------------------------------------------------
(* build_pair_counts: powers of two below the maximum, then the maximum;   *)
(* the doubling stops before it could overflow.                            *)
Doublings == {e \in 0 .. MaxPairs : /\ 2 ^ e < MaxPairs
                                    /\ e = 0 \/ 2 ^ (e - 1) <= SizeMax \div 2}

PairCounts == Append([i \in 1 .. Cardinality(Doublings) |-> 2 ^ (i - 1)], MaxPairs)

Pairs == PairCounts[point]
Workers == 0 .. 2 * Pairs - 1
Main == -1
Everyone == Workers \cup {Main}
Pair(t) == t \div 2
Produces(t) == t % 2 = 0
Producer(p) == 2 * p
Consumer(p) == 2 * p + 1

NewPool == [free |-> 0, parked |-> 0, capacity |-> 0, growth |-> FirstChunk]

(* What a round starts from.                                               *)
RoundStart(k) ==
  [pc |-> [t \in 0 .. 2 * k - 1 |-> "unborn"], zero |-> [t \in 0 .. 2 * k - 1 |-> 0],
   slots |-> [p \in 0 .. k - 1 |-> 0], pools |-> [p \in 0 .. k - 1 |-> NewPool]]

Init ==
  LET r == RoundStart(PairCounts[1])
  IN  /\ point = 1 /\ round = 1
      /\ main = "spawn" /\ joined = 0
      /\ ready = {} /\ start = {}
      /\ pc = r.pc /\ batch = r.zero /\ nodes = r.zero
      /\ channel = r.slots /\ pool = r.pools

sweepVars == <<point, round>>
workVars == <<batch, nodes, channel, pool>>

-----------------------------------------------------------------------------
(* run_concurrent_thread_timed_ns                                          *)

Spawn ==
  /\ main = "spawn" /\ joined < Cardinality(Workers)
  /\ pc' = [pc EXCEPT ![joined] = "spawned"]
  /\ joined' = joined + 1
  /\ UNCHANGED <<sweepVars, main, ready, start, workVars>>

MainReady ==
  /\ main = "spawn" /\ joined = Cardinality(Workers)
  /\ main' = "ready" /\ ready' = ready \cup {Main}
  /\ UNCHANGED <<sweepVars, joined, start, pc, workVars>>

MainStart ==
  /\ main = "ready" /\ ready = Everyone
  /\ main' = "join" /\ start' = start \cup {Main}
  /\ joined' = 0
  /\ UNCHANGED <<sweepVars, ready, pc, workVars>>

ArriveReady(t) ==
  /\ pc[t] = "spawned"
  /\ pc' = [pc EXCEPT ![t] = "ready"] /\ ready' = ready \cup {t}
  /\ UNCHANGED <<sweepVars, main, joined, start, workVars>>

ArriveStart(t) ==
  /\ pc[t] = "ready" /\ ready = Everyone
  /\ pc' = [pc EXCEPT ![t] = "start"] /\ start' = start \cup {t}
  /\ UNCHANGED <<sweepVars, main, joined, ready, workVars>>

BeginWork(t) ==
  /\ pc[t] = "start" /\ start = Everyone
  /\ pc' = [pc EXCEPT ![t] = IF Produces(t) THEN "allocate" ELSE "take"]
  /\ UNCHANGED <<sweepVars, main, joined, ready, start, workVars>>

Join ==
  /\ main = "join" /\ start = Everyone
  /\ joined < Cardinality(Workers) /\ pc[joined] = "exited"
  /\ joined' = joined + 1
  /\ UNCHANGED <<sweepVars, main, ready, start, pc, workVars>>

(* The next run, or the next point of the sweep, or the end.               *)
NextRound ==
  /\ main = "join" /\ joined = Cardinality(Workers)
  /\ IF round = Rounds /\ point = Len(PairCounts)
       THEN /\ main' = "done"
            /\ UNCHANGED <<sweepVars, joined, ready, start, pc, workVars>>
       ELSE LET more == IF round = Rounds THEN point + 1 ELSE point
                r == RoundStart(PairCounts[more])
            IN  /\ point' = more
                /\ round' = IF round = Rounds THEN 1 ELSE round + 1
                /\ main' = "spawn" /\ joined' = 0
                /\ ready' = {} /\ start' = {}
                /\ pc' = r.pc /\ batch' = r.zero /\ nodes' = r.zero
                /\ channel' = r.slots /\ pool' = r.pools

harnessVars == <<point, round, main, joined, ready, start>>

-----------------------------------------------------------------------------
(* producer_pass                                                           *)

(* Mutant: the pool grows without looking at its remote stack.             *)
ServeWithoutDrain(k) ==
  IF k.free > 0 THEN [k EXCEPT !.free = @ - 1]
  ELSE IF k.capacity = 0 THEN [k EXCEPT !.capacity = FirstChunk, !.free = FirstChunk - 1]
  ELSE [k EXCEPT !.growth = 2 * @, !.capacity = @ + 2 * k.growth,
                 !.free = 2 * k.growth - 1]

(* One allocation, as NodePool has it: free list, remote stack, first      *)
(* chunk, growth.                                                          *)
Serve(k) ==
  IF k.free > 0 THEN [k EXCEPT !.free = @ - 1]
  ELSE IF k.parked > 0 THEN [k EXCEPT !.free = k.parked - 1, !.parked = 0]
  ELSE IF k.capacity = 0 THEN [k EXCEPT !.capacity = FirstChunk, !.free = FirstChunk - 1]
  ELSE [k EXCEPT !.growth = 2 * @, !.capacity = @ + 2 * k.growth,
                 !.free = 2 * k.growth - 1]

AllocateOne(t) ==
  /\ pc[t] = "allocate" /\ nodes[t] < BatchSize
  /\ pool' = [pool EXCEPT ![Pair(t)] = Serve(@)]
  /\ nodes' = [nodes EXCEPT ![t] = @ + 1]
  /\ UNCHANGED <<harnessVars, pc, batch, channel>>

(* The slot is looked at under its mutex; the loop yields while it is full.*)
Publish(t) ==
  /\ pc[t] = "allocate" /\ nodes[t] = BatchSize
  /\ channel[Pair(t)] = 0
  /\ channel' = [channel EXCEPT ![Pair(t)] = nodes[t]]
  /\ nodes' = [nodes EXCEPT ![t] = 0]
  /\ batch' = [batch EXCEPT ![t] = @ + 1]
  /\ pc' = [pc EXCEPT ![t] = IF batch[t] + 1 = Batches THEN "exited" ELSE @]
  /\ UNCHANGED <<harnessVars, pool>>

(* consumer_pass                                                           *)

Take(t) ==
  /\ pc[t] = "take" /\ channel[Pair(t)] > 0
  /\ nodes' = [nodes EXCEPT ![t] = channel[Pair(t)]]
  /\ channel' = [channel EXCEPT ![Pair(t)] = 0]
  /\ pc' = [pc EXCEPT ![t] = "free"]
  /\ UNCHANGED <<harnessVars, batch, pool>>

FreeOne(t) ==
  /\ pc[t] = "free" /\ nodes[t] > 0
  /\ pool' = [pool EXCEPT ![Pair(t)].parked = @ + 1]
  /\ nodes' = [nodes EXCEPT ![t] = @ - 1]
  /\ UNCHANGED <<harnessVars, pc, batch, channel>>

(* Mutant: the consumer waits for one batch too many.                      *)
FinishBatchLate(t) ==
  /\ pc[t] = "free" /\ nodes[t] = 0
  /\ batch' = [batch EXCEPT ![t] = @ + 1]
  /\ pc' = [pc EXCEPT ![t] = IF batch[t] = Batches THEN "exited" ELSE "take"]
  /\ UNCHANGED <<harnessVars, nodes, channel, pool>>

(* Mutant: it leaves the last batch in the slot.                           *)
FinishBatchEarly(t) ==
  /\ pc[t] = "free" /\ nodes[t] = 0
  /\ batch' = [batch EXCEPT ![t] = @ + 1]
  /\ pc' = [pc EXCEPT ![t] = IF batch[t] + 2 = Batches THEN "exited" ELSE "take"]
  /\ UNCHANGED <<harnessVars, nodes, channel, pool>>

FinishBatch(t) ==
  /\ pc[t] = "free" /\ nodes[t] = 0
  /\ batch' = [batch EXCEPT ![t] = @ + 1]
  /\ pc' = [pc EXCEPT ![t] = IF batch[t] + 1 = Batches THEN "exited" ELSE "take"]
  /\ UNCHANGED <<harnessVars, nodes, channel, pool>>

-----------------------------------------------------------------------------
Worker(t) ==
  \/ ArriveReady(t) \/ ArriveStart(t) \/ BeginWork(t)
  \/ Produces(t) /\ (AllocateOne(t) \/ Publish(t))
  \/ ~Produces(t) /\ (Take(t) \/ FreeOne(t) \/ FinishBatch(t))

MainStep == Spawn \/ MainReady \/ MainStart \/ Join \/ NextRound

Next == MainStep \/ \E t \in Workers : Worker(t)

Spec == Init /\ [][Next]_vars

(* Threads keep running; a thread that polls the slot while it yields gets *)
(* the mutex in the end.                                                   *)
FairSpec ==
  /\ Spec
  /\ WF_vars(MainStep)
  /\ \A t \in 0 .. 2 * MaxPairs - 1 : WF_vars(t \in Workers /\ Worker(t))

-----------------------------------------------------------------------------
(* Properties.                                                             *)

InFlight(p) == nodes[Producer(p)] + channel[p] + nodes[Consumer(p)]

(* However long the producer runs and however late its nodes come back, a  *)
(* pool asks for another chunk only when every node it has is in flight,   *)
(* and never with three batches of nodes or more: the memory of a          *)
(* producer is bounded by what is in flight, not by what was allocated.    *)
FootprintBounded ==
  [][\A p \in DOMAIN pool \cap DOMAIN pool' :
       pool[p].capacity > 0 /\ pool'[p].capacity > pool[p].capacity =>
         /\ pool[p].capacity = InFlight(p)
         /\ pool[p].capacity < 3 * BatchSize]_vars

(* When all threads of a round are joined, every batch has been handed     *)
(* over and freed: every node of every pool is back, free or on its remote *)
(* stack.                                                                  *)
EveryNodeBack ==
  main = "join" /\ joined = Cardinality(Workers) =>
    \A p \in DOMAIN pool : pool[p].free + pool[p].parked = pool[p].capacity

(* The sweep ends: barriers open, no thread waits for ever for a batch or  *)
(* for an empty slot, and all threads are joined.                          *)
SweepEnds == <>(main = "done")
=============================================================================

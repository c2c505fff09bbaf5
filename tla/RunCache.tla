------------------------------ MODULE RunCache ------------------------------
(***************************************************************************)
(* The thread-local run cache of the suballocated std allocator, which a   *)
(* byte-sized value type puts between allocate / deallocate and the runner *)
(* of its thread (lib/allocazam.hpp).                                      *)
(*                                                                         *)
(* Each thread has size classes of cached runs.  A freed run goes to the   *)
(* freeing thread's cache with its owner stamped on it, whoever the owner  *)
(* is; only runs of the thread's own runner are handed out again, the      *)
(* others ride along until a drain or the end of the thread returns them.  *)
(*                                                                         *)
(* A runner is a supply of Slots, each of which can hold one run of any    *)
(* size up to MaxBytes: used[s] is its own record of the runs it has given *)
(* out, parked[s] its remote stack.  Its inner structure is in Runner.     *)
(* A run is named by its runner and its slot.  The runner of a thread is   *)
(* created when the thread first allocates (see StdAllocator).             *)
(***************************************************************************)
EXTENDS Integers, FiniteSets, Sequences, SequencesExt

CONSTANTS Threads,
          Slots,        \* runs that the memory of one runner can hold
          Modes,        \* memory modes considered (heap-backed)
          Requests,     \* byte counts asked for, above 1
          Quantum,      \* tls_run_quantum
          Cutoff,       \* tls_run_cutoff
          RefillBatch,  \* tls_refill_batch
          High,         \* tls_high_watermark
          Low,          \* tls_drain_low_watermark
          MaxBytes,     \* payload of a slot
          Null

ASSUME ClassesAssumption ==
  /\ Quantum \in Nat \ {0}
  /\ Cutoff \in Nat /\ Cutoff % Quantum = 0 /\ Cutoff <= MaxBytes
  /\ MaxBytes \in Nat /\ MaxBytes % Quantum = 0 /\ Requests \subseteq 2 .. MaxBytes
ASSUME MarksAssumption == /\ RefillBatch \in Nat \ {0, 1}
                          /\ Low \in Nat /\ High \in Nat /\ Low < High
ASSUME ModesAssumption == Modes \subseteq {"fixed", "dynamic"}

Run == [owner : Threads, slot : Slots]
Classes == 0 .. Cutoff \div Quantum - 1

ASSUME NullAssumption == Null \notin Threads /\ Null \notin Run

VARIABLES
  mode,     \* template parameter Mode
  phase,    \* of a thread: running, its cache destroyed, ended
  hasState, \* whether _tls_state is set
  used,     \* the runs each runner has handed out, with their payload bytes
  parked,   \* the remote stack of each runner
  cache,    \* the runs in each class of each thread, head first
  stamp,    \* tls_run_node::owner, written when a run is cached
  held,     \* the runs each thread's program has, with the bytes it knows of
  call,     \* where each thread is inside allocate
  lost,     \* history: runs that a throwing refill dropped
  late      \* history: runs cached after their thread's cache was destroyed

vars == <<mode, phase, hasState, used, parked, cache, stamp, held,
          call, lost, late>>

Idle == [pc |-> "idle", bytes |-> 0, raw |-> Null, left |-> 0]
Retrying(bytes) == [pc |-> "retry", bytes |-> bytes, raw |-> Null, left |-> 0]

-----------------------------------------------------------------------------
(* Size classes.                                                           *)

(* Mutant: sizes are rounded down.                                         *)
ClassIndexDown(bytes) == IF bytes < Quantum THEN 0 ELSE bytes \div Quantum - 1

ClassIndexFor(bytes) == (bytes + Quantum - 1) \div Quantum - 1
ClassBytes(idx) == (idx + 1) * Quantum
Cacheable(bytes) == bytes <= Cutoff

-----------------------------------------------------------------------------
(* The runner, as Runner shows it: allocate_bytes takes over the remote    *)
(* stack when nothing fits and then fails or succeeds.                     *)

SlotsOf(s) == [owner : {s}, slot : Slots]
Drains(s) == DOMAIN used[s] = SlotsOf(s)
With(f, r, value) == [x \in DOMAIN f \cup {r} |-> IF x = r THEN value ELSE f[x]]
Without(f, runs) == [r \in DOMAIN f \ runs |-> f[r]]
UsedAfterDrain(s) == IF Drains(s) THEN Without(used[s], parked[s]) ELSE used[s]
CanServe(s) == DOMAIN UsedAfterDrain(s) # SlotsOf(s)

(* Run sizes are multiples of run_alignment, which is the cache's quantum. *)
PayloadFor(bytes) == ((bytes + Quantum - 1) \div Quantum) * Quantum

RunnerAllocate(s, r, bytes) ==
  LET before == UsedAfterDrain(s)
  IN  /\ r \in SlotsOf(s) \ DOMAIN before
      /\ used' = [used EXCEPT ![s] = With(before, r, PayloadFor(bytes))]
      /\ parked' = IF Drains(s) THEN [parked EXCEPT ![s] = {}] ELSE parked

RunnerFails(s) ==
  /\ ~CanServe(s)
  /\ UNCHANGED <<used, parked>>

(* What thread t does with cached runs that leave its cache: a run of its  *)
(* own runner is deallocated, any other is pushed to its owner's stack.    *)
Mine(t, r) == hasState[t] /\ stamp[r] = t

(* Mutant: every run is deallocated at its owner directly.                 *)
ReturnDirectly(t, runs) ==
  /\ used' = [s \in Threads |-> Without(used[s], {r \in runs : stamp[r] = s})]
  /\ UNCHANGED parked

Return(t, runs) ==
  LET own == {r \in runs : Mine(t, r)}
  IN  /\ used' = [used EXCEPT ![t] = Without(@, own)]
      /\ parked' = [s \in Threads |-> parked[s] \cup
                       {r \in runs \ own : stamp[r] = s}]

-----------------------------------------------------------------------------
TypeOK ==
  /\ mode \in Modes
  /\ phase \in [Threads -> {"running", "flushed", "ended"}]
  /\ hasState \in [Threads -> BOOLEAN]
  /\ \A s \in Threads : /\ DOMAIN used[s] \subseteq SlotsOf(s)
                        /\ \A r \in DOMAIN used[s] : used[s][r] \in 0 .. MaxBytes
  /\ parked \in [Threads -> SUBSET Run]
  /\ stamp \in [Run -> Threads \cup {Null}]
  /\ \A t \in Threads : /\ DOMAIN cache[t] = Classes
                        /\ \A c \in Classes : ToSet(cache[t][c]) \subseteq Run
                        /\ DOMAIN held[t] \subseteq Run
  /\ call \in [Threads -> [pc : {"idle", "retry", "last", "refill"},
                           bytes : 0 .. MaxBytes, raw : Run \cup {Null},
                           left : 0 .. RefillBatch]]
  /\ lost \subseteq Run /\ late \subseteq Run

Init ==
  /\ mode \in Modes
  /\ phase = [t \in Threads |-> "running"]
  /\ hasState = [t \in Threads |-> FALSE]
  /\ used = [t \in Threads |-> <<>>]
  /\ parked = [t \in Threads |-> {}]
  /\ cache = [t \in Threads |-> [c \in Classes |-> <<>>]]
  /\ stamp = [r \in Run |-> Null]
  /\ held = [t \in Threads |-> <<>>]
  /\ call = [t \in Threads |-> Idle]
  /\ lost = {} /\ late = {}

Hold(t, r, bytes) == held' = [held EXCEPT ![t] = With(@, r, bytes)]
Drop(t, r) == held' = [held EXCEPT ![t] = Without(@, {r})]

RunsIn(t, classes) == UNION {ToSet(cache[t][c]) : c \in classes}
Cached(t) == RunsIn(t, Classes)

(* The classes of the cache of t are emptied, and their runs returned.     *)
TakeOut(t, classes) ==
  LET runs == RunsIn(t, classes)
  IN  /\ Return(t, runs)
      /\ cache' = [cache EXCEPT ![t] = [c \in Classes |->
                      IF c \in classes THEN <<>> ELSE cache[t][c]]]
      /\ stamp' = [r \in Run |-> IF r \in runs THEN Null ELSE stamp[r]]
      /\ late' = late \ runs

-----------------------------------------------------------------------------
(* allocate(bytes).                                                        *)

(* Mutant: any cached run is handed out.                                   *)
ReusableAny(t, idx) == 1 .. Len(cache[t][idx])

(* _tls_pop_for_owner takes the first run that the thread's runner owns.   *)
Reusable(t, idx) == {i \in 1 .. Len(cache[t][idx]) : stamp[cache[t][idx][i]] = t}

AllocateHit(t, bytes) ==
  LET idx == ClassIndexFor(bytes)
  IN  /\ call[t].pc = "idle" /\ phase[t] # "ended"
      /\ Cacheable(bytes)
      /\ \E i \in Reusable(t, idx) :
            LET r == cache[t][idx][i]
            IN  /\ \A j \in Reusable(t, idx) : i <= j
                /\ cache' = [cache EXCEPT ![t][idx] = RemoveAt(@, i)]
                /\ stamp' = [stamp EXCEPT ![r] = Null]
                /\ late' = late \ {r}
                /\ Hold(t, r, bytes)
      /\ UNCHANGED <<mode, phase, hasState, used, parked, call, lost>>

(* Nothing to reuse: the state is created if need be, and the runner is    *)
(* asked for the whole class; the dynamic mode then refills the class.     *)
Misses(t, bytes) ==
  /\ call[t].pc = "idle" /\ phase[t] # "ended"
  /\ Cacheable(bytes) => Reusable(t, ClassIndexFor(bytes)) = {}

Obtain(t, bytes) ==
  /\ \E r \in Run :
        /\ RunnerAllocate(t, r, ClassBytes(ClassIndexFor(bytes)))
        /\ IF mode = "dynamic"
             THEN /\ call' = [call EXCEPT ![t] = [pc |-> "refill", bytes |-> bytes,
                                                  raw |-> r, left |-> RefillBatch - 1]]
                  /\ UNCHANGED held
             ELSE /\ call' = [call EXCEPT ![t] = Idle]
                  /\ Hold(t, r, bytes)
  /\ hasState' = [hasState EXCEPT ![t] = TRUE]
  /\ UNCHANGED <<mode, phase, cache, stamp, lost, late>>

AllocateMiss(t, bytes) == Misses(t, bytes) /\ Cacheable(bytes) /\ Obtain(t, bytes)

(* _tls_push                                                               *)
Push(t, idx, r, owner) ==
  /\ cache' = [cache EXCEPT ![t][idx] = <<r>> \o @]
  /\ stamp' = [stamp EXCEPT ![r] = owner]

Refill(t) ==
  /\ call[t].pc = "refill"
  /\ \E r \in Run :
        LET idx == ClassIndexFor(call[t].bytes)
        IN  /\ RunnerAllocate(t, r, ClassBytes(idx))
            /\ Push(t, idx, r, t)
            /\ late' = IF phase[t] = "running" THEN late ELSE late \cup {r}
  /\ IF call[t].left > 1
       THEN /\ call' = [call EXCEPT ![t].left = @ - 1]
            /\ UNCHANGED held
       ELSE /\ call' = [call EXCEPT ![t] = Idle]
            /\ Hold(t, call[t].raw, call[t].bytes)
  /\ UNCHANGED <<mode, phase, hasState, lost>>

(* Growth is refused during the refill: bad_alloc leaves allocate with the *)
(* run it had already obtained.                                            *)
RefillThrows(t) ==
  /\ call[t].pc = "refill"
  /\ RunnerFails(t)
  /\ lost' = lost \cup {call[t].raw}
  /\ call' = [call EXCEPT ![t] = Idle]
  /\ UNCHANGED <<mode, phase, hasState, cache, stamp, held, late>>

(* Mutant: only the class of the request is drained.                       *)
DrainOneClass(t, bytes) ==
  LET idx == ClassIndexFor(bytes)
  IN  /\ Misses(t, bytes) /\ Cacheable(bytes)
      /\ mode = "fixed" /\ ~CanServe(t)
      /\ TakeOut(t, {idx})
      /\ call' = [call EXCEPT ![t] = Retrying(bytes)]
      /\ UNCHANGED <<mode, phase, hasState, held, lost>>

(* A runner that may not grow returns nullptr: the whole cache is drained  *)
(* (_tls_drain_all) and the runner asked again.  A runner that may grow    *)
(* throws instead (AllocateFails).                                         *)
DrainAll(t, bytes) ==
  /\ Misses(t, bytes) /\ Cacheable(bytes)
  /\ mode = "fixed" /\ ~CanServe(t)
  /\ TakeOut(t, Classes)
  /\ call' = [call EXCEPT ![t] = Retrying(bytes)]
  /\ UNCHANGED <<mode, phase, hasState, held, lost>>

Retry(t) == call[t].pc = "retry" /\ Obtain(t, call[t].bytes)

RetryFails(t) ==
  /\ call[t].pc = "retry"
  /\ RunnerFails(t)
  /\ call' = [call EXCEPT ![t].pc = "last"]
  /\ UNCHANGED <<mode, phase, hasState, cache, stamp, held, lost, late>>

(* The request itself, past the cache: the last attempt, and large sizes.  *)
ServeDirect(t, bytes) ==
  /\ \/ call[t].pc = "last" /\ call[t].bytes = bytes
     \/ Misses(t, bytes) /\ ~Cacheable(bytes)
  /\ \E r \in Run : /\ RunnerAllocate(t, r, bytes)
                    /\ Hold(t, r, bytes)
  /\ hasState' = [hasState EXCEPT ![t] = TRUE]
  /\ call' = [call EXCEPT ![t] = Idle]
  /\ UNCHANGED <<mode, phase, cache, stamp, lost, late>>

(* A request is refused by a runner with nothing to give: a cacheable one  *)
(* after the last attempt, or at the first by a runner that may grow, and  *)
(* one above the cutoff at once, for it passes the cache by altogether and *)
(* nothing is drained from the cache for it.                               *)
Refused(t, bytes) ==
  /\ ~CanServe(t)
  /\ \/ call[t].pc = "last" /\ call[t].bytes = bytes
     \/ Misses(t, bytes) /\ (Cacheable(bytes) => mode = "dynamic")

(* bad_alloc: the call is over and has left everything as it was.          *)
AllocateFails(t, bytes) ==
  /\ Refused(t, bytes)
  /\ call' = [call EXCEPT ![t] = Idle]
  /\ UNCHANGED <<mode, phase, hasState, used, parked, cache, stamp, held, lost,
                 late>>

-----------------------------------------------------------------------------
(* deallocate(p, bytes).                                                   *)

(* _tls_drain_class pops from the head until keep runs are left.           *)
Kept(seq, keep) == SubSeq(seq, Len(seq) - keep + 1, Len(seq))
Drained(seq, keep) == ToSet(SubSeq(seq, 1, Len(seq) - keep))

(* Mutant: the watermark is not looked at.                                 *)
NeverDrains(t, idx) == FALSE

AtHighWatermark(t, idx) == Len(cache[t][idx]) >= High

(* The run is cached by the freeing thread, stamped with the owner word of *)
(* its header.                                                             *)
Deallocate(t, r) ==
  LET idx == ClassIndexFor(held[t][r])
      out == IF AtHighWatermark(t, idx) THEN Drained(cache[t][idx], Low) ELSE {}
      rest == IF AtHighWatermark(t, idx) THEN Kept(cache[t][idx], Low)
              ELSE cache[t][idx]
  IN  /\ call[t].pc = "idle" /\ phase[t] # "ended"
      /\ r \in DOMAIN held[t] /\ Cacheable(held[t][r])
      /\ Return(t, out)
      /\ cache' = [cache EXCEPT ![t][idx] = <<r>> \o rest]
      /\ stamp' = [x \in Run |-> IF x = r THEN r.owner
                                 ELSE IF x \in out THEN Null ELSE stamp[x]]
      /\ late' = (late \ out) \cup (IF phase[t] = "running" THEN {} ELSE {r})
      /\ Drop(t, r)
      /\ UNCHANGED <<mode, phase, hasState, call, lost>>

(* _free_run_routed, for sizes above the cutoff.                           *)
DeallocateLarge(t, r) ==
  /\ call[t].pc = "idle" /\ phase[t] # "ended"
  /\ r \in DOMAIN held[t] /\ ~Cacheable(held[t][r])
  /\ IF hasState[t] /\ r.owner = t
       THEN /\ used' = [used EXCEPT ![t] = Without(@, {r})]
            /\ UNCHANGED parked
       ELSE /\ parked' = [parked EXCEPT ![r.owner] = @ \cup {r}]
            /\ UNCHANGED used
  /\ Drop(t, r)
  /\ UNCHANGED <<mode, phase, hasState, cache, stamp, call, lost, late>>

(* expand of a run of the thread's own runner; the program then knows of   *)
(* the larger size, and frees the run under that size.                     *)
Expand(t, r, bytes) ==
  /\ call[t].pc = "idle" /\ phase[t] # "ended"
  /\ r \in DOMAIN held[t] /\ hasState[t] /\ r.owner = t
  /\ bytes > held[t][r]
  /\ used' = [used EXCEPT ![t][r] = IF bytes > @ THEN PayloadFor(bytes) ELSE @]
  /\ Hold(t, r, bytes)
  /\ UNCHANGED <<mode, phase, hasState, parked, cache, stamp, call, lost, late>>

-----------------------------------------------------------------------------
(* The end of a thread.                                                    *)

(* Mutant: only the first class is flushed.                                *)
FlushFirstClass(t) ==
  /\ phase[t] = "running" /\ call[t].pc = "idle"
  /\ TakeOut(t, {0})
  /\ phase' = [phase EXCEPT ![t] = "flushed"]
  /\ UNCHANGED <<mode, hasState, held, call, lost>>

(* ~tls_run_cache.                                                         *)
Flush(t) ==
  /\ phase[t] = "running" /\ call[t].pc = "idle"
  /\ TakeOut(t, Classes)
  /\ phase' = [phase EXCEPT ![t] = "flushed"]
  /\ UNCHANGED <<mode, hasState, held, call, lost>>

(* Destructors of other thread-local objects may run after the cache's and *)
(* still allocate and free; then the thread ends.                          *)
End(t) ==
  /\ phase[t] = "flushed" /\ call[t].pc = "idle"
  /\ DOMAIN held[t] = {}
  /\ phase' = [phase EXCEPT ![t] = "ended"]
  /\ UNCHANGED <<mode, hasState, used, parked, cache, stamp, held, call,
                 lost, late>>

(* The program passes a run to another thread.                             *)
Handoff(t, u, r) ==
  /\ u # t /\ phase[u] # "ended"
  /\ call[t].pc = "idle"
  /\ r \in DOMAIN held[t]
  /\ held' = [held EXCEPT ![t] = Without(@, {r}), ![u] = With(@, r, held[t][r])]
  /\ UNCHANGED <<mode, phase, hasState, used, parked, cache, stamp, call,
                 lost, late>>

-----------------------------------------------------------------------------
Step(t) ==
  \/ \E bytes \in Requests :
        \/ AllocateHit(t, bytes) \/ AllocateMiss(t, bytes)
        \/ DrainAll(t, bytes) \/ ServeDirect(t, bytes)
        \/ AllocateFails(t, bytes)
  \/ Refill(t) \/ RefillThrows(t) \/ Retry(t) \/ RetryFails(t)
  \/ \E r \in DOMAIN held[t] :
        \/ Deallocate(t, r) \/ DeallocateLarge(t, r)
        \/ \E bytes \in Requests : Expand(t, r, bytes)
        \/ \E u \in Threads : Handoff(t, u, r)
  \/ Flush(t) \/ End(t)

Next == \E t \in Threads : Step(t)

Spec == Init /\ [][Next]_vars

-----------------------------------------------------------------------------
(* Properties.                                                             *)

InHand(t) == DOMAIN held[t] \cup ({call[t].raw} \ {Null})

(* No run is in two hands and none falls between them.  What a runner has  *)
(* given out is in exactly one of: a program's hands or a call's, a        *)
(* thread's cache, its owner's remote stack.  The only runs nobody can     *)
(* reach are those a throwing refill dropped and those freed into a cache  *)
(* after ~tls_run_cache, on a thread that has ended.                       *)
NoRunLost ==
  /\ TypeOK
  /\ \A s \in Threads : \A r \in DOMAIN used[s] :
        LET hands == {t \in Threads : r \in InHand(t)}
            caches == {tc \in Threads \X Classes : r \in ToSet(cache[tc[1]][tc[2]])}
            stacks == {t \in Threads : r \in parked[t]}
            gone == IF r \in lost THEN 1 ELSE 0
        IN  /\ Cardinality(hands) + Cardinality(caches) + Cardinality(stacks)
                 + gone = 1
            /\ \A tc \in caches : phase[tc[1]] = "ended" => r \in late
  /\ \A t \in Threads : /\ InHand(t) \cup Cached(t) \subseteq UNION {DOMAIN used[s] : s \in Threads}
                        /\ parked[t] \subseteq DOMAIN used[t]
                        /\ \A c \in Classes : IsInjective(cache[t][c])

(* A run that the cache hands out has room for the request: a program      *)
(* never holds a run whose payload is smaller than the bytes it knows of,  *)
(* though runs are cached under the size they are freed with, which need   *)
(* not be the size they were obtained with.                                *)
RoomForRequest ==
  \A t \in Threads : /\ \A r \in DOMAIN held[t] : used[r.owner][r] >= held[t][r]
                     /\ \A c \in Classes : \A r \in ToSet(cache[t][c]) :
                          used[r.owner][r] >= ClassBytes(c)

(* However runs migrate between threads, a class of a cache holds at most  *)
(* one refill more than the watermark, and at most the watermark of other  *)
(* threads' runs: that is what a thread can withhold from their owners.    *)
CacheBounded ==
  \A t \in Threads, c \in Classes :
     /\ Len(cache[t][c]) <= High + RefillBatch - 1
     /\ Cardinality({r \in ToSet(cache[t][c]) : r.owner # t}) <= High

(* In the fixed mode a request is refused, whatever its size, only by a    *)
(* runner with nothing free and nothing parked; and a request that may be  *)
(* cached only when the thread keeps nothing back in its cache either.  A  *)
(* larger request has no such promise: nothing is drained for it, and the  *)
(* cache of the refused thread may hold runs of the very runner.           *)
FailureIsHonest ==
  \A t \in Threads, bytes \in Requests :
     mode = "fixed" /\ Refused(t, bytes) =>
       /\ DOMAIN used[t] = SlotsOf(t) /\ parked[t] = {}
       /\ Cacheable(bytes) => Cached(t) = {}

(* Only its own thread works on a runner: a step that changes what a       *)
(* runner has given out is no other thread's step, be it a drain, the end  *)
(* of a thread or what comes after it.                                     *)
OwnerOnly ==
  [][\A s \in Threads : used'[s] # used[s] => \A t \in Threads \ {s} : ~Step(t)]_vars

(* AllocatorContract: however runs are refilled, cached by other threads,  *)
(* drained and flushed, a run is in one program's hands at a time, is      *)
(* handed out by its own runner's thread only, and leaves the records of   *)
(* the runner when nobody has it, by that thread's doing.                  *)
Hands == [t \in Threads |-> DOMAIN held[t]]
Origins == [r \in Run |-> IF r \in DOMAIN used[r.owner] THEN r.owner ELSE Null]

Contract == INSTANCE AllocatorContract WITH
              Blocks <- Run, Places <- [t \in Threads |-> {t}],
              None <- Null, has <- Hands, origin <- Origins

ContractSpec == Contract!Spec
=============================================================================

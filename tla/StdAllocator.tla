---------------------------- MODULE StdAllocator ----------------------------
(***************************************************************************)
(* The suballocated std allocator of lib/allocazam.hpp for one value type. *)
(*                                                                         *)
(* A default allocator resolves the calling thread's state on each call    *)
(* and creates it on the first allocation; the new state is published in   *)
(* a push-only registry.  A free finds the owner of the memory in a header *)
(* and either works on the owner directly, when that is the calling        *)
(* thread's own, or parks the memory on the owner's remote stack.  An      *)
(* allocator bound to an explicit state, and what is rebound from it, go   *)
(* to that state directly.                                                 *)
(*                                                                         *)
(* A pool or a runner is here what NodePool and Runner show it to be: a    *)
(* set of free blocks and a set of parked ones.  Its calls are not atomic: *)
(* a thread enters it in one step and has its effect in a later one, so    *)
(* that two threads at work in one pool are seen.  remote_push is one step *)
(* (its protocol is the subject of NodePool).  The thread-local cache that *)
(* sits before the runner of byte-sized types is in RunCache.              *)
(*                                                                         *)
(* States are never destroyed and a thread's state outlives it, so a       *)
(* thread that has ended is one that takes no further step.                *)
(***************************************************************************)
EXTENDS Integers, FiniteSets

CONSTANTS Threads,    \* the threads; a default state is named by its creator
          Explicit,   \* states made by the program
          Home,       \* the thread that an explicit state is confined to
          Blocks,     \* what the pools and runners can carve
          Counts,     \* the element counts that are asked for
          MaxSize,    \* max_size()
          Null

ASSUME ThreadsAssumption == IsFiniteSet(Threads)
ASSUME StatesAssumption == /\ Null \notin Threads \cup Explicit
                           /\ Threads \cap Explicit = {}
                           /\ Home \in [Explicit -> Threads]
ASSUME CountsAssumption == MaxSize \in Nat /\ Counts \subseteq 1 .. MaxSize

VARIABLES
  tls,       \* _tls_state of each thread
  registry,  \* _state_registry
  rnext,     \* registry_next of each default state
  call,      \* where each thread is inside a call
  block      \* every block: where it is, its header, how it was obtained

vars == <<tls, registry, rnext, call, block>>

Pool(s) == <<s, "pool">>
Runs(s) == <<s, "runs">>
Structures == {Pool(s) : s \in Threads \cup Explicit}
              \cup {Runs(s) : s \in Threads \cup Explicit}

ASSUME NullAssumption == Null \notin Structures

-----------------------------------------------------------------------------
(* Allocator objects.                                                      *)

Default == [mode |-> "default", state |-> Null, runs |-> Null]
Bound(e) == [mode |-> "explicit", state |-> e, runs |-> Null]

(* Mutant: the state published last serves every default allocator.        *)
RunsPtrLast(t, a) == IF a.mode = "default" THEN Runs(registry)
                     ELSE IF a.state # Null THEN Runs(a.state)
                     ELSE a.runs

(* _runs_ptr and _alloc_state, on a thread whose state exists.             *)
RunsPtr(t, a) == IF a.mode = "default" THEN Runs(tls[t])
                 ELSE IF a.state # Null THEN Runs(a.state)
                 ELSE a.runs

AllocState(t, a) == IF a.mode = "default" THEN tls[t] ELSE a.state

(* Rebinding: a stateless allocator stays stateless; any other pins the    *)
(* runner and loses the state, whose pool is of the wrong type.            *)
Rebind(a) == IF a.mode = "default" THEN Default
             ELSE [mode |-> "override", state |-> Null,
                   runs |-> IF a.state # Null THEN Runs(a.state) ELSE a.runs]

Allocators == {Default} \cup {Bound(e) : e \in Explicit}
              \cup {Rebind(Bound(e)) : e \in Explicit}

(* operator==                                                              *)
SameAllocator(a, b) == a.state = b.state /\ a.runs = b.runs

(* Explicit states are confined: the program serializes their use, here by *)
(* keeping each to one thread.                                             *)
Usable(t, a) == \A e \in Explicit :
                   (a.state = e \/ a.runs = Runs(e)) => Home[e] = t

-----------------------------------------------------------------------------
Idle == [pc |-> "idle", op |-> "none", via |-> Default, n |-> 0,
         block |-> Null, at |-> Null, head |-> Null]
Raw == [place |-> "raw", at |-> Null, owner |-> Null, via |-> Default,
        n |-> 0, holder |-> Null]

TypeOK ==
  /\ tls \in [Threads -> Threads \cup {Null}]
  /\ registry \in Threads \cup {Null}
  /\ rnext \in [Threads -> Threads \cup {Null}]
  /\ call \in [Threads ->
        [pc : {"idle", "new", "link", "cas", "tls", "inside"},
         op : {"none", "state", "allocate", "free", "expand"},
         via : Allocators, n : 0 .. MaxSize, block : Blocks \cup {Null},
         at : Structures \cup {Null}, head : Threads \cup {Null}]]
  /\ block \in [Blocks ->
        [place : {"raw", "free", "held", "parked"},
         at : Structures \cup {Null}, owner : Structures \cup {Null},
         via : Allocators, n : 0 .. MaxSize, holder : Threads \cup {Null}]]

Init ==
  /\ tls = [t \in Threads |-> Null]
  /\ registry = Null
  /\ rnext = [t \in Threads |-> Null]
  /\ call = [t \in Threads |-> Idle]
  /\ block = [b \in Blocks |-> Raw]

Enter(t, op, a, n, b, x) ==
  call' = [call EXCEPT ![t] = [pc |-> "inside", op |-> op, via |-> a, n |-> n,
                               block |-> b, at |-> x, head |-> Null]]

-----------------------------------------------------------------------------
(* The calling thread's state, _thread_state.  A new state may be refused. *)

FirstTouch(t, op, a, n) ==
  call' = [call EXCEPT ![t] = [Idle EXCEPT !.pc = "new", !.op = op,
                                           !.via = a, !.n = n]]

NewState(t) ==
  /\ call[t].pc = "new"
  /\ call' = [call EXCEPT ![t].pc = "link", ![t].head = registry]
  /\ UNCHANGED <<tls, registry, rnext, block>>

NewStateFails(t) ==
  /\ call[t].pc = "new"
  /\ call' = [call EXCEPT ![t] = Idle]
  /\ UNCHANGED <<tls, registry, rnext, block>>

Link(t) ==
  /\ call[t].pc = "link"
  /\ rnext' = [rnext EXCEPT ![t] = call[t].head]
  /\ call' = [call EXCEPT ![t].pc = "cas"]
  /\ UNCHANGED <<tls, registry, block>>

Cas(t) ==
  /\ call[t].pc = "cas"
  /\ registry = call[t].head
  /\ registry' = t
  /\ call' = [call EXCEPT ![t].pc = "tls", ![t].head = Null]
  /\ UNCHANGED <<tls, rnext, block>>

(* Mutant: the loop compares again without linking to the new head.        *)
CasFailKeepsLink(t) ==
  /\ call[t].pc = "cas"
  /\ call' = [call EXCEPT ![t].head = registry]
  /\ UNCHANGED <<tls, registry, rnext, block>>

(* Mutant: the expected head is not refreshed.                             *)
CasFailKeepsHead(t) ==
  /\ call[t].pc = "cas"
  /\ call' = [call EXCEPT ![t].pc = "link"]
  /\ UNCHANGED <<tls, registry, rnext, block>>

(* compare_exchange_weak: another state was published, or it fails for no  *)
(* reason; either way head becomes what was read.                          *)
CasFail(t) ==
  /\ call[t].pc = "cas"
  /\ call' = [call EXCEPT ![t].pc = "link", ![t].head = registry]
  /\ UNCHANGED <<tls, registry, rnext, block>>

(* Where an allocation of n elements is served.                            *)
Serves(n, s, runs) == IF n = 1 /\ s # Null THEN Pool(s) ELSE runs

(* The state is the thread's from here on, and the call goes on: state()   *)
(* returns, allocate() enters the pool or the runner.                      *)
SetTls(t) ==
  /\ call[t].pc = "tls"
  /\ tls' = [tls EXCEPT ![t] = t]
  /\ IF call[t].op = "state"
       THEN call' = [call EXCEPT ![t] = Idle]
       ELSE Enter(t, "allocate", call[t].via, call[t].n, Null,
                  Serves(call[t].n, t, Runs(t)))
  /\ UNCHANGED <<registry, rnext, block>>

(* state(): creates for a default allocator, and only reads otherwise.     *)
State(t) ==
  /\ call[t].pc = "idle"
  /\ tls[t] = Null
  /\ FirstTouch(t, "state", Default, 0)
  /\ UNCHANGED <<tls, registry, rnext, block>>

-----------------------------------------------------------------------------
(* Allocation.                                                             *)

Allocate(t, a, n) ==
  /\ call[t].pc = "idle"
  /\ Usable(t, a)
  /\ n <= MaxSize
  /\ IF a.mode = "default" /\ tls[t] = Null
       THEN FirstTouch(t, "allocate", a, n)
       ELSE Enter(t, "allocate", a, n, Null,
                  Serves(n, AllocState(t, a), RunsPtr(t, a)))
  /\ UNCHANGED <<tls, registry, rnext, block>>

(* allocate_at_least: the dynamic mode asks for half as much again, up to  *)
(* max_size().                                                             *)
AtLeast(n) == IF n <= 1 THEN n
              ELSE IF n > MaxSize - n \div 2 THEN MaxSize
              ELSE n + n \div 2

AllocateAtLeast(t, a, n) == Allocate(t, a, AtLeast(n))

FreeAt(x) == {b \in Blocks : block[b].place = "free" /\ block[b].at = x}
ParkedAt(x) == {b \in Blocks : block[b].place = "parked" /\ block[b].at = x}
RawBlocks == {b \in Blocks : block[b].place = "raw"}

(* A pool or runner serves from its free memory, else takes over what is   *)
(* parked, else carves new memory.  The block carries its owner's header.  *)
FinishAllocate(t) ==
  LET c == call[t]
      drained == IF FreeAt(c.at) = {} THEN ParkedAt(c.at) ELSE {}
      ready == FreeAt(c.at) \cup drained
  IN  /\ c.pc = "inside" /\ c.op = "allocate"
      /\ \E b \in IF ready # {} THEN ready ELSE RawBlocks :
            block' = [d \in Blocks |->
               IF d = b THEN [place |-> "held", at |-> Null, owner |-> c.at,
                              via |-> c.via, n |-> c.n, holder |-> t]
               ELSE IF d \in drained THEN [block[d] EXCEPT !.place = "free"]
               ELSE block[d]]
      /\ call' = [call EXCEPT ![t] = Idle]
      /\ UNCHANGED <<tls, registry, rnext>>

(* bad_alloc: nothing free, nothing parked and no memory to be had.        *)
AllocateFails(t) ==
  /\ call[t].pc = "inside" /\ call[t].op = "allocate"
  /\ FreeAt(call[t].at) \cup ParkedAt(call[t].at) = {}
  /\ call' = [call EXCEPT ![t] = Idle]
  /\ UNCHANGED <<tls, registry, rnext, block>>

-----------------------------------------------------------------------------
(* Deallocation.  A caller gives a block back through an allocator equal   *)
(* to the one it came from; a node of an explicit state may also come back *)
(* through a default allocator, on any thread.                             *)

MayFree(t, b, a) ==
  /\ call[t].pc = "idle"
  /\ block[b].place = "held" /\ block[b].holder = t
  /\ Usable(t, a)
  /\ \/ SameAllocator(a, block[b].via)
     \/ /\ a = Default
        /\ block[b].n = 1 /\ block[b].via.mode = "explicit"

RemotePush(t, b, x) ==
  /\ block' = [block EXCEPT ![b] = [Raw EXCEPT !.place = "parked", !.at = x,
                                               !.owner = block[b].owner]]
  /\ UNCHANGED call

Direct(t, op, b, x) == Enter(t, op, Default, 0, b, x) /\ UNCHANGED block

(* Mutant: every free of a node works on its owner directly.               *)
FreeNodeUnrouted(t, b, a) ==
  IF a.mode = "default" THEN Direct(t, "free", b, block[b].owner)
  ELSE Direct(t, "free", b, Pool(a.state))

(* _free_node_routed: the owner is read from the granule header.           *)
FreeNodeRouted(t, b, a) ==
  IF a.mode # "default" THEN Direct(t, "free", b, Pool(a.state))
  ELSE IF tls[t] # Null /\ block[b].owner = Pool(tls[t])
         THEN Direct(t, "free", b, Pool(tls[t]))
         ELSE RemotePush(t, b, block[b].owner)

(* _free_run_routed: the owner is read from the run header; a thread       *)
(* without a state has no runner (_local_runs_or_null).                    *)
FreeRunRouted(t, b, a) ==
  IF a.mode # "default" THEN Direct(t, "free", b, RunsPtr(t, a))
  ELSE IF tls[t] # Null /\ block[b].owner = Runs(tls[t])
         THEN Direct(t, "free", b, block[b].owner)
         ELSE RemotePush(t, b, block[b].owner)

Deallocate(t, b, a) ==
  /\ MayFree(t, b, a)
  /\ IF block[b].n = 1 /\ (a.mode = "default" \/ a.state # Null)
       THEN FreeNodeRouted(t, b, a)
       ELSE FreeRunRouted(t, b, a)
  /\ UNCHANGED <<tls, registry, rnext>>

FinishFree(t) ==
  /\ call[t].pc = "inside" /\ call[t].op = "free"
  /\ block' = [block EXCEPT ![call[t].block] =
                 [Raw EXCEPT !.place = "free", !.at = call[t].at,
                             !.owner = block[call[t].block].owner]]
  /\ call' = [call EXCEPT ![t] = Idle]
  /\ UNCHANGED <<tls, registry, rnext>>

-----------------------------------------------------------------------------
(* expand: a run may grow in place, a node may not.                        *)

(* runner::owner_of.  Before a run lies its owner word; before a node lies *)
(* other data, which may equal any word.                                   *)
OwnerWords(b) == IF \E s \in Threads \cup Explicit : block[b].owner = Runs(s)
                   THEN {block[b].owner}
                   ELSE Structures

(* Mutant: the range check is dropped and the probed word trusted.         *)
OwnsAnything(x, b) == TRUE

(* runner::owns_run and allocazam::owns: the address lies in the chunks.   *)
Owns(x, b) == block[b].owner = x

(* The word w is what the classifier reads.  Where it returns early        *)
(* nothing happens.                                                        *)
Expand(t, b, a, w) ==
  /\ call[t].pc = "idle"
  /\ block[b].place = "held" /\ block[b].holder = t
  /\ Usable(t, a) /\ SameAllocator(a, block[b].via)
  /\ IF a.mode = "default"
       THEN /\ tls[t] # Null
            /\ block[b].owner # Pool(tls[t])
            /\ w = Runs(tls[t])
            /\ Owns(w, b)
            /\ Direct(t, "expand", b, w)
       ELSE /\ a.state = Null \/ block[b].owner # Pool(a.state)
            /\ Direct(t, "expand", b, RunsPtr(t, a))
  /\ UNCHANGED <<tls, registry, rnext>>

FinishExpand(t) ==
  /\ call[t].pc = "inside" /\ call[t].op = "expand"
  /\ call' = [call EXCEPT ![t] = Idle]
  /\ UNCHANGED <<tls, registry, rnext, block>>

-----------------------------------------------------------------------------
(* The program passes blocks between threads.                              *)
Handoff(t, u, b) ==
  /\ call[t].pc = "idle"
  /\ block[b].place = "held" /\ block[b].holder = t
  /\ block' = [block EXCEPT ![b].holder = u]
  /\ UNCHANGED <<tls, registry, rnext, call>>

-----------------------------------------------------------------------------
Continue(t) ==
  \/ NewState(t) \/ NewStateFails(t) \/ Link(t) \/ Cas(t) \/ CasFail(t)
  \/ SetTls(t) \/ FinishAllocate(t) \/ AllocateFails(t) \/ FinishFree(t)
  \/ FinishExpand(t)

Begin(t) ==
  \/ State(t)
  \/ \E a \in Allocators, n \in Counts : \/ Allocate(t, a, n)
                                         \/ AllocateAtLeast(t, a, n)
  \/ \E a \in Allocators, b \in Blocks :
        \/ Deallocate(t, b, a)
        \/ \E w \in OwnerWords(b) : Expand(t, b, a, w)

Next ==
  \/ \E t \in Threads : Begin(t) \/ Continue(t)
  \/ \E t, u \in Threads, b \in Blocks : Handoff(t, u, b)

Spec == Init /\ [][Next]_vars

(* A thread inside a call keeps running, and a weak compare-exchange that  *)
(* could succeed again and again does not fail for ever.                   *)
FairSpec == /\ Spec
            /\ \A t \in Threads : WF_vars(Continue(t)) /\ SF_vars(Cas(t))

-----------------------------------------------------------------------------
(* Properties.                                                             *)

(* Pools and runners are not synchronized: whatever threads allocate, free *)
(* and expand which memory, no two of them are ever inside the same pool   *)
(* or runner ("a cross-thread deallocate_bytes would race the owner").     *)
OneThreadInside ==
  /\ TypeOK
  /\ \A t, u \in Threads :
        t # u /\ call[t].pc = "inside" /\ call[u].pc = "inside"
          => call[t].at # call[u].at

(* Frees and expansions reach the structure that carved the block, through *)
(* whichever equal allocator and thread they come: a block is on the free  *)
(* or remote list of its owner only, and a call that works on a block is   *)
(* inside its owner, which for expand is a runner.                         *)
BlocksGoHome ==
  /\ \A b \in Blocks :
        block[b].place \in {"free", "parked"} => block[b].at = block[b].owner
  /\ \A t \in Threads :
        call[t].pc = "inside" /\ call[t].op \in {"free", "expand"} =>
          /\ call[t].at = block[call[t].block].owner
          /\ call[t].op = "expand" => \E s \in Threads \cup Explicit :
                                         call[t].at = Runs(s)

(* The registry as thread_state_registry() and registry_next show it, and  *)
(* the states a compare-exchange has published.                            *)
Published == {t \in Threads : tls[t] # Null \/ call[t].pc = "tls"}

Visit[k \in 0 .. Cardinality(Threads)] ==
  IF k = 0 THEN registry
  ELSE IF Visit[k - 1] = Null THEN Null ELSE rnext[Visit[k - 1]]

(* At every moment, whichever states are being pushed, a walk along        *)
(* registry_next ends, meets no state twice and meets every state that any *)
(* thread has published: no state and none of its memory is ever lost.     *)
RegistryComplete ==
  LET n == Cardinality(Published)
  IN  /\ {Visit[k] : k \in 0 .. n - 1} = Published
      /\ Visit[n] = Null

(* AllocatorContract: whatever is allocated, freed, passed on and drained  *)
(* at the same time, a block is in one pair of hands, comes from the pool  *)
(* or runner of the thread that asked for it (or of a state confined to    *)
(* it), and belongs there until that thread has it back.                   *)
PlacesOf(t) == {Pool(t), Runs(t)}
               \cup {Pool(e) : e \in {x \in Explicit : Home[x] = t}}
               \cup {Runs(e) : e \in {x \in Explicit : Home[x] = t}}

Hands == [t \in Threads |->
            {b \in Blocks : block[b].place = "held" /\ block[b].holder = t}]
Origins == [b \in Blocks |-> block[b].owner]

Contract == INSTANCE AllocatorContract WITH
              Places <- [t \in Threads |-> PlacesOf(t)],
              None <- Null, has <- Hands, origin <- Origins

ContractSpec == Contract!Spec

(* Every call returns: the first touch of a thread registers its state     *)
(* although other threads register theirs and compare-exchanges fail.      *)
CallsReturn == \A t \in Threads : call[t].pc # "idle" ~> call[t].pc = "idle"
=============================================================================

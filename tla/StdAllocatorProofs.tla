------------------------- MODULE StdAllocatorProofs -------------------------
(***************************************************************************)
(* For every number of threads, states and blocks: no two threads are ever *)
(* inside one pool or runner, every block returns to its owner, and a walk *)
(* along the registry meets every published state.                         *)
(*                                                                         *)
(* The first two do not hold by themselves.  A free goes to the structure  *)
(* named by the allocator it comes through, so the invariant says which    *)
(* structure that is for each allocator, and that a thread is only ever    *)
(* inside its own state or an explicit one confined to it.                 *)
(***************************************************************************)
EXTENDS StdAllocator, LinkedListProofs

(* The structures that thread t may be inside.                             *)
Mine(t, x) ==
  \/ x = Pool(t) \/ x = Runs(t)
  \/ \E e \in Explicit : Home[e] = t /\ (x = Pool(e) \/ x = Runs(e))

(* The structures that n elements of allocator a may come from.            *)
ServedBy(a, n, x) ==
  \/ /\ a = Default
     /\ \E s \in Threads : x = IF n = 1 THEN Pool(s) ELSE Runs(s)
  \/ \E e \in Explicit : /\ a = Bound(e)
                         /\ x = IF n = 1 THEN Pool(e) ELSE Runs(e)
  \/ \E e \in Explicit : a = Rebind(Bound(e)) /\ x = Runs(e)

(* What holds of a thread t at c in a call, when the blocks are bl.        *)
CallOK(t, c, bl) ==
  /\ c.pc \in {"new", "link", "cas", "tls"} => c.via = Default
  /\ c.pc = "inside" => Mine(t, c.at)
  /\ c.pc = "inside" /\ c.op = "allocate" => ServedBy(c.via, c.n, c.at)
  /\ c.pc = "inside" /\ c.op # "allocate" =>
       /\ c.block \in Blocks
       /\ bl[c.block].place = "held" /\ bl[c.block].holder = t
       /\ c.at = bl[c.block].owner
  /\ c.pc = "inside" /\ c.op = "expand" =>
       \E s \in Threads \cup Explicit : c.at = Runs(s)

(* What holds of a block.                                                  *)
BlockOK(r) ==
  /\ r.place = "held" => ServedBy(r.via, r.n, r.owner)
  /\ r.place \in {"free", "parked"} => r.at = r.owner
  /\ r.place = "raw" => r.owner = Null

Calls ==
  [pc : {"idle", "new", "link", "cas", "tls", "inside"},
   op : {"none", "state", "allocate", "free", "expand"},
   via : Allocators, n : 0 .. MaxSize, block : Blocks \cup {Null},
   at : Structures \cup {Null}, head : Threads \cup {Null}]

BlockStates ==
  [place : {"raw", "free", "held", "parked"},
   at : Structures \cup {Null}, owner : Structures \cup {Null},
   via : Allocators, n : 0 .. MaxSize, holder : Threads \cup {Null}]

IInv ==
  /\ TypeOK
  /\ \A t \in Threads : tls[t] \in {t, Null}
  /\ \A t \in Threads : CallOK(t, call[t], block)
  /\ \A b \in Blocks : BlockOK(block[b])

-----------------------------------------------------------------------------
(* Allocators and structures.                                              *)

(* Every allocator is a default one, a bound one or one rebound from it.   *)
LEMMA AllocatorForms ==
  ASSUME NEW a \in Allocators
  PROVE  \/ a = Default
         \/ \E e \in Explicit : a = Bound(e)
         \/ \E e \in Explicit : a = Rebind(Bound(e))
  BY DEF Allocators

LEMMA ExplicitIsNoNull ==
  ASSUME NEW e \in Explicit
  PROVE  e # Null /\ Home[e] \in Threads /\ e \notin Threads /\ Runs(e) # Null
<1>1. e # Null /\ Home[e] \in Threads /\ e \notin Threads
  BY StatesAssumption
<1>2. Runs(e) \in Structures
  BY DEF Structures
<1> QED
  BY <1>1, <1>2, NullAssumption

(* Rebinding pins the runner of the state and forgets the state.           *)
LEMMA RebindForm ==
  ASSUME NEW e \in Explicit
  PROVE  Rebind(Bound(e)) = [mode |-> "override", state |-> Null, runs |-> Runs(e)]
  BY ExplicitIsNoNull DEF Rebind, Bound, Default

LEMMA DefaultMode ==
  ASSUME NEW a \in Allocators
  PROVE  a.mode = "default" <=> a = Default
<1>1. Default.mode = "default" /\ \A e \in Explicit : Bound(e).mode = "explicit"
  BY DEF Default, Bound
<1>2. \A e \in Explicit : Rebind(Bound(e)).mode = "override"
  BY RebindForm
<1> QED
  BY <1>1, <1>2, AllocatorForms

LEMMA Apart ==
  ASSUME NEW s, NEW r
  PROVE  /\ Pool(s) # Runs(r)
         /\ Pool(s) = Pool(r) => s = r
         /\ Runs(s) = Runs(r) => s = r
  BY DEF Pool, Runs

(* No structure belongs to two threads.                                    *)
LEMMA MineApart ==
  ASSUME NEW t \in Threads, NEW u \in Threads, NEW x, Mine(t, x), Mine(u, x)
  PROVE  t = u
  BY Apart, ExplicitIsNoNull DEF Mine

LEMMA MineIsStructure ==
  ASSUME NEW t \in Threads, NEW x, Mine(t, x)
  PROVE  x \in Structures
  BY DEF Mine, Structures

LEMMA ServedIsStructure ==
  ASSUME NEW a \in Allocators, NEW n, NEW x, ServedBy(a, n, x)
  PROVE  x \in Structures
  BY DEF ServedBy, Structures

-----------------------------------------------------------------------------
(* Where a call leads.                                                     *)

(* An allocation enters a structure that the thread may be inside and that *)
(* serves this allocator.                                                  *)
LEMMA AllocateEnters ==
  ASSUME NEW t \in Threads, NEW a \in Allocators, NEW n,
         tls[t] \in {t, Null}, Usable(t, a),
         ~ (a.mode = "default" /\ tls[t] = Null)
  PROVE  LET x == Serves(n, AllocState(t, a), RunsPtr(t, a))
         IN  Mine(t, x) /\ ServedBy(a, n, x)
<1>1. CASE a = Default
  <2>1. tls[t] = t /\ t # Null /\ a.mode = "default"
    BY <1>1, StatesAssumption DEF Default
  <2>2. AllocState(t, a) = t /\ RunsPtr(t, a) = Runs(t)
    BY <2>1 DEF AllocState, RunsPtr
  <2>3. Serves(n, t, Runs(t)) = IF n = 1 THEN Pool(t) ELSE Runs(t)
    BY <2>1 DEF Serves
  <2> QED
    BY <1>1, <2>2, <2>3 DEF Mine, ServedBy
<1>2. ASSUME NEW e \in Explicit, a = Bound(e)
      PROVE  LET x == Serves(n, AllocState(t, a), RunsPtr(t, a))
             IN  Mine(t, x) /\ ServedBy(a, n, x)
  <2>1. a.mode # "default" /\ a.state = e /\ e # Null
    BY <1>2, ExplicitIsNoNull DEF Bound
  <2>2. Home[e] = t
    BY <2>1 DEF Usable
  <2>3. AllocState(t, a) = e /\ RunsPtr(t, a) = Runs(e)
    BY <2>1 DEF AllocState, RunsPtr
  <2>4. Serves(n, e, Runs(e)) = IF n = 1 THEN Pool(e) ELSE Runs(e)
    BY <2>1 DEF Serves
  <2> QED
    BY <1>2, <2>2, <2>3, <2>4 DEF Mine, ServedBy
<1>3. ASSUME NEW e \in Explicit, a = Rebind(Bound(e))
      PROVE  LET x == Serves(n, AllocState(t, a), RunsPtr(t, a))
             IN  Mine(t, x) /\ ServedBy(a, n, x)
  <2>1. a.mode # "default" /\ a.state = Null /\ a.runs = Runs(e)
    BY <1>3, RebindForm
  <2>2. Home[e] = t
    BY <2>1 DEF Usable
  <2>3. AllocState(t, a) = Null /\ RunsPtr(t, a) = Runs(e)
    BY <2>1 DEF AllocState, RunsPtr
  <2>4. Serves(n, Null, Runs(e)) = Runs(e)
    BY DEF Serves
  <2> QED
    BY <1>3, <2>2, <2>3, <2>4 DEF Mine, ServedBy
<1> QED
  BY <1>1, <1>2, <1>3, AllocatorForms

(* Equal allocators have one form.                                         *)
LEMMA SameForm ==
  ASSUME NEW a \in Allocators, NEW b \in Allocators, SameAllocator(a, b)
  PROVE  a = b
<1>1. \A c \in Allocators :
        \/ c = Default /\ c.state = Null /\ c.runs = Null
        \/ \E e \in Explicit : c = Bound(e) /\ c.state = e /\ c.runs = Null /\ e # Null
        \/ \E e \in Explicit : /\ c = Rebind(Bound(e)) /\ c.state = Null
                               /\ c.runs = Runs(e) /\ Runs(e) # Null
  <2>1. Default.state = Null /\ Default.runs = Null
    BY DEF Default
  <2>2. ASSUME NEW e \in Explicit
        PROVE  Bound(e).state = e /\ Bound(e).runs = Null /\ e # Null
    BY ExplicitIsNoNull DEF Bound
  <2>3. ASSUME NEW e \in Explicit
        PROVE  /\ Rebind(Bound(e)).state = Null
               /\ Rebind(Bound(e)).runs = Runs(e) /\ Runs(e) # Null
    BY ExplicitIsNoNull, RebindForm
  <2> QED
    BY <2>1, <2>2, <2>3, AllocatorForms
<1> QED
  BY <1>1, Apart DEF SameAllocator

(* What an allocator that is not a default one obtained is its structure's.*)
LEMMA OwnerOfNode ==
  ASSUME NEW t \in Threads, NEW a \in Allocators, NEW x,
         Usable(t, a), a.mode # "default", a.state # Null, ServedBy(a, 1, x)
  PROVE  Mine(t, Pool(a.state)) /\ x = Pool(a.state)
<1>1. a # Default
  BY DEF Default
<1>2. \A e \in Explicit : a # Rebind(Bound(e))
  BY RebindForm
<1>3. PICK e \in Explicit : a = Bound(e) /\ x = Pool(e)
  BY <1>1, <1>2 DEF ServedBy
<1>4. a.state = e
  BY <1>3 DEF Bound
<1> QED
  BY <1>3, <1>4 DEF Mine, Usable

LEMMA OwnerOfRun ==
  ASSUME NEW t \in Threads, NEW a \in Allocators, NEW n, NEW x,
         Usable(t, a), a.mode # "default", n # 1 \/ a.state = Null, ServedBy(a, n, x)
  PROVE  /\ Mine(t, RunsPtr(t, a)) /\ x = RunsPtr(t, a)
         /\ \E e \in Explicit : x = Runs(e)
<1>1. a # Default
  BY DEF Default
<1>2. ASSUME NEW e \in Explicit, a = Bound(e), x = IF n = 1 THEN Pool(e) ELSE Runs(e)
      PROVE  /\ Mine(t, RunsPtr(t, a)) /\ x = RunsPtr(t, a)
             /\ \E f \in Explicit : x = Runs(f)
  <2>1. a.state = e /\ e # Null /\ Home[e] = t
    BY <1>2, ExplicitIsNoNull DEF Bound, Usable
  <2>2. RunsPtr(t, a) = Runs(e) /\ x = Runs(e)
    BY <1>2, <2>1 DEF RunsPtr
  <2> QED
    BY <2>1, <2>2 DEF Mine
<1>3. ASSUME NEW e \in Explicit, a = Rebind(Bound(e)), x = Runs(e)
      PROVE  /\ Mine(t, RunsPtr(t, a)) /\ x = RunsPtr(t, a)
             /\ \E f \in Explicit : x = Runs(f)
  <2>1. a.state = Null /\ a.runs = Runs(e)
    BY <1>3, RebindForm
  <2>2. Home[e] = t
    BY <2>1 DEF Usable
  <2> QED
    BY <1>3, <2>1, <2>2 DEF Mine, RunsPtr
<1> QED
  BY <1>1, <1>2, <1>3 DEF ServedBy

-----------------------------------------------------------------------------
(* The invariant is inductive.                                             *)

LEMMA TypeOKParts ==
  TypeOK <=> /\ tls \in [Threads -> Threads \cup {Null}]
             /\ registry \in Threads \cup {Null}
             /\ rnext \in [Threads -> Threads \cup {Null}]
             /\ call \in [Threads -> Calls]
             /\ block \in [Blocks -> BlockStates]
  BY DEF TypeOK, Calls, BlockStates

LEMMA DefaultIsOne ==
  Default \in Allocators /\ Default.mode = "default"
  BY DEF Allocators, Default

LEMMA IdleFits ==
  /\ Idle \in Calls
  /\ \A t \in Threads : CallOK(t, Idle, block)
<1>1. Idle \in Calls
  BY DefaultIsOne, CountsAssumption DEF Idle, Calls
<1> QED
  BY <1>1 DEF Idle, CallOK

(* A step that changes one thread's call and no block.                     *)
LEMMA CallStep ==
  ASSUME IInv, NEW t \in Threads, NEW c \in Calls,
         call' = [call EXCEPT ![t] = c], CallOK(t, c, block),
         block' = block, rnext' \in [Threads -> Threads \cup {Null}],
         registry' \in Threads \cup {Null},
         tls' = tls \/ tls' = [tls EXCEPT ![t] = t]
  PROVE  IInv'
<1>1. call \in [Threads -> Calls] /\ block \in [Blocks -> BlockStates]
      /\ tls \in [Threads -> Threads \cup {Null}]
  BY TypeOKParts DEF IInv
<1>2. tls' \in [Threads -> Threads \cup {Null}] /\ \A u \in Threads : tls'[u] \in {u, Null}
  BY <1>1 DEF IInv
<1>3. call' \in [Threads -> Calls] /\ call'[t] = c
      /\ \A u \in Threads \ {t} : call'[u] = call[u]
  BY <1>1
<1>4. TypeOK'
  BY <1>1, <1>2, <1>3 DEF TypeOK, Calls, BlockStates
<1>5. ASSUME NEW u \in Threads
      PROVE  CallOK(u, call'[u], block')
  BY <1>3 DEF IInv
<1>6. \A b \in Blocks : BlockOK(block'[b])
  BY DEF IInv
<1> QED
  BY <1>2, <1>4, <1>5, <1>6 DEF IInv, CallOK, BlockOK, Mine, ServedBy

(* A step that changes one block, which no thread is at work on.           *)
LEMMA BlockStep ==
  ASSUME IInv, NEW d \in Blocks, NEW r \in BlockStates,
         block' = [block EXCEPT ![d] = r], BlockOK(r),
         \A u \in Threads : call[u].pc = "inside" /\ call[u].op # "allocate"
                                => call[u].block # d,
         UNCHANGED <<tls, registry, rnext, call>>
  PROVE  IInv'
<1>1. call \in [Threads -> Calls] /\ block \in [Blocks -> BlockStates]
  BY TypeOKParts DEF IInv
<1>2. block' \in [Blocks -> BlockStates] /\ block'[d] = r
      /\ \A b \in Blocks \ {d} : block'[b] = block[b]
  BY <1>1
<1>3. TypeOK'
  BY <1>1, <1>2 DEF IInv, TypeOK, Calls, BlockStates
<1>4. ASSUME NEW u \in Threads
      PROVE  CallOK(u, call'[u], block')
  BY <1>2 DEF IInv, CallOK
<1>5. \A b \in Blocks : BlockOK(block'[b])
  BY <1>2 DEF IInv
<1> QED
  BY <1>3, <1>4, <1>5 DEF IInv, CallOK, BlockOK, Mine, ServedBy

(* Creating and publishing a state.                                        *)
LEMMA CreatingKeeps ==
  ASSUME IInv, NEW t \in Threads,
         \/ NewState(t) \/ NewStateFails(t) \/ Link(t)
         \/ Cas(t) \/ CasFail(t) \/ SetTls(t) \/ State(t)
  PROVE  IInv'
<1>1. /\ call \in [Threads -> Calls] /\ rnext \in [Threads -> Threads \cup {Null}]
      /\ registry \in Threads \cup {Null} /\ call[t] \in Calls
      /\ CallOK(t, call[t], block)
  BY TypeOKParts DEF IInv
<1>2. ASSUME NEW pc \in {"link", "cas", "tls"}, NEW head \in Threads \cup {Null},
             call[t].pc \in {"new", "link", "cas"}
      PROVE  LET c == [call[t] EXCEPT !.pc = pc, !.head = head]
             IN  c \in Calls /\ CallOK(t, c, block)
  BY <1>1, <1>2 DEF Calls, CallOK
<1>3. CASE NewState(t)
  <2>1. call' = [call EXCEPT ![t] = [call[t] EXCEPT !.pc = "link", !.head = registry]]
    BY <1>1, <1>3 DEF NewState
  <2> QED
    BY <1>1, <1>2, <1>3, <2>1, CallStep DEF NewState
<1>4. CASE NewStateFails(t)
  BY <1>1, <1>4, IdleFits, CallStep DEF NewStateFails
<1>5. CASE Link(t)
  <2>1. call[t].head \in Threads \cup {Null}
    BY <1>1 DEF Calls
  <2>2. call' = [call EXCEPT ![t] = [call[t] EXCEPT !.pc = "cas", !.head = call[t].head]]
    BY <1>1, <1>5 DEF Link, Calls
  <2>3. rnext' \in [Threads -> Threads \cup {Null}]
    BY <1>1, <1>5, <2>1 DEF Link
  <2> QED
    BY <1>1, <1>2, <1>5, <2>1, <2>2, <2>3, CallStep DEF Link
<1>6. CASE Cas(t)
  <2>1. call' = [call EXCEPT ![t] = [call[t] EXCEPT !.pc = "tls", !.head = Null]]
    BY <1>1, <1>6 DEF Cas
  <2> QED
    BY <1>1, <1>2, <1>6, <2>1, CallStep DEF Cas
<1>7. CASE CasFail(t)
  <2>1. call' = [call EXCEPT ![t] = [call[t] EXCEPT !.pc = "link", !.head = registry]]
    BY <1>1, <1>7 DEF CasFail
  <2> QED
    BY <1>1, <1>2, <1>7, <2>1, CallStep DEF CasFail
<1>8. CASE SetTls(t)
  <2>1. CASE call[t].op = "state"
    BY <1>1, <1>8, <2>1, IdleFits, CallStep DEF SetTls
  <2>2. CASE call[t].op # "state"
    <3> DEFINE x == Serves(call[t].n, t, Runs(t))
               c == [pc |-> "inside", op |-> "allocate", via |-> call[t].via,
                     n |-> call[t].n, block |-> Null, at |-> x, head |-> Null]
    <3>1. call[t].via = Default /\ t # Null
      BY <1>1, <1>8, StatesAssumption DEF SetTls, CallOK
    <3>2. x = IF call[t].n = 1 THEN Pool(t) ELSE Runs(t)
      BY <3>1 DEF Serves
    <3>3. Mine(t, x) /\ ServedBy(call[t].via, call[t].n, x)
      BY <3>1, <3>2 DEF Mine, ServedBy
    <3> HIDE DEF x
    <3>4. c \in Calls
      BY <1>1, <3>3, MineIsStructure DEF Calls
    <3>5. CallOK(t, c, block)
      BY <3>3 DEF CallOK
    <3>6. call' = [call EXCEPT ![t] = c]
      BY <1>8, <2>2 DEF SetTls, Enter, x
    <3> HIDE DEF c
    <3> QED
      BY <1>1, <1>8, <3>4, <3>5, <3>6, CallStep DEF SetTls
  <2> QED
    BY <2>1, <2>2
<1>9. CASE State(t)
  <2> DEFINE c == [Idle EXCEPT !.pc = "new", !.op = "state", !.via = Default, !.n = 0]
  <2>1. c \in Calls /\ CallOK(t, c, block)
    BY IdleFits, DefaultIsOne, CountsAssumption DEF Calls, CallOK, Idle
  <2>2. call' = [call EXCEPT ![t] = c]
    BY <1>9 DEF State, FirstTouch
  <2> HIDE DEF c
  <2> QED
    BY <1>1, <1>9, <2>1, <2>2, CallStep DEF State
<1> QED
  BY <1>3, <1>4, <1>5, <1>6, <1>7, <1>8, <1>9

-----------------------------------------------------------------------------
(* Entering a structure.                                                   *)
LEMMA EnterStep ==
  ASSUME IInv, NEW t \in Threads, NEW op \in {"allocate", "free", "expand"},
         NEW a \in Allocators, NEW n \in 0 .. MaxSize, NEW b \in Blocks \cup {Null},
         NEW x, Mine(t, x),
         op = "allocate" => ServedBy(a, n, x),
         op # "allocate" => /\ b \in Blocks
                            /\ block[b].place = "held" /\ block[b].holder = t
                            /\ x = block[b].owner,
         op = "expand" => \E s \in Threads \cup Explicit : x = Runs(s),
         Enter(t, op, a, n, b, x), UNCHANGED <<tls, registry, rnext, block>>
  PROVE  IInv'
<1> DEFINE c == [pc |-> "inside", op |-> op, via |-> a, n |-> n,
                 block |-> b, at |-> x, head |-> Null]
<1>1. c \in Calls
  BY MineIsStructure DEF Calls
<1>2. CallOK(t, c, block)
  BY DEF CallOK
<1>3. call' = [call EXCEPT ![t] = c]
  BY DEF Enter
<1>4. rnext \in [Threads -> Threads \cup {Null}] /\ registry \in Threads \cup {Null}
  BY TypeOKParts DEF IInv
<1> HIDE DEF c
<1> QED
  BY <1>1, <1>2, <1>3, <1>4, CallStep

LEMMA AllocateKeeps ==
  ASSUME IInv, NEW t \in Threads, NEW a \in Allocators, NEW n \in Nat,
         Allocate(t, a, n)
  PROVE  IInv'
<1>1. /\ rnext \in [Threads -> Threads \cup {Null}]
      /\ registry \in Threads \cup {Null} /\ tls[t] \in {t, Null}
  BY TypeOKParts DEF IInv
<1>2. n \in 0 .. MaxSize
  BY CountsAssumption DEF Allocate
<1>3. CASE a.mode = "default" /\ tls[t] = Null
  <2> DEFINE c == [Idle EXCEPT !.pc = "new", !.op = "allocate", !.via = a, !.n = n]
  <2>1. a = Default
    BY <1>3, DefaultMode
  <2>2. c \in Calls /\ CallOK(t, c, block)
    BY <1>2, <2>1, IdleFits DEF Calls, CallOK, Idle
  <2>3. call' = [call EXCEPT ![t] = c]
    BY <1>3 DEF Allocate, FirstTouch
  <2> HIDE DEF c
  <2> QED
    BY <1>1, <2>2, <2>3, CallStep DEF Allocate
<1>4. CASE ~ (a.mode = "default" /\ tls[t] = Null)
  <2> DEFINE x == Serves(n, AllocState(t, a), RunsPtr(t, a))
  <2>1. Mine(t, x) /\ ServedBy(a, n, x)
    BY <1>1, <1>4, AllocateEnters DEF Allocate
  <2>2. Enter(t, "allocate", a, n, Null, x)
    BY <1>4 DEF Allocate
  <2> HIDE DEF x
  <2> QED
    BY <1>2, <2>1, <2>2, EnterStep DEF Allocate
<1> QED
  BY <1>3, <1>4

LEMMA AtLeastType ==
  ASSUME NEW n \in Counts
  PROVE  n \in Nat /\ AtLeast(n) \in Nat
<1>1. n \in Nat /\ MaxSize \in Nat
  BY CountsAssumption
<1>2. n \div 2 \in Nat
  BY <1>1
<1> QED
  BY <1>1, <1>2 DEF AtLeast

LEMMA FinishAllocateKeeps ==
  ASSUME IInv, NEW t \in Threads, FinishAllocate(t)
  PROVE  IInv'
<1> DEFINE c == call[t]
           drained == IF FreeAt(c.at) = {} THEN ParkedAt(c.at) ELSE {}
           ready == FreeAt(c.at) \cup drained
           got == [place |-> "held", at |-> Null, owner |-> c.at,
                   via |-> c.via, n |-> c.n, holder |-> t]
<1>1. /\ call \in [Threads -> Calls] /\ block \in [Blocks -> BlockStates]
      /\ c \in Calls /\ c.pc = "inside" /\ c.op = "allocate"
      /\ call' = [call EXCEPT ![t] = Idle]
      /\ UNCHANGED <<tls, registry, rnext>>
  BY TypeOKParts DEF IInv, FinishAllocate
<1>2. PICK b \in IF ready # {} THEN ready ELSE RawBlocks :
        block' = [d \in Blocks |-> IF d = b THEN got
                                   ELSE IF d \in drained THEN [block[d] EXCEPT !.place = "free"]
                                   ELSE block[d]]
  BY DEF FinishAllocate
<1>3. Mine(t, c.at) /\ ServedBy(c.via, c.n, c.at)
  BY <1>1 DEF IInv, CallOK
<1>4. \A d \in drained : d \in Blocks /\ block[d].place = "parked"
  BY DEF ParkedAt
<1>5. b \in Blocks /\ block[b].place # "held"
  BY <1>2, <1>4 DEF FreeAt, RawBlocks
<1>6. got \in BlockStates /\ BlockOK(got)
  BY <1>1, <1>3, MineIsStructure DEF BlockStates, BlockOK, Calls
<1>7. \A d \in drained : /\ [block[d] EXCEPT !.place = "free"] \in BlockStates
                         /\ BlockOK([block[d] EXCEPT !.place = "free"])
  BY <1>1, <1>4 DEF IInv, BlockStates, BlockOK
<1> HIDE DEF drained, ready, got
<1>8. ASSUME NEW d \in Blocks
      PROVE  /\ block'[d] \in BlockStates /\ BlockOK(block'[d])
             /\ block[d].place = "held" => block'[d] = block[d]
  BY <1>1, <1>2, <1>4, <1>5, <1>6, <1>7 DEF IInv
<1>9. block' \in [Blocks -> BlockStates]
  BY <1>2, <1>8
<1>10. call' \in [Threads -> Calls]
  BY <1>1, IdleFits
<1>11. TypeOK'
  BY <1>1, <1>9, <1>10 DEF IInv, TypeOK, Calls, BlockStates
<1>12. ASSUME NEW u \in Threads
       PROVE  CallOK(u, call'[u], block')
  <2>1. CASE u = t
    BY <1>1, <2>1 DEF Idle, CallOK
  <2>2. CASE u # t
    <3>1. call'[u] = call[u]
      BY <1>1, <2>2
    <3> QED
      BY <1>8, <3>1 DEF IInv, CallOK
  <2> QED
    BY <2>1, <2>2
<1> QED
  BY <1>1, <1>8, <1>11, <1>12 DEF IInv, CallOK, BlockOK, Mine, ServedBy

(* A call that ends without effect on the blocks.                          *)
LEMMA ReturnKeeps ==
  ASSUME IInv, NEW t \in Threads, AllocateFails(t) \/ FinishExpand(t)
  PROVE  IInv'
<1>1. rnext \in [Threads -> Threads \cup {Null}] /\ registry \in Threads \cup {Null}
  BY TypeOKParts DEF IInv
<1>2. call' = [call EXCEPT ![t] = Idle] /\ UNCHANGED <<tls, registry, rnext, block>>
  BY DEF AllocateFails, FinishExpand
<1> QED
  BY <1>1, <1>2, IdleFits, CallStep

(* A block given back at its owner.                                        *)
LEMMA GivenBack ==
  ASSUME NEW place \in {"free", "parked"}, NEW x \in Structures
  PROVE  LET r == [Raw EXCEPT !.place = place, !.at = x, !.owner = x]
         IN  r \in BlockStates /\ BlockOK(r)
<1> DEFINE p == [Raw EXCEPT !.place = place]
           q == [p EXCEPT !.at = x]
           r == [q EXCEPT !.owner = x]
<1>1. Raw \in BlockStates
  BY DefaultIsOne, CountsAssumption DEF Raw, BlockStates
<1>2. p \in BlockStates /\ p.place = place
  BY <1>1 DEF BlockStates
<1> HIDE DEF p
<1>3. q \in BlockStates /\ q.place = place /\ q.at = x
  BY <1>2 DEF BlockStates
<1> HIDE DEF q
<1>4. r \in BlockStates /\ r.place = place /\ r.at = x /\ r.owner = x
  BY <1>3 DEF BlockStates
<1>5. BlockOK(r)
  BY <1>4 DEF BlockOK
<1>6. r = [Raw EXCEPT !.place = place, !.at = x, !.owner = x]
  BY DEF p, q
<1> HIDE DEF r
<1> QED
  BY <1>4, <1>5, <1>6

LEMMA FinishFreeKeeps ==
  ASSUME IInv, NEW t \in Threads, FinishFree(t)
  PROVE  IInv'
<1> DEFINE b == call[t].block
           r == [Raw EXCEPT !.place = "free", !.at = call[t].at, !.owner = block[b].owner]
<1>1. /\ call \in [Threads -> Calls] /\ block \in [Blocks -> BlockStates]
      /\ call[t].pc = "inside" /\ call[t].op = "free"
      /\ block' = [block EXCEPT ![b] = r] /\ call' = [call EXCEPT ![t] = Idle]
      /\ UNCHANGED <<tls, registry, rnext>>
  BY TypeOKParts DEF IInv, FinishFree
<1>2. /\ b \in Blocks /\ block[b].place = "held" /\ block[b].holder = t
      /\ call[t].at = block[b].owner /\ Mine(t, call[t].at)
  BY <1>1 DEF IInv, CallOK
<1>3. call[t].at \in Structures
  BY <1>2, MineIsStructure
<1>4. r \in BlockStates /\ BlockOK(r)
  BY <1>2, <1>3, GivenBack
<1> HIDE DEF b, r
<1>5. /\ block' \in [Blocks -> BlockStates] /\ block'[b] = r
      /\ \A d \in Blocks \ {b} : block'[d] = block[d]
  BY <1>1, <1>2, <1>4
<1>6. call' \in [Threads -> Calls]
  BY <1>1, IdleFits
<1>7. TypeOK'
  BY <1>1, <1>5, <1>6 DEF IInv, TypeOK, Calls, BlockStates
<1>8. ASSUME NEW u \in Threads
      PROVE  CallOK(u, call'[u], block')
  <2>1. CASE u = t
    BY <1>1, <2>1 DEF Idle, CallOK
  <2>2. CASE u # t
    <3>1. call'[u] = call[u]
      BY <1>1, <2>2
    <3>2. call[u].pc = "inside" /\ call[u].op # "allocate" => call[u].block # b
      BY <1>2, <2>2 DEF IInv, CallOK
    <3> QED
      BY <1>5, <3>1, <3>2 DEF IInv, CallOK
  <2> QED
    BY <2>1, <2>2
<1>9. \A d \in Blocks : BlockOK(block'[d])
  BY <1>4, <1>5 DEF IInv
<1> QED
  BY <1>1, <1>7, <1>8, <1>9 DEF IInv, CallOK, BlockOK, Mine, ServedBy

(* A free enters the owner, which is then the thread's, or parks there.    *)
LEMMA DeallocateKeeps ==
  ASSUME IInv, NEW t \in Threads, NEW b \in Blocks, NEW a \in Allocators,
         Deallocate(t, b, a)
  PROVE  IInv'
<1> DEFINE x == block[b].owner
<1>1. /\ call[t].pc = "idle" /\ Usable(t, a)
      /\ block[b].place = "held" /\ block[b].holder = t
      /\ \/ SameAllocator(a, block[b].via)
         \/ a = Default /\ block[b].n = 1 /\ block[b].via.mode = "explicit"
      /\ UNCHANGED <<tls, registry, rnext>>
  BY DEF Deallocate, MayFree
<1>2. /\ block[b] \in BlockStates /\ block \in [Blocks -> BlockStates]
      /\ ServedBy(block[b].via, block[b].n, x) /\ tls[t] \in {t, Null}
  BY <1>1, TypeOKParts DEF IInv, BlockOK
<1>3. block[b].via \in Allocators /\ x \in Structures
  BY <1>2, ServedIsStructure DEF BlockStates
<1>4. a.mode # "default" => ServedBy(a, block[b].n, x)
  BY <1>1, <1>2, <1>3, SameForm, DefaultMode
<1>5. ASSUME RemotePush(t, b, x)
      PROVE  IInv'
  <2>1. \A u \in Threads : call[u].pc = "inside" /\ call[u].op # "allocate"
                             => call[u].block # b
    BY <1>1 DEF IInv, CallOK
  <2>2. block' = [block EXCEPT ![b] = [Raw EXCEPT !.place = "parked", !.at = x, !.owner = x]]
        /\ UNCHANGED call
    BY <1>5 DEF RemotePush
  <2> HIDE DEF x
  <2> QED
    BY <1>1, <1>3, <2>1, <2>2, GivenBack, BlockStep
<1>6. ASSUME Direct(t, "free", b, x), Mine(t, x)
      PROVE  IInv'
  <2>1. 0 \in 0 .. MaxSize
    BY CountsAssumption
  <2> QED
    BY <1>1, <1>6, <2>1, DefaultIsOne, EnterStep DEF Direct
<1>7. CASE block[b].n = 1 /\ (a.mode = "default" \/ a.state # Null)
  <2>1. FreeNodeRouted(t, b, a)
    BY <1>7 DEF Deallocate
  <2>2. CASE a.mode # "default"
    <3>1. Mine(t, Pool(a.state)) /\ x = Pool(a.state)
      BY <1>1, <1>4, <1>7, <2>2, OwnerOfNode
    <3> QED
      BY <1>6, <2>1, <2>2, <3>1 DEF FreeNodeRouted
  <2>3. CASE a.mode = "default" /\ tls[t] # Null /\ x = Pool(tls[t])
    <3>1. Mine(t, x)
      BY <1>2, <2>3 DEF Mine
    <3> QED
      BY <1>6, <2>1, <2>3, <3>1 DEF FreeNodeRouted
  <2>4. CASE a.mode = "default" /\ ~ (tls[t] # Null /\ x = Pool(tls[t]))
    BY <1>5, <2>1, <2>4 DEF FreeNodeRouted
  <2> QED
    BY <2>2, <2>3, <2>4
<1>8. CASE ~ (block[b].n = 1 /\ (a.mode = "default" \/ a.state # Null))
  <2>1. FreeRunRouted(t, b, a)
    BY <1>8 DEF Deallocate
  <2>2. CASE a.mode # "default"
    <3>1. Mine(t, RunsPtr(t, a)) /\ x = RunsPtr(t, a)
      BY <1>1, <1>4, <1>8, <2>2, OwnerOfRun
    <3> QED
      BY <1>6, <2>1, <2>2, <3>1 DEF FreeRunRouted
  <2>3. CASE a.mode = "default" /\ tls[t] # Null /\ x = Runs(tls[t])
    <3>1. Mine(t, x)
      BY <1>2, <2>3 DEF Mine
    <3> QED
      BY <1>6, <2>1, <2>3, <3>1 DEF FreeRunRouted
  <2>4. CASE a.mode = "default" /\ ~ (tls[t] # Null /\ x = Runs(tls[t]))
    BY <1>5, <2>1, <2>4 DEF FreeRunRouted
  <2> QED
    BY <2>2, <2>3, <2>4
<1> QED
  BY <1>7, <1>8

(* An expansion enters the runner that carved the run, never a pool.       *)
LEMMA ExpandKeeps ==
  ASSUME IInv, NEW t \in Threads, NEW b \in Blocks, NEW a \in Allocators,
         NEW w, Expand(t, b, a, w)
  PROVE  IInv'
<1> DEFINE x == block[b].owner
<1>1. /\ Usable(t, a) /\ SameAllocator(a, block[b].via)
      /\ block[b].place = "held" /\ block[b].holder = t
      /\ UNCHANGED <<tls, registry, rnext>>
  BY DEF Expand
<1>2. /\ block[b] \in BlockStates /\ tls[t] \in {t, Null}
      /\ ServedBy(block[b].via, block[b].n, x)
  BY <1>1, TypeOKParts DEF IInv, BlockOK
<1>3. ServedBy(a, block[b].n, x)
  BY <1>1, <1>2, SameForm DEF BlockStates
<1>4. ASSUME Direct(t, "expand", b, x), Mine(t, x),
             \E s \in Threads \cup Explicit : x = Runs(s)
      PROVE  IInv'
  <2>1. 0 \in 0 .. MaxSize
    BY CountsAssumption
  <2> QED
    BY <1>1, <1>4, <2>1, DefaultIsOne, EnterStep DEF Direct
<1>5. CASE a.mode = "default"
  <2>1. tls[t] = t /\ x = Runs(t) /\ Direct(t, "expand", b, x)
    BY <1>2, <1>5 DEF Expand, Owns
  <2>2. Mine(t, x) /\ \E s \in Threads \cup Explicit : x = Runs(s)
    BY <2>1 DEF Mine
  <2> QED
    BY <1>4, <2>1, <2>2
<1>6. CASE a.mode # "default"
  <2>1. /\ a.state = Null \/ x # Pool(a.state)
        /\ Direct(t, "expand", b, RunsPtr(t, a))
    BY <1>6 DEF Expand
  <2>2. block[b].n # 1 \/ a.state = Null
    BY <1>1, <1>3, <1>6, <2>1, OwnerOfNode
  <2>3. /\ Mine(t, RunsPtr(t, a)) /\ x = RunsPtr(t, a)
        /\ \E s \in Threads \cup Explicit : x = Runs(s)
    BY <1>1, <1>3, <1>6, <2>2, OwnerOfRun
  <2> QED
    BY <1>4, <2>1, <2>3
<1> QED
  BY <1>5, <1>6

LEMMA HandoffKeeps ==
  ASSUME IInv, NEW t \in Threads, NEW u \in Threads, NEW b \in Blocks,
         Handoff(t, u, b)
  PROVE  IInv'
<1> DEFINE r == [block[b] EXCEPT !.holder = u]
<1>1. /\ call[t].pc = "idle" /\ block[b].place = "held" /\ block[b].holder = t
      /\ block' = [block EXCEPT ![b] = r] /\ UNCHANGED <<tls, registry, rnext, call>>
  BY DEF Handoff
<1>2. block[b] \in BlockStates /\ BlockOK(block[b])
  BY TypeOKParts DEF IInv
<1>3. r \in BlockStates /\ BlockOK(r)
  BY <1>2 DEF BlockStates, BlockOK
<1>4. \A v \in Threads : call[v].pc = "inside" /\ call[v].op # "allocate"
                          => call[v].block # b
  BY <1>1 DEF IInv, CallOK
<1> HIDE DEF r
<1> QED
  BY <1>1, <1>3, <1>4, BlockStep

-----------------------------------------------------------------------------
LEMMA InitIInv == Init => IInv
<1> SUFFICES ASSUME Init PROVE IInv
  OBVIOUS
<1>1. Raw \in BlockStates /\ BlockOK(Raw)
  BY DefaultIsOne, CountsAssumption DEF Raw, BlockStates, BlockOK
<1>2. TypeOK
  BY <1>1, IdleFits, TypeOKParts DEF Init
<1> QED
  BY <1>1, <1>2, IdleFits DEF Init, IInv

LEMMA NextIInv == IInv /\ [Next]_vars => IInv'
<1> SUFFICES ASSUME IInv, [Next]_vars PROVE IInv'
  OBVIOUS
<1>1. ASSUME NEW t \in Threads, Continue(t) PROVE IInv'
  BY <1>1, CreatingKeeps, FinishAllocateKeeps, ReturnKeeps, FinishFreeKeeps
  DEF Continue
<1>2. ASSUME NEW t \in Threads, Begin(t) PROVE IInv'
  BY <1>2, CreatingKeeps, AllocateKeeps, AtLeastType, DeallocateKeeps, ExpandKeeps
  DEF Begin, AllocateAtLeast
<1>3. ASSUME NEW t \in Threads, NEW u \in Threads, NEW b \in Blocks, Handoff(t, u, b)
      PROVE  IInv'
  BY <1>3, HandoffKeeps
<1>4. CASE UNCHANGED vars
  BY <1>4 DEF vars, IInv, TypeOK, CallOK, BlockOK, Mine, ServedBy
<1> QED
  BY <1>1, <1>2, <1>3, <1>4 DEF Next

LEMMA Inductive == Spec => []IInv
  BY InitIInv, NextIInv, PTL DEF Spec

(* However many threads use however many pools and runners, no two of them *)
(* are ever inside the same one.                                           *)
THEOREM OneThreadInsideHolds == Spec => []OneThreadInside
<1>1. IInv => OneThreadInside
  BY MineApart DEF IInv, OneThreadInside, CallOK
<1> QED
  BY <1>1, Inductive, PTL

(* Every block that comes back, by whichever thread and equal allocator,   *)
(* reaches the structure that carved it, and only runs are expanded.       *)
THEOREM BlocksGoHomeHolds == Spec => []BlocksGoHome
<1>1. IInv => BlocksGoHome
  BY DEF IInv, BlocksGoHome, CallOK, BlockOK
<1> QED
  BY <1>1, Inductive, PTL

-----------------------------------------------------------------------------
(* The registry.                                                           *)

(* The registry lists the published states; a thread on its way to publish *)
(* has no state yet, and at its compare-exchange its state links to the    *)
(* head that it expects.                                                   *)
RegInv ==
  /\ Chain(Published, registry, rnext, Null)
  /\ \A t \in Threads :
       /\ call[t].pc \in {"new", "link", "cas"} => tls[t] = Null
       /\ call[t].pc = "cas" => rnext[t] = call[t].head

RInv == IInv /\ RegInv

LEMMA PublishedThreads ==
  /\ \A t \in Threads : t \in Published <=> tls[t] # Null \/ call[t].pc = "tls"
  /\ Published \subseteq Threads
  BY DEF Published

(* A step of one thread that neither links nor publishes.                  *)
LEMMA RegistryStays ==
  ASSUME RInv, NEW t \in Threads, UNCHANGED <<tls, registry, rnext>>,
         \A u \in Threads : u # t => call'[u] = call[u],
         \/ call'[t].pc = call[t].pc /\ call'[t].head = call[t].head
         \/ call[t].pc # "tls" /\ call'[t].pc \in {"idle", "inside"}
         \/ tls[t] = Null /\ call[t].pc # "tls" /\ call'[t].pc \in {"new", "link"}
  PROVE  RegInv'
<1>1. Published' = Published
  BY DEF Published
<1>2. Chain(Published, registry, rnext, Null)
  BY DEF RInv, RegInv
<1>3. \A u \in Threads :
       /\ call'[u].pc \in {"new", "link", "cas"} => tls'[u] = Null
       /\ call'[u].pc = "cas" => rnext'[u] = call'[u].head
  BY DEF RInv, RegInv
<1> QED
  BY <1>1, <1>2, <1>3 DEF RegInv

(* The state of t links to the head that t has read.                       *)
LEMMA RegistryLink ==
  ASSUME RInv, NEW t \in Threads, Link(t)
  PROVE  RegInv'
<1>1. /\ call \in [Threads -> Calls] /\ rnext \in [Threads -> Threads \cup {Null}]
      /\ call[t].pc = "link" /\ tls[t] = Null
      /\ Chain(Published, registry, rnext, Null)
  BY TypeOKParts DEF RInv, IInv, Link, RegInv
<1>2. /\ rnext' = [rnext EXCEPT ![t] = call[t].head]
      /\ call' = [call EXCEPT ![t].pc = "cas"]
      /\ UNCHANGED <<tls, registry>>
  BY DEF Link
<1>3. /\ rnext'[t] = call[t].head
      /\ \A u \in Threads : u # t => rnext'[u] = rnext[u] /\ call'[u] = call[u]
      /\ call'[t].pc = "cas" /\ call'[t].head = call[t].head
  BY <1>1, <1>2 DEF Calls
<1>4. Published' = Published /\ t \notin Published
  BY <1>1, <1>2, <1>3 DEF Published
<1>5. \A s \in Published : rnext'[s] = rnext[s]
  BY <1>3, <1>4, PublishedThreads
<1>6. Chain(Published, registry, rnext', Null)
  BY <1>1, <1>5, ChainFrame
<1>7. \A u \in Threads :
       /\ call'[u].pc \in {"new", "link", "cas"} => tls'[u] = Null
       /\ call'[u].pc = "cas" => rnext'[u] = call'[u].head
  BY <1>1, <1>2, <1>3 DEF RInv, RegInv
<1> QED
  BY <1>2, <1>4, <1>6, <1>7 DEF RegInv

(* The compare-exchange puts the state of t in front.                      *)
LEMMA RegistryCas ==
  ASSUME RInv, NEW t \in Threads, Cas(t)
  PROVE  RegInv'
<1>1. /\ call \in [Threads -> Calls]
      /\ call[t].pc = "cas" /\ tls[t] = Null /\ rnext[t] = registry
      /\ Chain(Published, registry, rnext, Null)
  BY TypeOKParts DEF RInv, IInv, Cas, RegInv
<1>2. /\ registry' = t
      /\ call' = [call EXCEPT ![t].pc = "tls", ![t].head = Null]
      /\ UNCHANGED <<tls, rnext>>
  BY DEF Cas
<1>3. /\ \A u \in Threads : u # t => call'[u] = call[u]
      /\ call'[t].pc = "tls"
  BY <1>1, <1>2 DEF Calls
<1>4. Published' = Published \cup {t} /\ t \notin Published
  BY <1>1, <1>2, <1>3 DEF Published
<1>5. t # Null
  BY StatesAssumption
<1>6. Chain(Published \cup {t}, t, rnext, Null)
  BY <1>1, <1>4, <1>5, ChainPrepend
<1>7. \A u \in Threads :
       /\ call'[u].pc \in {"new", "link", "cas"} => tls'[u] = Null
       /\ call'[u].pc = "cas" => rnext'[u] = call'[u].head
  BY <1>2, <1>3 DEF RInv, RegInv
<1> QED
  BY <1>2, <1>4, <1>6, <1>7 DEF RegInv

(* The thread remembers the state that it has published.                   *)
LEMMA RegistryRemembered ==
  ASSUME RInv, NEW t \in Threads, SetTls(t)
  PROVE  RegInv'
<1>1. /\ call \in [Threads -> Calls] /\ tls \in [Threads -> Threads \cup {Null}]
      /\ call[t].pc = "tls"
      /\ tls' = [tls EXCEPT ![t] = t] /\ UNCHANGED <<registry, rnext>>
      /\ Chain(Published, registry, rnext, Null)
  BY TypeOKParts DEF RInv, IInv, SetTls, RegInv
<1>2. /\ \A u \in Threads : u # t => call'[u] = call[u] /\ tls'[u] = tls[u]
      /\ call'[t].pc \in {"idle", "inside"} /\ tls'[t] = t /\ t # Null
  <2>1. CASE call[t].op = "state"
    BY <1>1, <2>1, StatesAssumption DEF SetTls, Idle
  <2>2. CASE call[t].op # "state"
    BY <1>1, <2>2, StatesAssumption DEF SetTls, Enter
  <2> QED
    BY <2>1, <2>2
<1>3. Published' = Published
  BY <1>1, <1>2 DEF Published
<1>4. \A u \in Threads :
       /\ call'[u].pc \in {"new", "link", "cas"} => tls'[u] = Null
       /\ call'[u].pc = "cas" => rnext'[u] = call'[u].head
  BY <1>1, <1>2 DEF RInv, RegInv
<1> QED
  BY <1>1, <1>3, <1>4 DEF RegInv

LEMMA RegistryInit == Init => RInv
<1> SUFFICES ASSUME Init PROVE RegInv
  BY InitIInv DEF RInv
<1>1. Published = {} /\ registry = Null
  BY DEF Init, Published, Idle
<1>2. Chain({}, Null, rnext, Null)
  BY ChainEmpty
<1> QED
  BY <1>1, <1>2 DEF RegInv, Init, Idle

(* ... with the call of t becoming c.                                      *)
LEMMA RegistryUntouched ==
  ASSUME RInv, NEW t \in Threads, NEW c, call' = [call EXCEPT ![t] = c],
         UNCHANGED <<tls, registry, rnext>>, call[t].pc # "tls",
         c.pc \in {"idle", "inside"} \/ (tls[t] = Null /\ c.pc \in {"new", "link"})
  PROVE  RegInv'
<1>1. call \in [Threads -> Calls]
  BY TypeOKParts DEF RInv, IInv
<1>2. call'[t] = c /\ \A u \in Threads : u # t => call'[u] = call[u]
  BY <1>1
<1> QED
  BY <1>2, RegistryStays

(* Every other step.                                                       *)
LEMMA RegistryOthers ==
  ASSUME RInv, NEW t \in Threads,
         \/ NewState(t) \/ NewStateFails(t) \/ CasFail(t) \/ State(t)
         \/ FinishAllocate(t) \/ AllocateFails(t) \/ FinishFree(t) \/ FinishExpand(t)
         \/ \E a \in Allocators, n \in Nat : Allocate(t, a, n)
         \/ \E a \in Allocators, b \in Blocks : Deallocate(t, b, a)
         \/ \E w : \E a \in Allocators, b \in Blocks : Expand(t, b, a, w)
         \/ \E u \in Threads, b \in Blocks : Handoff(t, u, b)
  PROVE  RegInv'
<1>1. call \in [Threads -> Calls] /\ call[t] \in Calls
  BY TypeOKParts DEF RInv, IInv
<1>2. call[t].pc \in {"new", "link", "cas"} => tls[t] = Null
  BY DEF RInv, RegInv
<1>3. ASSUME UNCHANGED <<tls, registry, rnext, call>> PROVE RegInv'
  BY <1>3, RegistryStays
<1>4. ASSUME NEW op, NEW a, NEW n, NEW b, NEW x, Enter(t, op, a, n, b, x),
             call[t].pc = "idle", UNCHANGED <<tls, registry, rnext>>
      PROVE  RegInv'
  <2> DEFINE c == [pc |-> "inside", op |-> op, via |-> a, n |-> n,
                   block |-> b, at |-> x, head |-> Null]
  <2>1. c.pc = "inside" /\ call' = [call EXCEPT ![t] = c]
    BY <1>4 DEF Enter
  <2> HIDE DEF c
  <2> QED
    BY <1>4, <2>1, RegistryUntouched
<1>5. ASSUME NEW op, NEW a, NEW n, FirstTouch(t, op, a, n), call[t].pc = "idle",
             tls[t] = Null, UNCHANGED <<tls, registry, rnext>>
      PROVE  RegInv'
  <2>1. [Idle EXCEPT !.pc = "new", !.op = op, !.via = a, !.n = n].pc = "new"
    BY DEF Idle
  <2> QED
    BY <1>5, <2>1, RegistryUntouched DEF FirstTouch
<1>6. CASE NewState(t) \/ CasFail(t)
  <2>1. \E c : call' = [call EXCEPT ![t] = c] /\ c.pc = "link"
    <3> DEFINE c == [call[t] EXCEPT !.pc = "link", !.head = registry]
    <3>1. call' = [call EXCEPT ![t] = c]
      BY <1>1, <1>6 DEF NewState, CasFail
    <3>2. c.pc = "link"
      BY <1>1 DEF Calls
    <3> QED
      BY <3>1, <3>2
  <2> QED
    BY <1>2, <1>6, <2>1, RegistryUntouched DEF NewState, CasFail
<1>7. CASE \/ NewStateFails(t) \/ FinishAllocate(t) \/ AllocateFails(t)
           \/ FinishFree(t) \/ FinishExpand(t)
  <2>1. /\ UNCHANGED <<tls, registry, rnext>> /\ call[t].pc # "tls"
        /\ call' = [call EXCEPT ![t] = Idle]
    BY <1>7 DEF NewStateFails, FinishAllocate, AllocateFails, FinishFree, FinishExpand
  <2>2. Idle.pc = "idle"
    BY DEF Idle
  <2> QED
    BY <2>1, <2>2, RegistryUntouched
<1>8. CASE State(t)
  BY <1>5, <1>8 DEF State
<1>9. ASSUME NEW a \in Allocators, NEW n \in Nat, Allocate(t, a, n) PROVE RegInv'
  BY <1>4, <1>5, <1>9 DEF Allocate
<1>10. ASSUME NEW a \in Allocators, NEW b \in Blocks, Deallocate(t, b, a) PROVE RegInv'
  <2>1. call[t].pc = "idle" /\ UNCHANGED <<tls, registry, rnext>>
    BY <1>10 DEF Deallocate, MayFree
  <2>2. UNCHANGED call \/ \E x : Direct(t, "free", b, x)
    BY <1>10 DEF Deallocate, FreeNodeRouted, FreeRunRouted, RemotePush
  <2> QED
    BY <1>3, <1>4, <2>1, <2>2 DEF Direct
<1>11. ASSUME NEW a \in Allocators, NEW b \in Blocks, NEW w, Expand(t, b, a, w)
       PROVE  RegInv'
  <2>1. call[t].pc = "idle" /\ UNCHANGED <<tls, registry, rnext>>
    BY <1>11 DEF Expand
  <2>2. \E x : Direct(t, "expand", b, x)
    BY <1>11 DEF Expand
  <2> QED
    BY <1>4, <2>1, <2>2 DEF Direct
<1>12. ASSUME NEW u \in Threads, NEW b \in Blocks, Handoff(t, u, b) PROVE RegInv'
  BY <1>3, <1>12 DEF Handoff
<1> QED
  BY <1>6, <1>7, <1>8, <1>9, <1>10, <1>11, <1>12

LEMMA RegistryStep == RInv /\ [Next]_vars => RInv'
<1> SUFFICES ASSUME RInv, [Next]_vars PROVE RegInv'
  BY NextIInv DEF RInv
<1>1. ASSUME NEW t \in Threads, Continue(t) PROVE RegInv'
  BY <1>1, RegistryLink, RegistryCas, RegistryRemembered, RegistryOthers DEF Continue
<1>2. ASSUME NEW t \in Threads, Begin(t) PROVE RegInv'
  <2>1. \A n \in Counts : n \in Nat /\ AtLeast(n) \in Nat
    BY AtLeastType
  <2> QED
    BY <1>2, <2>1, RegistryOthers DEF Begin, AllocateAtLeast
<1>3. ASSUME NEW t \in Threads, NEW u \in Threads, NEW b \in Blocks, Handoff(t, u, b)
      PROVE  RegInv'
  BY <1>3, RegistryOthers
<1>4. CASE UNCHANGED vars
  <2>1. UNCHANGED <<tls, registry, rnext, call>> /\ Published' = Published
    BY <1>4 DEF vars, Published
  <2> QED
    BY <2>1 DEF RInv, RegInv
<1> QED
  BY <1>1, <1>2, <1>3, <1>4 DEF Next

(* Visit follows a list to its end and stays there.                        *)
LEMMA VisitsList ==
  ASSUME NEW S \in SUBSET Threads, Chain(S, registry, rnext, Null)
  PROVE  LET n == Cardinality(S)
         IN  {Visit[k] : k \in 0 .. n - 1} = S /\ Visit[n] = Null
<1> DEFINE N == Cardinality(Threads)
           Follows(V) == V = [k \in 0 .. N |->
                                IF k = 0 THEN registry
                                ELSE IF V[k - 1] = Null THEN Null ELSE rnext[V[k - 1]]]
<1>1. Visit = CHOOSE V : Follows(V)
  BY DEF Visit
<1>2. PICK m \in Nat :
        \E f \in [0 .. m -> S \cup {Null}] : Numbers(f, m, S, registry, rnext, Null)
  BY DEF Chain
<1>3. PICK f \in [0 .. m -> S \cup {Null}] : Numbers(f, m, S, registry, rnext, Null)
  BY <1>2
<1>4. /\ f[0] = registry /\ f[m] = Null /\ Null \notin S
      /\ \A k \in 0 .. m - 1 : f[k] \in S /\ rnext[f[k]] = f[k + 1]
      /\ \A s \in S : \E k \in 0 .. m - 1 : f[k] = s
  BY <1>3 DEF Numbers, Chain
<1>5. N \in Nat /\ m = Cardinality(S) /\ m <= N
  BY <1>3, ThreadsAssumption, FS_CardinalityType, ChainLength
<1> DEFINE Met(k) == IF k <= m THEN f[k] ELSE Null
           G == [k \in 0 .. N |-> Met(k)]
<1> HIDE DEF N
<1>6. Follows(G)
  <2>1. ASSUME NEW k \in 0 .. N
        PROVE  Met(k) = IF k = 0 THEN registry
                        ELSE IF G[k - 1] = Null THEN Null ELSE rnext[G[k - 1]]
    <3>1. CASE k = 0
      BY <1>4, <3>1
    <3>2. CASE k # 0 /\ k <= m
      <4>1. k - 1 \in 0 .. N /\ k - 1 \in 0 .. m - 1 /\ k - 1 <= m /\ (k - 1) + 1 = k
        BY <1>5, <3>2
      <4>2. G[k - 1] = f[k - 1]
        BY <4>1
      <4>3. f[k - 1] # Null /\ rnext[f[k - 1]] = f[k]
        BY <1>4, <4>1
      <4> HIDE DEF G
      <4> QED
        BY <3>2, <4>2, <4>3
    <3>3. CASE k # 0 /\ k > m
      <4>1. k - 1 \in 0 .. N /\ (k - 1 <= m => k - 1 = m)
        BY <1>5, <3>3
      <4>2. G[k - 1] = Null
        BY <1>4, <4>1
      <4> HIDE DEF G
      <4> QED
        BY <1>5, <3>3, <4>2
    <3> QED
      BY <1>5, <3>1, <3>2, <3>3
  <2> HIDE DEF Met
  <2> QED
    BY <2>1
<1> HIDE DEF G
<1>7. Follows(Visit)
  BY <1>1, <1>6, Zenon
<1>8. \A k \in 0 .. N : /\ k = 0 => Visit[k] = registry
                        /\ k # 0 => Visit[k] = IF Visit[k - 1] = Null THEN Null
                                               ELSE rnext[Visit[k - 1]]
  BY <1>7
<1>9. \A k \in 0 .. m : Visit[k] = f[k]
  <2>1. Visit[0] = f[0]
    BY <1>4, <1>5, <1>8
  <2>2. ASSUME NEW k \in 0 .. m - 1, Visit[k] = f[k]
        PROVE  Visit[k + 1] = f[k + 1]
    <3>1. k + 1 \in 0 .. N /\ k + 1 # 0 /\ (k + 1) - 1 = k
      BY <1>5
    <3>2. f[k] # Null /\ rnext[f[k]] = f[k + 1]
      BY <1>4
    <3> QED
      BY <1>8, <2>2, <3>1, <3>2
  <2>3. \A k \in 0 .. m - 1 : Visit[k] = f[k] => Visit[k + 1] = f[k + 1]
    BY <2>2
  <2> QED
    BY <2>1, <2>3, SameFromStart, Zenon
<1>10. Visit[m] = Null
  BY <1>4, <1>9
<1>11. {Visit[k] : k \in 0 .. m - 1} = S
  <2>1. \A k \in 0 .. m - 1 : Visit[k] = f[k]
    BY <1>9
  <2>2. \A k \in 0 .. m - 1 : Visit[k] \in S
    BY <1>4, <2>1
  <2>3. \A s \in S : \E k \in 0 .. m - 1 : Visit[k] = s
    BY <1>4, <2>1
  <2> QED
    BY <2>2, <2>3
<1> QED
  BY <1>5, <1>10, <1>11, Zenon

(* Whatever threads are publishing their states, a walk along              *)
(* registry_next ends, meets no state twice and meets every published one. *)
THEOREM RegistryAlwaysComplete == Spec => []RegistryComplete
<1>1. Spec => []RInv
  BY RegistryInit, RegistryStep, PTL DEF Spec
<1>2. ASSUME RInv PROVE RegistryComplete
  <2>1. Published \in SUBSET Threads /\ Chain(Published, registry, rnext, Null)
    BY <1>2, PublishedThreads DEF RInv, RegInv
  <2>2. LET n == Cardinality(Published)
        IN  {Visit[k] : k \in 0 .. n - 1} = Published /\ Visit[n] = Null
    BY <2>1, VisitsList, Zenon
  <2> QED
    BY <2>2, Zenon DEF RegistryComplete
<1>3. RInv => RegistryComplete
  BY <1>2
<1> QED
  BY <1>1, <1>3, PTL

-----------------------------------------------------------------------------
(* The refinement of AllocatorContract.                                    *)

LEMMA InHands ==
  /\ Hands \in [Threads -> SUBSET Blocks] /\ Origins \in [Blocks -> {block[b].owner : b \in Blocks}]
  /\ \A t \in Threads, b \in Blocks :
        b \in Hands[t] <=> block[b].place = "held" /\ block[b].holder = t
  /\ \A b \in Blocks : Origins[b] = block[b].owner
  BY DEF Hands, Origins

LEMMA InHandsNext ==
  /\ Hands' \in [Threads -> SUBSET Blocks] /\ DOMAIN Origins' = Blocks
  /\ \A t \in Threads, b \in Blocks :
        b \in Hands'[t] <=> block'[b].place = "held" /\ block'[b].holder = t
  /\ \A b \in Blocks : Origins'[b] = block'[b].owner
  BY DEF Hands, Origins

(* Sets of blocks by thread that differ at one thread.                     *)
DifferAt(t, f, g, A) ==
  \A u \in Threads, d \in Blocks : d \in g[u] <=> IF u = t THEN d \in A ELSE d \in f[u]

LEMMA SetsDiffer ==
  ASSUME NEW f \in [Threads -> SUBSET Blocks], NEW g \in [Threads -> SUBSET Blocks],
         NEW t \in Threads, NEW A \in SUBSET Blocks, DifferAt(t, f, g, A)
  PROVE  g = [f EXCEPT ![t] = A]
<1>1. ASSUME NEW u \in Threads
      PROVE  g[u] = IF u = t THEN A ELSE f[u]
  <2>1. g[u] \subseteq Blocks /\ f[u] \subseteq Blocks
    OBVIOUS
  <2>2. CASE u = t
    <3>1. \A d \in Blocks : d \in g[u] <=> d \in A
      BY <2>2 DEF DifferAt
    <3> QED
      BY <2>1, <2>2, <3>1
  <2>3. CASE u # t
    <3>1. \A d \in Blocks : d \in g[u] <=> d \in f[u]
      BY <2>3 DEF DifferAt
    <3> QED
      BY <2>1, <2>3, <3>1
  <2> QED
    BY <2>2, <2>3
<1> QED
  BY <1>1

LEMMA MinePlaces ==
  ASSUME NEW t \in Threads, NEW x, Mine(t, x)
  PROVE  x \in PlacesOf(t)
  BY DEF Mine, PlacesOf

LEMMA UseMeans ==
  ASSUME NEW b \in Blocks
  PROVE  b \in Contract!InUse <=> \E t \in Threads : b \in Hands[t]
  BY DEF Contract!InUse

(* A step that leaves the blocks alone is not seen.                        *)
LEMMA BlocksStay ==
  ASSUME UNCHANGED block
  PROVE  UNCHANGED Contract!vars
  BY DEF Contract!vars, Hands, Origins

(* A block that leaves its holder's hands belongs where it did.            *)
LEMMA BlockReturns ==
  ASSUME IInv, NEW t \in Threads, NEW b \in Blocks, NEW r,
         block[b].place = "held", block[b].holder = t,
         block' = [block EXCEPT ![b] = r],
         r.place # "held", r.owner = block[b].owner
  PROVE  Contract!Next
<1>1. block \in [Blocks -> BlockStates]
  BY TypeOKParts DEF IInv
<1>2. block'[b] = r /\ \A d \in Blocks \ {b} : block'[d] = block[d]
  BY <1>1
<1>3. b \in Hands[t]
  BY InHands
<1>4. ASSUME NEW u \in Threads, NEW d \in Blocks
      PROVE  d \in Hands'[u] <=> d \in Hands[u] /\ d # b
  <2>1. CASE d = b
    BY <1>2, <2>1, InHandsNext
  <2>2. CASE d # b
    BY <1>2, <2>2, InHands, InHandsNext
  <2> QED
    BY <2>1, <2>2
<1>5. \A u \in Threads : b \in Hands[u] => u = t
  BY InHands
<1>6. Hands' = [Hands EXCEPT ![t] = Hands[t] \ {b}]
  <2>1. PICK f \in [Threads -> SUBSET Blocks], A \in SUBSET Blocks :
           f = Hands /\ A = Hands[t] \ {b}
    BY InHands
  <2>2. DifferAt(t, f, Hands', A)
    BY <1>4, <1>5, <2>1 DEF DifferAt
  <2>3. Hands' \in [Threads -> SUBSET Blocks]
    BY InHandsNext
  <2>4. Hands' = [f EXCEPT ![t] = A]
    BY <2>2, <2>3, SetsDiffer
  <2> QED
    BY <2>1, <2>4
<1>7. \A d \in Blocks : Origins'[d] = Origins[d]
  BY <1>2, InHands, InHandsNext
<1>8. Contract!Works(t)
  BY <1>7 DEF Contract!Works
<1>9. Contract!GiveBack(t, b)
  BY <1>6, <1>8 DEF Contract!GiveBack
<1> QED
  BY <1>3, <1>9 DEF Contract!Next

(* A granted block was nobody's, and is of the structure that the thread   *)
(* is inside; parked ones that were taken over stay of that structure.     *)
LEMMA BlockServed ==
  ASSUME IInv, NEW t \in Threads, FinishAllocate(t)
  PROVE  Contract!Next
<1> DEFINE c == call[t]
           drained == IF FreeAt(c.at) = {} THEN ParkedAt(c.at) ELSE {}
           ready == FreeAt(c.at) \cup drained
           got == [place |-> "held", at |-> Null, owner |-> c.at,
                   via |-> c.via, n |-> c.n, holder |-> t]
<1>1. block \in [Blocks -> BlockStates]
  BY TypeOKParts DEF IInv
<1>2. c.pc = "inside" /\ c.op = "allocate"
  BY DEF FinishAllocate
<1>3. c.at \in PlacesOf(t)
  BY <1>2, MinePlaces DEF IInv, CallOK
<1>4. PICK b \in IF ready # {} THEN ready ELSE RawBlocks :
        block' = [d \in Blocks |-> IF d = b THEN got
                                   ELSE IF d \in drained THEN [block[d] EXCEPT !.place = "free"]
                                   ELSE block[d]]
  BY DEF FinishAllocate
<1>5. \A d \in drained : d \in Blocks /\ block[d].place = "parked"
  BY DEF ParkedAt
<1>6. /\ b \in Blocks /\ block[b].place # "held"
      /\ block[b].owner \in {c.at, Null}
  BY <1>4 DEF FreeAt, ParkedAt, RawBlocks, IInv, BlockOK
<1>7. \A d \in drained : /\ [block[d] EXCEPT !.place = "free"].place = "free"
                         /\ [block[d] EXCEPT !.place = "free"].owner = block[d].owner
  BY <1>1, <1>5 DEF BlockStates
<1>8. got.place = "held" /\ got.holder = t /\ got.owner = c.at
  OBVIOUS
<1> HIDE DEF drained, ready, got
<1>9. ASSUME NEW d \in Blocks, d # b
      PROVE  /\ block'[d].place = "held" <=> block[d].place = "held"
             /\ block[d].place = "held" => block'[d] = block[d]
             /\ block'[d].owner = block[d].owner
  BY <1>4, <1>5, <1>7, <1>9
<1>10. block'[b] = got
  BY <1>4, <1>6
<1>11. Origins'[b] = c.at /\ \A d \in Blocks : d # b => Origins'[d] = Origins[d]
  BY <1>6, <1>8, <1>9, <1>10, InHands, InHandsNext
<1>12. b \notin Contract!InUse
  BY <1>6, UseMeans, InHands
<1>13. ASSUME NEW u \in Threads, NEW d \in Blocks
       PROVE  d \in Hands'[u] <=> d \in Hands[u] \/ (u = t /\ d = b)
  <2>1. CASE d = b
    BY <1>6, <1>8, <1>10, <2>1, InHands, InHandsNext
  <2>2. CASE d # b
    BY <1>9, <2>2, InHands, InHandsNext
  <2> QED
    BY <2>1, <2>2
<1>14. Hands' = [Hands EXCEPT ![t] = Hands[t] \cup {b}]
  <2>1. PICK f \in [Threads -> SUBSET Blocks], A \in SUBSET Blocks :
           f = Hands /\ A = Hands[t] \cup {b}
    BY <1>6, InHands
  <2>2. DifferAt(t, f, Hands', A)
    BY <1>13, <2>1 DEF DifferAt
  <2>3. Hands' \in [Threads -> SUBSET Blocks]
    BY InHandsNext
  <2>4. Hands' = [f EXCEPT ![t] = A]
    BY <2>2, <2>3, SetsDiffer
  <2> QED
    BY <2>1, <2>4
<1>15. Contract!Works(t)
  <2>1. Origins[b] \in {c.at, Null} /\ b \notin Contract!InUse
    BY <1>6, <1>12, InHands
  <2> QED
    BY <1>3, <1>11, <2>1 DEF Contract!Works
<1>16. Contract!Serve(t, b)
  BY <1>3, <1>11, <1>14, <1>15 DEF Contract!Serve
<1> QED
  BY <1>6, <1>12, <1>16 DEF Contract!Next

LEMMA FreeSeen ==
  ASSUME IInv, NEW t \in Threads, FinishFree(t)
  PROVE  Contract!Next
<1> DEFINE b == call[t].block
           r == [Raw EXCEPT !.place = "free", !.at = call[t].at, !.owner = block[b].owner]
<1>1. /\ call[t].pc = "inside" /\ call[t].op = "free"
      /\ block' = [block EXCEPT ![b] = r]
  BY DEF FinishFree
<1>2. b \in Blocks /\ block[b].place = "held" /\ block[b].holder = t
  BY <1>1 DEF IInv, CallOK
<1>3. r.place = "free" /\ r.owner = block[b].owner
  BY DEF Raw
<1> HIDE DEF b, r
<1> QED
  BY <1>1, <1>2, <1>3, BlockReturns

(* A free that goes elsewhere parks the block; any other has only begun.   *)
LEMMA DeallocateSeen ==
  ASSUME IInv, NEW t \in Threads, NEW b \in Blocks, NEW a \in Allocators,
         Deallocate(t, b, a)
  PROVE  Contract!Next \/ UNCHANGED Contract!vars
<1> DEFINE x == block[b].owner
           r == [Raw EXCEPT !.place = "parked", !.at = x, !.owner = x]
<1>1. block[b].place = "held" /\ block[b].holder = t
  BY DEF Deallocate, MayFree
<1>2. UNCHANGED block \/ RemotePush(t, b, x)
  BY DEF Deallocate, FreeNodeRouted, FreeRunRouted, Direct
<1>3. r.place = "parked" /\ r.owner = x
  BY DEF Raw
<1>4. CASE RemotePush(t, b, x)
  <2>1. block' = [block EXCEPT ![b] = r]
    BY <1>4 DEF RemotePush
  <2> HIDE DEF r
  <2> QED
    BY <1>1, <1>3, <2>1, BlockReturns
<1> QED
  BY <1>2, <1>4, BlocksStay

LEMMA HandoffSeen ==
  ASSUME IInv, NEW t \in Threads, NEW u \in Threads, NEW b \in Blocks,
         Handoff(t, u, b)
  PROVE  Contract!Next
<1>1. block \in [Blocks -> BlockStates]
  BY TypeOKParts DEF IInv
<1>2. /\ block[b].place = "held" /\ block[b].holder = t
      /\ block' = [block EXCEPT ![b].holder = u]
  BY DEF Handoff
<1>3. /\ block'[b].place = "held" /\ block'[b].holder = u /\ block'[b].owner = block[b].owner
      /\ \A d \in Blocks \ {b} : block'[d] = block[d]
  BY <1>1, <1>2 DEF BlockStates
<1>4. Origins' = Origins
  BY <1>3, InHands, InHandsNext DEF Origins
<1>5. ASSUME NEW v \in Threads, NEW d \in Blocks
      PROVE  d \in Hands'[v] <=> IF d = b THEN v = u ELSE d \in Hands[v]
  BY <1>3, InHands, InHandsNext
<1>6. b \in Hands[t] /\ \A v \in Threads : b \in Hands[v] => v = t
  BY <1>2, InHands
<1>7. Hands' = [[Hands EXCEPT ![t] = Hands[t] \ {b}] EXCEPT ![u] = @ \cup {b}]
  <2>1. PICK f \in [Threads -> SUBSET Blocks] : f = [Hands EXCEPT ![t] = Hands[t] \ {b}]
    BY InHands
  <2>2. /\ f[t] = Hands[t] \ {b} /\ \A v \in Threads : v # t => f[v] = Hands[v]
        /\ Hands' \in [Threads -> SUBSET Blocks] /\ f[u] \cup {b} \in SUBSET Blocks
    BY <2>1, InHands, InHandsNext
  <2>3. ASSUME NEW v \in Threads, NEW d \in Blocks
        PROVE  d \in f[v] <=> d \in Hands[v] /\ d # b
    BY <1>6, <2>2
  <2>4. DifferAt(u, f, Hands', f[u] \cup {b})
    BY <1>5, <2>3 DEF DifferAt
  <2>5. Hands' = [f EXCEPT ![u] = f[u] \cup {b}]
    BY <2>2, <2>4, SetsDiffer
  <2> QED
    BY <2>1, <2>5
<1>8. Contract!Pass(t, u, b)
  BY <1>4, <1>7 DEF Contract!Pass
<1> QED
  BY <1>6, <1>8 DEF Contract!Next

LEMMA ContractInit == Init => Contract!Init
<1> SUFFICES ASSUME Init PROVE Contract!Init
  OBVIOUS
<1>1. \A b \in Blocks : block[b].place = "raw" /\ block[b].owner = Null
  BY DEF Init, Raw
<1> QED
  BY <1>1 DEF Contract!Init, Hands, Origins

LEMMA ContractStep == IInv /\ [Next]_vars => [Contract!Next]_(Contract!vars)
<1> SUFFICES ASSUME IInv, [Next]_vars
             PROVE  Contract!Next \/ UNCHANGED Contract!vars
  OBVIOUS
<1>1. ASSUME NEW t \in Threads, Continue(t)
      PROVE  Contract!Next \/ UNCHANGED Contract!vars
  <2>1. \/ UNCHANGED block \/ FinishAllocate(t) \/ FinishFree(t)
    BY <1>1 DEF Continue, NewState, NewStateFails, Link, Cas, CasFail, SetTls,
                AllocateFails, FinishExpand
  <2> QED
    BY <2>1, BlocksStay, BlockServed, FreeSeen
<1>2. ASSUME NEW t \in Threads, Begin(t)
      PROVE  Contract!Next \/ UNCHANGED Contract!vars
  <2>1. \/ UNCHANGED block
        \/ \E a \in Allocators, b \in Blocks : Deallocate(t, b, a)
    BY <1>2 DEF Begin, State, Allocate, AllocateAtLeast, Expand, Direct
  <2> QED
    BY <2>1, BlocksStay, DeallocateSeen
<1>3. CASE UNCHANGED vars
  BY <1>3, BlocksStay DEF vars
<1> QED
  BY <1>1, <1>2, <1>3, HandoffSeen DEF Next

(* Routed frees, rebound allocators, passes between threads and first      *)
(* touches keep the contract: a block is in one pair of hands, is handed   *)
(* out by a pool or runner that the asking thread may work in, and belongs *)
(* there whoever frees it.                                                 *)
THEOREM StdAllocatorImplementsContract == Spec => ContractSpec
<1>1. IInv /\ [Next]_vars => IInv'
  BY NextIInv
<1>2. IInv /\ [Next]_vars => [Contract!Next]_(Contract!vars)
  BY ContractStep
<1> QED
  BY <1>1, <1>2, ContractInit, Inductive, PTL DEF Spec, ContractSpec, Contract!Spec
=============================================================================

------------------------- MODULE ExclusiveResource -------------------------
(***************************************************************************)
(* The exclusive allocation model: one contiguous block of memory          *)
(* (exclusive_resource.hpp) that at most one container may claim at a time *)
(* through std allocators of any value type (the exclusive specialisation  *)
(* of allocazam_std_allocator).  The resource keeps a ledger of the claim: *)
(* the fewest and the most bytes it may be released with, and its          *)
(* alignment.  expand() raises the most, through an allocator that need    *)
(* not be of the type that made the claim, the pointer being untyped.      *)
(*                                                                         *)
(* The claim is made in bytes and the caller counts elements: block is     *)
(* what the caller has been told and may rightly act on.  Sizes are in     *)
(* bytes; calls that are refused change nothing and are not steps.         *)
(***************************************************************************)
EXTENDS Integers

CONSTANTS Types,       \* value types, [size, align]
          Capacities,  \* element capacities of fixed states considered
          Spaces,      \* aligned bytes of caller-provided backings considered
          Counts,      \* element counts asked for
          MinBytes,    \* minimum_new_bytes asked of expand
          MaxAlign,    \* alignof(std::max_align_t)
          SizeMax,     \* numeric_limits<size_t>::max()
          NoBlock      \* the caller has nothing

ASSUME TypesAssumption ==
  \A t \in Types : t.size \in Nat \ {0} /\ t.align \in Nat \ {0}
ASSUME CountsAssumption ==
  /\ Capacities \subseteq Nat \ {0} /\ Spaces \subseteq Nat
  /\ Counts \subseteq Nat /\ MinBytes \subseteq Nat
ASSUME SizeMaxAssumption ==
  /\ SizeMax \in Nat /\ MaxAlign \in Nat \ {0}
  /\ \A s \in Spaces : s <= SizeMax

(* What a caller knows of its block: its value type, and the fewest and    *)
(* the most bytes it may give it back with.                                *)
Blocks == [type : Types, low : Nat, high : Nat]

ASSUME NoBlockAssumption == NoBlock \notin Blocks

VARIABLES alive,      \* the state object exists
          usable,     \* _usable_bytes
          alignment,  \* _effective_alignment
          claimMin,   \* _claimed_min_bytes
          claimMax,   \* _claimed_max_bytes
          claimAlign, \* _claimed_alignment
          block,      \* the caller's block
          tripped     \* an assertion has failed

resource == <<alive, usable, alignment>>
ledger == <<claimMin, claimMax, claimAlign>>
vars == <<resource, ledger, block, tripped>>

claimed == claimMin # 0

-----------------------------------------------------------------------------
(* The state objects.                                                      *)

MulOverflows(a, b) == a # 0 /\ b # 0 /\ a > SizeMax \div b
StateAlign(t) == IF t.align > MaxAlign THEN t.align ELSE MaxAlign

(* Fixed: usable bytes are the elements' bytes exactly.                    *)
FixedState(t, capacity) ==
  /\ ~ MulOverflows(capacity, t.size)
  /\ usable = capacity * t.size
  /\ alignment = StateAlign(t)

(* Noheap: as many whole elements as the aligned backing holds.            *)
NoHeapState(t, space) ==
  /\ space >= t.size
  /\ usable = (space \div t.size) * t.size
  /\ alignment = StateAlign(t)

Init == /\ \E t \in Types : \/ \E c \in Capacities : FixedState(t, c)
                            \/ \E s \in Spaces : NoHeapState(t, s)
        /\ claimMin = 0 /\ claimMax = 0 /\ claimAlign = 0
        /\ block = NoBlock
        /\ alive = TRUE /\ tripped = FALSE

-----------------------------------------------------------------------------
(* The resource.                                                           *)

(* Mutant: the alignment of the claim is not compared.                     *)
AcceptsAnyAlign(low, high, align) ==
  /\ ~ claimed
  /\ low # 0 /\ low <= high /\ high <= usable

(* claim() accepts.  alignof(T) is a power of two and the base is aligned  *)
(* to the effective alignment, so the two tests on that never refuse.      *)
Accepts(low, high, align) ==
  /\ ~ claimed
  /\ low # 0 /\ low <= high /\ high <= usable
  /\ align # 0 /\ align <= alignment

Claim(t, low, high) ==
  /\ alive
  /\ Accepts(low, high, t.align)
  /\ claimMin' = low /\ claimMax' = high /\ claimAlign' = t.align
  /\ block' = [type |-> t, low |-> low, high |-> high]
  /\ UNCHANGED <<resource, tripped>>

(* Mutant: the largest releasable size is left out.                        *)
ReleasesBelowMax(bytes, align) ==
  claimed /\ claimMin <= bytes /\ bytes < claimMax /\ align = claimAlign

(* release() accepts.                                                      *)
Releases(bytes, align) ==
  claimed /\ claimMin <= bytes /\ bytes <= claimMax /\ align = claimAlign

(* Mutant: the request is not compared with what this type can represent.  *)
ExpandsBlindly(bytes, representable) ==
  claimed /\ bytes > claimMax /\ representable <= usable

(* expand() moves the upper bound.                                         *)
Expands(bytes, representable) ==
  /\ claimed
  /\ bytes > claimMax
  /\ representable >= claimMax /\ representable <= usable
  /\ bytes <= representable

-----------------------------------------------------------------------------
(* The allocators, for a value type t.                                     *)

Representable(t) == (usable \div t.size) * t.size

Countable(t, n) == n # 0 /\ n <= SizeMax \div t.size

Allocate(t, n) == /\ Countable(t, n)
                  /\ Claim(t, n * t.size, n * t.size)

(* allocate_at_least tells the caller how many elements there are.         *)
AllocateAtLeast(t, n) ==
  /\ Countable(t, n)
  /\ n <= usable \div t.size
  /\ t.align <= alignment
  /\ Claim(t, n * t.size, Representable(t))

(* Mutant: the lower bound follows the upper one.                          *)
ExpandAll(t, bytes) ==
  /\ Expands(bytes, Representable(t))
  /\ claimMax' = Representable(t) /\ claimMin' = Representable(t)
  /\ block' = [block EXCEPT !.high = Representable(t)]
  /\ UNCHANGED <<resource, claimAlign, tripped>>

Expand(t, bytes) ==
  /\ Expands(bytes, Representable(t))
  /\ claimMax' = Representable(t)
  /\ block' = [block EXCEPT !.high = Representable(t)]
  /\ UNCHANGED <<resource, claimMin, claimAlign, tripped>>

(* The caller gives its block back with any count between what it asked    *)
(* for and what it was told; an invalid release is asserted and ignored.   *)
Deallocate(n) ==
  /\ block # NoBlock
  /\ LET bytes == n * block.type.size
     IN  /\ block.low <= bytes /\ bytes <= block.high
         /\ IF Releases(bytes, block.type.align)
            THEN claimMin' = 0 /\ claimMax' = 0 /\ claimAlign' = 0 /\ UNCHANGED tripped
            ELSE tripped' = TRUE /\ UNCHANGED ledger
  /\ block' = NoBlock
  /\ UNCHANGED resource

(* The state is destroyed when its caller has nothing left in it; the      *)
(* resource asserts that it is not claimed.                                *)
Destroy == /\ alive /\ block = NoBlock
           /\ alive' = FALSE
           /\ tripped' = (tripped \/ claimed)
           /\ UNCHANGED <<usable, alignment, ledger, block>>

Gone == ~ alive /\ UNCHANGED vars

(* max_size().                                                             *)
MaxSize(t) == IF t.align <= alignment THEN usable \div t.size ELSE 0

Next == \/ \E t \in Types : \/ \E n \in Counts : Allocate(t, n) \/ AllocateAtLeast(t, n)
                            \/ \E b \in MinBytes : Expand(t, b)
        \/ \E n \in Counts : Deallocate(n)
        \/ Destroy \/ Gone

Spec == Init /\ [][Next]_vars

-----------------------------------------------------------------------------
(* Properties.                                                             *)

TypeOK == /\ alive \in BOOLEAN /\ tripped \in BOOLEAN
          /\ usable \in 0 .. SizeMax /\ alignment \in Nat
          /\ claimMin \in Nat /\ claimMax \in Nat /\ claimAlign \in Nat
          /\ block \in Blocks \cup {NoBlock}

(* The ledger, kept in bytes, and what the caller was told, counted in     *)
(* elements and perhaps raised through another element type, never drift   *)
(* apart; and what the caller was told lies within the memory there is.    *)
LedgerMatchesBlock ==
  IF block = NoBlock
  THEN claimMin = 0 /\ claimMax = 0 /\ claimAlign = 0
  ELSE /\ alive
       /\ claimMin # 0 /\ claimMin <= claimMax /\ claimMax <= usable
       /\ block.low = claimMin /\ block.high = claimMax
       /\ block.type.align = claimAlign /\ claimAlign <= alignment

(* A caller that keeps to the allocator protocol never trips an assertion: *)
(* every count between the one it asked for and the one it was told is     *)
(* accepted by release(), and the resource is then free to be destroyed.   *)
NoAssertFires == ~ tripped

(* What the theorems of ExclusiveResourceProofs rest on.                   *)
LedgerInv == TypeOK /\ LedgerMatchesBlock /\ NoAssertFires

(* max_size() is exactly the largest count allocate() accepts while the    *)
(* resource is free, for every value type it is rebound to.                *)
MaxSizeExact ==
  alive /\ ~ claimed =>
    \A t \in Types, n \in Counts \ {0} :
       (Countable(t, n) /\ Accepts(n * t.size, n * t.size, t.align)) <=> n <= MaxSize(t)

(* A claim is never taken over or narrowed while its caller has it: the    *)
(* bounds it may be released with only widen upwards.                      *)
ClaimOnlyWidens ==
  [][(block # NoBlock /\ block' # NoBlock)
        => /\ claimMin' = claimMin /\ claimAlign' = claimAlign
           /\ claimMax' >= claimMax]_vars
=============================================================================

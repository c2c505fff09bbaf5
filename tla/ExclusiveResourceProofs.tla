---------------------- MODULE ExclusiveResourceProofs ----------------------
(***************************************************************************)
(* Proofs about module ExclusiveResource, for every set of value types,    *)
(* capacity, count and alignment.                                          *)
(***************************************************************************)
EXTENDS ExclusiveResource, TLAPS

(* Whole elements never take more bytes than there are, and n of them fit  *)
(* exactly when n is at most the quotient.                                 *)
LEMMA WholeElements ==
  ASSUME NEW u \in Nat, NEW s \in Nat \ {0}
  PROVE  /\ u \div s \in Nat
         /\ (u \div s) * s \in Nat
         /\ (u \div s) * s <= u
         /\ \A n \in Nat : n * s <= u <=> n <= u \div s
<1>1. PICK q \in Nat, r \in 0 .. s - 1 : u = q * s + r /\ q = u \div s
  OBVIOUS
<1>2. ASSUME NEW n \in Nat PROVE n * s <= u <=> n <= q
  <2>1. n <= q => n * s <= q * s
    OBVIOUS
  <2>2. n >= q + 1 => n * s >= (q + 1) * s
    OBVIOUS
  <2>3. (q + 1) * s = q * s + s
    OBVIOUS
  <2> QED BY <1>1, <2>1, <2>2, <2>3
<1> QED BY <1>1, <1>2

LEMMA InitLedger == Init => LedgerInv
<1> SUFFICES ASSUME Init PROVE LedgerInv
  OBVIOUS
<1>1. PICK t \in Types : \/ \E c \in Capacities : FixedState(t, c)
                         \/ \E s \in Spaces : NoHeapState(t, s)
  BY DEF Init
<1>2. t.size \in Nat \ {0} /\ t.align \in Nat
  BY TypesAssumption
<1>3. alignment \in Nat
  BY <1>1, <1>2, SizeMaxAssumption DEF FixedState, NoHeapState, StateAlign
<1>4. usable \in 0 .. SizeMax
  <2>1. ASSUME NEW c \in Capacities, FixedState(t, c) PROVE usable \in 0 .. SizeMax
    <3>1. c \in Nat /\ c * t.size \in Nat
      BY <1>2, CountsAssumption
    <3>2. c <= SizeMax \div t.size
      BY <1>2, <2>1, <3>1, CountsAssumption, SizeMaxAssumption, WholeElements
      DEF FixedState, MulOverflows
    <3> QED BY <1>2, <2>1, <3>1, <3>2, SizeMaxAssumption, WholeElements DEF FixedState
  <2>2. ASSUME NEW s \in Spaces, NoHeapState(t, s) PROVE usable \in 0 .. SizeMax
    <3>1. s \in Nat /\ s <= SizeMax
      BY CountsAssumption, SizeMaxAssumption
    <3>2. (s \div t.size) * t.size \in Nat /\ (s \div t.size) * t.size <= s
      BY <1>2, <3>1, WholeElements
    <3> QED BY <2>2, <3>1, <3>2, SizeMaxAssumption DEF NoHeapState
  <2> QED BY <1>1, <2>1, <2>2
<1> QED BY <1>3, <1>4
        DEF Init, LedgerInv, TypeOK, LedgerMatchesBlock, NoAssertFires

(* A claim that is accepted starts a ledger that agrees with its caller.   *)
LEMMA ClaimKeeps ==
  ASSUME LedgerInv, NEW t \in Types, NEW low \in Nat, NEW high \in Nat,
         Claim(t, low, high)
  PROVE  LedgerInv'
<1>1. block' \in Blocks /\ block' # NoBlock
  BY NoBlockAssumption DEF Claim, Blocks
<1>2. t.align \in Nat
  BY TypesAssumption
<1> QED BY <1>1, <1>2 DEF LedgerInv, TypeOK, LedgerMatchesBlock, NoAssertFires,
                          Claim, Accepts, claimed, resource

LEMMA ExpandKeeps ==
  ASSUME LedgerInv, NEW t \in Types, NEW b \in MinBytes, Expand(t, b)
  PROVE  LedgerInv'
<1>1. Representable(t) \in Nat
  BY TypesAssumption, WholeElements DEF Representable, LedgerInv, TypeOK
<1>2. block \in Blocks /\ block # NoBlock
  BY DEF LedgerInv, TypeOK, LedgerMatchesBlock, Expand, Expands, claimed
<1>3. /\ block' \in Blocks /\ block' # NoBlock
      /\ block'.type = block.type /\ block'.low = block.low
      /\ block'.high = Representable(t)
  BY <1>1, <1>2, NoBlockAssumption DEF Expand, Blocks
<1> QED BY <1>1, <1>2, <1>3, CountsAssumption
        DEF LedgerInv, TypeOK, LedgerMatchesBlock, NoAssertFires, Expand, Expands,
            claimed, resource

(* Whatever the caller may rightly release is released.                    *)
LEMMA DeallocateKeeps ==
  ASSUME LedgerInv, NEW n \in Counts, Deallocate(n)
  PROVE  LedgerInv'
<1> DEFINE bytes == n * block.type.size
<1>1. Releases(bytes, block.type.align)
  BY DEF LedgerInv, LedgerMatchesBlock, Deallocate, Releases, claimed
<1> QED BY <1>1 DEF LedgerInv, TypeOK, LedgerMatchesBlock, NoAssertFires, Deallocate,
                    resource, ledger

LEMMA LedgerStep == LedgerInv /\ [Next]_vars => LedgerInv'
<1> SUFFICES ASSUME LedgerInv, [Next]_vars PROVE LedgerInv'
  OBVIOUS
<1>1. ASSUME NEW t \in Types, NEW n \in Counts, Allocate(t, n) PROVE LedgerInv'
  <2>1. n * t.size \in Nat
    BY TypesAssumption, CountsAssumption
  <2> QED BY <1>1, <2>1, ClaimKeeps DEF Allocate
<1>2. ASSUME NEW t \in Types, NEW n \in Counts, AllocateAtLeast(t, n) PROVE LedgerInv'
  <2>1. n * t.size \in Nat
    BY TypesAssumption, CountsAssumption
  <2>2. Representable(t) \in Nat
    BY TypesAssumption, WholeElements DEF Representable, LedgerInv, TypeOK
  <2> QED BY <1>2, <2>1, <2>2, ClaimKeeps DEF AllocateAtLeast
<1>3. CASE Destroy
  BY <1>3 DEF LedgerInv, TypeOK, LedgerMatchesBlock, NoAssertFires, Destroy, ledger, claimed
<1>4. CASE Gone \/ UNCHANGED vars
  BY <1>4 DEF LedgerInv, TypeOK, LedgerMatchesBlock, NoAssertFires, Gone, vars,
              resource, ledger
<1> QED BY <1>1, <1>2, <1>3, <1>4, ExpandKeeps, DeallocateKeeps DEF Next

(* The ledger of the resource and what its caller was told agree for ever, *)
(* whatever types the memory is rebound to.                                *)
THEOREM LedgerInvariant == Spec => []LedgerInv
<1> QED BY InitLedger, LedgerStep, PTL DEF Spec

(* No caller that keeps to the allocator protocol trips an assertion of    *)
(* release() or of the destructor.                                         *)
THEOREM AssertionsHold == Spec => []NoAssertFires
<1>1. LedgerInv => NoAssertFires
  BY DEF LedgerInv
<1> QED BY <1>1, LedgerInvariant, PTL

(* max_size() is the exact limit of allocate() on a free resource.         *)
THEOREM MaxSizeIsExact == Spec => []MaxSizeExact
<1>1. LedgerInv => MaxSizeExact
  <2> SUFFICES ASSUME LedgerInv, alive, ~ claimed, NEW t \in Types,
                      NEW n \in Counts \ {0}
               PROVE  (Countable(t, n) /\ Accepts(n * t.size, n * t.size, t.align))
                        <=> n <= MaxSize(t)
    BY DEF MaxSizeExact
  <2>1. /\ n \in Nat /\ n # 0
        /\ usable \in Nat /\ usable <= SizeMax /\ alignment \in Nat
    BY CountsAssumption, SizeMaxAssumption DEF LedgerInv, TypeOK
  <2>2. t.size \in Nat \ {0} /\ t.align \in Nat \ {0}
    BY TypesAssumption
  <2>3. n * t.size \in Nat /\ n * t.size # 0
    BY <2>1, <2>2
  <2>4. n * t.size <= usable <=> n <= usable \div t.size
    BY <2>1, <2>2, WholeElements
  <2>5. n * t.size <= usable => n <= SizeMax \div t.size
    BY <2>1, <2>2, <2>3, SizeMaxAssumption, WholeElements
  <2> QED BY <2>1, <2>2, <2>3, <2>4, <2>5 DEF Countable, Accepts, MaxSize
<1> QED BY <1>1, LedgerInvariant, PTL

(* While a caller has the resource its claim only widens upwards.          *)
THEOREM ClaimsOnlyWiden == Spec => ClaimOnlyWidens
<1> DEFINE Widens == (block # NoBlock /\ block' # NoBlock)
                        => /\ claimMin' = claimMin /\ claimAlign' = claimAlign
                           /\ claimMax' >= claimMax
<1>1. LedgerInv /\ [Next]_vars => [Widens]_vars
  <2> SUFFICES ASSUME LedgerInv, Next, block # NoBlock, block' # NoBlock
               PROVE  Widens
    OBVIOUS
  <2>1. claimed /\ claimMax \in Nat
    BY DEF LedgerInv, LedgerMatchesBlock, TypeOK, claimed
  <2>2. (\E t \in Types, b \in MinBytes : Expand(t, b)) \/ Gone
    BY <2>1 DEF Next, Allocate, AllocateAtLeast, Claim, Accepts, Deallocate, Destroy
  <2>3. ASSUME NEW t \in Types, NEW b \in MinBytes, Expand(t, b) PROVE Widens
    <3>1. Representable(t) \in Nat
      BY TypesAssumption, SizeMaxAssumption, WholeElements
      DEF Representable, LedgerInv, TypeOK
    <3> QED BY <2>1, <2>3, <3>1 DEF Expand, Expands
  <2>4. CASE Gone
    BY <2>1, <2>4 DEF Gone, vars, ledger
  <2> QED BY <2>2, <2>3, <2>4
<1> QED BY <1>1, LedgerInvariant, PTL DEF Spec, ClaimOnlyWidens
=============================================================================

---------------------------- MODULE RunnerProofs ----------------------------
(***************************************************************************)
(* For every page size, arena, width of size_t and set of requests: the    *)
(* runs tile their chunks, free neighbours are merged, boundary tags and   *)
(* bins are exact, _find_fit neither overlooks a run nor returns one that  *)
(* is too small, no run is lost between its callers, the remote stack and  *)
(* the bins, and Runner implements RunnerContract.                         *)
(*                                                                         *)
(* None of these is inductive alone: a merge trusts the flag and the       *)
(* footer, _find_fit the bins, and a refit after growing the epilogue.     *)
(* The invariant joins them with what is known inside a call.              *)
(*                                                                         *)
(* The first half is about the boundary-tag memory alone: how sizes are    *)
(* rounded and binned, what the primitives on headers, footers and bins    *)
(* do, and that freeing, splitting and expanding keep the memory well      *)
(* formed.  Every rewriting of a part of it, whichever function does it,   *)
(* is brought into one form, Carved: the runs between two headers a and e  *)
(* are replaced by a run in use up to c and a free run from c on, either   *)
(* of which may be empty.                                                  *)
(***************************************************************************)
EXTENDS Runner, FiniteSetTheorems, WellFoundedInduction, TLAPS

-----------------------------------------------------------------------------
(* Rounding.                                                               *)

LEMMA Dividing ==
  ASSUME NEW n \in Nat \ {0}, NEW a \in Int
  PROVE  \E q \in Int, r \in 0 .. n - 1 :
           /\ a \div n = q /\ a % n = r
           /\ a = q * n + r
<1>1. a \div n \in Int /\ a % n \in 0 .. n - 1 /\ a = (a \div n) * n + (a % n)
  OBVIOUS
<1> QED
  BY <1>1, Zenon

LEMMA Products == \A p, n \in Int : p * n \in Int
  OBVIOUS

(* A remainder of multiples of 16 is one.                                  *)
LEMMA SixteensMod ==
  ASSUME NEW x \in Nat, x % 16 = 0, NEW n \in Nat \ {0}, n % 16 = 0
  PROVE  x % n \in Nat /\ (x % n) % 16 = 0 /\ x % n <= x
<1>1. PICK q \in Int, r \in 0 .. n - 1 : x \div n = q /\ x % n = r /\ x = q * n + r
  BY Dividing
<1>2. PICK k \in Int : n = 16 * k
  OBVIOUS
<1>3. PICK j \in Int : x = 16 * j
  OBVIOUS
<1>4. q * n = 16 * (q * k) /\ q * k \in Int
  BY <1>2, Products
<1>5. r = 16 * (j - q * k)
  BY <1>1, <1>3, <1>4
<1>6. r % 16 = 0
  <2> DEFINE d == j - q * k
  <2>1. d \in Int /\ r = 16 * d
    BY <1>4, <1>5
  <2> HIDE DEF d
  <2> QED
    BY <2>1
<1>7. q >= 0
  <2>1. SUFFICES ASSUME q < 0 PROVE FALSE
    OBVIOUS
  <2>2. (q + 1) * n <= 0
    BY <2>1
  <2>3. (q + 1) * n = q * n + n
    OBVIOUS
  <2> QED
    BY <1>1, <2>2, <2>3, Products
<1>8. q * n >= 0
  BY <1>7
<1> QED
  BY <1>1, <1>6, <1>8, Products

(* _align_up_pow2: the next multiple.                                      *)
LEMMA AlignUpNext ==
  ASSUME NEW a \in Nat \ {0}, NEW v \in Nat
  PROVE  /\ AlignUp(v, a) \in Nat
         /\ v <= AlignUp(v, a) /\ AlignUp(v, a) < v + a
         /\ a % 16 = 0 => AlignUp(v, a) % 16 = 0
<1>1. PICK q \in Int, r \in 0 .. a - 1 :
         (v + a - 1) \div a = q /\ (v + a - 1) % a = r /\ v + a - 1 = q * a + r
  <2>1. v + a - 1 \in Int
    OBVIOUS
  <2> QED
    BY <2>1, Dividing
<1>2. AlignUp(v, a) = q * a
  BY <1>1 DEF AlignUp
<1>3. q * a \in Int
  BY Products
<1>4. a % 16 = 0 => (q * a) % 16 = 0
  <2>1. SUFFICES ASSUME a % 16 = 0 PROVE (q * a) % 16 = 0
    OBVIOUS
  <2>2. PICK k \in Int : a = 16 * k
    BY <2>1
  <2>3. q * a = 16 * (q * k) /\ q * k \in Int
    BY <2>2, Products
  <2> DEFINE d == q * k
  <2>4. d \in Int /\ q * a = 16 * d
    BY <2>3
  <2> HIDE DEF d
  <2> QED
    BY <2>4
<1> QED
  BY <1>1, <1>2, <1>3, <1>4

LEMMA MaxOfTwo ==
  ASSUME NEW x \in Int, NEW y \in Int
  PROVE  Max({x, y}) = IF x >= y THEN x ELSE y
<1> DEFINE high == IF x >= y THEN x ELSE y
<1>1. high \in {x, y} /\ \A z \in {x, y} : high >= z
  OBVIOUS
<1>2. \A t \in {x, y} : (\A z \in {x, y} : t >= z) => t = high
  OBVIOUS
<1> QED
  BY <1>1, <1>2 DEF Max

LEMMA MinOfTwo ==
  ASSUME NEW x \in Int, NEW y \in Int
  PROVE  Min({x, y}) = IF x <= y THEN x ELSE y
<1> DEFINE low == IF x <= y THEN x ELSE y
<1>1. low \in {x, y} /\ \A z \in {x, y} : low <= z
  OBVIOUS
<1>2. \A t \in {x, y} : (\A z \in {x, y} : t <= z) => t = low
  OBVIOUS
<1> QED
  BY <1>1, <1>2 DEF Min

(* Every set of naturals that is not empty has its least element.          *)
LEMMA MinOfNaturals ==
  ASSUME NEW S, S \subseteq Nat, S # {}
  PROVE  Min(S) \in S /\ \A x \in S : Min(S) <= x
<1> DEFINE R == OpToRel(<, Nat)
<1>1. IsWellFoundedOn(R, Nat)
  BY NatLessThanWellFounded
<1>2. \A x, y \in Nat : <<x, y>> \in R <=> x < y
  BY DEF OpToRel
<1> HIDE DEF R
<1>3. \E x \in S : \A y \in S : <<y, x>> \notin R
  BY <1>1, WFMin, Zenon
<1>4. PICK x \in S : \A y \in S : <<y, x>> \notin R
  BY <1>3, Zenon
<1>5. ASSUME NEW y \in S PROVE x <= y
  <2>1. x \in Nat /\ y \in Nat /\ <<y, x>> \notin R
    BY <1>4, Zenon
  <2>2. ~(y < x)
    BY <1>2, <2>1, Zenon
  <2> QED
    BY <2>1, <2>2
<1> QED
  BY <1>5 DEF Min

-----------------------------------------------------------------------------
(* Sizes and bins.                                                         *)

Sixteens == {n \in Nat : n % 16 = 0}

LEMMA WordFacts ==
  /\ WordBits \in Nat /\ SizeMax \in Nat /\ (SizeMax + 1) % 16 = 0
  /\ MaxBytes \in Nat /\ MaxBytes < SizeMax
  /\ PageSize \in Nat \ {0} /\ PageSize % 16 = 0
  BY WordAssumption, BytesAssumption, PageAssumption DEF RunAlignment

(* A run's size: enough for header and payload when the sum is             *)
(* representable, and in any case a size that a run may have.              *)
LEMMA RunBytes ==
  ASSUME NEW bytes \in 0 .. SizeMax
  PROVE  /\ RunBytesFor(bytes) \in Sixteens /\ RunBytesFor(bytes) >= MinFreeRunSize
         /\ Normalizes(bytes) => RunBytesFor(bytes) >= bytes + HeaderSize
<1> DEFINE sum == HeaderSize + AlignUp(bytes, RunAlignment)
           raw == sum % (SizeMax + 1)
<1>1. AlignUp(bytes, 16) \in Nat /\ bytes <= AlignUp(bytes, 16) /\ AlignUp(bytes, 16) % 16 = 0
  BY AlignUpNext, WordFacts
<1>2. sum \in Nat /\ sum % 16 = 0 /\ sum >= bytes + HeaderSize
  BY <1>1, WordFacts DEF HeaderSize, RunAlignment
<1>3. raw \in Nat /\ raw % 16 = 0
  <2>1. SizeMax + 1 \in Nat \ {0} /\ (SizeMax + 1) % 16 = 0
    BY WordFacts
  <2> HIDE DEF sum
  <2> QED
    BY <1>2, <2>1, SixteensMod
<1>4. Normalizes(bytes) => raw = sum
  <2>1. SUFFICES ASSUME Normalizes(bytes) PROVE raw = sum
    OBVIOUS
  <2>2. sum < SizeMax + 1
    BY <1>2, <2>1, WordFacts DEF Normalizes, RunAlignment
  <2> HIDE DEF sum
  <2> QED
    BY <1>2, <2>2, WordFacts
<1> HIDE DEF raw, sum
<1>5. Max({raw, MinFreeRunSize}) = IF raw >= MinFreeRunSize THEN raw ELSE MinFreeRunSize
  BY <1>3, MaxOfTwo DEF MinFreeRunSize
<1>6. RunBytesFor(bytes) = Max({raw, MinFreeRunSize})
  BY DEF raw, sum, RunBytesFor
<1>7. RunBytesFor(bytes) = IF raw >= 48 THEN raw ELSE 48
  BY <1>5, <1>6 DEF MinFreeRunSize
<1>8. RunBytesFor(bytes) \in Nat /\ RunBytesFor(bytes) % 16 = 0 /\ RunBytesFor(bytes) >= 48
  BY <1>3, <1>7
<1>9. Normalizes(bytes) => RunBytesFor(bytes) >= bytes + HeaderSize
  BY <1>2, <1>3, <1>4, <1>7 DEF HeaderSize
<1> QED
  BY <1>8, <1>9 DEF Sixteens, MinFreeRunSize

LEMMA NeededBytes ==
  ASSUME NEW bytes \in Requests
  PROVE  /\ AtLeastOne(bytes) \in 0 .. SizeMax \/ bytes = 0
         /\ Normalizes(AtLeastOne(bytes)) => Needed(bytes) >= bytes + HeaderSize
         /\ Needed(bytes) \in Sixteens /\ Needed(bytes) >= MinFreeRunSize
<1>1. bytes \in 0 .. SizeMax
  BY RequestAssumption
<1>2. AtLeastOne(bytes) = IF bytes >= 1 THEN bytes ELSE 1
  BY <1>1, MaxOfTwo, WordFacts DEF AtLeastOne
<1>3. SizeMax >= 1
  BY WordFacts
<1>4. AtLeastOne(bytes) \in 0 .. SizeMax /\ bytes <= AtLeastOne(bytes)
  BY <1>1, <1>2, <1>3, WordFacts
<1> HIDE DEF AtLeastOne
<1> QED
  BY <1>1, <1>4, RunBytes DEF Needed, Sixteens, MinFreeRunSize, HeaderSize

(* bit_width: larger numbers have no fewer digits.                         *)
LEMMA BitWidthGrows ==
  ASSUME NEW v \in Nat, NEW w \in Nat, v <= w
  PROVE  /\ BitWidth(v) \in Nat /\ BitWidth(w) \in Nat
         /\ BitWidth(v) <= BitWidth(w)
<1> DEFINE digits(n) == {k \in 0 .. WordBits - 1 : 2 ^ k <= n}
<1>1. IsFiniteSet(0 .. WordBits - 1)
  BY FS_Interval, WordFacts
<1>2. /\ digits(v) \in SUBSET (0 .. WordBits - 1)
      /\ digits(w) \in SUBSET (0 .. WordBits - 1)
  OBVIOUS
<1>3. IsFiniteSet(digits(v)) /\ IsFiniteSet(digits(w))
  BY <1>1, <1>2, FS_Subset
<1>4. digits(v) \in SUBSET digits(w)
  <2>1. \A k \in 0 .. WordBits - 1 : 2 ^ k <= v => 2 ^ k <= w
    <3>1. TAKE k \in 0 .. WordBits - 1
    <3>2. 2 ^ k \in Nat
      BY WordAssumption
    <3> QED
      BY <3>2
  <2> QED
    BY <2>1
<1>5. Cardinality(digits(v)) \in Nat /\ Cardinality(digits(w)) \in Nat
  BY <1>3, FS_CardinalityType
<1>6. Cardinality(digits(v)) <= Cardinality(digits(w))
  BY <1>3, <1>4, FS_Subset
<1>7. BitWidth(v) = Cardinality(digits(v)) /\ BitWidth(w) = Cardinality(digits(w))
  BY DEF BitWidth
<1> QED
  BY <1>5, <1>6, <1>7

(* _bin_index_for, for the sizes that runs have: linear bins hold one size *)
(* each, logarithmic bins come after them, in the order of size.           *)
LEMMA BinConstants ==
  MinBinBytes = 8 /\ LinearCutoff = 4096 /\ LinearBins = 512 /\ BinCount = 536
  BY DEF MinBinBytes, LinearCutoff, LinearBins, BinCount

LEMMA BinOfSize ==
  ASSUME NEW n \in Sixteens
  PROVE  /\ n < 4096 => BinIndexFor(n) = n \div 8 /\ BinIndexFor(n) \in 0 .. 511
         /\ n >= 4096 =>
              \E log \in Nat :
                 /\ log = BitWidth(n + 7) - BitWidth(4096)
                 /\ BinIndexFor(n) = IF log < 23 THEN 512 + log ELSE 535
<1>1. n \in Nat /\ n % 16 = 0
  BY DEF Sixteens
<1>2. Odd(n) = n + 1
  BY <1>1 DEF Odd
<1>3. AlignUp(Odd(n), 8) = n + 8
  BY <1>1, <1>2 DEF AlignUp
<1>4. CASE n < 4096
  <2>1. BinIndexFor(n) = ((n + 8) \div 8) - 1
    BY <1>1, <1>3, <1>4, BinConstants DEF BinIndexFor
  <2>2. ((n + 8) \div 8) - 1 = n \div 8 /\ n \div 8 \in 0 .. 511
    BY <1>1, <1>4
  <2> QED
    BY <1>1, <1>4, <2>1, <2>2
<1>5. CASE n >= 4096
  <2> DEFINE log == BitWidth(n + 7) - BitWidth(4096)
  <2>1. BinIndexFor(n) = Min({512 + log, 535})
    <3> DEFINE aligned == AlignUp(Odd(n), MinBinBytes)
    <3>1. BinIndexFor(n) =
            IF aligned <= LinearCutoff THEN (aligned \div MinBinBytes) - 1
            ELSE Min({LinearBins + (BitWidth(aligned - 1) - BitWidth(LinearCutoff)), BinCount - 1})
      BY Zenon DEF BinIndexFor
    <3>2. aligned = n + 8
      BY <1>3, BinConstants
    <3> HIDE DEF aligned
    <3>3. aligned - 1 = n + 7 /\ ~(aligned <= LinearCutoff) /\ BinCount - 1 = 535
      BY <1>1, <1>5, <3>2, BinConstants
    <3>4. BinIndexFor(n) = Min({LinearBins + (BitWidth(n + 7) - BitWidth(LinearCutoff)), 535})
      BY <3>1, <3>3, Zenon
    <3> QED
      BY <3>4, BinConstants DEF log
  <2>2. log \in Nat
    BY <1>1, <1>5, BitWidthGrows
  <2> HIDE DEF log
  <2>3. Min({512 + log, 535}) = IF 512 + log <= 535 THEN 512 + log ELSE 535
    BY <2>2, MinOfTwo
  <2>4. BinIndexFor(n) = IF log < 23 THEN 512 + log ELSE 535
    BY <2>1, <2>2, <2>3
  <2> QED
    BY <1>1, <1>5, <2>2, <2>4 DEF log
<1> QED
  BY <1>1, <1>4, <1>5

LEMMA BinRange ==
  ASSUME NEW n \in Sixteens
  PROVE  /\ BinIndexFor(n) \in 0 .. BinCount - 1
         /\ BinIndexFor(n) < LinearBins => n < 4096
<1>1. n \in Nat
  BY DEF Sixteens
<1>2. CASE n < 4096
  <2>1. BinIndexFor(n) \in 0 .. 511
    BY <1>2, BinOfSize
  <2> QED
    BY <1>2, <2>1, BinConstants
<1>3. CASE n >= 4096
  <2>1. PICK log \in Nat : BinIndexFor(n) = IF log < 23 THEN 512 + log ELSE 535
    BY <1>3, BinOfSize
  <2> QED
    BY <2>1, BinConstants
<1> QED
  BY <1>1, <1>2, <1>3

LEMMA BinOrder ==
  ASSUME NEW n \in Sixteens, NEW k \in Sixteens, n <= k
  PROVE  BinIndexFor(n) <= BinIndexFor(k)
<1>1. n \in Nat /\ k \in Nat
  BY DEF Sixteens
<1>2. CASE k < 4096
  <2>1. BinIndexFor(n) = n \div 8
    BY <1>1, <1>2, BinOfSize
  <2>2. BinIndexFor(k) = k \div 8
    BY <1>2, BinOfSize
  <2> QED
    BY <1>1, <2>1, <2>2
<1>3. CASE n < 4096 /\ k >= 4096
  <2>1. BinIndexFor(n) \in 0 .. 511
    BY <1>3, BinOfSize
  <2>2. PICK log \in Nat : BinIndexFor(k) = IF log < 23 THEN 512 + log ELSE 535
    BY <1>3, BinOfSize
  <2> QED
    BY <2>1, <2>2
<1>4. CASE n >= 4096
  <2>1. k >= 4096
    BY <1>1, <1>4
  <2>2. /\ BitWidth(n + 7) \in Nat /\ BitWidth(k + 7) \in Nat
        /\ BitWidth(n + 7) <= BitWidth(k + 7)
    BY <1>1, BitWidthGrows
  <2>3. BitWidth(4096) \in Nat
    BY BitWidthGrows
  <2>4. PICK x \in Nat : /\ x = BitWidth(n + 7) - BitWidth(4096)
                         /\ BinIndexFor(n) = IF x < 23 THEN 512 + x ELSE 535
    BY <1>4, BinOfSize
  <2>5. PICK y \in Nat : /\ y = BitWidth(k + 7) - BitWidth(4096)
                         /\ BinIndexFor(k) = IF y < 23 THEN 512 + y ELSE 535
    BY <2>1, BinOfSize
  <2>6. x <= y
    BY <2>2, <2>3, <2>4, <2>5
  <2> QED
    BY <2>4, <2>5, <2>6
<1> QED
  BY <1>1, <1>2, <1>3, <1>4

LEMMA LinearBinsExact ==
  ASSUME NEW n \in Sixteens, NEW k \in Sixteens,
         BinIndexFor(n) = BinIndexFor(k), BinIndexFor(n) < LinearBins
  PROVE  n = k
<1>1. n \in Nat /\ n % 16 = 0 /\ k \in Nat /\ k % 16 = 0
  BY DEF Sixteens
<1>2. n < 4096 /\ k < 4096
  BY BinRange
<1>3. BinIndexFor(n) = n \div 8
  BY <1>2, BinOfSize
<1>4. BinIndexFor(k) = k \div 8
  BY <1>2, BinOfSize
<1>5. n \div 8 = k \div 8
  BY <1>3, <1>4
<1> QED
  BY <1>1, <1>5

-----------------------------------------------------------------------------
(* The primitives: what each of them changes.                              *)

Header == [size : Nat, free : BOOLEAN, prevFree : BOOLEAN]

(* A memory as a value: four parts, typed headers, footers at addresses,   *)
(* and a bitmask that has the bit of every bin with a run in it and no     *)
(* other.                                                                  *)
Memory(m) ==
  /\ m = [hdr |-> m.hdr, foot |-> m.foot, bin |-> m.bin, mask |-> m.mask]
  /\ \A x \in DOMAIN m.hdr : m.hdr[x] \in Header
  /\ DOMAIN m.foot \subseteq Nat
  /\ m.mask = {m.bin[x] : x \in DOMAIN m.bin}

LEMMA HeaderFields ==
  ASSUME NEW r \in Header
  PROVE  /\ r.size \in Nat /\ r.free \in BOOLEAN /\ r.prevFree \in BOOLEAN
         /\ r = [size |-> r.size, free |-> r.free, prevFree |-> r.prevFree]
  BY DEF Header

HeaderSet(m, n, h, r) ==
  /\ Memory(n)
  /\ n.foot = m.foot /\ n.bin = m.bin
  /\ DOMAIN n.hdr = (DOMAIN m.hdr) \cup {h}
  /\ n.hdr[h] = r
  /\ \A x \in DOMAIN m.hdr : x # h => n.hdr[x] = m.hdr[x]

LEMMA SetHeaderDoes ==
  ASSUME NEW m, Memory(m), NEW h,
         NEW size \in Nat, NEW free \in BOOLEAN, NEW prev \in BOOLEAN
  PROVE  HeaderSet(m, SetHeader(m, h, size, free, prev), h,
                   [size |-> size, free |-> free, prevFree |-> prev])
  BY DEF HeaderSet, SetHeader, Memory, Header

LEMMA WidenDoes ==
  ASSUME NEW m, Memory(m), NEW h \in DOMAIN m.hdr, NEW k \in Nat
  PROVE  HeaderSet(m, [m EXCEPT !.hdr[h].size = @ + k], h,
                   [size |-> m.hdr[h].size + k, free |-> m.hdr[h].free,
                    prevFree |-> m.hdr[h].prevFree])
  BY DEF HeaderSet, Memory, Header

HeaderGone(m, n, h) ==
  /\ Memory(n)
  /\ n.foot = m.foot /\ n.bin = m.bin
  /\ DOMAIN n.hdr = (DOMAIN m.hdr) \ {h}
  /\ \A x \in DOMAIN n.hdr : n.hdr[x] = m.hdr[x]

LEMMA ForgetDoes ==
  ASSUME NEW m, Memory(m), NEW h
  PROVE  HeaderGone(m, Forget(m, h), h)
  BY DEF HeaderGone, Forget, Memory, Restrict

FooterWritten(m, n, h, end) ==
  /\ Memory(n)
  /\ n.hdr = m.hdr /\ n.bin = m.bin
  /\ end \in DOMAIN n.foot /\ n.foot[end] = m.hdr[h].size
  /\ \A x \in DOMAIN m.foot :
       x # end /\ (x <= h \/ x > end) => x \in DOMAIN n.foot /\ n.foot[x] = m.foot[x]

LEMMA WriteFooterDoes ==
  ASSUME NEW m, Memory(m), NEW h \in DOMAIN m.hdr, h \in Nat
  PROVE  FooterWritten(m, WriteFooter(m, h), h, h + m.hdr[h].size)
<1> DEFINE n == WriteFooter(m, h)
           end == h + m.hdr[h].size
           kept == {x \in DOMAIN m.foot : x <= h \/ x > end}
           feet == [x \in kept \cup {end} |-> IF x = end THEN m.hdr[h].size ELSE m.foot[x]]
<1>1. n = [m EXCEPT !.foot = feet]
  BY DEF WriteFooter
<1>2. end \in Nat
  BY HeaderFields DEF Memory
<1> HIDE DEF end
<1>3. DOMAIN feet \subseteq Nat
  BY <1>2 DEF Memory
<1>4. /\ end \in DOMAIN feet /\ feet[end] = m.hdr[h].size
      /\ \A x \in DOMAIN m.foot :
           x # end /\ (x <= h \/ x > end) => x \in DOMAIN feet /\ feet[x] = m.foot[x]
  OBVIOUS
<1> HIDE DEF feet, n
<1>5. n = [hdr |-> m.hdr, foot |-> feet, bin |-> m.bin, mask |-> m.mask]
  BY <1>1 DEF Memory
<1>6. Memory(n) /\ n.foot = feet /\ n.hdr = m.hdr /\ n.bin = m.bin
  BY <1>3, <1>5 DEF Memory
<1> QED
  BY <1>4, <1>6 DEF FooterWritten, n, end

FootersGiven(m, n, h, end) ==
  /\ Memory(n)
  /\ n.hdr = m.hdr /\ n.bin = m.bin
  /\ \A x \in DOMAIN m.foot : x <= h \/ x > end => x \in DOMAIN n.foot /\ n.foot[x] = m.foot[x]

LEMMA HandOverDoes ==
  ASSUME NEW m, Memory(m), NEW h \in DOMAIN m.hdr
  PROVE  FootersGiven(m, HandOver(m, h), h, h + m.hdr[h].size)
  BY DEF FootersGiven, HandOver, Memory, Restrict

(* The header at x with its flag about the run before it set.              *)
Flagged(r, flag) ==
  IF r.size = 0 THEN r ELSE [size |-> r.size, free |-> r.free, prevFree |-> flag]

LEMMA SetNextPrevFreeDoes ==
  ASSUME NEW m, Memory(m), NEW h \in DOMAIN m.hdr, h + m.hdr[h].size \in DOMAIN m.hdr,
         NEW flag \in BOOLEAN
  PROVE  LET next == h + m.hdr[h].size
         IN  HeaderSet(m, SetNextPrevFree(m, h, flag), next, Flagged(m.hdr[next], flag))
  BY DEF HeaderSet, SetNextPrevFree, HasNext, NextRun, Memory, Header, Flagged

Linked(m, n, h) ==
  /\ Memory(n)
  /\ n.foot = m.foot /\ n.hdr = m.hdr
  /\ DOMAIN n.bin = (DOMAIN m.bin) \cup {h}
  /\ n.bin[h] = BinIndexFor(m.hdr[h].size)
  /\ \A x \in DOMAIN m.bin : x # h => n.bin[x] = m.bin[x]

Unlinked(m, n, h) ==
  /\ Memory(n)
  /\ n.foot = m.foot /\ n.hdr = m.hdr
  /\ DOMAIN n.bin = (DOMAIN m.bin) \ {h}
  /\ \A x \in DOMAIN n.bin : n.bin[x] = m.bin[x]

LEMMA LinkFreeDoes ==
  ASSUME NEW m, Memory(m), NEW h, h \notin DOMAIN m.bin
  PROVE  Linked(m, LinkFree(m, h), h)
<1> DEFINE n == LinkFree(m, h)
           idx == BinIndexFor(m.hdr[h].size)
           bins == [x \in (DOMAIN m.bin) \cup {h} |-> IF x = h THEN idx ELSE m.bin[x]]
<1>1. n = [hdr |-> m.hdr, foot |-> m.foot, bin |-> bins, mask |-> m.mask \cup {idx}]
  <2> HIDE DEF idx
  <2>1. n = [m EXCEPT !.bin = bins, !.mask = m.mask \cup {idx}]
    BY DEF LinkFree, idx
  <2> HIDE DEF bins, n
  <2> QED
    BY <2>1 DEF Memory
<1> HIDE DEF n, idx
<1>2. m.mask \cup {idx} = {bins[x] : x \in DOMAIN bins}
  BY DEF Memory
<1> HIDE DEF bins
<1>3. Memory(n) /\ n.foot = m.foot /\ n.hdr = m.hdr /\ n.bin = bins
  BY <1>1, <1>2 DEF Memory
<1> QED
  BY <1>3 DEF Linked, bins, idx, n

LEMMA UnlinkFreeDoes ==
  ASSUME NEW m, Memory(m), NEW h \in DOMAIN m.bin, m.bin[h] = BinIndexFor(m.hdr[h].size)
  PROVE  Unlinked(m, UnlinkFree(m, h), h)
<1> DEFINE n == UnlinkFree(m, h)
           idx == BinIndexFor(m.hdr[h].size)
           rest == (DOMAIN m.bin) \ {h}
           bins == [x \in rest |-> m.bin[x]]
           left == IF \E x \in rest : m.bin[x] = idx THEN m.mask ELSE m.mask \ {idx}
<1>1. n = [hdr |-> m.hdr, foot |-> m.foot, bin |-> bins, mask |-> left]
  <2> HIDE DEF idx
  <2>1. n = [m EXCEPT !.bin = bins, !.mask = left]
    BY DEF UnlinkFree, Restrict, idx
  <2> HIDE DEF bins, n, left
  <2> QED
    BY <2>1 DEF Memory
<1> HIDE DEF n, idx
<1>2. left = {bins[x] : x \in DOMAIN bins}
  <2>1. m.mask = {m.bin[x] : x \in DOMAIN m.bin} /\ m.bin[h] = idx /\ h \in DOMAIN m.bin
    BY DEF Memory, idx
  <2>2. CASE \E x \in rest : m.bin[x] = idx
    BY <2>1, <2>2
  <2>3. CASE ~\E x \in rest : m.bin[x] = idx
    BY <2>1, <2>3
  <2> QED
    BY <2>2, <2>3
<1> HIDE DEF bins, left
<1>3. Memory(n) /\ n.foot = m.foot /\ n.hdr = m.hdr /\ n.bin = bins
  BY <1>1, <1>2 DEF Memory
<1> QED
  BY <1>3 DEF Unlinked, bins, n

-----------------------------------------------------------------------------
(* Well-formed memory.                                                     *)

RunsOf(m) == {h \in DOMAIN m.hdr : m.hdr[h].size # 0}
FreeOf(m) == {h \in RunsOf(m) : m.hdr[h].free}
UsedOf(m) == RunsOf(m) \ FreeOf(m)
EndOf(m, h) == h + m.hdr[h].size

(* Every run ends where a header is, and no header is inside a run.        *)
Tiled(m) ==
  /\ DOMAIN m.hdr \subseteq Sixteens
  /\ \A h \in RunsOf(m) : /\ m.hdr[h].size \in Sixteens /\ m.hdr[h].size >= 48
                          /\ EndOf(m, h) \in DOMAIN m.hdr
  /\ \A g, h \in DOMAIN m.hdr : g < h => EndOf(m, g) <= h

(* Free neighbours are merged; a free run's footer and the flag behind it  *)
(* are true; and a flag is set only behind a free run.                     *)
Tagged(m) ==
  /\ \A h \in FreeOf(m) : /\ EndOf(m, h) \notin FreeOf(m)
                          /\ EndOf(m, h) \in DOMAIN m.foot
                          /\ m.foot[EndOf(m, h)] = m.hdr[h].size
  /\ \A h \in RunsOf(m) : EndOf(m, h) \in RunsOf(m)
                            => m.hdr[EndOf(m, h)].prevFree = m.hdr[h].free
  /\ \A g \in RunsOf(m) : m.hdr[g].prevFree => \E h \in FreeOf(m) : EndOf(m, h) = g

Binned(m) ==
  /\ DOMAIN m.bin = FreeOf(m)
  /\ \A h \in FreeOf(m) : m.bin[h] = BinIndexFor(m.hdr[h].size)

WellFormed(m) == Memory(m) /\ Tiled(m) /\ Tagged(m) /\ Binned(m)

(* Everything from the header at a to the one at e becomes a run in use    *)
(* that ends at c and a free run that begins there.                        *)
Carvable(m, a, c, e) ==
  /\ a \in RunsOf(m) /\ e \in DOMAIN m.hdr /\ c \in Sixteens
  /\ a < e
  /\ c = a \/ c >= a + 48
  /\ c = e \/ e >= c + 48
  /\ \A x \in DOMAIN m.hdr : a <= x /\ x < e => x \in RunsOf(m)
  /\ c # e => e \notin FreeOf(m)
  /\ c = a => ~m.hdr[a].prevFree

Carved(m, n, a, c, e) ==
  /\ Memory(n)
  /\ DOMAIN n.hdr = {x \in DOMAIN m.hdr : x <= a \/ x >= e} \cup {c}
  /\ c # a => n.hdr[a] = [size |-> c - a, free |-> FALSE, prevFree |-> m.hdr[a].prevFree]
  /\ c # e => n.hdr[c] = [size |-> e - c, free |-> TRUE, prevFree |-> FALSE]
  /\ n.hdr[e] = Flagged(m.hdr[e], c # e)
  /\ \A x \in DOMAIN m.hdr : x < a \/ x > e => n.hdr[x] = m.hdr[x]
  /\ \A x \in DOMAIN m.foot : x <= a \/ x > e => x \in DOMAIN n.foot /\ n.foot[x] = m.foot[x]
  /\ c # e => e \in DOMAIN n.foot /\ n.foot[e] = e - c
  /\ DOMAIN n.bin = {x \in DOMAIN m.bin : x < a \/ x >= e} \cup (IF c = e THEN {} ELSE {c})
  /\ c # e => n.bin[c] = BinIndexFor(e - c)
  /\ \A x \in DOMAIN m.bin : x < a \/ x >= e => n.bin[x] = m.bin[x]

(* What a rewriting says header by header.                                 *)
CarvedRuns(m, n, a, c, e) ==
  /\ a \in Nat /\ c \in Nat /\ e \in Nat /\ a <= c /\ c <= e /\ a < e
  /\ c = a \/ c >= a + 48
  /\ c = e \/ e >= c + 48
  /\ a \in DOMAIN m.hdr /\ e \in DOMAIN m.hdr
  /\ \A x \in DOMAIN m.hdr : /\ x \in Nat /\ m.hdr[x].size \in Nat
                             /\ m.hdr[x].free \in BOOLEAN /\ m.hdr[x].prevFree \in BOOLEAN
  /\ \A x \in DOMAIN n.hdr : x = a \/ x = c \/ x = e \/ x < a \/ x > e
  /\ \A x \in DOMAIN n.hdr : x \in Nat
  /\ \A x \in DOMAIN m.hdr : x < a \/ x > e => x \in DOMAIN n.hdr /\ n.hdr[x] = m.hdr[x]
  /\ \A x \in DOMAIN n.hdr : x < a \/ x > e => x \in DOMAIN m.hdr
  /\ a \in DOMAIN n.hdr /\ e \in DOMAIN n.hdr /\ c \in DOMAIN n.hdr
  /\ n.hdr[e].size = m.hdr[e].size /\ n.hdr[e].free = m.hdr[e].free
  /\ m.hdr[e].size # 0 => n.hdr[e].prevFree = (c # e)
  /\ c # a => /\ n.hdr[a].size = c - a /\ n.hdr[a].free = FALSE
              /\ n.hdr[a].prevFree = m.hdr[a].prevFree
  /\ c # e => n.hdr[c].size = e - c /\ n.hdr[c].free = TRUE /\ n.hdr[c].prevFree = FALSE

LEMMA CarvedRunsHold ==
  ASSUME NEW m, NEW n, NEW a, NEW c, NEW e,
         Memory(m), Tiled(m), Carvable(m, a, c, e), Carved(m, n, a, c, e)
  PROVE  CarvedRuns(m, n, a, c, e)
<1>1. /\ a \in DOMAIN m.hdr /\ e \in DOMAIN m.hdr /\ a \in Nat /\ c \in Nat /\ e \in Nat
      /\ a <= c /\ c <= e
  BY DEF Tiled, Carvable, RunsOf, Sixteens
<1>2. \A x \in DOMAIN m.hdr : /\ x \in Nat /\ m.hdr[x].size \in Nat /\ m.hdr[x].free \in BOOLEAN
                              /\ m.hdr[x].prevFree \in BOOLEAN
  BY HeaderFields DEF Tiled, Memory, Sixteens
<1>3. DOMAIN n.hdr = {x \in DOMAIN m.hdr : x <= a \/ x >= e} \cup {c}
  BY DEF Carved
<1>4. /\ \A x \in DOMAIN n.hdr : x = a \/ x = c \/ x = e \/ x < a \/ x > e
      /\ \A x \in DOMAIN n.hdr : x < a \/ x > e => x \in DOMAIN m.hdr
      /\ \A x \in DOMAIN n.hdr : x \in Nat
  BY <1>1, <1>2, <1>3
<1>5. a \in DOMAIN n.hdr /\ e \in DOMAIN n.hdr /\ c \in DOMAIN n.hdr
  BY <1>1, <1>3
<1>6. \A x \in DOMAIN m.hdr : x < a \/ x > e => x \in DOMAIN n.hdr /\ n.hdr[x] = m.hdr[x]
  BY <1>1, <1>2, <1>3 DEF Carved
<1>7. /\ n.hdr[e].size = m.hdr[e].size /\ n.hdr[e].free = m.hdr[e].free
      /\ m.hdr[e].size # 0 => n.hdr[e].prevFree = (c # e)
  BY <1>1, <1>2 DEF Carved, Flagged
<1>8. /\ c # a => /\ n.hdr[a].size = c - a /\ n.hdr[a].free = FALSE
                  /\ n.hdr[a].prevFree = m.hdr[a].prevFree
      /\ c # e => n.hdr[c].size = e - c /\ n.hdr[c].free = TRUE /\ n.hdr[c].prevFree = FALSE
  BY DEF Carved
<1>9. a < e /\ (c = a \/ c >= a + 48) /\ (c = e \/ e >= c + 48)
  BY DEF Carvable
<1> QED
  BY <1>1, <1>2, <1>4, <1>5, <1>6, <1>7, <1>8, <1>9 DEF CarvedRuns

LEMMA CarvedTiled ==
  ASSUME NEW m, NEW n, NEW a, NEW c, NEW e,
         Memory(m), Tiled(m), Carvable(m, a, c, e), Carved(m, n, a, c, e)
  PROVE  Tiled(n)
<1>0. CarvedRuns(m, n, a, c, e)
  BY CarvedRunsHold
<1>1. DOMAIN n.hdr \subseteq Sixteens
  BY <1>0 DEF CarvedRuns, Tiled, Carvable
<1>2. \A h \in RunsOf(n) : /\ n.hdr[h].size \in Sixteens /\ n.hdr[h].size >= 48
                           /\ EndOf(n, h) \in DOMAIN n.hdr
  <2> SUFFICES ASSUME NEW h \in RunsOf(n)
               PROVE  /\ n.hdr[h].size \in Sixteens /\ n.hdr[h].size >= 48
                      /\ EndOf(n, h) \in DOMAIN n.hdr
    OBVIOUS
  <2>1. a \in Sixteens /\ e \in Sixteens /\ c \in Sixteens
    BY DEF Tiled, Carvable, RunsOf
  <2>2. CASE h = a /\ c # a
    BY <2>1, <2>2, <1>0 DEF CarvedRuns, Carvable, EndOf, Sixteens
  <2>3. CASE h = c /\ c # e
    BY <2>1, <2>3, <1>0 DEF CarvedRuns, Carvable, EndOf, Sixteens
  <2>4. CASE h < a
    <3>1. h \in RunsOf(m) /\ n.hdr[h] = m.hdr[h]
      BY <2>4, <1>0 DEF CarvedRuns, RunsOf
    <3>2. EndOf(m, h) \in DOMAIN m.hdr /\ EndOf(m, h) <= a
      BY <2>4, <3>1, <1>0 DEF CarvedRuns, Tiled, Carvable, RunsOf
    <3>3. EndOf(m, h) \in DOMAIN n.hdr
      BY <3>2, <1>0 DEF CarvedRuns
    <3> QED
      BY <3>1, <3>3 DEF Tiled, EndOf
  <2>5. CASE h >= e /\ ~(h = c /\ c # e) /\ ~(h = a /\ c # a)
    <3>1. h \in RunsOf(m) /\ n.hdr[h].size = m.hdr[h].size
      BY <2>5, <1>0 DEF CarvedRuns, RunsOf, Carvable
    <3>2. EndOf(m, h) \in DOMAIN m.hdr /\ EndOf(m, h) > e /\ m.hdr[h].size \in Sixteens
          /\ m.hdr[h].size >= 48
      BY <2>5, <3>1, <1>0 DEF CarvedRuns, Tiled, EndOf, RunsOf
    <3>3. EndOf(m, h) \in DOMAIN n.hdr
      BY <3>2, <1>0 DEF CarvedRuns
    <3> QED
      BY <3>1, <3>2, <3>3 DEF EndOf
  <2> QED
    BY <2>2, <2>3, <2>4, <2>5, <1>0 DEF CarvedRuns, RunsOf, Carvable
<1>3. \A g, h \in DOMAIN n.hdr : g < h => EndOf(n, g) <= h
  <2> SUFFICES ASSUME NEW g \in DOMAIN n.hdr, NEW h \in DOMAIN n.hdr, g < h
               PROVE  EndOf(n, g) <= h
    OBVIOUS
  <2>1. \A x, y \in DOMAIN m.hdr : x < y => x + m.hdr[x].size <= y
    BY DEF Tiled, EndOf
  <2>2. CASE g < a
    BY <2>1, <2>2, <1>0 DEF CarvedRuns, EndOf, Carvable, RunsOf
  <2>3. CASE g >= a /\ g < e
    BY <2>3, <1>0 DEF CarvedRuns, EndOf, Carvable
  <2>4. CASE g >= e
    BY <2>1, <2>4, <1>0 DEF CarvedRuns, EndOf, Carvable
  <2> QED
    BY <2>2, <2>3, <2>4, <1>0 DEF CarvedRuns
<1> QED
  BY <1>1, <1>2, <1>3 DEF Tiled

(* The runs on both sides stay as they are, but for the flag at e.         *)
Kept(m, n, h) ==
  /\ h \in RunsOf(m) /\ h \in RunsOf(n)
  /\ EndOf(n, h) = EndOf(m, h)
  /\ n.hdr[h].size = m.hdr[h].size /\ n.hdr[h].free = m.hdr[h].free

CarvedSides(m, n, a, c, e) ==
  /\ \A h \in RunsOf(m) : /\ h \in Nat /\ EndOf(m, h) \in Nat /\ EndOf(m, h) > h
                          /\ EndOf(m, h) \in DOMAIN m.hdr
                          /\ h < a => EndOf(m, h) <= a
                          /\ h < e => EndOf(m, h) <= e
  /\ \A h \in RunsOf(n) : \/ (h = a /\ c # a) \/ (h = c /\ c # e)
                          \/ (h < a \/ h >= e) /\ Kept(m, n, h)
  /\ \A h \in RunsOf(m) : h < a \/ h >= e => Kept(m, n, h)
  /\ c # a => a \in RunsOf(n) /\ EndOf(n, a) = c
  /\ c # e => c \in RunsOf(n) /\ EndOf(n, c) = e

LEMMA CarvedSidesHold ==
  ASSUME NEW m, NEW n, NEW a, NEW c, NEW e,
         Tiled(m), Carvable(m, a, c, e), CarvedRuns(m, n, a, c, e)
  PROVE  CarvedSides(m, n, a, c, e)
<1>1. \A h \in RunsOf(m) : /\ h \in Nat /\ EndOf(m, h) \in Nat /\ EndOf(m, h) > h
                           /\ EndOf(m, h) \in DOMAIN m.hdr
                           /\ h < a => EndOf(m, h) <= a
                           /\ h < e => EndOf(m, h) <= e
  BY DEF CarvedRuns, Tiled, EndOf, RunsOf
<1>2. ASSUME NEW h \in RunsOf(m), h < a \/ h >= e
      PROVE  Kept(m, n, h)
  <2>0. h \in Nat
    BY <1>1, <1>2
  <2>1. h \in DOMAIN m.hdr /\ m.hdr[h].size # 0 /\ h \in Nat
    BY <2>0, <1>2 DEF RunsOf
  <2>2. CASE h = e
    <3>1. e \in DOMAIN n.hdr /\ n.hdr[e].size = m.hdr[e].size /\ n.hdr[e].free = m.hdr[e].free
      BY DEF CarvedRuns
    <3> QED
      BY <2>1, <2>2, <3>1 DEF Kept, EndOf, RunsOf
  <2>3. CASE h # e
    <3>1. h < a \/ h > e
      BY <1>2, <2>1, <2>3 DEF CarvedRuns
    <3>2. h \in DOMAIN n.hdr /\ n.hdr[h] = m.hdr[h]
      BY <2>1, <3>1 DEF CarvedRuns
    <3> QED
      BY <2>1, <3>2 DEF Kept, EndOf, RunsOf
  <2> QED
    BY <2>2, <2>3
<1>3. ASSUME NEW h \in RunsOf(n)
      PROVE  \/ (h = a /\ c # a) \/ (h = c /\ c # e)
             \/ (h < a \/ h >= e) /\ Kept(m, n, h)
  <2>1. CASE ~(h = a /\ c # a) /\ ~(h = c /\ c # e)
    <3>1. h \in RunsOf(m) /\ (h < a \/ h >= e)
      BY <2>1, <1>3 DEF CarvedRuns, RunsOf
    <3> QED
      BY <3>1, <1>2
  <2> QED
    BY <2>1
<1>4. /\ c # a => a \in RunsOf(n) /\ EndOf(n, a) = c
      /\ c # e => c \in RunsOf(n) /\ EndOf(n, c) = e
  BY DEF CarvedRuns, EndOf, RunsOf
<1> QED
  BY <1>1, <1>2, <1>3, <1>4, Zenon DEF CarvedSides

LEMMA CarvedTagged ==
  ASSUME NEW m, NEW n, NEW a, NEW c, NEW e,
         Memory(m), Tiled(m), Tagged(m), Carvable(m, a, c, e), Carved(m, n, a, c, e)
  PROVE  Tagged(n)
<1>0. CarvedRuns(m, n, a, c, e)
  BY CarvedRunsHold
<1>1. CarvedSides(m, n, a, c, e)
  BY <1>0, CarvedSidesHold
<1>2. c # e => e \notin FreeOf(m) /\ e \notin FreeOf(n)
  BY <1>0 DEF Carvable, CarvedRuns, FreeOf, RunsOf
<1>3. \A h \in RunsOf(m) : EndOf(m, h) = a /\ c = a => ~m.hdr[h].free
  BY <1>0 DEF Carvable, CarvedRuns, Tagged, RunsOf
<1>4. ASSUME NEW h \in FreeOf(n)
      PROVE  /\ EndOf(n, h) \notin FreeOf(n)
             /\ EndOf(n, h) \in DOMAIN n.foot
             /\ n.foot[EndOf(n, h)] = n.hdr[h].size
  <2>1. CASE h = c /\ c # e
    BY <2>1, <1>0, <1>1, <1>2 DEF CarvedRuns, CarvedSides, Carved
  <2>2. CASE ~(h = c /\ c # e)
    <3>1. h \in RunsOf(n) /\ n.hdr[h].free /\ ~(h = a /\ c # a)
      BY <1>0 DEF FreeOf, CarvedRuns
    <3>2. (h < a \/ h >= e) /\ Kept(m, n, h)
      BY <2>2, <3>1, <1>1 DEF CarvedSides
    <3>3. h \in FreeOf(m) /\ h \in RunsOf(m)
      BY <3>1, <3>2 DEF Kept, FreeOf
    <3> DEFINE end == EndOf(m, h)
    <3>4. /\ end \notin FreeOf(m) /\ end \in DOMAIN m.foot /\ m.foot[end] = m.hdr[h].size
      BY <3>3 DEF Tagged
    <3>5. end \in DOMAIN m.hdr /\ end \in Nat /\ (end <= a \/ end > e)
      BY <3>2, <3>3, <1>0, <1>1 DEF CarvedSides, CarvedRuns
    <3> HIDE DEF end
    <3>6. end \notin FreeOf(n)
      <4>1. CASE end = a
        <5>1. c # a
          BY <4>1, <3>3, <1>3 DEF FreeOf, end
        <5> QED
          BY <4>1, <5>1, <1>0 DEF CarvedRuns, FreeOf
      <4>2. CASE end # a
        <5>1. n.hdr[end] = m.hdr[end]
          BY <4>2, <3>5, <1>0 DEF CarvedRuns
        <5> QED
          BY <5>1, <3>4, <3>5 DEF FreeOf, RunsOf
      <4> QED
        BY <4>1, <4>2
    <3>7. end \in DOMAIN n.foot /\ n.foot[end] = m.foot[end]
      BY <3>4, <3>5 DEF Carved
    <3>8. EndOf(n, h) = end /\ n.hdr[h].size = m.hdr[h].size
      BY <3>2 DEF Kept, end
    <3> QED
      BY <3>4, <3>6, <3>7, <3>8
  <2> QED
    BY <2>1, <2>2
<1>5. ASSUME NEW h \in RunsOf(n), EndOf(n, h) \in RunsOf(n)
      PROVE  n.hdr[EndOf(n, h)].prevFree = n.hdr[h].free
  <2>1. CASE h = c /\ c # e
    BY <2>1, <1>5, <1>0, <1>1 DEF CarvedRuns, CarvedSides, RunsOf
  <2>2. CASE h = a /\ c # a
    BY <2>2, <1>5, <1>0, <1>1 DEF CarvedRuns, CarvedSides, RunsOf
  <2>3. CASE ~(h = c /\ c # e) /\ ~(h = a /\ c # a)
    <3>1. (h < a \/ h >= e) /\ Kept(m, n, h)
      BY <2>3, <1>1 DEF CarvedSides
    <3> DEFINE end == EndOf(m, h)
    <3>2. /\ h \in RunsOf(m) /\ n.hdr[h].free = m.hdr[h].free /\ EndOf(n, h) = end
      BY <3>1 DEF Kept
    <3>3. end \in DOMAIN m.hdr /\ end \in Nat /\ (end <= a \/ end > e)
      BY <3>1, <3>2, <1>0, <1>1 DEF CarvedSides, CarvedRuns
    <3>4. end \in RunsOf(m) => m.hdr[end].prevFree = m.hdr[h].free
      BY <3>2 DEF Tagged
    <3>5. end = a /\ c = a => ~m.hdr[h].free
      BY <3>2, <1>3
    <3>6. m.hdr[h].free \in BOOLEAN
      BY <3>2, <1>0 DEF CarvedRuns, RunsOf
    <3> HIDE DEF end
    <3>7. CASE end = a
      <4>1. a \in RunsOf(m) /\ m.hdr[a].prevFree = m.hdr[h].free
        BY <3>4, <3>7 DEF Carvable
      <4>2. CASE c # a
        BY <3>2, <3>7, <4>1, <4>2, <1>0 DEF CarvedRuns
      <4>3. CASE c = a
        <5>1. n.hdr[a].prevFree = FALSE
          BY <4>3, <1>0 DEF CarvedRuns
        <5>2. m.hdr[h].free = FALSE
          BY <3>5, <3>6, <3>7, <4>3
        <5> QED
          BY <3>2, <3>7, <5>1, <5>2
      <4> QED
        BY <4>2, <4>3
    <3>8. CASE end # a
      <4>1. n.hdr[end] = m.hdr[end]
        BY <3>3, <3>8, <1>0 DEF CarvedRuns
      <4>2. end \in RunsOf(m)
        BY <1>5, <3>2, <3>3, <4>1 DEF RunsOf
      <4> QED
        BY <3>2, <3>4, <4>1, <4>2
    <3> QED
      BY <3>7, <3>8
  <2> QED
    BY <2>1, <2>2, <2>3
<1>6. ASSUME NEW g \in RunsOf(n), n.hdr[g].prevFree
      PROVE  \E h \in FreeOf(n) : EndOf(n, h) = g
  <2>1. CASE g = c /\ c # e
    BY <2>1, <1>6, <1>0 DEF CarvedRuns
  <2>2. CASE g = e /\ c # e
    <3>1. c \in FreeOf(n) /\ EndOf(n, c) = e
      BY <2>2, <1>0, <1>1 DEF CarvedRuns, CarvedSides, FreeOf
    <3> QED
      BY <2>2, <3>1
  <2>3. CASE ~(g = c /\ c # e) /\ ~(g = e /\ c # e)
    <3>1. g # e
      <4>1. SUFFICES ASSUME g = e PROVE FALSE
        OBVIOUS
      <4>2. m.hdr[e].size # 0 /\ c = e
        BY <2>3, <4>1, <1>0 DEF CarvedRuns, RunsOf
      <4>3. n.hdr[e].prevFree = FALSE
        BY <4>2, <1>0 DEF CarvedRuns
      <4> QED
        BY <1>6, <4>1, <4>3
    <3>2. g \in RunsOf(m) /\ m.hdr[g].prevFree /\ (g <= a \/ g > e)
      BY <2>3, <3>1, <1>6, <1>0 DEF CarvedRuns, RunsOf, Carvable
    <3>3. PICK h \in FreeOf(m) : EndOf(m, h) = g
      BY <3>2 DEF Tagged
    <3>4. h \in RunsOf(m) /\ h < g /\ h \in Nat /\ m.hdr[h].free /\ (h < e => g <= e)
      BY <3>3, <1>1 DEF FreeOf, CarvedSides
    <3>5. h < a \/ h >= e
      <4>1. a \in Nat /\ e \in Nat /\ g \in Nat /\ (h < a => g <= a)
        BY <3>2, <3>3, <3>4, <1>0, <1>1 DEF CarvedRuns, CarvedSides
      <4> QED
        BY <3>2, <3>4, <4>1
    <3>6. Kept(m, n, h)
      BY <3>4, <3>5, <1>1 DEF CarvedSides
    <3>7. h \in FreeOf(n) /\ EndOf(n, h) = g
      BY <3>3, <3>4, <3>6 DEF FreeOf, Kept
    <3> QED
      BY <3>7
  <2> QED
    BY <2>1, <2>2, <2>3
<1> QED
  BY <1>4, <1>5, <1>6 DEF Tagged

LEMMA CarvedBinned ==
  ASSUME NEW m, NEW n, NEW a, NEW c, NEW e,
         Memory(m), Tiled(m), Binned(m), Carvable(m, a, c, e), Carved(m, n, a, c, e)
  PROVE  Binned(n)
<1>0. CarvedRuns(m, n, a, c, e)
  BY CarvedRunsHold
<1>1. DOMAIN n.bin = {x \in FreeOf(m) : x < a \/ x >= e} \cup (IF c = e THEN {} ELSE {c})
  BY DEF Carved, Binned
<1>2. FreeOf(n) = {x \in FreeOf(m) : x < a \/ x >= e} \cup (IF c = e THEN {} ELSE {c})
  <2>1. ASSUME NEW x \in FreeOf(n)
        PROVE  (x \in FreeOf(m) /\ (x < a \/ x >= e)) \/ (c # e /\ x = c)
    BY <1>0 DEF CarvedRuns, FreeOf, RunsOf
  <2>2. ASSUME NEW x \in FreeOf(m), x < a \/ x >= e PROVE x \in FreeOf(n)
    BY <2>2, <1>0 DEF CarvedRuns, FreeOf, RunsOf
  <2>3. c # e => c \in FreeOf(n)
    BY <1>0 DEF CarvedRuns, FreeOf, RunsOf
  <2> QED
    BY <2>1, <2>2, <2>3
<1>3. \A h \in FreeOf(n) : n.bin[h] = BinIndexFor(n.hdr[h].size)
  <2> SUFFICES ASSUME NEW h \in FreeOf(n) PROVE n.bin[h] = BinIndexFor(n.hdr[h].size)
    OBVIOUS
  <2>1. CASE h = c /\ c # e
    BY <2>1, <1>0 DEF CarvedRuns, Carved
  <2>2. CASE ~(h = c /\ c # e)
    <3>1. h \in FreeOf(m) /\ (h < a \/ h >= e)
      BY <2>2, <1>2
    <3>2. n.hdr[h].size = m.hdr[h].size
      BY <3>1, <1>0 DEF CarvedRuns, FreeOf, RunsOf
    <3>3. n.bin[h] = m.bin[h]
      BY <3>1 DEF Carved, Binned
    <3> QED
      BY <3>1, <3>2, <3>3 DEF Binned
  <2> QED
    BY <2>1, <2>2
<1> QED
  BY <1>1, <1>2, <1>3 DEF Binned

LEMMA CarvedWellFormed ==
  ASSUME NEW m, NEW n, NEW a, NEW c, NEW e,
         WellFormed(m), Carvable(m, a, c, e), Carved(m, n, a, c, e)
  PROVE  WellFormed(n)
<1>1. Memory(m) /\ Tiled(m) /\ Tagged(m) /\ Binned(m) /\ Memory(n)
  BY DEF WellFormed, Carved
<1>2. Tiled(n)
  BY <1>1, CarvedTiled
<1>3. Tagged(n)
  BY <1>1, CarvedTagged
<1>4. Binned(n)
  BY <1>1, CarvedBinned
<1> QED
  BY <1>1, <1>2, <1>3, <1>4 DEF WellFormed

(* The runs in use: at most the one at a is new, and none of the others is *)
(* touched.                                                                *)
LEMMA CarvedUsed ==
  ASSUME NEW m, NEW n, NEW a, NEW c, NEW e,
         Memory(m), Tiled(m), Carvable(m, a, c, e), Carved(m, n, a, c, e)
  PROVE  /\ UsedOf(n) = {x \in UsedOf(m) : x < a \/ x >= e} \cup (IF c = a THEN {} ELSE {a})
         /\ \A x \in UsedOf(m) : x < a \/ x >= e => n.hdr[x].size = m.hdr[x].size
         /\ c # a => n.hdr[a].size = c - a
<1>0. CarvedRuns(m, n, a, c, e)
  BY CarvedRunsHold
<1>1. ASSUME NEW x \in UsedOf(n)
      PROVE  (x \in UsedOf(m) /\ (x < a \/ x >= e)) \/ (c # a /\ x = a)
  BY <1>0 DEF CarvedRuns, UsedOf, FreeOf, RunsOf
<1>2. ASSUME NEW x \in UsedOf(m), x < a \/ x >= e
      PROVE  x \in UsedOf(n) /\ n.hdr[x].size = m.hdr[x].size
  BY <1>2, <1>0 DEF CarvedRuns, UsedOf, FreeOf, RunsOf
<1>3. c # a => a \in UsedOf(n) /\ n.hdr[a].size = c - a
  BY <1>0 DEF CarvedRuns, UsedOf, FreeOf, RunsOf
<1> QED
  BY <1>1, <1>2, <1>3

-----------------------------------------------------------------------------
(* The tail of an allocation and of an expansion.                          *)

(* Where the run in use ends: at what was needed, if the rest is worth a   *)
(* run.                                                                    *)
CutAt(h, needed, total) ==
  IF total - needed >= 112 THEN h + needed ELSE h + total

(* The run at h is in use up to c, and what is left before e is free.      *)
Occupied(m, n, h, c, e) ==
  /\ Memory(n)
  /\ DOMAIN n.hdr = (DOMAIN m.hdr) \cup {c}
  /\ n.hdr[h] = [size |-> c - h, free |-> FALSE, prevFree |-> m.hdr[h].prevFree]
  /\ c # e => n.hdr[c] = [size |-> e - c, free |-> TRUE, prevFree |-> FALSE]
  /\ n.hdr[e] = Flagged(m.hdr[e], c # e)
  /\ \A x \in DOMAIN m.hdr : x # h /\ x # c /\ x # e => n.hdr[x] = m.hdr[x]
  /\ \A x \in DOMAIN m.foot : x <= h \/ x > e => x \in DOMAIN n.foot /\ n.foot[x] = m.foot[x]
  /\ c # e => e \in DOMAIN n.foot /\ n.foot[e] = e - c
  /\ DOMAIN n.bin = (DOMAIN m.bin) \cup (IF c = e THEN {} ELSE {c})
  /\ c # e => n.bin[c] = BinIndexFor(e - c)
  /\ \A x \in DOMAIN m.bin : n.bin[x] = m.bin[x]

LEMMA OccupyDoes ==
  ASSUME NEW m, Memory(m), NEW h \in DOMAIN m.hdr, h \in Nat,
         NEW needed \in Nat, NEW total \in Nat, 0 < needed, needed <= total,
         h + total \in DOMAIN m.hdr, h + needed \notin DOMAIN m.bin
  PROVE  Occupied(m, Occupy(m, h, needed, total), h, CutAt(h, needed, total), h + total)
<1> DEFINE n == Occupy(m, h, needed, total)
           c == CutAt(h, needed, total)
           e == h + total
           prev == m.hdr[h].prevFree
           rem == total - needed
           k == h + needed
<1>1. prev \in BOOLEAN /\ rem \in Nat /\ e \in Nat /\ e # h /\ k \in Nat /\ k # h
  BY HeaderFields DEF Memory
<1>2. CASE rem >= 112
  <2> DEFINE kept == SetHeader(m, h, needed, FALSE, prev)
             split == SetHeader(kept, k, rem, TRUE, FALSE)
             noted == WriteFooter(split, k)
             cut == LinkFree(noted, k)
             told == SetNextPrevFree(cut, k, TRUE)
  <2>1. n = HandOver(told, h)
    <3>1. rem >= MinFreeRunSize + SplitThreshold
      BY <1>2 DEF MinFreeRunSize, SplitThreshold
    <3> QED
      BY <3>1, Zenon DEF Occupy
  <2>2. c = k /\ k + rem = e /\ k # e /\ k # h /\ rem = e - k /\ needed = k - h /\ h < k /\ k < e
    BY <1>1, <1>2 DEF CutAt
  <2>3. HeaderSet(m, kept, h, [size |-> needed, free |-> FALSE, prevFree |-> prev])
    BY <1>1, SetHeaderDoes
  <2> HIDE DEF kept, prev, k, e, rem, c, n
  <2>4. HeaderSet(kept, split, k, [size |-> rem, free |-> TRUE, prevFree |-> FALSE])
    <3>1. Memory(kept)
      BY <2>3 DEF HeaderSet
    <3> QED
      BY <1>1, <3>1, SetHeaderDoes
  <2> HIDE DEF split
  <2>5. k \in DOMAIN split.hdr /\ split.hdr[k].size = rem /\ k + split.hdr[k].size = e /\ Memory(split)
    BY <2>2, <2>4 DEF HeaderSet
  <2>6. FooterWritten(split, noted, k, e)
    BY <1>1, <2>5, WriteFooterDoes
  <2> HIDE DEF noted
  <2>7. k \notin DOMAIN noted.bin /\ Memory(noted) /\ noted.hdr = split.hdr
    BY <2>3, <2>4, <2>6 DEF HeaderSet, FooterWritten, k
  <2>8. Linked(noted, cut, k)
    BY <2>7, LinkFreeDoes
  <2> HIDE DEF cut
  <2>9. Memory(cut) /\ cut.hdr = split.hdr /\ e \in DOMAIN cut.hdr
    BY <2>3, <2>4, <2>7, <2>8 DEF HeaderSet, Linked, e
  <2>10. HeaderSet(cut, told, e, Flagged(cut.hdr[e], TRUE))
    BY <2>5, <2>9, SetNextPrevFreeDoes
  <2> HIDE DEF told
  <2>11. /\ h \in DOMAIN told.hdr /\ Memory(told)
         /\ told.hdr[h] = [size |-> needed, free |-> FALSE, prevFree |-> prev]
    BY <1>1, <2>2, <2>3, <2>4, <2>9, <2>10 DEF HeaderSet
  <2>12. FootersGiven(told, n, h, k)
    BY <2>1, <2>11, HandOverDoes DEF k
  <2>13. /\ DOMAIN n.hdr = (DOMAIN m.hdr) \cup {k}
         /\ n.hdr[h] = [size |-> k - h, free |-> FALSE, prevFree |-> prev]
         /\ n.hdr[k] = [size |-> e - k, free |-> TRUE, prevFree |-> FALSE]
         /\ \A x \in DOMAIN m.hdr : x # h /\ x # k /\ x # e => n.hdr[x] = m.hdr[x]
    BY <1>1, <2>2, <2>3, <2>4, <2>9, <2>10, <2>11, <2>12 DEF HeaderSet, FootersGiven, e
  <2>14. n.hdr[e] = Flagged(m.hdr[e], TRUE)
    <3>1. cut.hdr[e] = m.hdr[e]
      BY <1>1, <2>2, <2>3, <2>4, <2>9 DEF HeaderSet, e
    <3> QED
      BY <3>1, <2>10, <2>12 DEF HeaderSet, FootersGiven
  <2>15. ASSUME NEW x \in DOMAIN m.foot, x <= h \/ x > e
         PROVE  x \in DOMAIN n.foot /\ n.foot[x] = m.foot[x]
    <3>1. x \in Nat
      BY DEF Memory
    <3>2. x # e /\ (x <= k \/ x > e) /\ (x <= h \/ x > k)
      BY <2>2, <2>15, <3>1, <1>1
    <3>3. x \in DOMAIN split.foot /\ split.foot[x] = m.foot[x]
      BY <2>3, <2>4 DEF HeaderSet
    <3>4. x \in DOMAIN noted.foot /\ noted.foot[x] = m.foot[x]
      BY <2>6, <3>2, <3>3 DEF FooterWritten
    <3> QED
      BY <3>2, <3>4, <2>8, <2>10, <2>12 DEF HeaderSet, Linked, FootersGiven
  <2>16. e \in DOMAIN n.foot /\ n.foot[e] = e - k
    BY <2>2, <2>5, <2>6, <2>8, <2>10, <2>12 DEF HeaderSet, Linked, FooterWritten, FootersGiven
  <2>17. /\ DOMAIN n.bin = (DOMAIN m.bin) \cup {k}
         /\ n.bin[k] = BinIndexFor(e - k)
         /\ \A x \in DOMAIN m.bin : n.bin[x] = m.bin[x]
    <3>1. noted.bin = m.bin
      BY <2>3, <2>4, <2>6 DEF HeaderSet, FooterWritten
    <3>2. n.bin = cut.bin
      BY <2>10, <2>12 DEF HeaderSet, FootersGiven
    <3>3. noted.hdr[k].size = e - k
      BY <2>2, <2>5, <2>7
    <3> QED
      BY <3>1, <3>2, <3>3, <2>7, <2>8 DEF Linked
  <2>18. Memory(n)
    BY <2>12 DEF FootersGiven
  <2> QED
    BY <2>2, <2>13, <2>14, <2>15, <2>16, <2>17, <2>18 DEF Occupied, n, c, e, prev
<1>3. CASE rem < 112
  <2> DEFINE whole == SetHeader(m, h, total, FALSE, prev)
             told == SetNextPrevFree(whole, h, FALSE)
  <2>1. n = HandOver(told, h)
    <3>1. ~(rem >= MinFreeRunSize + SplitThreshold)
      BY <1>1, <1>3 DEF MinFreeRunSize, SplitThreshold
    <3> QED
      BY <3>1, Zenon DEF Occupy
  <2>2. c = e /\ total = e - h /\ e \in DOMAIN m.hdr
    BY <1>1, <1>3 DEF CutAt
  <2>3. HeaderSet(m, whole, h, [size |-> total, free |-> FALSE, prevFree |-> prev])
    BY <1>1, SetHeaderDoes
  <2> HIDE DEF whole, prev, k, e, rem, c, n
  <2>4. /\ Memory(whole) /\ h \in DOMAIN whole.hdr /\ h + whole.hdr[h].size = e
        /\ e \in DOMAIN whole.hdr
    BY <2>2, <2>3 DEF HeaderSet, e
  <2>5. HeaderSet(whole, told, e, Flagged(whole.hdr[e], FALSE))
    BY <2>4, SetNextPrevFreeDoes
  <2> HIDE DEF told
  <2>6. /\ h \in DOMAIN told.hdr /\ Memory(told)
        /\ told.hdr[h] = [size |-> total, free |-> FALSE, prevFree |-> prev]
    BY <1>1, <2>3, <2>5 DEF HeaderSet
  <2>7. FootersGiven(told, n, h, e)
    BY <2>1, <2>6, HandOverDoes DEF e
  <2>8. /\ DOMAIN n.hdr = (DOMAIN m.hdr) \cup {e}
        /\ n.hdr[h] = [size |-> e - h, free |-> FALSE, prevFree |-> prev]
        /\ \A x \in DOMAIN m.hdr : x # h /\ x # e => n.hdr[x] = m.hdr[x]
    BY <1>1, <2>2, <2>3, <2>5, <2>6, <2>7 DEF HeaderSet, FootersGiven
  <2>9. n.hdr[e] = Flagged(m.hdr[e], FALSE)
    <3>1. whole.hdr[e] = m.hdr[e]
      BY <1>1, <2>2, <2>3 DEF HeaderSet
    <3> QED
      BY <3>1, <2>5, <2>7 DEF HeaderSet, FootersGiven
  <2>10. /\ Memory(n) /\ n.bin = m.bin
         /\ \A x \in DOMAIN m.foot : x <= h \/ x > e => x \in DOMAIN n.foot /\ n.foot[x] = m.foot[x]
    BY <2>3, <2>5, <2>7 DEF HeaderSet, FootersGiven
  <2> QED
    BY <2>2, <2>8, <2>9, <2>10 DEF Occupied, n, c, e, prev
<1> QED
  BY <1>1, <1>2, <1>3

(* A stretch of runs from the one at a to a header e that is no free run,  *)
(* and the memory with nothing but a's header left of it.                  *)
Stretch(m, a, e) ==
  /\ a \in RunsOf(m) /\ e \in DOMAIN m.hdr /\ e \notin FreeOf(m)
  /\ a < e
  /\ \A x \in DOMAIN m.hdr : a <= x /\ x < e => x \in RunsOf(m)

Cleared(m, u, a, e) ==
  /\ Memory(u) /\ u.foot = m.foot
  /\ DOMAIN u.hdr = {x \in DOMAIN m.hdr : x <= a \/ x >= e}
  /\ u.hdr[a].prevFree = m.hdr[a].prevFree
  /\ \A x \in DOMAIN u.hdr : x # a => u.hdr[x] = m.hdr[x]
  /\ DOMAIN u.bin = {x \in DOMAIN m.bin : x < a \/ x >= e}
  /\ \A x \in DOMAIN u.bin : u.bin[x] = m.bin[x]

LEMMA OccupyCarves ==
  ASSUME NEW m, WellFormed(m), NEW a, NEW e, Stretch(m, a, e),
         NEW u, Cleared(m, u, a, e),
         NEW needed \in Sixteens, needed >= 48, needed <= e - a
  PROVE  LET c == CutAt(a, needed, e - a)
         IN  Carvable(m, a, c, e) /\ Carved(m, Occupy(u, a, needed, e - a), a, c, e)
<1> DEFINE c == CutAt(a, needed, e - a)
           n == Occupy(u, a, needed, e - a)
<1>0. Memory(m) /\ Tiled(m) /\ Tagged(m) /\ Binned(m)
  BY DEF WellFormed
<1>1. /\ a \in DOMAIN m.hdr /\ a \in Sixteens /\ e \in Sixteens /\ a \in Nat /\ e \in Nat
      /\ \A x \in DOMAIN m.hdr : x \in Nat
  BY <1>0 DEF Tiled, Stretch, RunsOf, Sixteens
<1>2. needed \in Nat
  BY DEF Sixteens
<1>3. /\ c \in Sixteens /\ c >= a + 48 /\ c <= e /\ (c = e \/ e >= c + 48)
      /\ c = e \/ c = a + needed
  BY <1>1, <1>2 DEF CutAt, Sixteens, Stretch
<1>4. Carvable(m, a, c, e)
  <2>1. c # a
    BY <1>1, <1>3
  <2> HIDE DEF c
  <2> QED
    BY <2>1, <1>3 DEF Carvable, Stretch
<1>5. /\ Memory(u) /\ a \in DOMAIN u.hdr /\ a + (e - a) = e /\ e \in DOMAIN u.hdr
      /\ e - a \in Nat /\ a # e
  BY <1>1 DEF Cleared, Stretch
<1>6. a + needed \notin DOMAIN u.bin
  BY <1>0, <1>1, <1>2 DEF Cleared, Stretch, Binned, FreeOf, RunsOf
<1>7. Occupied(u, n, a, c, e)
  <2> HIDE DEF n
  <2>1. n = Occupy(u, a, needed, e - a) /\ 0 < needed
    BY <1>2 DEF n
  <2>2. a + (e - a) \in DOMAIN u.hdr
    BY <1>5
  <2>3. Occupied(u, Occupy(u, a, needed, e - a), a, CutAt(a, needed, e - a), a + (e - a))
    BY <1>1, <1>2, <1>5, <1>6, <2>1, <2>2, OccupyDoes
  <2> QED
    BY <2>1, <2>3, <1>5 DEF c
<1> HIDE DEF n, c
<1>8. c # a /\ c \in Nat
  BY <1>1, <1>3 DEF Sixteens
<1>9. /\ DOMAIN n.hdr = {x \in DOMAIN m.hdr : x <= a \/ x >= e} \cup {c}
      /\ \A x \in DOMAIN m.hdr : x < a \/ x > e => n.hdr[x] = m.hdr[x]
  <2>1. DOMAIN n.hdr = {x \in DOMAIN m.hdr : x <= a \/ x >= e} \cup {c}
    BY <1>7 DEF Occupied, Cleared
  <2>2. ASSUME NEW x \in DOMAIN m.hdr, x < a \/ x > e
        PROVE  n.hdr[x] = m.hdr[x]
    <3>1. x \in DOMAIN u.hdr /\ x # a /\ x # c /\ x # e
      BY <1>1, <1>3, <1>8, <2>2 DEF Cleared
    <3> QED
      BY <3>1, <1>7 DEF Occupied, Cleared
  <2> QED
    BY <2>1, <2>2
<1>10. u.hdr[e] = m.hdr[e]
  BY <1>5 DEF Cleared
<1>11. /\ DOMAIN n.bin = {x \in DOMAIN m.bin : x < a \/ x >= e} \cup (IF c = e THEN {} ELSE {c})
       /\ \A x \in DOMAIN m.bin : x < a \/ x >= e => n.bin[x] = m.bin[x]
  BY <1>7 DEF Occupied, Cleared
<1>12. /\ Memory(n)
       /\ n.hdr[a] = [size |-> c - a, free |-> FALSE, prevFree |-> m.hdr[a].prevFree]
       /\ c # e => n.hdr[c] = [size |-> e - c, free |-> TRUE, prevFree |-> FALSE]
       /\ n.hdr[e] = Flagged(m.hdr[e], c # e)
       /\ c # e => e \in DOMAIN n.foot /\ n.foot[e] = e - c
       /\ c # e => n.bin[c] = BinIndexFor(e - c)
       /\ \A x \in DOMAIN m.foot : x <= a \/ x > e => x \in DOMAIN n.foot /\ n.foot[x] = m.foot[x]
  BY <1>7, <1>10 DEF Occupied, Cleared
<1>13. Carved(m, n, a, c, e)
  BY <1>9, <1>11, <1>12 DEF Carved
<1> QED
  BY <1>4, <1>13 DEF n, c

(* The tail of a deallocation.                                             *)
Freed(u, a) ==
  LET marked == SetHeader(u, a, u.hdr[a].size, TRUE, u.hdr[a].prevFree)
  IN  LinkFree(SetNextPrevFree(WriteFooter(marked, a), a, TRUE), a)

LEMMA FreedCarves ==
  ASSUME NEW m, WellFormed(m), NEW a, NEW e, Stretch(m, a, e), ~m.hdr[a].prevFree,
         NEW u, Cleared(m, u, a, e), u.hdr[a].size = e - a, e >= a + 48
  PROVE  Carvable(m, a, a, e) /\ Carved(m, Freed(u, a), a, a, e)
<1> DEFINE marked == SetHeader(u, a, u.hdr[a].size, TRUE, u.hdr[a].prevFree)
           noted == WriteFooter(marked, a)
           told == SetNextPrevFree(noted, a, TRUE)
           n == LinkFree(told, a)
<1>0. Memory(m) /\ Tiled(m) /\ Tagged(m) /\ Binned(m)
  BY DEF WellFormed
<1>1. /\ a \in DOMAIN m.hdr /\ a \in Sixteens /\ a \in Nat /\ e \in Nat /\ a < e
      /\ e \in DOMAIN m.hdr
      /\ \A x \in DOMAIN m.hdr : x \in Nat
  BY <1>0 DEF Tiled, Stretch, RunsOf, Sixteens
<1>2. Carvable(m, a, a, e)
  BY <1>1 DEF Carvable, Stretch
<1>3. /\ Memory(u) /\ a \in DOMAIN u.hdr /\ e \in DOMAIN u.hdr
      /\ u.hdr[a].prevFree = FALSE /\ e - a \in Nat /\ a + (e - a) = e
  <2>1. m.hdr[a].prevFree \in BOOLEAN
    BY <1>0, <1>1, HeaderFields DEF Memory
  <2> QED
    BY <2>1, <1>1 DEF Cleared
<1> DEFINE r == [size |-> e - a, free |-> TRUE, prevFree |-> FALSE]
<1>4. HeaderSet(u, marked, a, r)
  <2>1. marked = SetHeader(u, a, e - a, TRUE, FALSE)
    BY <1>3
  <2> HIDE DEF marked
  <2> QED
    BY <2>1, <1>3, SetHeaderDoes
<1> HIDE DEF marked
<1>5. /\ Memory(marked) /\ a \in DOMAIN marked.hdr /\ marked.hdr[a] = r
      /\ a + marked.hdr[a].size = e
  BY <1>3, <1>4 DEF HeaderSet
<1>6. FooterWritten(marked, noted, a, e)
  BY <1>1, <1>5, WriteFooterDoes
<1> HIDE DEF noted
<1>7. /\ Memory(noted) /\ noted.hdr = marked.hdr /\ a \in DOMAIN noted.hdr
      /\ a + noted.hdr[a].size = e /\ e \in DOMAIN noted.hdr
  BY <1>3, <1>4, <1>5, <1>6 DEF HeaderSet, FooterWritten
<1>8. HeaderSet(noted, told, e, Flagged(noted.hdr[e], TRUE))
  BY <1>7, SetNextPrevFreeDoes
<1> HIDE DEF told
<1>9. Memory(told) /\ a \notin DOMAIN told.bin /\ told.bin = u.bin
  BY <1>1, <1>4, <1>6, <1>8 DEF HeaderSet, FooterWritten, Cleared
<1>10. Linked(told, n, a)
  BY <1>9, LinkFreeDoes
<1> HIDE DEF n, r
<1>11. u.hdr[e] = m.hdr[e] /\ a # e
  BY <1>1, <1>3 DEF Cleared
<1>12. DOMAIN n.hdr = {x \in DOMAIN m.hdr : x <= a \/ x >= e} \cup {a}
  BY <1>3, <1>4, <1>6, <1>7, <1>8, <1>10 DEF HeaderSet, FooterWritten, Linked, Cleared
<1>13. n.hdr[a] = r
  BY <1>5, <1>7, <1>8, <1>10, <1>11 DEF HeaderSet, Linked
<1>14. n.hdr[e] = Flagged(m.hdr[e], TRUE)
  BY <1>3, <1>4, <1>7, <1>8, <1>10, <1>11 DEF HeaderSet, Linked
<1>15. ASSUME NEW x \in DOMAIN m.hdr, x < a \/ x > e
       PROVE  n.hdr[x] = m.hdr[x]
  <2>1. x \in DOMAIN u.hdr /\ x # a /\ x # e
    BY <1>1, <1>15 DEF Cleared
  <2>2. marked.hdr[x] = m.hdr[x] /\ x \in DOMAIN marked.hdr
    BY <2>1, <1>4 DEF HeaderSet, Cleared
  <2> QED
    BY <2>1, <2>2, <1>7, <1>8, <1>10 DEF HeaderSet, Linked
<1>16. /\ \A x \in DOMAIN m.foot : x <= a \/ x > e => x \in DOMAIN n.foot /\ n.foot[x] = m.foot[x]
       /\ e \in DOMAIN n.foot /\ n.foot[e] = e - a
  <2>1. n.foot = noted.foot /\ marked.foot = m.foot
    BY <1>4, <1>8, <1>10 DEF HeaderSet, Linked, Cleared
  <2>2. e \in DOMAIN noted.foot /\ noted.foot[e] = e - a
    BY <1>5, <1>6 DEF FooterWritten, r
  <2>3. ASSUME NEW x \in DOMAIN m.foot, x <= a \/ x > e
        PROVE  x \in DOMAIN noted.foot /\ noted.foot[x] = m.foot[x]
    <3>1. x \in Nat
      BY <1>0 DEF Memory
    <3>2. x # e
      BY <3>1, <2>3, <1>1
    <3> QED
      BY <2>1, <2>3, <3>2, <1>6 DEF FooterWritten
  <2> QED
    BY <2>1, <2>2, <2>3
<1>17. told.hdr[a].size = e - a
  BY <1>5, <1>7, <1>8, <1>11 DEF HeaderSet, r
<1>18. /\ DOMAIN n.bin = {x \in DOMAIN m.bin : x < a \/ x >= e} \cup {a}
       /\ n.bin[a] = BinIndexFor(e - a)
       /\ \A x \in DOMAIN m.bin : x < a \/ x >= e => n.bin[x] = m.bin[x]
  <2>1. DOMAIN u.bin = {x \in DOMAIN m.bin : x < a \/ x >= e}
    BY DEF Cleared
  <2>2. \A x \in DOMAIN u.bin : n.bin[x] = m.bin[x]
    BY <1>9, <1>10 DEF Linked, Cleared
  <2>3. DOMAIN n.bin = (DOMAIN u.bin) \cup {a} /\ n.bin[a] = BinIndexFor(e - a)
    BY <1>9, <1>10, <1>17 DEF Linked
  <2> QED
    BY <2>1, <2>2, <2>3
<1>19. Memory(n)
  BY <1>10 DEF Linked
<1>20. Carved(m, n, a, a, e)
  BY <1>11, <1>12, <1>13, <1>14, <1>15, <1>16, <1>18, <1>19 DEF Carved, r
<1>21. Freed(u, a) = n
  BY DEF Freed, n, told, noted, marked
<1> QED
  BY <1>2, <1>20, <1>21

-----------------------------------------------------------------------------
(* The functions of the allocator, each as one rewriting.                  *)

(* The numbers behind the headers, as the steps below need them.           *)
Ruled(m) ==
  /\ Memory(m) /\ Tiled(m) /\ Tagged(m) /\ Binned(m)
  /\ \A x \in DOMAIN m.hdr : /\ x \in Nat /\ m.hdr[x].size \in Nat
                             /\ m.hdr[x].free \in BOOLEAN /\ m.hdr[x].prevFree \in BOOLEAN
  /\ \A h \in RunsOf(m) : /\ h \in DOMAIN m.hdr /\ m.hdr[h].size >= 48
                          /\ EndOf(m, h) \in DOMAIN m.hdr /\ EndOf(m, h) = h + m.hdr[h].size
                          /\ EndOf(m, h) > h
  /\ \A x, h \in DOMAIN m.hdr : x < h => x + m.hdr[x].size <= h
  /\ FreeOf(m) \subseteq RunsOf(m) /\ UsedOf(m) \subseteq RunsOf(m)
  /\ FreeOf(m) \cap UsedOf(m) = {}

LEMMA RulesHold ==
  ASSUME NEW m, WellFormed(m)
  PROVE  Ruled(m)
<1>0. Memory(m) /\ Tiled(m) /\ Tagged(m) /\ Binned(m)
  BY DEF WellFormed
<1>1. \A x \in DOMAIN m.hdr : /\ x \in Nat /\ m.hdr[x].size \in Nat
                              /\ m.hdr[x].free \in BOOLEAN /\ m.hdr[x].prevFree \in BOOLEAN
  BY <1>0, HeaderFields DEF Memory, Tiled, Sixteens
<1>2. \A h \in RunsOf(m) : /\ h \in DOMAIN m.hdr /\ m.hdr[h].size >= 48
                           /\ EndOf(m, h) \in DOMAIN m.hdr /\ EndOf(m, h) = h + m.hdr[h].size
                           /\ EndOf(m, h) > h
  BY <1>0, <1>1 DEF Tiled, EndOf, RunsOf
<1>3. \A x, h \in DOMAIN m.hdr : x < h => x + m.hdr[x].size <= h
  BY <1>0 DEF Tiled, EndOf
<1>4. /\ FreeOf(m) \subseteq RunsOf(m) /\ UsedOf(m) \subseteq RunsOf(m)
      /\ FreeOf(m) \cap UsedOf(m) = {}
  BY DEF FreeOf, UsedOf
<1> QED
  BY <1>0, <1>1, <1>2, <1>3, <1>4 DEF Ruled

(* _allocate_from_free_run: the front of a free run comes into use.        *)
LEMMA AllocateDoes ==
  ASSUME NEW m, WellFormed(m), NEW h \in FreeOf(m),
         NEW needed \in Sixteens, needed >= 48, needed <= m.hdr[h].size
  PROVE  LET e == EndOf(m, h)
             c == CutAt(h, needed, m.hdr[h].size)
         IN  Carvable(m, h, c, e) /\ Carved(m, AllocateFromFreeRun(m, h, needed), h, c, e)
<1> DEFINE e == EndOf(m, h)
           u == UnlinkFree(m, h)
<1>0. Ruled(m)
  BY RulesHold
<1>1. h \in DOMAIN m.bin /\ m.bin[h] = BinIndexFor(m.hdr[h].size) /\ Memory(m)
  BY <1>0 DEF Ruled, Binned
<1>2. Unlinked(m, u, h)
  BY <1>1, UnlinkFreeDoes
<1> HIDE DEF u
<1>3. e - h = m.hdr[h].size /\ h \in Nat /\ e \in Nat
  BY <1>0 DEF Ruled, EndOf
<1>4. Stretch(m, h, e)
  <2>1. h \in RunsOf(m) /\ e \in DOMAIN m.hdr /\ h < e
    BY <1>0 DEF Ruled
  <2>2. e \notin FreeOf(m)
    BY <1>0 DEF Ruled, Tagged
  <2>3. \A x \in DOMAIN m.hdr : h <= x /\ x < e => x \in RunsOf(m)
    BY <2>1, <1>0 DEF Ruled
  <2> QED
    BY <2>1, <2>2, <2>3 DEF Stretch
<1> HIDE DEF e
<1>5. Cleared(m, u, h, e)
  <2>1. DOMAIN m.hdr = {x \in DOMAIN m.hdr : x <= h \/ x >= e}
    BY <1>0, <1>3 DEF Ruled
  <2>2. (DOMAIN m.bin) \ {h} = {x \in DOMAIN m.bin : x < h \/ x >= e}
    BY <1>0, <1>3, <1>4 DEF Ruled, Binned, Stretch
  <2> QED
    BY <1>2, <2>1, <2>2 DEF Cleared, Unlinked
<1>6. Carvable(m, h, CutAt(h, needed, e - h), e)
      /\ Carved(m, Occupy(u, h, needed, e - h), h, CutAt(h, needed, e - h), e)
  <2>1. needed <= e - h
    BY <1>3
  <2> QED
    BY <1>4, <1>5, <2>1, OccupyCarves
<1>7. AllocateFromFreeRun(m, h, needed) = Occupy(u, h, needed, e - h)
  BY <1>3 DEF AllocateFromFreeRun, u
<1> QED
  BY <1>3, <1>6, <1>7 DEF e

(* What follows the run at h once a free successor is absorbed.            *)
Absorbed(m, u, h, e) ==
  /\ Stretch(m, h, e) /\ Cleared(m, u, h, e)
  /\ u.hdr[h].size = e - h
  /\ \A x \in UsedOf(m) : h <= x /\ x < e => x = h

(* A run and its free successor.                                           *)
LEMMA JoinedStretch ==
  ASSUME NEW m, WellFormed(m), NEW h \in RunsOf(m), EndOf(m, h) \in FreeOf(m)
  PROVE  LET n == EndOf(m, h)
             e == EndOf(m, n)
         IN  /\ Stretch(m, h, e)
             /\ \A x \in DOMAIN m.hdr : h <= x /\ x < e => x = h \/ x = n
             /\ e - h = m.hdr[h].size + m.hdr[n].size
             /\ h < n /\ n < e /\ h \in Nat /\ n \in Nat /\ e \in Nat
             /\ m.hdr[h].size \in Nat /\ m.hdr[n].size \in Nat
<1> DEFINE n == EndOf(m, h)
           e == EndOf(m, n)
<1>0. Ruled(m)
  BY RulesHold
<1>1. /\ n \in RunsOf(m) /\ e \in DOMAIN m.hdr /\ h < n /\ n < e
      /\ h \in Nat /\ n \in Nat /\ e \in Nat /\ h \in DOMAIN m.hdr /\ n \in DOMAIN m.hdr
      /\ n = h + m.hdr[h].size /\ e = n + m.hdr[n].size
      /\ m.hdr[h].size \in Nat /\ m.hdr[n].size \in Nat
  BY <1>0 DEF Ruled
<1>2. e \notin FreeOf(m)
  BY <1>0 DEF Ruled, Tagged
<1> HIDE DEF n, e
<1>3. \A x \in DOMAIN m.hdr : h <= x /\ x < e => x = h \/ x = n
  BY <1>0, <1>1 DEF Ruled
<1>4. Stretch(m, h, e)
  BY <1>1, <1>2, <1>3 DEF Stretch
<1>5. e - h = m.hdr[h].size + m.hdr[n].size
  BY <1>1
<1> QED
  BY <1>1, <1>3, <1>4, <1>5 DEF n, e

(* expand: the run and its free successor become one, of which the front   *)
(* stays in use.                                                           *)
LEMMA ExpandDoes ==
  ASSUME NEW m, WellFormed(m), NEW h \in RunsOf(m), EndOf(m, h) \in FreeOf(m),
         NEW needed \in Sixteens, needed >= 48,
         needed <= m.hdr[h].size + m.hdr[EndOf(m, h)].size
  PROVE  LET n == EndOf(m, h)
             e == EndOf(m, n)
             total == m.hdr[h].size + m.hdr[n].size
             c == CutAt(h, needed, total)
         IN  /\ Carvable(m, h, c, e)
             /\ Carved(m, Occupy(Forget(UnlinkFree(m, n), n), h, needed, total), h, c, e)
             /\ \A x \in UsedOf(m) : h <= x /\ x < e => x = h
             /\ total = e - h
<1> DEFINE n == EndOf(m, h)
           e == EndOf(m, n)
           v == UnlinkFree(m, n)
           u == Forget(v, n)
<1>0. Ruled(m)
  BY RulesHold
<1>1. /\ Stretch(m, h, e)
      /\ \A x \in DOMAIN m.hdr : h <= x /\ x < e => x = h \/ x = n
      /\ e - h = m.hdr[h].size + m.hdr[n].size
      /\ h < n /\ n < e /\ h \in Nat /\ n \in Nat /\ e \in Nat
  BY JoinedStretch
<1>2. n \in FreeOf(m)
  OBVIOUS
<1>3. n \in DOMAIN m.bin /\ m.bin[n] = BinIndexFor(m.hdr[n].size) /\ Memory(m)
  BY <1>0 DEF Ruled, Binned
<1>4. Unlinked(m, v, n)
  BY <1>3, UnlinkFreeDoes
<1> HIDE DEF v
<1>5. Memory(v)
  BY <1>4 DEF Unlinked
<1>6. HeaderGone(v, u, n)
  BY <1>5, ForgetDoes
<1> HIDE DEF u, e, n
<1>7. Cleared(m, u, h, e)
  <2>1. (DOMAIN m.hdr) \ {n} = {x \in DOMAIN m.hdr : x <= h \/ x >= e}
    BY <1>0, <1>1 DEF Ruled
  <2>2. (DOMAIN m.bin) \ {n} = {x \in DOMAIN m.bin : x < h \/ x >= e}
    <3>1. h \notin FreeOf(m)
      BY <1>0, <1>2 DEF Ruled, Tagged, n
    <3>2. DOMAIN m.bin \subseteq DOMAIN m.hdr /\ h \notin DOMAIN m.bin
      BY <3>1, <1>0 DEF Ruled, Binned
    <3> QED
      BY <3>2, <1>0, <1>1 DEF Ruled
  <2>3. h \in DOMAIN u.hdr /\ u.hdr[h] = m.hdr[h]
    BY <1>0, <1>1, <1>4, <1>6 DEF Unlinked, HeaderGone, Ruled
  <2> QED
    BY <1>4, <1>6, <2>1, <2>2, <2>3 DEF Cleared, Unlinked, HeaderGone
<1>8. Carvable(m, h, CutAt(h, needed, e - h), e)
      /\ Carved(m, Occupy(u, h, needed, e - h), h, CutAt(h, needed, e - h), e)
  <2>1. needed <= e - h
    BY <1>1 DEF n
  <2> QED
    BY <1>1, <1>7, <2>1, OccupyCarves
<1>9. \A x \in UsedOf(m) : h <= x /\ x < e => x = h
  BY <1>0, <1>1, <1>2 DEF Ruled
<1>10. /\ Carvable(m, h, CutAt(h, needed, m.hdr[h].size + m.hdr[n].size), e)
       /\ Carved(m, Occupy(u, h, needed, m.hdr[h].size + m.hdr[n].size), h,
                 CutAt(h, needed, m.hdr[h].size + m.hdr[n].size), e)
  BY <1>1, <1>8
<1> QED
  BY <1>1, <1>9, <1>10 DEF u, v, e, n

LEMMA AbsorbNextDoes ==
  ASSUME NEW m, WellFormed(m), NEW h \in UsedOf(m)
  PROVE  \E e : Absorbed(m, AbsorbNext(m, h), h, e)
<1> DEFINE n == EndOf(m, h)
<1>0. Ruled(m)
  BY RulesHold
<1>1. /\ h \in RunsOf(m) /\ h \in DOMAIN m.hdr /\ n \in DOMAIN m.hdr /\ h \in Nat /\ n \in Nat
      /\ n > h /\ n - h = m.hdr[h].size /\ h \notin FreeOf(m)
  BY <1>0 DEF Ruled
<1>2. NextRun(m, h) = n /\ (HasNext(m, h) /\ m.hdr[n].free <=> n \in FreeOf(m))
  BY <1>1 DEF NextRun, HasNext, EndOf, FreeOf, RunsOf
<1>3. CASE n \notin FreeOf(m)
  <2>1. AbsorbNext(m, h) = m
    BY <1>2, <1>3 DEF AbsorbNext
  <2>2. \A x \in DOMAIN m.hdr : (x = h \/ x < h \/ x >= n) /\ (x <= h \/ x >= n)
    BY <1>0, <1>1 DEF Ruled
  <2>3. Stretch(m, h, n)
    <3>1. h < n
      BY <1>1
    <3>2. \A x \in DOMAIN m.hdr : h <= x /\ x < n => x \in RunsOf(m)
      BY <1>0, <1>1, <2>2 DEF Ruled
    <3> HIDE DEF n
    <3> QED
      BY <1>1, <1>3, <3>1, <3>2 DEF Stretch
  <2>4. DOMAIN m.hdr = {x \in DOMAIN m.hdr : x <= h \/ x >= n}
    BY <2>2
  <2>5. DOMAIN m.bin = {x \in DOMAIN m.bin : x < h \/ x >= n}
    <3>1. DOMAIN m.bin \subseteq DOMAIN m.hdr /\ h \notin DOMAIN m.bin
      BY <1>0, <1>1 DEF Ruled, Binned
    <3> QED
      BY <2>2, <3>1
  <2>6. Cleared(m, m, h, n)
    BY <2>4, <2>5, <1>0 DEF Cleared, Ruled
  <2>7. \A x \in UsedOf(m) : h <= x /\ x < n => x = h
    BY <2>2, <1>0, <1>1 DEF Ruled
  <2> HIDE DEF n
  <2> QED
    BY <1>1, <2>1, <2>3, <2>6, <2>7 DEF Absorbed
<1>4. CASE n \in FreeOf(m)
  <2> DEFINE e == EndOf(m, n)
             v == UnlinkFree(m, n)
             w == [v EXCEPT !.hdr[h].size = @ + m.hdr[n].size]
             u == Forget(w, n)
  <2>1. AbsorbNext(m, h) = u
    BY <1>2, <1>4 DEF AbsorbNext
  <2>2. /\ Stretch(m, h, e)
        /\ \A x \in DOMAIN m.hdr : h <= x /\ x < e => x = h \/ x = n
        /\ e - h = m.hdr[h].size + m.hdr[n].size
        /\ h < n /\ n < e /\ h \in Nat /\ n \in Nat /\ e \in Nat
        /\ m.hdr[h].size \in Nat /\ m.hdr[n].size \in Nat
    BY <1>1, <1>4, JoinedStretch
  <2>3. n \in DOMAIN m.bin /\ m.bin[n] = BinIndexFor(m.hdr[n].size) /\ Memory(m)
    BY <1>0, <1>4 DEF Ruled, Binned
  <2>4. Unlinked(m, v, n)
    BY <2>3, UnlinkFreeDoes
  <2> HIDE DEF v
  <2>5. Memory(v) /\ h \in DOMAIN v.hdr /\ v.hdr = m.hdr
    BY <1>1, <2>4 DEF Unlinked
  <2>6. HeaderSet(v, w, h, [size |-> v.hdr[h].size + m.hdr[n].size, free |-> v.hdr[h].free,
                            prevFree |-> v.hdr[h].prevFree])
    BY <2>2, <2>5, WidenDoes
  <2> HIDE DEF w
  <2>7. Memory(w)
    BY <2>6 DEF HeaderSet
  <2>8. HeaderGone(w, u, n)
    BY <2>7, ForgetDoes
  <2> HIDE DEF u, e, n
  <2>9. /\ h \in DOMAIN u.hdr /\ u.hdr[h].size = e - h
        /\ u.hdr[h].prevFree = m.hdr[h].prevFree
    BY <2>2, <2>5, <2>6, <2>8 DEF HeaderSet, HeaderGone
  <2>10. Cleared(m, u, h, e)
    <3>1. (DOMAIN m.hdr) \ {n} = {x \in DOMAIN m.hdr : x <= h \/ x >= e}
      BY <1>0, <2>2 DEF Ruled
    <3>2. (DOMAIN m.bin) \ {n} = {x \in DOMAIN m.bin : x < h \/ x >= e}
      <4>1. DOMAIN m.bin \subseteq DOMAIN m.hdr /\ h \notin DOMAIN m.bin
        BY <1>0, <1>1 DEF Ruled, Binned
      <4> QED
        BY <4>1, <1>0, <2>2 DEF Ruled
    <3>3. DOMAIN u.hdr = (DOMAIN m.hdr) \ {n}
      BY <2>5, <2>6, <2>8 DEF HeaderSet, HeaderGone
    <3>4. \A x \in DOMAIN u.hdr : x # h => u.hdr[x] = m.hdr[x]
      BY <2>5, <2>6, <2>8, <3>3 DEF HeaderSet, HeaderGone
    <3>5. u.bin = v.bin /\ u.foot = m.foot /\ Memory(u)
      BY <2>4, <2>6, <2>8 DEF HeaderSet, HeaderGone, Unlinked
    <3> QED
      BY <2>4, <2>9, <3>1, <3>2, <3>3, <3>4, <3>5 DEF Cleared, Unlinked
  <2>11. \A x \in UsedOf(m) : h <= x /\ x < e => x = h
    BY <1>0, <1>4, <2>2 DEF Ruled
  <2> QED
    BY <2>1, <2>2, <2>9, <2>10, <2>11 DEF Absorbed
<1> QED
  BY <1>3, <1>4

(* deallocate_bytes: the run, with whichever neighbours are free, becomes  *)
(* one free run; no other run in use is touched.                           *)
LEMMA FreeRunDoes ==
  ASSUME NEW m, WellFormed(m), NEW h0 \in UsedOf(m)
  PROVE  \E a, e : /\ Carvable(m, a, a, e) /\ Carved(m, FreeRun(m, h0), a, a, e)
                   /\ a <= h0 /\ h0 < e
                   /\ \A x \in UsedOf(m) : a <= x /\ x < e => x = h0
<1> DEFINE m1 == AbsorbNext(m, h0)
           merge == m1.hdr[h0].prevFree /\ m1.hdr[PrevRun(m1, h0)].free
           h == IF merge THEN PrevRun(m1, h0) ELSE h0
           m2 == IF merge
                 THEN Forget([UnlinkFree(m1, h) EXCEPT !.hdr[h].size = @ + m1.hdr[h0].size], h0)
                 ELSE m1
<1>0. Ruled(m)
  BY RulesHold
<1>1. FreeRun(m, h0) = Freed(m2, h)
  BY Zenon DEF FreeRun, Freed
<1>2. PICK e : Absorbed(m, m1, h0, e)
  BY AbsorbNextDoes
<1> HIDE DEF m1
<1>3. /\ Stretch(m, h0, e) /\ Cleared(m, m1, h0, e) /\ m1.hdr[h0].size = e - h0
      /\ \A x \in UsedOf(m) : h0 <= x /\ x < e => x = h0
  BY <1>2 DEF Absorbed
<1>4. /\ h0 \in Nat /\ e \in Nat /\ h0 < e /\ h0 \in DOMAIN m.hdr /\ e \in DOMAIN m.hdr
      /\ e >= h0 + 48 /\ h0 \in RunsOf(m)
      /\ m1.hdr[h0].prevFree = m.hdr[h0].prevFree /\ m.hdr[h0].prevFree \in BOOLEAN
  BY <1>0, <1>3 DEF Ruled, Stretch, Cleared
<1>5. CASE ~m.hdr[h0].prevFree
  <2>1. h = h0 /\ m2 = m1
    BY <1>4, <1>5
  <2>2. Carvable(m, h0, h0, e) /\ Carved(m, Freed(m1, h0), h0, h0, e)
    BY <1>3, <1>4, <1>5, FreedCarves
  <2> HIDE DEF m2, h, merge
  <2>3. Carved(m, FreeRun(m, h0), h0, h0, e) /\ h0 <= h0 /\ h0 < e
    BY <1>1, <1>4, <2>1, <2>2
  <2>4. \A x \in UsedOf(m) : h0 <= x /\ x < e => x = h0
    BY <1>3
  <2> QED
    BY <2>2, <2>3, <2>4, Zenon
<1>6. CASE m.hdr[h0].prevFree
  <2>1. PICK p \in FreeOf(m) : EndOf(m, p) = h0
    BY <1>0, <1>4, <1>6 DEF Ruled, Tagged
  <2>2. /\ p \in RunsOf(m) /\ p \in DOMAIN m.hdr /\ p \in Nat /\ p < h0
        /\ p + m.hdr[p].size = h0 /\ m.hdr[p].size \in Nat /\ m.hdr[p].free
        /\ h0 \in DOMAIN m.foot /\ m.foot[h0] = m.hdr[p].size
    BY <1>0, <2>1 DEF Ruled, Tagged, FreeOf
  <2>3. p \in DOMAIN m1.hdr /\ m1.hdr[p] = m.hdr[p] /\ PrevRun(m1, h0) = p
    <3>1. p \in DOMAIN m1.hdr /\ m1.hdr[p] = m.hdr[p] /\ m1.foot = m.foot
      BY <1>3, <1>4, <2>2 DEF Cleared
    <3> QED
      BY <3>1, <1>4, <2>2 DEF PrevRun
  <2> DEFINE v == UnlinkFree(m1, p)
             k == m1.hdr[h0].size
             w == [v EXCEPT !.hdr[p].size = @ + k]
             u == Forget(w, h0)
  <2>4. h = p /\ m2 = u
    BY <1>4, <1>6, <2>2, <2>3
  <2>5. ~m.hdr[p].prevFree
    BY <1>0, <2>1, <2>2 DEF Ruled, Tagged
  <2>6. p \in DOMAIN m1.bin /\ m1.bin[p] = BinIndexFor(m1.hdr[p].size) /\ Memory(m1)
    <3>1. p \in DOMAIN m.bin /\ m.bin[p] = BinIndexFor(m.hdr[p].size)
      BY <1>0, <2>1 DEF Ruled, Binned
    <3> QED
      BY <3>1, <1>3, <2>2, <2>3 DEF Cleared
  <2>7. Unlinked(m1, v, p)
    BY <2>6, UnlinkFreeDoes
  <2>8. k = e - h0 /\ k \in Nat
    BY <1>3, <1>4
  <2> HIDE DEF v, k
  <2>9. Memory(v) /\ v.hdr = m1.hdr /\ p \in DOMAIN v.hdr
    BY <2>3, <2>7 DEF Unlinked
  <2>10. HeaderSet(v, w, p, [size |-> v.hdr[p].size + k, free |-> v.hdr[p].free,
                             prevFree |-> v.hdr[p].prevFree])
    BY <2>8, <2>9, WidenDoes
  <2> HIDE DEF w
  <2>11. Memory(w)
    BY <2>10 DEF HeaderSet
  <2>12. HeaderGone(w, u, h0)
    BY <2>11, ForgetDoes
  <2> HIDE DEF u
  <2>13. /\ p \in DOMAIN u.hdr /\ u.hdr[p].size = e - p
         /\ u.hdr[p].prevFree = m.hdr[p].prevFree
    <3>1. /\ p \in DOMAIN u.hdr /\ u.hdr[p].size = m.hdr[p].size + k
          /\ u.hdr[p].prevFree = m.hdr[p].prevFree
      BY <2>2, <2>3, <2>9, <2>10, <2>12, <1>4 DEF HeaderSet, HeaderGone
    <3> QED
      BY <3>1, <1>4, <2>2, <2>8
  <2>14. DOMAIN m1.hdr = {x \in DOMAIN m.hdr : x <= h0 \/ x >= e}
    BY <1>3 DEF Cleared
  <2>15. ASSUME NEW x \in DOMAIN m.hdr, p <= x, x < e
         PROVE  x = p \/ (h0 <= x /\ x < e)
    BY <1>0, <2>2, <2>15, <1>4 DEF Ruled
  <2>16. Stretch(m, p, e)
    BY <1>3, <1>4, <2>2, <2>15 DEF Stretch
  <2>17. Cleared(m, u, p, e)
    <3>1. {x \in DOMAIN m.hdr : x <= h0 \/ x >= e} \ {h0} = {x \in DOMAIN m.hdr : x <= p \/ x >= e}
      BY <1>0, <1>4, <2>2, <2>15 DEF Ruled
    <3>2. DOMAIN m.bin \subseteq DOMAIN m.hdr
      BY <1>0 DEF Ruled, Binned
    <3>3. {x \in DOMAIN m.bin : x < h0 \/ x >= e} \ {p} = {x \in DOMAIN m.bin : x < p \/ x >= e}
      BY <3>2, <1>0, <1>4, <2>2, <2>15 DEF Ruled
    <3>4. DOMAIN u.hdr = (DOMAIN m1.hdr) \ {h0}
      BY <2>2, <2>9, <2>10, <2>12, <2>3 DEF HeaderSet, HeaderGone
    <3>5. \A x \in DOMAIN u.hdr : x # p => u.hdr[x] = m1.hdr[x]
      BY <2>9, <2>10, <2>12, <3>4 DEF HeaderSet, HeaderGone
    <3>6. \A x \in DOMAIN u.hdr : x # p => u.hdr[x] = m.hdr[x]
      BY <3>4, <3>5, <1>3 DEF Cleared
    <3>7. u.bin = v.bin /\ u.foot = m.foot /\ Memory(u)
      BY <2>7, <2>10, <2>12, <1>3 DEF HeaderSet, HeaderGone, Unlinked, Cleared
    <3>8. /\ DOMAIN u.bin = {x \in DOMAIN m.bin : x < h0 \/ x >= e} \ {p}
          /\ \A x \in DOMAIN u.bin : u.bin[x] = m.bin[x]
      BY <3>7, <2>7, <1>3 DEF Unlinked, Cleared
    <3> QED
      BY <2>13, <2>14, <3>1, <3>3, <3>4, <3>6, <3>7, <3>8 DEF Cleared
  <2>18. e >= p + 48
    BY <1>4, <2>2
  <2>19. Carvable(m, p, p, e) /\ Carved(m, Freed(u, p), p, p, e)
    BY <2>5, <2>13, <2>16, <2>17, <2>18, FreedCarves
  <2>20. \A x \in UsedOf(m) : p <= x /\ x < e => x = h0
    BY <1>0, <1>3, <2>1, <2>15 DEF Ruled
  <2>21. Carved(m, FreeRun(m, h0), p, p, e)
    BY <1>1, <2>4, <2>19
  <2>22. p <= h0 /\ h0 < e
    BY <1>4, <2>2
  <2> HIDE DEF m2, h
  <2> QED
    BY <2>19, <2>20, <2>21, <2>22
<1> QED
  BY <1>4, <1>5, <1>6

-----------------------------------------------------------------------------
(* _find_fit.                                                              *)

(* What it may return is large enough, and it returns nothing only when no *)
(* free run is.                                                            *)
LEMMA FitsExact ==
  ASSUME WellFormed(mem), NEW needed \in Sixteens
  PROVE  /\ \A h \in Fits(needed) : h \in FreeOf(mem) /\ mem.hdr[h].size >= needed
         /\ Fits(needed) = {} => \A h \in FreeOf(mem) : mem.hdr[h].size < needed
<1> DEFINE start == BinIndexFor(needed)
           size(h) == mem.hdr[h].size
           roomy == {h \in DOMAIN bin : bin[h] = start /\ (start < LinearBins \/ size(h) >= needed)}
           above == {i \in mask : i > start}
           linear == start < LinearBins
<1>1. /\ mask = {bin[x] : x \in DOMAIN bin}
      /\ DOMAIN bin = FreeOf(mem)
      /\ \A h \in FreeOf(mem) : bin[h] = BinIndexFor(size(h)) /\ size(h) \in Sixteens
  BY DEF WellFormed, Memory, Binned, Tiled, FreeOf, bin, mask
<1>2. Fits(needed) = IF start \in mask /\ (linear \/ roomy # {}) THEN roomy
                     ELSE IF above = {} THEN {}
                     ELSE {h \in DOMAIN bin : bin[h] = Min(above)}
  BY DEF Fits, hdr
<1>3. start \in Nat /\ needed \in Nat
  BY BinRange, BinConstants DEF Sixteens
<1>4. \A h \in FreeOf(mem) : bin[h] \in Nat /\ size(h) \in Nat
  BY <1>1, BinRange, BinConstants DEF Sixteens
<1>5. above # {} => Min(above) \in above /\ \A i \in above : Min(above) <= i
  <2>1. above \subseteq Nat
    BY <1>1, <1>4
  <2> HIDE DEF above
  <2> QED
    BY <2>1, MinOfNaturals
<1> HIDE DEF start, roomy, above, linear, size
<1>6. ASSUME NEW h \in FreeOf(mem), size(h) >= needed
      PROVE  bin[h] >= start
  BY <1>1, <1>3, <1>4, <1>6, BinOrder DEF start
<1>7. ASSUME NEW h \in FreeOf(mem), bin[h] > start
      PROVE  size(h) >= needed
  <2>1. SUFFICES ASSUME size(h) <= needed PROVE FALSE
    BY <1>3, <1>4
  <2>2. BinIndexFor(size(h)) <= BinIndexFor(needed)
    BY <1>1, <2>1, BinOrder
  <2> QED
    BY <1>1, <1>3, <1>4, <1>7, <2>2 DEF start
<1>8. ASSUME NEW h \in roomy
      PROVE  h \in FreeOf(mem) /\ size(h) >= needed
  <2>1. h \in FreeOf(mem) /\ bin[h] = start /\ (linear \/ size(h) >= needed)
    BY <1>1 DEF roomy, linear
  <2>2. CASE linear
    <3>1. BinIndexFor(needed) = BinIndexFor(size(h)) /\ BinIndexFor(needed) < LinearBins
      BY <1>1, <2>1, <2>2 DEF linear, start
    <3>2. needed = size(h)
      BY <1>1, <2>1, <3>1, LinearBinsExact
    <3> QED
      BY <1>3, <2>1, <3>2
  <2> QED
    BY <2>1, <2>2
<1>9. ASSUME NEW h \in Fits(needed)
      PROVE  h \in FreeOf(mem) /\ size(h) >= needed
  <2>1. CASE start \in mask /\ (linear \/ roomy # {})
    BY <1>2, <1>8, <1>9, <2>1
  <2>2. CASE ~(start \in mask /\ (linear \/ roomy # {}))
    <3>1. above # {} /\ h \in DOMAIN bin /\ bin[h] = Min(above)
      BY <1>2, <1>9, <2>2
    <3>2. h \in FreeOf(mem) /\ bin[h] > start
      BY <1>1, <1>5, <3>1 DEF above
    <3> QED
      BY <1>7, <3>2
  <2> QED
    BY <2>1, <2>2
<1>10. ASSUME Fits(needed) = {}, NEW h \in FreeOf(mem), size(h) >= needed
       PROVE  FALSE
  <2>1. bin[h] >= start /\ bin[h] \in mask /\ h \in DOMAIN bin
    BY <1>1, <1>6, <1>10
  <2>2. CASE start \in mask /\ (linear \/ roomy # {})
    <3>1. roomy = {}
      BY <1>2, <1>10, <2>2
    <3>2. PICK g \in DOMAIN bin : bin[g] = start
      BY <1>1, <2>2
    <3>3. g \in roomy
      BY <2>2, <3>1, <3>2 DEF roomy, linear
    <3> QED
      BY <3>1, <3>3
  <2>3. CASE ~(start \in mask /\ (linear \/ roomy # {}))
    <3>1. above = {}
      <4>1. SUFFICES ASSUME above # {} PROVE FALSE
        OBVIOUS
      <4>2. Min(above) \in mask
        BY <1>5, <4>1 DEF above
      <4>3. PICK g \in DOMAIN bin : bin[g] = Min(above)
        BY <1>1, <4>2
      <4> QED
        BY <1>2, <1>10, <2>3, <4>1, <4>3
    <3>2. bin[h] = start
      BY <1>3, <1>4, <2>1, <3>1 DEF above
    <3>3. h \in roomy
      BY <1>10, <2>1, <3>2 DEF roomy
    <3> QED
      BY <2>1, <2>3, <3>2, <3>3
  <2> QED
    BY <2>2, <2>3
<1>11. \A h \in FreeOf(mem) : Fits(needed) = {} => size(h) < needed
  BY <1>3, <1>4, <1>10
<1> QED
  BY <1>9, <1>11 DEF size

-----------------------------------------------------------------------------
(* Chunks.                                                                 *)

(* The chunks lie apart below t; each begins with a run that has no free   *)
(* run before it and ends with an epilogue; and every header belongs to    *)
(* one.                                                                    *)
Epilogue(c) == c.begin + c.bytes - 16

ChunksApart(cs, t) ==
  /\ t \in Nat
  /\ \A c \in cs : /\ c.begin \in Sixteens /\ c.bytes \in Sixteens
                   /\ c.bytes >= 64 /\ c.begin + c.bytes <= t
  /\ \A c, d \in cs : \/ c = d
                      \/ c.begin + c.bytes <= d.begin
                      \/ d.begin + d.bytes <= c.begin

Chunked(m, cs) ==
  /\ \A c \in cs : /\ c.begin \in RunsOf(m) /\ ~m.hdr[c.begin].prevFree
                   /\ Epilogue(c) \in DOMAIN m.hdr /\ m.hdr[Epilogue(c)].size = 0
  /\ \A x \in DOMAIN m.hdr : \E c \in cs : c.begin <= x /\ x <= Epilogue(c)
  /\ \A x \in DOMAIN m.hdr : m.hdr[x].size = 0 => \E c \in cs : x = Epilogue(c)

(* A stretch of runs that is carved lies in one chunk.                     *)
LEMMA CarvedChunk ==
  ASSUME NEW m, NEW cs, NEW t, NEW a, NEW cut, NEW e,
         WellFormed(m), ChunksApart(cs, t), Chunked(m, cs), Carvable(m, a, cut, e)
  PROVE  \E c \in cs : c.begin <= a /\ e <= Epilogue(c)
<1>0. Ruled(m)
  BY RulesHold
<1>1. a \in DOMAIN m.hdr /\ a \in RunsOf(m) /\ a \in Nat /\ e \in Nat /\ e \in DOMAIN m.hdr /\ a < e
      /\ m.hdr[a].size # 0
  BY <1>0 DEF Ruled, Carvable, RunsOf
<1>2. PICK c \in cs : c.begin <= a /\ a <= Epilogue(c)
  BY <1>1 DEF Chunked
<1>3. Epilogue(c) \in DOMAIN m.hdr /\ Epilogue(c) \notin RunsOf(m) /\ Epilogue(c) \in Nat
  BY <1>0 DEF Chunked, RunsOf, Ruled
<1>4. e <= Epilogue(c)
  BY <1>1, <1>2, <1>3 DEF Carvable
<1> QED
  BY <1>2, <1>4

(* Carving leaves every chunk its first run and its epilogue.              *)
LEMMA CarvedChunked ==
  ASSUME NEW m, NEW n, NEW cs, NEW t, NEW a, NEW cut, NEW e,
         WellFormed(m), ChunksApart(cs, t), Chunked(m, cs),
         Carvable(m, a, cut, e), Carved(m, n, a, cut, e)
  PROVE  Chunked(n, cs)
<1>0. CarvedRuns(m, n, a, cut, e)
  BY CarvedRunsHold DEF WellFormed
<1>1. PICK home \in cs : home.begin <= a /\ e <= Epilogue(home)
  BY CarvedChunk
<1>2. \A c \in cs : /\ c.begin \in Nat /\ c.bytes \in Nat /\ c.bytes >= 64
                    /\ Epilogue(c) = c.begin + c.bytes - 16 /\ Epilogue(c) \in Nat
  BY DEF ChunksApart, Sixteens, Epilogue
<1>3. ASSUME NEW c \in cs
      PROVE  c.begin <= a \/ c.begin > e
  BY <1>0, <1>1, <1>2, <1>3 DEF CarvedRuns, ChunksApart
<1>4. ASSUME NEW c \in cs
      PROVE  c.begin \in RunsOf(n) /\ ~n.hdr[c.begin].prevFree
  <2>1. c.begin \in RunsOf(m) /\ ~m.hdr[c.begin].prevFree
    BY DEF Chunked
  <2>2. CASE c.begin = a
    BY <2>1, <2>2, <1>0 DEF CarvedRuns, RunsOf
  <2>3. CASE c.begin # a
    <3>1. c.begin < a \/ c.begin > e
      BY <1>0, <1>2, <1>3, <2>3 DEF CarvedRuns
    <3> QED
      BY <2>1, <3>1, <1>0 DEF CarvedRuns, RunsOf
  <2> QED
    BY <2>2, <2>3
<1>5. ASSUME NEW c \in cs
      PROVE  Epilogue(c) \in DOMAIN n.hdr /\ n.hdr[Epilogue(c)].size = 0
  <2>1. Epilogue(c) \in DOMAIN m.hdr /\ m.hdr[Epilogue(c)].size = 0
    BY DEF Chunked
  <2>2. Epilogue(c) < a \/ Epilogue(c) >= e
    BY <2>1, <1>0 DEF CarvedRuns, Carvable, RunsOf
  <2> QED
    BY <2>1, <2>2, <1>0, <1>2 DEF CarvedRuns
<1>6. ASSUME NEW x \in DOMAIN n.hdr
      PROVE  \E c \in cs : c.begin <= x /\ x <= Epilogue(c)
  <2>1. x \in DOMAIN m.hdr \/ (a <= x /\ x <= e)
    BY <1>0 DEF CarvedRuns
  <2>2. CASE a <= x /\ x <= e
    BY <2>2, <1>0, <1>1, <1>2 DEF CarvedRuns
  <2> QED
    BY <2>1, <2>2 DEF Chunked
<1>7. ASSUME NEW x \in DOMAIN n.hdr, n.hdr[x].size = 0
      PROVE  \E c \in cs : x = Epilogue(c)
  <2>1. x \in DOMAIN m.hdr /\ m.hdr[x].size = 0
    BY <1>0, <1>7 DEF CarvedRuns
  <2> QED
    BY <2>1 DEF Chunked
<1> QED
  BY <1>4, <1>5, <1>6, <1>7 DEF Chunked

(* _initialize_free_run: a free run and an epilogue behind all headers.    *)
Extended(m, n, a, e) ==
  /\ Memory(n)
  /\ DOMAIN n.hdr = (DOMAIN m.hdr) \cup {a, e}
  /\ n.hdr[a] = [size |-> e - a, free |-> TRUE, prevFree |-> FALSE]
  /\ n.hdr[e] = [size |-> 0, free |-> FALSE, prevFree |-> TRUE]
  /\ \A x \in DOMAIN m.hdr : n.hdr[x] = m.hdr[x]
  /\ e \in DOMAIN n.foot /\ n.foot[e] = e - a
  /\ \A x \in DOMAIN m.foot : x <= a => x \in DOMAIN n.foot /\ n.foot[x] = m.foot[x]
  /\ DOMAIN n.bin = (DOMAIN m.bin) \cup {a}
  /\ n.bin[a] = BinIndexFor(e - a)
  /\ \A x \in DOMAIN m.bin : n.bin[x] = m.bin[x]

LEMMA InitializeDoes ==
  ASSUME NEW m, WellFormed(m), NEW a \in Nat, NEW bytes \in Nat, bytes >= 64,
         \A x \in DOMAIN m.hdr : x < a
  PROVE  Extended(m, InitializeFreeRun(m, a, bytes), a, a + bytes - 16)
<1> DEFINE run == bytes - 16
           e == a + run
           marked == SetHeader(m, a, run, TRUE, FALSE)
           noted == WriteFooter(marked, a)
           linked == LinkFree(noted, a)
           n == SetHeader(linked, e, 0, FALSE, TRUE)
           r == [size |-> run, free |-> TRUE, prevFree |-> FALSE]
<1>1. InitializeFreeRun(m, a, bytes) = n
  BY Zenon DEF InitializeFreeRun, EpilogueSize
<1>2. /\ run \in Nat /\ e \in Nat /\ e - a = run /\ a < e /\ e = a + bytes - 16
      /\ \A x \in DOMAIN m.hdr : x # a /\ x # e
  <2>1. Ruled(m)
    BY RulesHold
  <2> QED
    BY <2>1 DEF Ruled
<1>3. Memory(m) /\ DOMAIN m.bin \subseteq DOMAIN m.hdr
  BY DEF WellFormed, Binned, FreeOf, RunsOf
<1> HIDE DEF e, run, n
<1>4. HeaderSet(m, marked, a, r)
  BY <1>2, <1>3, SetHeaderDoes
<1> HIDE DEF marked
<1>5. /\ Memory(marked) /\ a \in DOMAIN marked.hdr /\ a + marked.hdr[a].size = e
      /\ marked.hdr[a] = r
  BY <1>2, <1>4 DEF HeaderSet, e
<1>6. FooterWritten(marked, noted, a, e)
  BY <1>5, WriteFooterDoes
<1> HIDE DEF noted
<1>7. Memory(noted) /\ a \notin DOMAIN noted.bin /\ noted.hdr = marked.hdr /\ noted.bin = m.bin
  BY <1>2, <1>3, <1>4, <1>6 DEF HeaderSet, FooterWritten
<1>8. Linked(noted, linked, a)
  BY <1>7, LinkFreeDoes
<1> HIDE DEF linked
<1>9. Memory(linked)
  BY <1>8 DEF Linked
<1>10. HeaderSet(linked, n, e, [size |-> 0, free |-> FALSE, prevFree |-> TRUE])
  <2>1. HeaderSet(linked, SetHeader(linked, e, 0, FALSE, TRUE), e,
                  [size |-> 0, free |-> FALSE, prevFree |-> TRUE])
    BY <1>9, SetHeaderDoes
  <2> QED
    BY <2>1 DEF n
<1>11. /\ DOMAIN n.hdr = (DOMAIN m.hdr) \cup {a, e} /\ Memory(n)
       /\ n.hdr[a] = r
       /\ n.hdr[e] = [size |-> 0, free |-> FALSE, prevFree |-> TRUE]
       /\ \A x \in DOMAIN m.hdr : n.hdr[x] = m.hdr[x]
  BY <1>2, <1>4, <1>5, <1>7, <1>8, <1>10 DEF HeaderSet, Linked
<1>12. /\ e \in DOMAIN n.foot /\ n.foot[e] = e - a
       /\ \A x \in DOMAIN m.foot : x <= a => x \in DOMAIN n.foot /\ n.foot[x] = m.foot[x]
  <2>1. n.foot = noted.foot /\ marked.foot = m.foot
    BY <1>4, <1>8, <1>10 DEF HeaderSet, Linked
  <2>2. \A x \in DOMAIN m.foot : x <= a => x # e
    BY <1>2, <1>3 DEF Memory
  <2> QED
    BY <1>2, <1>5, <1>6, <2>1, <2>2 DEF FooterWritten
<1>13. /\ DOMAIN n.bin = (DOMAIN m.bin) \cup {a}
       /\ n.bin[a] = BinIndexFor(e - a)
       /\ \A x \in DOMAIN m.bin : n.bin[x] = m.bin[x]
  <2>1. n.bin = linked.bin
    BY <1>10 DEF HeaderSet
  <2>2. noted.hdr[a].size = e - a
    BY <1>2, <1>5, <1>7
  <2> QED
    BY <2>1, <2>2, <1>7, <1>8 DEF Linked
<1>14. Extended(m, n, a, e)
  BY <1>2, <1>11, <1>12, <1>13 DEF Extended
<1> QED
  BY <1>1, <1>2, <1>14

LEMMA ExtendedWellFormed ==
  ASSUME NEW m, WellFormed(m), NEW n, NEW a \in Sixteens, NEW e \in Sixteens, e >= a + 48,
         Extended(m, n, a, e), \A x \in DOMAIN m.hdr : x < a
  PROVE  /\ WellFormed(n)
         /\ RunsOf(n) = RunsOf(m) \cup {a} /\ FreeOf(n) = FreeOf(m) \cup {a}
         /\ UsedOf(n) = UsedOf(m)
<1>0. Ruled(m)
  BY RulesHold
<1>1. /\ a \in Nat /\ e \in Nat /\ e > a /\ e - a \in Sixteens /\ e - a >= 48 /\ e - a # 0
      /\ a + (e - a) = e
      /\ \A x \in DOMAIN m.hdr : x # a /\ x # e /\ x \in Nat
  BY <1>0 DEF Ruled, Sixteens
<1>2. /\ DOMAIN n.hdr = (DOMAIN m.hdr) \cup {a, e} /\ Memory(n)
      /\ n.hdr[a].size = e - a /\ n.hdr[a].free = TRUE /\ n.hdr[a].prevFree = FALSE
      /\ n.hdr[e].size = 0
      /\ \A x \in DOMAIN m.hdr : n.hdr[x] = m.hdr[x]
  BY DEF Extended
<1>3. RunsOf(n) = RunsOf(m) \cup {a}
  BY <1>1, <1>2 DEF RunsOf
<1>4. FreeOf(n) = FreeOf(m) \cup {a}
  BY <1>1, <1>2, <1>3 DEF FreeOf, RunsOf
<1>5. UsedOf(n) = UsedOf(m)
  BY <1>1, <1>3, <1>4 DEF UsedOf, RunsOf
<1>6. \A h \in RunsOf(m) : /\ h \in DOMAIN m.hdr /\ n.hdr[h] = m.hdr[h]
                           /\ EndOf(n, h) = EndOf(m, h) /\ EndOf(m, h) \in DOMAIN m.hdr
                           /\ EndOf(m, h) < a
  BY <1>0, <1>2 DEF Ruled, EndOf
<1>7. EndOf(n, a) = e
  BY <1>1, <1>2 DEF EndOf
<1>8. Tiled(n)
  <2>1. DOMAIN n.hdr \subseteq Sixteens
    BY <1>0, <1>2 DEF Ruled, Tiled
  <2>2. \A h \in RunsOf(n) : /\ n.hdr[h].size \in Sixteens /\ n.hdr[h].size >= 48
                             /\ EndOf(n, h) \in DOMAIN n.hdr
    BY <1>0, <1>1, <1>2, <1>3, <1>6, <1>7 DEF Ruled, Tiled
  <2>3. ASSUME NEW g \in DOMAIN n.hdr, NEW h \in DOMAIN n.hdr, g < h
        PROVE  EndOf(n, g) <= h
    <3>1. CASE g \in DOMAIN m.hdr /\ h \in DOMAIN m.hdr
      BY <3>1, <2>3, <1>0, <1>2 DEF Ruled, EndOf
    <3>2. CASE g \in DOMAIN m.hdr /\ h \in {a, e}
      <4>1. CASE g \in RunsOf(m)
        BY <3>2, <4>1, <1>0, <1>1, <1>6 DEF Ruled
      <4>2. CASE g \notin RunsOf(m)
        <5>1. EndOf(n, g) = g
          BY <3>2, <4>2, <1>1, <1>2 DEF EndOf, RunsOf
        <5> QED
          BY <3>2, <5>1, <1>1, <2>3
      <4> QED
        BY <4>1, <4>2
    <3>3. CASE g = a
      BY <3>3, <2>3, <1>1, <1>2, <1>7
    <3>4. CASE g = e
      BY <3>4, <2>3, <1>1, <1>2
    <3> QED
      BY <3>1, <3>2, <3>3, <3>4, <1>2
  <2> QED
    BY <2>1, <2>2, <2>3 DEF Tiled
<1>9. Tagged(n)
  <2>1. ASSUME NEW h \in FreeOf(n)
        PROVE  /\ EndOf(n, h) \notin FreeOf(n)
               /\ EndOf(n, h) \in DOMAIN n.foot
               /\ n.foot[EndOf(n, h)] = n.hdr[h].size
    <3>1. CASE h = a
      <4>1. e \notin FreeOf(n)
        BY <1>1, <1>4 DEF FreeOf, RunsOf
      <4> QED
        BY <3>1, <4>1, <1>2, <1>7 DEF Extended
    <3>2. CASE h \in FreeOf(m)
      <4>1. /\ EndOf(m, h) \notin FreeOf(m) /\ EndOf(m, h) \in DOMAIN m.foot
            /\ m.foot[EndOf(m, h)] = m.hdr[h].size
        BY <3>2, <1>0 DEF Ruled, Tagged
      <4>2. h \in RunsOf(m)
        BY <3>2, <1>0 DEF Ruled
      <4>3. EndOf(m, h) < a /\ EndOf(n, h) = EndOf(m, h) /\ EndOf(m, h) \in Nat
            /\ n.hdr[h] = m.hdr[h]
        BY <4>2, <1>1, <1>6
      <4> DEFINE end == EndOf(m, h)
      <4>4. end # a /\ end <= a
        BY <4>3, <1>1
      <4> HIDE DEF end
      <4>5. end \in DOMAIN n.foot /\ n.foot[end] = m.foot[end]
        BY <4>1, <4>4 DEF end, Extended
      <4> QED
        BY <4>1, <4>3, <4>4, <4>5, <1>4 DEF end
    <3> QED
      BY <3>1, <3>2, <1>4
  <2>2. ASSUME NEW h \in RunsOf(n), EndOf(n, h) \in RunsOf(n)
        PROVE  n.hdr[EndOf(n, h)].prevFree = n.hdr[h].free
    <3>1. h # a
      BY <2>2, <1>1, <1>2, <1>7 DEF RunsOf
    <3>2. h \in RunsOf(m)
      BY <3>1, <1>3
    <3>3. EndOf(n, h) = EndOf(m, h) /\ EndOf(m, h) \in DOMAIN m.hdr /\ n.hdr[h] = m.hdr[h]
      BY <3>2, <1>6
    <3>4. n.hdr[EndOf(m, h)] = m.hdr[EndOf(m, h)] /\ EndOf(m, h) \in RunsOf(m)
      BY <2>2, <3>3, <1>2 DEF RunsOf
    <3> QED
      BY <3>2, <3>3, <3>4, <1>0 DEF Ruled, Tagged
  <2>3. ASSUME NEW g \in RunsOf(n), n.hdr[g].prevFree
        PROVE  \E h \in FreeOf(n) : EndOf(n, h) = g
    <3>1. g # a
      BY <2>3, <1>2
    <3>2. g \in RunsOf(m)
      BY <3>1, <1>3
    <3>3. m.hdr[g].prevFree
      BY <2>3, <3>2, <1>6
    <3>4. PICK h \in FreeOf(m) : EndOf(m, h) = g
      BY <3>2, <3>3, <1>0 DEF Ruled, Tagged
    <3>5. h \in RunsOf(m) /\ h \in FreeOf(n)
      BY <1>0, <1>4 DEF Ruled
    <3> QED
      BY <3>4, <3>5, <1>6
  <2> QED
    BY <2>1, <2>2, <2>3 DEF Tagged
<1>10. Binned(n)
  <2>1. DOMAIN n.bin = FreeOf(n)
    BY <1>0, <1>4 DEF Ruled, Binned, Extended
  <2>2. ASSUME NEW h \in FreeOf(n)
        PROVE  n.bin[h] = BinIndexFor(n.hdr[h].size)
    <3>1. CASE h = a
      BY <3>1, <1>2 DEF Extended
    <3>2. CASE h \in FreeOf(m)
      <4>1. n.bin[h] = m.bin[h] /\ m.bin[h] = BinIndexFor(m.hdr[h].size) /\ n.hdr[h] = m.hdr[h]
        BY <3>2, <1>0, <1>6 DEF Ruled, Binned, Extended
      <4> QED
        BY <4>1
    <3> QED
      BY <3>1, <3>2, <1>4
  <2> QED
    BY <2>1, <2>2 DEF Binned
<1> QED
  BY <1>2, <1>3, <1>4, <1>5, <1>8, <1>9, <1>10 DEF WellFormed

(* A chunk mapped behind all others.                                       *)
NewChunk(t, bytes) == [begin |-> t, bytes |-> bytes]

ChunkAdded(m, n, cs, t, bytes) ==
  /\ WellFormed(n) /\ ChunksApart(cs \cup {NewChunk(t, bytes)}, t + bytes)
  /\ Chunked(n, cs \cup {NewChunk(t, bytes)})
  /\ UsedOf(n) = UsedOf(m)
  /\ \A h \in UsedOf(m) : n.hdr[h] = m.hdr[h]
  /\ t \in FreeOf(n) /\ n.hdr[t].size = bytes - 16
  /\ NewChunk(t, bytes) \notin cs

LEMMA AddChunkDoes ==
  ASSUME NEW m, WellFormed(m), NEW cs, NEW t \in Sixteens, ChunksApart(cs, t), Chunked(m, cs),
         NEW bytes \in Sixteens, bytes >= 64
  PROVE  ChunkAdded(m, InitializeFreeRun(m, t, bytes), cs, t, bytes)
<1> DEFINE n == InitializeFreeRun(m, t, bytes)
           new == [begin |-> t, bytes |-> bytes]
           e == t + bytes - 16
<1>0. Ruled(m)
  BY RulesHold
<1>1. /\ t \in Nat /\ bytes \in Nat /\ e \in Nat /\ e \in Sixteens /\ e >= t + 48
      /\ e - t = bytes - 16 /\ e - t # 0 /\ e # t
  BY DEF Sixteens
<1>2. \A c \in cs : /\ c.begin \in Nat /\ c.bytes \in Nat /\ c.bytes >= 64
                    /\ Epilogue(c) = c.begin + c.bytes - 16 /\ Epilogue(c) < t
                    /\ c.begin < t
  BY <1>1 DEF ChunksApart, Sixteens, Epilogue
<1>3. \A x \in DOMAIN m.hdr : x < t
  BY <1>0, <1>1, <1>2 DEF Chunked, Ruled
<1>4. Extended(m, n, t, e)
  BY <1>1, <1>3, InitializeDoes
<1> HIDE DEF n, e
<1>5. /\ WellFormed(n)
      /\ RunsOf(n) = RunsOf(m) \cup {t} /\ FreeOf(n) = FreeOf(m) \cup {t}
      /\ UsedOf(n) = UsedOf(m)
  BY <1>1, <1>3, <1>4, ExtendedWellFormed
<1>6. Epilogue(new) = e
  BY DEF Epilogue, e
<1>7. new.begin = t /\ new.bytes = bytes
  OBVIOUS
<1> HIDE DEF new
<1>8. ChunksApart(cs \cup {new}, t + bytes)
  <2>1. t + bytes \in Nat
    BY <1>1
  <2>2. ASSUME NEW c \in cs \cup {new}
        PROVE  /\ c.begin \in Sixteens /\ c.bytes \in Sixteens
               /\ c.bytes >= 64 /\ c.begin + c.bytes <= t + bytes
    <3>1. CASE c \in cs
      BY <3>1, <1>1, <1>2 DEF ChunksApart
    <3>2. CASE c = new
      BY <3>2, <1>1, <1>7
    <3> QED
      BY <3>1, <3>2
  <2>3. ASSUME NEW c \in cs \cup {new}, NEW d \in cs \cup {new}
        PROVE  \/ c = d
               \/ c.begin + c.bytes <= d.begin
               \/ d.begin + d.bytes <= c.begin
    <3>1. \A x \in cs : x.begin + x.bytes <= new.begin
      BY <1>7 DEF ChunksApart
    <3>2. CASE c \in cs /\ d \in cs
      BY <3>2 DEF ChunksApart
    <3> QED
      BY <3>1, <3>2
  <2> QED
    BY <2>1, <2>2, <2>3 DEF ChunksApart
<1>9. Chunked(n, cs \cup {new})
  <2>1. /\ t \in RunsOf(n) /\ n.hdr[t].prevFree = FALSE /\ e \in DOMAIN n.hdr
        /\ n.hdr[e].size = 0 /\ n.hdr[t].size = e - t
        /\ DOMAIN n.hdr = (DOMAIN m.hdr) \cup {t, e}
        /\ \A x \in DOMAIN m.hdr : n.hdr[x] = m.hdr[x]
    BY <1>4, <1>5 DEF Extended
  <2>2. ASSUME NEW c \in cs \cup {new}
        PROVE  /\ c.begin \in RunsOf(n) /\ ~n.hdr[c.begin].prevFree
               /\ Epilogue(c) \in DOMAIN n.hdr /\ n.hdr[Epilogue(c)].size = 0
    <3>1. CASE c \in cs
      <4>1. /\ c.begin \in RunsOf(m) /\ ~m.hdr[c.begin].prevFree
            /\ Epilogue(c) \in DOMAIN m.hdr /\ m.hdr[Epilogue(c)].size = 0
        BY <3>1 DEF Chunked
      <4> QED
        BY <4>1, <2>1 DEF RunsOf
    <3>2. CASE c = new
      BY <3>2, <2>1, <1>6, <1>7
    <3> QED
      BY <3>1, <3>2
  <2>3. ASSUME NEW x \in DOMAIN n.hdr
        PROVE  \E c \in cs \cup {new} : c.begin <= x /\ x <= Epilogue(c)
    <3>1. CASE x \in DOMAIN m.hdr
      BY <3>1 DEF Chunked
    <3>2. CASE x \in {t, e}
      <4>1. new.begin <= x /\ x <= Epilogue(new)
        BY <3>2, <1>1, <1>6, <1>7
      <4> QED
        BY <4>1
    <3> QED
      BY <3>1, <3>2, <2>1
  <2>4. ASSUME NEW x \in DOMAIN n.hdr, n.hdr[x].size = 0
        PROVE  \E c \in cs \cup {new} : x = Epilogue(c)
    <3>1. CASE x \in DOMAIN m.hdr
      BY <3>1, <2>1, <2>4 DEF Chunked
    <3>2. CASE x = e
      BY <3>2, <1>6
    <3>3. x # t
      BY <2>1, <2>4, <1>1
    <3> QED
      BY <3>1, <3>2, <3>3, <2>1
  <2> QED
    BY <2>2, <2>3, <2>4 DEF Chunked
<1>10. \A h \in UsedOf(m) : n.hdr[h] = m.hdr[h]
  BY <1>0, <1>4 DEF Ruled, Extended
<1>11. t \in FreeOf(n) /\ n.hdr[t].size = bytes - 16
  BY <1>1, <1>4, <1>5 DEF Extended
<1>12. new \notin cs
  BY <1>1, <1>2, <1>7
<1> QED
  BY <1>5, <1>8, <1>9, <1>10, <1>11, <1>12 DEF ChunkAdded, NewChunk, n, new

(* What holds of the memory, its chunks and their end.                     *)
Sound(m, cs, t) ==
  /\ WellFormed(m)
  /\ ChunksApart(cs, t) /\ t \in Sixteens
  /\ Chunked(m, cs)

(* Every header lies in a chunk, before its last byte.                     *)
LEMMA HeadersBelow ==
  ASSUME NEW m, NEW cs, NEW t, Sound(m, cs, t)
  PROVE  t \in Nat /\ \A x \in DOMAIN m.hdr : x < t
<1>1. Ruled(m)
  BY RulesHold DEF Sound
<1>2. t \in Nat
  BY DEF Sound, Sixteens
<1>3. \A c \in cs : c.begin \in Nat /\ c.bytes \in Nat /\ c.begin + c.bytes <= t
  BY DEF Sound, ChunksApart, Sixteens
<1>4. ASSUME NEW x \in DOMAIN m.hdr
      PROVE  x < t
  <2>1. PICK c \in cs : x <= Epilogue(c)
    BY DEF Sound, Chunked
  <2>2. x \in Nat
    BY <1>1 DEF Ruled
  <2> QED
    BY <2>1, <2>2, <1>2, <1>3 DEF Epilogue
<1> QED
  BY <1>2, <1>4

-----------------------------------------------------------------------------
(* The bytes that callers may write to.                                    *)

Room(m, h) == (h + 16) .. (EndOf(m, h) - 1)
RoomOf(m) == UNION {Room(m, h) : h \in UsedOf(m)}
RoomWithout(m, h) == UNION {Room(m, g) : g \in UsedOf(m) \ {h}}

(* One run's room is no other's.                                           *)
LEMMA RoomParts ==
  ASSUME NEW m, NEW cs, NEW t, Sound(m, cs, t), NEW h \in UsedOf(m)
  PROVE  /\ Cardinality(RoomWithout(m, h)) \in Nat
         /\ Cardinality(RoomOf(m)) = Cardinality(RoomWithout(m, h)) + m.hdr[h].size - 16
<1>1. Ruled(m)
  BY RulesHold DEF Sound
<1>2. t \in Nat /\ \A x \in DOMAIN m.hdr : x < t
  BY HeadersBelow
<1>3. \A g \in UsedOf(m) : /\ g \in Nat /\ EndOf(m, g) \in Nat /\ EndOf(m, g) < t
                           /\ EndOf(m, g) = g + m.hdr[g].size /\ m.hdr[g].size >= 48
                           /\ g \in DOMAIN m.hdr /\ m.hdr[g].size \in Nat
  BY <1>1, <1>2 DEF Ruled
<1>4. \A g \in UsedOf(m) : g # h => EndOf(m, g) <= h \/ EndOf(m, h) <= g
  BY <1>1, <1>3 DEF Ruled
<1> DEFINE A == RoomWithout(m, h)
           B == Room(m, h)
<1>5. RoomOf(m) = A \cup B
  BY DEF RoomOf, RoomWithout
<1>6. A \cap B = {}
  <2>1. ASSUME NEW g \in UsedOf(m) \ {h}
        PROVE  Room(m, g) \cap Room(m, h) = {}
    BY <1>3, <1>4, <2>1 DEF Room
  <2> QED
    BY <2>1 DEF RoomWithout
<1>7. IsFiniteSet(A)
  <2>1. A \in SUBSET (0 .. t)
    <3>1. \A g \in UsedOf(m) : Room(m, g) \subseteq 0 .. t
      BY <1>2, <1>3 DEF Room
    <3> QED
      BY <3>1 DEF RoomWithout
  <2>2. IsFiniteSet(0 .. t)
    BY <1>2, FS_Interval
  <2> HIDE DEF A
  <2> QED
    BY <2>1, <2>2, FS_Subset
<1>8. IsFiniteSet(B) /\ Cardinality(B) = m.hdr[h].size - 16
  <2> DEFINE lo == h + 16
             hi == EndOf(m, h) - 1
  <2>1. lo \in Int /\ hi \in Int /\ hi - lo + 1 = m.hdr[h].size - 16 /\ ~(lo > hi)
    BY <1>3
  <2>2. B = lo .. hi
    BY DEF Room
  <2> HIDE DEF lo, hi, B
  <2>3. IsFiniteSet(lo .. hi) /\ Cardinality(lo .. hi) = IF lo > hi THEN 0 ELSE hi - lo + 1
    BY <2>1, FS_Interval
  <2> QED
    BY <2>1, <2>2, <2>3
<1> HIDE DEF A, B
<1>9. Cardinality(A \cup B) = Cardinality(A) + Cardinality(B) - Cardinality(A \cap B)
  BY <1>7, <1>8, FS_Union
<1>10. Cardinality(A \cap B) = 0 /\ Cardinality(A) \in Nat
  BY <1>6, <1>7, FS_EmptySet, FS_CardinalityType
<1> QED
  BY <1>3, <1>5, <1>8, <1>9, <1>10 DEF A

LEMMA RoomBounded ==
  ASSUME NEW m, NEW cs, NEW t, Sound(m, cs, t)
  PROVE  Cardinality(RoomOf(m)) \in 0 .. t
<1>1. Ruled(m)
  BY RulesHold DEF Sound
<1>2. t \in Nat /\ \A x \in DOMAIN m.hdr : x < t
  BY HeadersBelow
<1>3. \A g \in UsedOf(m) : g \in Nat /\ EndOf(m, g) \in Nat /\ EndOf(m, g) < t
  BY <1>1, <1>2 DEF Ruled
<1>4. RoomOf(m) \in SUBSET (1 .. t)
  <2>1. \A g \in UsedOf(m) : Room(m, g) \subseteq 1 .. t
    BY <1>2, <1>3 DEF Room
  <2> QED
    BY <2>1 DEF RoomOf
<1>5. IsFiniteSet(1 .. t) /\ Cardinality(1 .. t) = IF 1 > t THEN 0 ELSE t - 1 + 1
  BY <1>2, FS_Interval
<1>6. IsFiniteSet(RoomOf(m)) /\ Cardinality(RoomOf(m)) <= Cardinality(1 .. t)
  BY <1>4, <1>5, FS_Subset
<1>7. Cardinality(RoomOf(m)) \in Nat
  BY <1>6, FS_CardinalityType
<1> QED
  BY <1>2, <1>5, <1>6, <1>7

(* The runs in use other than h are the same, with the same sizes.         *)
SameBut(m, n, h) ==
  /\ UsedOf(n) \ {h} = UsedOf(m) \ {h}
  /\ \A g \in UsedOf(m) \ {h} : n.hdr[g].size = m.hdr[g].size

LEMMA SameRoom ==
  ASSUME NEW m, NEW n, NEW h, SameBut(m, n, h)
  PROVE  RoomWithout(n, h) = RoomWithout(m, h)
<1>1. \A g \in UsedOf(m) \ {h} : Room(n, g) = Room(m, g)
  BY DEF SameBut, Room, EndOf
<1> QED
  BY <1>1 DEF SameBut, RoomWithout

LEMMA NotInUse ==
  ASSUME NEW m, NEW h, h \notin UsedOf(m)
  PROVE  RoomWithout(m, h) = RoomOf(m)
<1>1. UsedOf(m) \ {h} = UsedOf(m)
  OBVIOUS
<1> QED
  BY <1>1 DEF RoomWithout, RoomOf

-----------------------------------------------------------------------------
(* What each function of the allocator does to sound memory.               *)

Granted(m, n, h, needed) ==
  /\ h \notin UsedOf(m) /\ UsedOf(n) = UsedOf(m) \cup {h}
  /\ SameBut(m, n, h)
  /\ n.hdr[h].size >= needed /\ n.hdr[h].size \in Nat
  /\ Cardinality(RoomOf(n)) = Cardinality(RoomOf(m)) + n.hdr[h].size - 16

LEMMA AllocateSound ==
  ASSUME NEW m, NEW cs, NEW t, Sound(m, cs, t), NEW h \in FreeOf(m),
         NEW needed \in Sixteens, needed >= 48, needed <= m.hdr[h].size
  PROVE  LET n == AllocateFromFreeRun(m, h, needed)
         IN  Sound(n, cs, t) /\ Granted(m, n, h, needed)
<1> DEFINE n == AllocateFromFreeRun(m, h, needed)
           e == EndOf(m, h)
           c == CutAt(h, needed, m.hdr[h].size)
<1>0. WellFormed(m) /\ Ruled(m) /\ Memory(m) /\ Tiled(m)
  BY RulesHold DEF Sound, WellFormed
<1>1. Carvable(m, h, c, e) /\ Carved(m, n, h, c, e)
  BY <1>0, AllocateDoes
<1>2. /\ h \in Nat /\ needed \in Nat /\ c \in Nat /\ c - h >= needed /\ c # h
      /\ h \in DOMAIN m.hdr /\ h \in RunsOf(m) /\ e = h + m.hdr[h].size /\ m.hdr[h].size \in Nat
  BY <1>0 DEF Ruled, CutAt, Sixteens
<1> HIDE DEF n, e, c
<1>3. Sound(n, cs, t)
  BY <1>0, <1>1, CarvedWellFormed, CarvedChunked DEF Sound
<1>4. /\ UsedOf(n) = {x \in UsedOf(m) : x < h \/ x >= e} \cup (IF c = h THEN {} ELSE {h})
      /\ \A x \in UsedOf(m) : x < h \/ x >= e => n.hdr[x].size = m.hdr[x].size
      /\ c # h => n.hdr[h].size = c - h
  BY <1>0, <1>1, CarvedUsed
<1>5. h \notin UsedOf(m)
  BY <1>0 DEF Ruled
<1>6. \A x \in UsedOf(m) : x < h \/ x >= e
  BY <1>0, <1>2, <1>5 DEF Ruled
<1>7. UsedOf(n) = UsedOf(m) \cup {h} /\ SameBut(m, n, h)
  BY <1>2, <1>4, <1>5, <1>6 DEF SameBut
<1>8. n.hdr[h].size = c - h
  BY <1>2, <1>4
<1>9. Cardinality(RoomOf(n)) = Cardinality(RoomOf(m)) + n.hdr[h].size - 16
  <2>1. Cardinality(RoomOf(n)) = Cardinality(RoomWithout(n, h)) + n.hdr[h].size - 16
    BY <1>3, <1>7, RoomParts
  <2>2. RoomWithout(n, h) = RoomWithout(m, h)
    BY <1>7, SameRoom
  <2>3. RoomWithout(m, h) = RoomOf(m)
    BY <1>5, NotInUse
  <2> QED
    BY <2>1, <2>2, <2>3
<1>10. n.hdr[h].size >= needed /\ n.hdr[h].size \in Nat
  BY <1>2, <1>8
<1>11. Granted(m, n, h, needed)
  BY <1>5, <1>7, <1>9, <1>10 DEF Granted
<1> QED
  BY <1>3, <1>11 DEF n

Released(m, n, h) ==
  /\ UsedOf(n) = UsedOf(m) \ {h}
  /\ SameBut(m, n, h)
  /\ Cardinality(RoomOf(n)) = Cardinality(RoomOf(m)) - (m.hdr[h].size - 16)

LEMMA FreeRunSound ==
  ASSUME NEW m, NEW cs, NEW t, Sound(m, cs, t), NEW h \in UsedOf(m)
  PROVE  Sound(FreeRun(m, h), cs, t) /\ Released(m, FreeRun(m, h), h)
<1> DEFINE n == FreeRun(m, h)
<1>0. WellFormed(m) /\ Ruled(m) /\ Memory(m) /\ Tiled(m)
  BY RulesHold DEF Sound, WellFormed
<1>1. PICK a, e : /\ Carvable(m, a, a, e) /\ Carved(m, n, a, a, e)
                  /\ a <= h /\ h < e
                  /\ \A x \in UsedOf(m) : a <= x /\ x < e => x = h
  BY <1>0, FreeRunDoes
<1> HIDE DEF n
<1>2. Sound(n, cs, t)
  BY <1>0, <1>1, CarvedWellFormed, CarvedChunked DEF Sound
<1>3. /\ UsedOf(n) = {x \in UsedOf(m) : x < a \/ x >= e} \cup (IF a = a THEN {} ELSE {a})
      /\ \A x \in UsedOf(m) : x < a \/ x >= e => n.hdr[x].size = m.hdr[x].size
  BY <1>0, <1>1, CarvedUsed
<1>4. /\ a \in Nat /\ e \in Nat
      /\ \A x \in UsedOf(m) : x \in Nat
  BY <1>0, <1>1 DEF Ruled, Carvable
<1>5. \A x \in UsedOf(m) : (x < a \/ x >= e) <=> x # h
  BY <1>1, <1>4
<1>6. UsedOf(n) = UsedOf(m) \ {h} /\ SameBut(m, n, h)
  BY <1>3, <1>5 DEF SameBut
<1>7. Cardinality(RoomOf(n)) = Cardinality(RoomOf(m)) - (m.hdr[h].size - 16)
  <2>1. /\ Cardinality(RoomWithout(m, h)) \in Nat
        /\ Cardinality(RoomOf(m)) = Cardinality(RoomWithout(m, h)) + m.hdr[h].size - 16
    BY RoomParts
  <2>2. RoomWithout(n, h) = RoomWithout(m, h)
    BY <1>6, SameRoom
  <2>3. RoomWithout(n, h) = RoomOf(n)
    BY <1>6, NotInUse
  <2>4. m.hdr[h].size \in Nat
    BY <1>0 DEF Ruled
  <2> QED
    BY <2>1, <2>2, <2>3, <2>4
<1>8. Released(m, n, h)
  BY <1>6, <1>7 DEF Released
<1> QED
  BY <1>2, <1>8 DEF n

Widened(m, n, h, needed) ==
  /\ UsedOf(n) = UsedOf(m)
  /\ SameBut(m, n, h)
  /\ n.hdr[h].size >= needed /\ n.hdr[h].size \in Nat
  /\ Cardinality(RoomOf(n)) = Cardinality(RoomOf(m)) + n.hdr[h].size - m.hdr[h].size

LEMMA ExpandSound ==
  ASSUME NEW m, NEW cs, NEW t, Sound(m, cs, t), NEW h \in UsedOf(m), EndOf(m, h) \in FreeOf(m),
         NEW needed \in Sixteens, needed >= 48,
         needed <= m.hdr[h].size + m.hdr[EndOf(m, h)].size
  PROVE  LET next == EndOf(m, h)
             n == Occupy(Forget(UnlinkFree(m, next), next), h, needed,
                         m.hdr[h].size + m.hdr[next].size)
         IN  Sound(n, cs, t) /\ Widened(m, n, h, needed)
<1> DEFINE next == EndOf(m, h)
           total == m.hdr[h].size + m.hdr[next].size
           n == Occupy(Forget(UnlinkFree(m, next), next), h, needed, total)
           e == EndOf(m, next)
           c == CutAt(h, needed, total)
<1>0. WellFormed(m) /\ Ruled(m) /\ Memory(m) /\ Tiled(m) /\ h \in RunsOf(m)
  <2>1. WellFormed(m)
    BY DEF Sound
  <2>2. Ruled(m)
    BY <2>1, RulesHold
  <2> QED
    BY <2>1, <2>2 DEF WellFormed, Ruled
<1>1. /\ Carvable(m, h, c, e) /\ Carved(m, n, h, c, e)
      /\ \A x \in UsedOf(m) : h <= x /\ x < e => x = h
      /\ total = e - h
  BY <1>0, ExpandDoes
<1>2. /\ h \in Nat /\ needed \in Nat /\ c \in Nat /\ c - h >= needed /\ c # h
      /\ m.hdr[h].size \in Nat /\ e \in Nat /\ e > h
  <2>1. next \in DOMAIN m.hdr /\ h \in DOMAIN m.hdr /\ next \in RunsOf(m)
    BY <1>0 DEF Ruled
  <2>2. h \in Nat /\ needed \in Nat /\ total \in Nat /\ m.hdr[h].size \in Nat /\ total > 0
    BY <1>0, <2>1 DEF Ruled, Sixteens
  <2> HIDE DEF total
  <2>3. c \in Nat /\ c - h >= needed /\ c # h
    BY <2>2 DEF CutAt, total
  <2>4. e \in Nat /\ e > h
    BY <1>0, <1>1, <2>1 DEF Ruled, Carvable
  <2> QED
    BY <2>2, <2>3, <2>4
<1> HIDE DEF n, e, c, total, next
<1>3. Sound(n, cs, t)
  BY <1>0, <1>1, CarvedWellFormed, CarvedChunked DEF Sound
<1>4. /\ UsedOf(n) = {x \in UsedOf(m) : x < h \/ x >= e} \cup (IF c = h THEN {} ELSE {h})
      /\ \A x \in UsedOf(m) : x < h \/ x >= e => n.hdr[x].size = m.hdr[x].size
      /\ c # h => n.hdr[h].size = c - h
  BY <1>0, <1>1, CarvedUsed
<1>5. \A x \in UsedOf(m) : (x < h \/ x >= e) <=> x # h
  BY <1>0, <1>1, <1>2 DEF Ruled
<1>6. UsedOf(n) = UsedOf(m) /\ SameBut(m, n, h)
  BY <1>2, <1>4, <1>5 DEF SameBut
<1>7. n.hdr[h].size = c - h /\ n.hdr[h].size >= needed /\ n.hdr[h].size \in Nat
  BY <1>2, <1>4
<1>8. Cardinality(RoomOf(n)) = Cardinality(RoomOf(m)) + n.hdr[h].size - m.hdr[h].size
  <2>1. /\ Cardinality(RoomWithout(m, h)) \in Nat
        /\ Cardinality(RoomOf(m)) = Cardinality(RoomWithout(m, h)) + m.hdr[h].size - 16
    BY RoomParts
  <2>2. Cardinality(RoomOf(n)) = Cardinality(RoomWithout(n, h)) + n.hdr[h].size - 16
    BY <1>3, <1>6, RoomParts
  <2>3. RoomWithout(n, h) = RoomWithout(m, h)
    BY <1>6, SameRoom
  <2> QED
    BY <1>2, <1>7, <2>1, <2>2, <2>3
<1>9. Widened(m, n, h, needed)
  BY <1>6, <1>7, <1>8 DEF Widened
<1> QED
  BY <1>3, <1>9 DEF n, total, next

-----------------------------------------------------------------------------
(* The invariant.                                                          *)

MemoryInv == Sound(mem, chunks, top) /\ top <= MaxBytes

RunsInv ==
  /\ UsedOf(mem) = (DOMAIN held) \cup remote \cup walk
  /\ (DOMAIN held) \cap (remote \cup walk) = {} /\ remote \cap walk = {}
  /\ \A h \in DOMAIN held : held[h] \in Nat /\ mem.hdr[h].size >= held[h] + 16
  /\ liveBytes = Cardinality(RoomOf(mem))

(* What the owner knows at each place inside allocate_bytes.               *)
CallInv ==
  /\ canGrow \in BOOLEAN
  /\ nextGrowth \in Nat /\ deferred \in Nat
  /\ pc \in {"idle", "drain", "replay", "refit", "miss", "last"}
  /\ pc # "idle" => asked \in Requests /\ Normalizes(AtLeastOne(asked))
  /\ pc # "replay" => walk = {}
  /\ pc = "drain" => owed \subseteq remote
  /\ pc = "replay" => owed \cap UsedOf(mem) \subseteq walk
  /\ pc \in {"refit", "miss"} => owed \cap UsedOf(mem) = {}
  /\ pc = "last" => \E h \in FreeOf(mem) : mem.hdr[h].size >= Needed(asked)

IInv == MemoryInv /\ RunsInv /\ CallInv

LEMMA InvTypes ==
  ASSUME IInv
  PROVE  /\ WellFormed(mem) /\ Ruled(mem) /\ Sound(mem, chunks, top) /\ top <= MaxBytes
         /\ top \in Nat /\ MaxBytes \in Nat
         /\ liveBytes \in 0 .. top
<1>1. Sound(mem, chunks, top) /\ WellFormed(mem) /\ top <= MaxBytes
  BY DEF IInv, MemoryInv, Sound
<1>2. Ruled(mem) /\ top \in Nat
  BY <1>1, RulesHold, HeadersBelow
<1>3. liveBytes \in 0 .. top
  BY <1>1, RoomBounded DEF IInv, RunsInv
<1> QED
  BY <1>1, <1>2, <1>3, WordFacts

(* _owned_chunk_bytes_for: whole pages, with room for a run and an         *)
(* epilogue.                                                               *)
LEMMA ChunkBytes ==
  ASSUME NEW bytes \in Nat
  PROVE  /\ ChunkBytesFor(bytes) \in Sixteens /\ ChunkBytesFor(bytes) >= 64
         /\ ChunkBytesFor(bytes) >= bytes
<1> DEFINE v == Max({bytes, MinChunkBytes})
<1>1. v \in Nat /\ v >= bytes /\ v >= 64
  <2>1. MinChunkBytes = 64
    BY DEF MinChunkBytes, MinFreeRunSize, EpilogueSize
  <2> QED
    BY <2>1, MaxOfTwo
<1>2. ChunkBytesFor(bytes) = AlignUp(v, PageSize)
  BY DEF ChunkBytesFor
<1> HIDE DEF v
<1>3. /\ AlignUp(v, PageSize) \in Nat /\ v <= AlignUp(v, PageSize)
      /\ AlignUp(v, PageSize) % 16 = 0
  BY <1>1, AlignUpNext, WordFacts
<1> QED
  BY <1>1, <1>2, <1>3 DEF Sixteens

LEMMA NoMemSound == Sound(NoMem, {}, 0) /\ UsedOf(NoMem) = {}
<1>1. DOMAIN NoMem.hdr = {} /\ DOMAIN NoMem.foot = {} /\ DOMAIN NoMem.bin = {} /\ NoMem.mask = {}
  BY DEF NoMem
<1>2. NoMem = [hdr |-> NoMem.hdr, foot |-> NoMem.foot, bin |-> NoMem.bin, mask |-> NoMem.mask]
  BY DEF NoMem
<1>3. RunsOf(NoMem) = {} /\ FreeOf(NoMem) = {} /\ UsedOf(NoMem) = {}
  BY <1>1 DEF RunsOf, FreeOf, UsedOf
<1>4. Memory(NoMem)
  BY <1>1, <1>2 DEF Memory
<1>5. Tiled(NoMem) /\ Tagged(NoMem) /\ Binned(NoMem)
  BY <1>1, <1>3 DEF Tiled, Tagged, Binned
<1>6. ChunksApart({}, 0) /\ 0 \in Sixteens /\ Chunked(NoMem, {})
  BY <1>1 DEF ChunksApart, Sixteens, Chunked
<1> QED
  BY <1>3, <1>4, <1>5, <1>6 DEF Sound, WellFormed

LEMMA NoRoom ==
  ASSUME NEW m, UsedOf(m) = {}
  PROVE  Cardinality(RoomOf(m)) = 0
<1>1. RoomOf(m) = {}
  BY DEF RoomOf
<1> QED
  BY <1>1, FS_EmptySet

LEMMA StartWithSound ==
  ASSUME NEW bytes \in Sixteens, bytes >= 64, bytes <= MaxBytes, StartWith(bytes)
  PROVE  MemoryInv /\ UsedOf(mem) = {}
<1>1. /\ WellFormed(NoMem) /\ ChunksApart({}, 0) /\ 0 \in Sixteens /\ Chunked(NoMem, {})
      /\ UsedOf(NoMem) = {}
  BY NoMemSound DEF Sound
<1>2. ChunkAdded(NoMem, InitializeFreeRun(NoMem, 0, bytes), {}, 0, bytes)
  BY <1>1, AddChunkDoes
<1>3. /\ mem = InitializeFreeRun(NoMem, 0, bytes)
      /\ chunks = {} \cup {NewChunk(0, bytes)} /\ top = 0 + bytes
      /\ top \in Sixteens /\ top <= MaxBytes
  BY DEF StartWith, Sixteens, NewChunk
<1>4. Sound(mem, chunks, top) /\ UsedOf(mem) = {}
  BY <1>1, <1>2, <1>3 DEF ChunkAdded, Sound
<1> QED
  BY <1>3, <1>4 DEF MemoryInv

LEMMA InitInv == Init => IInv
<1> SUFFICES ASSUME Init PROVE IInv
  OBVIOUS
<1>1. ASSUME StartEager PROVE MemoryInv /\ UsedOf(mem) = {} /\ CallInv
  <2>1. PICK b \in InitialBytes : /\ ChunkBytesFor(b) <= MaxBytes
                                  /\ StartWith(ChunkBytesFor(b))
                                  /\ nextGrowth = ChunkBytesFor(b)
                                  /\ canGrow \in BOOLEAN
    BY <1>1 DEF StartEager
  <2>2. ChunkBytesFor(b) \in Sixteens /\ ChunkBytesFor(b) >= 64
    BY ChunkAssumption, ChunkBytes
  <2>3. deferred = 0 /\ nextGrowth \in Nat
    BY <2>1, <2>2 DEF StartWith, Sixteens
  <2> QED
    BY <2>1, <2>2, <2>3, StartWithSound DEF CallInv, Init
<1>2. ASSUME StartLazy PROVE MemoryInv /\ UsedOf(mem) = {} /\ CallInv
  <2>1. PICK b \in InitialBytes : /\ nextGrowth = Max({b, 65536})
                                  /\ deferred = Max({b, 1})
    BY <1>2 DEF StartLazy
  <2>2. b \in Nat
    BY ChunkAssumption
  <2>3. nextGrowth \in Nat /\ deferred \in Nat
    BY <2>1, <2>2, MaxOfTwo
  <2>4. mem = NoMem /\ chunks = {} /\ top = 0 /\ canGrow \in BOOLEAN
    BY <1>2 DEF StartLazy
  <2>5. 0 <= MaxBytes
    BY WordFacts
  <2> QED
    BY <2>3, <2>4, <2>5, NoMemSound DEF MemoryInv, CallInv, Init
<1>3. ASSUME StartExternal PROVE MemoryInv /\ UsedOf(mem) = {} /\ CallInv
  <2>1. PICK b \in ExternalBytes : /\ StartWith(b - (b % 16))
                                   /\ nextGrowth = 0 /\ canGrow \in BOOLEAN
    BY <1>3 DEF StartExternal, RunAlignment
  <2>2. b \in Nat /\ b >= 64 /\ b <= MaxBytes
    BY ChunkAssumption, WordFacts DEF MinChunkBytes, MinFreeRunSize, EpilogueSize
  <2>3. b - (b % 16) \in Sixteens /\ b - (b % 16) >= 64 /\ b - (b % 16) <= MaxBytes
    BY <2>2, WordFacts DEF Sixteens
  <2>4. deferred = 0
    BY <2>1 DEF StartWith
  <2> QED
    BY <2>1, <2>3, <2>4, StartWithSound DEF CallInv, Init
<1>4. MemoryInv /\ UsedOf(mem) = {} /\ CallInv
  BY <1>1, <1>2, <1>3 DEF Init
<1>5. RunsInv
  <2>1. liveBytes = 0 /\ DOMAIN held = {} /\ remote = {} /\ walk = {}
    BY DEF Init
  <2> QED
    BY <1>4, <2>1, NoRoom DEF RunsInv
<1> QED
  BY <1>4, <1>5 DEF IInv

(* A call is granted a run that _find_fit returned.                        *)
LEMMA GrantInv ==
  ASSUME IInv, NEW b \in Requests, Normalizes(AtLeastOne(b)), walk = {},
         NEW h \in Fits(Needed(b)), Grant(h, b)
  PROVE  IInv' /\ h \in FreeOf(mem) /\ Granted(mem, mem', h, Needed(b))
<1>1. /\ Needed(b) \in Sixteens /\ Needed(b) >= 48 /\ Needed(b) >= b + 16 /\ b \in Nat
  <2>1. /\ Needed(b) >= b + HeaderSize
        /\ Needed(b) \in Sixteens /\ Needed(b) >= MinFreeRunSize
    BY NeededBytes
  <2>2. b \in Nat
    BY RequestAssumption
  <2> QED
    BY <2>1, <2>2 DEF MinFreeRunSize, HeaderSize
<1>2. /\ WellFormed(mem) /\ Sound(mem, chunks, top) /\ top <= MaxBytes
      /\ liveBytes \in 0 .. top /\ top \in Nat
  BY InvTypes
<1>3. h \in FreeOf(mem) /\ mem.hdr[h].size >= Needed(b)
  BY <1>1, <1>2, FitsExact
<1>4. mem' = AllocateFromFreeRun(mem, h, Needed(b))
  BY DEF Grant
<1>5. Sound(mem', chunks, top) /\ Granted(mem, mem', h, Needed(b))
  <2>1. mem.hdr[h].size \in Nat
    BY <1>2, <1>3, RulesHold DEF Ruled
  <2>2. Needed(b) <= mem.hdr[h].size
    BY <1>1, <1>3, <2>1 DEF Sixteens
  <2> QED
    BY <1>1, <1>2, <1>3, <1>4, <2>2, AllocateSound
<1>6. MemoryInv'
  BY <1>2, <1>5 DEF Grant, growth, MemoryInv
<1>7. RunsInv'
  <2>1. /\ held' = [x \in (DOMAIN held) \cup {h} |-> IF x = h THEN b ELSE held[x]]
        /\ liveBytes' = liveBytes + (mem'.hdr[h].size - 16)
        /\ remote' = remote /\ walk' = {}
    BY DEF Grant, Payload, HeaderSize, hdr
  <2>2. /\ UsedOf(mem) = (DOMAIN held) \cup remote
        /\ (DOMAIN held) \cap remote = {}
        /\ \A x \in DOMAIN held : held[x] \in Nat /\ mem.hdr[x].size >= held[x] + 16
        /\ liveBytes = Cardinality(RoomOf(mem))
    BY DEF IInv, RunsInv
  <2>3. /\ h \notin UsedOf(mem) /\ UsedOf(mem') = UsedOf(mem) \cup {h}
        /\ \A x \in UsedOf(mem) \ {h} : mem'.hdr[x].size = mem.hdr[x].size
        /\ mem'.hdr[h].size \in Nat /\ mem'.hdr[h].size >= Needed(b)
        /\ Cardinality(RoomOf(mem')) = Cardinality(RoomOf(mem)) + mem'.hdr[h].size - 16
    BY <1>5 DEF Granted, SameBut
  <2>4. UsedOf(mem') = (DOMAIN held') \cup remote' \cup walk'
    BY <2>1, <2>2, <2>3
  <2>5. (DOMAIN held') \cap (remote' \cup walk') = {} /\ remote' \cap walk' = {}
    BY <2>1, <2>2, <2>3
  <2>6. \A x \in DOMAIN held' : held'[x] \in Nat /\ mem'.hdr[x].size >= held'[x] + 16
    BY <2>1, <2>2, <2>3, <1>1 DEF Sixteens
  <2>7. liveBytes' = Cardinality(RoomOf(mem'))
    BY <2>1, <2>2, <2>3, <1>2
  <2> QED
    BY <2>4, <2>5, <2>6, <2>7 DEF RunsInv
<1>8. CallInv'
  BY DEF IInv, CallInv, Grant, growth
<1> QED
  BY <1>3, <1>5, <1>6, <1>7, <1>8 DEF IInv

(* The owner frees or replays a run in use.                                *)
LEMMA FreeInv ==
  ASSUME IInv, NEW h \in UsedOf(mem), mem' = FreeRun(mem, h),
         liveBytes' = liveBytes - Payload(hdr[h].size), UNCHANGED growth
  PROVE  /\ MemoryInv' /\ Released(mem, mem', h)
         /\ liveBytes' = Cardinality(RoomOf(mem'))
<1>1. /\ Sound(mem, chunks, top) /\ top <= MaxBytes
      /\ liveBytes \in 0 .. top /\ top \in Nat /\ Ruled(mem)
  BY InvTypes
<1>2. Sound(mem', chunks, top) /\ Released(mem, mem', h)
  BY <1>1, FreeRunSound
<1>3. MemoryInv'
  BY <1>1, <1>2 DEF MemoryInv, growth
<1>4. liveBytes = Cardinality(RoomOf(mem))
  BY DEF IInv, RunsInv
<1>5. mem.hdr[h].size \in Nat
  BY <1>1 DEF Ruled
<1>6. liveBytes' = Cardinality(RoomOf(mem'))
  BY <1>1, <1>2, <1>4, <1>5 DEF Released, Payload, HeaderSize, hdr
<1> QED
  BY <1>2, <1>3, <1>6

(* The owner maps another chunk.                                           *)
LEMMA ChunkInv ==
  ASSUME IInv, NEW bytes \in Nat, AddOwnedChunk(bytes),
         UNCHANGED <<liveBytes, held, remote, walk>>
  PROVE  /\ MemoryInv' /\ RunsInv'
         /\ ChunkAdded(mem, mem', chunks, top, ChunkBytesFor(bytes))
<1> DEFINE size == ChunkBytesFor(bytes)
<1>1. /\ Sound(mem, chunks, top) /\ WellFormed(mem) /\ ChunksApart(chunks, top)
      /\ Chunked(mem, chunks) /\ top \in Sixteens /\ top \in Nat /\ MaxBytes \in Nat
      /\ size \in Sixteens /\ size >= 64
  BY InvTypes, ChunkBytes DEF Sound
<1> HIDE DEF size
<1>2. /\ mem' = InitializeFreeRun(mem, top, size)
      /\ chunks' = chunks \cup {NewChunk(top, size)}
      /\ top' = top + size /\ top + size <= MaxBytes
  BY DEF AddOwnedChunk, NewChunk, size
<1>3. ChunkAdded(mem, mem', chunks, top, size)
  <2>1. ChunkAdded(mem, InitializeFreeRun(mem, top, size), chunks, top, size)
    BY <1>1, AddChunkDoes
  <2> QED
    BY <1>2, <2>1
<1>4. MemoryInv'
  <2>1. top + size \in Sixteens
    BY <1>1 DEF Sixteens
  <2>2. Sound(mem', chunks', top')
    BY <1>2, <1>3, <2>1 DEF ChunkAdded, Sound
  <2>3. top' <= MaxBytes
    BY <1>2
  <2> QED
    BY <2>2, <2>3 DEF MemoryInv
<1>5. UsedOf(mem') = UsedOf(mem) /\ \A h \in UsedOf(mem) : mem'.hdr[h] = mem.hdr[h]
  BY <1>3 DEF ChunkAdded
<1>6. RoomOf(mem') = RoomOf(mem)
  <2>1. \A h \in UsedOf(mem) : Room(mem', h) = Room(mem, h)
    BY <1>5 DEF Room, EndOf
  <2> QED
    BY <1>5, <2>1 DEF RoomOf
<1>7. RunsInv'
  <2>1. \A h \in DOMAIN held : h \in UsedOf(mem)
    BY DEF IInv, RunsInv
  <2> QED
    BY <1>5, <1>6, <2>1 DEF IInv, RunsInv
<1> QED
  BY <1>3, <1>4, <1>7 DEF size

LEMMA MemoryKept ==
  ASSUME IInv, UNCHANGED <<mem, chunks, top>>
  PROVE  MemoryInv'
  BY DEF IInv, MemoryInv

LEMMA RunsKept ==
  ASSUME IInv, UNCHANGED <<mem, held, remote, walk, liveBytes>>
  PROVE  RunsInv'
  BY DEF IInv, RunsInv

(* The steps, one by one.                                                  *)
LEMMA AllocateInv ==
  ASSUME IInv, NEW b \in Requests, AllocateHit(b) \/ AllocateMiss(b)
  PROVE  IInv'
<1>1. CASE AllocateHit(b)
  <2>1. PICK h \in Fits(Needed(b)) : Grant(h, b)
    BY <1>1 DEF AllocateHit
  <2>2. Normalizes(AtLeastOne(b)) /\ walk = {}
    BY <1>1 DEF AllocateHit, IInv, CallInv
  <2> QED
    BY <2>1, <2>2, GrantInv
<1>2. CASE AllocateMiss(b)
  <2>1. MemoryInv' /\ RunsInv'
    BY <1>2, MemoryKept, RunsKept DEF AllocateMiss, growth
  <2>2. CallInv'
    BY <1>2 DEF AllocateMiss, growth, IInv, CallInv
  <2> QED
    BY <2>1, <2>2 DEF IInv
<1> QED
  BY <1>1, <1>2

LEMMA DrainInv ==
  ASSUME IInv, DrainExchange
  PROVE  IInv'
<1>1. MemoryInv'
  BY MemoryKept DEF DrainExchange, growth
<1>2. /\ walk = {} /\ walk' = remote /\ remote' = {} /\ mem' = mem /\ held' = held
      /\ liveBytes' = liveBytes /\ owed' = owed /\ owed \subseteq remote /\ asked' = asked
      /\ asked \in Requests /\ Normalizes(AtLeastOne(asked))
      /\ canGrow' = canGrow /\ nextGrowth' = nextGrowth /\ deferred' = deferred
      /\ pc' = IF remote = {} THEN "miss" ELSE "replay"
  BY DEF DrainExchange, IInv, CallInv, growth
<1>3. RunsInv'
  BY <1>2 DEF IInv, RunsInv
<1>4. CallInv'
  BY <1>2 DEF IInv, CallInv
<1> QED
  BY <1>1, <1>3, <1>4 DEF IInv

LEMMA ReplayInv ==
  ASSUME IInv, NEW h \in walk, Replay(h)
  PROVE  IInv' /\ Released(mem, mem', h)
<1>1. h \in UsedOf(mem)
  BY DEF IInv, RunsInv
<1>2. MemoryInv' /\ Released(mem, mem', h) /\ liveBytes' = Cardinality(RoomOf(mem'))
  BY <1>1, FreeInv DEF Replay
<1>3. /\ UsedOf(mem') = UsedOf(mem) \ {h}
      /\ \A g \in UsedOf(mem) \ {h} : mem'.hdr[g].size = mem.hdr[g].size
  BY <1>2 DEF Released, SameBut
<1>4. /\ walk' = walk \ {h} /\ pc = "replay" /\ held' = held /\ remote' = remote
      /\ pc' = (IF walk = {h} THEN "refit" ELSE "replay") /\ owed' = owed /\ asked' = asked
      /\ canGrow' = canGrow /\ nextGrowth' = nextGrowth /\ deferred' = deferred
  BY DEF Replay, growth
<1>5. /\ UsedOf(mem) = (DOMAIN held) \cup remote \cup walk
      /\ (DOMAIN held) \cap (remote \cup walk) = {} /\ remote \cap walk = {}
      /\ \A x \in DOMAIN held : held[x] \in Nat /\ mem.hdr[x].size >= held[x] + 16
  BY DEF IInv, RunsInv
<1>6. RunsInv'
  <2>1. \A x \in DOMAIN held : mem'.hdr[x].size = mem.hdr[x].size
    BY <1>3, <1>5
  <2>2. \A x \in DOMAIN held' : held'[x] \in Nat /\ mem'.hdr[x].size >= held'[x] + 16
    BY <1>4, <1>5, <2>1
  <2>3. UsedOf(mem') = (DOMAIN held') \cup remote' \cup walk'
    BY <1>3, <1>4, <1>5
  <2>4. (DOMAIN held') \cap (remote' \cup walk') = {} /\ remote' \cap walk' = {}
    BY <1>4, <1>5
  <2> QED
    BY <1>2, <2>2, <2>3, <2>4 DEF RunsInv
<1>7. CallInv'
  <2>1. owed \cap UsedOf(mem) \subseteq walk
    BY <1>4 DEF IInv, CallInv
  <2>2. owed \cap UsedOf(mem') \subseteq walk'
    BY <1>3, <1>4, <2>1
  <2>3. CASE walk = {h}
    BY <1>4, <2>2, <2>3 DEF IInv, CallInv
  <2>4. CASE walk # {h}
    BY <1>4, <2>2, <2>4 DEF IInv, CallInv
  <2> QED
    BY <2>3, <2>4
<1> QED
  BY <1>2, <1>6, <1>7 DEF IInv

LEMMA RefitInv ==
  ASSUME IInv, Refit
  PROVE  IInv'
<1>1. PICK h \in Fits(Needed(asked)) : Grant(h, asked)
  BY DEF Refit
<1>2. asked \in Requests /\ Normalizes(AtLeastOne(asked)) /\ walk = {}
  BY DEF Refit, IInv, CallInv
<1> QED
  BY <1>1, <1>2, GrantInv

LEMMA RefitMissInv ==
  ASSUME IInv, RefitMiss
  PROVE  IInv'
<1>1. MemoryInv' /\ RunsInv'
  BY MemoryKept, RunsKept DEF RefitMiss, growth
<1>2. CallInv'
  BY DEF RefitMiss, growth, IInv, CallInv
<1> QED
  BY <1>1, <1>2 DEF IInv

LEMMA AllocateFailsInv ==
  ASSUME IInv, AllocateFails
  PROVE  IInv'
<1>1. MemoryInv' /\ RunsInv'
  BY MemoryKept, RunsKept DEF AllocateFails, growth
<1>2. CallInv'
  BY DEF AllocateFails, growth, IInv, CallInv
<1> QED
  BY <1>1, <1>2 DEF IInv

LEMMA FirstChunkInv ==
  ASSUME IInv, FirstChunk
  PROVE  IInv'
<1>1. deferred \in Nat /\ AddOwnedChunk(deferred) /\ UNCHANGED <<liveBytes, held, remote, walk>>
  BY DEF FirstChunk, IInv, CallInv
<1>2. MemoryInv' /\ RunsInv' /\ ChunkAdded(mem, mem', chunks, top, ChunkBytesFor(deferred))
  BY <1>1, ChunkInv
<1>3. UsedOf(mem') = UsedOf(mem)
  BY <1>2 DEF ChunkAdded
<1>4. nextGrowth' \in Nat /\ deferred' \in Nat
  BY <1>1, ChunkBytes DEF FirstChunk, Sixteens
<1>5. CallInv'
  BY <1>3, <1>4 DEF FirstChunk, IInv, CallInv
<1> QED
  BY <1>2, <1>5 DEF IInv

LEMMA GrowInv ==
  ASSUME IInv, Grow
  PROVE  IInv'
<1> DEFINE needed == Needed(asked)
           bytes == GrowthFor(needed)
<1>1. needed \in Nat /\ nextGrowth \in Nat /\ asked \in Requests /\ Normalizes(AtLeastOne(asked))
  BY NeededBytes DEF Grow, IInv, CallInv, Sixteens
<1> HIDE DEF needed
<1>2. bytes \in Nat /\ bytes >= needed + 64
  <2>1. needed + MinChunkBytes = needed + 64
    BY DEF MinChunkBytes, MinFreeRunSize, EpilogueSize
  <2> QED
    BY <1>1, <2>1, MaxOfTwo DEF GrowthFor
<1> HIDE DEF bytes
<1>3. AddOwnedChunk(bytes) /\ UNCHANGED <<liveBytes, held, remote, walk>>
  BY DEF Grow, bytes, needed
<1>4. /\ MemoryInv' /\ RunsInv'
      /\ ChunkAdded(mem, mem', chunks, top, ChunkBytesFor(bytes))
  BY <1>2, <1>3, ChunkInv
<1>5. ChunkBytesFor(bytes) \in Nat /\ ChunkBytesFor(bytes) >= bytes
  BY <1>2, ChunkBytes DEF Sixteens
<1>6. \E h \in FreeOf(mem') : mem'.hdr[h].size >= needed
  <2>1. top \in FreeOf(mem') /\ mem'.hdr[top].size = ChunkBytesFor(bytes) - 16
    BY <1>4 DEF ChunkAdded
  <2>2. ChunkBytesFor(bytes) - 16 >= needed
    BY <1>1, <1>2, <1>5
  <2> QED
    BY <2>1, <2>2
<1>7. nextGrowth' \in Nat
  <2>1. nextGrowth' = Min({2 * ChunkBytesFor(bytes), SizeMax})
    BY DEF Grow, bytes, needed
  <2> QED
    BY <1>5, <2>1, MinOfTwo, WordFacts
<1>8. /\ pc' = "last" /\ pc = "miss" /\ asked' = asked /\ deferred' = deferred
      /\ canGrow' = canGrow /\ walk' = walk /\ walk = {}
  BY DEF Grow, IInv, CallInv
<1>9. Needed(asked') = needed
  BY <1>8 DEF needed
<1>10. CallInv'
  <2>1. canGrow \in BOOLEAN /\ deferred \in Nat
    BY DEF IInv, CallInv
  <2> QED
    BY <1>1, <1>6, <1>7, <1>8, <1>9, <2>1 DEF CallInv
<1> QED
  BY <1>4, <1>10 DEF IInv

LEMMA DeallocateInv ==
  ASSUME IInv, NEW h \in DOMAIN held, Deallocate(h)
  PROVE  IInv' /\ Released(mem, mem', h)
<1>1. /\ UsedOf(mem) = (DOMAIN held) \cup remote \cup walk
      /\ (DOMAIN held) \cap (remote \cup walk) = {} /\ remote \cap walk = {}
      /\ \A x \in DOMAIN held : held[x] \in Nat /\ mem.hdr[x].size >= held[x] + 16
  BY DEF IInv, RunsInv
<1>2. MemoryInv' /\ Released(mem, mem', h) /\ liveBytes' = Cardinality(RoomOf(mem'))
  BY <1>1, FreeInv DEF Deallocate
<1>3. /\ UsedOf(mem') = UsedOf(mem) \ {h}
      /\ \A g \in UsedOf(mem) \ {h} : mem'.hdr[g].size = mem.hdr[g].size
  BY <1>2 DEF Released, SameBut
<1>4. /\ held' = [x \in (DOMAIN held) \ {h} |-> held[x]] /\ remote' = remote /\ walk' = walk
      /\ pc = "idle"
  BY DEF Deallocate, Drop, Restrict
<1>5. RunsInv'
  <2>1. \A x \in DOMAIN held' : x \in DOMAIN held /\ held'[x] = held[x]
                                /\ mem'.hdr[x].size = mem.hdr[x].size
    BY <1>1, <1>3, <1>4
  <2>2. \A x \in DOMAIN held' : held'[x] \in Nat /\ mem'.hdr[x].size >= held'[x] + 16
    BY <1>1, <2>1
  <2>3. UsedOf(mem') = (DOMAIN held') \cup remote' \cup walk'
    BY <1>1, <1>3, <1>4
  <2>4. (DOMAIN held') \cap (remote' \cup walk') = {} /\ remote' \cap walk' = {}
    BY <1>1, <1>4
  <2> QED
    BY <1>2, <2>2, <2>3, <2>4 DEF RunsInv
<1>6. CallInv'
  BY <1>4 DEF Deallocate, call, growth, IInv, CallInv
<1> QED
  BY <1>2, <1>5, <1>6 DEF IInv

LEMMA ExpandInv ==
  ASSUME IInv, NEW h \in DOMAIN held, NEW b \in Requests, Expand(h, b)
  PROVE  IInv' /\ \E needed \in Nat : Widened(mem, mem', h, needed) /\ needed >= b + 16
<1>1. /\ UsedOf(mem) = (DOMAIN held) \cup remote \cup walk
      /\ (DOMAIN held) \cap (remote \cup walk) = {} /\ remote \cap walk = {}
      /\ \A x \in DOMAIN held : held[x] \in Nat /\ mem.hdr[x].size >= held[x] + 16
      /\ liveBytes = Cardinality(RoomOf(mem))
  BY DEF IInv, RunsInv
<1>2. /\ Sound(mem, chunks, top) /\ top <= MaxBytes /\ Ruled(mem)
      /\ liveBytes \in 0 .. top /\ top \in Nat
  BY InvTypes
<1>3. h \in UsedOf(mem) /\ h \in RunsOf(mem)
  BY <1>1, <1>2 DEF Ruled
<1> DEFINE next == EndOf(mem, h)
           needed == RunBytesFor(b)
           total == mem.hdr[h].size + mem.hdr[next].size
<1>4. /\ Normalizes(b) /\ next \in FreeOf(mem) /\ total >= needed
      /\ mem' = Occupy(Forget(UnlinkFree(mem, next), next), h, needed, total)
  <2>1. next \in DOMAIN mem.hdr
    BY <1>2, <1>3 DEF Ruled
  <2> QED
    BY <2>1 DEF Expand, ExpandFits, Expanded, NextRun, HasNext, EndOf, FreeOf, RunsOf, hdr
<1>5. needed \in Sixteens /\ needed >= 48 /\ needed >= b + 16 /\ b \in Nat
  <2>1. b \in 0 .. SizeMax
    BY RequestAssumption
  <2>2. b \in Nat
    BY <2>1
  <2> QED
    BY <1>4, <2>1, <2>2, RunBytes DEF MinFreeRunSize, HeaderSize
<1>6. Sound(mem', chunks, top) /\ Widened(mem, mem', h, needed)
  <2>1. mem.hdr[h].size \in Nat /\ mem.hdr[next].size \in Nat
    BY <1>2, <1>3 DEF Ruled
  <2>2. needed <= total
    BY <1>4, <1>5, <2>1 DEF Sixteens
  <2> HIDE DEF needed
  <2> QED
    BY <1>2, <1>3, <1>4, <1>5, <2>2, ExpandSound
<1> HIDE DEF next, needed, total
<1>7. MemoryInv'
  BY <1>2, <1>6 DEF MemoryInv, Expand, growth
<1>8. /\ UsedOf(mem') = UsedOf(mem)
      /\ \A g \in UsedOf(mem) \ {h} : mem'.hdr[g].size = mem.hdr[g].size
      /\ mem'.hdr[h].size >= needed /\ mem'.hdr[h].size \in Nat
      /\ Cardinality(RoomOf(mem')) = Cardinality(RoomOf(mem)) + mem'.hdr[h].size - mem.hdr[h].size
  BY <1>6 DEF Widened, SameBut
<1>9. /\ held' = [held EXCEPT ![h] = b] /\ remote' = remote /\ walk' = walk /\ pc = "idle"
      /\ liveBytes' = liveBytes + mem'.hdr[h].size - mem.hdr[h].size
  BY DEF Expand, hdr
<1>10. RunsInv'
  <2>1. \A x \in DOMAIN held : x # h => held'[x] = held[x] /\ mem'.hdr[x].size = mem.hdr[x].size
    BY <1>1, <1>8, <1>9
  <2>2. held'[h] = b /\ DOMAIN held' = DOMAIN held
    BY <1>9
  <2>3. \A x \in DOMAIN held' : held'[x] \in Nat /\ mem'.hdr[x].size >= held'[x] + 16
    BY <1>1, <1>5, <1>8, <2>1, <2>2 DEF Sixteens
  <2>4. liveBytes' = Cardinality(RoomOf(mem'))
    BY <1>1, <1>8, <1>9
  <2> QED
    BY <1>1, <1>8, <1>9, <2>2, <2>3, <2>4 DEF RunsInv
<1>11. CallInv'
  BY <1>9 DEF Expand, call, growth, IInv, CallInv
<1> QED
  BY <1>5, <1>6, <1>7, <1>10, <1>11 DEF IInv, Sixteens

LEMMA RemotePushInv ==
  ASSUME IInv, NEW h \in DOMAIN held, RemotePush(h)
  PROVE  IInv'
<1>1. MemoryInv'
  BY MemoryKept DEF RemotePush, growth
<1>2. /\ held' = [x \in (DOMAIN held) \ {h} |-> held[x]] /\ remote' = remote \cup {h}
      /\ walk' = walk /\ mem' = mem /\ liveBytes' = liveBytes /\ pc' = pc /\ asked' = asked
      /\ owed' = owed /\ canGrow' = canGrow /\ nextGrowth' = nextGrowth /\ deferred' = deferred
  BY DEF RemotePush, Drop, Restrict, growth, call
<1>3. /\ UsedOf(mem) = (DOMAIN held) \cup remote \cup walk
      /\ (DOMAIN held) \cap (remote \cup walk) = {} /\ remote \cap walk = {}
      /\ \A x \in DOMAIN held : held[x] \in Nat /\ mem.hdr[x].size >= held[x] + 16
      /\ liveBytes = Cardinality(RoomOf(mem))
  BY DEF IInv, RunsInv
<1>4. RunsInv'
  BY <1>2, <1>3 DEF RunsInv
<1>5. CallInv'
  BY <1>2 DEF IInv, CallInv
<1> QED
  BY <1>1, <1>4, <1>5 DEF IInv

LEMMA NextInv == IInv /\ [Next]_vars => IInv'
<1> SUFFICES ASSUME IInv, [Next]_vars PROVE IInv'
  OBVIOUS
<1>1. ASSUME NEW b \in Requests, AllocateHit(b) \/ AllocateMiss(b) PROVE IInv'
  BY <1>1, AllocateInv
<1>2. CASE OwnerContinues
  BY <1>2, DrainInv, RefitInv, RefitMissInv, FirstChunkInv, GrowInv, AllocateFailsInv, ReplayInv
     DEF OwnerContinues
<1>3. ASSUME NEW h \in DOMAIN held, Deallocate(h) PROVE IInv'
  BY <1>3, DeallocateInv
<1>4. ASSUME NEW h \in DOMAIN held, RemotePush(h) PROVE IInv'
  BY <1>4, RemotePushInv
<1>5. ASSUME NEW h \in DOMAIN held, NEW b \in Requests, Expand(h, b) PROVE IInv'
  BY <1>5, ExpandInv
<1>6. CASE UNCHANGED vars
  <2>1. MemoryInv' /\ RunsInv'
    BY <1>6, MemoryKept, RunsKept DEF vars, growth
  <2>2. CallInv'
    BY <1>6 DEF vars, growth, call, IInv, CallInv
  <2> QED
    BY <2>1, <2>2 DEF IInv
<1> QED
  BY <1>1, <1>2, <1>3, <1>4, <1>5, <1>6 DEF Next

(* For every instance: the memory, the runs in use and the call in progress*)
(* agree with one another after every operation of the runner.             *)
THEOREM Invariance == Spec => []IInv
<1>1. Init => IInv
  BY InitInv
<1>2. IInv /\ [Next]_vars => IInv'
  BY NextInv
<1> QED
  BY <1>1, <1>2, PTL DEF Spec

-----------------------------------------------------------------------------
(* The properties of the runs.                                             *)

LEMMA SameNames ==
  /\ Runs = RunsOf(mem) /\ FreeRuns = FreeOf(mem) /\ UsedRuns = UsedOf(mem)
  /\ \A h : End(h) = EndOf(mem, h)
  BY DEF Runs, RunsOf, FreeRuns, FreeOf, UsedRuns, UsedOf, End, EndOf, hdr

LEMMA TypeFollows == IInv => TypeOK
<1> SUFFICES ASSUME IInv PROVE TypeOK
  OBVIOUS
<1>1. /\ Ruled(mem) /\ Memory(mem) /\ top <= MaxBytes /\ top \in Nat /\ MaxBytes \in Nat
      /\ liveBytes \in 0 .. top
  BY InvTypes DEF Ruled
<1>2. \A x \in DOMAIN mem.hdr : x < top
  BY InvTypes, HeadersBelow
<1>3. ASSUME NEW h \in DOMAIN mem.hdr
      PROVE  /\ h \in 0 .. MaxBytes
             /\ mem.hdr[h] \in [size : 0 .. MaxBytes, free : BOOLEAN, prevFree : BOOLEAN]
  <2>1. h \in Nat /\ h < top
    BY <1>1, <1>2 DEF Ruled
  <2>2. mem.hdr[h] \in Header
    BY <1>1 DEF Memory
  <2>3. mem.hdr[h].size \in 0 .. MaxBytes
    <3>1. CASE mem.hdr[h].size = 0
      BY <3>1, <1>1
    <3>2. CASE mem.hdr[h].size # 0
      <4>1. h \in RunsOf(mem)
        BY <3>2 DEF RunsOf
      <4>2. h + mem.hdr[h].size < top /\ mem.hdr[h].size \in Nat
        BY <4>1, <1>1, <1>2 DEF Ruled
      <4> QED
        BY <4>2, <2>1, <1>1
    <3> QED
      BY <3>1, <3>2
  <2> QED
    BY <2>1, <2>2, <2>3, <1>1 DEF Header
<1>4. mask \subseteq 0 .. BinCount - 1
  <2>1. /\ mask = {mem.bin[x] : x \in DOMAIN mem.bin}
        /\ DOMAIN mem.bin = FreeOf(mem)
        /\ \A h \in FreeOf(mem) : /\ mem.bin[h] = BinIndexFor(mem.hdr[h].size)
                                  /\ mem.hdr[h].size \in Sixteens
    BY <1>1 DEF Ruled, Memory, Binned, Tiled, mask
  <2> QED
    BY <2>1, BinRange
<1>5. /\ UsedOf(mem) \subseteq DOMAIN mem.hdr
      /\ UsedOf(mem) = (DOMAIN held) \cup remote \cup walk
  BY <1>1 DEF Ruled, IInv, RunsInv
<1>6. DOMAIN held \subseteq DOMAIN hdr /\ remote \cup walk \subseteq DOMAIN hdr
  BY <1>5 DEF hdr
<1>7. liveBytes \in 0 .. MaxBytes
  BY <1>1
<1>8. canGrow \in BOOLEAN /\ pc \in {"idle", "drain", "replay", "refit", "miss", "last"}
  BY DEF IInv, CallInv
<1> QED
  BY <1>3, <1>4, <1>6, <1>7, <1>8 DEF TypeOK, hdr

(* A runner begins with a chunk or with one to map, and the deferred size  *)
(* is given up only for a chunk.                                           *)
FirstChunkAhead == chunks = {} => deferred # 0

LEMMA ChunkAheadFirst == Init => FirstChunkAhead
<1> SUFFICES ASSUME Init PROVE FirstChunkAhead
  OBVIOUS
<1>1. CASE StartLazy
  <2>1. PICK b \in InitialBytes : deferred = Max({b, 1})
    BY <1>1 DEF StartLazy
  <2>2. b \in Nat
    BY ChunkAssumption
  <2>3. Max({b, 1}) # 0
    BY <2>2, MaxOfTwo
  <2> QED
    BY <2>1, <2>3 DEF FirstChunkAhead
<1>2. CASE StartEager \/ StartExternal
  <2>1. PICK bytes : StartWith(bytes)
    BY <1>2 DEF StartEager, StartExternal
  <2>2. chunks # {}
    BY <2>1 DEF StartWith
  <2> QED
    BY <2>2 DEF FirstChunkAhead
<1> QED
  BY <1>1, <1>2 DEF Init

LEMMA ChunkAheadNext == FirstChunkAhead /\ [Next]_vars => FirstChunkAhead'
<1> SUFFICES ASSUME FirstChunkAhead, [Next]_vars PROVE FirstChunkAhead'
  OBVIOUS
<1>1. ASSUME UNCHANGED growth PROVE FirstChunkAhead'
  BY <1>1 DEF growth, FirstChunkAhead
<1>2. ASSUME NEW bytes, AddOwnedChunk(bytes) PROVE FirstChunkAhead'
  <2>1. chunks' # {}
    BY <1>2 DEF AddOwnedChunk
  <2> QED
    BY <2>1 DEF FirstChunkAhead
<1>3. ASSUME NEW h, NEW b, Grant(h, b) PROVE UNCHANGED growth
  BY <1>3 DEF Grant
<1>4. ASSUME NEW b \in Requests, AllocateHit(b) \/ AllocateMiss(b) PROVE FirstChunkAhead'
  BY <1>1, <1>3, <1>4 DEF AllocateHit, AllocateMiss
<1>5. CASE FirstChunk \/ Grow
  BY <1>2, <1>5 DEF FirstChunk, Grow
<1>6. CASE DrainExchange \/ RefitMiss \/ AllocateFails
  BY <1>1, <1>6 DEF DrainExchange, RefitMiss, AllocateFails
<1>7. CASE Refit
  BY <1>1, <1>3, <1>7 DEF Refit
<1>8. ASSUME NEW h \in walk, Replay(h) PROVE FirstChunkAhead'
  BY <1>1, <1>8 DEF Replay
<1>9. ASSUME NEW h \in DOMAIN held, Deallocate(h) \/ RemotePush(h) PROVE FirstChunkAhead'
  BY <1>1, <1>9 DEF Deallocate, RemotePush
<1>10. ASSUME NEW h \in DOMAIN held, NEW b \in Requests, Expand(h, b) PROVE FirstChunkAhead'
  BY <1>1, <1>10 DEF Expand
<1>11. CASE UNCHANGED vars
  BY <1>1, <1>11 DEF vars
<1> QED
  BY <1>4, <1>5, <1>6, <1>7, <1>8, <1>9, <1>10, <1>11 DEF Next, OwnerContinues

LEMMA TilesFollow == IInv /\ FirstChunkAhead => RunsTile
<1> SUFFICES ASSUME IInv, FirstChunkAhead PROVE RunsTile
  OBVIOUS
<1>1. /\ Ruled(mem) /\ Tiled(mem) /\ Chunked(mem, chunks) /\ ChunksApart(chunks, top)
  BY InvTypes DEF Ruled, Sound
<1>2. \A c \in chunks : /\ c.begin \in Nat /\ c.bytes \in Nat /\ c.bytes >= 64
                        /\ Epilogue(c) = c.begin + c.bytes - 16 /\ Epilogue(c) \in Nat
  BY <1>1 DEF ChunksApart, Sixteens, Epilogue
<1>3. ASSUME NEW c \in chunks, NEW h \in RunsOf(mem), h \in c.begin .. Epilogue(c) - 1
      PROVE  /\ \/ EndOf(mem, h) \in {x \in RunsOf(mem) : x \in c.begin .. Epilogue(c) - 1}
                \/ EndOf(mem, h) = Epilogue(c)
             /\ \A g \in RunsOf(mem) : g > h => g >= EndOf(mem, h)
  <2> DEFINE end == EndOf(mem, h)
  <2>1. /\ end \in DOMAIN mem.hdr /\ end \in Nat /\ end > h /\ h \in Nat
        /\ end = h + mem.hdr[h].size /\ h \in DOMAIN mem.hdr
    BY <1>1 DEF Ruled
  <2>2. Epilogue(c) \in DOMAIN mem.hdr
    BY <1>1 DEF Chunked
  <2>3. h < Epilogue(c)
    BY <1>2, <1>3, <2>1
  <2>4. end <= Epilogue(c)
    BY <1>1, <2>1, <2>2, <2>3 DEF Ruled
  <2>5. \A g \in RunsOf(mem) : g > h => g >= end
    BY <1>1, <2>1 DEF Ruled
  <2> HIDE DEF end
  <2>6. ASSUME end # Epilogue(c), end \notin RunsOf(mem)
        PROVE  FALSE
    <3>1. mem.hdr[end].size = 0
      BY <2>1, <2>6 DEF RunsOf
    <3>2. PICK d \in chunks : end = Epilogue(d)
      BY <1>1, <2>1, <3>1 DEF Chunked
    <3>3. c # d
      BY <2>6, <3>2
    <3>4. c.begin + c.bytes <= d.begin \/ d.begin + d.bytes <= c.begin
      BY <1>1, <3>3 DEF ChunksApart
    <3>5. c.begin <= h
      BY <1>2, <1>3
    <3> QED
      BY <1>2, <2>1, <2>4, <3>2, <3>4, <3>5
  <2>7. c.begin <= h
    BY <1>2, <1>3
  <2>8. end # Epilogue(c) => end \in c.begin .. Epilogue(c) - 1
    BY <1>2, <2>1, <2>4, <2>7
  <2> QED
    BY <2>5, <2>6, <2>8 DEF end
<1>4. ASSUME NEW c \in chunks
      PROVE  LET epilogue == c.begin + c.bytes - EpilogueSize
                 inside == {h \in Runs : h \in c.begin .. epilogue - 1}
             IN  /\ c.begin \in Runs
                 /\ epilogue \in DOMAIN hdr /\ hdr[epilogue].size = 0
                 /\ \A h \in inside : /\ End(h) \in inside \cup {epilogue}
                                      /\ \A g \in inside : g > h => g >= End(h)
  <2> DEFINE epilogue == c.begin + c.bytes - EpilogueSize
             inside == {h \in Runs : h \in c.begin .. epilogue - 1}
  <2>1. epilogue = Epilogue(c)
    BY DEF EpilogueSize, Epilogue
  <2> HIDE DEF epilogue
  <2>2. inside = {h \in RunsOf(mem) : h \in c.begin .. Epilogue(c) - 1}
    BY <2>1, SameNames
  <2>3. c.begin \in Runs /\ epilogue \in DOMAIN hdr /\ hdr[epilogue].size = 0
    BY <1>1, <2>1, SameNames DEF Chunked, hdr
  <2> HIDE DEF inside
  <2>4. \A h \in inside : End(h) \in inside \cup {epilogue}
    BY <1>3, <2>1, <2>2, SameNames
  <2>5. \A h \in inside : \A g \in inside : g > h => g >= End(h)
    BY <1>3, <2>2, SameNames
  <2> QED
    BY <2>3, <2>4, <2>5 DEF inside, epilogue
<1>5. ASSUME NEW h \in Runs
      PROVE  /\ hdr[h].size >= MinFreeRunSize
             /\ hdr[h].size % RunAlignment = 0
             /\ \E c \in chunks : h \in c.begin .. c.begin + c.bytes - 1
  <2>1. h \in RunsOf(mem) /\ h \in DOMAIN mem.hdr /\ h \in Nat
    BY <1>1, SameNames DEF Ruled
  <2>2. mem.hdr[h].size \in Sixteens /\ mem.hdr[h].size >= 48
    BY <1>1, <2>1 DEF Tiled
  <2>3. PICK c \in chunks : c.begin <= h /\ h <= Epilogue(c)
    BY <1>1, <2>1 DEF Chunked
  <2>4. h \in c.begin .. c.begin + c.bytes - 1
    BY <1>2, <2>1, <2>3
  <2> QED
    BY <2>2, <2>4 DEF hdr, Sixteens, MinFreeRunSize, RunAlignment
<1> QED
  BY <1>4, <1>5, TypeFollows DEF RunsTile, FirstChunkAhead

(* For every instance: the runs of a chunk tile it, none lost, none shared,*)
(* whatever is split, merged or expanded.                                  *)
THEOREM RunsAlwaysTile == Spec => []RunsTile
<1>1. IInv /\ FirstChunkAhead => RunsTile
  BY TilesFollow
<1>2. Spec => []FirstChunkAhead
  BY ChunkAheadFirst, ChunkAheadNext, PTL DEF Spec
<1> QED
  BY <1>1, <1>2, Invariance, PTL

(* deallocate_bytes, replays, splits and expansions leave no two free      *)
(* neighbours.                                                             *)
THEOREM AlwaysCoalesced == Spec => []Coalesced
<1>1. IInv => Coalesced
  <2> SUFFICES ASSUME IInv PROVE Coalesced
    OBVIOUS
  <2>1. Tagged(mem)
    BY InvTypes DEF Ruled
  <2> QED
    BY <2>1, SameNames DEF Tagged, Coalesced
<1> QED
  BY <1>1, Invariance, PTL

(* A merge may trust the flag and the footer it reads.                     *)
THEOREM TagsAlwaysExact == Spec => []BoundaryTagsExact
<1>1. IInv => BoundaryTagsExact
  <2> SUFFICES ASSUME IInv PROVE BoundaryTagsExact
    OBVIOUS
  <2>1. Tagged(mem) /\ Chunked(mem, chunks)
    BY InvTypes DEF Ruled, Sound
  <2>2. \A h \in Runs : End(h) \in Runs => hdr[End(h)].prevFree = hdr[h].free
    BY <2>1, SameNames DEF Tagged, hdr
  <2>3. \A c \in chunks : ~ hdr[c.begin].prevFree
    BY <2>1 DEF Chunked, hdr
  <2>4. \A h \in FreeRuns : End(h) \in DOMAIN foot /\ foot[End(h)] = hdr[h].size
    BY <2>1, SameNames DEF Tagged, hdr, foot
  <2> QED
    BY <2>2, <2>3, <2>4 DEF BoundaryTagsExact
<1> QED
  BY <1>1, Invariance, PTL

(* Exactly the free runs are linked, by their size, and the bitmask is the *)
(* set of bins in use.                                                     *)
THEOREM BinsAlwaysExact == Spec => []BinsExact
<1>1. IInv => BinsExact
  <2> SUFFICES ASSUME IInv PROVE BinsExact
    OBVIOUS
  <2>1. Binned(mem) /\ Memory(mem)
    BY InvTypes DEF Ruled
  <2> QED
    BY <2>1, SameNames DEF Binned, Memory, BinsExact, bin, mask, hdr
<1> QED
  BY <1>1, Invariance, PTL

(* No run is lost or given twice between callers, the remote stack and the *)
(* owner's replay.                                                         *)
THEOREM RunsAccounted == Spec => []UsedRunsAccounted
<1>1. IInv => UsedRunsAccounted
  <2> SUFFICES ASSUME IInv PROVE UsedRunsAccounted
    OBVIOUS
  <2>1. /\ UsedOf(mem) = (DOMAIN held) \cup remote \cup walk
        /\ (DOMAIN held) \cap (remote \cup walk) = {} /\ remote \cap walk = {}
        /\ \A h \in DOMAIN held : held[h] \in Nat /\ mem.hdr[h].size >= held[h] + 16
    BY DEF IInv, RunsInv
  <2>2. \A h \in DOMAIN held : Payload(hdr[h].size) >= held[h]
    <3>1. Ruled(mem)
      BY InvTypes
    <3>2. \A h \in DOMAIN held : mem.hdr[h].size \in Nat
      BY <2>1, <3>1 DEF Ruled
    <3> QED
      BY <2>1, <3>2 DEF Payload, HeaderSize, hdr
  <2> QED
    BY <2>1, <2>2, SameNames DEF UsedRunsAccounted
<1> QED
  BY <1>1, Invariance, PTL

(* _find_fit never returns a run that is too small, although it does not   *)
(* look at the size of most runs it returns.                               *)
THEOREM FitsAlwaysLargeEnough == Spec => []FitsAreLargeEnough
<1>1. IInv => FitsAreLargeEnough
  <2> SUFFICES ASSUME IInv PROVE FitsAreLargeEnough
    OBVIOUS
  <2>1. WellFormed(mem)
    BY InvTypes
  <2> QED
    BY <2>1, FitsExact, NeededBytes DEF FitsAreLargeEnough, hdr
<1> QED
  BY <1>1, Invariance, PTL

(* It returns nothing only when no free run is large enough.               *)
THEOREM NoFitEverOverlooked == Spec => []NoFitOverlooked
<1>1. IInv => NoFitOverlooked
  <2> SUFFICES ASSUME IInv PROVE NoFitOverlooked
    OBVIOUS
  <2>1. WellFormed(mem)
    BY InvTypes
  <2> QED
    BY <2>1, FitsExact, NeededBytes, SameNames DEF NoFitOverlooked, hdr
<1> QED
  BY <1>1, Invariance, PTL

(* The chunk that _grow_for maps satisfies the request it is mapped for.   *)
THEOREM GrowthAlwaysSuffices == Spec => []GrowthSuffices
<1>1. IInv => GrowthSuffices
  <2> SUFFICES ASSUME IInv, pc = "last", Fits(Needed(asked)) = {} PROVE FALSE
    BY DEF GrowthSuffices
  <2>1. WellFormed(mem) /\ Ruled(mem)
    BY InvTypes
  <2>2. Needed(asked) \in Sixteens
    BY NeededBytes DEF IInv, CallInv
  <2>3. PICK h \in FreeOf(mem) : mem.hdr[h].size >= Needed(asked)
    BY DEF IInv, CallInv
  <2>4. mem.hdr[h].size < Needed(asked)
    BY <2>1, <2>2, FitsExact
  <2>5. mem.hdr[h].size \in Nat /\ Needed(asked) \in Nat
    BY <2>1, <2>2 DEF Ruled, Sixteens
  <2> QED
    BY <2>3, <2>4, <2>5
<1> QED
  BY <1>1, Invariance, PTL

(* Whatever was parked when a call first missed has been replayed before   *)
(* the call fails or grows.                                                *)
THEOREM DrainsBeforeFailing == Spec => DrainBeforeFail
<1>1. IInv /\ [Next]_vars =>
        [(pc = "miss" /\ (pc' = "idle" \/ chunks' # chunks)) => owed \cap UsedRuns = {}]_vars
  BY SameNames DEF IInv, CallInv
<1> QED
  BY <1>1, Invariance, PTL DEF DrainBeforeFail, Spec

-----------------------------------------------------------------------------
(* The refinement of RunnerContract.                                       *)

(* The run at h, and all of them, as the contract sees them.               *)
RunSeen(m, hd, h) ==
  [room |-> Payload(m.hdr[h].size),
   asked |-> IF h \in DOMAIN hd THEN hd[h] ELSE 0,
   back |-> h \notin DOMAIN hd]

RunsSeen(m, hd, used) == [a \in {h + HeaderSize : h \in used} |-> RunSeen(m, hd, a - HeaderSize)]

AbsRun ==
  [a \in {h + HeaderSize : h \in (DOMAIN held) \cup remote \cup walk} |->
     LET h == a - HeaderSize
     IN  [room |-> Payload(hdr[h].size),
          asked |-> IF h \in DOMAIN held THEN held[h] ELSE 0,
          back |-> h \notin DOMAIN held]]

Seen(m, hd, run) ==
  /\ run = RunsSeen(m, hd, UsedOf(m))
  /\ DOMAIN run = {h + 16 : h \in UsedOf(m)}
  /\ \A h \in UsedOf(m) : /\ h \in Nat
                          /\ run[h + 16] = RunSeen(m, hd, h)
                          /\ run[h + 16].room = m.hdr[h].size - 16
                          /\ run[h + 16].back = (h \notin DOMAIN hd)
                          /\ h \in DOMAIN hd => run[h + 16].asked = hd[h]

LEMMA RunsSeenAre ==
  ASSUME NEW m, NEW hd, UsedOf(m) \subseteq Nat
  PROVE  Seen(m, hd, RunsSeen(m, hd, UsedOf(m)))
<1> DEFINE run == RunsSeen(m, hd, UsedOf(m))
<1>1. DOMAIN run = {h + 16 : h \in UsedOf(m)}
  BY DEF RunsSeen, HeaderSize
<1>2. ASSUME NEW h \in UsedOf(m)
      PROVE  h \in Nat /\ run[h + 16] = RunSeen(m, hd, h)
  <2>1. h \in Nat /\ (h + 16) - 16 = h
    OBVIOUS
  <2> QED
    BY <2>1 DEF RunsSeen, HeaderSize
<1> HIDE DEF run
<1>3. \A h : /\ RunSeen(m, hd, h).room = m.hdr[h].size - 16
             /\ RunSeen(m, hd, h).back = (h \notin DOMAIN hd)
             /\ h \in DOMAIN hd => RunSeen(m, hd, h).asked = hd[h]
  BY DEF RunSeen, Payload, HeaderSize
<1> QED
  BY <1>1, <1>2, <1>3 DEF Seen, run

LEMMA NowSeen ==
  ASSUME IInv
  PROVE  Seen(mem, held, AbsRun)
<1>1. UsedOf(mem) \subseteq Nat
  BY InvTypes DEF Ruled
<1>2. UsedOf(mem) = (DOMAIN held) \cup remote \cup walk
  BY DEF IInv, RunsInv
<1>3. AbsRun = RunsSeen(mem, held, UsedOf(mem))
  BY <1>2 DEF AbsRun, RunsSeen, RunSeen, hdr
<1> QED
  BY <1>1, <1>3, RunsSeenAre

LEMMA NextSeen ==
  ASSUME IInv'
  PROVE  Seen(mem', held', AbsRun')
<1>1. UsedOf(mem') \subseteq Nat
  <2>1. WellFormed(mem')
    BY DEF IInv, MemoryInv, Sound
  <2>2. Ruled(mem')
    BY <2>1, RulesHold
  <2> QED
    BY <2>2 DEF Ruled
<1>2. UsedOf(mem') = (DOMAIN held') \cup remote' \cup walk'
  BY DEF IInv, RunsInv
<1>3. AbsRun' = RunsSeen(mem', held', UsedOf(mem'))
  BY <1>2 DEF AbsRun, RunsSeen, RunSeen, hdr
<1> QED
  BY <1>1, <1>3, RunsSeenAre

(* A run in use is aligned, inside a chunk, and apart from the others.     *)
LEMMA UsedRunsApart ==
  ASSUME NEW m, NEW cs, NEW t, Sound(m, cs, t), NEW h \in UsedOf(m)
  PROVE  /\ h \in Nat /\ (h + 16) % 16 = 0 /\ EndOf(m, h) = h + m.hdr[h].size
         /\ m.hdr[h].size \in Nat
         /\ \E c \in cs : c.begin <= h + 16 /\ EndOf(m, h) <= c.begin + c.bytes
         /\ \A g \in UsedOf(m) \ {h} : EndOf(m, h) <= g \/ EndOf(m, g) <= h
<1>1. Ruled(m) /\ Tiled(m) /\ ChunksApart(cs, t) /\ Chunked(m, cs)
  BY RulesHold DEF Sound, WellFormed
<1>2. /\ h \in DOMAIN m.hdr /\ h \in Nat /\ h \in Sixteens /\ m.hdr[h].size \in Nat
      /\ m.hdr[h].size # 0 /\ EndOf(m, h) = h + m.hdr[h].size
  BY <1>1 DEF Ruled, Tiled, RunsOf
<1>3. (h + 16) % 16 = 0
  BY <1>2 DEF Sixteens
<1>4. \A g \in UsedOf(m) \ {h} : EndOf(m, h) <= g \/ EndOf(m, g) <= h
  BY <1>1, <1>2 DEF Ruled
<1>5. PICK c \in cs : c.begin <= h /\ h <= Epilogue(c)
  BY <1>1, <1>2 DEF Chunked
<1>6. c.begin \in Nat /\ c.bytes \in Nat /\ Epilogue(c) = c.begin + c.bytes - 16
  BY <1>1 DEF ChunksApart, Sixteens, Epilogue
<1>7. Epilogue(c) \in DOMAIN m.hdr /\ m.hdr[Epilogue(c)].size = 0
  BY <1>1 DEF Chunked
<1>8. h < Epilogue(c)
  BY <1>2, <1>5, <1>6, <1>7
<1>9. EndOf(m, h) <= Epilogue(c)
  BY <1>1, <1>2, <1>7, <1>8 DEF Ruled
<1>10. c.begin <= h + 16 /\ EndOf(m, h) <= c.begin + c.bytes
  BY <1>2, <1>5, <1>6, <1>9
<1> QED
  BY <1>2, <1>3, <1>4, <1>10

LEMMA PlacedFollows ==
  ASSUME IInv, IInv', NEW h \in UsedOf(mem'), SameBut(mem, mem', h), h \in DOMAIN held',
         chunks' = chunks
  PROVE  Contract!Placed(h + 16)
<1>1. Seen(mem, held, AbsRun) /\ Seen(mem', held', AbsRun')
  BY NowSeen, NextSeen
<1>2. /\ h \in Nat /\ (h + 16) % 16 = 0 /\ EndOf(mem', h) = h + mem'.hdr[h].size
      /\ mem'.hdr[h].size \in Nat
      /\ \E c \in chunks : c.begin <= h + 16 /\ EndOf(mem', h) <= c.begin + c.bytes
      /\ \A g \in UsedOf(mem') \ {h} : EndOf(mem', h) <= g \/ EndOf(mem', g) <= h
  <2>1. Sound(mem', chunks', top')
    BY DEF IInv, MemoryInv
  <2>2. Sound(mem', chunks, top')
    BY <2>1
  <2> QED
    BY <2>2, UsedRunsApart
<1> DEFINE room == AbsRun'[h + 16].room
<1>3. room = mem'.hdr[h].size - 16 /\ AbsRun'[h + 16].asked = held'[h]
  BY <1>1 DEF Seen
<1>4. room >= AbsRun'[h + 16].asked
  <2>1. held'[h] \in Nat /\ mem'.hdr[h].size >= held'[h] + 16
    BY DEF IInv, RunsInv
  <2> QED
    BY <1>2, <1>3, <2>1
<1>5. (h + 16) + room = EndOf(mem', h)
  BY <1>2, <1>3
<1>6. ASSUME NEW b \in DOMAIN AbsRun \ {h + 16}
      PROVE  (h + 16) + room <= b \/ b + AbsRun[b].room <= h + 16
  <2>1. PICK g \in UsedOf(mem) : b = g + 16
    BY <1>1, <1>6 DEF Seen
  <2>2. g # h
    BY <1>6, <2>1
  <2>3. g \in UsedOf(mem') /\ mem'.hdr[g].size = mem.hdr[g].size
    BY <2>1, <2>2 DEF SameBut
  <2>4. g \in Nat /\ AbsRun[b].room = mem.hdr[g].size - 16
    BY <1>1, <2>1 DEF Seen
  <2>5. mem.hdr[g].size \in Nat
    BY InvTypes DEF Ruled
  <2>6. b + AbsRun[b].room = EndOf(mem', g)
    BY <2>1, <2>3, <2>4, <2>5 DEF EndOf
  <2>7. EndOf(mem', h) <= g \/ EndOf(mem', g) <= h
    BY <1>2, <2>2, <2>3
  <2>8. EndOf(mem', g) \in Nat /\ EndOf(mem', h) \in Nat
    BY <1>2, <2>3, <2>4, <2>5 DEF EndOf
  <2> QED
    BY <1>2, <1>5, <2>1, <2>4, <2>6, <2>7, <2>8
<1>7. \E c \in chunks : c.begin <= h + 16 /\ (h + 16) + room <= c.begin + c.bytes
  BY <1>2, <1>5
<1> QED
  BY <1>2, <1>4, <1>6, <1>7 DEF Contract!Placed, AbsRun, RunAlignment

LEMMA GrantTakes ==
  ASSUME IInv, IInv', NEW b, NEW h, Grant(h, b), Granted(mem, mem', h, Needed(b))
  PROVE  Contract!Next
<1>1. Seen(mem, held, AbsRun) /\ Seen(mem', held', AbsRun')
  BY NowSeen, NextSeen
<1>2. /\ h \notin UsedOf(mem) /\ UsedOf(mem') = UsedOf(mem) \cup {h} /\ SameBut(mem, mem', h)
      /\ \A g \in UsedOf(mem) : mem'.hdr[g].size = mem.hdr[g].size
  BY DEF Granted, SameBut
<1>3. /\ held' = [x \in (DOMAIN held) \cup {h} |-> IF x = h THEN b ELSE held[x]]
      /\ liveBytes' = liveBytes + (mem'.hdr[h].size - 16) /\ chunks' = chunks
  BY DEF Grant, Payload, HeaderSize, hdr, growth
<1>4. h \in Nat /\ \A g \in UsedOf(mem) : g \in Nat /\ g # h
  BY <1>1, <1>2 DEF Seen
<1>5. h + 16 \notin DOMAIN AbsRun /\ DOMAIN AbsRun' = DOMAIN AbsRun \cup {h + 16}
  <2>1. DOMAIN AbsRun = {g + 16 : g \in UsedOf(mem)}
    BY <1>1 DEF Seen
  <2>2. DOMAIN AbsRun' = {g + 16 : g \in UsedOf(mem')}
    BY <1>1 DEF Seen
  <2> QED
    BY <1>2, <1>4, <2>1, <2>2
<1>6. ASSUME NEW a \in DOMAIN AbsRun
      PROVE  AbsRun'[a] = AbsRun[a]
  <2>1. PICK g \in UsedOf(mem) : a = g + 16
    BY <1>1 DEF Seen
  <2>2. g \in UsedOf(mem') /\ g # h
    BY <1>2, <2>1
  <2>3. RunSeen(mem', held', g) = RunSeen(mem, held, g)
    BY <1>2, <1>3, <2>1, <2>2 DEF RunSeen
  <2> QED
    BY <1>1, <2>1, <2>2, <2>3 DEF Seen
<1>7. /\ ~ AbsRun'[h + 16].back /\ AbsRun'[h + 16].room = mem'.hdr[h].size - 16
      /\ h \in DOMAIN held'
  BY <1>1, <1>2, <1>3 DEF Seen
<1>8. Contract!Placed(h + 16)
  BY <1>2, <1>3, <1>7, PlacedFollows
<1>9. liveBytes' = liveBytes + AbsRun'[h + 16].room
  BY <1>3, <1>7
<1>10. Contract!Take(h + 16)
  BY <1>3, <1>5, <1>6, <1>7, <1>8, <1>9 DEF Contract!Take, AbsRun
<1> QED
  BY <1>5, <1>10 DEF Contract!Next, AbsRun

(* What the contract sees when a run goes back.                            *)
LEMMA ReleaseSeen ==
  ASSUME IInv, IInv', NEW h \in UsedOf(mem), Released(mem, mem', h),
         \A x : x # h => (x \in DOMAIN held' <=> x \in DOMAIN held),
         \A x \in DOMAIN held' : held'[x] = held[x]
  PROVE  /\ h + 16 \in DOMAIN AbsRun
         /\ AbsRun[h + 16].back = (h \notin DOMAIN held)
         /\ AbsRun[h + 16].room = mem.hdr[h].size - 16
         /\ AbsRun' = [a \in DOMAIN AbsRun \ {h + 16} |-> AbsRun[a]]
<1>1. Seen(mem, held, AbsRun) /\ Seen(mem', held', AbsRun')
  BY NowSeen, NextSeen
<1>2. /\ UsedOf(mem') = UsedOf(mem) \ {h}
      /\ \A g \in UsedOf(mem') : mem'.hdr[g].size = mem.hdr[g].size
  BY DEF Released, SameBut
<1>3. \A g \in UsedOf(mem) : g \in Nat
  BY <1>1 DEF Seen
<1>4. DOMAIN AbsRun' = DOMAIN AbsRun \ {h + 16}
  <2>1. DOMAIN AbsRun = {g + 16 : g \in UsedOf(mem)}
    BY <1>1 DEF Seen
  <2>2. DOMAIN AbsRun' = {g + 16 : g \in UsedOf(mem')}
    BY <1>1 DEF Seen
  <2> QED
    BY <1>2, <1>3, <2>1, <2>2
<1>5. ASSUME NEW a \in DOMAIN AbsRun'
      PROVE  AbsRun'[a] = AbsRun[a]
  <2>1. PICK g \in UsedOf(mem') : a = g + 16
    BY <1>1 DEF Seen
  <2>2. g \in UsedOf(mem) /\ g # h
    BY <1>2, <2>1
  <2>3. RunSeen(mem', held', g) = RunSeen(mem, held, g)
    BY <1>2, <2>1, <2>2 DEF RunSeen
  <2> QED
    BY <1>1, <2>1, <2>2, <2>3 DEF Seen
<1>6. AbsRun' = [a \in DOMAIN AbsRun' |-> AbsRun'[a]]
  BY DEF AbsRun
<1>7. AbsRun' = [a \in DOMAIN AbsRun \ {h + 16} |-> AbsRun[a]]
  BY <1>4, <1>5, <1>6
<1> QED
  BY <1>1, <1>7 DEF Seen

LEMMA DeallocateFrees ==
  ASSUME IInv, IInv', NEW h \in DOMAIN held, Deallocate(h), Released(mem, mem', h)
  PROVE  Contract!Next
<1>1. h \in UsedOf(mem)
  BY DEF IInv, RunsInv
<1>2. /\ held' = [x \in (DOMAIN held) \ {h} |-> held[x]] /\ chunks' = chunks
      /\ liveBytes' = liveBytes - (mem.hdr[h].size - 16)
  BY DEF Deallocate, Drop, Restrict, growth, Payload, HeaderSize, hdr
<1>3. /\ h + 16 \in DOMAIN AbsRun
      /\ AbsRun[h + 16].back = (h \notin DOMAIN held)
      /\ AbsRun[h + 16].room = mem.hdr[h].size - 16
      /\ AbsRun' = [a \in DOMAIN AbsRun \ {h + 16} |-> AbsRun[a]]
  BY <1>1, <1>2, ReleaseSeen
<1>4. Contract!FreeHere(h + 16)
  BY <1>2, <1>3 DEF Contract!FreeHere, Contract!Others, AbsRun
<1> QED
  BY <1>3, <1>4 DEF Contract!Next, AbsRun

LEMMA ReplayReclaims ==
  ASSUME IInv, IInv', NEW h \in walk, Replay(h), Released(mem, mem', h)
  PROVE  Contract!Next
<1>1. h \in UsedOf(mem) /\ h \notin DOMAIN held
  BY DEF IInv, RunsInv
<1>2. held' = held /\ chunks' = chunks /\ liveBytes' = liveBytes - (mem.hdr[h].size - 16)
  BY DEF Replay, growth, Payload, HeaderSize, hdr
<1>3. /\ h + 16 \in DOMAIN AbsRun
      /\ AbsRun[h + 16].back = (h \notin DOMAIN held)
      /\ AbsRun[h + 16].room = mem.hdr[h].size - 16
      /\ AbsRun' = [a \in DOMAIN AbsRun \ {h + 16} |-> AbsRun[a]]
  BY <1>1, <1>2, ReleaseSeen
<1>4. Contract!Reclaim(h + 16)
  BY <1>1, <1>2, <1>3 DEF Contract!Reclaim, Contract!Others, AbsRun
<1> QED
  BY <1>3, <1>4 DEF Contract!Next, AbsRun

LEMMA RemotePushFrees ==
  ASSUME IInv, IInv', NEW h \in DOMAIN held, RemotePush(h)
  PROVE  Contract!Next
<1>1. Seen(mem, held, AbsRun) /\ Seen(mem', held', AbsRun')
  BY NowSeen, NextSeen
<1>2. /\ held' = [x \in (DOMAIN held) \ {h} |-> held[x]] /\ mem' = mem /\ chunks' = chunks
      /\ liveBytes' = liveBytes
  BY DEF RemotePush, Drop, Restrict, growth
<1>3. h \in UsedOf(mem)
  BY DEF IInv, RunsInv
<1>4. /\ h + 16 \in DOMAIN AbsRun /\ DOMAIN AbsRun' = DOMAIN AbsRun
      /\ ~ AbsRun[h + 16].back
      /\ AbsRun[h + 16] = RunSeen(mem, held, h)
      /\ AbsRun'[h + 16] = RunSeen(mem, held', h)
  BY <1>1, <1>2, <1>3 DEF Seen
<1>5. AbsRun'[h + 16] = [room |-> AbsRun[h + 16].room, asked |-> 0, back |-> TRUE]
  <2>1. h \notin DOMAIN held' /\ (h \notin DOMAIN held') = TRUE
    BY <1>2
  <2>2. AbsRun[h + 16].room = Payload(mem.hdr[h].size)
    BY <1>4 DEF RunSeen
  <2>3. RunSeen(mem, held', h) = [room |-> Payload(mem.hdr[h].size), asked |-> 0, back |-> TRUE]
    BY <2>1, Zenon DEF RunSeen
  <2> QED
    BY <1>4, <2>2, <2>3, Zenon
<1>6. ASSUME NEW a \in DOMAIN AbsRun, a # h + 16
      PROVE  AbsRun'[a] = AbsRun[a]
  <2>1. PICK g \in UsedOf(mem) : a = g + 16
    BY <1>1 DEF Seen
  <2>2. g # h
    BY <1>6, <2>1
  <2>3. RunSeen(mem, held', g) = RunSeen(mem, held, g)
    BY <1>2, <2>2 DEF RunSeen
  <2>4. AbsRun[g + 16] = RunSeen(mem, held, g)
    BY <1>1, <2>1, Zenon DEF Seen
  <2>5. AbsRun'[g + 16] = RunSeen(mem', held', g)
    BY <1>1, <1>2, <2>1, Zenon DEF Seen
  <2>6. RunSeen(mem', held', g) = RunSeen(mem, held', g)
    BY <1>2, Zenon
  <2> QED
    BY <2>1, <2>3, <2>4, <2>5, <2>6, Zenon
<1>7. AbsRun' = [a \in DOMAIN AbsRun' |-> AbsRun'[a]]
  BY DEF AbsRun
<1> DEFINE back == [room |-> AbsRun[h + 16].room, asked |-> 0, back |-> TRUE]
<1>8. AbsRun' = [AbsRun EXCEPT ![h + 16] = back]
  <2>1. AbsRun'[h + 16] = back
    BY <1>5
  <2> HIDE DEF back
  <2>2. AbsRun = [a \in DOMAIN AbsRun |-> AbsRun[a]]
    BY DEF AbsRun
  <2> QED
    BY <1>4, <1>6, <1>7, <2>1, <2>2
<1>9. Contract!FreeElsewhere(h + 16)
  BY <1>2, <1>4, <1>8 DEF Contract!FreeElsewhere, AbsRun
<1> QED
  BY <1>4, <1>9 DEF Contract!Next, AbsRun

LEMMA ExpandWidens ==
  ASSUME IInv, IInv', NEW h \in DOMAIN held, NEW b \in Requests, Expand(h, b),
         NEW needed, Widened(mem, mem', h, needed)
  PROVE  Contract!Next
<1>1. Seen(mem, held, AbsRun) /\ Seen(mem', held', AbsRun')
  BY NowSeen, NextSeen
<1>2. /\ held' = [held EXCEPT ![h] = b] /\ chunks' = chunks
      /\ liveBytes' = liveBytes + mem'.hdr[h].size - mem.hdr[h].size
      /\ b > mem.hdr[h].size - 16
  BY DEF Expand, ExpandFits, growth, Payload, HeaderSize, hdr
<1>3. h \in UsedOf(mem) /\ h \in DOMAIN held' /\ held'[h] = b
  BY <1>2 DEF IInv, RunsInv
<1>4. /\ UsedOf(mem') = UsedOf(mem) /\ SameBut(mem, mem', h)
      /\ \A g \in UsedOf(mem) \ {h} : mem'.hdr[g].size = mem.hdr[g].size
      /\ mem'.hdr[h].size \in Nat
  BY DEF Widened, SameBut
<1>5. /\ h + 16 \in DOMAIN AbsRun /\ DOMAIN AbsRun' = DOMAIN AbsRun
      /\ ~ AbsRun[h + 16].back /\ ~ AbsRun'[h + 16].back
      /\ AbsRun[h + 16].room = mem.hdr[h].size - 16
      /\ AbsRun'[h + 16].room = mem'.hdr[h].size - 16
      /\ AbsRun'[h + 16].asked = b
  BY <1>1, <1>3, <1>4 DEF Seen
<1>6. ASSUME NEW a \in DOMAIN AbsRun, a # h + 16
      PROVE  AbsRun'[a] = AbsRun[a]
  <2>1. PICK g \in UsedOf(mem) : a = g + 16
    BY <1>1 DEF Seen
  <2>2. g # h
    BY <1>6, <2>1
  <2>3. RunSeen(mem', held', g) = RunSeen(mem, held, g)
    BY <1>2, <1>4, <2>1, <2>2 DEF RunSeen
  <2> QED
    BY <1>1, <1>4, <2>1, <2>3 DEF Seen
<1>7. /\ AbsRun' = [a \in DOMAIN AbsRun' |-> AbsRun'[a]]
      /\ AbsRun = [a \in DOMAIN AbsRun |-> AbsRun[a]]
  BY DEF AbsRun
<1>8. AbsRun' = [AbsRun EXCEPT ![h + 16] = AbsRun'[h + 16]]
  BY <1>5, <1>6, <1>7
<1>9. Contract!Placed(h + 16)
  BY <1>2, <1>3, <1>4, PlacedFollows
<1>10. liveBytes' = liveBytes + AbsRun'[h + 16].room - AbsRun[h + 16].room
  <2>1. mem.hdr[h].size \in Nat /\ liveBytes \in Nat
    BY <1>3, InvTypes DEF Ruled
  <2> QED
    BY <1>2, <1>4, <1>5, <2>1
<1>11. Contract!Widen(h + 16)
  BY <1>2, <1>5, <1>8, <1>9, <1>10 DEF Contract!Widen, AbsRun
<1> QED
  BY <1>5, <1>11 DEF Contract!Next, AbsRun

(* Steps that leave every run alone.                                       *)
LEMMA RunsUnseen ==
  ASSUME IInv, IInv', held' = held, UsedOf(mem') = UsedOf(mem),
         \A h \in UsedOf(mem) : mem'.hdr[h] = mem.hdr[h]
  PROVE  AbsRun' = AbsRun
<1>1. Seen(mem, held, AbsRun) /\ Seen(mem', held', AbsRun')
  BY NowSeen, NextSeen
<1>2. \A h \in UsedOf(mem) : RunSeen(mem', held', h) = RunSeen(mem, held, h)
  BY DEF RunSeen
<1>3. DOMAIN AbsRun' = DOMAIN AbsRun
  BY <1>1 DEF Seen
<1>4. ASSUME NEW a \in DOMAIN AbsRun
      PROVE  AbsRun'[a] = AbsRun[a]
  <2>1. PICK g \in UsedOf(mem) : a = g + 16
    BY <1>1 DEF Seen
  <2> QED
    BY <1>1, <1>2, <2>1 DEF Seen
<1>5. /\ AbsRun' = [a \in DOMAIN AbsRun' |-> AbsRun'[a]]
      /\ AbsRun = [a \in DOMAIN AbsRun |-> AbsRun[a]]
  BY DEF AbsRun
<1> QED
  BY <1>3, <1>4, <1>5

LEMMA ChunkSeen ==
  ASSUME IInv, IInv', NEW bytes \in Nat, AddOwnedChunk(bytes),
         UNCHANGED <<liveBytes, held, remote, walk>>
  PROVE  Contract!Next
<1> DEFINE c == NewChunk(top, ChunkBytesFor(bytes))
<1>1. ChunkAdded(mem, mem', chunks, top, ChunkBytesFor(bytes))
  BY ChunkInv
<1>2. c \notin chunks /\ chunks' = chunks \cup {c} /\ ChunksApart(chunks', top')
  BY <1>1 DEF AddOwnedChunk, ChunkAdded, NewChunk, IInv, MemoryInv, Sound
<1>3. AbsRun' = AbsRun
  BY <1>1, RunsUnseen DEF ChunkAdded
<1> HIDE DEF c
<1>4. \A d \in chunks : c.begin + c.bytes <= d.begin \/ d.begin + d.bytes <= c.begin
  BY <1>2 DEF ChunksApart
<1>5. Contract!AddChunk
  BY <1>2, <1>3, <1>4 DEF Contract!AddChunk, AbsRun
<1> QED
  BY <1>5 DEF Contract!Next

LEMMA QuietSteps ==
  ASSUME IInv, IInv', UNCHANGED <<mem, chunks, held, liveBytes>>
  PROVE  UNCHANGED Contract!vars
<1>1. AbsRun' = AbsRun
  BY RunsUnseen
<1> QED
  BY <1>1 DEF Contract!vars, AbsRun

LEMMA RunnerContractInit == Init => Contract!Init
<1> SUFFICES ASSUME Init PROVE Contract!Init
  OBVIOUS
<1>1. DOMAIN held = {} /\ remote = {} /\ walk = {} /\ liveBytes = 0
  BY DEF Init
<1>2. AbsRun = [a \in {} |-> 0]
  BY <1>1 DEF AbsRun
<1> QED
  BY <1>1, <1>2 DEF Contract!Init, AbsRun

LEMMA RunnerContractStep == IInv /\ IInv' /\ [Next]_vars => [Contract!Next]_(Contract!vars)
<1> SUFFICES ASSUME IInv, IInv', [Next]_vars
             PROVE  Contract!Next \/ UNCHANGED Contract!vars
  OBVIOUS
<1>1. ASSUME NEW b \in Requests, AllocateHit(b) PROVE Contract!Next
  <2>1. PICK h \in Fits(Needed(b)) : Grant(h, b)
    BY <1>1 DEF AllocateHit
  <2>2. Normalizes(AtLeastOne(b)) /\ walk = {}
    BY <1>1 DEF AllocateHit, IInv, CallInv
  <2>3. Granted(mem, mem', h, Needed(b))
    BY <2>1, <2>2, GrantInv
  <2> QED
    BY <2>1, <2>3, GrantTakes
<1>2. ASSUME Refit PROVE Contract!Next
  <2>1. PICK h \in Fits(Needed(asked)) : Grant(h, asked)
    BY <1>2 DEF Refit
  <2>2. asked \in Requests /\ Normalizes(AtLeastOne(asked)) /\ walk = {}
    BY <1>2 DEF Refit, IInv, CallInv
  <2>3. Granted(mem, mem', h, Needed(asked))
    BY <2>1, <2>2, GrantInv
  <2> QED
    BY <2>1, <2>3, GrantTakes
<1>3. ASSUME \/ \E b \in Requests : AllocateMiss(b)
             \/ DrainExchange \/ RefitMiss \/ AllocateFails \/ UNCHANGED vars
      PROVE  UNCHANGED Contract!vars
  <2>1. UNCHANGED <<mem, chunks, held, liveBytes>>
    BY <1>3 DEF AllocateMiss, DrainExchange, RefitMiss, AllocateFails, vars, growth
  <2> QED
    BY <2>1, QuietSteps
<1>4. ASSUME FirstChunk PROVE Contract!Next
  <2>1. deferred \in Nat /\ AddOwnedChunk(deferred) /\ UNCHANGED <<liveBytes, held, remote, walk>>
    BY <1>4 DEF FirstChunk, IInv, CallInv
  <2> QED
    BY <2>1, ChunkSeen
<1>5. ASSUME Grow PROVE Contract!Next
  <2> DEFINE bytes == GrowthFor(Needed(asked))
  <2>1. bytes \in Nat
    <3>1. Needed(asked) \in Nat /\ nextGrowth \in Nat
      BY <1>5, NeededBytes DEF Grow, IInv, CallInv, Sixteens
    <3>2. Needed(asked) + MinChunkBytes \in Nat
      BY <3>1 DEF MinChunkBytes, MinFreeRunSize, EpilogueSize
    <3> QED
      BY <3>1, <3>2, MaxOfTwo DEF GrowthFor
  <2>2. AddOwnedChunk(bytes) /\ UNCHANGED <<liveBytes, held, remote, walk>>
    BY <1>5 DEF Grow
  <2> HIDE DEF bytes
  <2> QED
    BY <2>1, <2>2, ChunkSeen
<1>6. ASSUME NEW h \in walk, Replay(h) PROVE Contract!Next
  BY <1>6, ReplayInv, ReplayReclaims
<1>7. ASSUME NEW h \in DOMAIN held, Deallocate(h) PROVE Contract!Next
  BY <1>7, DeallocateInv, DeallocateFrees
<1>8. ASSUME NEW h \in DOMAIN held, RemotePush(h) PROVE Contract!Next
  BY <1>8, RemotePushFrees
<1>9. ASSUME NEW h \in DOMAIN held, NEW b \in Requests, Expand(h, b) PROVE Contract!Next
  <2>1. PICK needed \in Nat : Widened(mem, mem', h, needed)
    BY <1>9, ExpandInv
  <2> QED
    BY <1>9, <2>1, ExpandWidens
<1> QED
  BY <1>1, <1>2, <1>3, <1>4, <1>5, <1>6, <1>7, <1>8, <1>9 DEF Next, OwnerContinues

(* Headers, footers, bins, replays and growth keep the contract: a run     *)
(* stays where it was granted, large enough and apart from every other,    *)
(* until it is freed or its remote free is replayed, and live_bytes is     *)
(* exact.                                                                  *)
THEOREM RunnerImplementsContract == Spec => ContractSpec
<1>1. IInv /\ [Next]_vars => IInv'
  BY NextInv
<1>2. IInv /\ IInv' /\ [Next]_vars => [Contract!Next]_(Contract!vars)
  BY RunnerContractStep
<1> QED
  BY <1>1, <1>2, RunnerContractInit, Invariance, PTL DEF Spec, ContractSpec, Contract!Spec
=============================================================================

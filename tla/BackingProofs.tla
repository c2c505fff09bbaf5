--------------------------- MODULE BackingProofs ---------------------------
(***************************************************************************)
(* Proofs about Backing: memory is given back once and the way it was      *)
(* obtained, and the arithmetic of a headered chunk agrees with itself,    *)
(* for any objects, types, page sizes and requests.                        *)
(*                                                                         *)
(* The invariant names, for each object that has memory, the region of the *)
(* heap it stands for.  It says that the region is there as the object     *)
(* would give it back, that no two objects stand for one region, and that  *)
(* every region has an object; regions do not overlap, so an address tells *)
(* a region, and what is written into one stays out of the others.         *)
(*                                                                         *)
(* The first part is about the layout of headered chunks (GranuleLayout)   *)
(* alone, for every node size, header offset, granule size and count.      *)
(* Divisions are kept out of the arithmetic: the lemmas name quotients and *)
(* remainders, which the proofs pick and then calculate with.              *)
(***************************************************************************)
EXTENDS Backing, FiniteSetTheorems, TLAPS

(* What a division and its remainder say of a number.                      *)
LEMMA Divides ==
  ASSUME NEW n \in Nat \ {0}, NEW a \in Int
  PROVE  \E q \in Int, r \in 0 .. n - 1 :
           /\ a \div n = q /\ a % n = r
           /\ a = q * n + r
           /\ a >= 0 => q >= 0
<1>1. /\ a \div n \in Int /\ a % n \in 0 .. n - 1
      /\ a = (a \div n) * n + (a % n)
      /\ a >= 0 => a \div n >= 0
  OBVIOUS
<1> QED
  BY <1>1, Zenon

(* They are the only such pair.                                            *)
LEMMA DividesUniquely ==
  ASSUME NEW n \in Nat \ {0}, NEW a \in Int, NEW q \in Int, NEW r \in 0 .. n - 1,
         a = q * n + r
  PROVE  a \div n = q /\ a % n = r
  OBVIOUS

(* Larger factors make larger products.                                    *)
LEMMA ProductGrows ==
  ASSUME NEW n \in Nat, NEW p \in Int, NEW q \in Int, p < q
  PROVE  p * n + n <= q * n
  OBVIOUS

LEMMA ProductType ==
  /\ \A p \in Int, n \in Int : p * n \in Int
  /\ \A p \in Nat, n \in Nat : p * n \in Nat
  OBVIOUS

LEMMA LayoutFields ==
  ASSUME NEW L \in Layouts
  PROVE  /\ L.node \in Nat \ {0} /\ L.offset \in Nat \ {0} /\ L.granule \in Nat \ {0}
         /\ L.offset + L.node <= L.granule
  BY DEF Layouts

(* nodes_per_granule: at least one node fits, and all that are counted do. *)
LEMMA NodesFit ==
  ASSUME NEW L \in Layouts
  PROVE  \E n \in Nat \ {0} : /\ NodesPerGranule(L) = n
                              /\ L.offset + n * L.node <= L.granule
<1>1. /\ L.node \in Nat \ {0} /\ L.offset \in Nat \ {0} /\ L.granule \in Nat \ {0}
      /\ L.granule - L.offset \in Int /\ L.granule - L.offset >= L.node
  BY LayoutFields
<1>2. PICK n \in Int, r \in 0 .. L.node - 1 :
         /\ (L.granule - L.offset) \div L.node = n
         /\ L.granule - L.offset = n * L.node + r
         /\ L.granule - L.offset >= 0 => n >= 0
  BY <1>1, Divides
<1>3. n # 0 /\ n >= 0
  BY <1>1, <1>2
<1>4. L.offset + n * L.node <= L.granule
  BY <1>1, <1>2, ProductType
<1> QED
  BY <1>2, <1>3, <1>4 DEF NodesPerGranule

(* Slot i is node k of granule q, w bytes into it, of n nodes a granule.   *)
Seat(L, n, i, q, k, w) ==
  /\ i \div n = q /\ i % n = k /\ i = q * n + k
  /\ w = L.offset + k * L.node /\ w + L.node <= L.granule
  /\ At(L, i) = q * L.granule + w

(* Node i is number k of granule q, whole and behind the header.           *)
LEMMA AtPlace ==
  ASSUME NEW L \in Layouts, NEW i \in Nat,
         NEW n \in Nat \ {0}, NodesPerGranule(L) = n,
         L.offset + n * L.node <= L.granule
  PROVE  \E q \in Nat, k \in 0 .. n - 1, w \in L.offset .. L.granule - 1 :
           Seat(L, n, i, q, k, w)
<1>1. L.node \in Nat \ {0} /\ L.offset \in Nat \ {0} /\ L.granule \in Nat \ {0}
  BY LayoutFields
<1>2. PICK q \in Int, k \in 0 .. n - 1 :
         i \div n = q /\ i % n = k /\ i = q * n + k /\ (i >= 0 => q >= 0)
  BY Divides
<1>3. q \in Nat /\ k \in Nat /\ k < n
  BY <1>2
<1>4. k * L.node + L.node <= n * L.node
  BY <1>1, <1>3, ProductGrows
<1>5. k * L.node \in Nat /\ n * L.node \in Nat /\ q * L.granule \in Nat
  BY <1>1, <1>3, ProductType
<1>6. PICK w \in Int : w = L.offset + k * L.node
  BY <1>1, <1>5
<1>7. w \in L.offset .. L.granule - 1 /\ w + L.node <= L.granule
  BY <1>1, <1>4, <1>5, <1>6
<1>8. At(L, i) = q * L.granule + L.offset + k * L.node
  BY <1>2 DEF At
<1>9. At(L, i) = q * L.granule + w
  BY <1>1, <1>5, <1>6, <1>8
<1> QED
  BY <1>2, <1>3, <1>6, <1>7, <1>9 DEF Seat

(* contains() accepts exactly the addresses that at() gives for the slots  *)
(* below count: no header byte, no gap, no misaligned address and no slot  *)
(* of the unseeded tail of the last granule.                               *)
THEOREM ContainsExactlyTheSlots ==
  ASSUME NEW L \in Layouts, NEW count \in Nat, NEW delta \in Int
  PROVE  Contains(L, count, delta) <=> \E i \in 0 .. count - 1 : delta = At(L, i)
<1>1. L.node \in Nat \ {0} /\ L.offset \in Nat \ {0} /\ L.granule \in Nat \ {0}
  BY LayoutFields
<1>2. PICK n \in Nat \ {0} : NodesPerGranule(L) = n /\ L.offset + n * L.node <= L.granule
  BY NodesFit
<1>3. ASSUME Contains(L, count, delta)
      PROVE  \E i \in 0 .. count - 1 : delta = At(L, i)
  <2>1. PICK q \in Int, offset \in 0 .. L.granule - 1 :
           /\ delta \div L.granule = q /\ delta % L.granule = offset
           /\ delta = q * L.granule + offset /\ (delta >= 0 => q >= 0)
    BY <1>1, Divides
  <2>2. PICK k \in Int, r \in 0 .. L.node - 1 :
           /\ (offset - L.offset) \div L.node = k /\ (offset - L.offset) % L.node = r
           /\ offset - L.offset = k * L.node + r
           /\ offset - L.offset >= 0 => k >= 0
    <3>1. offset - L.offset \in Int
      BY <1>1
    <3> QED
      BY <1>1, <3>1, Divides
  <2>3. /\ delta >= 0 /\ offset >= L.offset /\ r = 0
        /\ k < n /\ q * n + k < count
    BY <1>2, <1>3, <2>1, <2>2 DEF Contains
  <2>4. q \in Nat /\ k \in 0 .. n - 1
    BY <1>1, <2>1, <2>2, <2>3
  <2>5. PICK i \in Nat : i = q * n + k
    BY <2>4, ProductType
  <2>6. i \div n = q /\ i % n = k
    BY <2>4, <2>5, DividesUniquely
  <2>7. At(L, i) = q * L.granule + L.offset + k * L.node
    BY <1>2, <2>6 DEF At
  <2>8. offset = L.offset + k * L.node
    BY <1>1, <2>2, <2>3, <2>4, ProductType
  <2>9. delta = At(L, i)
    <3>1. PICK a \in Int, c \in Int : a = q * L.granule /\ c = k * L.node
      BY <1>1, <2>4, ProductType
    <3>2. offset = L.offset + c /\ delta = a + offset /\ At(L, i) = a + L.offset + c
      BY <2>1, <2>7, <2>8, <3>1
    <3> QED
      BY <1>1, <3>1, <3>2
  <2> QED
    BY <2>3, <2>5, <2>9
<1>4. ASSUME NEW i \in 0 .. count - 1, delta = At(L, i)
      PROVE  Contains(L, count, delta)
  <2>1. PICK q \in Nat, k \in 0 .. n - 1, w \in L.offset .. L.granule - 1 :
           /\ i = q * n + k
           /\ w = L.offset + k * L.node /\ delta = q * L.granule + w
    <3>1. \E q \in Nat, k \in 0 .. n - 1, w \in L.offset .. L.granule - 1 :
             Seat(L, n, i, q, k, w)
      BY <1>2, AtPlace
    <3> QED
      BY <1>4, <3>1 DEF Seat
  <2>2. delta \div L.granule = q /\ delta % L.granule = w
    <3>1. w \in 0 .. L.granule - 1 /\ q \in Int
      BY <1>1
    <3>2. delta = q * L.granule + w
      BY <2>1
    <3> QED
      BY <1>1, <3>1, <3>2, DividesUniquely
  <2>3. (w - L.offset) \div L.node = k /\ (w - L.offset) % L.node = 0
    <3>1. k \in Int /\ 0 \in 0 .. L.node - 1
      BY <1>1
    <3>2. k * L.node \in Int
      BY <1>1, <3>1, ProductType
    <3>3. w - L.offset \in Int /\ w - L.offset = k * L.node + 0
      BY <1>1, <2>1, <3>2
    <3>4. PICK z \in 0 .. L.node - 1 : z = 0
      BY <3>1
    <3>5. PICK d \in Int : d = w - L.offset /\ d = k * L.node + z
      BY <3>3, <3>4
    <3>6. d \div L.node = k /\ d % L.node = z
      BY <1>1, <3>1, <3>5, DividesUniquely
    <3> QED
      BY <3>4, <3>5, <3>6
  <2>4. PICK all \in Int, r \in 0 .. n - 1 :
           /\ (count + n - 1) \div n = all
           /\ count + n - 1 = all * n + r
    <3>1. count + n - 1 \in Int
      OBVIOUS
    <3> QED
      BY <3>1, Divides
  <2>5. GranuleCount(L, count) = all
    BY <1>2, <2>4 DEF GranuleCount
  <2>6. q < all
    <3>1. all * n > q * n
      BY <2>1, <2>4, ProductType
    <3>2. ASSUME all < q PROVE FALSE
      BY <3>1, <3>2, ProductGrows, ProductType
    <3> QED
      BY <3>1, <3>2
  <2>7. delta < all * L.granule /\ delta >= 0
    <3>1. q * L.granule + L.granule <= all * L.granule
      BY <1>1, <2>6, ProductGrows
    <3>2. q * L.granule \in Nat /\ all * L.granule \in Int
      BY <1>1, ProductType
    <3> QED
      BY <1>1, <2>1, <3>1, <3>2
  <2>8. w >= L.offset /\ k < n /\ q * n + k < count
    BY <1>1, <2>1
  <2> QED
    BY <1>2, <2>2, <2>3, <2>5, <2>7, <2>8 DEF Contains
<1> QED
  BY <1>3, <1>4

(* Masking any byte of a node finds the header of the node's granule,      *)
(* wherever a chunk begins on a granule boundary; the node lies behind it. *)
THEOREM MaskFindsHeader ==
  ASSUME NEW L \in Layouts, NEW i \in Nat, NEW base \in Int,
         NEW m \in Int, base = m * L.granule,
         NEW b \in At(L, i) .. At(L, i) + L.node - 1
  PROVE  LET header == base + (i \div NodesPerGranule(L)) * L.granule
         IN  /\ HeaderOf(L.granule, base + b) = header
             /\ header + L.offset <= base + At(L, i)
<1>1. L.node \in Nat \ {0} /\ L.offset \in Nat \ {0} /\ L.granule \in Nat \ {0}
  BY LayoutFields
<1>2. PICK n \in Nat \ {0} : NodesPerGranule(L) = n /\ L.offset + n * L.node <= L.granule
  BY NodesFit
<1>3. PICK q \in Nat, k \in 0 .. n - 1, w \in L.offset .. L.granule - 1 :
         /\ i \div n = q /\ i % n = k /\ i = q * n + k
         /\ w = L.offset + k * L.node /\ w + L.node <= L.granule
         /\ At(L, i) = q * L.granule + w
  <2>1. \E q \in Nat, k \in 0 .. n - 1, w \in L.offset .. L.granule - 1 :
           Seat(L, n, i, q, k, w)
    BY <1>2, AtPlace
  <2> QED
    BY <2>1 DEF Seat
<1>4. PICK h \in Int : h = q * L.granule
  BY <1>1, ProductType
<1>5. PICK r \in Int : b = h + r
  <2>1. At(L, i) = h + w /\ h + w \in Int /\ L.node \in Int
    BY <1>1, <1>3, <1>4
  <2>2. b \in Int
    BY <2>1
  <2>3. b - h \in Int /\ b = h + (b - h)
    BY <2>2
  <2> QED
    BY <2>3
<1>6. r \in 0 .. L.granule - 1
  BY <1>1, <1>3, <1>4, <1>5
<1>7. base + b = (m + q) * L.granule + r
  <2>1. (m + q) * L.granule = m * L.granule + q * L.granule
    BY <1>1
  <2> QED
    BY <1>1, <1>4, <1>5, <2>1
<1>8. (base + b) % L.granule = r
  <2>1. base + b \in Int /\ m + q \in Int
    BY <1>4, <1>5
  <2> QED
    BY <1>1, <1>6, <1>7, <2>1, DividesUniquely
<1>9. HeaderOf(L.granule, base + b) = base + h
  BY <1>4, <1>5, <1>8 DEF HeaderOf
<1>10. base + h + L.offset <= base + At(L, i)
  BY <1>1, <1>3, <1>4
<1> QED
  BY <1>2, <1>3, <1>4, <1>9, <1>10

(* No node reaches into the next.                                          *)
THEOREM NodesApart ==
  ASSUME NEW L \in Layouts, NEW i \in Nat, NEW j \in Nat, i < j
  PROVE  At(L, i) + L.node <= At(L, j)
<1>1. L.node \in Nat \ {0} /\ L.offset \in Nat \ {0} /\ L.granule \in Nat \ {0}
  BY LayoutFields
<1>2. PICK n \in Nat \ {0} : NodesPerGranule(L) = n /\ L.offset + n * L.node <= L.granule
  BY NodesFit
<1>3. PICK q \in Nat, k \in 0 .. n - 1, w \in L.offset .. L.granule - 1 :
         /\ i \div n = q /\ i % n = k /\ i = q * n + k
         /\ w = L.offset + k * L.node /\ w + L.node <= L.granule
         /\ At(L, i) = q * L.granule + w
  <2>1. \E q \in Nat, k \in 0 .. n - 1, w \in L.offset .. L.granule - 1 :
           Seat(L, n, i, q, k, w)
    BY <1>2, AtPlace
  <2> QED
    BY <2>1 DEF Seat
<1>4. PICK p \in Nat, l \in 0 .. n - 1, v \in L.offset .. L.granule - 1 :
         /\ j \div n = p /\ j % n = l /\ j = p * n + l
         /\ v = L.offset + l * L.node /\ v + L.node <= L.granule
         /\ At(L, j) = p * L.granule + v
  <2>1. \E p \in Nat, l \in 0 .. n - 1, v \in L.offset .. L.granule - 1 :
           Seat(L, n, j, p, l, v)
    BY <1>2, AtPlace
  <2> QED
    BY <2>1 DEF Seat
<1>5. ASSUME p < q PROVE FALSE
  <2>1. p * n + n <= q * n
    BY <1>5, ProductGrows
  <2> QED
    BY <1>3, <1>4, <2>1, ProductType
<1>6. CASE p = q
  <2>1. k < l
    BY <1>3, <1>4, <1>6, ProductType
  <2>2. k * L.node + L.node <= l * L.node
    BY <1>1, <2>1, ProductGrows
  <2>3. w + L.node <= v
    <3>1. k * L.node \in Int /\ l * L.node \in Int
      BY <1>1, ProductType
    <3> QED
      BY <1>1, <1>3, <1>4, <2>2, <3>1
  <2>4. q * L.granule \in Int
    BY <1>1, ProductType
  <2> QED
    BY <1>1, <1>3, <1>4, <1>6, <2>3, <2>4
<1>7. CASE q < p
  <2>1. q * L.granule + L.granule <= p * L.granule
    BY <1>1, <1>7, ProductGrows
  <2>2. q * L.granule \in Int /\ p * L.granule \in Int
    BY <1>1, ProductType
  <2> QED
    BY <1>1, <1>3, <1>4, <2>1, <2>2
<1> QED
  BY <1>5, <1>6, <1>7

-----------------------------------------------------------------------------
(* A chunk of a given number of slots.                                     *)

(* There are enough granules for all slots.                                *)
LEMMA GranulesSuffice ==
  ASSUME NEW L \in Layouts, NEW count \in Nat \ {0}
  PROVE  \E n \in Nat \ {0}, G \in Nat \ {0} :
           /\ NodesPerGranule(L) = n /\ L.offset + n * L.node <= L.granule
           /\ GranuleCount(L, count) = G /\ count <= G * n
<1>1. PICK n \in Nat \ {0} : NodesPerGranule(L) = n /\ L.offset + n * L.node <= L.granule
  BY NodesFit
<1>2. count + n - 1 \in Int
  OBVIOUS
<1>3. PICK G \in Int, r \in 0 .. n - 1 :
         /\ (count + n - 1) \div n = G /\ (count + n - 1) % n = r
         /\ count + n - 1 = G * n + r
         /\ count + n - 1 >= 0 => G >= 0
  BY <1>2, Divides
<1>4. G * n \in Int /\ G >= 0
  BY <1>3, ProductType
<1>5. count <= G * n
  BY <1>3, <1>4
<1>6. G # 0
  BY <1>3, <1>5
<1>7. GranuleCount(L, count) = G
  BY <1>1, <1>3 DEF GranuleCount
<1> QED
  BY <1>1, <1>4, <1>5, <1>6, <1>7

(* Every slot lies in a granule of the chunk.                              *)
LEMMA SlotsInside ==
  ASSUME NEW L \in Layouts, NEW count \in Nat \ {0}, NEW i \in Nat, i < count
  PROVE  /\ i \div NodesPerGranule(L) \in 0 .. GranuleCount(L, count) - 1
         /\ At(L, i) \in Nat
         /\ At(L, i) + L.node <= GranuleCount(L, count) * L.granule
<1>1. L.node \in Nat \ {0} /\ L.offset \in Nat \ {0} /\ L.granule \in Nat \ {0}
  BY LayoutFields
<1>2. PICK n \in Nat \ {0} : NodesPerGranule(L) = n /\ L.offset + n * L.node <= L.granule
  BY NodesFit
<1>3. PICK q \in Nat, k \in 0 .. n - 1, w \in L.offset .. L.granule - 1 :
         /\ i \div n = q /\ i % n = k /\ i = q * n + k
         /\ w = L.offset + k * L.node /\ w + L.node <= L.granule
         /\ At(L, i) = q * L.granule + w
  <2>1. \E q \in Nat, k \in 0 .. n - 1, w \in L.offset .. L.granule - 1 :
           Seat(L, n, i, q, k, w)
    BY <1>2, AtPlace
  <2> QED
    BY <2>1 DEF Seat
<1>4. PICK G \in Nat \ {0} : GranuleCount(L, count) = G /\ count <= G * n
  BY <1>2, GranulesSuffice
<1>5. q < G
  <2>1. SUFFICES ASSUME G <= q PROVE FALSE
    OBVIOUS
  <2>2. /\ q * n \in Nat /\ G * n \in Nat
    BY ProductType
  <2>3. G * n <= q * n
    <3>1. CASE G = q
      BY <3>1, <2>2
    <3>2. CASE G < q
      BY <3>2, <2>2, ProductGrows
    <3> QED
      BY <2>1, <3>1, <3>2
  <2> QED
    BY <1>4, <1>3, <2>2, <2>3
<1>6. q * L.granule \in Nat /\ G * L.granule \in Nat
  BY <1>1, ProductType
<1>7. q * L.granule + L.granule <= G * L.granule
  BY <1>1, <1>5, ProductGrows
<1>8. At(L, i) \in Nat /\ At(L, i) + L.node <= G * L.granule
  BY <1>1, <1>3, <1>6, <1>7
<1> QED
  BY <1>4, <1>2, <1>3, <1>5, <1>8

(* contains() accepts what at() returns.                                   *)
LEMMA ContainsSlots ==
  ASSUME NEW L \in Layouts, NEW count \in Nat \ {0}, NEW bytes \in Nat, NEW low \in Nat,
         bytes = GranuleCount(L, count) * L.granule
  PROVE  {b \in -low .. bytes + 2 * L.granule : Contains(L, count, b)}
           = {At(L, i) : i \in 0 .. count - 1}
<1>1. L.node \in Nat \ {0} /\ L.granule \in Nat \ {0}
  BY LayoutFields
<1>2. ASSUME NEW i \in 0 .. count - 1
      PROVE  At(L, i) \in -low .. bytes + 2 * L.granule /\ Contains(L, count, At(L, i))
  <2>1. At(L, i) \in Nat /\ At(L, i) + L.node <= bytes
    BY SlotsInside
  <2>2. At(L, i) \in Int
    BY <2>1
  <2>3. Contains(L, count, At(L, i))
    BY <2>2, ContainsExactlyTheSlots
  <2> QED
    BY <1>1, <2>1, <2>3
<1>3. ASSUME NEW b \in -low .. bytes + 2 * L.granule, Contains(L, count, b)
      PROVE  \E i \in 0 .. count - 1 : b = At(L, i)
  <2>1. b \in Int
    OBVIOUS
  <2> QED
    BY <1>3, <2>1, ContainsExactlyTheSlots
<1> QED
  BY <1>2, <1>3

(* Nodes do not share bytes.                                               *)
LEMMA SlotsApart ==
  ASSUME NEW L \in Layouts, NEW i \in Nat, NEW j \in Nat, i # j,
         At(L, i) \in Nat, At(L, j) \in Nat
  PROVE  (At(L, i) .. At(L, i) + L.node - 1) \cap (At(L, j) .. At(L, j) + L.node - 1) = {}
<1>1. L.node \in Nat
  BY LayoutFields
<1>2. CASE i < j
  <2>1. At(L, i) + L.node <= At(L, j)
    BY <1>2, NodesApart
  <2> QED
    BY <1>1, <2>1
<1>3. CASE j < i
  <2>1. At(L, j) + L.node <= At(L, i)
    BY <1>3, NodesApart
  <2> QED
    BY <1>1, <2>1
<1> QED
  BY <1>2, <1>3

(* The header of a slot's granule is what masking finds.                   *)
LEMMA SlotHeader ==
  ASSUME NEW L \in Layouts, L.offset >= GranuleHeaderBytes,
         NEW count \in Nat \ {0}, NEW i \in 0 .. count - 1,
         NEW m \in Nat, NEW base \in Nat, base = m * L.granule,
         NEW b \in At(L, i) .. At(L, i) + L.node - 1
  PROVE  /\ \E g \in 0 .. GranuleCount(L, count) - 1 :
              HeaderOf(L.granule, base + b) = base + g * L.granule
         /\ HeaderOf(L.granule, base + b) + GranuleHeaderBytes <= base + At(L, i)
<1>1. L.node \in Nat \ {0} /\ L.offset \in Nat \ {0} /\ L.granule \in Nat \ {0}
  BY LayoutFields
<1>2. i \in Nat /\ m \in Int /\ base \in Int
  OBVIOUS
<1>3. LET header == base + (i \div NodesPerGranule(L)) * L.granule
      IN  /\ HeaderOf(L.granule, base + b) = header
          /\ header + L.offset <= base + At(L, i)
  BY <1>2, MaskFindsHeader
<1>4. /\ i \div NodesPerGranule(L) \in 0 .. GranuleCount(L, count) - 1
      /\ At(L, i) \in Nat
  BY SlotsInside
<1>5. PICK g : g = i \div NodesPerGranule(L)
  OBVIOUS
<1>6. /\ g \in 0 .. GranuleCount(L, count) - 1
      /\ HeaderOf(L.granule, base + b) = base + g * L.granule
      /\ base + g * L.granule + L.offset <= base + At(L, i)
  BY <1>3, <1>4, <1>5, Zenon
<1>7. g \in Int
  BY <1>6
<1>8. g * L.granule \in Int
  BY <1>1, <1>7, ProductType
<1> QED
  BY <1>1, <1>4, <1>6, <1>8 DEF GranuleHeaderBytes

-----------------------------------------------------------------------------
(* The invariant.                                                          *)
Regions == [base : Nat, bytes : Nat \ {0}, align : Nat \ {0}, how : {"new", "mmap"}]
Memories == [base : Nat \cup {Null}, bytes : Nat, align : Nat]
ChunkObjects == [alive : BOOLEAN, count : Nat, align : Nat, nodes : Nat \cup {Null}]
ListObjects == [used : BOOLEAN, memory : Memories, external : BOOLEAN]

(* A property of the heap alone.                                           *)
HeapInv ==
  /\ heap \subseteq Regions
  /\ \A r, s \in heap : r # s => ~Overlaps(r, s.base, s.bytes)

(* What never changes.                                                     *)
ConfigInv ==
  /\ \E answer \in Sysconf : page = DetectPageSize(answer)
  /\ T \in NodeTypes
  /\ headers \in BOOLEAN /\ huge \in BOOLEAN

Types ==
  /\ ConfigInv
  /\ chunk \in [Chunks -> ChunkObjects]
  /\ list \in [ListNodes -> ListObjects]
  /\ adding \in ListNodes \cup {Null}
  /\ owner \in Memories /\ asked \in Memories

(* The regions that objects stand for.                                     *)
OfChunk(k) == Region(k.nodes, ChunkBytes(k.count), k.align, "new")
RunnerAlign == IF huge THEN HugeBytes ELSE RunAlignment
OfNode(m) == Region(m.base, m.bytes, RunnerAlign, HowOwned)
OfOwner(m) == Region(m.base, m.bytes, m.align, HowOwned)

(* The parts of the three clients.                                         *)
NoChunks == DOMAIN stamped = {} /\ \A c \in Chunks : chunk[c].nodes = Null
NoList == adding = Null /\ \A n \in ListNodes : list[n] = NoNode
NoOwner == owner = NoMemory

(* Chunk c has the memory its fields say, aligned to its granule; every    *)
(* granule of it has a header, and they all name the same pool.            *)
ChunkHolds(k) ==
  /\ k.count \in Nat \ {0}
  /\ OfChunk(k) \in heap
Stamped(k) ==
  /\ k.align = ChunkLayout.granule
  /\ \E m \in Nat : k.nodes = m * k.align
  /\ \A a \in GranuleBases(k.nodes, k.count) : a \in DOMAIN stamped /\ stamped[a] = stamped[k.nodes]

ByChunks ==
  /\ \A c \in Chunks : ~chunk[c].alive => chunk[c].nodes = Null
  /\ \A c \in Chunks, k \in ChunkObjects : chunk[c] = k /\ k.nodes # Null => ChunkHolds(k)
  /\ \A c, d \in Chunks : chunk[c].nodes = chunk[d].nodes /\ chunk[c].nodes # Null => c = d
  /\ \A r \in heap : \E c \in Chunks : chunk[c].nodes = r.base

StampInv ==
  /\ \A a \in DOMAIN stamped : a \in Int /\ \E r \in heap : a \in r.base .. r.base + r.bytes - 1
  /\ headers => \A c \in Chunks, k \in ChunkObjects :
                  chunk[c] = k /\ k.nodes # Null => Stamped(k)

ByRunner ==
  /\ \A n \in ListNodes, m \in Memories :
        list[n].memory = m /\ m.base # Null => list[n].used /\ OfNode(m) \in heap
  /\ \A n \in ListNodes :
        /\ list[n].used => list[n].memory.base # Null \/ list[n].external \/ adding = n
        /\ adding = n => list[n].used /\ list[n].memory.base = Null
  /\ \A n, m \in ListNodes : list[n].memory.base = list[m].memory.base
                               /\ list[n].memory.base # Null => n = m
  /\ \A r \in heap : \E n \in ListNodes : list[n].memory.base = r.base

ByOwner ==
  /\ \A m \in Memories : owner = m /\ m.base # Null => OfOwner(m) \in heap
  /\ owner.base # Null => /\ owner.bytes >= asked.bytes
                          /\ owner.align >= asked.align
                          /\ owner.base % asked.align = 0
  /\ \A r \in heap : owner.base = r.base

IInv ==
  /\ Types /\ HeapInv /\ wrong = FALSE
  /\ \/ client = "chunks" /\ NoList /\ NoOwner /\ ByChunks /\ StampInv
     \/ client = "runner" /\ NoChunks /\ NoOwner /\ ByRunner
     \/ client = "owner" /\ NoChunks /\ NoList /\ ByOwner

-----------------------------------------------------------------------------
(* Arithmetic.                                                             *)

(* RoundUp returns the multiple it promises.                               *)
LEMMA RoundUpReaches ==
  ASSUME NEW n \in Nat, NEW m \in Nat \ {0}
  PROVE  RoundUp(n, m) \in Nat /\ RoundUp(n, m) >= n
<1>1. n + m - 1 \in Int
  OBVIOUS
<1>2. PICK q \in Int, r \in 0 .. m - 1 :
         /\ (n + m - 1) \div m = q /\ (n + m - 1) % m = r
         /\ n + m - 1 = q * m + r
         /\ n + m - 1 >= 0 => q >= 0
  BY <1>1, Divides
<1>3. q * m \in Nat
  BY <1>2, ProductType
<1>4. RoundUp(n, m) = q * m
  BY <1>2 DEF RoundUp
<1>5. q * m >= n
  BY <1>2, <1>3
<1> QED
  BY <1>3, <1>4, <1>5

(* What a multiple of h is a multiple of.                                  *)
LEMMA DividesThrough ==
  ASSUME NEW x \in Nat, NEW h \in Nat \ {0}, NEW a \in Nat \ {0}, x % h = 0, h % a = 0
  PROVE  x % a = 0
<1>1. PICK q \in Int, r \in 0 .. h - 1 :
         /\ x \div h = q /\ x % h = r /\ x = q * h + r /\ (x >= 0 => q >= 0)
  BY Divides
<1>2. PICK k \in Int, s \in 0 .. a - 1 :
         /\ h \div a = k /\ h % a = s /\ h = k * a + s /\ (h >= 0 => k >= 0)
  BY Divides
<1>3. r = 0 /\ s = 0
  BY <1>1, <1>2
<1>4. /\ q * h \in Int /\ k * a \in Int /\ q * k \in Int /\ (q * k) * a \in Int
  BY <1>1, <1>2, ProductType
<1>5. x = q * h /\ h = k * a
  BY <1>1, <1>2, <1>3, <1>4
<1>6. x = q * (k * a)
  BY <1>5
<1>7. q * (k * a) = (q * k) * a
  BY <1>1, <1>2
<1>8. x = (q * k) * a + 0 /\ 0 \in 0 .. a - 1
  BY <1>4, <1>6, <1>7
<1> QED
  BY <1>4, <1>8, DividesUniquely

-----------------------------------------------------------------------------
(* The heap.                                                               *)

(* An address is the base of one region.                                   *)
LEMMA OneRegion ==
  ASSUME HeapInv, NEW r \in heap, NEW s \in heap, r.base = s.base
  PROVE  r = s
<1>1. r \in Regions /\ s \in Regions
  BY DEF HeapInv
<1>2. Overlaps(r, s.base, s.bytes)
  BY <1>1 DEF Regions, Overlaps
<1> QED
  BY <1>2 DEF HeapInv

(* Releasing by address and alignment, or by address and length, removes   *)
(* the region that has them and no other.                                  *)
LEMMA DeletesOne ==
  ASSUME HeapInv, NEW b, NEW n, NEW a, Region(b, n, a, "new") \in heap
  PROVE  Deleted(b, a) = {Region(b, n, a, "new")}
<1> DEFINE it == Region(b, n, a, "new")
<1>1. it.base = b /\ it.align = a /\ it.how = "new"
  BY DEF Region
<1>2. \A r \in heap : r.base = b => r = it
  BY <1>1, OneRegion
<1> QED
  BY <1>1, <1>2 DEF Deleted

LEMMA UnmapsOne ==
  ASSUME HeapInv, NEW b, NEW n, NEW a, Region(b, n, a, "mmap") \in heap
  PROVE  Unmapped(b, n) = {Region(b, n, a, "mmap")}
<1> DEFINE it == Region(b, n, a, "mmap")
<1>1. it.base = b /\ it.bytes = n /\ it.how = "mmap"
  BY DEF Region
<1>2. \A r \in heap : r.base = b => r = it
  BY <1>1, OneRegion
<1> QED
  BY <1>1, <1>2 DEF Unmapped

(* A region that was placed is apart from all others.                      *)
LEMMA Placed ==
  ASSUME HeapInv, NEW base \in Nat, NEW bytes \in Nat \ {0}, NEW align \in Nat \ {0},
         NEW how \in {"new", "mmap"},
         Place(base, bytes, align),
         heap' = heap \cup {Region(base, bytes, align, how)}
  PROVE  /\ HeapInv'
         /\ \A r \in heap : ~Overlaps(r, base, bytes) /\ r.base # base
         /\ base % align = 0
<1> DEFINE it == Region(base, bytes, align, how)
<1>1. it \in Regions /\ it.base = base /\ it.bytes = bytes
  BY DEF Region, Regions
<1>2. /\ base % align = 0
      /\ \A r \in heap : ~Overlaps(r, base, bytes)
  BY DEF Place, Fits
<1>3. \A r \in heap : r \in Regions
  BY DEF HeapInv
<1>4. ASSUME NEW r \in heap
      PROVE  r.base # base /\ ~Overlaps(it, r.base, r.bytes) /\ ~Overlaps(r, it.base, it.bytes)
  <2>1. r \in Regions /\ ~Overlaps(r, base, bytes)
    BY <1>2, <1>3
  <2> HIDE DEF it
  <2> QED
    BY <2>1, <1>1 DEF Regions, Overlaps
<1>5. HeapInv'
  <2>1. heap' \subseteq Regions
    BY <1>1, <1>3
  <2>2. \A r, s \in heap : r # s => ~Overlaps(r, s.base, s.bytes)
    BY DEF HeapInv
  <2>3. \A r \in heap' : r \in heap \/ r = it
    OBVIOUS
  <2> HIDE DEF it
  <2>4. \A r, s \in heap' : r # s => ~Overlaps(r, s.base, s.bytes)
    BY <1>4, <2>2, <2>3
  <2> QED
    BY <2>1, <2>4 DEF HeapInv, Overlaps
<1> QED
  BY <1>2, <1>4, <1>5

LEMMA FewerRegions ==
  ASSUME HeapInv, heap' \subseteq heap
  PROVE  HeapInv'
  BY DEF HeapInv, Overlaps

-----------------------------------------------------------------------------
(* Sizes of chunks.                                                        *)

(* The layout of every chunk has room for a node behind its header.        *)
LEMMA LayoutFacts ==
  ASSUME ConfigInv
  PROVE  /\ ChunkLayout \in Layouts
         /\ ChunkLayout.offset >= GranuleHeaderBytes
         /\ page \in Nat \ {0}
         /\ NodeAlignment(T) \in Nat \ {0}
         /\ NodeBytes(T) \in Nat \ {0}
<1>1. PICK answer \in Sysconf : page = DetectPageSize(answer)
  BY DEF ConfigInv
<1>2. T \in NodeTypes
  BY DEF ConfigInv
<1>3. ChunkLayout \in Layouts
  BY <1>1, <1>2, LayoutAssumption DEF ChunkLayout
<1>4. T.align \in Nat
  BY <1>2, SizesAssumption
<1>5. NodeAlignment(T) \in Nat \ {0}
  BY <1>4 DEF NodeAlignment, Larger, PointerBytes
<1>6. ChunkLayout.offset = HeaderOffset(T) /\ ChunkLayout.node = NodeBytes(T)
  BY DEF ChunkLayout, LayoutFor
<1>7. HeaderOffset(T) >= GranuleHeaderBytes
  BY <1>5 DEF HeaderOffset, Larger, GranuleHeaderBytes
<1>8. NodeBytes(T) \in Nat \ {0}
  BY <1>3, <1>6, LayoutFields
<1>9. page \in Nat \ {0}
  BY <1>1, PageAssumption DEF DetectPageSize
<1> QED
  BY <1>3, <1>5, <1>6, <1>7, <1>8, <1>9

(* What a chunk asks for is not nothing.                                   *)
LEMMA ChunkSizes ==
  ASSUME ConfigInv, NEW sz \in Nat \ {0}
  PROVE  /\ ChunkBytes(sz) \in Nat \ {0}
         /\ ChunkAlign \in Nat \ {0}
         /\ headers => /\ ChunkBytes(sz) = Granules(sz) * ChunkLayout.granule
                       /\ ChunkAlign = ChunkLayout.granule
                       /\ Granules(sz) \in Nat \ {0}
<1>1. /\ ChunkLayout \in Layouts /\ page \in Nat \ {0}
      /\ NodeAlignment(T) \in Nat \ {0} /\ NodeBytes(T) \in Nat \ {0}
  BY LayoutFacts
<1>2. ChunkLayout.granule \in Nat \ {0}
  BY <1>1, LayoutFields
<1>3. Granules(sz) \in Nat \ {0}
  BY <1>1, GranulesSuffice DEF Granules
<1>4. Granules(sz) * ChunkLayout.granule \in Nat \ {0}
  BY <1>2, <1>3, ProductType, SMT
<1>5. sz * NodeBytes(T) \in Nat /\ sz * NodeBytes(T) > 0
  BY <1>1, ProductType, SMT
<1>6. PICK n \in Nat : n = sz * NodeBytes(T) /\ n > 0
  BY <1>5
<1>7. RoundUp(n, page) \in Nat \ {0}
  BY <1>1, <1>6, RoundUpReaches
<1>8. ChunkAlign \in Nat \ {0}
  BY <1>1, <1>2 DEF ChunkAlign
<1> QED
  BY <1>3, <1>4, <1>6, <1>7, <1>8 DEF ChunkBytes, ChunkAlign

(* What LayoutExact says of one chunk.                                     *)
LEMMA ChunkExact ==
  ASSUME ConfigInv, HeapInv, headers,
         NEW k \in ChunkObjects, k.nodes # Null, ChunkHolds(k), Stamped(k)
  PROVE  LET L == [ChunkLayout EXCEPT !.granule = k.align]
             ours == {r \in heap : r.base = k.nodes}
             bytes(i) == At(L, i) .. At(L, i) + L.node - 1
             slots == 0 .. k.count - 1
         IN  /\ \A r \in ours :
                   /\ {b \in -k.nodes .. r.bytes + 2 * L.granule : Contains(L, k.count, b)}
                        = {At(L, i) : i \in slots}
                   /\ \A i \in slots : bytes(i) \subseteq 0 .. r.bytes - 1
             /\ \A i, j \in slots : i # j => bytes(i) \cap bytes(j) = {}
             /\ \A i \in slots : \A b \in bytes(i) :
                   LET h == HeaderOf(k.align, k.nodes + b)
                   IN  /\ h \in DOMAIN stamped
                       /\ h + GranuleHeaderBytes <= k.nodes + At(L, i)
                       /\ stamped[h] = stamped[k.nodes]
<1> DEFINE L == [ChunkLayout EXCEPT !.granule = k.align]
<1>1. ChunkLayout \in Layouts /\ ChunkLayout.offset >= GranuleHeaderBytes
  BY LayoutFacts
<1>2. L = ChunkLayout
  BY <1>1 DEF Layouts, Stamped
<1>3. L \in Layouts /\ L.offset >= GranuleHeaderBytes /\ k.align = L.granule
  BY <1>1, <1>2 DEF Stamped
<1> HIDE DEF L
<1>4. k.nodes \in Nat /\ k.count \in Nat \ {0}
  BY DEF ChunkObjects, ChunkHolds
<1>5. PICK m \in Nat : k.nodes = m * L.granule
  BY <1>3 DEF Stamped
<1>6. L.node \in Nat \ {0} /\ L.offset \in Nat \ {0} /\ L.granule \in Nat \ {0}
  BY <1>3, LayoutFields
<1>7. ASSUME NEW i \in 0 .. k.count - 1
      PROVE  /\ At(L, i) \in Nat
             /\ At(L, i) + L.node <= GranuleCount(L, k.count) * L.granule
  BY <1>3, <1>4, SlotsInside
<1>8. ASSUME NEW r \in heap, r.base = k.nodes
      PROVE  r.bytes = GranuleCount(L, k.count) * L.granule /\ r.bytes \in Nat
  <2>1. OfChunk(k) \in heap /\ OfChunk(k).base = k.nodes /\ OfChunk(k).bytes = ChunkBytes(k.count)
    BY DEF ChunkHolds, OfChunk, Region
  <2>2. r = OfChunk(k)
    BY <1>8, <2>1, OneRegion
  <2>3. ChunkBytes(k.count) \in Nat \ {0} /\ ChunkBytes(k.count) = Granules(k.count) * ChunkLayout.granule
    BY <1>4, ChunkSizes
  <2> QED
    BY <1>2, <2>1, <2>2, <2>3 DEF Granules
<1>9. ASSUME NEW r \in heap, r.base = k.nodes
      PROVE  /\ {b \in -k.nodes .. r.bytes + 2 * L.granule : Contains(L, k.count, b)}
                  = {At(L, i) : i \in 0 .. k.count - 1}
             /\ \A i \in 0 .. k.count - 1 : At(L, i) .. At(L, i) + L.node - 1 \subseteq 0 .. r.bytes - 1
  <2>1. PICK bytes \in Nat : bytes = r.bytes /\ bytes = GranuleCount(L, k.count) * L.granule
    BY <1>8, <1>9
  <2>2. {b \in -k.nodes .. bytes + 2 * L.granule : Contains(L, k.count, b)}
          = {At(L, i) : i \in 0 .. k.count - 1}
    BY <1>3, <1>4, <2>1, ContainsSlots
  <2>3. \A i \in 0 .. k.count - 1 : At(L, i) .. At(L, i) + L.node - 1 \subseteq 0 .. bytes - 1
    <3>1. TAKE i \in 0 .. k.count - 1
    <3>2. At(L, i) \in Nat /\ At(L, i) + L.node <= bytes
      BY <1>7, <2>1
    <3> QED
      BY <1>6, <2>1, <3>2
  <2> QED
    BY <2>1, <2>2, <2>3, Zenon
<1>10. ASSUME NEW i \in 0 .. k.count - 1, NEW j \in 0 .. k.count - 1, i # j
       PROVE  (At(L, i) .. At(L, i) + L.node - 1) \cap (At(L, j) .. At(L, j) + L.node - 1) = {}
  <2>1. i \in Nat /\ j \in Nat
    BY <1>4
  <2>2. At(L, i) \in Nat /\ At(L, j) \in Nat
    BY <1>7
  <2> QED
    BY <1>3, <1>10, <2>1, <2>2, SlotsApart
<1>11. ASSUME NEW i \in 0 .. k.count - 1, NEW b \in At(L, i) .. At(L, i) + L.node - 1
       PROVE  /\ HeaderOf(k.align, k.nodes + b) \in DOMAIN stamped
              /\ HeaderOf(k.align, k.nodes + b) + GranuleHeaderBytes <= k.nodes + At(L, i)
              /\ stamped[HeaderOf(k.align, k.nodes + b)] = stamped[k.nodes]
  <2>1. /\ \E g \in 0 .. GranuleCount(L, k.count) - 1 :
              HeaderOf(L.granule, k.nodes + b) = k.nodes + g * L.granule
        /\ HeaderOf(L.granule, k.nodes + b) + GranuleHeaderBytes <= k.nodes + At(L, i)
    BY <1>3, <1>4, <1>5, SlotHeader
  <2>2. HeaderOf(L.granule, k.nodes + b) \in GranuleBases(k.nodes, k.count)
    BY <1>2, <2>1 DEF GranuleBases, Granules
  <2> QED
    BY <1>3, <2>1, <2>2 DEF Stamped
<1> QED
  BY <1>9, <1>10, <1>11, Zenon DEF L

-----------------------------------------------------------------------------
(* The invariant says what the runs check.                                 *)

LEMMA InvariantGivesLayout ==
  ASSUME IInv
  PROVE  LayoutExact
<1>1. ConfigInv /\ HeapInv /\ chunk \in [Chunks -> ChunkObjects]
  BY DEF IInv, Types
<1>2. SUFFICES ASSUME NEW c \in Chunks, headers, chunk[c].nodes # Null
               PROVE  LET k == chunk[c]
                          L == [ChunkLayout EXCEPT !.granule = k.align]
                          ours == {r \in heap : r.base = k.nodes}
                          bytes(i) == At(L, i) .. At(L, i) + L.node - 1
                          slots == 0 .. k.count - 1
                      IN  /\ \A r \in ours :
                                /\ {b \in -k.nodes .. r.bytes + 2 * L.granule : Contains(L, k.count, b)}
                                     = {At(L, i) : i \in slots}
                                /\ \A i \in slots : bytes(i) \subseteq 0 .. r.bytes - 1
                          /\ \A i, j \in slots : i # j => bytes(i) \cap bytes(j) = {}
                          /\ \A i \in slots : \A b \in bytes(i) :
                                LET h == HeaderOf(k.align, k.nodes + b)
                                IN  /\ h \in DOMAIN stamped
                                    /\ h + GranuleHeaderBytes <= k.nodes + At(L, i)
                                    /\ stamped[h] = stamped[k.nodes]
  BY DEF LayoutExact
<1>3. PICK k \in ChunkObjects : k = chunk[c]
  BY <1>1
<1>4. ByChunks /\ StampInv
  BY <1>2 DEF IInv, NoChunks
<1>5. ChunkHolds(k) /\ Stamped(k)
  BY <1>2, <1>3, <1>4 DEF ByChunks, StampInv
<1> QED
  BY <1>1, <1>2, <1>3, <1>5, ChunkExact

(* One object per region makes the sets of OwnedOnce singletons.           *)
LEMMA OneHolder ==
  ASSUME NEW S, NEW P, NEW c \in S, P \subseteq S, c \in P, \A d \in P : d = c
  PROVE  Cardinality(P) = 1
<1>1. P = {c}
  OBVIOUS
<1> QED
  BY <1>1, FS_Singleton

LEMMA InvariantGivesOwned ==
  ASSUME IInv
  PROVE  OwnedOnce
<1> DEFINE ofChunk(r) == {c \in Chunks : chunk[c].nodes = r.base}
           ofList(r) == {n \in ListNodes : list[n].memory.base = r.base}
           ofOwner(r) == IF owner.base = r.base THEN 1 ELSE 0
           bases == {r.base : r \in heap}
<1>1. /\ chunk \in [Chunks -> ChunkObjects] /\ list \in [ListNodes -> ListObjects]
      /\ owner \in Memories
  BY DEF IInv, Types
<1>2. \A r \in heap : r.base \in Nat /\ r.base # Null
  BY NullAssumption DEF IInv, HeapInv, Regions
<1>3. Cardinality({}) = 0
  BY FS_EmptySet
<1>4. NoList => \A n \in ListNodes : list[n].memory.base = Null /\ ~list[n].used
  BY DEF NoList, NoNode, NoMemory
<1>5. NoOwner => owner.base = Null
  BY DEF NoOwner, NoMemory
<1>6. CASE client = "chunks"
  <2>1. NoList /\ NoOwner /\ ByChunks
    BY <1>6 DEF IInv
  <2>2. ASSUME NEW r \in heap
        PROVE  Cardinality(ofChunk(r)) + Cardinality(ofList(r)) + ofOwner(r) = 1
    <3>1. PICK c \in Chunks : chunk[c].nodes = r.base
      BY <2>1 DEF ByChunks
    <3>2. \A d \in ofChunk(r) : d = c
      BY <1>2, <2>1, <3>1 DEF ByChunks
    <3>3. Cardinality(ofChunk(r)) = 1
      BY <3>1, <3>2, OneHolder, Zenon
    <3>4. ofList(r) = {}
      BY <1>2, <1>4, <2>1
    <3>5. ofOwner(r) = 0
      BY <1>2, <1>5, <2>1
    <3> HIDE DEF ofChunk, ofList, ofOwner
    <3> QED
      BY <1>3, <3>3, <3>4, <3>5
  <2>3. ASSUME NEW c \in Chunks
        PROVE  chunk[c].nodes \in bases \cup {Null}
    <3>1. PICK k \in ChunkObjects : k = chunk[c]
      BY <1>1
    <3>2. CASE k.nodes # Null
      <4>1. OfChunk(k) \in heap
        BY <2>1, <3>1, <3>2 DEF ByChunks, ChunkHolds
      <4>2. OfChunk(k).base = k.nodes
        BY DEF OfChunk, Region
      <4>3. OfChunk(k).base \in bases
        BY <4>1
      <4> HIDE DEF bases
      <4> QED
        BY <3>1, <4>2, <4>3
    <3> QED
      BY <3>1, <3>2
  <2> QED
    BY <1>4, <1>5, <2>1, <2>2, <2>3 DEF IInv, OwnedOnce
<1>7. CASE client = "runner"
  <2>1. NoChunks /\ NoOwner /\ ByRunner
    BY <1>7 DEF IInv
  <2>2. ASSUME NEW r \in heap
        PROVE  Cardinality(ofChunk(r)) + Cardinality(ofList(r)) + ofOwner(r) = 1
    <3>1. PICK n \in ListNodes : list[n].memory.base = r.base
      BY <2>1 DEF ByRunner
    <3>2. \A d \in ofList(r) : d = n
      BY <1>2, <2>1, <3>1 DEF ByRunner
    <3>3. Cardinality(ofList(r)) = 1
      BY <3>1, <3>2, OneHolder, Zenon
    <3>4. ofChunk(r) = {}
      BY <1>2, <2>1 DEF NoChunks
    <3>5. ofOwner(r) = 0
      BY <1>2, <1>5, <2>1
    <3> HIDE DEF ofChunk, ofList, ofOwner
    <3> QED
      BY <1>3, <3>3, <3>4, <3>5
  <2>3. ASSUME NEW n \in ListNodes
        PROVE  /\ list[n].memory.base \in bases \cup {Null}
               /\ list[n].used => list[n].memory.base # Null \/ list[n].external \/ adding = n
    <3>1. PICK m \in Memories : m = list[n].memory
      BY <1>1 DEF ListObjects
    <3>2. ASSUME m.base # Null
          PROVE  m.base \in bases
      <4>1. OfNode(m) \in heap
        BY <2>1, <3>1, <3>2 DEF ByRunner
      <4>2. OfNode(m).base = m.base
        BY DEF OfNode, Region
      <4>3. OfNode(m).base \in bases
        BY <4>1
      <4> HIDE DEF bases
      <4> QED
        BY <4>2, <4>3
    <3>3. list[n].used => list[n].memory.base # Null \/ list[n].external \/ adding = n
      BY <2>1 DEF ByRunner
    <3> HIDE DEF bases
    <3> QED
      BY <3>1, <3>2, <3>3
  <2> QED
    BY <1>5, <2>1, <2>2, <2>3 DEF IInv, OwnedOnce, NoChunks
<1>8. CASE client = "owner"
  <2>1. NoChunks /\ NoList /\ ByOwner
    BY <1>8 DEF IInv
  <2>2. ASSUME NEW r \in heap
        PROVE  Cardinality(ofChunk(r)) + Cardinality(ofList(r)) + ofOwner(r) = 1
    <3>1. ofOwner(r) = 1
      BY <2>1 DEF ByOwner
    <3>2. ofChunk(r) = {}
      BY <1>2, <2>1 DEF NoChunks
    <3>3. ofList(r) = {}
      BY <1>2, <1>4, <2>1
    <3> HIDE DEF ofChunk, ofList, ofOwner
    <3> QED
      BY <1>3, <3>1, <3>2, <3>3
  <2> QED
    <3>1. \A c \in Chunks : chunk[c].nodes = Null
      BY <2>1 DEF NoChunks
    <3>2. \A n \in ListNodes : list[n].memory.base = Null /\ ~list[n].used
      BY <1>4, <2>1
    <3>3. owner.base # Null => /\ owner.bytes >= asked.bytes
                               /\ owner.align >= asked.align
                               /\ owner.base % asked.align = 0
      BY <2>1 DEF ByOwner
    <3>4. wrong = FALSE
      BY DEF IInv
    <3> QED
      BY <2>2, <3>1, <3>2, <3>3, <3>4, Zenon DEF OwnedOnce
<1> QED
  BY <1>6, <1>7, <1>8 DEF IInv

-----------------------------------------------------------------------------
(* The first state.                                                        *)

LEMMA Starts ==
  ASSUME Init
  PROVE  IInv
<1>1. ConfigInv
  <2>1. \E answer \in Sysconf : page = DetectPageSize(answer)
    BY DEF Init
  <2>2. headers \in BOOLEAN /\ huge \in BOOLEAN /\ T \in NodeTypes
    BY DEF Init
  <2> QED
    BY <2>1, <2>2 DEF ConfigInv
<1>2. NoMemory \in Memories /\ NoMemory.base = Null
  BY DEF NoMemory, Memories
<1>3. /\ chunk \in [Chunks -> ChunkObjects]
      /\ \A c \in Chunks : chunk[c].nodes = Null
  BY DEF Init, NoChunk, ChunkObjects
<1>4. /\ list \in [ListNodes -> ListObjects]
      /\ \A n \in ListNodes : list[n] = NoNode
  BY <1>2 DEF Init, NoNode, ListObjects
<1>5. NoList /\ NoOwner /\ adding = Null /\ owner = NoMemory /\ asked = NoMemory /\ wrong = FALSE
  BY <1>4 DEF Init, NoList, NoOwner
<1>6. Types
  BY <1>1, <1>2, <1>3, <1>4, <1>5 DEF Types
<1>7. DOMAIN stamped = {} /\ heap = {}
  BY DEF Init
<1>8. HeapInv
  BY <1>7 DEF HeapInv
<1>9. NoChunks
  BY <1>3, <1>7 DEF NoChunks
<1>10. ByChunks
  BY <1>3, <1>7 DEF ByChunks
<1>11. StampInv
  BY <1>3, <1>7 DEF StampInv
<1>12. ByRunner
  <2>1. \A n \in ListNodes : list[n].memory.base = Null /\ ~list[n].used
    BY <1>2, <1>4 DEF NoNode
  <2> QED
    BY <1>5, <1>7, <2>1, NullAssumption DEF ByRunner
<1>13. ByOwner
  BY <1>2, <1>5, <1>7 DEF ByOwner
<1>14. client \in {"chunks", "runner", "owner"}
  BY DEF Init
<1> QED
  BY <1>5, <1>6, <1>8, <1>9, <1>10, <1>11, <1>12, <1>13, <1>14 DEF IInv

(* The configuration does not change, nor what is computed from it.        *)
LEMMA ConfigKept ==
  ASSUME ConfigInv, UNCHANGED config
  PROVE  /\ ConfigInv' /\ headers' = headers /\ huge' = huge /\ client' = client
         /\ ChunkLayout' = ChunkLayout
         /\ \A sz : ChunkBytes(sz)' = ChunkBytes(sz)
         /\ \A b, sz : GranuleBases(b, sz)' = GranuleBases(b, sz)
         /\ \A k : OfChunk(k)' = OfChunk(k)
         /\ \A m : OfNode(m)' = OfNode(m) /\ OfOwner(m)' = OfOwner(m)
<1>1. /\ page' = page /\ T' = T /\ headers' = headers /\ huge' = huge /\ client' = client
  BY DEF config
<1>2. ChunkLayout' = ChunkLayout
  BY <1>1 DEF ChunkLayout
<1>3. \A sz : ChunkBytes(sz)' = ChunkBytes(sz)
  BY <1>1, <1>2 DEF ChunkBytes, Granules
<1>4. \A b, sz : GranuleBases(b, sz)' = GranuleBases(b, sz)
  BY <1>2 DEF GranuleBases, Granules
<1>5. \A k : OfChunk(k)' = OfChunk(k)
  BY <1>3 DEF OfChunk
<1>6. \A m : OfNode(m)' = OfNode(m) /\ OfOwner(m)' = OfOwner(m)
  BY <1>1 DEF OfNode, OfOwner, RunnerAlign, HowOwned
<1>7. ConfigInv'
  BY <1>1 DEF ConfigInv
<1> QED
  BY <1>1, <1>2, <1>3, <1>4, <1>5, <1>6, <1>7

-----------------------------------------------------------------------------
(* Owned memory.                                                           *)

(* What is granted is as large and as aligned as was asked: a huge page    *)
(* is aligned to every smaller power of two.                               *)
LEMMA GrantsSuffice ==
  ASSUME ConfigInv, NEW bytes \in Nat, NEW align \in Nat, NEW m \in Memories, m.base \in Nat,
         Granted(bytes, align, m)
  PROVE  /\ m.bytes \in Nat \ {0} /\ m.bytes >= bytes
         /\ m.align \in Nat \ {0} /\ m.align >= align
         /\ Place(m.base, m.bytes, m.align)
         /\ m.base % align = 0
<1>1. /\ bytes # 0 /\ align >= PointerBytes /\ HasSingleBit(align)
      /\ huge => align <= HugeBytes
  BY DEF Granted, Accepts
<1>2. align \in Nat \ {0}
  BY <1>1 DEF PointerBytes
<1>3. /\ Place(m.base, m.bytes, m.align)
      /\ m.bytes = (IF huge THEN RoundUp(bytes, HugeBytes) ELSE bytes)
      /\ m.align = (IF huge THEN HugeBytes ELSE align)
  BY DEF Granted
<1>4. m.base % m.align = 0
  BY <1>3 DEF Place, Fits
<1>5. RoundUp(bytes, HugeBytes) \in Nat /\ RoundUp(bytes, HugeBytes) >= bytes
  BY HugeAssumption, RoundUpReaches
<1>6. CASE huge
  <2>1. m.bytes = RoundUp(bytes, HugeBytes) /\ m.align = HugeBytes /\ align <= HugeBytes
    BY <1>1, <1>3, <1>6
  <2>2. PICK e \in 0 .. WordBits - 1 : align = 2 ^ e
    BY <1>1 DEF HasSingleBit
  <2>3. HugeBytes \in Nat \ {0}
    BY HugeAssumption
  <2>4. HugeBytes % align = 0
    BY <2>1, <2>2, HugeAssumption
  <2>5. m.base % HugeBytes = 0
    BY <1>4, <2>1
  <2>6. m.base % align = 0
    BY <1>2, <2>3, <2>4, <2>5, DividesThrough
  <2> QED
    BY <1>1, <1>3, <1>5, <2>1, <2>3, <2>6
<1>7. CASE ~huge
  BY <1>1, <1>2, <1>3, <1>4, <1>7
<1> QED
  BY <1>6, <1>7

(* A release finds the region of the memory it is given.                   *)
LEMMA ReleasesOne ==
  ASSUME ConfigInv, HeapInv, NEW m, m.base # Null, OfOwner(m) \in heap
  PROVE  ReleasedBy(m) = {OfOwner(m)} /\ Matches(m)
<1>1. CASE huge
  <2>1. OfOwner(m) = Region(m.base, m.bytes, m.align, "mmap")
    BY <1>1 DEF OfOwner, HowOwned
  <2>2. Unmapped(m.base, m.bytes) = {OfOwner(m)}
    BY <2>1, UnmapsOne
  <2> QED
    BY <1>1, <2>2 DEF ReleasedBy, Matches
<1>2. CASE ~huge
  <2>1. OfOwner(m) = Region(m.base, m.bytes, m.align, "new")
    BY <1>2 DEF OfOwner, HowOwned
  <2>2. Deleted(m.base, m.align) = {OfOwner(m)}
    BY <2>1, DeletesOne
  <2> QED
    BY <1>2, <2>2 DEF ReleasedBy, Matches
<1> QED
  BY <1>1, <1>2

LEMMA OwnerConstructs ==
  ASSUME IInv, client = "owner", NEW bytes \in ByteCounts, NEW align \in Alignments,
         OwnerConstruct(bytes, align)
  PROVE  IInv'
<1>1. ConfigInv /\ HeapInv /\ Types /\ NoChunks /\ NoList /\ ByOwner
  BY DEF IInv, Types
<1>2. bytes \in Nat /\ align \in Nat
  BY SizesAssumption
<1>3. UNCHANGED <<config, chunk, stamped, list, adding, wrong>> /\ owner = NoMemory
      /\ asked' = [base |-> Null, bytes |-> bytes, align |-> align]
  BY DEF OwnerConstruct
<1>4. PICK base, m :
         /\ base \in 0 .. MemBytes - 1
         /\ m = [base |-> base, bytes |-> IF huge THEN RoundUp(bytes, HugeBytes) ELSE bytes,
                 align |-> IF huge THEN HugeBytes ELSE align]
         /\ Granted(bytes, align, m)
         /\ owner' = m
         /\ heap' = heap \cup {Region(m.base, m.bytes, m.align, HowOwned)}
  <2>1. PICK base \in 0 .. MemBytes - 1 :
          LET m == [base |-> base, bytes |-> IF huge THEN RoundUp(bytes, HugeBytes) ELSE bytes,
                    align |-> IF huge THEN HugeBytes ELSE align]
          IN  /\ Granted(bytes, align, m)
              /\ owner' = m
              /\ heap' = heap \cup {Region(m.base, m.bytes, m.align, HowOwned)}
    BY DEF OwnerConstruct
  <2> QED
    BY <2>1, Zenon
<1>5. m \in Memories /\ m.base = base /\ base \in Nat
  <2>1. RoundUp(bytes, HugeBytes) \in Nat
    BY <1>2, HugeAssumption, RoundUpReaches
  <2>2. base \in Nat /\ HugeBytes \in Nat
    BY <1>4, SizesAssumption, HugeAssumption
  <2>3. (IF huge THEN RoundUp(bytes, HugeBytes) ELSE bytes) \in Nat
    BY <1>2, <2>1
  <2>4. (IF huge THEN HugeBytes ELSE align) \in Nat
    BY <1>2, <2>2
  <2> QED
    BY <1>4, <2>2, <2>3, <2>4 DEF Memories
<1>6. /\ m.bytes \in Nat \ {0} /\ m.bytes >= bytes
      /\ m.align \in Nat \ {0} /\ m.align >= align
      /\ Place(m.base, m.bytes, m.align)
      /\ m.base % align = 0
  BY <1>1, <1>2, <1>4, <1>5, GrantsSuffice
<1>7. HeapInv'
  <2>1. HowOwned \in {"new", "mmap"}
    BY DEF HowOwned
  <2> QED
    BY <1>1, <1>4, <1>5, <1>6, <2>1, Placed
<1>8. ConfigInv' /\ client' = client /\ \A k : OfOwner(k)' = OfOwner(k)
  BY <1>1, <1>3, ConfigKept
<1>9. heap = {}
  <2>1. \A r \in heap : r.base = Null
    BY <1>1, <1>3 DEF ByOwner, NoMemory
  <2> QED
    BY <1>1, <2>1, NullAssumption DEF HeapInv, Regions
<1>10. ByOwner'
  <2>1. OfOwner(m) \in heap' /\ OfOwner(m).base = m.base
    BY <1>4 DEF OfOwner, Region
  <2>2. \A k \in Memories : owner' = k /\ k.base # Null => OfOwner(k)' \in heap'
    BY <1>4, <1>8, <2>1
  <2>3. \A r \in heap' : owner'.base = r.base
    BY <1>4, <1>9 DEF Region
  <2>4. asked'.bytes = bytes /\ asked'.align = align
    BY <1>3
  <2> QED
    BY <1>4, <1>6, <2>2, <2>3, <2>4 DEF ByOwner
<1>11. NoChunks' /\ NoList'
  BY <1>1, <1>3 DEF NoChunks, NoList
<1>12. Types'
  <2>1. asked' \in Memories
    BY <1>2, <1>3 DEF Memories
  <2> QED
    BY <1>1, <1>3, <1>4, <1>5, <1>8, <2>1 DEF Types
<1> QED
  BY <1>3, <1>7, <1>8, <1>10, <1>11, <1>12 DEF IInv

LEMMA OwnerDestroys ==
  ASSUME IInv, client = "owner", OwnerDestroy
  PROVE  IInv'
<1>1. ConfigInv /\ HeapInv /\ Types /\ NoChunks /\ NoList /\ ByOwner /\ wrong = FALSE
  BY DEF IInv, Types
<1>2. /\ UNCHANGED <<config, chunk, stamped, list, adding>>
      /\ heap' = heap \ ReleasedBy(owner)
      /\ wrong' = (wrong \/ ~Matches(owner))
      /\ owner' = NoMemory /\ asked' = NoMemory
  BY DEF OwnerDestroy
<1>3. PICK m \in Memories : m = owner
  BY <1>1 DEF Types
<1>4. NoMemory \in Memories /\ NoMemory.base = Null
  BY DEF Memories, NoMemory
<1>5. Matches(m) /\ heap' = {}
  <2>1. CASE m.base = Null
    <3>1. heap = {}
      BY <1>1, <1>3, <2>1, NullAssumption DEF ByOwner, HeapInv, Regions
    <3> QED
      BY <1>2, <2>1, <3>1 DEF Matches
  <2>2. CASE m.base # Null
    <3>1. OfOwner(m) \in heap
      BY <1>1, <1>3, <2>2 DEF ByOwner
    <3>2. ReleasedBy(m) = {OfOwner(m)} /\ Matches(m)
      BY <1>1, <2>2, <3>1, ReleasesOne
    <3>3. OfOwner(m).base = m.base
      BY DEF OfOwner, Region
    <3>4. \A r \in heap : r = OfOwner(m)
      BY <1>1, <1>3, <3>1, <3>3, OneRegion DEF ByOwner
    <3> QED
      BY <1>2, <1>3, <3>2, <3>4
  <2> QED
    BY <2>1, <2>2
<1>6. ConfigInv' /\ client' = client
  BY <1>1, <1>2, ConfigKept
<1>7. HeapInv' /\ ByOwner'
  BY <1>2, <1>4, <1>5 DEF HeapInv, ByOwner
<1>8. NoChunks' /\ NoList'
  BY <1>1, <1>2 DEF NoChunks, NoList
<1>9. Types'
  BY <1>1, <1>2, <1>4, <1>6 DEF Types
<1>10. wrong' = FALSE
  BY <1>1, <1>2, <1>3, <1>5
<1> QED
  BY <1>6, <1>7, <1>8, <1>9, <1>10 DEF IInv

-----------------------------------------------------------------------------
(* The runner's chunk list.                                                *)

(* What no step of the runner touches.                                     *)
LEMMA RunnerFrame ==
  ASSUME IInv, client = "runner", UNCHANGED <<config, chunk, stamped, owner, asked>>,
         wrong' = FALSE, HeapInv', ByRunner',
         list' \in [ListNodes -> ListObjects], adding' \in ListNodes \cup {Null}
  PROVE  IInv'
<1>1. ConfigInv /\ Types /\ NoChunks /\ NoOwner
  BY DEF IInv, Types
<1>2. ConfigInv' /\ client' = client
  BY <1>1, ConfigKept
<1>3. Types'
  BY <1>1, <1>2 DEF Types
<1>4. NoChunks' /\ NoOwner'
  BY <1>1 DEF NoChunks, NoOwner
<1> QED
  BY <1>2, <1>3, <1>4 DEF IInv

LEMMA ListNodeNew ==
  ASSUME IInv, client = "runner", NEW n \in ListNodes, NewListNode(n)
  PROVE  IInv'
<1>1. ConfigInv /\ HeapInv /\ Types /\ ByRunner /\ wrong = FALSE
  BY DEF IInv, Types
<1>2. /\ adding = Null /\ ~list[n].used /\ adding' = n
      /\ list' = [list EXCEPT ![n].used = TRUE]
      /\ UNCHANGED <<config, heap, chunk, stamped, owner, asked, wrong>>
  BY DEF NewListNode
<1>3. \A k : OfNode(k)' = OfNode(k)
  BY <1>1, <1>2, ConfigKept
<1>4. list' \in [ListNodes -> ListObjects]
  BY <1>1, <1>2 DEF Types, ListObjects
<1>5. /\ \A k \in ListNodes : list'[k].memory = list[k].memory /\ list'[k].external = list[k].external
      /\ \A k \in ListNodes : list'[k].used = (list[k].used \/ k = n)
  BY <1>1, <1>2 DEF Types, ListObjects
<1>6. list[n].memory.base = Null
  <2>1. PICK m \in Memories : m = list[n].memory
    BY <1>1 DEF Types, ListObjects
  <2> QED
    BY <1>1, <1>2, <2>1 DEF ByRunner
<1>7. ByRunner'
  <2>1. \A k \in ListNodes, m \in Memories :
          list'[k].memory = m /\ m.base # Null => list'[k].used /\ OfNode(m)' \in heap'
    BY <1>1, <1>2, <1>3, <1>5 DEF ByRunner
  <2>2. \A k \in ListNodes :
          /\ list'[k].used => list'[k].memory.base # Null \/ list'[k].external \/ adding' = k
          /\ adding' = k => list'[k].used /\ list'[k].memory.base = Null
    <3>1. TAKE k \in ListNodes
    <3>2. /\ list'[k].memory = list[k].memory /\ list'[k].external = list[k].external
          /\ list'[k].used = (list[k].used \/ k = n)
      BY <1>5
    <3>3. list[k].used => list[k].memory.base # Null \/ list[k].external
      BY <1>1, <1>2, NullAssumption DEF ByRunner
    <3>4. CASE k = n
      BY <1>2, <1>6, <3>2, <3>4
    <3>5. CASE k # n
      BY <1>2, <3>2, <3>3, <3>5
    <3> QED
      BY <3>4, <3>5
  <2>3. \A k, m \in ListNodes : list'[k].memory.base = list'[m].memory.base
                                  /\ list'[k].memory.base # Null => k = m
    BY <1>1, <1>5 DEF ByRunner
  <2>4. \A r \in heap' : \E k \in ListNodes : list'[k].memory.base = r.base
    BY <1>1, <1>2, <1>5 DEF ByRunner
  <2> QED
    BY <2>1, <2>2, <2>3, <2>4 DEF ByRunner
<1>8. HeapInv'
  BY <1>1, <1>2, FewerRegions
<1>9. adding' \in ListNodes \cup {Null}
  BY <1>2
<1> QED
  BY <1>1, <1>2, <1>4, <1>7, <1>8, <1>9, RunnerFrame

LEMMA OwnedChunkAdded ==
  ASSUME IInv, client = "runner", NEW bytes \in ByteCounts, AddOwnedChunk(bytes)
  PROVE  IInv'
<1>1. ConfigInv /\ HeapInv /\ Types /\ ByRunner /\ wrong = FALSE
  BY DEF IInv, Types
<1>2. bytes \in Nat /\ RunAlignment \in Nat
  BY SizesAssumption
<1>3. /\ adding # Null /\ adding' = Null
      /\ UNCHANGED <<config, chunk, stamped, owner, asked, wrong>>
  BY DEF AddOwnedChunk
<1>4. PICK base, m :
         /\ base \in 0 .. MemBytes - 1
         /\ m = [base |-> base, bytes |-> IF huge THEN RoundUp(bytes, HugeBytes) ELSE bytes,
                 align |-> IF huge THEN HugeBytes ELSE RunAlignment]
         /\ Granted(bytes, RunAlignment, m)
         /\ list' = [list EXCEPT ![adding].memory = m]
         /\ heap' = heap \cup {Region(m.base, m.bytes, m.align, HowOwned)}
  <2>1. PICK base \in 0 .. MemBytes - 1 :
          LET m == [base |-> base, bytes |-> IF huge THEN RoundUp(bytes, HugeBytes) ELSE bytes,
                    align |-> IF huge THEN HugeBytes ELSE RunAlignment]
          IN  /\ Granted(bytes, RunAlignment, m)
              /\ list' = [list EXCEPT ![adding].memory = m]
              /\ heap' = heap \cup {Region(m.base, m.bytes, m.align, HowOwned)}
    BY DEF AddOwnedChunk
  <2> QED
    BY <2>1, Zenon
<1>5. PICK n \in ListNodes : n = adding
  BY <1>1, <1>3 DEF Types
<1>6. m \in Memories /\ m.base = base /\ base \in Nat /\ m.align = RunnerAlign
  <2>1. RoundUp(bytes, HugeBytes) \in Nat
    BY <1>2, HugeAssumption, RoundUpReaches
  <2>2. base \in Nat /\ HugeBytes \in Nat
    BY <1>4, SizesAssumption, HugeAssumption
  <2>3. (IF huge THEN RoundUp(bytes, HugeBytes) ELSE bytes) \in Nat
    BY <1>2, <2>1
  <2>4. (IF huge THEN HugeBytes ELSE RunAlignment) \in Nat
    BY <1>2, <2>2
  <2> QED
    BY <1>4, <2>2, <2>3, <2>4 DEF Memories, RunnerAlign
<1>7. /\ m.bytes \in Nat \ {0} /\ m.align \in Nat \ {0}
      /\ Place(m.base, m.bytes, m.align)
  BY <1>1, <1>2, <1>4, <1>6, GrantsSuffice
<1>8. HeapInv' /\ \A r \in heap : r.base # base
  <2>1. HowOwned \in {"new", "mmap"}
    BY DEF HowOwned
  <2> QED
    BY <1>1, <1>4, <1>6, <1>7, <2>1, Placed
<1>9. \A k : OfNode(k)' = OfNode(k)
  BY <1>1, <1>3, ConfigKept
<1>10. list' \in [ListNodes -> ListObjects]
  BY <1>1, <1>4, <1>6 DEF Types, ListObjects
<1>11. /\ \A k \in ListNodes : list'[k].used = list[k].used /\ list'[k].external = list[k].external
       /\ \A k \in ListNodes : list'[k].memory = IF k = n THEN m ELSE list[k].memory
  BY <1>1, <1>4, <1>5 DEF Types, ListObjects
<1>12. list[n].used /\ list[n].memory.base = Null
  BY <1>1, <1>5 DEF ByRunner
<1>13. OfNode(m) \in heap' /\ OfNode(m).base = base /\ base # Null
  BY <1>4, <1>6, NullAssumption DEF OfNode, Region
<1>14. ASSUME NEW k \in ListNodes
       PROVE  list[k].memory.base # base
  <2>1. PICK x \in Memories : x = list[k].memory
    BY <1>1 DEF Types, ListObjects
  <2>2. x.base # Null => OfNode(x) \in heap /\ OfNode(x).base = x.base
    BY <1>1, <2>1 DEF ByRunner, OfNode, Region
  <2> QED
    BY <1>8, <1>13, <2>1, <2>2
<1>15. ByRunner'
  <2>1. \A k \in ListNodes, x \in Memories :
          list'[k].memory = x /\ x.base # Null => list'[k].used /\ OfNode(x)' \in heap'
    <3>1. \A k \in ListNodes, x \in Memories :
            list[k].memory = x /\ x.base # Null => list[k].used /\ OfNode(x) \in heap
      BY <1>1 DEF ByRunner
    <3>2. \A x : x \in heap => x \in heap'
      BY <1>4
    <3> QED
      BY <1>9, <1>11, <1>12, <1>13, <3>1, <3>2
  <2>2. \A k \in ListNodes :
          /\ list'[k].used => list'[k].memory.base # Null \/ list'[k].external \/ adding' = k
          /\ adding' = k => list'[k].used /\ list'[k].memory.base = Null
    BY <1>1, <1>3, <1>5, <1>6, <1>11, <1>13, NullAssumption DEF ByRunner
  <2>3. \A k, x \in ListNodes : list'[k].memory.base = list'[x].memory.base
                                  /\ list'[k].memory.base # Null => k = x
    BY <1>1, <1>6, <1>11, <1>14 DEF ByRunner
  <2>4. \A r \in heap' : \E k \in ListNodes : list'[k].memory.base = r.base
    <3>1. TAKE r \in heap'
    <3>2. CASE r \in heap
      <4>1. PICK k \in ListNodes : list[k].memory.base = r.base
        BY <1>1, <3>2 DEF ByRunner
      <4>2. k # n
        BY <1>1, <1>12, <3>2, <4>1, NullAssumption DEF HeapInv, Regions
      <4> QED
        BY <1>11, <4>1, <4>2
    <3>3. CASE r = Region(m.base, m.bytes, m.align, HowOwned)
      BY <1>11, <3>3 DEF Region
    <3> QED
      BY <1>4, <3>2, <3>3
  <2> QED
    BY <2>1, <2>2, <2>3, <2>4 DEF ByRunner
<1>16. adding' \in ListNodes \cup {Null}
  BY <1>3
<1> QED
  BY <1>1, <1>3, <1>8, <1>10, <1>15, <1>16, RunnerFrame

LEMMA ChunkRefused ==
  ASSUME IInv, client = "runner", AddRefused
  PROVE  IInv'
<1>1. ConfigInv /\ HeapInv /\ Types /\ ByRunner /\ wrong = FALSE
  BY DEF IInv, Types
<1>2. /\ adding # Null /\ adding' = Null
      /\ list' = [list EXCEPT ![adding] = NoNode]
      /\ UNCHANGED <<config, heap, chunk, stamped, owner, asked, wrong>>
  BY DEF AddRefused
<1>3. PICK n \in ListNodes : n = adding
  BY <1>1, <1>2 DEF Types
<1>4. NoNode \in ListObjects /\ NoNode.memory.base = Null /\ ~NoNode.used
  BY DEF NoNode, NoMemory, ListObjects, Memories
<1>5. list' \in [ListNodes -> ListObjects]
  BY <1>1, <1>2, <1>3, <1>4 DEF Types
<1>6. \A k \in ListNodes : list'[k] = IF k = n THEN NoNode ELSE list[k]
  BY <1>1, <1>2, <1>3 DEF Types
<1>7. list[n].memory.base = Null
  BY <1>1, <1>3 DEF ByRunner
<1>8. \A k : OfNode(k)' = OfNode(k)
  BY <1>1, <1>2, ConfigKept
<1>9. ByRunner'
  <2>1. ASSUME NEW k \in ListNodes, NEW x \in Memories, list'[k].memory = x, x.base # Null
        PROVE  list'[k].used /\ OfNode(x)' \in heap'
    <3>1. list'[k] = list[k]
      BY <1>4, <1>6, <2>1
    <3>2. list[k].used /\ OfNode(x) \in heap
      BY <1>1, <2>1, <3>1 DEF ByRunner
    <3> QED
      BY <1>2, <1>8, <3>1, <3>2
  <2>2. ASSUME NEW k \in ListNodes
        PROVE  /\ list'[k].used => list'[k].memory.base # Null \/ list'[k].external \/ adding' = k
               /\ adding' = k => list'[k].used /\ list'[k].memory.base = Null
    BY <1>1, <1>2, <1>3, <1>4, <1>6, NullAssumption DEF ByRunner
  <2>3. \A k, x \in ListNodes : list'[k].memory.base = list'[x].memory.base
                                  /\ list'[k].memory.base # Null => k = x
    BY <1>1, <1>4, <1>6 DEF ByRunner
  <2>4. ASSUME NEW r \in heap'
        PROVE  \E k \in ListNodes : list'[k].memory.base = r.base
    <3>1. PICK k \in ListNodes : list[k].memory.base = r.base
      BY <1>1, <1>2 DEF ByRunner
    <3>2. r.base # Null
      BY <1>1, <1>2, NullAssumption DEF HeapInv, Regions
    <3> QED
      BY <1>6, <1>7, <3>1, <3>2
  <2> QED
    BY <2>1, <2>2, <2>3, <2>4 DEF ByRunner
<1>10. HeapInv' /\ adding' \in ListNodes \cup {Null}
  BY <1>1, <1>2, FewerRegions
<1> QED
  BY <1>1, <1>2, <1>5, <1>9, <1>10, RunnerFrame

LEMMA ExternalChunkAdded ==
  ASSUME IInv, client = "runner", NEW n \in ListNodes, AddExternalChunk(n)
  PROVE  IInv'
<1>1. ConfigInv /\ HeapInv /\ Types /\ ByRunner /\ wrong = FALSE
  BY DEF IInv, Types
<1>2. /\ adding = Null /\ \A x \in ListNodes : ~list[x].used
      /\ list' = [list EXCEPT ![n] = [used |-> TRUE, memory |-> NoMemory, external |-> TRUE]]
      /\ UNCHANGED <<config, heap, chunk, stamped, adding, owner, asked, wrong>>
  BY DEF AddExternalChunk
<1>3. PICK e \in ListObjects : /\ e = [used |-> TRUE, memory |-> NoMemory, external |-> TRUE]
                              /\ e.used /\ e.external /\ e.memory.base = Null
  <2>1. NoMemory \in Memories /\ NoMemory.base = Null
    BY DEF NoMemory, Memories
  <2>2. PICK x \in Memories : x = NoMemory /\ x.base = Null
    BY <2>1
  <2>3. PICK e : e = [used |-> TRUE, memory |-> x, external |-> TRUE]
    OBVIOUS
  <2>4. e \in ListObjects /\ e.used /\ e.external /\ e.memory = x
    BY <2>3 DEF ListObjects
  <2> QED
    BY <2>2, <2>3, <2>4
<1>4. list' \in [ListNodes -> ListObjects]
  BY <1>1, <1>2, <1>3 DEF Types
<1>5. \A k \in ListNodes : list'[k] = IF k = n THEN e ELSE list[k]
  BY <1>1, <1>2, <1>3 DEF Types
<1>6. \A k \in ListNodes : list[k].memory.base = Null
  <2>1. TAKE k \in ListNodes
  <2>2. PICK m \in Memories : m = list[k].memory
    BY <1>1 DEF Types, ListObjects
  <2> QED
    BY <1>1, <1>2, <2>2 DEF ByRunner
<1>7. \A k \in ListNodes : list'[k].memory.base = Null
  BY <1>3, <1>5, <1>6
<1>8. heap = {}
  BY <1>1, <1>6, NullAssumption DEF ByRunner, HeapInv, Regions
<1>9. ByRunner'
  <2>1. \A k \in ListNodes : list'[k].used => list'[k].external
    BY <1>2, <1>3, <1>5
  <2> QED
    BY <1>2, <1>7, <1>8, <2>1, NullAssumption DEF ByRunner
<1>10. HeapInv' /\ adding' \in ListNodes \cup {Null}
  BY <1>1, <1>2, FewerRegions
<1> QED
  BY <1>1, <1>2, <1>4, <1>9, <1>10, RunnerFrame

(* The destructor gives every region back: each is the region of a node    *)
(* in the list, released with the length and the alignment it came with.   *)
LEMMA ChunksReleased ==
  ASSUME IInv, client = "runner", ReleaseOwnedChunks
  PROVE  IInv'
<1>1. ConfigInv /\ HeapInv /\ Types /\ ByRunner /\ wrong = FALSE
  BY DEF IInv, Types
<1> DEFINE mine == {n \in ListNodes : list[n].memory.base # Null}
           back == [n \in ListNodes |->
                      [list[n].memory EXCEPT !.align = IF huge THEN HugeBytes
                                                       ELSE RunAlignment]]
<1>2. /\ adding = Null
      /\ heap' = heap \ UNION {ReleasedBy(back[n]) : n \in mine}
      /\ wrong' = (wrong \/ \E n \in mine : ~Matches(back[n]))
      /\ list' = [n \in ListNodes |-> NoNode]
      /\ UNCHANGED <<config, chunk, stamped, adding, owner, asked>>
  BY DEF ReleaseOwnedChunks
<1>3. ASSUME NEW n \in mine
      PROVE  /\ Matches(back[n])
             /\ \A r \in heap : r.base = list[n].memory.base => r \in ReleasedBy(back[n])
  <2>1. PICK m \in Memories : m = list[n].memory /\ m.base # Null
    BY <1>1 DEF Types, ListObjects
  <2>2. PICK b : b = back[n]
    OBVIOUS
  <2>3. b.base = m.base /\ b.bytes = m.bytes /\ b.align = RunnerAlign
    BY <2>1, <2>2 DEF Memories, RunnerAlign
  <2>4. OfNode(m) \in heap /\ OfOwner(b) = OfNode(m)
    BY <1>1, <2>1, <2>3 DEF ByRunner, OfNode, OfOwner
  <2>5. ReleasedBy(b) = {OfOwner(b)} /\ Matches(b)
    BY <1>1, <2>1, <2>3, <2>4, ReleasesOne
  <2>6. OfNode(m).base = m.base
    BY DEF OfNode, Region
  <2>7. \A r \in heap : r.base = m.base => r = OfNode(m)
    BY <1>1, <2>4, <2>6, OneRegion
  <2> HIDE DEF back
  <2> QED
    BY <2>1, <2>2, <2>4, <2>5, <2>7
<1>4. heap' = {}
  <2>1. ASSUME NEW r \in heap
        PROVE  \E n \in mine : r \in ReleasedBy(back[n])
    <3>1. PICK n \in ListNodes : list[n].memory.base = r.base
      BY <1>1 DEF ByRunner
    <3>2. n \in mine
      BY <1>1, <3>1, NullAssumption DEF HeapInv, Regions
    <3> QED
      BY <1>3, <3>1, <3>2
  <2> HIDE DEF back, mine
  <2> QED
    BY <1>2, <2>1
<1>5. wrong' = FALSE
  <2> HIDE DEF back, mine
  <2> QED
    BY <1>1, <1>2, <1>3
<1>6. NoNode \in ListObjects /\ NoNode.memory.base = Null /\ ~NoNode.used
  BY DEF NoNode, NoMemory, ListObjects, Memories
<1>7. list' \in [ListNodes -> ListObjects] /\ adding' = Null
      /\ \A n \in ListNodes : list'[n] = NoNode
  BY <1>2, <1>6
<1>8. HeapInv' /\ ByRunner'
  BY <1>4, <1>6, <1>7, NullAssumption DEF HeapInv, ByRunner
<1> QED
  BY <1>2, <1>5, <1>7, <1>8, RunnerFrame

-----------------------------------------------------------------------------
(* Chunks.                                                                 *)

(* What no step of a chunk touches.                                        *)
LEMMA ChunkFrame ==
  ASSUME IInv, client = "chunks", UNCHANGED <<config, list, adding, owner, asked>>,
         wrong' = FALSE, HeapInv', ByChunks', StampInv',
         chunk' \in [Chunks -> ChunkObjects]
  PROVE  IInv'
<1>1. ConfigInv /\ Types /\ NoList /\ NoOwner
  BY DEF IInv, Types
<1>2. ConfigInv' /\ client' = client
  BY <1>1, ConfigKept
<1>3. Types'
  BY <1>1, <1>2 DEF Types
<1>4. NoList' /\ NoOwner'
  BY <1>1 DEF NoList, NoOwner
<1> QED
  BY <1>2, <1>3, <1>4 DEF IInv

(* Regions share no address.                                               *)
LEMMA AddressOfOne ==
  ASSUME HeapInv, NEW r \in heap, NEW s \in heap, NEW a \in Int,
         a \in r.base .. r.base + r.bytes - 1, a \in s.base .. s.base + s.bytes - 1
  PROVE  r = s
<1>1. r \in Regions /\ s \in Regions
  BY DEF HeapInv
<1>2. Overlaps(r, s.base, s.bytes)
  BY <1>1 DEF Regions, Overlaps
<1> QED
  BY <1>2 DEF HeapInv

(* The headers of a chunk lie in its region; the first is at its start.    *)
LEMMA BasesInside ==
  ASSUME ConfigInv, headers, NEW sz \in Nat \ {0}, NEW base \in Nat
  PROVE  /\ \A a \in GranuleBases(base, sz) :
               a \in Int /\ a \in base .. base + ChunkBytes(sz) - 1
         /\ base \in GranuleBases(base, sz)
<1>1. PICK G \in Nat \ {0} : G = Granules(sz) /\ ChunkBytes(sz) = G * ChunkLayout.granule
  BY ChunkSizes
<1>2. PICK w \in Nat \ {0} : w = ChunkLayout.granule
  BY LayoutFacts, LayoutFields
<1>3. ASSUME NEW g \in 0 .. G - 1
      PROVE  base + g * w \in Int /\ base + g * w \in base .. base + G * w - 1
  <2>1. g * w \in Nat /\ G * w \in Nat
    BY ProductType
  <2>2. g * w + w <= G * w
    BY ProductGrows
  <2> QED
    BY <2>1, <2>2
<1>4. GranuleBases(base, sz) = {base + g * w : g \in 0 .. G - 1}
  BY <1>1, <1>2 DEF GranuleBases
<1>5. 0 \in 0 .. G - 1 /\ base + 0 * w = base
  OBVIOUS
<1>6. base \in GranuleBases(base, sz)
  BY <1>4, <1>5
<1>7. \A a \in GranuleBases(base, sz) : \E g \in 0 .. G - 1 : a = base + g * w
  BY <1>4
<1> QED
  BY <1>1, <1>2, <1>3, <1>6, <1>7

(* Two chunks with memory have no region in common, so no header either.   *)
LEMMA ChunksApart ==
  ASSUME ConfigInv, HeapInv, ByChunks, chunk \in [Chunks -> ChunkObjects], headers,
         NEW c \in Chunks, NEW d \in Chunks, c # d,
         NEW k \in ChunkObjects, k = chunk[c], k.nodes # Null,
         NEW l \in ChunkObjects, l = chunk[d], l.nodes # Null,
         NEW a \in GranuleBases(l.nodes, l.count)
  PROVE  a \notin k.nodes .. k.nodes + ChunkBytes(k.count) - 1
<1>1. /\ OfChunk(k) \in heap /\ k.count \in Nat \ {0} /\ k.nodes \in Nat
      /\ OfChunk(l) \in heap /\ l.count \in Nat \ {0} /\ l.nodes \in Nat
  BY DEF ByChunks, ChunkHolds, ChunkObjects
<1>2. /\ OfChunk(k).base = k.nodes /\ OfChunk(k).bytes = ChunkBytes(k.count)
      /\ OfChunk(l).base = l.nodes /\ OfChunk(l).bytes = ChunkBytes(l.count)
  BY DEF OfChunk, Region
<1>3. a \in Int /\ a \in l.nodes .. l.nodes + ChunkBytes(l.count) - 1
  BY <1>1, BasesInside
<1>4. OfChunk(k) # OfChunk(l)
  <2>1. k.nodes # l.nodes
    BY DEF ByChunks
  <2> QED
    BY <1>2, <2>1
<1> QED
  BY <1>1, <1>2, <1>3, <1>4, AddressOfOne

LEMMA ChunkConstructs ==
  ASSUME IInv, client = "chunks", NEW c \in Chunks, NEW sz \in SlotCounts, Construct(c, sz)
  PROVE  IInv'
<1>1. /\ ConfigInv /\ HeapInv /\ Types /\ ByChunks /\ StampInv /\ wrong = FALSE
      /\ chunk \in [Chunks -> ChunkObjects]
  BY DEF IInv, Types
<1>2. /\ ~chunk[c].alive
      /\ UNCHANGED <<config, list, adding, owner, asked, wrong>>
  BY DEF Construct
<1>3. PICK base \in 0 .. MemBytes - 1 :
        /\ Place(base, ChunkBytes(sz), ChunkAlign)
        /\ heap' = heap \cup {Region(base, ChunkBytes(sz), ChunkAlign, "new")}
        /\ chunk' = [chunk EXCEPT ![c] = [alive |-> TRUE, count |-> sz,
                                          align |-> ChunkAlign, nodes |-> base]]
        /\ stamped' = IF ~headers THEN stamped
                      ELSE [a \in DOMAIN stamped \cup GranuleBases(base, sz) |->
                              IF a \in DOMAIN stamped THEN stamped[a] ELSE Null]
  BY DEF Construct
<1>4. sz \in Nat \ {0} /\ base \in Nat /\ base # Null
  BY SizesAssumption, NullAssumption
<1>5. /\ ChunkBytes(sz) \in Nat \ {0} /\ ChunkAlign \in Nat \ {0}
      /\ headers => ChunkAlign = ChunkLayout.granule
  BY <1>1, <1>4, ChunkSizes
<1>6. /\ HeapInv'
      /\ \A r \in heap : ~Overlaps(r, base, ChunkBytes(sz)) /\ r.base # base
      /\ base % ChunkAlign = 0
  BY <1>1, <1>3, <1>4, <1>5, Placed
<1>7. PICK new : new = [alive |-> TRUE, count |-> sz, align |-> ChunkAlign, nodes |-> base]
  OBVIOUS
<1>8. /\ new \in ChunkObjects /\ new.alive /\ new.nodes = base /\ new.count = sz
      /\ new.align = ChunkAlign
  BY <1>4, <1>5, <1>7 DEF ChunkObjects
<1>9. chunk' = [chunk EXCEPT ![c] = new]
  BY <1>3, <1>7
<1>10. /\ chunk' \in [Chunks -> ChunkObjects]
       /\ \A d \in Chunks : chunk'[d] = IF d = c THEN new ELSE chunk[d]
  BY <1>1, <1>8, <1>9
<1>11. PICK it : it = Region(base, ChunkBytes(sz), ChunkAlign, "new")
  OBVIOUS
<1>12. /\ heap' = heap \cup {it} /\ it.base = base /\ it.bytes = ChunkBytes(sz)
       /\ OfChunk(new) = it
  BY <1>3, <1>8, <1>11 DEF Region, OfChunk
<1>13. /\ headers' = headers /\ ChunkLayout' = ChunkLayout
       /\ \A b, n : GranuleBases(b, n)' = GranuleBases(b, n)
       /\ \A k : OfChunk(k)' = OfChunk(k)
  BY <1>1, <1>2, ConfigKept
<1>14. chunk[c].nodes = Null
  BY <1>1, <1>2 DEF ByChunks
<1>15. ASSUME NEW d \in Chunks, NEW k \in ChunkObjects, chunk[d] = k, k.nodes # Null
       PROVE  OfChunk(k) \in heap /\ k.count \in Nat \ {0} /\ k.nodes # base
  <2>1. OfChunk(k) \in heap /\ k.count \in Nat \ {0}
    BY <1>1, <1>15 DEF ByChunks, ChunkHolds
  <2>2. OfChunk(k).base = k.nodes
    BY DEF OfChunk, Region
  <2> QED
    BY <1>6, <2>1, <2>2
<1>16. ByChunks'
  <2>1. \A d \in Chunks : ~chunk'[d].alive => chunk'[d].nodes = Null
    BY <1>1, <1>8, <1>10 DEF ByChunks
  <2>2. ASSUME NEW d \in Chunks, NEW k \in ChunkObjects, chunk'[d] = k, k.nodes # Null
        PROVE  ChunkHolds(k)'
    <3>1. k.count \in Nat \ {0} /\ OfChunk(k) \in heap'
      <4>1. CASE d = c
        BY <1>4, <1>8, <1>10, <1>12, <2>2, <4>1
      <4>2. CASE d # c
        BY <1>10, <1>12, <1>15, <2>2, <4>2
      <4> QED
        BY <4>1, <4>2
    <3> QED
      BY <1>13, <3>1 DEF ChunkHolds
  <2>3. ASSUME NEW d \in Chunks, NEW e \in Chunks, chunk'[d].nodes = chunk'[e].nodes,
               chunk'[d].nodes # Null
        PROVE  d = e
    <3>1. PICK k \in ChunkObjects, l \in ChunkObjects : k = chunk[d] /\ l = chunk[e]
      BY <1>1
    <3>2. CASE d # c /\ e # c
      BY <1>1, <1>10, <2>3, <3>2 DEF ByChunks
    <3>3. CASE d = c /\ e # c
      BY <1>4, <1>8, <1>10, <1>15, <2>3, <3>1, <3>3
    <3>4. CASE d # c /\ e = c
      BY <1>4, <1>8, <1>10, <1>15, <2>3, <3>1, <3>4
    <3> QED
      BY <3>2, <3>3, <3>4
  <2>4. ASSUME NEW r \in heap'
        PROVE  \E d \in Chunks : chunk'[d].nodes = r.base
    <3>1. CASE r = it
      BY <1>8, <1>10, <1>12, <3>1
    <3>2. CASE r \in heap
      <4>1. PICK d \in Chunks : chunk[d].nodes = r.base
        BY <1>1, <3>2 DEF ByChunks
      <4>2. r.base # Null
        BY <1>1, <3>2, NullAssumption DEF HeapInv, Regions
      <4> QED
        BY <1>10, <1>14, <4>1, <4>2
    <3> QED
      BY <1>12, <3>1, <3>2
  <2> QED
    BY <2>1, <2>2, <2>3, <2>4 DEF ByChunks
<1>17. ASSUME headers
       PROVE  /\ \A a \in GranuleBases(base, sz) :
                    a \in Int /\ a \in base .. base + ChunkBytes(sz) - 1 /\ a \notin DOMAIN stamped
              /\ base \in GranuleBases(base, sz)
              /\ DOMAIN stamped' = DOMAIN stamped \cup GranuleBases(base, sz)
              /\ \A a \in GranuleBases(base, sz) : stamped'[a] = Null
              /\ \A a \in DOMAIN stamped : stamped'[a] = stamped[a]
  <2>1. /\ \A a \in GranuleBases(base, sz) :
             a \in Int /\ a \in base .. base + ChunkBytes(sz) - 1
        /\ base \in GranuleBases(base, sz)
    BY <1>1, <1>4, <1>17, BasesInside
  <2>2. ASSUME NEW a \in GranuleBases(base, sz), a \in DOMAIN stamped
        PROVE  FALSE
    <3>1. PICK r \in heap : a \in r.base .. r.base + r.bytes - 1
      BY <1>1, <2>2 DEF StampInv
    <3>2. r \in Regions /\ it \in heap' /\ r \in heap'
      BY <1>1, <1>12 DEF HeapInv
    <3>3. ~Overlaps(r, base, ChunkBytes(sz))
      BY <1>6
    <3> QED
      BY <1>4, <1>5, <2>1, <3>1, <3>2, <3>3 DEF Overlaps, Regions
  <2>3. stamped' = [a \in DOMAIN stamped \cup GranuleBases(base, sz) |->
                      IF a \in DOMAIN stamped THEN stamped[a] ELSE Null]
    BY <1>3, <1>17
  <2> QED
    BY <2>1, <2>2, <2>3
<1>18. StampInv'
  <2>1. ASSUME NEW a \in DOMAIN stamped'
        PROVE  a \in Int /\ \E r \in heap' : a \in r.base .. r.base + r.bytes - 1
    <3>1. CASE a \in DOMAIN stamped
      BY <1>1, <1>12, <3>1 DEF StampInv
    <3>2. CASE a \notin DOMAIN stamped
      <4>1. headers /\ a \in GranuleBases(base, sz)
        BY <1>3, <1>17, <2>1, <3>2
      <4> QED
        BY <1>12, <1>17, <4>1
    <3> QED
      BY <3>1, <3>2
  <2>2. ASSUME headers, NEW d \in Chunks, NEW k \in ChunkObjects, chunk'[d] = k, k.nodes # Null
        PROVE  Stamped(k)'
    <3>1. CASE d = c
      <4>1. k.nodes = base /\ k.count = sz /\ k.align = ChunkLayout.granule
        BY <1>5, <1>8, <1>10, <2>2, <3>1
      <4>2. \E m \in Nat : k.nodes = m * k.align
        <5>1. PICK q \in Int, r \in 0 .. ChunkAlign - 1 :
                 /\ base \div ChunkAlign = q /\ base % ChunkAlign = r
                 /\ base = q * ChunkAlign + r /\ (base >= 0 => q >= 0)
          BY <1>4, <1>5, Divides
        <5>2. q * ChunkAlign \in Int
          BY <1>5, <5>1, ProductType
        <5>3. base = q * ChunkAlign /\ q \in Nat
          BY <1>4, <1>5, <1>6, <5>1, <5>2
        <5> QED
          BY <1>5, <2>2, <4>1, <5>3
      <4>3. \A a \in GranuleBases(k.nodes, k.count) :
              a \in DOMAIN stamped' /\ stamped'[a] = stamped'[k.nodes]
        BY <1>17, <2>2, <4>1
      <4> QED
        BY <1>13, <4>1, <4>2, <4>3 DEF Stamped
    <3>2. CASE d # c
      <4>1. chunk[d] = k
        BY <1>10, <2>2, <3>2
      <4>2. Stamped(k) /\ k.count \in Nat \ {0} /\ k.nodes \in Nat
        BY <1>1, <1>15, <2>2, <4>1 DEF StampInv, ChunkObjects
      <4>3. k.nodes \in GranuleBases(k.nodes, k.count)
        BY <1>1, <2>2, <4>2, BasesInside
      <4>4. \A a \in GranuleBases(k.nodes, k.count) :
              a \in DOMAIN stamped' /\ stamped'[a] = stamped'[k.nodes]
        BY <1>17, <2>2, <4>2, <4>3 DEF Stamped
      <4> QED
        BY <1>13, <4>2, <4>4 DEF Stamped
    <3> QED
      BY <3>1, <3>2
  <2> QED
    BY <1>13, <2>1, <2>2 DEF StampInv
<1> QED
  BY <1>1, <1>2, <1>6, <1>10, <1>16, <1>18, ChunkFrame

LEMMA EmptyConstructs ==
  ASSUME IInv, client = "chunks", NEW c \in Chunks, ConstructEmpty(c)
  PROVE  IInv'
<1>1. /\ ConfigInv /\ HeapInv /\ Types /\ ByChunks /\ StampInv /\ wrong = FALSE
      /\ chunk \in [Chunks -> ChunkObjects]
  BY DEF IInv, Types
<1>2. /\ ~chunk[c].alive /\ chunk' = [chunk EXCEPT ![c] = EmptyChunk]
      /\ UNCHANGED <<config, heap, stamped, list, adding, owner, asked, wrong>>
  BY DEF ConstructEmpty
<1>3. EmptyChunk \in ChunkObjects /\ EmptyChunk.nodes = Null
  BY <1>1, LayoutFacts DEF EmptyChunk, ChunkObjects
<1>4. /\ chunk' \in [Chunks -> ChunkObjects]
      /\ \A d \in Chunks : chunk'[d] = IF d = c THEN EmptyChunk ELSE chunk[d]
  BY <1>1, <1>2, <1>3
<1>5. chunk[c].nodes = Null
  BY <1>1, <1>2 DEF ByChunks
<1>6. \A d \in Chunks : chunk'[d].nodes = chunk[d].nodes
  BY <1>3, <1>4, <1>5
<1>7. \A d \in Chunks : chunk'[d].nodes # Null => chunk'[d] = chunk[d]
  BY <1>3, <1>4
<1>8. /\ headers' = headers /\ ChunkLayout' = ChunkLayout
      /\ \A b, n : GranuleBases(b, n)' = GranuleBases(b, n)
      /\ \A k : OfChunk(k)' = OfChunk(k)
  BY <1>1, <1>2, ConfigKept
<1>9. ByChunks'
  <2>1. \A d \in Chunks : ~chunk'[d].alive => chunk'[d].nodes = Null
    BY <1>1, <1>3, <1>4 DEF ByChunks
  <2>2. ASSUME NEW d \in Chunks, NEW k \in ChunkObjects, chunk'[d] = k, k.nodes # Null
        PROVE  ChunkHolds(k)'
    <3>1. ChunkHolds(k)
      BY <1>1, <1>7, <2>2 DEF ByChunks
    <3> QED
      BY <1>2, <1>8, <3>1 DEF ChunkHolds
  <2>3. \A d, e \in Chunks : chunk'[d].nodes = chunk'[e].nodes /\ chunk'[d].nodes # Null => d = e
    BY <1>1, <1>6 DEF ByChunks
  <2>4. \A r \in heap' : \E d \in Chunks : chunk'[d].nodes = r.base
    BY <1>1, <1>2, <1>6 DEF ByChunks
  <2> QED
    BY <2>1, <2>2, <2>3, <2>4 DEF ByChunks
<1>10. StampInv'
  <2>1. \A a \in DOMAIN stamped' :
          a \in Int /\ \E r \in heap' : a \in r.base .. r.base + r.bytes - 1
    BY <1>1, <1>2 DEF StampInv
  <2>2. ASSUME headers, NEW d \in Chunks, NEW k \in ChunkObjects, chunk'[d] = k, k.nodes # Null
        PROVE  Stamped(k)'
    <3>1. Stamped(k)
      BY <1>1, <1>7, <2>2 DEF StampInv
    <3> QED
      BY <1>2, <1>8, <3>1 DEF Stamped
  <2> QED
    BY <1>8, <2>1, <2>2 DEF StampInv
<1>11. HeapInv'
  BY <1>1, <1>2, FewerRegions
<1> QED
  BY <1>1, <1>2, <1>4, <1>9, <1>10, <1>11, ChunkFrame

LEMMA ChunkStamps ==
  ASSUME IInv, client = "chunks", NEW c \in Chunks, NEW p \in Pools, StampOwner(c, p)
  PROVE  IInv'
<1>1. /\ ConfigInv /\ HeapInv /\ Types /\ ByChunks /\ StampInv /\ wrong = FALSE
      /\ chunk \in [Chunks -> ChunkObjects]
  BY DEF IInv, Types
<1>2. PICK k \in ChunkObjects : k = chunk[c]
  BY <1>1
<1>3. /\ headers /\ k.nodes # Null
      /\ stamped' = [a \in DOMAIN stamped |->
                       IF a \in GranuleBases(k.nodes, k.count) THEN p ELSE stamped[a]]
      /\ UNCHANGED <<config, heap, chunk, list, adding, owner, asked, wrong>>
  BY <1>2 DEF StampOwner
<1>4. /\ DOMAIN stamped' = DOMAIN stamped
      /\ \A a \in DOMAIN stamped :
            stamped'[a] = IF a \in GranuleBases(k.nodes, k.count) THEN p ELSE stamped[a]
  BY <1>3
<1>5. /\ headers' = headers /\ ChunkLayout' = ChunkLayout
      /\ \A b, n : GranuleBases(b, n)' = GranuleBases(b, n)
      /\ \A l : OfChunk(l)' = OfChunk(l)
  BY <1>1, <1>3, ConfigKept
<1>6. ByChunks'
  <2>1. ASSUME NEW d \in Chunks, NEW l \in ChunkObjects, chunk'[d] = l, l.nodes # Null
        PROVE  ChunkHolds(l)'
    <3>1. ChunkHolds(l)
      BY <1>1, <1>3, <2>1 DEF ByChunks
    <3> QED
      BY <1>3, <1>5, <3>1 DEF ChunkHolds
  <2> QED
    BY <1>1, <1>3, <2>1 DEF ByChunks
<1>7. StampInv'
  <2>1. \A a \in DOMAIN stamped' :
          a \in Int /\ \E r \in heap' : a \in r.base .. r.base + r.bytes - 1
    BY <1>1, <1>3, <1>4 DEF StampInv
  <2>2. ASSUME NEW d \in Chunks, NEW l \in ChunkObjects, chunk'[d] = l, l.nodes # Null
        PROVE  Stamped(l)'
    <3>1. chunk[d] = l
      BY <1>3, <2>2
    <3>2. Stamped(l) /\ l.count \in Nat \ {0} /\ l.nodes \in Nat
      BY <1>1, <1>3, <2>2, <3>1 DEF StampInv, ByChunks, ChunkHolds, ChunkObjects
    <3>3. l.nodes \in GranuleBases(l.nodes, l.count)
      BY <1>1, <1>3, <3>2, BasesInside
    <3>4. \A a \in GranuleBases(l.nodes, l.count) :
            a \in DOMAIN stamped' /\ stamped'[a] = stamped'[l.nodes]
      <4>1. CASE d = c
        BY <1>2, <1>4, <3>1, <3>2, <3>3, <4>1 DEF Stamped
      <4>2. CASE d # c
        <5>1. \A a \in GranuleBases(l.nodes, l.count) : a \notin GranuleBases(k.nodes, k.count)
          <6>1. TAKE a \in GranuleBases(l.nodes, l.count)
          <6>2. a \notin k.nodes .. k.nodes + ChunkBytes(k.count) - 1
            BY <1>1, <1>2, <1>3, <2>2, <3>1, <4>2, ChunksApart
          <6>3. k.count \in Nat \ {0} /\ k.nodes \in Nat
            BY <1>1, <1>2, <1>3 DEF ByChunks, ChunkHolds, ChunkObjects
          <6> QED
            BY <1>1, <1>3, <6>2, <6>3, BasesInside
        <5> QED
          BY <1>4, <3>2, <3>3, <5>1 DEF Stamped
      <4> QED
        BY <4>1, <4>2
    <3> QED
      BY <1>5, <3>2, <3>4 DEF Stamped
  <2> QED
    BY <2>1, <2>2 DEF StampInv
<1>8. HeapInv' /\ chunk' \in [Chunks -> ChunkObjects]
  BY <1>1, <1>3, FewerRegions
<1> QED
  BY <1>1, <1>3, <1>6, <1>7, <1>8, ChunkFrame

(* A release removes the region of chunk c, with the headers in it, and    *)
(* leaves to every other chunk what is its.                                *)
LEMMA ReleaseLeavesOthers ==
  ASSUME IInv, client = "chunks", NEW c \in Chunks, Release(chunk[c]), UNCHANGED config
  PROVE  /\ wrong' = FALSE /\ HeapInv'
         /\ \A e \in Chunks \ {c}, k \in ChunkObjects :
               chunk[e] = k /\ k.nodes # Null => ChunkHolds(k)' /\ (headers => Stamped(k)')
         /\ \A a \in DOMAIN stamped' :
               a \in Int /\ \E r \in heap' : a \in r.base .. r.base + r.bytes - 1
         /\ \A r \in heap' : \E e \in Chunks \ {c} : chunk[e].nodes = r.base
<1>1. /\ ConfigInv /\ HeapInv /\ ByChunks /\ StampInv /\ wrong = FALSE
      /\ chunk \in [Chunks -> ChunkObjects]
  BY DEF IInv, Types
<1>2. PICK kc \in ChunkObjects : kc = chunk[c]
  BY <1>1
<1>3. /\ headers' = headers /\ ChunkLayout' = ChunkLayout
      /\ \A b, n : GranuleBases(b, n)' = GranuleBases(b, n)
      /\ \A k : OfChunk(k)' = OfChunk(k)
  BY <1>1, ConfigKept
<1>4. \A r \in heap : r \in Regions /\ r.base # Null
  BY <1>1, NullAssumption DEF HeapInv, Regions
<1>5. CASE kc.nodes = Null
  <2>1. UNCHANGED <<heap, stamped, wrong>>
    BY <1>2, <1>5 DEF Release
  <2>2. ASSUME NEW e \in Chunks \ {c}, NEW k \in ChunkObjects, chunk[e] = k, k.nodes # Null
        PROVE  ChunkHolds(k)' /\ (headers => Stamped(k)')
    <3>1. ChunkHolds(k) /\ (headers => Stamped(k))
      BY <1>1, <2>2 DEF ByChunks, StampInv
    <3>2. ChunkHolds(k)'
      BY <1>3, <2>1, <3>1 DEF ChunkHolds
    <3>3. headers => Stamped(k)'
      BY <1>3, <2>1, <3>1 DEF Stamped
    <3> QED
      BY <3>2, <3>3
  <2>3. \A r \in heap' : \E e \in Chunks \ {c} : chunk[e].nodes = r.base
    BY <1>1, <1>2, <1>4, <1>5, <2>1 DEF ByChunks
  <2>4. \A a \in DOMAIN stamped' :
               a \in Int /\ \E r \in heap' : a \in r.base .. r.base + r.bytes - 1
    BY <1>1, <2>1 DEF StampInv
  <2>5. HeapInv' /\ wrong' = FALSE
    BY <1>1, <2>1, FewerRegions
  <2> QED
    BY <2>2, <2>3, <2>4, <2>5
<1>6. CASE kc.nodes # Null
  <2>1. PICK it \in heap : /\ it = OfChunk(kc) /\ it.base = kc.nodes
                           /\ it.bytes = ChunkBytes(kc.count)
    BY <1>1, <1>2, <1>6 DEF ByChunks, ChunkHolds, OfChunk, Region
  <2>2. Deleted(kc.nodes, kc.align) = {it}
    BY <1>1, <2>1, DeletesOne DEF OfChunk
  <2>3. PICK gone : gone = Deleted(kc.nodes, kc.align)
    OBVIOUS
  <2>4. /\ heap' = heap \ gone
        /\ wrong' = (wrong \/ gone = {})
        /\ stamped' = [a \in {a \in DOMAIN stamped :
                                \A r \in gone : a \notin r.base .. r.base + r.bytes - 1}
                         |-> stamped[a]]
    BY <1>2, <1>6, <2>3 DEF Release
  <2>5. heap' = heap \ {it} /\ wrong' = FALSE
    BY <1>1, <2>2, <2>3, <2>4
  <2>6. /\ \A a : a \in DOMAIN stamped' <=> a \in DOMAIN stamped
                                            /\ a \notin it.base .. it.base + it.bytes - 1
        /\ \A a \in DOMAIN stamped' : stamped'[a] = stamped[a]
    BY <2>2, <2>3, <2>4
  <2>7. ASSUME NEW e \in Chunks \ {c}, NEW k \in ChunkObjects, chunk[e] = k, k.nodes # Null
        PROVE  ChunkHolds(k)' /\ (headers => Stamped(k)')
    <3>1. ChunkHolds(k) /\ (headers => Stamped(k))
      BY <1>1, <2>7 DEF ByChunks, StampInv
    <3>2. k.nodes # kc.nodes
      BY <1>1, <1>2, <2>7 DEF ByChunks
    <3>3. OfChunk(k).base = k.nodes
      BY DEF OfChunk, Region
    <3>4. OfChunk(k) \in heap'
      BY <2>1, <2>5, <3>1, <3>2, <3>3 DEF ChunkHolds
    <3>5. ChunkHolds(k)'
      BY <1>3, <3>1, <3>4 DEF ChunkHolds
    <3>6. ASSUME headers
          PROVE  Stamped(k)'
      <4>1. ASSUME NEW a \in GranuleBases(k.nodes, k.count)
            PROVE  a \in DOMAIN stamped' /\ stamped'[a] = stamped[a]
        <5>1. a \notin kc.nodes .. kc.nodes + ChunkBytes(kc.count) - 1
          BY <1>1, <1>2, <1>6, <2>7, <3>6, ChunksApart
        <5>2. a \in DOMAIN stamped
          BY <3>1, <3>6 DEF Stamped
        <5> QED
          BY <2>1, <2>6, <5>1, <5>2
      <4>2. k.nodes \in GranuleBases(k.nodes, k.count)
        <5>1. k.count \in Nat \ {0} /\ k.nodes \in Nat
          BY <2>7, <3>1 DEF ChunkHolds, ChunkObjects
        <5> QED
          BY <1>1, <3>6, <5>1, BasesInside
      <4>3. \A a \in GranuleBases(k.nodes, k.count) :
              a \in DOMAIN stamped' /\ stamped'[a] = stamped'[k.nodes]
        BY <3>1, <3>6, <4>1, <4>2 DEF Stamped
      <4>4. k.align = ChunkLayout.granule /\ \E m \in Nat : k.nodes = m * k.align
        BY <3>1, <3>6 DEF Stamped
      <4> QED
        BY <1>3, <4>3, <4>4 DEF Stamped
    <3> QED
      BY <3>5, <3>6
  <2>8. ASSUME NEW a \in DOMAIN stamped'
        PROVE  a \in Int /\ \E r \in heap' : a \in r.base .. r.base + r.bytes - 1
    <3>1. a \in DOMAIN stamped /\ a \notin it.base .. it.base + it.bytes - 1
      BY <2>6, <2>8
    <3>2. a \in Int
      BY <1>1, <3>1 DEF StampInv
    <3>3. PICK r \in heap : a \in r.base .. r.base + r.bytes - 1
      BY <1>1, <3>1 DEF StampInv
    <3>4. r \in heap'
      BY <2>5, <3>1, <3>3
    <3> QED
      BY <3>2, <3>3, <3>4
  <2>9. ASSUME NEW r \in heap'
        PROVE  \E e \in Chunks \ {c} : chunk[e].nodes = r.base
    <3>1. r \in heap /\ r # it
      BY <2>5
    <3>2. PICK e \in Chunks : chunk[e].nodes = r.base
      BY <1>1, <3>1 DEF ByChunks
    <3>3. e # c
      BY <1>1, <1>2, <2>1, <3>1, <3>2, OneRegion
    <3> QED
      BY <3>2, <3>3
  <2>10. HeapInv'
    BY <1>1, <2>5, FewerRegions
  <2> QED
    BY <2>5, <2>7, <2>8, <2>9, <2>10
<1> QED
  BY <1>5, <1>6

(* Whatever becomes of the objects after a release: if each chunk with     *)
(* memory is one of the others from before, and each of those is still     *)
(* somewhere, once, the invariant is kept.                                 *)
LEMMA ChunksMoved ==
  ASSUME IInv, client = "chunks", NEW c \in Chunks, Release(chunk[c]),
         UNCHANGED <<config, list, adding, owner, asked>>,
         chunk' \in [Chunks -> ChunkObjects],
         \A d \in Chunks : ~chunk'[d].alive => chunk'[d].nodes = Null,
         \A d \in Chunks : chunk'[d].nodes # Null => \E e \in Chunks \ {c} : chunk'[d] = chunk[e],
         \A e \in Chunks \ {c} : chunk[e].nodes # Null => \E d \in Chunks : chunk'[d] = chunk[e],
         \A d, e \in Chunks : chunk'[d].nodes = chunk'[e].nodes /\ chunk'[d].nodes # Null => d = e
  PROVE  IInv'
<1>1. /\ wrong' = FALSE /\ HeapInv'
      /\ \A e \in Chunks \ {c}, k \in ChunkObjects :
            chunk[e] = k /\ k.nodes # Null => ChunkHolds(k)' /\ (headers => Stamped(k)')
      /\ \A a \in DOMAIN stamped' :
            a \in Int /\ \E r \in heap' : a \in r.base .. r.base + r.bytes - 1
      /\ \A r \in heap' : \E e \in Chunks \ {c} : chunk[e].nodes = r.base
  BY ReleaseLeavesOthers
<1>2. headers' = headers
  BY ConfigKept DEF IInv, Types
<1>3. ASSUME NEW d \in Chunks, NEW k \in ChunkObjects, chunk'[d] = k, k.nodes # Null
      PROVE  ChunkHolds(k)' /\ (headers => Stamped(k)')
  <2>1. PICK e \in Chunks \ {c} : chunk[e] = k
    BY <1>3
  <2> QED
    BY <1>1, <1>3, <2>1
<1>4. ASSUME NEW r \in heap'
      PROVE  \E d \in Chunks : chunk'[d].nodes = r.base
  <2>1. PICK e \in Chunks \ {c} : chunk[e].nodes = r.base
    BY <1>1
  <2>2. r.base # Null
    BY <1>1, NullAssumption DEF HeapInv, Regions
  <2> QED
    BY <2>1, <2>2
<1>5. ByChunks'
  BY <1>3, <1>4 DEF ByChunks
<1>6. StampInv'
  BY <1>1, <1>2, <1>3 DEF StampInv
<1> QED
  BY <1>1, <1>5, <1>6, ChunkFrame

LEMMA ChunkDestroyed ==
  ASSUME IInv, client = "chunks", NEW c \in Chunks, Destroy(c)
  PROVE  IInv'
<1>1. ByChunks /\ chunk \in [Chunks -> ChunkObjects]
  BY DEF IInv, Types
<1>2. /\ Release(chunk[c]) /\ chunk' = [chunk EXCEPT ![c] = NoChunk]
      /\ UNCHANGED <<config, list, adding, owner, asked>>
  BY DEF Destroy
<1>3. NoChunk \in ChunkObjects /\ NoChunk.nodes = Null
  BY DEF NoChunk, ChunkObjects
<1>4. /\ chunk' \in [Chunks -> ChunkObjects]
      /\ \A d \in Chunks : chunk'[d] = IF d = c THEN NoChunk ELSE chunk[d]
  BY <1>1, <1>2, <1>3
<1>5. \A d \in Chunks : ~chunk'[d].alive => chunk'[d].nodes = Null
  BY <1>1, <1>3, <1>4 DEF ByChunks
<1>6. \A d \in Chunks : chunk'[d].nodes # Null => d # c
  BY <1>3, <1>4
<1>7. \A d, e \in Chunks : chunk'[d].nodes = chunk'[e].nodes /\ chunk'[d].nodes # Null => d = e
  BY <1>1, <1>4, <1>6 DEF ByChunks
<1>8. \A d \in Chunks : chunk'[d].nodes # Null => \E e \in Chunks \ {c} : chunk'[d] = chunk[e]
  BY <1>4, <1>6
<1>9. \A e \in Chunks \ {c} : chunk[e].nodes # Null => \E d \in Chunks : chunk'[d] = chunk[e]
  BY <1>4
<1> QED
  BY <1>2, <1>4, <1>5, <1>7, <1>8, <1>9, ChunksMoved

(* A move constructor and a move assignment, of chunk d into chunk c.      *)
LEMMA ChunkTaken ==
  ASSUME IInv, client = "chunks", NEW c \in Chunks, NEW d \in Chunks, c # d,
         chunk[d].alive, Release(chunk[c]),
         chunk' = [chunk EXCEPT ![c] = chunk[d], ![d] = EmptyChunk],
         UNCHANGED <<config, list, adding, owner, asked>>
  PROVE  IInv'
<1>1. ByChunks /\ chunk \in [Chunks -> ChunkObjects] /\ ConfigInv
  BY DEF IInv, Types
<1>2. EmptyChunk \in ChunkObjects /\ EmptyChunk.nodes = Null
  BY <1>1, LayoutFacts DEF EmptyChunk, ChunkObjects
<1>3. /\ chunk' \in [Chunks -> ChunkObjects]
      /\ \A x \in Chunks : chunk'[x] = IF x = d THEN EmptyChunk
                                       ELSE IF x = c THEN chunk[d] ELSE chunk[x]
  BY <1>1, <1>2
<1>4. \A x \in Chunks : ~chunk'[x].alive => chunk'[x].nodes = Null
  BY <1>1, <1>2, <1>3 DEF ByChunks
<1>5. \A x \in Chunks : chunk'[x].nodes # Null => x # d
  BY <1>2, <1>3
<1>6. \A x, y \in Chunks : chunk'[x].nodes = chunk'[y].nodes /\ chunk'[x].nodes # Null => x = y
  <2>1. ASSUME NEW x \in Chunks, NEW y \in Chunks, chunk'[x].nodes = chunk'[y].nodes,
               chunk'[x].nodes # Null
        PROVE  x = y
    <3>1. x # d /\ y # d
      BY <1>5, <2>1
    <3>2. /\ chunk'[x] = IF x = c THEN chunk[d] ELSE chunk[x]
          /\ chunk'[y] = IF y = c THEN chunk[d] ELSE chunk[y]
      BY <1>3, <3>1
    <3> QED
      BY <1>1, <2>1, <3>1, <3>2 DEF ByChunks
  <2> QED
    BY <2>1
<1>7. \A x \in Chunks : chunk'[x].nodes # Null => \E e \in Chunks \ {c} : chunk'[x] = chunk[e]
  BY <1>3, <1>5
<1>8. \A e \in Chunks \ {c} : chunk[e].nodes # Null => \E x \in Chunks : chunk'[x] = chunk[e]
  BY <1>3
<1> QED
  BY <1>3, <1>4, <1>6, <1>7, <1>8, ChunksMoved

LEMMA ChunkMoveConstructed ==
  ASSUME IInv, client = "chunks", NEW c \in Chunks, NEW d \in Chunks, MoveConstruct(c, d)
  PROVE  IInv'
<1>1. ByChunks /\ chunk \in [Chunks -> ChunkObjects]
  BY DEF IInv, Types
<1>2. /\ ~chunk[c].alive /\ chunk[d].alive
      /\ chunk' = [chunk EXCEPT ![c] = chunk[d], ![d] = EmptyChunk]
      /\ UNCHANGED <<config, heap, stamped, list, adding, owner, asked, wrong>>
  BY DEF MoveConstruct
<1>3. c # d
  BY <1>2
<1>4. Release(chunk[c])
  BY <1>1, <1>2 DEF ByChunks, Release
<1> QED
  BY <1>2, <1>3, <1>4, ChunkTaken

LEMMA ChunkMoveAssigned ==
  ASSUME IInv, client = "chunks", NEW c \in Chunks, NEW d \in Chunks, MoveAssign(c, d)
  PROVE  IInv'
<1>1. /\ c # d /\ chunk[c].alive /\ chunk[d].alive /\ Release(chunk[c])
      /\ chunk' = [chunk EXCEPT ![c] = chunk[d], ![d] = EmptyChunk]
      /\ UNCHANGED <<config, list, adding, owner, asked>>
  BY DEF MoveAssign
<1> QED
  BY <1>1, ChunkTaken

-----------------------------------------------------------------------------
(* The theorems.                                                           *)

LEMMA NextKeepsInvariant ==
  ASSUME IInv, [Next]_vars
  PROVE  IInv'
<1>1. CASE client = "chunks" /\ \E c \in Chunks : ChunkStep(c)
  <2>1. PICK c \in Chunks : ChunkStep(c)
    BY <1>1
  <2>2. CASE ConstructEmpty(c)
    BY <1>1, <2>2, EmptyConstructs
  <2>3. CASE Destroy(c)
    BY <1>1, <2>3, ChunkDestroyed
  <2>4. CASE \E sz \in SlotCounts : Construct(c, sz)
    BY <1>1, <2>4, ChunkConstructs
  <2>5. CASE \E p \in Pools : StampOwner(c, p)
    BY <1>1, <2>5, ChunkStamps
  <2>6. CASE \E d \in Chunks : MoveConstruct(c, d) \/ MoveAssign(c, d)
    BY <1>1, <2>6, ChunkMoveConstructed, ChunkMoveAssigned
  <2> QED
    BY <2>1, <2>2, <2>3, <2>4, <2>5, <2>6 DEF ChunkStep
<1>2. CASE client = "runner" /\ RunnerStep
  <2>1. CASE \E n \in ListNodes : NewListNode(n) \/ AddExternalChunk(n)
    BY <1>2, <2>1, ListNodeNew, ExternalChunkAdded
  <2>2. CASE \E bytes \in ByteCounts : AddOwnedChunk(bytes)
    BY <1>2, <2>2, OwnedChunkAdded
  <2>3. CASE AddRefused
    BY <1>2, <2>3, ChunkRefused
  <2>4. CASE ReleaseOwnedChunks
    BY <1>2, <2>4, ChunksReleased
  <2> QED
    BY <1>2, <2>1, <2>2, <2>3, <2>4 DEF RunnerStep
<1>3. CASE client = "owner" /\ OwnerStep
  <2>1. CASE \E bytes \in ByteCounts, align \in Alignments : OwnerConstruct(bytes, align)
    BY <1>3, <2>1, OwnerConstructs
  <2>2. CASE OwnerDestroy
    BY <1>3, <2>2, OwnerDestroys
  <2> QED
    BY <1>3, <2>1, <2>2 DEF OwnerStep
<1>4. CASE UNCHANGED vars
  BY <1>4 DEF vars, config, IInv, Types, ConfigInv, HeapInv, Overlaps, NoChunks, NoList, NoOwner,
     ByChunks, ChunkHolds, OfChunk, ChunkBytes, Granules, ChunkLayout, StampInv, Stamped,
     GranuleBases, ByRunner, OfNode, RunnerAlign, HowOwned, ByOwner, OfOwner
<1> QED
  BY <1>1, <1>2, <1>3, <1>4 DEF Next

(* The invariant holds in every state.                                     *)
THEOREM Invariance == Spec => []IInv
<1>1. Init => IInv
  BY Starts
<1>2. IInv /\ [Next]_vars => IInv'
  BY NextKeepsInvariant
<1> QED
  BY <1>1, <1>2, PTL DEF Spec

(* Memory is given back exactly once, the way it was obtained, whatever    *)
(* moves, assignments and refusals come before.                            *)
THEOREM EverythingOwnedOnce == Spec => []OwnedOnce
<1>1. IInv => OwnedOnce
  BY InvariantGivesOwned
<1> QED
  BY <1>1, Invariance, PTL

(* at(), contains() and masking agree for every chunk with headers, and    *)
(* masking finds the pool that stamped it.                                 *)
THEOREM LayoutAlwaysExact == Spec => []LayoutExact
<1>1. IInv => LayoutExact
  BY InvariantGivesLayout
<1> QED
  BY <1>1, Invariance, PTL
=============================================================================

-------------------------- MODULE LinkedListProofs --------------------------
(***************************************************************************)
(* Null-terminated linked lists: what the free list, the remote stack and  *)
(* the drained chain of NodePool and the registry of StdAllocator are, and *)
(* what pushing, dropping the first element and carving a chunk make of    *)
(* one.                                                                    *)
(*                                                                         *)
(* A list is described by the function f that numbers what a walk meets:   *)
(* f[0] is the head, the link of f[k] is f[k+1], and f[m] is the null that *)
(* ends it.  Lists are then built and taken apart by renumbering, and what *)
(* a recursive definition computes along a list is compared with f.        *)
(***************************************************************************)
EXTENDS FiniteSetTheorems, TLAPS

(* From h along the links nx, f numbers the m elements of S, each once,    *)
(* and then null.                                                          *)
Numbers(f, m, S, h, nx, null) ==
  /\ f \in [0 .. m -> S \cup {null}]
  /\ f[0] = h
  /\ f[m] = null
  /\ \A k \in 0 .. m - 1 : f[k] \in S /\ nx[f[k]] = f[k + 1]
  /\ \A s \in S : \E k \in 0 .. m - 1 : f[k] = s
  /\ \A j, k \in 0 .. m - 1 : f[j] = f[k] => j = k

(* The list at h holds exactly the elements of S, each once.               *)
Chain(S, h, nx, null) ==
  /\ null \notin S
  /\ \E m \in Nat : \E f \in [0 .. m -> S \cup {null}] : Numbers(f, m, S, h, nx, null)

-----------------------------------------------------------------------------
(* Two functions that start alike and continue alike are alike.            *)
LEMMA SameFromStart ==
  ASSUME NEW n \in Nat, NEW f, NEW g, f[0] = g[0],
         \A k \in 0 .. n - 1 : f[k] = g[k] => f[k + 1] = g[k + 1]
  PROVE  \A k \in 0 .. n : f[k] = g[k]
<1> DEFINE R == OpToRel(<, Nat)
           D == {k \in 0 .. n : f[k] # g[k]}
<1>1. IsWellFoundedOn(R, Nat)
  BY NatLessThanWellFounded
<1>2. \A x, y \in Nat : <<x, y>> \in R <=> x < y
  BY DEF OpToRel
<1>3. D \subseteq Nat /\ \A k \in 0 .. n : k \in D <=> f[k] # g[k]
  OBVIOUS
<1>4. D \subseteq 0 .. n
  OBVIOUS
<1> HIDE DEF R, D
<1>5. ASSUME D # {} PROVE FALSE
  <2>1. PICK x \in D : \A y \in D : <<y, x>> \notin R
    BY <1>1, <1>3, <1>5, WFMin, Zenon
  <2>2. x \in 0 .. n /\ f[x] # g[x] /\ x # 0
    BY <1>3, <1>4, <2>1
  <2>3. x - 1 \in 0 .. n - 1 /\ x - 1 \in 0 .. n /\ x - 1 < x /\ (x - 1) + 1 = x
        /\ x \in Nat /\ x - 1 \in Nat
    BY <2>2
  <2>4. f[x - 1] # g[x - 1]
    BY <2>2, <2>3
  <2>5. x - 1 \in D
    BY <1>3, <2>3, <2>4
  <2>6. <<x - 1, x>> \in R
    BY <1>2, <2>3
  <2> QED
    BY <2>1, <2>5, <2>6
<1> QED
  BY <1>3, <1>5

(* The length of a list.                                                   *)
LEMMA ChainLength ==
  ASSUME NEW T, IsFiniteSet(T), NEW S \in SUBSET T, NEW h, NEW nx, NEW null,
         NEW m \in Nat, NEW f, Numbers(f, m, S, h, nx, null)
  PROVE  m = Cardinality(S) /\ m <= Cardinality(T)
<1> DEFINE g == [k \in 0 .. m - 1 |-> f[k]]
<1>1. g \in Bijection(0 .. m - 1, S)
  <2>1. g \in [0 .. m - 1 -> S] /\ \A k \in 0 .. m - 1 : g[k] = f[k]
    BY DEF Numbers
  <2> HIDE DEF g
  <2>2. \A s \in S : \E k \in 0 .. m - 1 : g[k] = s
    BY <2>1 DEF Numbers
  <2>3. \A j, k \in 0 .. m - 1 : g[j] = g[k] => j = k
    BY <2>1 DEF Numbers
  <2> QED
    BY <2>1, <2>2, <2>3 DEF Bijection, Injection, Surjection, IsInjective
<1>2. IsFiniteSet(0 .. m - 1) /\ Cardinality(0 .. m - 1) = m
  <2>1. 0 \in Int /\ m - 1 \in Int
    OBVIOUS
  <2>2. /\ IsFiniteSet(0 .. m - 1)
        /\ Cardinality(0 .. m - 1) = IF 0 > m - 1 THEN 0 ELSE (m - 1) - 0 + 1
    BY <2>1, FS_Interval
  <2> QED
    BY <2>2
<1> HIDE DEF g
<1>3. IsFiniteSet(S) /\ Cardinality(S) <= Cardinality(T)
  BY FS_Subset
<1>4. Cardinality(S) = Cardinality(0 .. m - 1)
  BY <1>1, <1>2, FS_Bijection DEF ExistsBijection
<1> QED
  BY <1>2, <1>3, <1>4

-----------------------------------------------------------------------------
(* A list without elements, and a head.                                    *)
LEMMA ChainEmpty ==
  ASSUME NEW nx, NEW null
  PROVE  Chain({}, null, nx, null)
<1> DEFINE f == [k \in 0 .. 0 |-> null]
<1>1. f \in [0 .. 0 -> {} \cup {null}] /\ f[0] = null
  OBVIOUS
<1> HIDE DEF f
<1>2. Numbers(f, 0, {}, null, nx, null)
  BY <1>1 DEF Numbers
<1> QED
  BY <1>1, <1>2 DEF Chain

LEMMA ChainHead ==
  ASSUME NEW S, NEW h, NEW nx, NEW null, Chain(S, h, nx, null)
  PROVE  /\ h = null => S = {}
         /\ h # null => h \in S
<1>1. PICK m \in Nat : \E f \in [0 .. m -> S \cup {null}] : Numbers(f, m, S, h, nx, null)
  BY DEF Chain
<1>2. PICK f \in [0 .. m -> S \cup {null}] : Numbers(f, m, S, h, nx, null)
  BY <1>1
<1>3. null \notin S /\ f[0] = h /\ f[m] = null
  BY <1>2 DEF Chain, Numbers
<1>4. CASE m = 0
  <2>1. h = null /\ S = {}
    BY <1>2, <1>3, <1>4 DEF Numbers
  <2> QED
    BY <2>1
<1>5. CASE m # 0
  <2>1. h \in S
    BY <1>2, <1>3, <1>5 DEF Numbers
  <2> QED
    BY <1>3, <2>1
<1> QED
  BY <1>4, <1>5

(* Only the links of its own elements matter.                              *)
LEMMA ChainFrame ==
  ASSUME NEW S, NEW h, NEW nx, NEW nx2, NEW null, Chain(S, h, nx, null),
         \A s \in S : nx2[s] = nx[s]
  PROVE  Chain(S, h, nx2, null)
<1>1. PICK m \in Nat : \E f \in [0 .. m -> S \cup {null}] : Numbers(f, m, S, h, nx, null)
  BY DEF Chain
<1>2. PICK f \in [0 .. m -> S \cup {null}] : Numbers(f, m, S, h, nx, null)
  BY <1>1
<1>3. Numbers(f, m, S, h, nx2, null)
  BY <1>2 DEF Numbers
<1> QED
  BY <1>3 DEF Chain

(* Pushing an element that links to the head.                              *)
LEMMA ChainPrepend ==
  ASSUME NEW S, NEW h, NEW nx, NEW nx2, NEW null, Chain(S, h, nx, null),
         NEW n, n \notin S, n # null, nx2[n] = h, \A s \in S : nx2[s] = nx[s]
  PROVE  Chain(S \cup {n}, n, nx2, null)
<1>1. PICK m \in Nat : \E f \in [0 .. m -> S \cup {null}] : Numbers(f, m, S, h, nx, null)
  BY DEF Chain
<1>2. PICK f \in [0 .. m -> S \cup {null}] : Numbers(f, m, S, h, nx, null)
  BY <1>1
<1>3. /\ f[0] = h /\ f[m] = null
      /\ \A k \in 0 .. m - 1 : f[k] \in S /\ nx[f[k]] = f[k + 1]
      /\ \A s \in S : \E k \in 0 .. m - 1 : f[k] = s
      /\ \A j, k \in 0 .. m - 1 : f[j] = f[k] => j = k
  BY <1>2 DEF Numbers
<1> DEFINE g == [k \in 0 .. m + 1 |-> IF k = 0 THEN n ELSE f[k - 1]]
           T == S \cup {n}
<1>4. /\ \A k \in 1 .. m + 1 : k - 1 \in 0 .. m /\ f[k - 1] \in S \cup {null}
      /\ m + 1 \in Nat
  BY <1>2
<1>5. g \in [0 .. m + 1 -> T \cup {null}]
  BY <1>4
<1>6. /\ g[0] = n
      /\ \A k \in 1 .. m + 1 : g[k] = f[k - 1]
      /\ \A k \in 0 .. m : g[k + 1] = f[k]
  OBVIOUS
<1>7. \A s : s \in T <=> s \in S \/ s = n
  OBVIOUS
<1> HIDE DEF g, T
<1>8. g[m + 1] = null
  BY <1>3, <1>6
<1>9. ASSUME NEW k \in 0 .. (m + 1) - 1
      PROVE  g[k] \in T /\ nx2[g[k]] = g[k + 1]
  <2>1. CASE k = 0
    BY <1>3, <1>6, <1>7, <2>1
  <2>2. CASE k # 0
    <3>1. k - 1 \in 0 .. m - 1 /\ k \in 1 .. m + 1 /\ k \in 0 .. m /\ (k - 1) + 1 = k
      BY <2>2
    <3>2. g[k] = f[k - 1] /\ g[k + 1] = f[k] /\ f[k - 1] \in S /\ nx[f[k - 1]] = f[k]
      BY <1>3, <1>6, <3>1
    <3> QED
      BY <1>7, <3>2
  <2> QED
    BY <2>1, <2>2
<1>10. ASSUME NEW s \in T
       PROVE  \E k \in 0 .. (m + 1) - 1 : g[k] = s
  <2>1. CASE s = n
    BY <1>6, <2>1
  <2>2. CASE s \in S
    <3>1. PICK k \in 0 .. m - 1 : f[k] = s
      BY <1>3, <2>2
    <3>2. k + 1 \in 0 .. (m + 1) - 1 /\ k \in 0 .. m
      BY <3>1
    <3> QED
      BY <1>6, <3>1, <3>2
  <2> QED
    BY <1>7, <2>1, <2>2
<1>11. ASSUME NEW j \in 0 .. (m + 1) - 1, NEW k \in 0 .. (m + 1) - 1, g[j] = g[k]
       PROVE  j = k
  <2>1. \A i \in 0 .. (m + 1) - 1 : i # 0 => /\ i - 1 \in 0 .. m - 1 /\ i \in 1 .. m + 1
                                             /\ g[i] = f[i - 1] /\ f[i - 1] \in S
    BY <1>3, <1>6
  <2>2. CASE j = 0 \/ k = 0
    BY <1>6, <1>11, <2>1, <2>2
  <2>3. CASE j # 0 /\ k # 0
    <3>1. f[j - 1] = f[k - 1] /\ j - 1 \in 0 .. m - 1 /\ k - 1 \in 0 .. m - 1
      BY <1>11, <2>1, <2>3
    <3>2. j - 1 = k - 1
      BY <1>3, <3>1
    <3> QED
      BY <3>2
  <2> QED
    BY <2>2, <2>3
<1>12. Numbers(g, m + 1, T, n, nx2, null)
  BY <1>5, <1>6, <1>8, <1>9, <1>10, <1>11 DEF Numbers
<1>13. null \notin T
  BY <1>7 DEF Chain
<1>14. Chain(T, n, nx2, null)
  BY <1>4, <1>5, <1>12, <1>13 DEF Chain
<1> QED
  BY <1>14 DEF T

(* Dropping the first element.                                             *)
LEMMA ChainRest ==
  ASSUME NEW S, NEW h, NEW nx, NEW null, Chain(S, h, nx, null), h # null
  PROVE  Chain(S \ {h}, nx[h], nx, null)
<1>1. PICK m \in Nat : \E f \in [0 .. m -> S \cup {null}] : Numbers(f, m, S, h, nx, null)
  BY DEF Chain
<1>2. PICK f \in [0 .. m -> S \cup {null}] : Numbers(f, m, S, h, nx, null)
  BY <1>1
<1>3. /\ f[0] = h /\ f[m] = null
      /\ \A k \in 0 .. m - 1 : f[k] \in S /\ nx[f[k]] = f[k + 1]
      /\ \A s \in S : \E k \in 0 .. m - 1 : f[k] = s
      /\ \A j, k \in 0 .. m - 1 : f[j] = f[k] => j = k
      /\ null \notin S
  BY <1>2 DEF Numbers, Chain
<1>4. m # 0
  BY <1>3
<1> DEFINE g == [k \in 0 .. m - 1 |-> f[k + 1]]
           T == S \ {h}
<1>5. /\ m - 1 \in Nat /\ 0 \in 0 .. m - 1
      /\ \A k \in 0 .. m - 1 : k + 1 \in 0 .. m
      /\ \A k \in 0 .. (m - 1) - 1 : k \in 0 .. m - 1 /\ k + 1 \in 0 .. m - 1 /\ k + 1 # 0
  BY <1>4
<1>6. \A k \in 0 .. m - 1 : g[k] = f[k + 1]
  OBVIOUS
<1>7. \A s : s \in T <=> s \in S /\ s # h
  OBVIOUS
<1>8. \A k \in 0 .. m - 1 : k + 1 \in 0 .. m - 1 => f[k + 1] \in T
  BY <1>3, <1>5, <1>7
<1>9. g \in [0 .. m - 1 -> T \cup {null}]
  <2>1. ASSUME NEW k \in 0 .. m - 1 PROVE f[k + 1] \in T \cup {null}
    <3>1. CASE k = m - 1
      BY <1>3, <3>1
    <3>2. CASE k # m - 1
      BY <1>8, <3>2
    <3> QED
      BY <3>1, <3>2
  <2> QED
    BY <2>1
<1> HIDE DEF g, T
<1>10. g[0] = nx[h] /\ g[m - 1] = null
  BY <1>3, <1>5, <1>6
<1>11. ASSUME NEW k \in 0 .. (m - 1) - 1
       PROVE  g[k] \in T /\ nx[g[k]] = g[k + 1]
  <2>1. k \in 0 .. m - 1 /\ k + 1 \in 0 .. m - 1
    BY <1>5
  <2>2. nx[f[k + 1]] = f[(k + 1) + 1]
    BY <1>3, <2>1
  <2> QED
    BY <1>6, <1>8, <2>1, <2>2
<1>12. ASSUME NEW s \in T
       PROVE  \E k \in 0 .. (m - 1) - 1 : g[k] = s
  <2>1. PICK j \in 0 .. m - 1 : f[j] = s
    BY <1>3, <1>7
  <2>2. j # 0
    BY <1>3, <1>7, <2>1
  <2>3. j - 1 \in 0 .. (m - 1) - 1 /\ j - 1 \in 0 .. m - 1 /\ (j - 1) + 1 = j
    BY <2>2
  <2> QED
    BY <1>6, <2>1, <2>3
<1>13. ASSUME NEW j \in 0 .. (m - 1) - 1, NEW k \in 0 .. (m - 1) - 1, g[j] = g[k]
       PROVE  j = k
  <2>1. /\ j \in 0 .. m - 1 /\ j + 1 \in 0 .. m - 1
        /\ k \in 0 .. m - 1 /\ k + 1 \in 0 .. m - 1
    BY <1>5
  <2>2. f[j + 1] = f[k + 1]
    BY <1>6, <1>13, <2>1
  <2>3. j + 1 = k + 1
    BY <1>3, <2>1, <2>2
  <2> QED
    BY <2>3
<1>14. Numbers(g, m - 1, T, nx[h], nx, null)
  BY <1>9, <1>10, <1>11, <1>12, <1>13 DEF Numbers
<1>15. null \notin T
  BY <1>3, <1>7
<1>16. Chain(T, nx[h], nx, null)
  BY <1>5, <1>9, <1>14, <1>15 DEF Chain
<1> QED
  BY <1>16 DEF T

(* Pushing the numbers c .. c+k-1 in this order, each linking to the one   *)
(* before it and the first to the head.                                    *)
LEMMA ChainBlock ==
  ASSUME NEW S, NEW h, NEW nx, NEW nx2, NEW null, Chain(S, h, nx, null),
         NEW c \in Nat, NEW k \in Nat \ {0},
         \A i \in c .. c + k - 1 : /\ i \notin S /\ i # null
                                   /\ nx2[i] = IF i = c THEN h ELSE i - 1,
         \A s \in S : nx2[s] = nx[s]
  PROVE  Chain(S \cup (c .. c + k - 1), c + k - 1, nx2, null)
<1>1. PICK m \in Nat : \E f \in [0 .. m -> S \cup {null}] : Numbers(f, m, S, h, nx, null)
  BY DEF Chain
<1>2. PICK f \in [0 .. m -> S \cup {null}] : Numbers(f, m, S, h, nx, null)
  BY <1>1
<1>3. /\ f[0] = h /\ f[m] = null
      /\ \A i \in 0 .. m - 1 : f[i] \in S /\ nx[f[i]] = f[i + 1]
      /\ \A s \in S : \E i \in 0 .. m - 1 : f[i] = s
      /\ \A j, i \in 0 .. m - 1 : f[j] = f[i] => j = i
      /\ null \notin S
  BY <1>2 DEF Numbers, Chain
<1> DEFINE g == [j \in 0 .. m + k |-> IF j < k THEN c + k - 1 - j ELSE f[j - k]]
           T == S \cup (c .. c + k - 1)
<1>4. /\ \A s : s \in T <=> s \in S \/ s \in c .. c + k - 1
      /\ \A j \in 0 .. k - 1 : c + k - 1 - j \in c .. c + k - 1
      /\ \A j \in k .. m + k : j - k \in 0 .. m
      /\ \A j \in 0 .. m : f[j] \in S \cup {null}
      /\ m + k \in Nat
  BY <1>2
<1>5. /\ \A j \in 0 .. k - 1 : g[j] = c + k - 1 - j
      /\ \A j \in k .. m + k : g[j] = f[j - k]
  OBVIOUS
<1>6. \A j \in 0 .. m + k : j \in 0 .. k - 1 \/ j \in k .. m + k
  OBVIOUS
<1>7. g \in [0 .. m + k -> T \cup {null}]
  <2>1. \A j \in 0 .. m + k : (IF j < k THEN c + k - 1 - j ELSE f[j - k]) \in T \cup {null}
    <3> HIDE DEF T
    <3> QED
      BY <1>4
  <2> HIDE DEF T
  <2> QED
    BY <2>1
<1> HIDE DEF g, T
<1>8. g[0] = c + k - 1 /\ g[m + k] = null
  <2>1. 0 \in 0 .. k - 1 /\ m + k \in k .. m + k /\ (m + k) - k = m
    OBVIOUS
  <2> QED
    BY <1>3, <1>5, <2>1
<1>9. ASSUME NEW j \in 0 .. (m + k) - 1
      PROVE  g[j] \in T /\ nx2[g[j]] = g[j + 1]
  <2>1. CASE j < k - 1
    <3>1. j \in 0 .. k - 1 /\ j + 1 \in 0 .. k - 1
      BY <2>1
    <3>2. g[j] = c + k - 1 - j /\ g[j + 1] = c + k - 1 - (j + 1)
          /\ g[j] \in c .. c + k - 1
      BY <1>4, <1>5, <3>1
    <3>3. g[j] # c /\ g[j + 1] = g[j] - 1
      BY <2>1, <3>2
    <3> QED
      BY <1>4, <3>2, <3>3
  <2>2. CASE j = k - 1
    <3>1. j \in 0 .. k - 1 /\ j + 1 \in k .. m + k /\ (j + 1) - k = 0
      BY <2>2
    <3>2. g[j] = c + k - 1 - j /\ g[j + 1] = f[0] /\ g[j] \in c .. c + k - 1
      BY <1>4, <1>5, <3>1
    <3>3. g[j] = c
      BY <2>2, <3>2
    <3> QED
      BY <1>3, <1>4, <3>2, <3>3
  <2>3. CASE j >= k
    <3>1. /\ j \in k .. m + k /\ j + 1 \in k .. m + k
          /\ j - k \in 0 .. m - 1 /\ (j + 1) - k = (j - k) + 1
      BY <2>3
    <3>2. g[j] = f[j - k] /\ g[j + 1] = f[(j - k) + 1]
      BY <1>5, <3>1
    <3>3. f[j - k] \in S /\ nx[f[j - k]] = f[(j - k) + 1]
      BY <1>3, <3>1
    <3>4. nx2[f[j - k]] = nx[f[j - k]] /\ f[j - k] \in T
      BY <1>4, <3>3
    <3> QED
      BY <3>2, <3>3, <3>4
  <2> QED
    BY <2>1, <2>2, <2>3
<1>10. ASSUME NEW s \in T
       PROVE  \E j \in 0 .. (m + k) - 1 : g[j] = s
  <2>1. CASE s \in c .. c + k - 1
    <3>1. /\ c + k - 1 - s \in 0 .. k - 1 /\ c + k - 1 - s \in 0 .. (m + k) - 1
          /\ c + k - 1 - (c + k - 1 - s) = s
      BY <2>1
    <3> QED
      BY <1>5, <3>1
  <2>2. CASE s \in S
    <3>1. PICK i \in 0 .. m - 1 : f[i] = s
      BY <1>3, <2>2
    <3>2. i + k \in k .. m + k /\ i + k \in 0 .. (m + k) - 1 /\ (i + k) - k = i
      BY <3>1
    <3> QED
      BY <1>5, <3>1, <3>2
  <2> QED
    BY <1>4, <2>1, <2>2
<1>11. ASSUME NEW j \in 0 .. (m + k) - 1, NEW i \in 0 .. (m + k) - 1, g[j] = g[i]
       PROVE  j = i
  <2>1. CASE j < k /\ i < k
    BY <1>5, <1>11, <2>1
  <2>2. CASE j >= k /\ i >= k
    <3>1. /\ j - k \in 0 .. m - 1 /\ j \in k .. m + k
          /\ i - k \in 0 .. m - 1 /\ i \in k .. m + k
      BY <2>2
    <3>2. f[j - k] = f[i - k]
      BY <1>5, <1>11, <3>1
    <3>3. j - k = i - k
      BY <1>3, <3>1, <3>2
    <3> QED
      BY <3>3
  <2>3. ASSUME NEW a \in 0 .. (m + k) - 1, NEW b \in 0 .. (m + k) - 1, a < k, b >= k
        PROVE  g[a] # g[b]
    <3>1. a \in 0 .. k - 1 /\ b \in k .. m + k /\ b - k \in 0 .. m - 1
      BY <2>3
    <3>2. g[a] \in c .. c + k - 1 /\ g[b] \in S
      BY <1>3, <1>4, <1>5, <3>1
    <3> QED
      BY <3>2
  <2> QED
    BY <1>11, <2>1, <2>2, <2>3
<1>12. Numbers(g, m + k, T, c + k - 1, nx2, null)
  BY <1>7, <1>8, <1>9, <1>10, <1>11 DEF Numbers
<1>13. null \notin T
  BY <1>3, <1>4
<1>14. Chain(T, c + k - 1, nx2, null)
  BY <1>4, <1>7, <1>12, <1>13 DEF Chain
<1> QED
  BY <1>14 DEF T
=============================================================================

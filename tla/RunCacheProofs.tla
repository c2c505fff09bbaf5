--------------------------- MODULE RunCacheProofs ---------------------------
(***************************************************************************)
(* Proofs about RunCache, for any number of threads, runs and size         *)
(* classes, and for any watermarks, batch, quantum and requests.           *)
(*                                                                         *)
(* The invariant says, of each run its runner has given out, in which one  *)
(* place it is.  The places of a run are five sets, so that a step is      *)
(* understood one run at a time: a run that the step does not touch has    *)
(* the same five sets before and after it.                                 *)
(***************************************************************************)
EXTENDS RunCache, FiniteSetTheorems, SequenceTheorems, TLAPS

Given(x) == x \in DOMAIN used[x.owner]

HeldBy(x) == {t \in Threads : x \in DOMAIN held[t]}
CallsOf(x) == {t \in Threads : call[t].raw = x}
ClassesOf(x) == {tc \in Threads \X Classes : x \in ToSet(cache[tc[1]][tc[2]])}
StacksOf(x) == {t \in Threads : x \in parked[t]}

(* One of five: a singleton among empty sets, or the flag and empty sets.  *)
Alone(A) == \E a \in A : A = {a}
Exactly(A, B, C, D, gone) ==
  \/ Alone(A) /\ B = {} /\ C = {} /\ D = {} /\ ~gone
  \/ A = {} /\ Alone(B) /\ C = {} /\ D = {} /\ ~gone
  \/ A = {} /\ B = {} /\ Alone(C) /\ D = {} /\ ~gone
  \/ A = {} /\ B = {} /\ C = {} /\ Alone(D) /\ ~gone
  \/ A = {} /\ B = {} /\ C = {} /\ D = {} /\ gone

Somewhere(x) == Exactly(HeldBy(x), CallsOf(x), ClassesOf(x), StacksOf(x), x \in lost)
Nowhere(x) == HeldBy(x) = {} /\ CallsOf(x) = {} /\ ClassesOf(x) = {} /\ StacksOf(x) = {}
              /\ x \notin lost

(* Where a run is: in one place if its runner has given it out.            *)
Right(x) == IF Given(x) THEN Somewhere(x) ELSE Nowhere(x)
Placed == \A x \in Run : Right(x)

-----------------------------------------------------------------------------
Calls == [pc : {"idle", "retry", "last", "refill"}, bytes : 0 .. MaxBytes,
          raw : Run \cup {Null}, left : 0 .. RefillBatch]

Types ==
  /\ mode \in Modes
  /\ phase \in [Threads -> {"running", "flushed", "ended"}]
  /\ hasState \in [Threads -> BOOLEAN]
  /\ parked \in [Threads -> SUBSET Run]
  /\ stamp \in [Run -> Threads \cup {Null}]
  /\ cache \in [Threads -> [Classes -> Seq(Run)]]
  /\ call \in [Threads -> Calls]
  /\ lost \subseteq Run /\ late \subseteq Run
  /\ DOMAIN used = Threads /\ DOMAIN held = Threads
  /\ \A t \in Threads : DOMAIN held[t] \subseteq Run
  /\ \A s \in Threads : DOMAIN used[s] \subseteq SlotsOf(s) /\ parked[s] \subseteq SlotsOf(s)

(* Payloads are whole quanta, so that a run fits the class of its request. *)
Sized ==
  \A x \in Run : Given(x) => /\ used[x.owner][x] \in 0 .. MaxBytes
                             /\ used[x.owner][x] % Quantum = 0
                             /\ hasState[x.owner]

Roomy ==
  \A t \in Threads :
     /\ \A r \in DOMAIN held[t] : /\ held[t][r] \in 2 .. MaxBytes
                                  /\ used[r.owner][r] >= held[t][r]
     /\ \A c \in Classes : \A r \in ToSet(cache[t][c]) : used[r.owner][r] >= ClassBytes(c)

(* Each class is a list without repetition, every run in it stamped with   *)
(* its owner; what is cached after the flush is known to be late.          *)
Listed ==
  \A t \in Threads :
     /\ \A c \in Classes : IsInjective(cache[t][c])
     /\ \A r \in Cached(t) : stamp[r] = r.owner /\ (phase[t] # "running" => r \in late)

Foreign(t, c) == {r \in ToSet(cache[t][c]) : r.owner # t}

(* The class being refilled had no run of the thread's own when the refill *)
(* began, so its length is what the foreign runs and the refill account    *)
(* for.                                                                    *)
Bounded ==
  \A t \in Threads :
     /\ \A c \in Classes : /\ Len(cache[t][c]) <= High + RefillBatch - 1
                           /\ Cardinality(Foreign(t, c)) <= High
     /\ call[t].pc = "refill" =>
          Len(cache[t][ClassIndexFor(call[t].bytes)]) <= High + RefillBatch - 1 - call[t].left

(* A call that drained its thread's cache to try again finds it empty, for *)
(* nobody else fills it.                                                   *)
InCall ==
  \A t \in Threads :
     LET k == call[t]
     IN  /\ k.raw # Null <=> k.pc = "refill"
         /\ k.pc = "refill" => /\ k.raw.owner = t /\ k.left \in 1 .. RefillBatch - 1
                               /\ used[t][k.raw] >= k.bytes
         /\ k.pc # "idle" => /\ phase[t] # "ended"
                             /\ k.bytes \in Requests /\ Cacheable(k.bytes)
         /\ k.pc \in {"retry", "last"} => Cached(t) = {}
         /\ phase[t] = "ended" => DOMAIN held[t] = {}

IInv == Types /\ Placed /\ Sized /\ Roomy /\ Listed /\ Bounded /\ InCall
-----------------------------------------------------------------------------
(* Size classes.                                                           *)

LEMMA Quotients ==
  ASSUME NEW n \in Nat
  PROVE  \E q \in Nat, r \in 0 .. Quantum - 1 :
            n = q * Quantum + r /\ q = n \div Quantum /\ r = n % Quantum
<1> Quantum \in Nat \ {0}
  BY ClassesAssumption
<1> QED
  OBVIOUS

LEMMA Multiples ==
  ASSUME NEW k \in Nat
  PROVE  k * Quantum \in Nat /\ (k * Quantum) % Quantum = 0 /\ (k * Quantum) \div Quantum = k
<1>1. Quantum \in Nat \ {0}
  BY ClassesAssumption
<1>2. k * Quantum \in Nat
  BY <1>1
<1> QED
  BY <1>1, <1>2

LEMMA WholeQuanta ==
  ASSUME NEW n \in Nat, n % Quantum = 0
  PROVE  \E q \in Nat : n = q * Quantum /\ q = n \div Quantum
<1>1. PICK q \in Nat, r \in 0 .. Quantum - 1 :
         n = q * Quantum + r /\ q = n \div Quantum /\ r = n % Quantum
  BY Quotients
<1>2. q * Quantum \in Nat
  BY Multiples
<1>3. n = q * Quantum
  BY <1>1, <1>2
<1> QED
  BY <1>1, <1>3

LEMMA Monotone ==
  ASSUME NEW k \in Nat, NEW m \in Nat
  PROVE  /\ k * Quantum <= m * Quantum <=> k <= m
         /\ (k + 1) * Quantum = k * Quantum + Quantum
<1>1. Quantum \in Nat \ {0}
  BY ClassesAssumption
<1>2. k <= m => k * Quantum <= m * Quantum
  BY <1>1
<1>3. m + 1 <= k => (m + 1) * Quantum <= k * Quantum
  BY <1>1
<1>4. (m + 1) * Quantum = m * Quantum + Quantum /\ (k + 1) * Quantum = k * Quantum + Quantum
  BY <1>1
<1>5. k * Quantum \in Nat /\ m * Quantum \in Nat
  BY Multiples
<1> QED
  BY <1>1, <1>2, <1>3, <1>4, <1>5

(* A class is as large as the requests that go to it, and no multiple of   *)
(* the quantum lies between.                                               *)
LEMMA ClassSizes ==
  ASSUME NEW b \in Nat, b >= 1
  PROVE  /\ ClassIndexFor(b) \in Nat
         /\ ClassBytes(ClassIndexFor(b)) = PayloadFor(b)
         /\ PayloadFor(b) \in Nat /\ PayloadFor(b) % Quantum = 0 /\ b <= PayloadFor(b)
         /\ \A m \in Nat : m % Quantum = 0 /\ b <= m => PayloadFor(b) <= m
         /\ PayloadFor(PayloadFor(b)) = PayloadFor(b)
         /\ Cacheable(b) => ClassIndexFor(b) \in Classes
<1>1. Quantum \in Nat \ {0} /\ b + Quantum - 1 \in Nat
  BY ClassesAssumption
<1>2. PICK k \in Nat, r \in 0 .. Quantum - 1 :
         b + Quantum - 1 = k * Quantum + r /\ k = (b + Quantum - 1) \div Quantum
  BY <1>1, Quotients
<1>3. PayloadFor(b) = k * Quantum /\ ClassIndexFor(b) = k - 1
  BY <1>2, Zenon DEF PayloadFor, ClassIndexFor
<1>4. k * Quantum \in Nat /\ (k * Quantum) % Quantum = 0 /\ (k * Quantum) \div Quantum = k
  BY <1>2, Multiples
<1>5. b <= k * Quantum /\ k * Quantum < b + Quantum
  BY <1>1, <1>2, <1>4
<1>6. k >= 1
  BY <1>1, <1>2, <1>5
<1>7. ASSUME NEW m \in Nat, m % Quantum = 0, b <= m PROVE k * Quantum <= m
  <2>1. PICK q \in Nat : m = q * Quantum
    BY <1>7, WholeQuanta
  <2>2. (q + 1) * Quantum = q * Quantum + Quantum
    BY <2>1, Monotone
  <2>3. CASE q + 1 <= k
    <3>1. (q + 1) * Quantum <= k * Quantum
      BY <1>2, <2>1, <2>3, Monotone
    <3> QED
      BY <1>1, <1>4, <1>5, <1>7, <2>1, <2>2, <3>1
  <2>4. CASE k <= q
    BY <1>2, <2>1, <2>4, Monotone
  <2> QED
    BY <1>2, <2>1, <2>3, <2>4
<1>8. ClassBytes(ClassIndexFor(b)) = PayloadFor(b)
  BY <1>2, <1>3 DEF ClassBytes
<1>9. PayloadFor(k * Quantum) = k * Quantum
  <2>0. k * Quantum + Quantum - 1 \in Nat
    BY <1>1, <1>4
  <2>1. PICK j \in Nat, e \in 0 .. Quantum - 1 :
           k * Quantum + Quantum - 1 = j * Quantum + e /\ j = (k * Quantum + Quantum - 1) \div Quantum
    BY <2>0, Quotients
  <2>2. PayloadFor(k * Quantum) = j * Quantum
    BY <2>1, Zenon DEF PayloadFor
  <2>3. j * Quantum \in Nat /\ (k + 1) * Quantum = k * Quantum + Quantum
        /\ (j + 1) * Quantum = j * Quantum + Quantum
    BY <1>2, <2>1, Multiples, Monotone
  <2>4. k <= j
    <3>1. ~ (j + 1) * Quantum <= k * Quantum
      BY <1>1, <1>4, <2>1, <2>3
    <3> QED
      BY <1>2, <2>1, <3>1, Monotone
  <2>5. j <= k
    <3>1. ~ (k + 1) * Quantum <= j * Quantum
      BY <1>1, <1>4, <2>1, <2>3
    <3> QED
      BY <1>2, <2>1, <3>1, Monotone
  <2> QED
    BY <1>2, <2>1, <2>2, <2>4, <2>5
<1>10. Cacheable(b) => ClassIndexFor(b) \in Classes
  <2> SUFFICES ASSUME Cacheable(b) PROVE ClassIndexFor(b) \in Classes
    OBVIOUS
  <2>1. Cutoff \in Nat /\ Cutoff % Quantum = 0 /\ b <= Cutoff
    BY ClassesAssumption DEF Cacheable
  <2>2. PICK c \in Nat : Cutoff = c * Quantum /\ c = Cutoff \div Quantum
    BY <2>1, WholeQuanta
  <2>3. Classes = 0 .. c - 1
    BY <2>2, Zenon DEF Classes
  <2>4. k * Quantum <= c * Quantum
    BY <1>7, <2>1, <2>2
  <2>5. k <= c
    BY <1>2, <2>2, <2>4, Monotone
  <2> QED
    BY <1>2, <1>3, <1>6, <2>2, <2>3, <2>5
<1> QED
  BY <1>2, <1>3, <1>4, <1>5, <1>6, <1>7, <1>8, <1>9, <1>10

LEMMA PayloadFits ==
  ASSUME NEW b \in Nat, b >= 1, b <= MaxBytes
  PROVE  PayloadFor(b) \in 0 .. MaxBytes
BY ClassSizes, ClassesAssumption
-----------------------------------------------------------------------------
(* Lists.                                                                  *)

(* _tls_push: one run more, at the head.                                   *)
LEMMA PushedRun ==
  ASSUME NEW S, NEW s \in Seq(S), NEW r \in S
  PROVE  /\ <<r>> \o s \in Seq(S) /\ Len(<<r>> \o s) = Len(s) + 1
         /\ ToSet(<<r>> \o s) = ToSet(s) \cup {r}
         /\ IsInjective(s) /\ r \notin ToSet(s) => IsInjective(<<r>> \o s)
<1> DEFINE p == <<r>> \o s
<1>1. /\ p \in Seq(S) /\ Len(p) = Len(s) + 1 /\ p[1] = r
      /\ DOMAIN p = 1 .. Len(s) + 1 /\ DOMAIN s = 1 .. Len(s) /\ Len(s) \in Nat
      /\ \A i \in 1 .. Len(s) : p[i + 1] = s[i]
  OBVIOUS
<1> HIDE DEF p
<1>2. \A i \in DOMAIN p : i = 1 \/ (i - 1 \in DOMAIN s /\ p[i] = s[i - 1])
  BY <1>1
<1>3. ToSet(p) = ToSet(s) \cup {r}
  <2>1. ASSUME NEW x \in ToSet(p) PROVE x \in ToSet(s) \cup {r}
    BY <1>1, <1>2 DEF ToSet
  <2>2. ASSUME NEW x \in ToSet(s) PROVE x \in ToSet(p)
    <3>1. PICK i \in DOMAIN s : x = s[i]
      BY DEF ToSet
    <3>2. i + 1 \in DOMAIN p /\ p[i + 1] = x
      BY <1>1, <3>1
    <3> QED
      BY <3>2 DEF ToSet
  <2>3. r \in ToSet(p)
    BY <1>1 DEF ToSet
  <2> QED
    BY <2>1, <2>2, <2>3
<1>4. ASSUME IsInjective(s), r \notin ToSet(s), NEW i \in DOMAIN p, NEW j \in DOMAIN p, p[i] = p[j]
      PROVE  i = j
  <2>1. \A k \in DOMAIN s : s[k] # r
    BY <1>4 DEF ToSet
  <2> QED
    BY <1>1, <1>2, <1>4, <2>1 DEF IsInjective
<1> QED
  BY <1>1, <1>3, <1>4 DEF p, IsInjective

(* _tls_pop_for_owner: one run less, from anywhere in the list.            *)
LEMMA RemovedRun ==
  ASSUME NEW S, NEW s \in Seq(S), NEW i \in 1 .. Len(s), IsInjective(s)
  PROVE  /\ RemoveAt(s, i) \in Seq(S) /\ Len(RemoveAt(s, i)) = Len(s) - 1
         /\ ToSet(RemoveAt(s, i)) = ToSet(s) \ {s[i]}
         /\ IsInjective(RemoveAt(s, i))
<1> DEFINE p == RemoveAt(s, i)
<1>1. /\ p \in Seq(S) /\ Len(p) = Len(s) - 1 /\ Len(s) \in Nat
      /\ DOMAIN p = 1 .. Len(s) - 1 /\ DOMAIN s = 1 .. Len(s)
      /\ \A k \in DOMAIN p : p[k] = IF k < i THEN s[k] ELSE s[k + 1]
  <2> DEFINE a == SubSeq(s, 1, i - 1)
             b == SubSeq(s, i + 1, Len(s))
  <2>1. /\ a \in Seq(S) /\ Len(a) = i - 1 /\ \A k \in 1 .. i - 1 : a[k] = s[k]
        /\ b \in Seq(S) /\ Len(b) = Len(s) - i /\ \A k \in 1 .. Len(s) - i : b[k] = s[k + i]
    OBVIOUS
  <2>2. p = a \o b
    BY DEF RemoveAt
  <2> HIDE DEF a, b, p
  <2>3. /\ p \in Seq(S) /\ Len(p) = Len(a) + Len(b)
        /\ \A k \in 1 .. Len(a) + Len(b) : p[k] = IF k <= Len(a) THEN a[k] ELSE b[k - Len(a)]
    BY <2>1, <2>2, ConcatProperties
  <2>4. /\ Len(s) \in Nat /\ i \in Nat /\ i >= 1 /\ i <= Len(s)
        /\ DOMAIN p = 1 .. Len(p) /\ DOMAIN s = 1 .. Len(s)
    BY <2>3
  <2>5. ASSUME NEW k \in 1 .. Len(s) - 1 PROVE p[k] = IF k < i THEN s[k] ELSE s[k + 1]
    <3>1. CASE k < i
      <4>1. /\ k \in 1 .. Len(a) + Len(b) /\ k <= Len(a) /\ k \in 1 .. i - 1
        BY <2>1, <2>4, <3>1
      <4>2. p[k] = a[k] /\ a[k] = s[k]
        BY <2>1, <2>3, <4>1, Zenon
      <4> QED
        BY <3>1, <4>2
    <3>2. CASE k >= i
      <4>1. k - (i - 1) \in 1 .. Len(s) - i /\ k - (i - 1) + i = k + 1
        BY <2>4, <3>2
      <4>2. p[k] = b[k - (i - 1)]
        BY <2>1, <2>3, <2>4, <3>2
      <4> QED
        BY <2>1, <2>4, <3>2, <4>1, <4>2
    <3> QED
      BY <2>4, <3>1, <3>2
  <2>6. Len(p) = Len(s) - 1
    BY <2>1, <2>3, <2>4
  <2> QED
    BY <2>3, <2>4, <2>5, <2>6
<1> HIDE DEF p
<1>2. ToSet(p) = ToSet(s) \ {s[i]}
  <2>1. ASSUME NEW x \in ToSet(p) PROVE x \in ToSet(s) \ {s[i]}
    <3>1. PICK k \in DOMAIN p : x = p[k]
      BY DEF ToSet
    <3>2. PICK m \in DOMAIN s : m # i /\ x = s[m]
      BY <1>1, <3>1
    <3> QED
      BY <3>2 DEF ToSet, IsInjective
  <2>2. ASSUME NEW x \in ToSet(s), x # s[i] PROVE x \in ToSet(p)
    <3>1. PICK m \in DOMAIN s : x = s[m] /\ m # i
      BY <2>2 DEF ToSet
    <3>2. PICK k \in DOMAIN p : p[k] = s[m]
      <4>1. CASE m < i
        BY <1>1, <3>1, <4>1
      <4>2. CASE m > i
        <5>1. m - 1 \in DOMAIN p /\ p[m - 1] = s[m]
          BY <1>1, <3>1, <4>2
        <5> QED
          BY <5>1
      <4> QED
        BY <1>1, <3>1, <4>1, <4>2
    <3> QED
      BY <3>1, <3>2 DEF ToSet
  <2> QED
    BY <2>1, <2>2
<1>3. IsInjective(p)
  BY <1>1 DEF IsInjective
<1> QED
  BY <1>1, <1>2, <1>3 DEF p

(* _tls_drain_class: the list is cut in two.                               *)
LEMMA CutList ==
  ASSUME NEW S, NEW s \in Seq(S), NEW n \in Nat, n <= Len(s), IsInjective(s)
  PROVE  /\ Kept(s, n) \in Seq(S) /\ Len(Kept(s, n)) = n /\ IsInjective(Kept(s, n))
         /\ ToSet(Kept(s, n)) = ToSet(s) \ Drained(s, n)
         /\ Drained(s, n) \subseteq ToSet(s)
<1> DEFINE m == Len(s) - n
           a == SubSeq(s, 1, m)
           b == SubSeq(s, m + 1, Len(s))
<1>1. m \in Nat /\ Len(s) = m + n /\ DOMAIN s = 1 .. Len(s)
  OBVIOUS
<1>2. /\ DOMAIN a = 1 .. m /\ \A k \in 1 .. m : a[k] = s[k]
      /\ b \in Seq(S) /\ Len(b) = n /\ DOMAIN b = 1 .. n /\ \A k \in 1 .. n : b[k] = s[k + m]
  BY <1>1
<1>3. Kept(s, n) = b /\ Drained(s, n) = ToSet(a)
  BY DEF Kept, Drained
<1> HIDE DEF m, a, b
<1> \A k \in 1 .. n : k + m \in DOMAIN s
  BY <1>1
<1>4. IsInjective(b)
  <2>1. ASSUME NEW i \in 1 .. n, NEW j \in 1 .. n, b[i] = b[j] PROVE i = j
    <3>1. s[i + m] = s[j + m]
      BY <1>2, <2>1
    <3>2. i + m = j + m
      BY <3>1 DEF IsInjective
    <3> QED
      BY <1>1, <3>2
  <2> QED
    BY <1>2, <2>1 DEF IsInjective
<1>5. ToSet(a) \subseteq ToSet(s)
  BY <1>1, <1>2 DEF ToSet
<1>6. ASSUME NEW x \in ToSet(b) PROVE x \in ToSet(s) /\ x \notin ToSet(a)
  <2>1. PICK k \in 1 .. n : x = s[k + m]
    BY <1>2 DEF ToSet
  <2>2. ASSUME NEW i \in 1 .. m PROVE s[i] # x
    BY <1>1, <2>1 DEF IsInjective
  <2> QED
    BY <1>2, <2>1, <2>2 DEF ToSet
<1>7. ASSUME NEW x \in ToSet(s), x \notin ToSet(a) PROVE x \in ToSet(b)
  <2>1. PICK i \in DOMAIN s : x = s[i]
    BY DEF ToSet
  <2>2. i > m
    BY <1>1, <1>2, <1>7, <2>1 DEF ToSet
  <2>3. i - m \in DOMAIN b /\ b[i - m] = x
    BY <1>1, <1>2, <2>1, <2>2
  <2> QED
    BY <2>3 DEF ToSet
<1> QED
  BY <1>2, <1>3, <1>4, <1>5, <1>6, <1>7

(* A list has at least as many places as members, and no more when it has  *)
(* no repetition.                                                          *)
LEMMA ListSize ==
  ASSUME NEW S, NEW s \in Seq(S)
  PROVE  /\ IsFiniteSet(ToSet(s)) /\ Cardinality(ToSet(s)) <= Len(s)
         /\ IsInjective(s) => Cardinality(ToSet(s)) = Len(s)
<1>1. s \in [1 .. Len(s) -> ToSet(s)] /\ Len(s) \in Nat /\ DOMAIN s = 1 .. Len(s)
  BY DEF ToSet
<1>2. s \in Surjection(1 .. Len(s), ToSet(s))
  BY <1>1 DEF Surjection, ToSet
<1>3. IsFiniteSet(1 .. Len(s)) /\ Cardinality(1 .. Len(s)) = Len(s)
  <2> 1 \in Int /\ Len(s) \in Int
    BY <1>1
  <2>1. /\ IsFiniteSet(1 .. Len(s))
        /\ Cardinality(1 .. Len(s)) = IF 1 > Len(s) THEN 0 ELSE Len(s) - 1 + 1
    BY FS_Interval, Zenon
  <2> QED
    BY <1>1, <2>1
<1>4. IsInjective(s) => s \in Injection(1 .. Len(s), ToSet(s))
  BY <1>1 DEF IsInjective, Injection
<1> QED
  BY <1>2, <1>3, <1>4, FS_Surjection

-----------------------------------------------------------------------------
(* Places.                                                                 *)

LEMMA OwnSlots ==
  \A s \in Threads : \A x : x \in SlotsOf(s) <=> x \in Run /\ x.owner = s
BY DEF SlotsOf, Run

(* A run that is seen somewhere is given out, and nowhere else.            *)
LEMMA OnlyPlace ==
  ASSUME Placed, NEW x \in Run
  PROVE  /\ \A t \in HeldBy(x) : /\ Given(x) /\ HeldBy(x) = {t} /\ CallsOf(x) = {}
                                 /\ ClassesOf(x) = {} /\ StacksOf(x) = {} /\ x \notin lost
         /\ \A t \in CallsOf(x) : /\ Given(x) /\ HeldBy(x) = {} /\ CallsOf(x) = {t}
                                  /\ ClassesOf(x) = {} /\ StacksOf(x) = {} /\ x \notin lost
         /\ \A t \in ClassesOf(x) : /\ Given(x) /\ HeldBy(x) = {} /\ CallsOf(x) = {}
                                    /\ ClassesOf(x) = {t} /\ StacksOf(x) = {} /\ x \notin lost
         /\ \A t \in StacksOf(x) : /\ Given(x) /\ HeldBy(x) = {} /\ CallsOf(x) = {}
                                   /\ ClassesOf(x) = {} /\ StacksOf(x) = {t} /\ x \notin lost
<1>1. Right(x)
  BY DEF Placed
<1> QED
  BY <1>1 DEF Right, Somewhere, Nowhere, Exactly, Alone

(* A step that leaves the places of a run alone leaves it right.           *)
LEMMA StaysRight ==
  ASSUME Placed, NEW x \in Run,
         Given(x)' <=> Given(x), HeldBy(x)' = HeldBy(x), CallsOf(x)' = CallsOf(x),
         ClassesOf(x)' = ClassesOf(x), StacksOf(x)' = StacksOf(x),
         (x \in lost') <=> x \in lost
  PROVE  Right(x)'
<1>1. Right(x)
  BY DEF Placed
<1> QED
  BY <1>1 DEF Right, Somewhere, Nowhere, Exactly

(* A cached run, the class it is in and its stamp.                         *)
LEMMA CachedRun ==
  ASSUME IInv, NEW t \in Threads, NEW c \in Classes, NEW x \in ToSet(cache[t][c])
  PROVE  /\ x \in Run /\ x \in Cached(t) /\ stamp[x] = x.owner /\ x.owner \in Threads
         /\ <<t, c>> \in ClassesOf(x) /\ Given(x) /\ hasState[x.owner]
         /\ HeldBy(x) = {} /\ CallsOf(x) = {} /\ ClassesOf(x) = {<<t, c>>}
         /\ StacksOf(x) = {} /\ x \notin lost
<1>1. x \in Run /\ x.owner \in Threads
  <2>1. cache[t][c] \in Seq(Run)
    BY DEF IInv, Types
  <2>2. x \in Run
    BY <2>1 DEF ToSet
  <2> QED
    BY <2>2 DEF Run
<1>2. x \in Cached(t)
  BY DEF Cached, RunsIn
<1>3. stamp[x] = x.owner
  BY <1>2 DEF IInv, Listed
<1>4. <<t, c>> \in ClassesOf(x)
  BY DEF ClassesOf
<1>5. Given(x)
  BY <1>1, <1>4, OnlyPlace DEF IInv
<1>6. hasState[x.owner]
  BY <1>1, <1>5 DEF IInv, Sized
<1> QED
  BY <1>1, <1>2, <1>3, <1>4, <1>5, <1>6, OnlyPlace DEF IInv

(* The program of t gains a run of b bytes, or learns that it has b.       *)
HeldGains(t, r, b) ==
  /\ DOMAIN held' = Threads
  /\ \A u \in Threads : DOMAIN held'[u] = IF u = t THEN DOMAIN held[u] \cup {r}
                                          ELSE DOMAIN held[u]
  /\ held'[t][r] = b
  /\ \A u \in Threads : \A x \in DOMAIN held[u] :
        (u = t /\ x = r) \/ held'[u][x] = held[u][x]
  /\ \A x : HeldBy(x)' = IF x = r THEN HeldBy(x) \cup {t} ELSE HeldBy(x)

LEMMA HoldPlaces ==
  ASSUME Types, NEW t \in Threads, NEW r \in Run, NEW b, Hold(t, r, b)
  PROVE  HeldGains(t, r, b)
<1>1. DOMAIN held = Threads /\ held' = [held EXCEPT ![t] = With(held[t], r, b)]
  BY DEF Types, Hold
<1>2. /\ DOMAIN held' = Threads
      /\ \A u \in Threads : held'[u] = IF u = t THEN With(held[t], r, b) ELSE held[u]
  BY <1>1
<1>3. /\ DOMAIN With(held[t], r, b) = DOMAIN held[t] \cup {r}
      /\ With(held[t], r, b)[r] = b
      /\ \A x \in DOMAIN held[t] : x = r \/ With(held[t], r, b)[x] = held[t][x]
  BY DEF With
<1>4. \A u \in Threads : DOMAIN held'[u] = IF u = t THEN DOMAIN held[u] \cup {r}
                                           ELSE DOMAIN held[u]
  BY <1>2, <1>3
<1>5. \A x : HeldBy(x)' = IF x = r THEN HeldBy(x) \cup {t} ELSE HeldBy(x)
  BY <1>4 DEF HeldBy
<1>6. \A u \in Threads : \A x \in DOMAIN held[u] :
         (u = t /\ x = r) \/ held'[u][x] = held[u][x]
  BY <1>2, <1>3
<1>7. held'[t][r] = b
  BY <1>2, <1>3
<1> QED
  BY <1>2, <1>4, <1>5, <1>6, <1>7 DEF HeldGains

LEMMA DropPlaces ==
  ASSUME Types, NEW t \in Threads, NEW r \in Run, Drop(t, r)
  PROVE  /\ DOMAIN held' = Threads
         /\ \A u \in Threads : /\ DOMAIN held'[u] = IF u = t THEN DOMAIN held[u] \ {r}
                                                    ELSE DOMAIN held[u]
                               /\ \A x \in DOMAIN held'[u] : held'[u][x] = held[u][x]
         /\ \A x : HeldBy(x)' = IF x = r THEN HeldBy(x) \ {t} ELSE HeldBy(x)
<1>1. DOMAIN held = Threads /\ held' = [held EXCEPT ![t] = Without(held[t], {r})]
  BY DEF Types, Drop
<1>2. /\ DOMAIN held' = Threads
      /\ \A u \in Threads : held'[u] = IF u = t THEN Without(held[t], {r}) ELSE held[u]
  BY <1>1
<1>3. /\ DOMAIN Without(held[t], {r}) = DOMAIN held[t] \ {r}
      /\ \A x \in DOMAIN held[t] \ {r} : Without(held[t], {r})[x] = held[t][x]
  BY DEF Without
<1>4. \A u \in Threads : /\ DOMAIN held'[u] = IF u = t THEN DOMAIN held[u] \ {r}
                                              ELSE DOMAIN held[u]
                         /\ \A x \in DOMAIN held'[u] : held'[u][x] = held[u][x]
  BY <1>2, <1>3
<1>5. \A x : HeldBy(x)' = IF x = r THEN HeldBy(x) \ {t} ELSE HeldBy(x)
  BY <1>4 DEF HeldBy
<1> QED
  BY <1>2, <1>4, <1>5

LEMMA CallPlaces ==
  ASSUME Types, NEW t \in Threads, NEW k \in Calls, call' = [call EXCEPT ![t] = k]
  PROVE  /\ call' \in [Threads -> Calls] /\ call'[t] = k
         /\ \A u \in Threads : u # t => call'[u] = call[u]
         /\ \A x : CallsOf(x)' = (CallsOf(x) \ {t}) \cup (IF k.raw = x THEN {t} ELSE {})
<1>1. /\ call' \in [Threads -> Calls] /\ call'[t] = k
      /\ \A u \in Threads : u # t => call'[u] = call[u]
  BY DEF Types
<1> QED
  BY <1>1 DEF CallsOf

(* One class of one thread becomes the list s.                             *)
LEMMA ClassPlaces ==
  ASSUME Types, NEW t \in Threads, NEW c \in Classes, NEW s \in Seq(Run),
         cache' = [cache EXCEPT ![t][c] = s]
  PROVE  /\ cache' \in [Threads -> [Classes -> Seq(Run)]] /\ cache'[t][c] = s
         /\ \A u \in Threads, d \in Classes : u # t \/ d # c => cache'[u][d] = cache[u][d]
         /\ \A x : ClassesOf(x)' = (ClassesOf(x) \ {<<t, c>>})
                                     \cup (IF x \in ToSet(s) THEN {<<t, c>>} ELSE {})
<1>1. /\ cache' \in [Threads -> [Classes -> Seq(Run)]] /\ cache'[t][c] = s
      /\ \A u \in Threads, d \in Classes : u # t \/ d # c => cache'[u][d] = cache[u][d]
  BY DEF Types
<1>2. ASSUME NEW x, NEW p \in Threads \X Classes
      PROVE  p \in ClassesOf(x)' <=> \/ p \in ClassesOf(x) /\ p # <<t, c>>
                                     \/ p = <<t, c>> /\ x \in ToSet(s)
  <2>1. p[1] \in Threads /\ p[2] \in Classes /\ p = <<p[1], p[2]>>
    OBVIOUS
  <2>2. p \in ClassesOf(x)' <=> x \in ToSet(cache'[p[1]][p[2]])
    BY DEF ClassesOf
  <2>3. p \in ClassesOf(x) <=> x \in ToSet(cache[p[1]][p[2]])
    BY DEF ClassesOf
  <2>4. CASE p = <<t, c>>
    BY <1>1, <2>2, <2>4
  <2>5. CASE p # <<t, c>>
    <3>1. cache'[p[1]][p[2]] = cache[p[1]][p[2]]
      BY <1>1, <2>1, <2>5
    <3> QED
      BY <2>2, <2>3, <2>5, <3>1
  <2> QED
    BY <2>4, <2>5
<1>3. \A x : ClassesOf(x) \subseteq Threads \X Classes /\ ClassesOf(x)' \subseteq Threads \X Classes
  BY DEF ClassesOf
<1>4. <<t, c>> \in Threads \X Classes
  OBVIOUS
<1>5. \A x : ClassesOf(x)' = (ClassesOf(x) \ {<<t, c>>})
                               \cup (IF x \in ToSet(s) THEN {<<t, c>>} ELSE {})
  BY <1>2, <1>3, <1>4
<1> QED
  BY <1>1, <1>5

(* Runs leave a cache: those of the thread itself are freed, the others    *)
(* are parked at their owners.                                             *)
LEMMA Returned ==
  ASSUME IInv, NEW t \in Threads, NEW runs \in SUBSET Cached(t), Return(t, runs)
  PROVE  /\ DOMAIN used' = Threads /\ parked' \in [Threads -> SUBSET Run]
         /\ \A s \in Threads :
               /\ DOMAIN used'[s] = IF s = t THEN DOMAIN used[t] \ runs ELSE DOMAIN used[s]
               /\ \A x \in DOMAIN used'[s] : used'[s][x] = used[s][x]
               /\ parked'[s] = IF s = t THEN parked[t]
                               ELSE parked[s] \cup {x \in runs : x.owner = s}
         /\ \A x \in Run :
               /\ Given(x)' <=> Given(x) /\ ~ (x \in runs /\ x.owner = t)
               /\ StacksOf(x)' = IF x \in runs /\ x.owner # t
                                  THEN StacksOf(x) \cup {x.owner} ELSE StacksOf(x)
<1> DEFINE own == {r \in runs : Mine(t, r)}
<1>1. \A x \in runs : /\ x \in Run /\ x.owner \in Threads /\ stamp[x] = x.owner
                       /\ Given(x) /\ hasState[x.owner]
  <2>1. ASSUME NEW x \in runs PROVE \E c \in Classes : x \in ToSet(cache[t][c])
    BY DEF Cached, RunsIn
  <2> QED
    BY <2>1, CachedRun
<1>2. own = {x \in runs : x.owner = t}
  BY <1>1 DEF Mine
<1>3. /\ used' = [used EXCEPT ![t] = Without(used[t], own)]
      /\ parked' = [s \in Threads |-> parked[s] \cup {r \in runs \ own : stamp[r] = s}]
  BY DEF Return
<1> HIDE DEF own
<1>4. DOMAIN used = Threads /\ parked \in [Threads -> SUBSET Run]
      /\ \A s \in Threads : DOMAIN used[s] \subseteq SlotsOf(s)
  BY DEF IInv, Types
<1>5. /\ DOMAIN used' = Threads
      /\ \A s \in Threads : used'[s] = IF s = t THEN Without(used[t], own) ELSE used[s]
  BY <1>3, <1>4
<1>6. /\ DOMAIN Without(used[t], own) = DOMAIN used[t] \ own
      /\ \A x \in DOMAIN used[t] \ own : Without(used[t], own)[x] = used[t][x]
  BY DEF Without
<1>7. DOMAIN used[t] \ own = DOMAIN used[t] \ runs
  BY <1>2, <1>4, OwnSlots
<1>8. \A s \in Threads :
         /\ DOMAIN used'[s] = IF s = t THEN DOMAIN used[t] \ runs ELSE DOMAIN used[s]
         /\ \A x \in DOMAIN used'[s] : used'[s][x] = used[s][x]
  BY <1>5, <1>6, <1>7
<1>9. /\ parked' \in [Threads -> SUBSET Run]
      /\ \A s \in Threads : parked'[s] = IF s = t THEN parked[t]
                                         ELSE parked[s] \cup {x \in runs : x.owner = s}
  <2>1. \A s \in Threads : parked'[s] = parked[s] \cup {r \in runs \ own : stamp[r] = s}
    BY <1>3
  <2>2. \A s \in Threads : {r \in runs \ own : stamp[r] = s}
                              = IF s = t THEN {} ELSE {x \in runs : x.owner = s}
    BY <1>1, <1>2
  <2>3. \A s \in Threads : parked'[s] \subseteq Run
    BY <1>1, <1>4, <2>1
  <2>4. DOMAIN parked' = Threads /\ parked' = [s \in Threads |-> parked'[s]]
    BY <1>3
  <2> QED
    BY <2>1, <2>2, <2>3, <2>4
<1>10. ASSUME NEW x \in Run
       PROVE  /\ Given(x)' <=> Given(x) /\ ~ (x \in runs /\ x.owner = t)
              /\ StacksOf(x)' = IF x \in runs /\ x.owner # t
                                 THEN StacksOf(x) \cup {x.owner} ELSE StacksOf(x)
  <2>1. x.owner \in Threads
    BY DEF Run
  <2>2. Given(x)' <=> Given(x) /\ ~ (x \in runs /\ x.owner = t)
    BY <1>8, <2>1 DEF Given
  <2>3. StacksOf(x)' = IF x \in runs /\ x.owner # t
                       THEN StacksOf(x) \cup {x.owner} ELSE StacksOf(x)
    BY <1>9, <2>1 DEF StacksOf
  <2> QED
    BY <2>2, <2>3
<1> QED
  BY <1>5, <1>8, <1>9, <1>10

(* Whole classes are taken out of a cache.                                 *)
LEMMA TakenOut ==
  ASSUME IInv, NEW t \in Threads, NEW some \in SUBSET Classes, TakeOut(t, some)
  PROVE  /\ RunsIn(t, some) \subseteq Cached(t) /\ Return(t, RunsIn(t, some))
         /\ cache' \in [Threads -> [Classes -> Seq(Run)]]
         /\ \A u \in Threads, d \in Classes :
               cache'[u][d] = IF u = t /\ d \in some THEN <<>> ELSE cache[u][d]
         /\ \A x \in Run : ClassesOf(x)' = IF x \in RunsIn(t, some) THEN {} ELSE ClassesOf(x)
<1> DEFINE runs == RunsIn(t, some)
<1>1. runs \subseteq Cached(t) /\ Return(t, runs)
  BY DEF RunsIn, Cached, TakeOut
<1>2. cache' = [cache EXCEPT ![t] = [c \in Classes |-> IF c \in some THEN <<>> ELSE cache[t][c]]]
  BY DEF TakeOut
<1>3. cache \in [Threads -> [Classes -> Seq(Run)]]
  BY DEF IInv, Types
<1>4. [c \in Classes |-> IF c \in some THEN <<>> ELSE cache[t][c]] \in [Classes -> Seq(Run)]
  BY <1>3
<1>5. /\ cache' \in [Threads -> [Classes -> Seq(Run)]]
      /\ \A u \in Threads, d \in Classes :
            cache'[u][d] = IF u = t /\ d \in some THEN <<>> ELSE cache[u][d]
  BY <1>2, <1>3, <1>4
<1>6. ASSUME NEW x \in Run
      PROVE  ClassesOf(x)' = IF x \in runs THEN {} ELSE ClassesOf(x)
  <2>1. \A p \in Threads \X Classes : p[1] \in Threads /\ p[2] \in Classes
    OBVIOUS
  <2>2. ToSet(<<>>) = {}
    BY DEF ToSet
  <2>3. \A p \in Threads \X Classes :
           x \in ToSet(cache'[p[1]][p[2]]) <=>
             x \in ToSet(cache[p[1]][p[2]]) /\ ~ (p[1] = t /\ p[2] \in some)
    BY <1>5, <2>1, <2>2
  <2>4. CASE x \in runs
    <3>1. PICK c \in some : x \in ToSet(cache[t][c])
      BY <2>4 DEF RunsIn
    <3>2. ClassesOf(x) = {<<t, c>>}
      BY <3>1, CachedRun
    <3>3. ASSUME NEW p \in Threads \X Classes, x \in ToSet(cache'[p[1]][p[2]]) PROVE FALSE
      <4>1. p \in ClassesOf(x)
        BY <2>3, <3>3 DEF ClassesOf
      <4>2. p[1] = t /\ p[2] = c
        BY <3>2, <4>1
      <4> QED
        BY <2>3, <3>1, <3>3, <4>2
    <3> QED
      BY <2>4, <3>3 DEF ClassesOf
  <2>5. CASE x \notin runs
    <3>1. \A c \in some : x \notin ToSet(cache[t][c])
      BY <2>5 DEF RunsIn
    <3>2. \A p \in Threads \X Classes :
             x \in ToSet(cache'[p[1]][p[2]]) <=> x \in ToSet(cache[p[1]][p[2]])
      BY <2>3, <3>1
    <3> QED
      BY <2>5, <3>2 DEF ClassesOf
  <2> QED
    BY <2>4, <2>5
<1> QED
  BY <1>1, <1>5, <1>6

(* The runner takes its stack over if it is full, and hands out a slot     *)
(* that is free then.                                                      *)
Reclaimed(s) == IF Drains(s) THEN parked[s] ELSE {}

(* What a grant does to the runs given out and to the stacks.              *)
UsedGains(t, r) ==
  \A s \in Threads :
     /\ DOMAIN used'[s] = IF s = t THEN (DOMAIN used[t] \ Reclaimed(t)) \cup {r}
                          ELSE DOMAIN used[s]
     /\ \A x \in DOMAIN used'[s] \ {r} : used'[s][x] = used[s][x]
     /\ parked'[s] \subseteq parked[s]

(* Each other run is as it was, or was reclaimed from the stack.           *)
OthersStay(r) ==
  \A x \in Run \ {r} :
     \/ /\ Given(x)' <=> Given(x)
        /\ StacksOf(x)' = StacksOf(x)
     \/ /\ ~ Given(x)' /\ StacksOf(x)' = {}
        /\ HeldBy(x) = {} /\ CallsOf(x) = {} /\ ClassesOf(x) = {} /\ x \notin lost

LEMMA Granted ==
  ASSUME IInv, NEW t \in Threads, NEW r, NEW b, RunnerAllocate(t, r, b)
  PROVE  /\ r \in Run /\ r.owner = t
         /\ HeldBy(r) = {} /\ CallsOf(r) = {} /\ ClassesOf(r) = {} /\ r \notin lost
         /\ DOMAIN used' = Threads /\ parked' \in [Threads -> SUBSET Run]
         /\ UsedGains(t, r) /\ used'[t][r] = PayloadFor(b)
         /\ Given(r)' /\ StacksOf(r)' = {}
         /\ OthersStay(r)
<1> DEFINE before == UsedAfterDrain(t)
           back == Reclaimed(t)
<1>1. /\ DOMAIN used = Threads /\ parked \in [Threads -> SUBSET Run]
      /\ \A s \in Threads : DOMAIN used[s] \subseteq SlotsOf(s) /\ parked[s] \subseteq SlotsOf(s)
  BY DEF IInv, Types
<1>2. /\ DOMAIN before = DOMAIN used[t] \ back
      /\ \A x \in DOMAIN before : before[x] = used[t][x]
  BY DEF UsedAfterDrain, Reclaimed, Without
<1>3. /\ r \in SlotsOf(t) \ DOMAIN before
      /\ used' = [used EXCEPT ![t] = With(before, r, PayloadFor(b))]
      /\ parked' = IF Drains(t) THEN [parked EXCEPT ![t] = {}] ELSE parked
  BY DEF RunnerAllocate
<1>4. /\ parked' \in [Threads -> SUBSET Run]
      /\ \A s \in Threads : parked'[s] = IF s = t THEN parked[t] \ back ELSE parked[s]
  BY <1>1, <1>3 DEF Reclaimed
<1> HIDE DEF before, back
<1>5. r \in Run /\ r.owner = t
  BY <1>3, OwnSlots
<1>6. /\ DOMAIN With(before, r, PayloadFor(b)) = DOMAIN before \cup {r}
      /\ With(before, r, PayloadFor(b))[r] = PayloadFor(b)
      /\ \A x \in DOMAIN before \ {r} : With(before, r, PayloadFor(b))[x] = before[x]
  BY DEF With
<1>7. /\ DOMAIN used' = Threads
      /\ \A s \in Threads : used'[s] = IF s = t THEN With(before, r, PayloadFor(b)) ELSE used[s]
  BY <1>1, <1>3
<1>8. \A s \in Threads :
         /\ DOMAIN used'[s] = IF s = t THEN (DOMAIN used[t] \ back) \cup {r} ELSE DOMAIN used[s]
         /\ \A x \in DOMAIN used'[s] \ {r} : used'[s][x] = used[s][x]
  BY <1>2, <1>6, <1>7
<1>9. back \subseteq parked[t]
  BY DEF back, Reclaimed
<1>10. \A x \in Run : x \in parked[t] => t \in StacksOf(x)
  BY DEF StacksOf
<1>11. HeldBy(r) = {} /\ CallsOf(r) = {} /\ ClassesOf(r) = {} /\ r \notin lost /\ r \notin parked'[t]
  <2>1. CASE r \in back
    BY <1>4, <1>5, <1>9, <1>10, <2>1, OnlyPlace DEF IInv
  <2>2. CASE r \notin back
    <3>1. ~ Given(r)
      BY <1>2, <1>3, <1>5, <2>2 DEF Given
    <3>2. Nowhere(r)
      BY <1>5, <3>1 DEF IInv, Placed, Right
    <3> QED
      BY <1>4, <1>10, <1>5, <3>2 DEF Nowhere
  <2> QED
    BY <2>1, <2>2
<1>12. Given(r)' /\ used'[t][r] = PayloadFor(b)
  BY <1>5, <1>6, <1>7 DEF Given
<1>13. StacksOf(r)' = {}
  <2>1. \A s \in Threads : s # t => r \notin parked[s]
    BY <1>1, <1>5, OwnSlots
  <2> QED
    BY <1>4, <1>11, <2>1 DEF StacksOf
<1>14. ASSUME NEW x \in Run, x # r
       PROVE  \/ /\ Given(x)' <=> Given(x)
                 /\ StacksOf(x)' = StacksOf(x)
              \/ /\ ~ Given(x)' /\ StacksOf(x)' = {}
                 /\ HeldBy(x) = {} /\ CallsOf(x) = {} /\ ClassesOf(x) = {} /\ x \notin lost
  <2>1. x.owner \in Threads
    BY DEF Run
  <2>2. CASE x \in back
    <3>1. /\ StacksOf(x) = {t} /\ HeldBy(x) = {} /\ CallsOf(x) = {}
          /\ ClassesOf(x) = {} /\ x \notin lost
      BY <1>9, <1>10, <2>2, OnlyPlace DEF IInv
    <3>2. x.owner = t
      BY <1>1, <1>9, <2>2, OwnSlots
    <3>3. ~ Given(x)'
      BY <1>8, <1>14, <2>2, <3>2 DEF Given
    <3>4. StacksOf(x)' = {}
      BY <1>4, <2>2, <3>1 DEF StacksOf
    <3> QED
      BY <3>1, <3>3, <3>4
  <2>3. CASE x \notin back
    <3>1. Given(x)' <=> Given(x)
      BY <1>8, <1>14, <2>1, <2>3 DEF Given
    <3>2. StacksOf(x)' = StacksOf(x)
      BY <1>4, <2>3 DEF StacksOf
    <3> QED
      BY <3>1, <3>2
  <2> QED
    BY <2>2, <2>3
<1>15. \A s \in Threads : parked'[s] \subseteq parked[s]
  BY <1>4
<1>16. UsedGains(t, r)
  BY <1>8, <1>15 DEF UsedGains, back
<1>17. OthersStay(r)
  BY <1>14 DEF OthersStay
<1> QED
  BY <1>4, <1>5, <1>7, <1>11, <1>12, <1>13, <1>16, <1>17

-----------------------------------------------------------------------------
(* One lemma per operation.                                                *)

LEMMA CachedMeans ==
  \A t, x : x \in Cached(t) <=> \E c \in Classes : x \in ToSet(cache[t][c])
BY DEF Cached, RunsIn

LEMMA CachedMeansNext ==
  \A t, x : x \in Cached(t)' <=> \E c \in Classes : x \in ToSet(cache'[t][c])
BY DEF Cached, RunsIn

LEMMA RequestSize ==
  \A b \in Requests : b \in Nat /\ b \in 2 .. MaxBytes /\ b >= 1 /\ b <= MaxBytes
BY ClassesAssumption

(* A class that lost runs, or is as it was, is no longer and no fuller.    *)
LEMMA StillBounded ==
  ASSUME IInv, NEW t \in Threads, NEW c \in Classes,
         cache' \in [Threads -> [Classes -> Seq(Run)]],
         Len(cache'[t][c]) <= Len(cache[t][c]), ToSet(cache'[t][c]) \subseteq ToSet(cache[t][c])
  PROVE  /\ Len(cache'[t][c]) <= High + RefillBatch - 1
         /\ Cardinality(Foreign(t, c)') <= High
<1>1. cache[t][c] \in Seq(Run) /\ cache'[t][c] \in Seq(Run)
  BY DEF IInv, Types
<1>2. Len(cache[t][c]) <= High + RefillBatch - 1 /\ Cardinality(Foreign(t, c)) <= High
  BY DEF IInv, Bounded
<1>3. High \in Nat /\ RefillBatch \in Nat
  BY MarksAssumption
<1>4. Foreign(t, c)' \in SUBSET Foreign(t, c)
  BY DEF Foreign
<1>5. IsFiniteSet(Foreign(t, c))
  <2>1. IsFiniteSet(ToSet(cache[t][c])) /\ Foreign(t, c) \in SUBSET ToSet(cache[t][c])
    BY <1>1, ListSize DEF Foreign
  <2> QED
    BY <2>1, FS_Subset
<1>6. Cardinality(Foreign(t, c)') <= Cardinality(Foreign(t, c))
  BY <1>4, <1>5, FS_Subset
<1>7. IsFiniteSet(Foreign(t, c)')
  BY <1>4, <1>5, FS_Subset
<1>8. Cardinality(Foreign(t, c)) \in Nat /\ Cardinality(Foreign(t, c)') \in Nat
  BY <1>5, <1>7, FS_CardinalityType
<1>9. Len(cache[t][c]) \in Nat /\ Len(cache'[t][c]) \in Nat
  BY <1>1
<1> QED
  BY <1>2, <1>3, <1>6, <1>8, <1>9

LEMMA InitInv == Init => IInv
<1> SUFFICES ASSUME Init PROVE IInv
  OBVIOUS
<1>1. \A t \in Threads : /\ DOMAIN used[t] = {} /\ DOMAIN held[t] = {} /\ parked[t] = {}
                         /\ call[t] = Idle /\ hasState[t] = FALSE
                         /\ \A c \in Classes : cache[t][c] = <<>>
  BY DEF Init
<1>2. Idle \in Calls /\ Idle.raw = Null /\ Idle.pc = "idle"
  BY ClassesAssumption, MarksAssumption DEF Idle, Calls
<1>3. ToSet(<<>>) = {} /\ <<>> \in Seq(Run) /\ Len(<<>>) = 0 /\ IsInjective(<<>>)
  BY DEF ToSet, IsInjective
<1>4. Types
  BY <1>1, <1>2, <1>3 DEF Init, Types
<1>5. Placed
  <2> SUFFICES ASSUME NEW x \in Run PROVE Right(x)
    BY DEF Placed
  <2>1. x.owner \in Threads /\ x # Null
    BY NullAssumption DEF Run
  <2>2. ~ Given(x)
    BY <1>1, <2>1 DEF Given
  <2>3. HeldBy(x) = {} /\ CallsOf(x) = {} /\ StacksOf(x) = {} /\ x \notin lost
    BY <1>1, <1>2, <2>1 DEF HeldBy, CallsOf, StacksOf, Init
  <2>4. ClassesOf(x) = {}
    <3>1. \A p \in Threads \X Classes : cache[p[1]][p[2]] = <<>>
      BY <1>1
    <3> QED
      BY <1>3, <3>1 DEF ClassesOf
  <2> QED
    BY <2>2, <2>3, <2>4 DEF Right, Nowhere
<1>6. \A t \in Threads : Cached(t) = {}
  BY <1>1, <1>3, CachedMeans
<1>7. Sized
  BY <1>1 DEF Sized, Given, Run
<1>8. Roomy
  BY <1>1, <1>3 DEF Roomy
<1>9. Listed
  BY <1>1, <1>3, <1>6 DEF Listed
<1>10. Bounded
  <2>1. \A t \in Threads, c \in Classes : Foreign(t, c) = {}
    BY <1>1, <1>3 DEF Foreign
  <2>2. Cardinality({}) = 0
    BY FS_EmptySet
  <2>3. High \in Nat /\ RefillBatch \in Nat /\ RefillBatch >= 1
    BY MarksAssumption
  <2>4. \A t \in Threads, c \in Classes : /\ Len(cache[t][c]) <= High + RefillBatch - 1
                                          /\ Cardinality(Foreign(t, c)) <= High
    <3> TAKE t \in Threads, c \in Classes
    <3>1. Len(cache[t][c]) = 0
      BY <1>1, <1>3, Zenon
    <3>2. Cardinality(Foreign(t, c)) = 0
      BY <2>1, <2>2, Zenon
    <3> QED
      BY <2>3, <3>1, <3>2
  <2>5. \A t \in Threads : call[t].pc # "refill"
    BY <1>1, <1>2
  <2> QED
    BY <2>4, <2>5 DEF Bounded
<1>11. InCall
  BY <1>1, <1>2 DEF InCall, Init
<1> QED
  BY <1>4, <1>5, <1>7, <1>8, <1>9, <1>10, <1>11 DEF IInv

(* A cached run of the thread's own is handed out again.                   *)
LEMMA HitKeeps ==
  ASSUME IInv, NEW t \in Threads, NEW b \in Requests, AllocateHit(t, b)
  PROVE  IInv'
<1> DEFINE idx == ClassIndexFor(b)
<1>1. /\ call[t].pc = "idle" /\ phase[t] # "ended" /\ Cacheable(b)
      /\ UNCHANGED <<mode, phase, hasState, used, parked, call, lost>>
  BY DEF AllocateHit
<1>2. PICK i \in Reusable(t, idx) :
         /\ cache' = [cache EXCEPT ![t][idx] = RemoveAt(cache[t][idx], i)]
         /\ stamp' = [stamp EXCEPT ![cache[t][idx][i]] = Null]
         /\ late' = late \ {cache[t][idx][i]}
         /\ Hold(t, cache[t][idx][i], b)
  BY DEF AllocateHit
<1>3. b \in Nat /\ b \in 2 .. MaxBytes /\ b >= 1
  BY RequestSize
<1>4. idx \in Classes /\ ClassBytes(idx) \in Nat /\ b <= ClassBytes(idx)
  BY <1>1, <1>3, ClassSizes
<1> HIDE DEF idx
<1>5. cache[t][idx] \in Seq(Run) /\ i \in 1 .. Len(cache[t][idx]) /\ IsInjective(cache[t][idx])
  BY <1>4 DEF IInv, Types, Listed, Reusable
<1> DEFINE r == cache[t][idx][i]
           s == RemoveAt(cache[t][idx], i)
<1>6. s \in Seq(Run) /\ Len(s) = Len(cache[t][idx]) - 1
      /\ ToSet(s) = ToSet(cache[t][idx]) \ {r} /\ IsInjective(s)
  BY <1>5, RemovedRun
<1>7. r \in ToSet(cache[t][idx]) /\ stamp[r] = t
  BY <1>5 DEF ToSet, Reusable
<1>8. cache' = [cache EXCEPT ![t][idx] = s] /\ stamp' = [stamp EXCEPT ![r] = Null]
      /\ late' = late \ {r} /\ Hold(t, r, b)
  BY <1>2
<1> HIDE DEF r, s
<1>9. /\ r \in Run /\ r \in Cached(t) /\ r.owner = t
      /\ Given(r) /\ HeldBy(r) = {} /\ CallsOf(r) = {} /\ ClassesOf(r) = {<<t, idx>>}
      /\ StacksOf(r) = {} /\ r \notin lost
  BY <1>4, <1>7, CachedRun
<1>10. Types
  BY DEF IInv
<1>11. /\ cache' \in [Threads -> [Classes -> Seq(Run)]] /\ cache'[t][idx] = s
       /\ \A u \in Threads, d \in Classes : u # t \/ d # idx => cache'[u][d] = cache[u][d]
       /\ \A x : ClassesOf(x)' = (ClassesOf(x) \ {<<t, idx>>})
                                     \cup (IF x \in ToSet(s) THEN {<<t, idx>>} ELSE {})
  BY <1>4, <1>6, <1>8, <1>10, ClassPlaces
<1>12. /\ DOMAIN held' = Threads
       /\ \A u \in Threads : DOMAIN held'[u] = IF u = t THEN DOMAIN held[u] \cup {r}
                                               ELSE DOMAIN held[u]
       /\ held'[t][r] = b
       /\ \A u \in Threads : \A x \in DOMAIN held[u] :
             (u = t /\ x = r) \/ held'[u][x] = held[u][x]
       /\ \A x : HeldBy(x)' = IF x = r THEN HeldBy(x) \cup {t} ELSE HeldBy(x)
  <2>1. HeldGains(t, r, b)
    BY <1>8, <1>9, <1>10, HoldPlaces
  <2> QED
    BY <2>1 DEF HeldGains
<1>13. \A u \in Threads, d \in Classes :
          /\ ToSet(cache'[u][d]) \subseteq ToSet(cache[u][d]) \ {r}
          /\ Len(cache'[u][d]) <= Len(cache[u][d])
          /\ IsInjective(cache'[u][d])
  <2> SUFFICES ASSUME NEW u \in Threads, NEW d \in Classes
               PROVE  /\ ToSet(cache'[u][d]) \subseteq ToSet(cache[u][d]) \ {r}
                      /\ Len(cache'[u][d]) <= Len(cache[u][d])
                      /\ IsInjective(cache'[u][d])
    OBVIOUS
  <2>1. CASE u = t /\ d = idx
    BY <1>5, <1>6, <1>11, <2>1
  <2>2. CASE u # t \/ d # idx
    <3>1. r \notin ToSet(cache[u][d])
      <4>1. <<u, d>> \notin ClassesOf(r)
        BY <1>9, <2>2
      <4> QED
        BY <4>1 DEF ClassesOf
    <3>2. IsInjective(cache[u][d]) /\ Len(cache[u][d]) \in Nat
      BY DEF IInv, Listed, Types
    <3> QED
      BY <1>11, <2>2, <3>1, <3>2
  <2> QED
    BY <2>1, <2>2
<1>14. \A u \in Threads : Cached(u)' \subseteq Cached(u) \ {r}
  BY <1>13, CachedMeans, CachedMeansNext
<1>15. Types'
  <2>1. stamp' \in [Run -> Threads \cup {Null}] /\ late' \subseteq Run
    BY <1>8, <1>10 DEF Types
  <2>2. \A u \in Threads : DOMAIN held'[u] \subseteq Run
    <3>1. \A u \in Threads : DOMAIN held[u] \subseteq Run
      BY <1>10 DEF Types
    <3>2. \A u \in Threads : DOMAIN held'[u] = IF u = t THEN DOMAIN held[u] \cup {r}
                                               ELSE DOMAIN held[u]
      BY <1>12, Zenon
    <3> QED
      BY <1>9, <3>1, <3>2
  <2>3. cache' \in [Threads -> [Classes -> Seq(Run)]] /\ DOMAIN held' = Threads
    BY <1>11, <1>12
  <2> QED
    BY <1>1, <1>10, <2>1, <2>2, <2>3 DEF Types
<1>16. Placed'
  <2> SUFFICES ASSUME NEW x \in Run PROVE Right(x)'
    BY DEF Placed
  <2>1. /\ Given(x)' <=> Given(x)
        /\ CallsOf(x)' = CallsOf(x) /\ StacksOf(x)' = StacksOf(x)
        /\ (x \in lost') <=> x \in lost
    BY <1>1 DEF Given, CallsOf, StacksOf
  <2>2. CASE x = r
    <3>1. HeldBy(x)' = {t} /\ ClassesOf(x)' = {}
      BY <1>6, <1>9, <1>11, <1>12, <2>2
    <3> QED
      BY <1>9, <2>1, <2>2, <3>1 DEF Right, Somewhere, Exactly, Alone
  <2>3. CASE x # r
    <3>1. HeldBy(x)' = HeldBy(x)
      BY <1>12, <2>3
    <3>2. ClassesOf(x)' = ClassesOf(x)
      <4>1. x \in ToSet(s) <=> <<t, idx>> \in ClassesOf(x)
        BY <1>4, <1>6, <2>3 DEF ClassesOf
      <4> QED
        BY <1>11, <4>1
    <3> QED
      BY <2>1, <3>1, <3>2, StaysRight DEF IInv
  <2> QED
    BY <2>2, <2>3
<1>17. Sized'
  BY <1>1 DEF IInv, Sized, Given
<1>18. Roomy'
  <2>1. used[t][r] >= b
    <3>1. used[t][r] >= ClassBytes(idx) /\ used[t][r] \in Nat
      BY <1>4, <1>7, <1>9 DEF IInv, Roomy, Sized
    <3> QED
      BY <1>3, <1>4, <3>1
  <2>2. ASSUME NEW u \in Threads, NEW x \in DOMAIN held'[u]
        PROVE  held'[u][x] \in 2 .. MaxBytes /\ used'[x.owner][x] >= held'[u][x]
    <3>1. CASE u = t /\ x = r
      BY <1>1, <1>3, <1>9, <1>12, <2>1, <3>1
    <3>2. CASE u # t \/ x # r
      <4>1. x \in DOMAIN held[u] /\ held'[u][x] = held[u][x]
        BY <1>12, <3>2
      <4> QED
        BY <1>1, <4>1 DEF IInv, Roomy
    <3> QED
      BY <3>1, <3>2
  <2>3. ASSUME NEW u \in Threads, NEW d \in Classes, NEW x \in ToSet(cache'[u][d])
        PROVE  used'[x.owner][x] >= ClassBytes(d)
    BY <1>1, <1>13 DEF IInv, Roomy
  <2> QED
    BY <2>2, <2>3 DEF Roomy
<1>19. Listed'
  <2>1. ASSUME NEW u \in Threads, NEW x \in Cached(u)'
        PROVE  stamp'[x] = x.owner /\ (phase'[u] # "running" => x \in late')
    <3>1. x \in Cached(u) /\ x # r
      BY <1>14
    <3>2. stamp[x] = x.owner /\ (phase[u] # "running" => x \in late)
      BY <3>1 DEF IInv, Listed
    <3>3. x \in Run
      BY <3>1, CachedMeans, CachedRun
    <3> QED
      BY <1>1, <1>8, <1>10, <3>1, <3>2, <3>3 DEF Types
  <2> QED
    BY <1>13, <2>1 DEF Listed
<1>20. Bounded'
  <2>1. \A u \in Threads, d \in Classes : /\ Len(cache'[u][d]) <= High + RefillBatch - 1
                                          /\ Cardinality(Foreign(u, d)') <= High
    <3> TAKE u \in Threads, d \in Classes
    <3>1. Len(cache'[u][d]) <= Len(cache[u][d]) /\ ToSet(cache'[u][d]) \subseteq ToSet(cache[u][d])
      BY <1>13
    <3> QED
      BY <1>11, <3>1, StillBounded
  <2>2. ASSUME NEW u \in Threads, call'[u].pc = "refill"
        PROVE  Len(cache'[u][ClassIndexFor(call'[u].bytes)])
                 <= High + RefillBatch - 1 - call'[u].left
    <3>1. u # t /\ call'[u] = call[u] /\ call[u].bytes \in Requests /\ Cacheable(call[u].bytes)
      BY <1>1, <2>2 DEF IInv, InCall
    <3>2. ClassIndexFor(call[u].bytes) \in Classes
      BY <3>1, RequestSize, ClassSizes
    <3>3. cache'[u][ClassIndexFor(call[u].bytes)] = cache[u][ClassIndexFor(call[u].bytes)]
      BY <1>11, <3>1, <3>2
    <3> QED
      BY <2>2, <3>1, <3>3 DEF IInv, Bounded
  <2> QED
    BY <2>1, <2>2 DEF Bounded
<1>21. InCall'
  <2>1. \A u \in Threads : Cached(u) = {} => Cached(u)' = {}
    BY <1>14
  <2> QED
    BY <1>1, <1>12, <2>1 DEF IInv, InCall
<1> QED
  BY <1>15, <1>16, <1>17, <1>18, <1>19, <1>20, <1>21 DEF IInv

(* A run that is in somebody's hands or in a cache is none of the runs a   *)
(* grant touches.                                                          *)
LEMMA GrantSpares ==
  ASSUME IInv, NEW t \in Threads, NEW r, NEW b, RunnerAllocate(t, r, b)
  PROVE  \A x \in Run : HeldBy(x) # {} \/ CallsOf(x) # {} \/ ClassesOf(x) # {} =>
            x # r /\ Given(x)' /\ used'[x.owner][x] = used[x.owner][x]
<1> SUFFICES ASSUME NEW x \in Run, HeldBy(x) # {} \/ CallsOf(x) # {} \/ ClassesOf(x) # {}
             PROVE  x # r /\ Given(x)' /\ used'[x.owner][x] = used[x.owner][x]
  OBVIOUS
<1>0. \A s \in Threads : \A y \in DOMAIN used'[s] \ {r} : used'[s][y] = used[s][y]
  <2>1. UsedGains(t, r)
    BY Granted
  <2> QED
    BY <2>1, Zenon DEF UsedGains
<1>1. /\ HeldBy(r) = {} /\ CallsOf(r) = {} /\ ClassesOf(r) = {}
      /\ \A y \in Run \ {r} :
               \/ /\ Given(y)' <=> Given(y)
                  /\ StacksOf(y)' = StacksOf(y)
               \/ /\ ~ Given(y)' /\ StacksOf(y)' = {}
                  /\ HeldBy(y) = {} /\ CallsOf(y) = {} /\ ClassesOf(y) = {} /\ y \notin lost
  <2>1. HeldBy(r) = {} /\ CallsOf(r) = {} /\ ClassesOf(r) = {} /\ OthersStay(r)
    BY Granted
  <2> QED
    BY <2>1 DEF OthersStay
<1>2. x # r
  BY <1>1
<1>3. Given(x)
  <2>1. Right(x)
    BY DEF IInv, Placed
  <2> QED
    BY <2>1 DEF Right, Nowhere
<1>4. Given(x)'
  BY <1>1, <1>2, <1>3
<1>5. x.owner \in Threads
  BY DEF Run
<1> QED
  BY <1>0, <1>2, <1>4, <1>5 DEF Given

LEMMA GrantSized ==
  ASSUME IInv, NEW t \in Threads, NEW r, NEW b, RunnerAllocate(t, r, b),
         PayloadFor(b) \in 0 .. MaxBytes, PayloadFor(b) % Quantum = 0,
         hasState' = [hasState EXCEPT ![t] = TRUE] \/ (hasState' = hasState /\ hasState[t])
  PROVE  /\ Sized' /\ hasState' \in [Threads -> BOOLEAN]
         /\ \A s \in Threads : DOMAIN used'[s] \subseteq SlotsOf(s) /\ parked'[s] \subseteq SlotsOf(s)
<1>1. /\ r \in Run /\ r.owner = t /\ used'[t][r] = PayloadFor(b)
      /\ \A s \in Threads :
               /\ DOMAIN used'[s] = IF s = t THEN (DOMAIN used[t] \ Reclaimed(t)) \cup {r}
                                    ELSE DOMAIN used[s]
               /\ \A x \in DOMAIN used'[s] \ {r} : used'[s][x] = used[s][x]
               /\ parked'[s] \subseteq parked[s]
  <2>1. r \in Run /\ r.owner = t /\ used'[t][r] = PayloadFor(b) /\ UsedGains(t, r)
    BY Granted
  <2> QED
    BY <2>1 DEF UsedGains
<1>2. hasState \in [Threads -> BOOLEAN]
      /\ \A s \in Threads : DOMAIN used[s] \subseteq SlotsOf(s) /\ parked[s] \subseteq SlotsOf(s)
  BY DEF IInv, Types
<1>3. /\ hasState' \in [Threads -> BOOLEAN] /\ hasState'[t]
      /\ \A s \in Threads : hasState[s] => hasState'[s]
  BY <1>2
<1>4. \A s \in Threads : DOMAIN used'[s] \subseteq SlotsOf(s) /\ parked'[s] \subseteq SlotsOf(s)
  <2>1. r \in SlotsOf(t)
    BY <1>1, OwnSlots
  <2> QED
    BY <1>1, <1>2, <2>1
<1>5. ASSUME NEW x \in Run, Given(x)'
      PROVE  /\ used'[x.owner][x] \in 0 .. MaxBytes
             /\ used'[x.owner][x] % Quantum = 0
             /\ hasState'[x.owner]
  <2>1. x.owner \in Threads /\ x \in DOMAIN used'[x.owner]
    BY <1>5 DEF Run, Given
  <2>2. CASE x = r
    BY <1>1, <1>3, <2>2
  <2>3. CASE x # r
    <3>1. Given(x) /\ used'[x.owner][x] = used[x.owner][x]
      BY <1>1, <2>1, <2>3 DEF Given
    <3> QED
      BY <1>3, <2>1, <3>1 DEF IInv, Sized
  <2> QED
    BY <2>2, <2>3
<1> QED
  BY <1>3, <1>4, <1>5 DEF Sized

(* Lists and stamps that a step leaves alone.                              *)
LEMMA ListsKept ==
  ASSUME IInv, UNCHANGED <<phase, cache, stamp, late>>
  PROVE  /\ Listed' /\ \A u \in Threads : Cached(u)' = Cached(u)
         /\ \A x : ClassesOf(x)' = ClassesOf(x)
         /\ \A u \in Threads, d \in Classes : /\ Len(cache'[u][d]) <= High + RefillBatch - 1
                                              /\ Cardinality(Foreign(u, d)') <= High
<1>1. \A u : Cached(u)' = Cached(u)
  BY DEF Cached, RunsIn
<1>2. \A u, d : Foreign(u, d)' = Foreign(u, d)
  BY DEF Foreign
<1> QED
  BY <1>1, <1>2 DEF IInv, Listed, Bounded, ClassesOf

(* allocate_bytes succeeds and the run goes to the program.                *)
LEMMA GrantHeld ==
  ASSUME IInv, NEW t \in Threads, NEW r, NEW b \in Requests, NEW asked,
         RunnerAllocate(t, r, asked),
         PayloadFor(asked) \in 0 .. MaxBytes, PayloadFor(asked) % Quantum = 0,
         b <= PayloadFor(asked),
         Hold(t, r, b), call[t].pc # "refill", phase[t] # "ended",
         hasState' = [hasState EXCEPT ![t] = TRUE], call' = [call EXCEPT ![t] = Idle],
         UNCHANGED <<mode, phase, cache, stamp, lost, late>>
  PROVE  IInv'
<1>1. /\ r \in Run /\ r.owner = t /\ used'[t][r] = PayloadFor(asked)
      /\ HeldBy(r) = {} /\ CallsOf(r) = {} /\ ClassesOf(r) = {} /\ r \notin lost
      /\ DOMAIN used' = Threads /\ parked' \in [Threads -> SUBSET Run]
      /\ Given(r)' /\ StacksOf(r)' = {}
      /\ \A x \in Run \ {r} :
               \/ /\ Given(x)' <=> Given(x)
                  /\ StacksOf(x)' = StacksOf(x)
               \/ /\ ~ Given(x)' /\ StacksOf(x)' = {}
                  /\ HeldBy(x) = {} /\ CallsOf(x) = {} /\ ClassesOf(x) = {} /\ x \notin lost
  <2>1. /\ r \in Run /\ r.owner = t /\ used'[t][r] = PayloadFor(asked)
        /\ HeldBy(r) = {} /\ CallsOf(r) = {} /\ ClassesOf(r) = {} /\ r \notin lost
        /\ DOMAIN used' = Threads /\ parked' \in [Threads -> SUBSET Run]
        /\ Given(r)' /\ StacksOf(r)' = {} /\ OthersStay(r)
    BY Granted
  <2> QED
    BY <2>1 DEF OthersStay
<1>2. \A x \in Run : HeldBy(x) # {} \/ CallsOf(x) # {} \/ ClassesOf(x) # {} =>
            x # r /\ Given(x)' /\ used'[x.owner][x] = used[x.owner][x]
  BY GrantSpares
<1>3. /\ Sized' /\ hasState' \in [Threads -> BOOLEAN]
      /\ \A s \in Threads : DOMAIN used'[s] \subseteq SlotsOf(s) /\ parked'[s] \subseteq SlotsOf(s)
  BY GrantSized
<1>4. Types
  BY DEF IInv
<1>5. /\ DOMAIN held' = Threads
      /\ \A u \in Threads : DOMAIN held'[u] = IF u = t THEN DOMAIN held[u] \cup {r}
                                              ELSE DOMAIN held[u]
      /\ held'[t][r] = b
      /\ \A u \in Threads : \A x \in DOMAIN held[u] :
            (u = t /\ x = r) \/ held'[u][x] = held[u][x]
      /\ \A x : HeldBy(x)' = IF x = r THEN HeldBy(x) \cup {t} ELSE HeldBy(x)
  <2>1. HeldGains(t, r, b)
    BY <1>1, <1>4, HoldPlaces
  <2> QED
    BY <2>1 DEF HeldGains
<1>6. Idle \in Calls /\ Idle.pc = "idle" /\ Idle.raw = Null /\ call[t].raw = Null
  BY ClassesAssumption, MarksAssumption DEF Idle, Calls, IInv, InCall
<1>7. /\ call' \in [Threads -> Calls] /\ call'[t] = Idle
      /\ \A u \in Threads : u # t => call'[u] = call[u]
      /\ \A x \in Run : CallsOf(x)' = CallsOf(x)
  <2>1. /\ call' \in [Threads -> Calls] /\ call'[t] = Idle
        /\ \A u \in Threads : u # t => call'[u] = call[u]
    BY <1>4, <1>6, CallPlaces
  <2>2. \A x \in Run : x # Null
    BY NullAssumption
  <2>3. \A x \in Run, u \in Threads : call'[u].raw = x <=> call[u].raw = x
    BY <1>6, <2>1, <2>2
  <2> QED
    BY <2>1, <2>3 DEF CallsOf
<1>8. /\ Listed' /\ \A u \in Threads : Cached(u)' = Cached(u)
      /\ \A x : ClassesOf(x)' = ClassesOf(x)
      /\ \A u \in Threads, d \in Classes : /\ Len(cache'[u][d]) <= High + RefillBatch - 1
                                           /\ Cardinality(Foreign(u, d)') <= High
  BY ListsKept
<1>9. Types'
  <2>1. \A u \in Threads : DOMAIN held'[u] \subseteq Run
    <3> TAKE u \in Threads
    <3>1. DOMAIN held[u] \subseteq Run
      BY <1>4 DEF Types
    <3>2. DOMAIN held'[u] \subseteq DOMAIN held[u] \cup {r} /\ r \in Run
      BY <1>1, <1>5, Zenon
    <3> QED
      BY <3>1, <3>2
  <2>2. /\ mode' \in Modes /\ phase' \in [Threads -> {"running", "flushed", "ended"}]
        /\ stamp' \in [Run -> Threads \cup {Null}]
        /\ cache' \in [Threads -> [Classes -> Seq(Run)]]
        /\ lost' \subseteq Run /\ late' \subseteq Run
    BY <1>4 DEF Types
  <2>3. /\ hasState' \in [Threads -> BOOLEAN] /\ parked' \in [Threads -> SUBSET Run]
        /\ call' \in [Threads -> Calls] /\ DOMAIN used' = Threads /\ DOMAIN held' = Threads
    BY <1>1, <1>3, <1>5, <1>7
  <2> QED
    BY <1>3, <2>1, <2>2, <2>3 DEF Types
<1>10. Placed'
  <2> SUFFICES ASSUME NEW x \in Run PROVE Right(x)'
    BY DEF Placed
  <2>1. CASE x = r
    <3>1. HeldBy(x)' = {t} /\ CallsOf(x)' = {} /\ ClassesOf(x)' = {}
      BY <1>1, <1>5, <1>7, <1>8, <2>1
    <3> QED
      BY <1>1, <2>1, <3>1 DEF Right, Somewhere, Exactly, Alone
  <2>2. CASE x # r
    <3>1. HeldBy(x)' = HeldBy(x) /\ CallsOf(x)' = CallsOf(x) /\ ClassesOf(x)' = ClassesOf(x)
      BY <1>5, <1>7, <1>8, <2>2
    <3>2. (x \in lost') <=> x \in lost
      OBVIOUS
    <3>3. CASE (Given(x)' <=> Given(x)) /\ StacksOf(x)' = StacksOf(x)
      BY <3>1, <3>2, <3>3, StaysRight DEF IInv
    <3>4. CASE /\ ~ Given(x)' /\ StacksOf(x)' = {}
               /\ HeldBy(x) = {} /\ CallsOf(x) = {} /\ ClassesOf(x) = {} /\ x \notin lost
      BY <3>1, <3>2, <3>4 DEF Right, Nowhere
    <3> QED
      BY <1>1, <2>2, <3>3, <3>4
  <2> QED
    BY <2>1, <2>2
<1>11. Roomy'
  <2>1. ASSUME NEW u \in Threads, NEW x \in DOMAIN held'[u]
        PROVE  held'[u][x] \in 2 .. MaxBytes /\ used'[x.owner][x] >= held'[u][x]
    <3>1. CASE x = r
      <4>1. r \notin DOMAIN held[u]
        BY <1>1 DEF HeldBy
      <4>2. u = t
        BY <1>5, <3>1, <4>1
      <4>3. b \in 2 .. MaxBytes
        BY RequestSize
      <4> QED
        BY <1>1, <1>5, <3>1, <4>2, <4>3
    <3>2. CASE x # r
      <4>1. x \in DOMAIN held[u] /\ held'[u][x] = held[u][x] /\ x \in Run
        BY <1>4, <1>5, <3>2 DEF Types
      <4>2. u \in HeldBy(x)
        BY <4>1 DEF HeldBy
      <4>3. used'[x.owner][x] = used[x.owner][x]
        BY <1>2, <4>1, <4>2
      <4> QED
        BY <4>1, <4>3 DEF IInv, Roomy
    <3> QED
      BY <3>1, <3>2
  <2>2. ASSUME NEW u \in Threads, NEW d \in Classes, NEW x \in ToSet(cache'[u][d])
        PROVE  used'[x.owner][x] >= ClassBytes(d)
    <3>1. x \in Run /\ ClassesOf(x) # {} /\ x \in ToSet(cache[u][d])
      BY CachedRun
    <3> QED
      BY <1>2, <3>1 DEF IInv, Roomy
  <2> QED
    BY <2>1, <2>2 DEF Roomy
<1>12. Bounded'
  <2>1. ASSUME NEW u \in Threads, call'[u].pc = "refill"
        PROVE  Len(cache'[u][ClassIndexFor(call'[u].bytes)])
                 <= High + RefillBatch - 1 - call'[u].left
    <3>1. call'[u] = call[u]
      BY <1>6, <1>7, <2>1
    <3> QED
      BY <2>1, <3>1 DEF IInv, Bounded
  <2> QED
    BY <1>8, <2>1 DEF Bounded
<1>13. InCall'
  <2> SUFFICES ASSUME NEW u \in Threads
        PROVE  LET k == call'[u]
               IN  /\ k.raw # Null <=> k.pc = "refill"
                   /\ k.pc = "refill" => /\ k.raw.owner = u /\ k.left \in 1 .. RefillBatch - 1
                                         /\ used'[u][k.raw] >= k.bytes
                   /\ k.pc # "idle" => /\ phase'[u] # "ended"
                                       /\ k.bytes \in Requests /\ Cacheable(k.bytes)
                   /\ k.pc \in {"retry", "last"} => Cached(u)' = {}
                   /\ phase'[u] = "ended" => DOMAIN held'[u] = {}
    BY DEF InCall
  <2>1. CASE u = t
    BY <1>6, <1>7, <2>1
  <2>2. CASE u # t
    <3>1. call'[u] = call[u] /\ DOMAIN held'[u] = DOMAIN held[u]
      BY <1>5, <1>7, <2>2
    <3>2. call[u].pc = "refill" => used'[u][call[u].raw] = used[u][call[u].raw]
      <4> SUFFICES ASSUME call[u].pc = "refill" PROVE used'[u][call[u].raw] = used[u][call[u].raw]
        OBVIOUS
      <4>1. call[u].raw \in Run /\ call[u].raw.owner = u
        BY <1>4 DEF IInv, InCall, Types, Calls
      <4>2. u \in CallsOf(call[u].raw)
        BY DEF CallsOf
      <4> QED
        BY <1>2, <4>1, <4>2
    <3> QED
      BY <1>8, <3>1, <3>2 DEF IInv, InCall
  <2> QED
    BY <2>1, <2>2
<1> QED
  BY <1>3, <1>8, <1>9, <1>10, <1>11, <1>12, <1>13 DEF IInv

(* A class without a run of the thread's own holds foreign runs only.      *)
LEMMA NothingReusable ==
  ASSUME IInv, NEW t \in Threads, NEW c \in Classes, Reusable(t, c) = {}
  PROVE  Len(cache[t][c]) <= High
<1>1. cache[t][c] \in Seq(Run) /\ IsInjective(cache[t][c]) /\ Cardinality(Foreign(t, c)) <= High
  BY DEF IInv, Types, Listed, Bounded
<1>2. ASSUME NEW x \in ToSet(cache[t][c]) PROVE x.owner # t
  <2>1. PICK i \in 1 .. Len(cache[t][c]) : cache[t][c][i] = x
    BY <1>1 DEF ToSet
  <2>2. stamp[x] # t
    BY <2>1 DEF Reusable
  <2>3. stamp[x] = x.owner
    BY CachedRun
  <2> QED
    BY <2>2, <2>3
<1>3. Foreign(t, c) = ToSet(cache[t][c])
  BY <1>2 DEF Foreign
<1>4. Cardinality(ToSet(cache[t][c])) = Len(cache[t][c])
  BY <1>1, ListSize
<1> QED
  BY <1>1, <1>3, <1>4

(* allocate_bytes succeeds and the call goes on to refill the class.       *)
LEMMA GrantCalled ==
  ASSUME IInv, NEW t \in Threads, NEW r, NEW b \in Requests, NEW asked, NEW k,
         RunnerAllocate(t, r, asked),
         PayloadFor(asked) \in 0 .. MaxBytes, PayloadFor(asked) % Quantum = 0,
         b <= PayloadFor(asked), Cacheable(b), Reusable(t, ClassIndexFor(b)) = {},
         k = [pc |-> "refill", bytes |-> b, raw |-> r, left |-> RefillBatch - 1],
         call[t].pc # "refill", phase[t] # "ended",
         hasState' = [hasState EXCEPT ![t] = TRUE], call' = [call EXCEPT ![t] = k],
         UNCHANGED <<mode, phase, cache, stamp, held, lost, late>>
  PROVE  IInv'
<1>1. /\ r \in Run /\ r.owner = t /\ used'[t][r] = PayloadFor(asked)
      /\ HeldBy(r) = {} /\ CallsOf(r) = {} /\ ClassesOf(r) = {} /\ r \notin lost
      /\ DOMAIN used' = Threads /\ parked' \in [Threads -> SUBSET Run]
      /\ Given(r)' /\ StacksOf(r)' = {}
      /\ \A x \in Run \ {r} :
               \/ /\ Given(x)' <=> Given(x)
                  /\ StacksOf(x)' = StacksOf(x)
               \/ /\ ~ Given(x)' /\ StacksOf(x)' = {}
                  /\ HeldBy(x) = {} /\ CallsOf(x) = {} /\ ClassesOf(x) = {} /\ x \notin lost
  <2>1. /\ r \in Run /\ r.owner = t /\ used'[t][r] = PayloadFor(asked)
        /\ HeldBy(r) = {} /\ CallsOf(r) = {} /\ ClassesOf(r) = {} /\ r \notin lost
        /\ DOMAIN used' = Threads /\ parked' \in [Threads -> SUBSET Run]
        /\ Given(r)' /\ StacksOf(r)' = {} /\ OthersStay(r)
    BY Granted
  <2> QED
    BY <2>1 DEF OthersStay
<1>2. \A x \in Run : HeldBy(x) # {} \/ CallsOf(x) # {} \/ ClassesOf(x) # {} =>
            x # r /\ Given(x)' /\ used'[x.owner][x] = used[x.owner][x]
  BY GrantSpares
<1>3. /\ Sized' /\ hasState' \in [Threads -> BOOLEAN]
      /\ \A s \in Threads : DOMAIN used'[s] \subseteq SlotsOf(s) /\ parked'[s] \subseteq SlotsOf(s)
  BY GrantSized
<1>4. Types
  BY DEF IInv
<1>5. r \in Run /\ r # Null /\ b \in 0 .. MaxBytes /\ RefillBatch - 1 \in 1 .. RefillBatch - 1
      /\ RefillBatch \in Nat
  BY <1>1, NullAssumption, RequestSize, MarksAssumption
<1>6. /\ k \in Calls /\ k.pc = "refill" /\ k.raw = r /\ k.bytes = b /\ k.left = RefillBatch - 1
      /\ call[t].raw = Null
  BY <1>5 DEF Calls, IInv, InCall
<1>7. /\ call' \in [Threads -> Calls] /\ call'[t] = k
      /\ \A u \in Threads : u # t => call'[u] = call[u]
      /\ \A x : CallsOf(x)' = (CallsOf(x) \ {t}) \cup (IF k.raw = x THEN {t} ELSE {})
  BY <1>4, <1>6, CallPlaces
<1>8. /\ Listed' /\ \A u \in Threads : Cached(u)' = Cached(u)
      /\ \A x : ClassesOf(x)' = ClassesOf(x)
      /\ \A u \in Threads, d \in Classes : /\ Len(cache'[u][d]) <= High + RefillBatch - 1
                                           /\ Cardinality(Foreign(u, d)') <= High
  BY ListsKept
<1>9. Types'
  <2>1. /\ mode' \in Modes /\ phase' \in [Threads -> {"running", "flushed", "ended"}]
        /\ stamp' \in [Run -> Threads \cup {Null}]
        /\ cache' \in [Threads -> [Classes -> Seq(Run)]]
        /\ lost' \subseteq Run /\ late' \subseteq Run
        /\ DOMAIN held' = Threads /\ \A u \in Threads : DOMAIN held'[u] \subseteq Run
    BY <1>4 DEF Types
  <2>2. /\ hasState' \in [Threads -> BOOLEAN] /\ parked' \in [Threads -> SUBSET Run]
        /\ call' \in [Threads -> Calls] /\ DOMAIN used' = Threads
    BY <1>1, <1>3, <1>7
  <2> QED
    BY <1>3, <2>1, <2>2 DEF Types
<1>10. Placed'
  <2> SUFFICES ASSUME NEW x \in Run PROVE Right(x)'
    BY DEF Placed
  <2>1. HeldBy(x)' = HeldBy(x) /\ ClassesOf(x)' = ClassesOf(x)
    BY <1>8 DEF HeldBy
  <2>2. CASE x = r
    <3>1. CallsOf(x)' = {t}
      BY <1>1, <1>6, <1>7, <2>2
    <3> QED
      BY <1>1, <2>1, <2>2, <3>1 DEF Right, Somewhere, Exactly, Alone
  <2>3. CASE x # r
    <3>1. CallsOf(x)' = CallsOf(x)
      <4>1. t \notin CallsOf(x)
        BY <1>6, NullAssumption DEF CallsOf
      <4> QED
        BY <1>6, <1>7, <2>3, <4>1
    <3>2. (x \in lost') <=> x \in lost
      OBVIOUS
    <3>3. CASE (Given(x)' <=> Given(x)) /\ StacksOf(x)' = StacksOf(x)
      BY <2>1, <3>1, <3>2, <3>3, StaysRight DEF IInv
    <3>4. CASE /\ ~ Given(x)' /\ StacksOf(x)' = {}
               /\ HeldBy(x) = {} /\ CallsOf(x) = {} /\ ClassesOf(x) = {} /\ x \notin lost
      BY <2>1, <3>1, <3>2, <3>4 DEF Right, Nowhere
    <3> QED
      BY <1>1, <2>3, <3>3, <3>4
  <2> QED
    BY <2>2, <2>3
<1>11. Roomy'
  <2>1. ASSUME NEW u \in Threads, NEW x \in DOMAIN held[u]
        PROVE  held[u][x] \in 2 .. MaxBytes /\ used'[x.owner][x] >= held[u][x]
    <3>1. x \in Run
      BY <1>4 DEF Types
    <3>2. u \in HeldBy(x)
      BY DEF HeldBy
    <3>3. used'[x.owner][x] = used[x.owner][x]
      BY <1>2, <3>1, <3>2
    <3> QED
      BY <3>3 DEF IInv, Roomy
  <2>2. ASSUME NEW u \in Threads, NEW d \in Classes, NEW x \in ToSet(cache[u][d])
        PROVE  used'[x.owner][x] >= ClassBytes(d)
    <3>1. x \in Run /\ ClassesOf(x) # {}
      BY CachedRun
    <3> QED
      BY <1>2, <3>1 DEF IInv, Roomy
  <2> QED
    BY <2>1, <2>2 DEF Roomy
<1>12. Bounded'
  <2>1. ASSUME NEW u \in Threads, call'[u].pc = "refill"
        PROVE  Len(cache'[u][ClassIndexFor(call'[u].bytes)])
                 <= High + RefillBatch - 1 - call'[u].left
    <3>1. CASE u = t
      <4>1. ClassIndexFor(b) \in Classes
        BY RequestSize, ClassSizes
      <4>2. Len(cache[t][ClassIndexFor(b)]) <= High
        BY <4>1, NothingReusable
      <4>3. High \in Nat
        BY MarksAssumption
      <4>4. call'[u].left = RefillBatch - 1 /\ call'[u].bytes = b
        BY <1>6, <1>7, <3>1
      <4>5. High + RefillBatch - 1 - (RefillBatch - 1) = High
        BY <1>5, <4>3
      <4> QED
        BY <3>1, <4>2, <4>4, <4>5
    <3>2. CASE u # t
      BY <1>7, <2>1, <3>2 DEF IInv, Bounded
    <3> QED
      BY <3>1, <3>2
  <2> QED
    BY <1>8, <2>1 DEF Bounded
<1>13. InCall'
  <2> SUFFICES ASSUME NEW u \in Threads
        PROVE  LET c == call'[u]
               IN  /\ c.raw # Null <=> c.pc = "refill"
                   /\ c.pc = "refill" => /\ c.raw.owner = u /\ c.left \in 1 .. RefillBatch - 1
                                         /\ used'[u][c.raw] >= c.bytes
                   /\ c.pc # "idle" => /\ phase'[u] # "ended"
                                       /\ c.bytes \in Requests /\ Cacheable(c.bytes)
                   /\ c.pc \in {"retry", "last"} => Cached(u)' = {}
                   /\ phase'[u] = "ended" => DOMAIN held'[u] = {}
    BY DEF InCall
  <2>1. CASE u = t
    <3>1. used'[t][r] >= b
      BY <1>1, <1>5
    <3> QED
      BY <1>1, <1>5, <1>6, <1>7, <2>1, <3>1
  <2>2. CASE u # t
    <3>1. call'[u] = call[u]
      BY <1>7, <2>2
    <3>2. call[u].pc = "refill" => used'[u][call[u].raw] = used[u][call[u].raw]
      <4> SUFFICES ASSUME call[u].pc = "refill" PROVE used'[u][call[u].raw] = used[u][call[u].raw]
        OBVIOUS
      <4>1. call[u].raw \in Run /\ call[u].raw.owner = u
        BY <1>4 DEF IInv, InCall, Types, Calls
      <4>2. u \in CallsOf(call[u].raw)
        BY DEF CallsOf
      <4> QED
        BY <1>2, <4>1, <4>2
    <3> QED
      BY <1>8, <3>1, <3>2 DEF IInv, InCall
  <2> QED
    BY <2>1, <2>2
<1> QED
  BY <1>3, <1>8, <1>9, <1>10, <1>11, <1>12, <1>13 DEF IInv

(* The whole class is asked for, on the first attempt and after a drain.   *)
LEMMA ObtainKeeps ==
  ASSUME IInv, NEW t \in Threads, NEW b \in Requests, Cacheable(b),
         Reusable(t, ClassIndexFor(b)) = {}, call[t].pc # "refill", phase[t] # "ended",
         Obtain(t, b)
  PROVE  IInv'
<1> DEFINE asked == ClassBytes(ClassIndexFor(b))
           k(r) == [pc |-> "refill", bytes |-> b, raw |-> r, left |-> RefillBatch - 1]
<1>1. PICK r \in Run : /\ RunnerAllocate(t, r, asked)
                       /\ IF mode = "dynamic"
                          THEN call' = [call EXCEPT ![t] = k(r)] /\ UNCHANGED held
                          ELSE call' = [call EXCEPT ![t] = Idle] /\ Hold(t, r, b)
  BY DEF Obtain
<1>2. /\ hasState' = [hasState EXCEPT ![t] = TRUE]
      /\ UNCHANGED <<mode, phase, cache, stamp, lost, late>>
  BY DEF Obtain
<1>3. b \in Nat /\ b >= 1 /\ b <= MaxBytes
  BY RequestSize
<1>4. asked = PayloadFor(b) /\ PayloadFor(asked) = PayloadFor(b)
      /\ PayloadFor(b) % Quantum = 0 /\ b <= PayloadFor(b)
  BY <1>3, ClassSizes
<1>5. PayloadFor(b) \in 0 .. MaxBytes
  BY <1>3, PayloadFits
<1>6. /\ PayloadFor(asked) \in 0 .. MaxBytes /\ PayloadFor(asked) % Quantum = 0
      /\ b <= PayloadFor(asked)
  BY <1>4, <1>5
<1> HIDE DEF asked
<1>7. CASE mode = "dynamic"
  <2>1. call' = [call EXCEPT ![t] = k(r)] /\ UNCHANGED held
    BY <1>1, <1>7
  <2>2. UNCHANGED <<mode, phase, cache, stamp, held, lost, late>>
    BY <1>2, <2>1
  <2>3. PICK c : c = k(r)
    OBVIOUS
  <2>4. call' = [call EXCEPT ![t] = c]
    BY <2>1, <2>3
  <2> QED
    BY <1>1, <1>2, <1>6, <2>2, <2>3, <2>4, GrantCalled
<1>8. CASE mode # "dynamic"
  BY <1>1, <1>2, <1>6, <1>8, GrantHeld
<1> QED
  BY <1>7, <1>8

LEMMA MissKeeps ==
  ASSUME IInv, NEW t \in Threads, NEW b \in Requests, AllocateMiss(t, b)
  PROVE  IInv'
<1>1. /\ Obtain(t, b) /\ Cacheable(b) /\ call[t].pc = "idle" /\ phase[t] # "ended"
      /\ Reusable(t, ClassIndexFor(b)) = {}
  BY DEF AllocateMiss, Misses
<1> QED
  BY <1>1, ObtainKeeps

LEMMA RetryKeeps ==
  ASSUME IInv, NEW t \in Threads, Retry(t)
  PROVE  IInv'
<1>1. /\ Obtain(t, call[t].bytes) /\ call[t].pc = "retry" /\ phase[t] # "ended"
      /\ call[t].bytes \in Requests /\ Cacheable(call[t].bytes) /\ Cached(t) = {}
  BY DEF Retry, IInv, InCall
<1>2. ClassIndexFor(call[t].bytes) \in Classes
  BY <1>1, RequestSize, ClassSizes
<1>3. Reusable(t, ClassIndexFor(call[t].bytes)) = {}
  <2>1. ToSet(cache[t][ClassIndexFor(call[t].bytes)]) = {}
    BY <1>1, <1>2, CachedMeans
  <2>2. cache[t][ClassIndexFor(call[t].bytes)] \in Seq(Run)
    BY <1>2 DEF IInv, Types
  <2>3. \A i \in 1 .. Len(cache[t][ClassIndexFor(call[t].bytes)]) :
           cache[t][ClassIndexFor(call[t].bytes)][i] \in ToSet(cache[t][ClassIndexFor(call[t].bytes)])
    BY <2>2 DEF ToSet
  <2> QED
    BY <2>1, <2>3 DEF Reusable
<1> QED
  BY <1>1, <1>3, ObtainKeeps

LEMMA DirectKeeps ==
  ASSUME IInv, NEW t \in Threads, NEW b \in Requests, ServeDirect(t, b)
  PROVE  IInv'
<1>1. PICK r \in Run : RunnerAllocate(t, r, b) /\ Hold(t, r, b)
  BY DEF ServeDirect
<1>2. /\ hasState' = [hasState EXCEPT ![t] = TRUE] /\ call' = [call EXCEPT ![t] = Idle]
      /\ UNCHANGED <<mode, phase, cache, stamp, lost, late>>
  BY DEF ServeDirect
<1>3. call[t].pc # "refill" /\ phase[t] # "ended"
  BY DEF ServeDirect, Misses, IInv, InCall
<1>4. b \in Nat /\ b >= 1 /\ b <= MaxBytes
  BY RequestSize
<1>5. PayloadFor(b) \in 0 .. MaxBytes /\ PayloadFor(b) % Quantum = 0 /\ b <= PayloadFor(b)
  BY <1>4, ClassSizes, PayloadFits
<1> QED
  BY <1>1, <1>2, <1>3, <1>5, GrantHeld

(* A fresh run of the thread's own runner is pushed on a class.            *)
LEMMA RefillPushes ==
  ASSUME IInv, NEW t \in Threads, NEW r, NEW idx \in Classes, NEW asked,
         RunnerAllocate(t, r, asked), PayloadFor(asked) \in 0 .. MaxBytes,
         ClassBytes(idx) <= PayloadFor(asked),
         Push(t, idx, r, t), phase' = phase,
         late' = IF phase[t] = "running" THEN late ELSE late \cup {r}
  PROVE  /\ cache' \in [Threads -> [Classes -> Seq(Run)]]
         /\ stamp' \in [Run -> Threads \cup {Null}] /\ late' \subseteq Run
         /\ Listed'
         /\ Len(cache'[t][idx]) = Len(cache[t][idx]) + 1
         /\ \A u \in Threads, d \in Classes : u # t \/ d # idx => cache'[u][d] = cache[u][d]
         /\ \A u \in Threads, d \in Classes : Cardinality(Foreign(u, d)') <= High
         /\ \A u \in Threads, d \in Classes : \A x \in ToSet(cache'[u][d]) :
               used'[x.owner][x] >= ClassBytes(d)
         /\ \A x \in Run : ClassesOf(x)' = IF x = r THEN {<<t, idx>>} ELSE ClassesOf(x)
         /\ \A u \in Threads : u # t => Cached(u)' = Cached(u)
<1>1. /\ r \in Run /\ r.owner = t /\ used'[t][r] = PayloadFor(asked)
      /\ ClassesOf(r) = {}
  BY Granted
<1>2. \A x \in Run : HeldBy(x) # {} \/ CallsOf(x) # {} \/ ClassesOf(x) # {} =>
            x # r /\ Given(x)' /\ used'[x.owner][x] = used[x.owner][x]
  BY GrantSpares
<1>3. Types
  BY DEF IInv
<1>4. cache[t][idx] \in Seq(Run) /\ IsInjective(cache[t][idx])
  BY DEF IInv, Types, Listed
<1>5. r \notin ToSet(cache[t][idx])
  BY <1>1, CachedRun
<1> DEFINE s == <<r>> \o cache[t][idx]
<1>6. s \in Seq(Run) /\ Len(s) = Len(cache[t][idx]) + 1
      /\ ToSet(s) = ToSet(cache[t][idx]) \cup {r} /\ IsInjective(s)
  BY <1>1, <1>4, <1>5, PushedRun
<1>7. cache' = [cache EXCEPT ![t][idx] = s] /\ stamp' = [stamp EXCEPT ![r] = t]
  BY DEF Push
<1> HIDE DEF s
<1>8. /\ cache' \in [Threads -> [Classes -> Seq(Run)]] /\ cache'[t][idx] = s
      /\ \A u \in Threads, d \in Classes : u # t \/ d # idx => cache'[u][d] = cache[u][d]
      /\ \A x : ClassesOf(x)' = (ClassesOf(x) \ {<<t, idx>>})
                                    \cup (IF x \in ToSet(s) THEN {<<t, idx>>} ELSE {})
  BY <1>3, <1>6, <1>7, ClassPlaces
<1>9. stamp' \in [Run -> Threads \cup {Null}] /\ late' \subseteq Run
  BY <1>1, <1>3, <1>7 DEF Types
<1>10. \A u \in Threads, d \in Classes :
          /\ ToSet(cache'[u][d]) = IF u = t /\ d = idx THEN ToSet(cache[u][d]) \cup {r}
                                   ELSE ToSet(cache[u][d])
          /\ IsInjective(cache'[u][d])
  <2> SUFFICES ASSUME NEW u \in Threads, NEW d \in Classes
               PROVE  /\ ToSet(cache'[u][d]) = IF u = t /\ d = idx THEN ToSet(cache[u][d]) \cup {r}
                                               ELSE ToSet(cache[u][d])
                      /\ IsInjective(cache'[u][d])
    OBVIOUS
  <2>1. CASE u = t /\ d = idx
    BY <1>6, <1>8, <2>1
  <2>2. CASE u # t \/ d # idx
    BY <1>8, <2>2 DEF IInv, Listed
  <2> QED
    BY <2>1, <2>2
<1>11. /\ \A u \in Threads : u # t => Cached(u)' = Cached(u)
       /\ \A u \in Threads : \A x \in Cached(u)' : x \in Cached(u) \/ (u = t /\ x = r)
  <2>1. \A u \in Threads : u # t => Cached(u)' = Cached(u)
    <3> SUFFICES ASSUME NEW u \in Threads, u # t PROVE Cached(u)' = Cached(u)
      OBVIOUS
    <3>1. \A d \in Classes : ToSet(cache'[u][d]) = ToSet(cache[u][d])
      BY <1>10
    <3>2. \A x : x \in Cached(u)' <=> x \in Cached(u)
      BY <3>1, CachedMeans, CachedMeansNext
    <3> QED
      BY <3>2
  <2>2. ASSUME NEW u \in Threads, NEW x \in Cached(u)' PROVE x \in Cached(u) \/ (u = t /\ x = r)
    <3>1. PICK d \in Classes : x \in ToSet(cache'[u][d])
      BY CachedMeansNext
    <3>2. x \in ToSet(cache[u][d]) \/ (u = t /\ x = r)
      BY <1>10, <3>1
    <3> QED
      BY <3>2, CachedMeans
  <2> QED
    BY <2>1, <2>2
<1>12. Listed'
  <2>1. ASSUME NEW u \in Threads, NEW x \in Cached(u)'
        PROVE  stamp'[x] = x.owner /\ (phase'[u] # "running" => x \in late')
    <3>1. CASE u = t /\ x = r
      <4>1. stamp'[x] = t
        BY <1>1, <1>3, <1>7, <3>1 DEF Types
      <4>2. phase'[u] # "running" => x \in late'
        BY <3>1
      <4> QED
        BY <1>1, <3>1, <4>1, <4>2
    <3>2. CASE x \in Cached(u)
      <4>1. PICK d \in Classes : x \in ToSet(cache[u][d])
        BY <3>2, CachedMeans
      <4>2. x \in Run /\ ClassesOf(x) # {}
        BY <4>1, CachedRun
      <4>3. x # r
        BY <1>1, <4>2
      <4>4. stamp[x] = x.owner /\ (phase[u] # "running" => x \in late)
        BY <3>2 DEF IInv, Listed
      <4>5. stamp'[x] = stamp[x]
        BY <1>3, <1>7, <4>2, <4>3 DEF Types
      <4>6. late \subseteq late' /\ phase'[u] = phase[u]
        OBVIOUS
      <4> QED
        BY <4>4, <4>5, <4>6
    <3> QED
      BY <1>11, <3>1, <3>2
  <2> QED
    BY <1>10, <2>1 DEF Listed
<1>13. ASSUME NEW u \in Threads, NEW d \in Classes PROVE Cardinality(Foreign(u, d)') <= High
  <2>1. ASSUME u = t /\ d = idx PROVE Foreign(u, d)' = Foreign(u, d)
    <3>1. ToSet(cache'[u][d]) = ToSet(cache[u][d]) \cup {r} /\ r.owner = u
      BY <1>1, <1>10, <2>1
    <3> QED
      BY <3>1 DEF Foreign
  <2>2. ASSUME u # t \/ d # idx PROVE Foreign(u, d)' = Foreign(u, d)
    <3>1. ToSet(cache'[u][d]) = ToSet(cache[u][d])
      BY <1>10, <2>2
    <3> QED
      BY <3>1 DEF Foreign
  <2>3. Foreign(u, d)' = Foreign(u, d)
    BY <2>1, <2>2
  <2> QED
    BY <2>3 DEF IInv, Bounded
<1>14. ASSUME NEW u \in Threads, NEW d \in Classes, NEW x \in ToSet(cache'[u][d])
       PROVE  used'[x.owner][x] >= ClassBytes(d)
  <2>1. CASE x \in ToSet(cache[u][d])
    <3>1. x \in Run /\ ClassesOf(x) # {}
      BY <2>1, CachedRun
    <3> QED
      BY <1>2, <2>1, <3>1 DEF IInv, Roomy
  <2>2. CASE x \notin ToSet(cache[u][d])
    <3>1. u = t /\ d = idx /\ x = r
      BY <1>10, <2>2
    <3>2. ClassBytes(idx) \in Int
      BY ClassesAssumption DEF ClassBytes, Classes
    <3> QED
      BY <1>1, <3>1, <3>2
  <2> QED
    BY <2>1, <2>2
<1>15. ASSUME NEW x \in Run PROVE ClassesOf(x)' = IF x = r THEN {<<t, idx>>} ELSE ClassesOf(x)
  <2>1. CASE x = r
    BY <1>1, <1>6, <1>8, <2>1
  <2>2. CASE x # r
    <3>1. x \in ToSet(s) <=> <<t, idx>> \in ClassesOf(x)
      BY <1>6, <2>2 DEF ClassesOf
    <3> QED
      BY <1>8, <2>2, <3>1
  <2> QED
    BY <2>1, <2>2
<1> QED
  BY <1>6, <1>8, <1>9, <1>11, <1>12, <1>13, <1>14, <1>15

(* What a refill knows.                                                    *)
LEMMA InRefill ==
  ASSUME IInv, NEW t \in Threads, call[t].pc = "refill"
  PROVE  LET k == call[t]
             idx == ClassIndexFor(k.bytes)
         IN  /\ k.raw \in Run /\ k.raw.owner = t /\ used[t][k.raw] >= k.bytes
             /\ used[t][k.raw] \in 0 .. MaxBytes
             /\ k.bytes \in Requests /\ Cacheable(k.bytes) /\ idx \in Classes
             /\ phase[t] # "ended" /\ hasState[t] /\ k.left \in 1 .. RefillBatch - 1
             /\ Given(k.raw) /\ HeldBy(k.raw) = {} /\ CallsOf(k.raw) = {t}
             /\ ClassesOf(k.raw) = {} /\ StacksOf(k.raw) = {} /\ k.raw \notin lost
             /\ Len(cache[t][idx]) <= High + RefillBatch - 1 - k.left
             /\ PayloadFor(ClassBytes(idx)) \in 0 .. MaxBytes
             /\ PayloadFor(ClassBytes(idx)) % Quantum = 0
             /\ ClassBytes(idx) = PayloadFor(ClassBytes(idx))
<1> DEFINE k == call[t]
           idx == ClassIndexFor(k.bytes)
<1>1. /\ k.raw # Null /\ k.raw.owner = t /\ used[t][k.raw] >= k.bytes
      /\ k.bytes \in Requests /\ Cacheable(k.bytes)
      /\ phase[t] # "ended" /\ k.left \in 1 .. RefillBatch - 1
      /\ Len(cache[t][idx]) <= High + RefillBatch - 1 - k.left
  BY DEF IInv, InCall, Bounded
<1>2. k.raw \in Run
  BY <1>1 DEF IInv, Types, Calls
<1>3. t \in CallsOf(k.raw)
  BY DEF CallsOf
<1>4. Given(k.raw) /\ HeldBy(k.raw) = {} /\ CallsOf(k.raw) = {t}
      /\ ClassesOf(k.raw) = {} /\ StacksOf(k.raw) = {} /\ k.raw \notin lost
  BY <1>2, <1>3, OnlyPlace DEF IInv
<1>5. hasState[t] /\ used[t][k.raw] \in 0 .. MaxBytes
  BY <1>1, <1>2, <1>4 DEF IInv, Sized
<1>6. k.bytes \in Nat /\ k.bytes >= 1 /\ k.bytes <= MaxBytes
  BY <1>1, RequestSize
<1>7. idx \in Classes /\ ClassBytes(idx) = PayloadFor(k.bytes)
      /\ PayloadFor(PayloadFor(k.bytes)) = PayloadFor(k.bytes) /\ PayloadFor(k.bytes) % Quantum = 0
  BY <1>1, <1>6, ClassSizes
<1>8. PayloadFor(k.bytes) \in 0 .. MaxBytes
  BY <1>6, PayloadFits
<1> QED
  BY <1>1, <1>2, <1>4, <1>5, <1>7, <1>8

(* What a call, when one is at its refill, has obtained stays as it is.    *)
LEMMA RefillSpared ==
  ASSUME IInv, NEW t \in Threads, NEW r, NEW b, RunnerAllocate(t, r, b),
         NEW u \in Threads, call[u].pc = "refill"
  PROVE  used'[u][call[u].raw] = used[u][call[u].raw]
<1>1. call[u].raw \in Run /\ call[u].raw.owner = u /\ CallsOf(call[u].raw) = {u}
  BY InRefill
<1> QED
  BY <1>1, GrantSpares

(* One run of a refill: the call goes on, or returns the run it first      *)
(* obtained.                                                               *)
LEMMA RefillKeeps ==
  ASSUME IInv, NEW t \in Threads, Refill(t)
  PROVE  IInv'
<1>0. PICK b, raw, left, idx : /\ b = call[t].bytes /\ raw = call[t].raw
                               /\ left = call[t].left /\ idx = ClassIndexFor(call[t].bytes)
  OBVIOUS
<1> DEFINE k == [pc |-> "refill", bytes |-> b, raw |-> raw, left |-> left - 1]
<1>1. PICK r \in Run : /\ RunnerAllocate(t, r, ClassBytes(idx)) /\ Push(t, idx, r, t)
                       /\ late' = IF phase[t] = "running" THEN late ELSE late \cup {r}
  BY <1>0 DEF Refill
<1>2. call[t].pc = "refill" /\ UNCHANGED <<mode, phase, hasState, lost>>
      /\ IF left > 1 THEN call' = [call EXCEPT ![t].left = @ - 1] /\ UNCHANGED held
         ELSE call' = [call EXCEPT ![t] = Idle] /\ Hold(t, raw, b)
  BY <1>0 DEF Refill
<1>3. /\ raw \in Run /\ raw.owner = t /\ used[t][raw] >= b
      /\ used[t][raw] \in 0 .. MaxBytes
      /\ b \in Requests /\ Cacheable(b) /\ idx \in Classes
      /\ phase[t] # "ended" /\ hasState[t] /\ left \in 1 .. RefillBatch - 1
      /\ Given(raw) /\ HeldBy(raw) = {} /\ CallsOf(raw) = {t}
      /\ ClassesOf(raw) = {} /\ StacksOf(raw) = {} /\ raw \notin lost
      /\ Len(cache[t][idx]) <= High + RefillBatch - 1 - left
      /\ PayloadFor(ClassBytes(idx)) \in 0 .. MaxBytes
      /\ PayloadFor(ClassBytes(idx)) % Quantum = 0
      /\ ClassBytes(idx) = PayloadFor(ClassBytes(idx))
  BY <1>0, <1>2, InRefill
<1>4. ClassBytes(idx) <= PayloadFor(ClassBytes(idx))
  BY <1>3
<1>5. Types
  BY DEF IInv
<1>6. /\ call[t] = [pc |-> "refill", bytes |-> b, raw |-> raw, left |-> left]
      /\ b \in 0 .. MaxBytes
  BY <1>0, <1>2, <1>5 DEF Types, Calls
<1>7. RefillBatch \in Nat /\ High \in Nat
  BY MarksAssumption
<1>8. left > 1 => call' = [call EXCEPT ![t] = k]
  <2> SUFFICES ASSUME left > 1 PROVE call' = [call EXCEPT ![t] = k]
    OBVIOUS
  <2>1. call' = [call EXCEPT ![t].left = @ - 1]
    BY <1>2
  <2>2. [call[t] EXCEPT !.left = @ - 1] = k
    BY <1>6
  <2> QED
    BY <1>5, <2>1, <2>2 DEF Types
<1>9. k \in Calls \/ left = 1
  BY <1>3, <1>6, <1>7 DEF Calls
<1>10. Idle \in Calls /\ Idle.pc = "idle" /\ Idle.raw = Null
  BY ClassesAssumption, MarksAssumption DEF Idle, Calls
<1>11. raw # Null
  BY <1>3, NullAssumption
<1>12. k.pc = "refill" /\ k.raw = raw /\ k.bytes = b /\ k.left = left - 1
  OBVIOUS
<1> HIDE DEF k
<1>13. /\ call' \in [Threads -> Calls]
       /\ \A u \in Threads : u # t => call'[u] = call[u]
       /\ (call'[t] = k /\ left > 1) \/ call'[t] = Idle
       /\ DOMAIN held' = Threads /\ \A u \in Threads : DOMAIN held'[u] \subseteq Run
       /\ \A u \in Threads : u # t => DOMAIN held'[u] = DOMAIN held[u]
       /\ \A u \in Threads : \A x \in DOMAIN held'[u] :
             \/ x \in DOMAIN held[u] /\ held'[u][x] = held[u][x]
             \/ u = t /\ x = raw /\ held'[u][x] = b
       /\ \A x \in Run \ {raw} : HeldBy(x)' = HeldBy(x) /\ CallsOf(x)' = CallsOf(x)
       /\ \/ HeldBy(raw)' = {} /\ CallsOf(raw)' = {t}
          \/ HeldBy(raw)' = {t} /\ CallsOf(raw)' = {}
  <2>1. CASE left > 1
    <3>1. call' = [call EXCEPT ![t] = k] /\ UNCHANGED held /\ k \in Calls
      BY <1>2, <1>8, <1>9, <2>1
    <3>2. /\ call' \in [Threads -> Calls] /\ call'[t] = k
          /\ \A u \in Threads : u # t => call'[u] = call[u]
          /\ \A x : CallsOf(x)' = (CallsOf(x) \ {t}) \cup (IF k.raw = x THEN {t} ELSE {})
      BY <1>5, <3>1, CallPlaces
    <3>3. CallsOf(raw)' = {t} /\ \A x \in Run \ {raw} : CallsOf(x)' = CallsOf(x)
      <4>1. \A x \in Run \ {raw} : t \notin CallsOf(x)
        BY <1>0 DEF CallsOf
      <4>2. \A x : CallsOf(x)' = (CallsOf(x) \ {t}) \cup (IF raw = x THEN {t} ELSE {})
        BY <1>12, <3>2, Zenon
      <4>3. CallsOf(raw) = {t}
        BY <1>3
      <4> QED
        BY <4>1, <4>2, <4>3
    <3>4. \A x : HeldBy(x)' = HeldBy(x)
      BY <3>1 DEF HeldBy
    <3>5. DOMAIN held' = Threads /\ \A u \in Threads : DOMAIN held'[u] \subseteq Run
      BY <1>5, <3>1 DEF Types
    <3> QED
      BY <1>3, <2>1, <3>1, <3>2, <3>3, <3>4, <3>5
  <2>2. CASE ~ (left > 1)
    <3>1. call' = [call EXCEPT ![t] = Idle] /\ Hold(t, raw, b)
      BY <1>2, <2>2
    <3>2. /\ call' \in [Threads -> Calls] /\ call'[t] = Idle
          /\ \A u \in Threads : u # t => call'[u] = call[u]
          /\ \A x : CallsOf(x)' = (CallsOf(x) \ {t}) \cup (IF Idle.raw = x THEN {t} ELSE {})
      BY <1>5, <1>10, <3>1, CallPlaces
    <3>3. CallsOf(raw)' = {} /\ \A x \in Run \ {raw} : CallsOf(x)' = CallsOf(x)
      <4>1. \A x \in Run \ {raw} : t \notin CallsOf(x)
        BY <1>0 DEF CallsOf
      <4>2. \A x \in Run : Idle.raw # x
        BY <1>10, NullAssumption
      <4> QED
        BY <1>3, <3>2, <4>1, <4>2
    <3>4. /\ DOMAIN held' = Threads
          /\ \A u \in Threads : DOMAIN held'[u] = IF u = t THEN DOMAIN held[u] \cup {raw}
                                                  ELSE DOMAIN held[u]
          /\ held'[t][raw] = b
          /\ \A u \in Threads : \A x \in DOMAIN held[u] :
                (u = t /\ x = raw) \/ held'[u][x] = held[u][x]
          /\ \A x : HeldBy(x)' = IF x = raw THEN HeldBy(x) \cup {t} ELSE HeldBy(x)
      <4>1. HeldGains(t, raw, b)
        BY <1>3, <1>5, <3>1, HoldPlaces
      <4> QED
        BY <4>1 DEF HeldGains
    <3>5. HeldBy(raw)' = {t} /\ \A x \in Run \ {raw} : HeldBy(x)' = HeldBy(x)
      BY <1>3, <3>4
    <3>6. \A u \in Threads : DOMAIN held'[u] \subseteq Run
      <4>1. \A u \in Threads : DOMAIN held[u] \subseteq Run
        BY <1>5 DEF Types
      <4>2. raw \in Run
        BY <1>3
      <4>3. \A u \in Threads : DOMAIN held'[u] = IF u = t THEN DOMAIN held[u] \cup {raw}
                                                  ELSE DOMAIN held[u]
        BY <3>4, Zenon
      <4> QED
        BY <4>1, <4>2, <4>3
    <3>7. \A u \in Threads : \A x \in DOMAIN held'[u] :
             \/ x \in DOMAIN held[u] /\ held'[u][x] = held[u][x]
             \/ u = t /\ x = raw /\ held'[u][x] = b
      BY <3>4
    <3>8. \A u \in Threads : u # t => DOMAIN held'[u] = DOMAIN held[u]
      BY <3>4
    <3> QED
      BY <3>2, <3>3, <3>4, <3>5, <3>6, <3>7, <3>8
  <2> QED
    BY <2>1, <2>2
<1>14. /\ r.owner = t
       /\ HeldBy(r) = {} /\ CallsOf(r) = {} /\ ClassesOf(r) = {} /\ r \notin lost
       /\ DOMAIN used' = Threads /\ parked' \in [Threads -> SUBSET Run]
       /\ Given(r)' /\ StacksOf(r)' = {}
       /\ \A x \in Run \ {r} :
               \/ /\ Given(x)' <=> Given(x)
                  /\ StacksOf(x)' = StacksOf(x)
               \/ /\ ~ Given(x)' /\ StacksOf(x)' = {}
                  /\ HeldBy(x) = {} /\ CallsOf(x) = {} /\ ClassesOf(x) = {} /\ x \notin lost
  <2>1. /\ r.owner = t
        /\ HeldBy(r) = {} /\ CallsOf(r) = {} /\ ClassesOf(r) = {} /\ r \notin lost
        /\ DOMAIN used' = Threads /\ parked' \in [Threads -> SUBSET Run]
        /\ Given(r)' /\ StacksOf(r)' = {} /\ OthersStay(r)
    BY <1>1, Granted
  <2> QED
    BY <2>1 DEF OthersStay
<1>15. \A x \in Run : HeldBy(x) # {} \/ CallsOf(x) # {} \/ ClassesOf(x) # {} =>
            x # r /\ Given(x)' /\ used'[x.owner][x] = used[x.owner][x]
  BY <1>1, GrantSpares
<1>16. hasState' = hasState /\ hasState[t]
  BY <1>2, <1>3
<1>17. /\ Sized' /\ hasState' \in [Threads -> BOOLEAN]
       /\ \A s \in Threads : DOMAIN used'[s] \subseteq SlotsOf(s) /\ parked'[s] \subseteq SlotsOf(s)
  BY <1>1, <1>3, <1>16, GrantSized
<1>18. phase' = phase
  BY <1>2
<1>19. /\ cache' \in [Threads -> [Classes -> Seq(Run)]]
       /\ stamp' \in [Run -> Threads \cup {Null}] /\ late' \subseteq Run
       /\ Listed'
       /\ Len(cache'[t][idx]) = Len(cache[t][idx]) + 1
       /\ \A u \in Threads, d \in Classes : u # t \/ d # idx => cache'[u][d] = cache[u][d]
       /\ \A u \in Threads, d \in Classes : Cardinality(Foreign(u, d)') <= High
       /\ \A u \in Threads, d \in Classes : \A x \in ToSet(cache'[u][d]) :
             used'[x.owner][x] >= ClassBytes(d)
       /\ \A x \in Run : ClassesOf(x)' = IF x = r THEN {<<t, idx>>} ELSE ClassesOf(x)
       /\ \A u \in Threads : u # t => Cached(u)' = Cached(u)
  BY <1>1, <1>3, <1>4, <1>18, RefillPushes
<1>20. raw # r
  BY <1>3, <1>14
<1>21. Types'
  <2>1. mode' \in Modes /\ phase' \in [Threads -> {"running", "flushed", "ended"}]
        /\ lost' \subseteq Run
    BY <1>2, <1>5 DEF Types
  <2>2. /\ parked' \in [Threads -> SUBSET Run] /\ DOMAIN used' = Threads
        /\ stamp' \in [Run -> Threads \cup {Null}] /\ late' \subseteq Run
        /\ cache' \in [Threads -> [Classes -> Seq(Run)]]
    BY <1>14, <1>19
  <2>3. /\ call' \in [Threads -> Calls] /\ DOMAIN held' = Threads
        /\ \A u \in Threads : DOMAIN held'[u] \subseteq Run
    BY <1>13
  <2> QED
    BY <1>17, <2>1, <2>2, <2>3 DEF Types
<1>22. Placed'
  <2> SUFFICES ASSUME NEW x \in Run PROVE Right(x)'
    BY DEF Placed
  <2>1. (x \in lost') <=> x \in lost
    BY <1>2
  <2>2. CASE x = r
    <3>1. HeldBy(x)' = {} /\ CallsOf(x)' = {} /\ ClassesOf(x)' = {<<t, idx>>}
      BY <1>13, <1>14, <1>19, <1>20, <2>2
    <3> QED
      BY <1>14, <2>1, <2>2, <3>1 DEF Right, Somewhere, Exactly, Alone
  <2>3. CASE x = raw
    <3>1. ClassesOf(x)' = {} /\ Given(x)'
      BY <1>3, <1>15, <1>19, <1>20, <2>3
    <3>2. StacksOf(x)' = {}
      BY <1>3, <1>14, <1>20, <2>3
    <3> QED
      BY <1>3, <1>13, <2>1, <2>3, <3>1, <3>2 DEF Right, Somewhere, Exactly, Alone
  <2>4. CASE x # r /\ x # raw
    <3>1. HeldBy(x)' = HeldBy(x) /\ CallsOf(x)' = CallsOf(x) /\ ClassesOf(x)' = ClassesOf(x)
      BY <1>13, <1>19, <2>4
    <3>3. CASE (Given(x)' <=> Given(x)) /\ StacksOf(x)' = StacksOf(x)
      BY <2>1, <3>1, <3>3, StaysRight DEF IInv
    <3>4. CASE /\ ~ Given(x)' /\ StacksOf(x)' = {}
               /\ HeldBy(x) = {} /\ CallsOf(x) = {} /\ ClassesOf(x) = {} /\ x \notin lost
      BY <2>1, <3>1, <3>4 DEF Right, Nowhere
    <3> QED
      BY <1>14, <2>4, <3>3, <3>4
  <2> QED
    BY <2>2, <2>3, <2>4
<1>23. Roomy'
  <2>1. ASSUME NEW u \in Threads, NEW x \in DOMAIN held'[u]
        PROVE  held'[u][x] \in 2 .. MaxBytes /\ used'[x.owner][x] >= held'[u][x]
    <3>1. CASE u = t /\ x = raw /\ held'[u][x] = b
      <4>1. used'[t][raw] = used[t][raw]
        BY <1>3, <1>15
      <4>2. b \in 2 .. MaxBytes
        BY <1>3, RequestSize
      <4> QED
        BY <1>3, <3>1, <4>1, <4>2
    <3>2. CASE x \in DOMAIN held[u] /\ held'[u][x] = held[u][x]
      <4>1. x \in Run
        BY <1>5, <3>2 DEF Types
      <4>2. u \in HeldBy(x)
        BY <3>2 DEF HeldBy
      <4>3. used'[x.owner][x] = used[x.owner][x]
        BY <1>15, <4>1, <4>2
      <4> QED
        BY <3>2, <4>3 DEF IInv, Roomy
    <3> QED
      BY <1>13, <3>1, <3>2
  <2> QED
    BY <1>19, <2>1 DEF Roomy
<1>24. Bounded'
  <2>1. cache[t][idx] \in Seq(Run) /\ Len(cache[t][idx]) \in Nat /\ left \in Nat
    BY <1>3, <1>5 DEF Types
  <2>2. ASSUME NEW u \in Threads, NEW d \in Classes
        PROVE  Len(cache'[u][d]) <= High + RefillBatch - 1
    <3>1. CASE u = t /\ d = idx
      BY <1>3, <1>7, <1>19, <2>1, <3>1
    <3>2. CASE u # t \/ d # idx
      BY <1>19, <3>2 DEF IInv, Bounded
    <3> QED
      BY <3>1, <3>2
  <2>3. ASSUME NEW u \in Threads, call'[u].pc = "refill"
        PROVE  Len(cache'[u][ClassIndexFor(call'[u].bytes)])
                 <= High + RefillBatch - 1 - call'[u].left
    <3>1. CASE u = t
      <4>1. call'[u].left = left - 1 /\ ClassIndexFor(call'[u].bytes) = idx
        BY <1>0, <1>10, <1>12, <1>13, <2>3, <3>1
      <4> QED
        BY <1>3, <1>7, <1>19, <2>1, <3>1, <4>1
    <3>2. CASE u # t
      <4>1. call'[u] = call[u]
        BY <1>13, <3>2
      <4>2. ClassIndexFor(call[u].bytes) \in Classes
        BY <2>3, <4>1, InRefill
      <4>3. cache'[u][ClassIndexFor(call[u].bytes)] = cache[u][ClassIndexFor(call[u].bytes)]
        BY <1>19, <3>2, <4>2
      <4> QED
        BY <2>3, <4>1, <4>3 DEF IInv, Bounded
    <3> QED
      BY <3>1, <3>2
  <2> QED
    BY <1>19, <2>2, <2>3 DEF Bounded
<1>25. InCall'
  <2> SUFFICES ASSUME NEW u \in Threads
        PROVE  LET c == call'[u]
               IN  /\ c.raw # Null <=> c.pc = "refill"
                   /\ c.pc = "refill" => /\ c.raw.owner = u /\ c.left \in 1 .. RefillBatch - 1
                                         /\ used'[u][c.raw] >= c.bytes
                   /\ c.pc # "idle" => /\ phase'[u] # "ended"
                                       /\ c.bytes \in Requests /\ Cacheable(c.bytes)
                   /\ c.pc \in {"retry", "last"} => Cached(u)' = {}
                   /\ phase'[u] = "ended" => DOMAIN held'[u] = {}
    BY DEF InCall
  <2>1. CASE u = t
    <3>1. used'[t][raw] >= b
      BY <1>3, <1>15
    <3>2. phase'[t] # "ended"
      BY <1>3, <1>18
    <3>3. CASE call'[t] = Idle
      BY <1>10, <2>1, <3>2, <3>3
    <3>4. CASE call'[t] = k /\ left > 1
      BY <1>3, <1>7, <1>11, <1>12, <2>1, <3>1, <3>2, <3>4
    <3> QED
      BY <1>13, <3>3, <3>4
  <2>2. CASE u # t
    <3>1. call'[u] = call[u] /\ DOMAIN held'[u] = DOMAIN held[u] /\ Cached(u)' = Cached(u)
      BY <1>13, <1>19, <2>2
    <3>2. call[u].pc = "refill" => used'[u][call[u].raw] = used[u][call[u].raw]
      BY <1>1, RefillSpared
    <3> QED
      BY <1>18, <3>1, <3>2 DEF IInv, InCall
  <2> QED
    BY <2>1, <2>2
<1> QED
  BY <1>17, <1>19, <1>21, <1>22, <1>23, <1>24, <1>25 DEF IInv

(* A call that holds no run changes its course.                            *)
LEMMA CallTurns ==
  ASSUME Types, NEW t \in Threads, NEW k \in Calls, call' = [call EXCEPT ![t] = k],
         k.raw = Null
  PROVE  /\ call' \in [Threads -> Calls] /\ call'[t] = k
         /\ \A u \in Threads : u # t => call'[u] = call[u]
         /\ \A x \in Run : CallsOf(x)' = IF x = call[t].raw THEN CallsOf(x) \ {t} ELSE CallsOf(x)
<1>1. /\ call' \in [Threads -> Calls] /\ call'[t] = k
      /\ \A u \in Threads : u # t => call'[u] = call[u]
      /\ \A x : CallsOf(x)' = (CallsOf(x) \ {t}) \cup (IF k.raw = x THEN {t} ELSE {})
  BY CallPlaces
<1>2. ASSUME NEW x \in Run
      PROVE  CallsOf(x)' = IF x = call[t].raw THEN CallsOf(x) \ {t} ELSE CallsOf(x)
  <2>1. k.raw # x
    BY NullAssumption
  <2>2. CallsOf(x)' = CallsOf(x) \ {t}
    BY <1>1, <2>1
  <2>3. x # call[t].raw => t \notin CallsOf(x)
    BY DEF CallsOf
  <2> QED
    BY <2>2, <2>3
<1> QED
  BY <1>1, <1>2

(* The runner has nothing: the call turns to the next attempt or gives up, *)
(* and the run it had is lost.                                             *)
LEMMA RefusalKeeps ==
  ASSUME IInv, NEW t \in Threads, NEW k \in Calls, call' = [call EXCEPT ![t] = k],
         k.raw = Null, k.pc \in {"idle", "last"},
         k.pc = "last" => /\ Cached(t) = {} /\ phase[t] # "ended"
                          /\ k.bytes \in Requests /\ Cacheable(k.bytes),
         lost' = lost \cup ({call[t].raw} \ {Null}),
         UNCHANGED <<mode, phase, hasState, used, parked, cache, stamp, held, late>>
  PROVE  IInv'
<1>1. Types
  BY DEF IInv
<1>2. /\ call' \in [Threads -> Calls] /\ call'[t] = k
      /\ \A u \in Threads : u # t => call'[u] = call[u]
      /\ \A x \in Run : CallsOf(x)' = IF x = call[t].raw THEN CallsOf(x) \ {t} ELSE CallsOf(x)
  BY <1>1, CallTurns
<1>3. /\ Listed' /\ \A u \in Threads : Cached(u)' = Cached(u)
      /\ \A x : ClassesOf(x)' = ClassesOf(x)
      /\ \A u \in Threads, d \in Classes : /\ Len(cache'[u][d]) <= High + RefillBatch - 1
                                           /\ Cardinality(Foreign(u, d)') <= High
  BY ListsKept
<1>4. Types'
  <2>1. lost' \subseteq Run
    <3>1. call[t].raw \in Run \cup {Null} /\ lost \subseteq Run
      BY <1>1 DEF Types, Calls
    <3> QED
      BY <3>1
  <2> QED
    BY <1>1, <1>2, <2>1 DEF Types
<1>5. Placed'
  <2> SUFFICES ASSUME NEW x \in Run PROVE Right(x)'
    BY DEF Placed
  <2>1. /\ Given(x)' <=> Given(x)
        /\ HeldBy(x)' = HeldBy(x) /\ ClassesOf(x)' = ClassesOf(x) /\ StacksOf(x)' = StacksOf(x)
    BY <1>3 DEF Given, HeldBy, StacksOf
  <2>2. CASE x = call[t].raw
    <3>1. t \in CallsOf(x)
      BY <2>2 DEF CallsOf
    <3>2. /\ Given(x) /\ HeldBy(x) = {} /\ CallsOf(x) = {t}
          /\ ClassesOf(x) = {} /\ StacksOf(x) = {}
      BY <3>1, OnlyPlace DEF IInv
    <3>3. CallsOf(x)' = {} /\ x \in lost'
      BY <1>2, <2>2, <3>2, NullAssumption
    <3> QED
      BY <2>1, <3>2, <3>3 DEF Right, Somewhere, Exactly
  <2>3. CASE x # call[t].raw
    <3>1. CallsOf(x)' = CallsOf(x) /\ ((x \in lost') <=> x \in lost)
      BY <1>2, <2>3
    <3> QED
      BY <2>1, <3>1, StaysRight DEF IInv
  <2> QED
    BY <2>2, <2>3
<1>6. Sized' /\ Roomy'
  BY DEF IInv, Sized, Roomy, Given
<1>7. Bounded'
  <2>1. ASSUME NEW u \in Threads, call'[u].pc = "refill"
        PROVE  Len(cache'[u][ClassIndexFor(call'[u].bytes)])
                 <= High + RefillBatch - 1 - call'[u].left
    <3>1. call'[u] = call[u]
      BY <1>2, <2>1
    <3> QED
      BY <2>1, <3>1 DEF IInv, Bounded
  <2> QED
    BY <1>3, <2>1 DEF Bounded
<1>8. InCall'
  <2> SUFFICES ASSUME NEW u \in Threads
        PROVE  LET c == call'[u]
               IN  /\ c.raw # Null <=> c.pc = "refill"
                   /\ c.pc = "refill" => /\ c.raw.owner = u /\ c.left \in 1 .. RefillBatch - 1
                                         /\ used'[u][c.raw] >= c.bytes
                   /\ c.pc # "idle" => /\ phase'[u] # "ended"
                                       /\ c.bytes \in Requests /\ Cacheable(c.bytes)
                   /\ c.pc \in {"retry", "last"} => Cached(u)' = {}
                   /\ phase'[u] = "ended" => DOMAIN held'[u] = {}
    BY DEF InCall
  <2>1. CASE u = t
    BY <1>2, <1>3, <2>1 DEF IInv, InCall
  <2>2. CASE u # t
    <3>1. call'[u] = call[u] /\ Cached(u)' = Cached(u)
      BY <1>2, <1>3, <2>2
    <3> QED
      BY <3>1 DEF IInv, InCall
  <2> QED
    BY <2>1, <2>2
<1> QED
  BY <1>3, <1>4, <1>5, <1>6, <1>7, <1>8 DEF IInv

LEMMA IdleCall == /\ Idle \in Calls /\ Idle.pc = "idle" /\ Idle.raw = Null
BY ClassesAssumption, MarksAssumption DEF Idle, Calls

LEMMA RefillThrowsKeeps ==
  ASSUME IInv, NEW t \in Threads, RefillThrows(t)
  PROVE  IInv'
<1>1. /\ call' = [call EXCEPT ![t] = Idle] /\ lost' = lost \cup {call[t].raw}
      /\ UNCHANGED <<mode, phase, hasState, used, parked, cache, stamp, held, late>>
      /\ call[t].pc = "refill"
  BY DEF RefillThrows, RunnerFails
<1>2. call[t].raw # Null
  BY <1>1 DEF IInv, InCall
<1>3. lost' = lost \cup ({call[t].raw} \ {Null})
  BY <1>1, <1>2
<1>4. Idle \in Calls /\ Idle.raw = Null /\ Idle.pc \in {"idle", "last"} /\ Idle.pc # "last"
  BY IdleCall
<1> QED
  BY <1>1, <1>3, <1>4, RefusalKeeps

LEMMA AllocateFailsKeeps ==
  ASSUME IInv, NEW t \in Threads, NEW b \in Requests, AllocateFails(t, b)
  PROVE  IInv'
<1>1. /\ call' = [call EXCEPT ![t] = Idle] /\ lost' = lost
      /\ UNCHANGED <<mode, phase, hasState, used, parked, cache, stamp, held, late>>
      /\ call[t].pc \in {"idle", "last"}
  BY DEF AllocateFails, Refused, Misses
<1>2. call[t].raw = Null
  BY <1>1 DEF IInv, InCall
<1>3. lost' = lost \cup ({call[t].raw} \ {Null})
  BY <1>1, <1>2
<1>4. Idle \in Calls /\ Idle.raw = Null /\ Idle.pc \in {"idle", "last"} /\ Idle.pc # "last"
  BY IdleCall
<1> QED
  BY <1>1, <1>3, <1>4, RefusalKeeps

LEMMA RetryFailsKeeps ==
  ASSUME IInv, NEW t \in Threads, RetryFails(t)
  PROVE  IInv'
<1>1. /\ call' = [call EXCEPT ![t].pc = "last"] /\ lost' = lost
      /\ UNCHANGED <<mode, phase, hasState, used, parked, cache, stamp, held, late>>
      /\ call[t].pc = "retry"
  BY DEF RetryFails, RunnerFails
<1>2. /\ call[t].raw = Null /\ Cached(t) = {} /\ phase[t] # "ended"
      /\ call[t].bytes \in Requests /\ Cacheable(call[t].bytes)
  BY <1>1 DEF IInv, InCall
<1>3. lost' = lost \cup ({call[t].raw} \ {Null})
  BY <1>1, <1>2
<1>4. call \in [Threads -> Calls]
  BY DEF IInv, Types
<1>5. PICK k : k = [call[t] EXCEPT !.pc = "last"]
  OBVIOUS
<1>6. /\ k \in Calls /\ k.pc = "last" /\ k.raw = Null
      /\ k.bytes \in Requests /\ Cacheable(k.bytes)
  BY <1>2, <1>4, <1>5 DEF Calls
<1>7. call' = [call EXCEPT ![t] = k]
  BY <1>1, <1>4, <1>5
<1> QED
  BY <1>1, <1>2, <1>3, <1>6, <1>7, RefusalKeeps

(* The whole cache of a thread is emptied, at a drain of every class and   *)
(* at the end of its thread.                                               *)
LEMMA EmptiedKeeps ==
  ASSUME IInv, NEW t \in Threads, TakeOut(t, Classes),
         NEW k \in Calls, call' = [call EXCEPT ![t] = k], k.raw = Null, k.pc # "refill",
         call[t].pc = "idle",
         k.pc # "idle" => k.bytes \in Requests /\ Cacheable(k.bytes),
         phase' \in [Threads -> {"running", "flushed", "ended"}], phase'[t] # "ended",
         \A u \in Threads : u # t => phase'[u] = phase[u],
         UNCHANGED <<mode, hasState, held, lost>>
  PROVE  IInv'
<1> DEFINE runs == Cached(t)
<1>1. Types /\ call[t].raw = Null
  BY DEF IInv, InCall
<1>2. /\ call' \in [Threads -> Calls] /\ call'[t] = k
      /\ \A u \in Threads : u # t => call'[u] = call[u]
      /\ \A x \in Run : CallsOf(x)' = CallsOf(x)
  <2>1. /\ call' \in [Threads -> Calls] /\ call'[t] = k
        /\ \A u \in Threads : u # t => call'[u] = call[u]
        /\ \A x \in Run : CallsOf(x)' = IF x = call[t].raw THEN CallsOf(x) \ {t} ELSE CallsOf(x)
    BY <1>1, CallTurns
  <2>2. \A x \in Run : x # call[t].raw
    BY <1>1, NullAssumption
  <2> QED
    BY <2>1, <2>2
<1>3. /\ RunsIn(t, Classes) \subseteq Cached(t) /\ Return(t, RunsIn(t, Classes))
      /\ cache' \in [Threads -> [Classes -> Seq(Run)]]
      /\ \A u \in Threads, d \in Classes :
            cache'[u][d] = IF u = t /\ d \in Classes THEN <<>> ELSE cache[u][d]
      /\ \A x \in Run : ClassesOf(x)' = IF x \in RunsIn(t, Classes) THEN {} ELSE ClassesOf(x)
  BY TakenOut
<1>4. RunsIn(t, Classes) = runs
  BY DEF Cached
<1>5. /\ DOMAIN used' = Threads /\ parked' \in [Threads -> SUBSET Run]
      /\ \A s \in Threads :
            /\ DOMAIN used'[s] = IF s = t THEN DOMAIN used[t] \ runs ELSE DOMAIN used[s]
            /\ \A x \in DOMAIN used'[s] : used'[s][x] = used[s][x]
            /\ parked'[s] = IF s = t THEN parked[t]
                            ELSE parked[s] \cup {x \in runs : x.owner = s}
      /\ \A x \in Run :
            /\ Given(x)' <=> Given(x) /\ ~ (x \in runs /\ x.owner = t)
            /\ StacksOf(x)' = IF x \in runs /\ x.owner # t
                               THEN StacksOf(x) \cup {x.owner} ELSE StacksOf(x)
  <2>1. Return(t, runs) /\ runs \in SUBSET Cached(t)
    BY <1>3, <1>4
  <2> QED
    BY <2>1, Returned
<1>6. /\ stamp' = [r \in Run |-> IF r \in runs THEN Null ELSE stamp[r]]
      /\ late' = late \ runs
  BY <1>4 DEF TakeOut
<1>7. ASSUME NEW x \in runs
      PROVE  /\ x \in Run /\ x.owner \in Threads /\ Given(x) /\ HeldBy(x) = {}
             /\ CallsOf(x) = {} /\ StacksOf(x) = {} /\ x \notin lost
  <2>1. PICK c \in Classes : x \in ToSet(cache[t][c])
    BY CachedMeans
  <2> QED
    BY <2>1, CachedRun
<1>8. \A x \in Run : ClassesOf(x)' = IF x \in runs THEN {} ELSE ClassesOf(x)
  BY <1>3, <1>4, Zenon
<1>9. /\ Cached(t)' = {}
      /\ \A u \in Threads : u # t => Cached(u)' = Cached(u)
  <2>1. \A d \in Classes : cache'[t][d] = <<>>
    BY <1>3
  <2>2. ToSet(<<>>) = {}
    BY DEF ToSet
  <2>3. Cached(t)' = {}
    BY <2>1, <2>2, CachedMeansNext
  <2>4. ASSUME NEW u \in Threads, u # t PROVE Cached(u)' = Cached(u)
    <3>1. \A d \in Classes : cache'[u][d] = cache[u][d]
      BY <1>3, <2>4
    <3>2. \A x : x \in Cached(u)' <=> x \in Cached(u)
      BY <3>1, CachedMeans, CachedMeansNext
    <3> QED
      BY <3>2
  <2> QED
    BY <2>3, <2>4
<1>10. ASSUME NEW u \in Threads, u # t, NEW x \in Cached(u) PROVE x \in Run /\ x \notin runs
  <2>1. PICK d \in Classes : x \in ToSet(cache[u][d])
    BY CachedMeans
  <2>2. /\ x \in Run /\ x \in Cached(u) /\ stamp[x] = x.owner /\ x.owner \in Threads
        /\ <<u, d>> \in ClassesOf(x) /\ Given(x) /\ hasState[x.owner]
        /\ HeldBy(x) = {} /\ CallsOf(x) = {} /\ ClassesOf(x) = {<<u, d>>}
        /\ StacksOf(x) = {} /\ x \notin lost
    BY <2>1, CachedRun
  <2>3. \A c \in Classes : x \notin ToSet(cache[t][c])
    <3>1. \A c \in Classes : <<t, c>> \notin ClassesOf(x)
      BY <1>10, <2>2
    <3> QED
      BY <3>1 DEF ClassesOf
  <2> QED
    BY <2>2, <2>3, CachedMeans
<1> HIDE DEF runs
<1>11. \A x \in Run : Given(x)' => Given(x) /\ used'[x.owner][x] = used[x.owner][x]
  BY <1>5 DEF Given, Run
<1>12. \A x \in Run : Given(x) /\ x \notin runs => Given(x)'
  BY <1>5
<1>13. Types'
  <2>1. stamp' \in [Run -> Threads \cup {Null}] /\ late' \subseteq Run
    BY <1>1, <1>6 DEF Types
  <2>2. \A s \in Threads : DOMAIN used'[s] \subseteq SlotsOf(s)
    BY <1>1, <1>5 DEF Types
  <2>3. ASSUME NEW s \in Threads PROVE parked'[s] \subseteq SlotsOf(s)
    <3>1. parked[s] \subseteq SlotsOf(s)
      BY <1>1 DEF Types
    <3>2. {x \in runs : x.owner = s} \subseteq SlotsOf(s)
      BY <1>7, OwnSlots
    <3> QED
      BY <1>5, <3>1, <3>2
  <2>4. /\ mode' \in Modes /\ hasState' \in [Threads -> BOOLEAN] /\ lost' \subseteq Run
        /\ DOMAIN held' = Threads /\ \A u \in Threads : DOMAIN held'[u] \subseteq Run
    BY <1>1 DEF Types
  <2> QED
    BY <1>2, <1>3, <1>5, <2>1, <2>2, <2>3, <2>4 DEF Types
<1>14. Placed'
  <2> SUFFICES ASSUME NEW x \in Run PROVE Right(x)'
    BY DEF Placed
  <2>1. HeldBy(x)' = HeldBy(x) /\ CallsOf(x)' = CallsOf(x) /\ ((x \in lost') <=> x \in lost)
    BY <1>2 DEF HeldBy
  <2>2. CASE x \in runs
    <3>1. ClassesOf(x)' = {}
      BY <1>8, <2>2
    <3>2. CASE x.owner = t
      <4>1. ~ Given(x)' /\ StacksOf(x)' = {}
        BY <1>5, <1>7, <2>2, <3>2
      <4> QED
        BY <1>7, <2>1, <2>2, <3>1, <4>1 DEF Right, Nowhere
    <3>3. CASE x.owner # t
      <4>1. Given(x)' /\ StacksOf(x)' = {x.owner}
        BY <1>5, <1>7, <2>2, <3>3
      <4> QED
        BY <1>7, <2>1, <2>2, <3>1, <4>1 DEF Right, Somewhere, Exactly, Alone
    <3> QED
      BY <3>2, <3>3
  <2>3. CASE x \notin runs
    <3>1. (Given(x)' <=> Given(x)) /\ StacksOf(x)' = StacksOf(x) /\ ClassesOf(x)' = ClassesOf(x)
      BY <1>5, <1>8, <2>3
    <3> QED
      BY <2>1, <3>1, StaysRight DEF IInv
  <2> QED
    BY <2>2, <2>3
<1>15. Sized'
  BY <1>11 DEF IInv, Sized
<1>16. Roomy'
  <2>1. ASSUME NEW u \in Threads, NEW x \in DOMAIN held[u]
        PROVE  used'[x.owner][x] = used[x.owner][x]
    <3>1. x \in Run
      BY <1>1 DEF Types
    <3>2. u \in HeldBy(x)
      BY DEF HeldBy
    <3>3. Given(x) /\ x \notin runs
      BY <1>7, <3>1, <3>2, OnlyPlace DEF IInv
    <3> QED
      BY <1>11, <1>12, <3>1, <3>3
  <2>2. ASSUME NEW u \in Threads, NEW d \in Classes, NEW x \in ToSet(cache'[u][d])
        PROVE  used'[x.owner][x] >= ClassBytes(d)
    <3>1. u # t
      <4>1. x \in Cached(u)'
        BY CachedMeansNext
      <4> QED
        BY <1>9, <4>1
    <3>2. x \in ToSet(cache[u][d])
      BY <1>3, <3>1
    <3>3. x \in Cached(u) /\ Given(x)
      BY <3>2, CachedRun
    <3>4. used'[x.owner][x] = used[x.owner][x]
      BY <1>10, <1>11, <1>12, <3>1, <3>3
    <3> QED
      BY <3>2, <3>4 DEF IInv, Roomy
  <2> QED
    BY <2>1, <2>2 DEF IInv, Roomy
<1>17. Listed'
  <2>1. ASSUME NEW u \in Threads, NEW d \in Classes PROVE IsInjective(cache'[u][d])
    <3>1. IsInjective(<<>>)
      BY DEF IsInjective
    <3> QED
      BY <1>3, <3>1 DEF IInv, Listed
  <2>2. ASSUME NEW u \in Threads, NEW x \in Cached(u)'
        PROVE  stamp'[x] = x.owner /\ (phase'[u] # "running" => x \in late')
    <3>1. u # t /\ x \in Cached(u)
      BY <1>9
    <3>2. x \in Run /\ x \notin runs
      BY <1>10, <3>1
    <3>3. stamp'[x] = stamp[x] /\ (x \in late => x \in late') /\ phase'[u] = phase[u]
      BY <1>6, <3>1, <3>2
    <3> QED
      BY <3>1, <3>3 DEF IInv, Listed
  <2> QED
    BY <2>1, <2>2 DEF Listed
<1>18. Bounded'
  <2>1. ASSUME NEW u \in Threads, NEW d \in Classes
        PROVE  /\ Len(cache'[u][d]) <= High + RefillBatch - 1
               /\ Cardinality(Foreign(u, d)') <= High
    <3>1. cache[u][d] \in Seq(Run) /\ Len(<<>>) = 0 /\ ToSet(<<>>) = {}
      BY <1>1 DEF Types, ToSet
    <3>2. Len(cache'[u][d]) <= Len(cache[u][d]) /\ ToSet(cache'[u][d]) \subseteq ToSet(cache[u][d])
      BY <1>3, <3>1
    <3> QED
      BY <1>3, <3>2, StillBounded
  <2>2. ASSUME NEW u \in Threads, call'[u].pc = "refill"
        PROVE  Len(cache'[u][ClassIndexFor(call'[u].bytes)])
                 <= High + RefillBatch - 1 - call'[u].left
    <3>1. u # t /\ call'[u] = call[u]
      BY <1>2, <2>2
    <3>2. ClassIndexFor(call[u].bytes) \in Classes
      BY <2>2, <3>1, InRefill
    <3>3. cache'[u][ClassIndexFor(call[u].bytes)] = cache[u][ClassIndexFor(call[u].bytes)]
      BY <1>3, <3>1, <3>2
    <3> QED
      BY <2>2, <3>1, <3>3 DEF IInv, Bounded
  <2> QED
    BY <2>1, <2>2 DEF Bounded
<1>19. InCall'
  <2> SUFFICES ASSUME NEW u \in Threads
        PROVE  LET c == call'[u]
               IN  /\ c.raw # Null <=> c.pc = "refill"
                   /\ c.pc = "refill" => /\ c.raw.owner = u /\ c.left \in 1 .. RefillBatch - 1
                                         /\ used'[u][c.raw] >= c.bytes
                   /\ c.pc # "idle" => /\ phase'[u] # "ended"
                                       /\ c.bytes \in Requests /\ Cacheable(c.bytes)
                   /\ c.pc \in {"retry", "last"} => Cached(u)' = {}
                   /\ phase'[u] = "ended" => DOMAIN held'[u] = {}
    BY DEF InCall
  <2>1. CASE u = t
    BY <1>2, <1>9, <2>1
  <2>2. CASE u # t
    <3>1. call'[u] = call[u] /\ Cached(u)' = Cached(u) /\ phase'[u] = phase[u]
      BY <1>2, <1>9, <2>2
    <3>2. call[u].pc = "refill" => used'[u][call[u].raw] = used[u][call[u].raw]
      <4> SUFFICES ASSUME call[u].pc = "refill" PROVE used'[u][call[u].raw] = used[u][call[u].raw]
        OBVIOUS
      <4>1. /\ call[u].raw \in Run /\ call[u].raw.owner = u /\ Given(call[u].raw)
            /\ CallsOf(call[u].raw) = {u}
        BY InRefill
      <4>2. call[u].raw \notin runs
        BY <1>7, <4>1
      <4> QED
        BY <1>11, <1>12, <4>1, <4>2
    <3> QED
      BY <3>1, <3>2 DEF IInv, InCall
  <2> QED
    BY <2>1, <2>2
<1> QED
  BY <1>13, <1>14, <1>15, <1>16, <1>17, <1>18, <1>19 DEF IInv

LEMMA DrainAllKeeps ==
  ASSUME IInv, NEW t \in Threads, NEW b \in Requests, DrainAll(t, b)
  PROVE  IInv'
<1> DEFINE k == [pc |-> "retry", bytes |-> b, raw |-> Null, left |-> 0]
<1>1. /\ TakeOut(t, Classes) /\ call[t].pc = "idle" /\ phase[t] # "ended" /\ Cacheable(b)
      /\ UNCHANGED <<mode, phase, hasState, held, lost>>
      /\ call' = [call EXCEPT ![t] = Retrying(b)]
  BY DEF DrainAll, Misses
<1>2. Retrying(b) = k
  BY DEF Retrying
<1>3. k \in Calls /\ k.pc = "retry" /\ k.raw = Null /\ k.bytes = b
  BY RequestSize, MarksAssumption DEF Calls
<1>4. call' = [call EXCEPT ![t] = k]
  BY <1>1, <1>2
<1> HIDE DEF k
<1>5. phase' \in [Threads -> {"running", "flushed", "ended"}]
      /\ phase'[t] # "ended" /\ \A u \in Threads : u # t => phase'[u] = phase[u]
  BY <1>1 DEF IInv, Types
<1> QED
  BY <1>1, <1>3, <1>4, <1>5, EmptiedKeeps

LEMMA FlushKeeps ==
  ASSUME IInv, NEW t \in Threads, Flush(t)
  PROVE  IInv'
<1>1. /\ TakeOut(t, Classes) /\ call[t].pc = "idle" /\ phase' = [phase EXCEPT ![t] = "flushed"]
      /\ UNCHANGED <<mode, hasState, held, call, lost>>
  BY DEF Flush
<1>2. PICK k : k = call[t]
  OBVIOUS
<1>3. k \in Calls /\ call' = [call EXCEPT ![t] = k] /\ k.raw = Null /\ k.pc = "idle"
  BY <1>1, <1>2 DEF IInv, Types, InCall
<1>4. phase' \in [Threads -> {"running", "flushed", "ended"}]
      /\ phase'[t] # "ended" /\ \A u \in Threads : u # t => phase'[u] = phase[u]
  BY <1>1 DEF IInv, Types
<1> QED
  BY <1>1, <1>3, <1>4, EmptiedKeeps

(* What a held run is.                                                     *)
LEMMA HeldRun ==
  ASSUME IInv, NEW t \in Threads, NEW r \in DOMAIN held[t]
  PROVE  /\ r \in Run /\ r.owner \in Threads /\ Given(r) /\ hasState[r.owner]
         /\ HeldBy(r) = {t} /\ CallsOf(r) = {} /\ ClassesOf(r) = {} /\ StacksOf(r) = {}
         /\ r \notin lost
         /\ held[t][r] \in Nat /\ held[t][r] \in 2 .. MaxBytes
         /\ used[r.owner][r] \in 0 .. MaxBytes /\ held[t][r] <= used[r.owner][r]
         /\ PayloadFor(held[t][r]) <= used[r.owner][r]
<1>1. r \in Run /\ r.owner \in Threads
  BY DEF IInv, Types, Run
<1>2. t \in HeldBy(r)
  BY DEF HeldBy
<1>3. Given(r) /\ HeldBy(r) = {t} /\ CallsOf(r) = {} /\ ClassesOf(r) = {} /\ StacksOf(r) = {}
      /\ r \notin lost
  BY <1>1, <1>2, OnlyPlace DEF IInv
<1>4. /\ hasState[r.owner] /\ used[r.owner][r] \in 0 .. MaxBytes
      /\ used[r.owner][r] % Quantum = 0
  BY <1>1, <1>3 DEF IInv, Sized
<1>5. held[t][r] \in 2 .. MaxBytes /\ used[r.owner][r] >= held[t][r]
  BY DEF IInv, Roomy
<1>6. MaxBytes \in Nat
  BY ClassesAssumption
<1>7. held[t][r] \in Nat /\ held[t][r] >= 1 /\ used[r.owner][r] \in Nat
      /\ held[t][r] <= used[r.owner][r]
  BY <1>4, <1>5, <1>6
<1>8. PayloadFor(held[t][r]) <= used[r.owner][r]
  BY <1>4, <1>7, ClassSizes
<1> QED
  BY <1>1, <1>3, <1>4, <1>5, <1>7, <1>8

(* A run is freed into the cache of the freeing thread, after a drain of   *)
(* the class if it is full.                                                *)
LEMMA DeallocateKeeps ==
  ASSUME IInv, NEW t \in Threads, NEW r \in DOMAIN held[t], Deallocate(t, r)
  PROVE  IInv'
<1>0. PICK idx, full : idx = ClassIndexFor(held[t][r]) /\ full = AtHighWatermark(t, idx)
  OBVIOUS
<1>1. PICK out, rest : /\ out = IF full THEN Drained(cache[t][idx], Low) ELSE {}
                       /\ rest = IF full THEN Kept(cache[t][idx], Low) ELSE cache[t][idx]
  OBVIOUS
<1>2. /\ call[t].pc = "idle" /\ phase[t] # "ended" /\ Cacheable(held[t][r])
      /\ Return(t, out) /\ cache' = [cache EXCEPT ![t][idx] = <<r>> \o rest]
      /\ stamp' = [x \in Run |-> IF x = r THEN r.owner ELSE IF x \in out THEN Null ELSE stamp[x]]
      /\ late' = (late \ out) \cup (IF phase[t] = "running" THEN {} ELSE {r})
      /\ Drop(t, r)
      /\ UNCHANGED <<mode, phase, hasState, call, lost>>
  BY <1>0, <1>1 DEF Deallocate
<1>3. /\ r \in Run /\ r.owner \in Threads /\ Given(r) /\ hasState[r.owner]
      /\ HeldBy(r) = {t} /\ CallsOf(r) = {} /\ ClassesOf(r) = {} /\ StacksOf(r) = {}
      /\ r \notin lost
      /\ held[t][r] \in Nat /\ held[t][r] \in 2 .. MaxBytes
      /\ used[r.owner][r] \in 0 .. MaxBytes /\ held[t][r] <= used[r.owner][r]
      /\ PayloadFor(held[t][r]) <= used[r.owner][r]
  BY HeldRun
<1>4. idx \in Classes /\ ClassBytes(idx) <= used[r.owner][r]
  <2>1. held[t][r] >= 1
    BY <1>3
  <2>2. ClassBytes(idx) = PayloadFor(held[t][r]) /\ idx \in Classes
    BY <1>0, <1>2, <1>3, <2>1, ClassSizes
  <2> QED
    BY <1>3, <2>2
<1>5. Types
  BY DEF IInv
<1>6. cache[t][idx] \in Seq(Run) /\ IsInjective(cache[t][idx]) /\ Len(cache[t][idx]) \in Nat
  BY <1>4, <1>5 DEF Types, IInv, Listed
<1>7. Low \in Nat /\ High \in Nat /\ Low < High /\ RefillBatch \in Nat /\ RefillBatch >= 2
  BY MarksAssumption
<1>8. /\ rest \in Seq(Run) /\ IsInjective(rest) /\ Len(rest) \in Nat /\ Len(rest) < High
      /\ ToSet(rest) = ToSet(cache[t][idx]) \ out /\ out \subseteq ToSet(cache[t][idx])
  <2>1. CASE full
    <3>1. Len(cache[t][idx]) >= High
      BY <1>0, <2>1 DEF AtHighWatermark
    <3>2. Low <= Len(cache[t][idx])
      BY <1>6, <1>7, <3>1
    <3>3. /\ Kept(cache[t][idx], Low) \in Seq(Run) /\ Len(Kept(cache[t][idx], Low)) = Low
          /\ IsInjective(Kept(cache[t][idx], Low))
          /\ ToSet(Kept(cache[t][idx], Low)) = ToSet(cache[t][idx]) \ Drained(cache[t][idx], Low)
          /\ Drained(cache[t][idx], Low) \subseteq ToSet(cache[t][idx])
      BY <1>6, <1>7, <3>2, CutList
    <3> QED
      BY <1>1, <1>7, <2>1, <3>3
  <2>2. CASE ~ full
    <3>1. ~ (Len(cache[t][idx]) >= High)
      BY <1>0, <2>2 DEF AtHighWatermark
    <3> QED
      BY <1>1, <1>6, <1>7, <2>2, <3>1
  <2> QED
    BY <2>1, <2>2
<1>9. r \notin ToSet(cache[t][idx])
  BY <1>3, <1>4, CachedRun
<1>10. PICK s : s = <<r>> \o rest
  OBVIOUS
<1>11. /\ s \in Seq(Run) /\ Len(s) = Len(rest) + 1 /\ ToSet(s) = ToSet(rest) \cup {r}
       /\ IsInjective(s)
  BY <1>3, <1>8, <1>9, <1>10, PushedRun
<1>12. cache' = [cache EXCEPT ![t][idx] = s]
  BY <1>2, <1>10
<1>13. /\ cache' \in [Threads -> [Classes -> Seq(Run)]] /\ cache'[t][idx] = s
       /\ \A u \in Threads, d \in Classes : u # t \/ d # idx => cache'[u][d] = cache[u][d]
       /\ \A x : ClassesOf(x)' = (ClassesOf(x) \ {<<t, idx>>})
                                     \cup (IF x \in ToSet(s) THEN {<<t, idx>>} ELSE {})
  BY <1>4, <1>5, <1>11, <1>12, ClassPlaces
<1>14. out \in SUBSET Cached(t)
  BY <1>4, <1>8, CachedMeans
<1>15. /\ DOMAIN used' = Threads /\ parked' \in [Threads -> SUBSET Run]
       /\ \A p \in Threads :
             /\ DOMAIN used'[p] = IF p = t THEN DOMAIN used[t] \ out ELSE DOMAIN used[p]
             /\ \A x \in DOMAIN used'[p] : used'[p][x] = used[p][x]
             /\ parked'[p] = IF p = t THEN parked[t]
                             ELSE parked[p] \cup {x \in out : x.owner = p}
       /\ \A x \in Run :
             /\ Given(x)' <=> Given(x) /\ ~ (x \in out /\ x.owner = t)
             /\ StacksOf(x)' = IF x \in out /\ x.owner # t
                                THEN StacksOf(x) \cup {x.owner} ELSE StacksOf(x)
  BY <1>2, <1>14, Returned
<1>16. /\ DOMAIN held' = Threads
       /\ \A u \in Threads : /\ DOMAIN held'[u] = IF u = t THEN DOMAIN held[u] \ {r}
                                                  ELSE DOMAIN held[u]
                             /\ \A x \in DOMAIN held'[u] : held'[u][x] = held[u][x]
       /\ \A x : HeldBy(x)' = IF x = r THEN HeldBy(x) \ {t} ELSE HeldBy(x)
  BY <1>2, <1>3, <1>5, DropPlaces
<1>17. ASSUME NEW x \in out
       PROVE  /\ x \in Run /\ x.owner \in Threads /\ Given(x) /\ HeldBy(x) = {}
              /\ CallsOf(x) = {} /\ ClassesOf(x) = {<<t, idx>>} /\ StacksOf(x) = {}
              /\ x \notin lost /\ x # r
  <2>1. x \in ToSet(cache[t][idx])
    BY <1>8
  <2>2. /\ x \in Run /\ x \in Cached(t) /\ stamp[x] = x.owner /\ x.owner \in Threads
        /\ <<t, idx>> \in ClassesOf(x) /\ Given(x) /\ hasState[x.owner]
        /\ HeldBy(x) = {} /\ CallsOf(x) = {} /\ ClassesOf(x) = {<<t, idx>>}
        /\ StacksOf(x) = {} /\ x \notin lost
    BY <1>4, <2>1, CachedRun
  <2> QED
    BY <1>9, <2>1, <2>2
<1>18. ASSUME NEW x \in Run
       PROVE  ClassesOf(x)' = IF x = r THEN {<<t, idx>>} ELSE IF x \in out THEN {} ELSE ClassesOf(x)
  <2>1. x \in ToSet(cache[t][idx]) <=> <<t, idx>> \in ClassesOf(x)
    BY <1>4 DEF ClassesOf
  <2>2. x \in ToSet(s) <=> x = r \/ (x \in ToSet(cache[t][idx]) /\ x \notin out)
    BY <1>8, <1>11
  <2>3. ClassesOf(x)' = (ClassesOf(x) \ {<<t, idx>>})
                              \cup (IF x \in ToSet(s) THEN {<<t, idx>>} ELSE {})
    BY <1>13
  <2>4. CASE x = r
    BY <1>3, <2>2, <2>3, <2>4
  <2>5. CASE x \in out
    BY <1>17, <2>2, <2>3, <2>5
  <2>6. CASE x # r /\ x \notin out
    BY <2>1, <2>2, <2>3, <2>6
  <2> QED
    BY <1>17, <2>4, <2>5, <2>6
<1>19. \A u \in Threads, d \in Classes :
          /\ \A x \in ToSet(cache'[u][d]) :
                \/ u = t /\ d = idx /\ x = r
                \/ x \in ToSet(cache[u][d]) /\ (u = t /\ d = idx => x \notin out)
          /\ IsInjective(cache'[u][d])
  <2> SUFFICES ASSUME NEW u \in Threads, NEW d \in Classes
               PROVE  /\ \A x \in ToSet(cache'[u][d]) :
                           \/ u = t /\ d = idx /\ x = r
                           \/ x \in ToSet(cache[u][d]) /\ (u = t /\ d = idx => x \notin out)
                      /\ IsInjective(cache'[u][d])
    OBVIOUS
  <2>1. CASE u = t /\ d = idx
    BY <1>8, <1>11, <1>13, <2>1
  <2>2. CASE u # t \/ d # idx
    BY <1>13, <2>2 DEF IInv, Listed
  <2> QED
    BY <2>1, <2>2
<1>20. ASSUME NEW u \in Threads, NEW d \in Classes, NEW x \in ToSet(cache[u][d]),
              u = t /\ d = idx => x \notin out
       PROVE  x \in Run /\ x \in Cached(u) /\ x \notin out /\ x # r /\ Given(x)
  <2>1. /\ x \in Run /\ x \in Cached(u) /\ stamp[x] = x.owner /\ x.owner \in Threads
        /\ <<u, d>> \in ClassesOf(x) /\ Given(x) /\ hasState[x.owner]
        /\ HeldBy(x) = {} /\ CallsOf(x) = {} /\ ClassesOf(x) = {<<u, d>>}
        /\ StacksOf(x) = {} /\ x \notin lost
    BY CachedRun
  <2>2. ASSUME x \in out PROVE u = t /\ d = idx
    <3>1. ClassesOf(x) = {<<t, idx>>}
      BY <1>17, <2>2
    <3>2. <<u, d>> \in {<<t, idx>>}
      BY <2>1, <3>1
    <3> QED
      BY <3>2
  <2> QED
    BY <1>3, <1>20, <2>1, <2>2
<1>21. \A x \in Run : Given(x)' => Given(x) /\ used'[x.owner][x] = used[x.owner][x]
  BY <1>15 DEF Given, Run
<1>22. \A x \in Run : Given(x) /\ x \notin out => Given(x)'
  BY <1>15
<1>23. Types'
  <2>1. stamp' \in [Run -> Threads \cup {Null}] /\ late' \subseteq Run
    <3>1. \A x \in Run : stamp[x] \in Threads \cup {Null}
      BY <1>5 DEF Types
    <3>2. \A x \in Run : (IF x = r THEN r.owner ELSE IF x \in out THEN Null ELSE stamp[x])
                            \in Threads \cup {Null}
      BY <1>3, <3>1
    <3>3. late \subseteq Run
      BY <1>5 DEF Types
    <3> QED
      BY <1>2, <1>3, <3>2, <3>3
  <2>2. \A p \in Threads : DOMAIN used'[p] \subseteq SlotsOf(p)
    BY <1>5, <1>15 DEF Types
  <2>3. ASSUME NEW p \in Threads PROVE parked'[p] \subseteq SlotsOf(p)
    <3>1. parked[p] \subseteq SlotsOf(p)
      BY <1>5 DEF Types
    <3>2. {x \in out : x.owner = p} \subseteq SlotsOf(p)
      BY <1>17, OwnSlots
    <3> QED
      BY <1>15, <3>1, <3>2
  <2>4. /\ mode' \in Modes /\ hasState' \in [Threads -> BOOLEAN] /\ lost' \subseteq Run
        /\ phase' \in [Threads -> {"running", "flushed", "ended"}] /\ call' \in [Threads -> Calls]
    BY <1>2, <1>5 DEF Types
  <2>5. \A u \in Threads : DOMAIN held'[u] \subseteq Run
    BY <1>5, <1>16 DEF Types
  <2> QED
    BY <1>13, <1>15, <1>16, <2>1, <2>2, <2>3, <2>4, <2>5 DEF Types
<1>24. Placed'
  <2> SUFFICES ASSUME NEW x \in Run PROVE Right(x)'
    BY DEF Placed
  <2>1. CallsOf(x)' = CallsOf(x) /\ ((x \in lost') <=> x \in lost)
    BY <1>2 DEF CallsOf
  <2>2. CASE x = r
    <3>1. x \notin out
      BY <1>17, <2>2
    <3>2. HeldBy(x)' = {} /\ ClassesOf(x)' = {<<t, idx>>} /\ StacksOf(x)' = {} /\ Given(x)'
      BY <1>3, <1>15, <1>16, <1>18, <2>2, <3>1
    <3> QED
      BY <1>3, <2>1, <2>2, <3>2 DEF Right, Somewhere, Exactly, Alone
  <2>3. CASE x \in out
    <3>1. HeldBy(x)' = {} /\ ClassesOf(x)' = {}
      BY <1>16, <1>17, <1>18, <2>3
    <3>2. CASE x.owner = t
      <4>1. ~ Given(x)' /\ StacksOf(x)' = {}
        BY <1>15, <1>17, <2>3, <3>2
      <4> QED
        BY <1>17, <2>1, <2>3, <3>1, <4>1 DEF Right, Nowhere
    <3>3. CASE x.owner # t
      <4>1. Given(x)' /\ StacksOf(x)' = {x.owner}
        BY <1>15, <1>17, <2>3, <3>3
      <4> QED
        BY <1>17, <2>1, <2>3, <3>1, <4>1 DEF Right, Somewhere, Exactly, Alone
    <3> QED
      BY <3>2, <3>3
  <2>4. CASE x # r /\ x \notin out
    <3>1. /\ Given(x)' <=> Given(x)
          /\ StacksOf(x)' = StacksOf(x) /\ ClassesOf(x)' = ClassesOf(x) /\ HeldBy(x)' = HeldBy(x)
      BY <1>15, <1>16, <1>18, <2>4
    <3> QED
      BY <2>1, <3>1, StaysRight DEF IInv
  <2> QED
    BY <2>2, <2>3, <2>4
<1>25. Sized'
  BY <1>2, <1>21 DEF IInv, Sized
<1>26. Roomy'
  <2>1. ASSUME NEW u \in Threads, NEW x \in DOMAIN held'[u]
        PROVE  held'[u][x] \in 2 .. MaxBytes /\ used'[x.owner][x] >= held'[u][x]
    <3>1. x \in DOMAIN held[u] /\ held'[u][x] = held[u][x]
      BY <1>16
    <3>2. x \in Run /\ Given(x) /\ HeldBy(x) = {u}
      BY <3>1, HeldRun
    <3>3. x \notin out
      BY <1>17, <3>2
    <3>4. used'[x.owner][x] = used[x.owner][x]
      BY <1>21, <1>22, <3>2, <3>3
    <3> QED
      BY <3>1, <3>4 DEF IInv, Roomy
  <2>2. ASSUME NEW u \in Threads, NEW d \in Classes, NEW x \in ToSet(cache'[u][d])
        PROVE  used'[x.owner][x] >= ClassBytes(d)
    <3>1. CASE d = idx /\ x = r
      <4>1. r \notin out
        BY <1>17
      <4>2. used'[r.owner][r] = used[r.owner][r]
        BY <1>3, <1>21, <1>22, <4>1
      <4>3. ClassBytes(idx) \in Int
        BY <1>4, ClassesAssumption DEF ClassBytes, Classes
      <4> QED
        BY <1>3, <1>4, <3>1, <4>2, <4>3
    <3>2. CASE x \in ToSet(cache[u][d]) /\ (u = t /\ d = idx => x \notin out)
      <4>1. x \in Run /\ x \notin out /\ Given(x)
        BY <1>20, <3>2
      <4>2. used'[x.owner][x] = used[x.owner][x]
        BY <1>21, <1>22, <4>1
      <4> QED
        BY <3>2, <4>2 DEF IInv, Roomy
    <3> QED
      BY <1>19, <3>1, <3>2
  <2> QED
    BY <2>1, <2>2 DEF Roomy
<1>27. Listed'
  <2>1. ASSUME NEW u \in Threads, NEW x \in Cached(u)'
        PROVE  stamp'[x] = x.owner /\ (phase'[u] # "running" => x \in late')
    <3>1. PICK d \in Classes : x \in ToSet(cache'[u][d])
      BY CachedMeansNext
    <3>2. CASE u = t /\ x = r
      BY <1>2, <1>3, <3>2
    <3>3. CASE x \in ToSet(cache[u][d]) /\ (u = t /\ d = idx => x \notin out)
      <4>1. x \in Run /\ x \in Cached(u) /\ x \notin out /\ x # r
        BY <1>20, <3>3
      <4>2. stamp[x] = x.owner /\ (phase[u] # "running" => x \in late)
        BY <4>1 DEF IInv, Listed
      <4> QED
        BY <1>2, <4>1, <4>2
    <3> QED
      BY <1>19, <3>1, <3>2, <3>3
  <2> QED
    BY <1>19, <2>1 DEF Listed
<1>28. Bounded'
  <2>1. ASSUME NEW u \in Threads, NEW d \in Classes
        PROVE  /\ Len(cache'[u][d]) <= High + RefillBatch - 1
               /\ Cardinality(Foreign(u, d)') <= High
    <3>1. CASE u = t /\ d = idx
      <4>0. s \in Seq(Run) /\ Len(s) <= High
        BY <1>7, <1>8, <1>11
      <4>1. IsFiniteSet(ToSet(s)) /\ Cardinality(ToSet(s)) <= Len(s)
        BY <4>0, ListSize
      <4>2. Foreign(u, d)' \in SUBSET ToSet(s)
        BY <1>13, <3>1 DEF Foreign
      <4>3. IsFiniteSet(Foreign(u, d)') /\ Cardinality(Foreign(u, d)') <= Cardinality(ToSet(s))
        BY <4>1, <4>2, FS_Subset
      <4>4. Cardinality(Foreign(u, d)') \in Nat /\ Cardinality(ToSet(s)) \in Nat /\ Len(s) \in Nat
        BY <1>11, <4>1, <4>3, FS_CardinalityType
      <4>5. cache'[u][d] = s
        BY <1>13, <3>1
      <4> QED
        BY <1>7, <4>0, <4>1, <4>3, <4>4, <4>5
    <3>2. CASE u # t \/ d # idx
      <4>1. cache'[u][d] = cache[u][d] /\ Foreign(u, d)' = Foreign(u, d)
        BY <1>13, <3>2 DEF Foreign
      <4> QED
        BY <4>1 DEF IInv, Bounded
    <3> QED
      BY <3>1, <3>2
  <2>2. ASSUME NEW u \in Threads, call'[u].pc = "refill"
        PROVE  Len(cache'[u][ClassIndexFor(call'[u].bytes)])
                 <= High + RefillBatch - 1 - call'[u].left
    <3>1. u # t /\ call'[u] = call[u]
      BY <1>2, <2>2
    <3>2. ClassIndexFor(call[u].bytes) \in Classes
      BY <2>2, <3>1, InRefill
    <3>3. cache'[u][ClassIndexFor(call[u].bytes)] = cache[u][ClassIndexFor(call[u].bytes)]
      BY <1>13, <3>1, <3>2
    <3> QED
      BY <2>2, <3>1, <3>3 DEF IInv, Bounded
  <2> QED
    BY <2>1, <2>2 DEF Bounded
<1>29. InCall'
  <2> SUFFICES ASSUME NEW u \in Threads
        PROVE  LET c == call'[u]
               IN  /\ c.raw # Null <=> c.pc = "refill"
                   /\ c.pc = "refill" => /\ c.raw.owner = u /\ c.left \in 1 .. RefillBatch - 1
                                         /\ used'[u][c.raw] >= c.bytes
                   /\ c.pc # "idle" => /\ phase'[u] # "ended"
                                       /\ c.bytes \in Requests /\ Cacheable(c.bytes)
                   /\ c.pc \in {"retry", "last"} => Cached(u)' = {}
                   /\ phase'[u] = "ended" => DOMAIN held'[u] = {}
    BY DEF InCall
  <2>1. call'[u] = call[u] /\ phase'[u] = phase[u]
    BY <1>2
  <2>2. CASE u = t
    BY <1>2, <2>1, <2>2 DEF IInv, InCall
  <2>3. CASE u # t
    <3>1. Cached(u)' \subseteq Cached(u)
      <4>1. ASSUME NEW x \in Cached(u)' PROVE x \in Cached(u)
        <5>1. PICK d \in Classes : x \in ToSet(cache'[u][d])
          BY CachedMeansNext
        <5>2. x \in ToSet(cache[u][d])
          BY <1>13, <2>3, <5>1
        <5> QED
          BY <5>2, CachedMeans
      <4> QED
        BY <4>1
    <3>2. call[u].pc = "refill" => used'[u][call[u].raw] = used[u][call[u].raw]
      <4> SUFFICES ASSUME call[u].pc = "refill" PROVE used'[u][call[u].raw] = used[u][call[u].raw]
        OBVIOUS
      <4>1. /\ call[u].raw \in Run /\ call[u].raw.owner = u /\ Given(call[u].raw)
            /\ CallsOf(call[u].raw) = {u}
        BY InRefill
      <4>2. call[u].raw \notin out
        BY <1>17, <4>1
      <4> QED
        BY <1>21, <1>22, <4>1, <4>2
    <3>3. DOMAIN held'[u] = DOMAIN held[u]
      BY <1>16, <2>3
    <3> QED
      BY <2>1, <3>1, <3>2, <3>3 DEF IInv, InCall
  <2> QED
    BY <2>2, <2>3
<1> QED
  BY <1>23, <1>24, <1>25, <1>26, <1>27, <1>28, <1>29 DEF IInv

(* A step of the program that does not reach a cache.                      *)
LEMMA PastTheCache ==
  ASSUME IInv, UNCHANGED <<mode, phase, hasState, cache, stamp, late, call, lost>>,
         DOMAIN used' = Threads, parked' \in [Threads -> SUBSET Run], DOMAIN held' = Threads,
         \A s \in Threads : DOMAIN used'[s] \subseteq SlotsOf(s) /\ parked'[s] \subseteq SlotsOf(s),
         \A u \in Threads : \A x \in DOMAIN held'[u] :
            /\ x \in Run /\ phase[u] # "ended"
            /\ held'[u][x] \in 2 .. MaxBytes /\ used'[x.owner][x] >= held'[u][x],
         Placed', Sized',
         \A x \in Run : CallsOf(x) # {} \/ ClassesOf(x) # {} =>
            used'[x.owner][x] = used[x.owner][x]
  PROVE  IInv'
<1>1. /\ Listed' /\ \A u \in Threads : Cached(u)' = Cached(u)
      /\ \A x : ClassesOf(x)' = ClassesOf(x)
      /\ \A u \in Threads, d \in Classes : /\ Len(cache'[u][d]) <= High + RefillBatch - 1
                                           /\ Cardinality(Foreign(u, d)') <= High
  BY ListsKept
<1>2. Types'
  <2>1. \A u \in Threads : DOMAIN held'[u] \subseteq Run
    OBVIOUS
  <2>2. /\ mode' \in Modes /\ phase' \in [Threads -> {"running", "flushed", "ended"}]
        /\ hasState' \in [Threads -> BOOLEAN] /\ stamp' \in [Run -> Threads \cup {Null}]
        /\ cache' \in [Threads -> [Classes -> Seq(Run)]] /\ call' \in [Threads -> Calls]
        /\ lost' \subseteq Run /\ late' \subseteq Run
    BY DEF IInv, Types
  <2> QED
    BY <2>1, <2>2 DEF Types
<1>3. Roomy'
  <2>1. ASSUME NEW u \in Threads, NEW d \in Classes, NEW x \in ToSet(cache[u][d])
        PROVE  used'[x.owner][x] >= ClassBytes(d)
    <3>1. x \in Run /\ ClassesOf(x) # {}
      BY CachedRun
    <3>2. used'[x.owner][x] = used[x.owner][x]
      BY <3>1
    <3> QED
      BY <3>2 DEF IInv, Roomy
  <2> QED
    BY <2>1 DEF Roomy
<1>4. Bounded'
  BY <1>1 DEF IInv, Bounded
<1>5. InCall'
  <2> SUFFICES ASSUME NEW u \in Threads
        PROVE  LET c == call[u]
               IN  /\ c.raw # Null <=> c.pc = "refill"
                   /\ c.pc = "refill" => /\ c.raw.owner = u /\ c.left \in 1 .. RefillBatch - 1
                                         /\ used'[u][c.raw] >= c.bytes
                   /\ c.pc # "idle" => /\ phase[u] # "ended"
                                       /\ c.bytes \in Requests /\ Cacheable(c.bytes)
                   /\ c.pc \in {"retry", "last"} => Cached(u)' = {}
                   /\ phase[u] = "ended" => DOMAIN held'[u] = {}
    BY DEF InCall
  <2>1. call[u].pc = "refill" => used'[u][call[u].raw] = used[u][call[u].raw]
    <3> SUFFICES ASSUME call[u].pc = "refill" PROVE used'[u][call[u].raw] = used[u][call[u].raw]
      OBVIOUS
    <3>1. call[u].raw \in Run /\ call[u].raw.owner = u /\ CallsOf(call[u].raw) = {u}
      BY InRefill
    <3> QED
      BY <3>1
  <2>2. phase[u] = "ended" => DOMAIN held'[u] = {}
    OBVIOUS
  <2> QED
    BY <1>1, <2>1, <2>2 DEF IInv, InCall
<1> QED
  BY <1>1, <1>2, <1>3, <1>4, <1>5 DEF IInv

(* A large run goes to its runner, or to the runner's stack.               *)
LEMMA DeallocateLargeKeeps ==
  ASSUME IInv, NEW t \in Threads, NEW r \in DOMAIN held[t], DeallocateLarge(t, r)
  PROVE  IInv'
<1>1. /\ r \in Run /\ r.owner \in Threads /\ Given(r) /\ hasState[r.owner]
      /\ HeldBy(r) = {t} /\ CallsOf(r) = {} /\ ClassesOf(r) = {} /\ StacksOf(r) = {}
      /\ r \notin lost
      /\ held[t][r] \in Nat /\ held[t][r] \in 2 .. MaxBytes
      /\ used[r.owner][r] \in 0 .. MaxBytes /\ held[t][r] <= used[r.owner][r]
      /\ PayloadFor(held[t][r]) <= used[r.owner][r]
  BY HeldRun
<1>2. /\ IF hasState[t] /\ r.owner = t
         THEN used' = [used EXCEPT ![t] = Without(used[t], {r})] /\ UNCHANGED parked
         ELSE parked' = [parked EXCEPT ![r.owner] = parked[r.owner] \cup {r}] /\ UNCHANGED used
      /\ Drop(t, r)
      /\ UNCHANGED <<mode, phase, hasState, cache, stamp, call, lost, late>>
  BY DEF DeallocateLarge
<1>3. Types
  BY DEF IInv
<1>4. /\ DOMAIN held' = Threads
      /\ \A u \in Threads : /\ DOMAIN held'[u] = IF u = t THEN DOMAIN held[u] \ {r}
                                                 ELSE DOMAIN held[u]
                            /\ \A x \in DOMAIN held'[u] : held'[u][x] = held[u][x]
      /\ \A x : HeldBy(x)' = IF x = r THEN HeldBy(x) \ {t} ELSE HeldBy(x)
  BY <1>1, <1>2, <1>3, DropPlaces
<1>5. /\ DOMAIN Without(used[t], {r}) = DOMAIN used[t] \ {r}
      /\ \A x \in DOMAIN used[t] \ {r} : Without(used[t], {r})[x] = used[t][x]
  BY DEF Without
<1>6. /\ DOMAIN used = Threads /\ parked \in [Threads -> SUBSET Run]
      /\ \A s \in Threads : DOMAIN used[s] \subseteq SlotsOf(s) /\ parked[s] \subseteq SlotsOf(s)
  BY <1>3 DEF Types
<1>7. /\ DOMAIN used' = Threads /\ parked' \in [Threads -> SUBSET Run]
      /\ \A s \in Threads : /\ DOMAIN used'[s] = IF s = t /\ r.owner = t THEN DOMAIN used[s] \ {r}
                                                 ELSE DOMAIN used[s]
                            /\ \A x \in DOMAIN used'[s] : used'[s][x] = used[s][x]
                            /\ parked'[s] = IF s = r.owner /\ r.owner # t THEN parked[s] \cup {r}
                                            ELSE parked[s]
  <2>1. CASE r.owner = t
    <3>1. used' = [used EXCEPT ![t] = Without(used[t], {r})] /\ UNCHANGED parked
      BY <1>1, <1>2, <2>1
    <3>2. DOMAIN used' = Threads
          /\ \A s \in Threads : used'[s] = IF s = t THEN Without(used[t], {r}) ELSE used[s]
      BY <1>6, <3>1
    <3>3. \A s \in Threads : /\ DOMAIN used'[s] = IF s = t THEN DOMAIN used[s] \ {r}
                                                  ELSE DOMAIN used[s]
                             /\ \A x \in DOMAIN used'[s] : used'[s][x] = used[s][x]
      BY <1>5, <3>2
    <3> QED
      BY <1>6, <2>1, <3>1, <3>2, <3>3
  <2>2. CASE r.owner # t
    <3>1. parked' = [parked EXCEPT ![r.owner] = parked[r.owner] \cup {r}] /\ UNCHANGED used
      BY <1>2, <2>2
    <3> QED
      BY <1>1, <1>6, <2>2, <3>1
  <2> QED
    BY <2>1, <2>2
<1>8. ASSUME NEW s \in Threads
      PROVE  DOMAIN used'[s] \subseteq SlotsOf(s) /\ parked'[s] \subseteq SlotsOf(s)
  <2>1. r \in SlotsOf(r.owner)
    BY <1>1, OwnSlots
  <2>2. DOMAIN used'[s] \subseteq DOMAIN used[s]
    BY <1>7
  <2>3. parked'[s] = IF s = r.owner /\ r.owner # t THEN parked[s] \cup {r} ELSE parked[s]
    BY <1>7, Zenon
  <2>4. DOMAIN used[s] \subseteq SlotsOf(s) /\ parked[s] \subseteq SlotsOf(s)
    BY <1>6
  <2> QED
    BY <2>1, <2>2, <2>3, <2>4
<1>9. \A x \in Run : Given(x)' => Given(x) /\ used'[x.owner][x] = used[x.owner][x]
  BY <1>7 DEF Given, Run
<1>10. ASSUME NEW x \in Run, x # r
       PROVE  (Given(x)' <=> Given(x)) /\ StacksOf(x)' = StacksOf(x)
  <2>1. x.owner \in Threads
    BY DEF Run
  <2>2. Given(x)' <=> Given(x)
    <3>1. DOMAIN used'[x.owner] = IF x.owner = t /\ r.owner = t THEN DOMAIN used[x.owner] \ {r}
                                  ELSE DOMAIN used[x.owner]
      BY <1>7, <2>1, Zenon
    <3> QED
      BY <1>10, <3>1 DEF Given
  <2>3. \A s \in Threads : x \in parked'[s] <=> x \in parked[s]
    <3>1. \A s \in Threads : parked'[s] = IF s = r.owner /\ r.owner # t THEN parked[s] \cup {r}
                                            ELSE parked[s]
      BY <1>7, Zenon
    <3> QED
      BY <1>10, <3>1
  <2> QED
    BY <2>2, <2>3 DEF StacksOf
<1>11. Placed'
  <2> SUFFICES ASSUME NEW x \in Run PROVE Right(x)'
    BY DEF Placed
  <2>1. /\ CallsOf(x)' = CallsOf(x) /\ ClassesOf(x)' = ClassesOf(x)
        /\ ((x \in lost') <=> x \in lost)
    BY <1>2 DEF CallsOf, ClassesOf
  <2>2. CASE x = r
    <3>1. HeldBy(x)' = {}
      BY <1>1, <1>4, <2>2
    <3>2. CASE r.owner = t
      <4>1. ~ Given(x)' /\ StacksOf(x)' = {}
        <5>1. ~ Given(x)'
          BY <1>7, <2>2, <3>2 DEF Given
        <5>2. \A s \in Threads : parked'[s] = parked[s]
          BY <1>7, <3>2
        <5> QED
          BY <1>1, <2>2, <5>1, <5>2 DEF StacksOf
      <4> QED
        BY <1>1, <2>1, <2>2, <3>1, <4>1 DEF Right, Nowhere
    <3>3. CASE r.owner # t
      <4>1. Given(x)'
        BY <1>1, <1>7, <2>2, <3>3 DEF Given
      <4>2. StacksOf(x)' = {r.owner}
        BY <1>1, <1>7, <2>2, <3>3 DEF StacksOf
      <4> QED
        BY <1>1, <2>1, <2>2, <3>1, <4>1, <4>2 DEF Right, Somewhere, Exactly, Alone
    <3> QED
      BY <3>2, <3>3
  <2>3. CASE x # r
    <3>1. (Given(x)' <=> Given(x)) /\ StacksOf(x)' = StacksOf(x) /\ HeldBy(x)' = HeldBy(x)
      <4>1. HeldBy(x)' = HeldBy(x)
        BY <1>4, <2>3, Zenon
      <4> QED
        BY <1>10, <2>3, <4>1
    <3> QED
      BY <2>1, <3>1, StaysRight DEF IInv
  <2> QED
    BY <2>2, <2>3
<1>12. Sized'
  BY <1>2, <1>9 DEF IInv, Sized
<1>13. ASSUME NEW u \in Threads, NEW x \in DOMAIN held'[u]
       PROVE  /\ x \in Run /\ phase[u] # "ended"
              /\ held'[u][x] \in 2 .. MaxBytes /\ used'[x.owner][x] >= held'[u][x]
  <2>1. x \in DOMAIN held[u] /\ held'[u][x] = held[u][x]
    BY <1>4
  <2>2. x \in Run /\ Given(x) /\ HeldBy(x) = {u}
    BY <2>1, HeldRun
  <2>3. x # r
    <3>1. DOMAIN held'[u] = IF u = t THEN DOMAIN held[u] \ {r} ELSE DOMAIN held[u]
      BY <1>4, Zenon
    <3>2. x = r => u = t
      BY <1>1, <2>2
    <3> QED
      BY <3>1, <3>2
  <2>4. used'[x.owner][x] = used[x.owner][x]
    BY <1>9, <1>10, <2>2, <2>3
  <2>5. phase[u] # "ended"
    BY <2>1 DEF IInv, InCall
  <2> QED
    BY <2>1, <2>2, <2>4, <2>5 DEF IInv, Roomy
<1>14. ASSUME NEW x \in Run, CallsOf(x) # {} \/ ClassesOf(x) # {}
       PROVE  used'[x.owner][x] = used[x.owner][x]
  <2>1. Given(x) /\ x # r
    BY <1>1, <1>14, OnlyPlace DEF IInv
  <2> QED
    BY <1>9, <1>10, <2>1
<1> QED
  BY <1>2, <1>4, <1>7, <1>8, <1>11, <1>12, <1>13, <1>14, PastTheCache

(* A run grows where it is.                                                *)
LEMMA ExpandKeeps ==
  ASSUME IInv, NEW t \in Threads, NEW r \in DOMAIN held[t], NEW b \in Requests, Expand(t, r, b)
  PROVE  IInv'
<1>1. /\ r \in Run /\ r.owner \in Threads /\ Given(r) /\ hasState[r.owner]
      /\ HeldBy(r) = {t} /\ CallsOf(r) = {} /\ ClassesOf(r) = {} /\ StacksOf(r) = {}
      /\ r \notin lost
      /\ held[t][r] \in Nat /\ held[t][r] \in 2 .. MaxBytes
      /\ used[r.owner][r] \in 0 .. MaxBytes /\ held[t][r] <= used[r.owner][r]
      /\ PayloadFor(held[t][r]) <= used[r.owner][r]
  BY HeldRun
<1>2. /\ r.owner = t /\ Hold(t, r, b) /\ phase[t] # "ended"
      /\ used' = [used EXCEPT ![t][r] = IF b > @ THEN PayloadFor(b) ELSE @]
      /\ UNCHANGED <<mode, phase, hasState, parked, cache, stamp, call, lost, late>>
  BY DEF Expand
<1>3. Types
  BY DEF IInv
<1>4. /\ DOMAIN held' = Threads
      /\ \A u \in Threads : DOMAIN held'[u] = IF u = t THEN DOMAIN held[u] \cup {r}
                                              ELSE DOMAIN held[u]
      /\ held'[t][r] = b
      /\ \A u \in Threads : \A x \in DOMAIN held[u] :
            (u = t /\ x = r) \/ held'[u][x] = held[u][x]
      /\ \A x : HeldBy(x)' = IF x = r THEN HeldBy(x) \cup {t} ELSE HeldBy(x)
  <2>1. HeldGains(t, r, b)
    BY <1>1, <1>2, <1>3, HoldPlaces
  <2> QED
    BY <2>1 DEF HeldGains
<1>5. /\ DOMAIN used = Threads /\ parked \in [Threads -> SUBSET Run]
      /\ \A s \in Threads : DOMAIN used[s] \subseteq SlotsOf(s) /\ parked[s] \subseteq SlotsOf(s)
  BY <1>3 DEF Types
<1>6. r \in DOMAIN used[t]
  BY <1>1, <1>2 DEF Given
<1>7. /\ DOMAIN used' = Threads
      /\ \A s \in Threads : /\ DOMAIN used'[s] = DOMAIN used[s]
                            /\ \A x : s # t \/ x # r => used'[s][x] = used[s][x]
      /\ used'[t][r] = IF b > used[t][r] THEN PayloadFor(b) ELSE used[t][r]
  BY <1>2, <1>5, <1>6
<1>8. b \in Nat /\ b \in 2 .. MaxBytes /\ b >= 1 /\ b <= MaxBytes
  BY RequestSize
<1>9. PayloadFor(b) \in 0 .. MaxBytes /\ PayloadFor(b) % Quantum = 0 /\ b <= PayloadFor(b)
  BY <1>8, ClassSizes, PayloadFits
<1>10. used[t][r] \in 0 .. MaxBytes /\ used[t][r] % Quantum = 0 /\ hasState[t]
  BY <1>1, <1>2 DEF IInv, Sized
<1>11. used'[t][r] \in 0 .. MaxBytes /\ used'[t][r] % Quantum = 0 /\ used'[t][r] >= b
  BY <1>7, <1>8, <1>9, <1>10
<1>12. ASSUME NEW x \in Run
       PROVE  /\ Given(x)' <=> Given(x)
              /\ x # r => used'[x.owner][x] = used[x.owner][x]
  <2>1. x.owner \in Threads
    BY DEF Run
  <2> QED
    BY <1>7, <2>1 DEF Given
<1>13. \A x : HeldBy(x)' = HeldBy(x)
  BY <1>1, <1>4
<1>14. Placed'
  <2> SUFFICES ASSUME NEW x \in Run PROVE Right(x)'
    BY DEF Placed
  <2>1. /\ CallsOf(x)' = CallsOf(x) /\ ClassesOf(x)' = ClassesOf(x) /\ StacksOf(x)' = StacksOf(x)
        /\ ((x \in lost') <=> x \in lost)
    BY <1>2 DEF CallsOf, ClassesOf, StacksOf
  <2> QED
    BY <1>12, <1>13, <2>1, StaysRight DEF IInv
<1>15. Sized'
  <2> SUFFICES ASSUME NEW x \in Run, Given(x)'
               PROVE  /\ used'[x.owner][x] \in 0 .. MaxBytes
                      /\ used'[x.owner][x] % Quantum = 0
                      /\ hasState'[x.owner]
    BY DEF Sized
  <2>1. CASE x = r
    BY <1>2, <1>10, <1>11, <2>1
  <2>2. CASE x # r
    BY <1>2, <1>12, <2>2 DEF IInv, Sized
  <2> QED
    BY <2>1, <2>2
<1>16. ASSUME NEW u \in Threads, NEW x \in DOMAIN held'[u]
       PROVE  /\ x \in Run /\ phase[u] # "ended"
              /\ held'[u][x] \in 2 .. MaxBytes /\ used'[x.owner][x] >= held'[u][x]
  <2>1. CASE x = r
    <3>1. u = t
      <4>1. u \in HeldBy(x)'
        BY DEF HeldBy
      <4> QED
        BY <1>1, <1>13, <2>1, <4>1
    <3> QED
      BY <1>1, <1>2, <1>4, <1>8, <1>11, <2>1, <3>1
  <2>2. CASE x # r
    <3>1. x \in DOMAIN held[u] /\ held'[u][x] = held[u][x]
      BY <1>4, <2>2
    <3>2. x \in Run /\ phase[u] # "ended"
      BY <1>3, <3>1 DEF IInv, InCall, Types
    <3> QED
      BY <1>12, <2>2, <3>1, <3>2 DEF IInv, Roomy
  <2> QED
    BY <2>1, <2>2
<1>17. ASSUME NEW x \in Run, CallsOf(x) # {} \/ ClassesOf(x) # {}
       PROVE  used'[x.owner][x] = used[x.owner][x]
  BY <1>1, <1>12, <1>17
<1>18. parked' \in [Threads -> SUBSET Run]
       /\ \A s \in Threads : DOMAIN used'[s] \subseteq SlotsOf(s) /\ parked'[s] \subseteq SlotsOf(s)
  BY <1>2, <1>5, <1>7
<1> QED
  BY <1>2, <1>4, <1>7, <1>14, <1>15, <1>16, <1>17, <1>18, PastTheCache

(* A run changes hands.                                                    *)
LEMMA HandoffKeeps ==
  ASSUME IInv, NEW t \in Threads, NEW v \in Threads, NEW r \in DOMAIN held[t], Handoff(t, v, r)
  PROVE  IInv'
<1>1. /\ r \in Run /\ r.owner \in Threads /\ Given(r) /\ hasState[r.owner]
      /\ HeldBy(r) = {t} /\ CallsOf(r) = {} /\ ClassesOf(r) = {} /\ StacksOf(r) = {}
      /\ r \notin lost
      /\ held[t][r] \in Nat /\ held[t][r] \in 2 .. MaxBytes
      /\ used[r.owner][r] \in 0 .. MaxBytes /\ held[t][r] <= used[r.owner][r]
      /\ PayloadFor(held[t][r]) <= used[r.owner][r]
  BY HeldRun
<1>2. /\ v # t /\ phase[v] # "ended"
      /\ held' = [held EXCEPT ![t] = Without(@, {r}), ![v] = With(@, r, held[t][r])]
      /\ UNCHANGED <<mode, phase, hasState, used, parked, cache, stamp, call, lost, late>>
  BY DEF Handoff
<1>3. Types
  BY DEF IInv
<1>4. /\ DOMAIN Without(held[t], {r}) = DOMAIN held[t] \ {r}
      /\ \A x \in DOMAIN held[t] \ {r} : Without(held[t], {r})[x] = held[t][x]
      /\ DOMAIN With(held[v], r, held[t][r]) = DOMAIN held[v] \cup {r}
      /\ With(held[v], r, held[t][r])[r] = held[t][r]
      /\ \A x \in DOMAIN held[v] \ {r} : With(held[v], r, held[t][r])[x] = held[v][x]
  BY DEF Without, With
<1>5. /\ DOMAIN held' = Threads
      /\ \A u \in Threads : held'[u] = IF u = t THEN Without(held[t], {r})
                                       ELSE IF u = v THEN With(held[v], r, held[t][r])
                                       ELSE held[u]
  BY <1>2, <1>3 DEF Types
<1>6. \A u \in Threads : \A x :
         x \in DOMAIN held'[u] <=> IF x = r THEN u = v ELSE x \in DOMAIN held[u]
  <2>1. \A u \in Threads : r \in DOMAIN held[u] => u = t
    BY <1>1 DEF HeldBy
  <2> QED
    BY <1>2, <1>4, <1>5, <2>1
<1>7. \A u \in Threads : \A x \in DOMAIN held'[u] :
         held'[u][x] = IF x = r THEN held[t][r] ELSE held[u][x]
  BY <1>2, <1>4, <1>5, <1>6
<1>8. HeldBy(r)' = {v} /\ \A x : x # r => HeldBy(x)' = HeldBy(x)
  BY <1>6 DEF HeldBy
<1>9. ASSUME NEW x \in Run
      PROVE  /\ Given(x)' <=> Given(x)
             /\ CallsOf(x)' = CallsOf(x) /\ ClassesOf(x)' = ClassesOf(x)
             /\ StacksOf(x)' = StacksOf(x) /\ ((x \in lost') <=> x \in lost)
  BY <1>2 DEF Given, CallsOf, ClassesOf, StacksOf
<1>10. Placed'
  <2> SUFFICES ASSUME NEW x \in Run PROVE Right(x)'
    BY DEF Placed
  <2>1. CASE x = r
    BY <1>1, <1>8, <1>9, <2>1 DEF Right, Somewhere, Exactly, Alone
  <2>2. CASE x # r
    BY <1>8, <1>9, <2>2, StaysRight DEF IInv
  <2> QED
    BY <2>1, <2>2
<1>11. Sized'
  BY <1>2, <1>9 DEF IInv, Sized
<1>12. ASSUME NEW u \in Threads, NEW x \in DOMAIN held'[u]
       PROVE  /\ x \in Run /\ phase[u] # "ended"
              /\ held'[u][x] \in 2 .. MaxBytes /\ used'[x.owner][x] >= held'[u][x]
  <2>1. CASE x = r
    <3>1. u = v /\ held'[u][x] = held[t][r]
      BY <1>6, <1>7, <2>1
    <3>2. used[r.owner][r] >= held[t][r]
      BY DEF IInv, Roomy
    <3> QED
      BY <1>1, <1>2, <2>1, <3>1, <3>2
  <2>2. CASE x # r
    <3>1. x \in DOMAIN held[u] /\ held'[u][x] = held[u][x]
      BY <1>6, <1>7, <2>2
    <3>2. x \in Run /\ phase[u] # "ended"
      BY <1>3, <3>1 DEF IInv, InCall, Types
    <3> QED
      BY <1>2, <3>1, <3>2 DEF IInv, Roomy
  <2> QED
    BY <2>1, <2>2
<1>13. /\ DOMAIN used' = Threads /\ parked' \in [Threads -> SUBSET Run]
       /\ \A s \in Threads : DOMAIN used'[s] \subseteq SlotsOf(s) /\ parked'[s] \subseteq SlotsOf(s)
       /\ \A x \in Run : used'[x.owner][x] = used[x.owner][x]
  BY <1>2, <1>3 DEF Types
<1> QED
  BY <1>2, <1>5, <1>10, <1>11, <1>12, <1>13, PastTheCache

(* A thread ends, holding nothing.                                         *)
LEMMA EndKeeps ==
  ASSUME IInv, NEW t \in Threads, End(t)
  PROVE  IInv'
<1>1. /\ phase[t] = "flushed" /\ call[t].pc = "idle" /\ DOMAIN held[t] = {}
      /\ phase' = [phase EXCEPT ![t] = "ended"]
      /\ UNCHANGED <<mode, hasState, used, parked, cache, stamp, held, call, lost, late>>
  BY DEF End
<1>2. phase \in [Threads -> {"running", "flushed", "ended"}]
  BY DEF IInv, Types
<1>3. /\ phase' \in [Threads -> {"running", "flushed", "ended"}] /\ phase'[t] = "ended"
      /\ \A u \in Threads : u # t => phase'[u] = phase[u]
  BY <1>1, <1>2
<1>4. Types' /\ Placed' /\ Sized' /\ Roomy'
  <2>1. Types'
    BY <1>1, <1>3 DEF IInv, Types
  <2>2. Sized' /\ Roomy'
    BY <1>1 DEF IInv, Sized, Given, Roomy
  <2>3. Placed'
    <3> SUFFICES ASSUME NEW x \in Run PROVE Right(x)'
      BY DEF Placed
    <3>1. /\ Given(x)' <=> Given(x)
          /\ HeldBy(x)' = HeldBy(x) /\ CallsOf(x)' = CallsOf(x) /\ ClassesOf(x)' = ClassesOf(x)
          /\ StacksOf(x)' = StacksOf(x) /\ ((x \in lost') <=> x \in lost)
      BY <1>1 DEF Given, HeldBy, CallsOf, ClassesOf, StacksOf
    <3> QED
      BY <3>1, StaysRight DEF IInv
  <2> QED
    BY <2>1, <2>2, <2>3
<1>5. \A u \in Threads : Cached(u)' = Cached(u)
  BY <1>1 DEF Cached, RunsIn
<1>6. Listed'
  <2>1. ASSUME NEW u \in Threads, phase'[u] # "running" PROVE phase[u] # "running"
    BY <1>1, <1>3, <2>1
  <2> QED
    BY <1>1, <1>5, <2>1 DEF IInv, Listed
<1>7. Bounded'
  <2>1. \A u \in Threads, d \in Classes : Foreign(u, d)' = Foreign(u, d)
    BY <1>1 DEF Foreign
  <2> QED
    BY <1>1, <2>1 DEF IInv, Bounded
<1>8. InCall'
  <2> SUFFICES ASSUME NEW u \in Threads
        PROVE  LET c == call'[u]
               IN  /\ c.raw # Null <=> c.pc = "refill"
                   /\ c.pc = "refill" => /\ c.raw.owner = u /\ c.left \in 1 .. RefillBatch - 1
                                         /\ used'[u][c.raw] >= c.bytes
                   /\ c.pc # "idle" => /\ phase'[u] # "ended"
                                       /\ c.bytes \in Requests /\ Cacheable(c.bytes)
                   /\ c.pc \in {"retry", "last"} => Cached(u)' = {}
                   /\ phase'[u] = "ended" => DOMAIN held'[u] = {}
    BY DEF InCall
  <2>1. CASE u = t
    BY <1>1, <1>5, <2>1 DEF IInv, InCall
  <2>2. CASE u # t
    BY <1>1, <1>3, <1>5, <2>2 DEF IInv, InCall
  <2> QED
    BY <2>1, <2>2
<1> QED
  BY <1>4, <1>6, <1>7, <1>8 DEF IInv

LEMMA NextInv == IInv /\ [Next]_vars => IInv'
<1> SUFFICES ASSUME IInv, [Next]_vars PROVE IInv'
  OBVIOUS
<1>1. CASE UNCHANGED vars
  <2>1. UNCHANGED <<mode, phase, hasState, used, parked, cache, stamp, held, call, lost, late>>
    BY <1>1 DEF vars
  <2>2. Types' /\ Sized' /\ Roomy'
    BY <2>1 DEF IInv, Types, Sized, Roomy, Given
  <2>3. /\ Listed' /\ \A u \in Threads : Cached(u)' = Cached(u)
        /\ \A x : ClassesOf(x)' = ClassesOf(x)
        /\ \A u \in Threads, d \in Classes : /\ Len(cache'[u][d]) <= High + RefillBatch - 1
                                             /\ Cardinality(Foreign(u, d)') <= High
    BY <2>1, ListsKept
  <2>4. Placed'
    <3> SUFFICES ASSUME NEW x \in Run PROVE Right(x)'
      BY DEF Placed
    <3>1. /\ Given(x)' <=> Given(x)
          /\ HeldBy(x)' = HeldBy(x) /\ CallsOf(x)' = CallsOf(x) /\ ClassesOf(x)' = ClassesOf(x)
          /\ StacksOf(x)' = StacksOf(x) /\ ((x \in lost') <=> x \in lost)
      BY <2>1 DEF Given, HeldBy, CallsOf, ClassesOf, StacksOf
    <3> QED
      BY <3>1, StaysRight DEF IInv
  <2>5. Bounded'
    BY <2>1, <2>3 DEF IInv, Bounded
  <2>6. InCall'
    BY <2>1, <2>3 DEF IInv, InCall
  <2> QED
    BY <2>2, <2>3, <2>4, <2>5, <2>6 DEF IInv
<1>2. CASE Next
  <2>1. PICK t \in Threads : Step(t)
    BY <1>2 DEF Next
  <2>2. ASSUME NEW b \in Requests,
               \/ AllocateHit(t, b) \/ AllocateMiss(t, b) \/ DrainAll(t, b)
               \/ ServeDirect(t, b) \/ AllocateFails(t, b)
        PROVE  IInv'
    BY <2>2, HitKeeps, MissKeeps, DrainAllKeeps, DirectKeeps, AllocateFailsKeeps
  <2>3. ASSUME Refill(t) \/ RefillThrows(t) \/ Retry(t) \/ RetryFails(t)
        PROVE  IInv'
    BY <2>3, RefillKeeps, RefillThrowsKeeps, RetryKeeps, RetryFailsKeeps
  <2>4. ASSUME NEW r \in DOMAIN held[t], Deallocate(t, r) \/ DeallocateLarge(t, r)
        PROVE  IInv'
    BY <2>4, DeallocateKeeps, DeallocateLargeKeeps
  <2>5. ASSUME NEW r \in DOMAIN held[t], NEW b \in Requests, Expand(t, r, b)
        PROVE  IInv'
    BY <2>5, ExpandKeeps
  <2>6. ASSUME NEW r \in DOMAIN held[t], NEW u \in Threads, Handoff(t, u, r)
        PROVE  IInv'
    BY <2>6, HandoffKeeps
  <2>7. ASSUME Flush(t) \/ End(t) PROVE IInv'
    BY <2>7, FlushKeeps, EndKeeps
  <2> QED
    BY <2>1, <2>2, <2>3, <2>4, <2>5, <2>6, <2>7 DEF Step
<1> QED
  BY <1>1, <1>2 DEF vars

(* In every reachable state each run is in one place, and what its place   *)
(* promises about it holds.                                                *)
THEOREM Invariance == Spec => []IInv
BY InitInv, NextInv, PTL DEF Spec

-----------------------------------------------------------------------------
LEMMA InHandMeans ==
  ASSUME NEW x \in Run
  PROVE  {t \in Threads : x \in InHand(t)} = HeldBy(x) \cup CallsOf(x)
BY NullAssumption DEF InHand, HeldBy, CallsOf

LEMMA Counts ==
  /\ Cardinality({}) = 0
  /\ \A S : Alone(S) => Cardinality(S) = 1
<1>1. ASSUME NEW S, Alone(S) PROVE Cardinality(S) = 1
  <2>1. PICK a \in S : S = {a}
    BY <1>1 DEF Alone
  <2> QED
    BY <2>1, FS_Singleton
<1> QED
  BY <1>1, FS_EmptySet

LEMMA TypesMean == IInv => TypeOK
<1> SUFFICES ASSUME IInv PROVE TypeOK
  OBVIOUS
<1>1. ASSUME NEW s \in Threads
      PROVE  /\ DOMAIN used[s] \subseteq SlotsOf(s)
             /\ \A r \in DOMAIN used[s] : used[s][r] \in 0 .. MaxBytes
  <2>1. DOMAIN used[s] \subseteq SlotsOf(s)
    BY DEF IInv, Types
  <2>2. ASSUME NEW r \in DOMAIN used[s] PROVE used[s][r] \in 0 .. MaxBytes
    <3>1. r \in Run /\ r.owner = s
      BY <2>1, OwnSlots
    <3> QED
      BY <3>1 DEF IInv, Sized, Given
  <2> QED
    BY <2>1, <2>2
<1>2. ASSUME NEW t \in Threads
      PROVE  /\ DOMAIN cache[t] = Classes
             /\ \A c \in Classes : ToSet(cache[t][c]) \subseteq Run
             /\ DOMAIN held[t] \subseteq Run
  <2>1. DOMAIN cache[t] = Classes /\ DOMAIN held[t] \subseteq Run
    BY DEF IInv, Types
  <2> QED
    BY <2>1, CachedRun
<1>3. call \in [Threads -> [pc : {"idle", "retry", "last", "refill"},
                           bytes : 0 .. MaxBytes, raw : Run \cup {Null},
                           left : 0 .. RefillBatch]]
  BY DEF IInv, Types, Calls
<1> QED
  BY <1>1, <1>2, <1>3 DEF TypeOK, IInv, Types

LEMMA OnePlace ==
  ASSUME IInv, NEW s \in Threads, NEW r \in DOMAIN used[s]
  PROVE  LET hands == {t \in Threads : r \in InHand(t)}
             caches == {tc \in Threads \X Classes : r \in ToSet(cache[tc[1]][tc[2]])}
             stacks == {t \in Threads : r \in parked[t]}
             gone == IF r \in lost THEN 1 ELSE 0
         IN  /\ Cardinality(hands) + Cardinality(caches) + Cardinality(stacks)
                  + gone = 1
             /\ \A tc \in caches : phase[tc[1]] = "ended" => r \in late
<1>1. r \in Run /\ r.owner = s
  <2>1. DOMAIN used[s] \subseteq SlotsOf(s)
    BY DEF IInv, Types
  <2> QED
    BY <2>1, OwnSlots
<1>2. {t \in Threads : r \in InHand(t)} = HeldBy(r) \cup CallsOf(r)
  BY <1>1, InHandMeans
<1>3. /\ {tc \in Threads \X Classes : r \in ToSet(cache[tc[1]][tc[2]])} = ClassesOf(r)
      /\ {t \in Threads : r \in parked[t]} = StacksOf(r)
  BY DEF ClassesOf, StacksOf
<1> DEFINE gone == IF r \in lost THEN 1 ELSE 0
<1>4. Exactly(HeldBy(r), CallsOf(r), ClassesOf(r), StacksOf(r), r \in lost)
  <2>1. Right(r) /\ Given(r)
    BY <1>1 DEF IInv, Placed, Given
  <2> QED
    BY <2>1 DEF Right, Somewhere
<1>5. Cardinality(HeldBy(r) \cup CallsOf(r)) + Cardinality(ClassesOf(r))
        + Cardinality(StacksOf(r)) + gone = 1
  <2> DEFINE A == HeldBy(r)
             B == CallsOf(r)
             C == ClassesOf(r)
             D == StacksOf(r)
  <2>1. CASE Alone(A) /\ B = {} /\ C = {} /\ D = {} /\ r \notin lost
    <3>1. A \cup B = A
      BY <2>1
    <3>2. Cardinality(A \cup B) = 1 /\ Cardinality(C) = 0 /\ Cardinality(D) = 0
      BY <2>1, <3>1, Counts
    <3> QED
      BY <2>1, <3>2
  <2>2. CASE A = {} /\ Alone(B) /\ C = {} /\ D = {} /\ r \notin lost
    <3>1. A \cup B = B
      BY <2>2
    <3>2. Cardinality(A \cup B) = 1 /\ Cardinality(C) = 0 /\ Cardinality(D) = 0
      BY <2>2, <3>1, Counts
    <3> QED
      BY <2>2, <3>2
  <2>3. CASE A = {} /\ B = {} /\ Alone(C) /\ D = {} /\ r \notin lost
    <3>1. A \cup B = {}
      BY <2>3
    <3>2. Cardinality(A \cup B) = 0 /\ Cardinality(C) = 1 /\ Cardinality(D) = 0
      BY <2>3, <3>1, Counts
    <3> QED
      BY <2>3, <3>2
  <2>4. CASE A = {} /\ B = {} /\ C = {} /\ Alone(D) /\ r \notin lost
    <3>1. A \cup B = {}
      BY <2>4
    <3>2. Cardinality(A \cup B) = 0 /\ Cardinality(C) = 0 /\ Cardinality(D) = 1
      BY <2>4, <3>1, Counts
    <3> QED
      BY <2>4, <3>2
  <2>5. CASE A = {} /\ B = {} /\ C = {} /\ D = {} /\ r \in lost
    <3>1. A \cup B = {}
      BY <2>5
    <3>2. Cardinality(A \cup B) = 0 /\ Cardinality(C) = 0 /\ Cardinality(D) = 0
      BY <2>5, <3>1, Counts
    <3> QED
      BY <2>5, <3>2
  <2> HIDE DEF A, B, C, D
  <2>6. Exactly(A, B, C, D, r \in lost)
    BY <1>4 DEF A, B, C, D
  <2> QED
    BY <2>1, <2>2, <2>3, <2>4, <2>5, <2>6, Zenon DEF A, B, C, D, Exactly
<1>6. ASSUME NEW tc \in ClassesOf(r), phase[tc[1]] = "ended" PROVE r \in late
  <2>1. tc[1] \in Threads /\ tc[2] \in Classes /\ r \in ToSet(cache[tc[1]][tc[2]])
    BY DEF ClassesOf
  <2>2. r \in Cached(tc[1])
    BY <2>1, CachedMeans
  <2> QED
    BY <1>6, <2>1, <2>2 DEF IInv, Listed
<1> QED
  BY <1>2, <1>3, <1>5, <1>6

LEMMA NothingBehind ==
  ASSUME IInv, NEW t \in Threads
  PROVE  /\ InHand(t) \cup Cached(t) \subseteq UNION {DOMAIN used[s] : s \in Threads}
         /\ parked[t] \subseteq DOMAIN used[t]
         /\ \A c \in Classes : IsInjective(cache[t][c])
<1>1. \A x \in Run : Given(x) => x \in UNION {DOMAIN used[s] : s \in Threads}
  BY DEF Given, Run
<1>2. ASSUME NEW x \in Cached(t) PROVE x \in Run /\ Given(x)
  <2>1. PICK c \in Classes : x \in ToSet(cache[t][c])
    BY CachedMeans
  <2> QED
    BY <2>1, CachedRun
<1>3. ASSUME NEW x \in InHand(t) PROVE x \in Run /\ Given(x)
  <2>1. CASE x \in DOMAIN held[t]
    BY <2>1, HeldRun
  <2>2. CASE x = call[t].raw /\ x # Null
    <3>1. call[t].pc = "refill"
      BY <2>2 DEF IInv, InCall
    <3> QED
      BY <2>2, <3>1, InRefill
  <2> QED
    BY <2>1, <2>2 DEF InHand
<1>4. ASSUME NEW x \in parked[t] PROVE x \in DOMAIN used[t]
  <2>1. x \in SlotsOf(t)
    BY DEF IInv, Types
  <2>2. x \in Run /\ x.owner = t
    BY <2>1, OwnSlots
  <2>3. t \in StacksOf(x)
    BY DEF StacksOf
  <2>4. Given(x)
    BY <2>2, <2>3, OnlyPlace DEF IInv
  <2> QED
    BY <2>2, <2>4 DEF Given
<1> QED
  BY <1>1, <1>2, <1>3, <1>4 DEF IInv, Listed

(* No run is in two hands and none is lost but by a throwing refill or a   *)
(* free after the destruction of the cache: through hits, refills, drains, *)
(* migrations, the flush at the end of a thread and refusals half way.     *)
THEOREM RunsNeverLost == Spec => []NoRunLost
<1>1. IInv => NoRunLost
  BY TypesMean, OnePlace, NothingBehind DEF NoRunLost
<1> QED
  BY <1>1, Invariance, PTL

(* Whatever size a run was obtained, expanded or freed with, the cache     *)
(* never hands it out for a request larger than its payload.               *)
THEOREM AlwaysRoomForRequest == Spec => []RoomForRequest
<1>1. IInv => RoomForRequest
  BY DEF IInv, Roomy, RoomForRequest
<1> QED
  BY <1>1, Invariance, PTL

(* A class holds at most the watermark and a refill, and at most the       *)
(* watermark of runs that belong to others.                                *)
THEOREM CacheAlwaysBounded == Spec => []CacheBounded
<1>1. IInv => CacheBounded
  BY DEF IInv, Bounded, Foreign, CacheBounded
<1> QED
  BY <1>1, Invariance, PTL

-----------------------------------------------------------------------------
LEMMA OwnRunner ==
  ASSUME IInv, NEW t \in Threads, Step(t), NEW s \in Threads, s # t
  PROVE  used'[s] = used[s]
<1>1. DOMAIN used = Threads
  BY DEF IInv, Types
<1>2. ASSUME NEW r, NEW b, RunnerAllocate(t, r, b) PROVE used'[s] = used[s]
  BY <1>1, <1>2 DEF RunnerAllocate
<1>3. ASSUME NEW runs, Return(t, runs) PROVE used'[s] = used[s]
  BY <1>1, <1>3 DEF Return
<1>4. ASSUME NEW b, Obtain(t, b) PROVE used'[s] = used[s]
  BY <1>2, <1>4 DEF Obtain
<1>5. ASSUME NEW b \in Requests,
             \/ AllocateHit(t, b) \/ AllocateMiss(t, b) \/ DrainAll(t, b)
             \/ ServeDirect(t, b) \/ AllocateFails(t, b)
      PROVE  used'[s] = used[s]
  <2>1. CASE AllocateHit(t, b)
    BY <2>1 DEF AllocateHit
  <2>2. CASE AllocateMiss(t, b)
    BY <1>4, <2>2 DEF AllocateMiss
  <2>3. CASE DrainAll(t, b)
    BY <1>3, <2>3 DEF DrainAll, TakeOut
  <2>4. CASE ServeDirect(t, b)
    BY <1>2, <2>4 DEF ServeDirect
  <2>5. CASE AllocateFails(t, b)
    BY <2>5 DEF AllocateFails
  <2> QED
    BY <1>5, <2>1, <2>2, <2>3, <2>4, <2>5
<1>6. ASSUME Refill(t) \/ RefillThrows(t) \/ Retry(t) \/ RetryFails(t)
      PROVE  used'[s] = used[s]
  <2>1. CASE Refill(t)
    BY <1>2, <2>1 DEF Refill
  <2>2. CASE Retry(t)
    BY <1>4, <2>2 DEF Retry
  <2>3. CASE RefillThrows(t) \/ RetryFails(t)
    BY <2>3 DEF RefillThrows, RetryFails, RunnerFails
  <2> QED
    BY <1>6, <2>1, <2>2, <2>3
<1>7. ASSUME NEW r \in DOMAIN held[t], Deallocate(t, r) \/ DeallocateLarge(t, r)
      PROVE  used'[s] = used[s]
  <2>1. CASE Deallocate(t, r)
    BY <1>3, <2>1 DEF Deallocate
  <2>2. CASE DeallocateLarge(t, r)
    BY <1>1, <2>2 DEF DeallocateLarge
  <2> QED
    BY <1>7, <2>1, <2>2
<1>8. ASSUME NEW r \in DOMAIN held[t], NEW b \in Requests, Expand(t, r, b)
      PROVE  used'[s] = used[s]
  BY <1>1, <1>8 DEF Expand
<1>9. ASSUME NEW r \in DOMAIN held[t], NEW u \in Threads, Handoff(t, u, r)
      PROVE  used'[s] = used[s]
  BY <1>9 DEF Handoff
<1>10. ASSUME Flush(t) \/ End(t) PROVE used'[s] = used[s]
  BY <1>3, <1>10 DEF Flush, End, TakeOut
<1> QED
  BY <1>5, <1>6, <1>7, <1>8, <1>9, <1>10 DEF Step

(* A runner's record of the runs it has given out is changed by its own    *)
(* thread alone, whoever frees, drains or ends.                            *)
THEOREM OnlyTheOwner == Spec => OwnerOnly
<1>1. IInv /\ [Next]_vars =>
        [\A s \in Threads : used'[s] # used[s] => \A t \in Threads \ {s} : ~Step(t)]_vars
  BY OwnRunner
<1> QED
  BY <1>1, Invariance, PTL DEF Spec, OwnerOnly

LEMMA NothingLeft ==
  ASSUME IInv, NEW t \in Threads, ~ CanServe(t)
  PROVE  DOMAIN used[t] = SlotsOf(t) /\ parked[t] = {}
<1>1. DOMAIN UsedAfterDrain(t) = SlotsOf(t)
  BY DEF CanServe
<1>2. parked[t] \subseteq SlotsOf(t)
  BY DEF IInv, Types
<1>3. Drains(t)
  BY <1>1 DEF UsedAfterDrain, Drains
<1>4. DOMAIN Without(used[t], parked[t]) = DOMAIN used[t] \ parked[t]
  BY DEF Without
<1> QED
  BY <1>1, <1>2, <1>3, <1>4 DEF UsedAfterDrain, Drains

(* Where a runner that may not grow refuses a request, of whatever size,   *)
(* it has nothing free and nothing on its stack; where the request may be  *)
(* cached, the cache of the thread is empty too.                           *)
THEOREM FailuresAreHonest == Spec => []FailureIsHonest
<1>1. ASSUME IInv, NEW t \in Threads, NEW bytes \in Requests,
             mode = "fixed", Refused(t, bytes)
      PROVE  /\ DOMAIN used[t] = SlotsOf(t) /\ parked[t] = {}
             /\ Cacheable(bytes) => Cached(t) = {}
  <2>1. ~ CanServe(t)
    BY <1>1 DEF Refused
  <2>2. Cacheable(bytes) => call[t].pc = "last"
    BY <1>1 DEF Refused
  <2>3. call[t].pc = "last" => Cached(t) = {}
    BY <1>1 DEF IInv, InCall
  <2> QED
    BY <1>1, <2>1, <2>2, <2>3, NothingLeft
<1>2. IInv => FailureIsHonest
  BY <1>1 DEF FailureIsHonest
<1> QED
  BY <1>2, Invariance, PTL

-----------------------------------------------------------------------------
(* The refinement of AllocatorContract.                                    *)

LEMMA InHands ==
  ASSUME Types
  PROVE  /\ Hands \in [Threads -> SUBSET Run] /\ DOMAIN Origins = Run
         /\ \A u \in Threads : Hands[u] = DOMAIN held[u]
         /\ \A x \in Run : Origins[x] = IF Given(x) THEN x.owner ELSE Null
  BY DEF Types, Hands, Origins, Given

LEMMA InHandsNext ==
  ASSUME Types'
  PROVE  /\ Hands' \in [Threads -> SUBSET Run] /\ DOMAIN Origins' = Run
         /\ \A u \in Threads : Hands'[u] = DOMAIN held'[u]
         /\ \A x \in Run : Origins'[x] = IF Given(x)' THEN x.owner ELSE Null
<1>1. \A u \in Threads : DOMAIN held'[u] \subseteq Run
  BY DEF Types
<1> QED
  BY <1>1 DEF Hands, Origins, Given

LEMMA UseMeans ==
  ASSUME NEW x
  PROVE  x \in Contract!InUse <=> \E u \in Threads : x \in Hands[u]
  BY DEF Contract!InUse

(* A run in somebody's hands is given out, and in nobody else's.           *)
LEMMA HeldOnce ==
  ASSUME Placed, NEW u \in Threads, NEW x \in Run, x \in DOMAIN held[u]
  PROVE  Given(x) /\ \A v \in Threads : x \in DOMAIN held[v] => v = u
<1>1. u \in HeldBy(x) /\ \A v \in Threads : x \in DOMAIN held[v] => v \in HeldBy(x)
  BY DEF HeldBy
<1>2. Given(x) /\ HeldBy(x) = {u}
  BY <1>1, OnlyPlace
<1> QED
  BY <1>1, <1>2

LEMMA HeldOnceNext ==
  ASSUME Placed', NEW u \in Threads, NEW x \in Run, x \in DOMAIN held'[u]
  PROVE  Given(x)' /\ \A v \in Threads : x \in DOMAIN held'[v] => v = u
<1>1. u \in HeldBy(x)' /\ \A v \in Threads : x \in DOMAIN held'[v] => v \in HeldBy(x)'
  BY DEF HeldBy
<1>2. Right(x)'
  BY DEF Placed
<1>3. Given(x)' /\ \E a \in HeldBy(x)' : HeldBy(x)' = {a}
  BY <1>1, <1>2 DEF Right, Somewhere, Nowhere, Exactly, Alone
<1> QED
  BY <1>1, <1>3

(* A thread changes the records of its own runner only, and what is in     *)
(* somebody's hands before and after is in the records both times.         *)
LEMMA OwnWork ==
  ASSUME IInv, IInv', NEW t \in Threads, Step(t),
         \A u \in Threads \ {t} : DOMAIN held[u] \subseteq DOMAIN held'[u]
  PROVE  Contract!Works(t)
<1>1. Types /\ Types' /\ Placed /\ Placed'
  BY DEF IInv
<1> SUFFICES ASSUME NEW x \in Run, Origins'[x] # Origins[x]
             PROVE  /\ {Origins[x], Origins'[x]} \subseteq {t, Null}
                    /\ x \notin Contract!InUse \/ x \in Hands[t] \ Hands'[t]
  BY DEF Contract!Works
<1>2. /\ Origins[x] = IF Given(x) THEN x.owner ELSE Null
      /\ Origins'[x] = IF Given(x)' THEN x.owner ELSE Null
  BY <1>1, InHands, InHandsNext
<1>3. x.owner = t
  <2>1. x.owner \in Threads
    BY DEF Run
  <2>2. CASE x.owner # t
    <3>1. used'[x.owner] = used[x.owner]
      BY <2>1, <2>2, OwnRunner
    <3> QED
      BY <1>2, <3>1 DEF Given
  <2> QED
    BY <2>2
<1>4. ASSUME NEW u \in Threads, x \in Hands[u]
      PROVE  u = t /\ x \notin Hands'[t]
  <2>1. x \in DOMAIN held[u]
    BY <1>1, <1>4, InHands
  <2>2. Given(x)
    BY <1>1, <2>1, HeldOnce
  <2>3. ~ Given(x)'
    BY <1>2, <2>2
  <2>4. \A v \in Threads : x \notin DOMAIN held'[v]
    BY <1>1, <2>3, HeldOnceNext
  <2>5. u = t
    BY <2>1, <2>4
  <2> QED
    BY <1>1, <2>4, <2>5, InHandsNext
<1> QED
  BY <1>2, <1>3, <1>4, UseMeans

(* Sets of runs by thread that differ at one thread.                       *)
LEMMA HandsDiffer ==
  ASSUME NEW f \in [Threads -> SUBSET Run], NEW g \in [Threads -> SUBSET Run],
         NEW t \in Threads, NEW A \in SUBSET Run, g[t] = A,
         \A u \in Threads \ {t} : g[u] = f[u]
  PROVE  g = [f EXCEPT ![t] = A]
  OBVIOUS

(* Refills, drains, flushes and calls that go on.                          *)
LEMMA Tends ==
  ASSUME IInv, IInv', NEW t \in Threads, Step(t),
         \A u \in Threads : DOMAIN held'[u] = DOMAIN held[u]
  PROVE  Contract!Next
<1>1. Types /\ Types'
  BY DEF IInv
<1>2. Hands' = Hands
  BY <1>1, InHands, InHandsNext
<1>3. Contract!Works(t)
  BY OwnWork
<1>4. Contract!Tend(t)
  BY <1>2, <1>3 DEF Contract!Tend
<1> QED
  BY <1>4 DEF Contract!Next

(* A run of its own that the thread's program gains, or has and widens.    *)
LEMMA Serves ==
  ASSUME IInv, IInv', NEW t \in Threads, Step(t), NEW r \in Run, NEW b,
         r.owner = t, Hold(t, r, b)
  PROVE  Contract!Next
<1>1. Types /\ Types' /\ Placed /\ Placed'
  BY DEF IInv
<1>2. \A u \in Threads : DOMAIN held'[u] = IF u = t THEN DOMAIN held[u] \cup {r}
                                           ELSE DOMAIN held[u]
  <2>1. HeldGains(t, r, b)
    BY <1>1, HoldPlaces
  <2> QED
    BY <2>1 DEF HeldGains
<1>3. CASE r \in DOMAIN held[t]
  <2>1. \A u \in Threads : DOMAIN held'[u] = DOMAIN held[u]
    BY <1>2, <1>3
  <2> QED
    BY <2>1, Tends
<1>4. CASE r \notin DOMAIN held[t]
  <2>1. r \in DOMAIN held'[t]
    BY <1>2
  <2>2. Given(r)' /\ \A u \in Threads : r \in DOMAIN held'[u] => u = t
    BY <1>1, <2>1, HeldOnceNext
  <2>3. \A u \in Threads : r \notin DOMAIN held[u]
    BY <1>2, <1>4, <2>2
  <2>4. r \notin Contract!InUse
    BY <1>1, <2>3, UseMeans, InHands
  <2>5. Origins'[r] = t
    BY <1>1, <2>2, InHandsNext
  <2>6. PICK A \in SUBSET Run : A = Hands[t] \cup {r}
    BY <1>1, InHands
  <2>7. Hands' = [Hands EXCEPT ![t] = A]
    <3>1. Hands'[t] = A /\ \A u \in Threads \ {t} : Hands'[u] = Hands[u]
      <4>1. \A u \in Threads : Hands[u] = DOMAIN held[u] /\ Hands'[u] = DOMAIN held'[u]
        BY <1>1, InHands, InHandsNext
      <4>2. DOMAIN held'[t] = DOMAIN held[t] \cup {r}
            /\ \A u \in Threads \ {t} : DOMAIN held'[u] = DOMAIN held[u]
        BY <1>2
      <4> QED
        BY <2>6, <4>1, <4>2
    <3>2. Hands \in [Threads -> SUBSET Run] /\ Hands' \in [Threads -> SUBSET Run]
      BY <1>1, InHands, InHandsNext
    <3> QED
      BY <3>1, <3>2, HandsDiffer
  <2>8. Contract!Works(t)
    BY <1>2, OwnWork
  <2>9. Contract!Serve(t, r)
    BY <2>5, <2>6, <2>7, <2>8 DEF Contract!Serve
  <2> QED
    BY <2>4, <2>9 DEF Contract!Next
<1> QED
  BY <1>3, <1>4

LEMMA GivesBack ==
  ASSUME IInv, IInv', NEW t \in Threads, Step(t), NEW r \in DOMAIN held[t], Drop(t, r)
  PROVE  Contract!Next
<1>1. Types /\ Types' /\ r \in Run
  BY DEF IInv, Types
<1>2. \A u \in Threads : DOMAIN held'[u] = IF u = t THEN DOMAIN held[u] \ {r}
                                           ELSE DOMAIN held[u]
  BY <1>1, DropPlaces
<1>3. PICK A \in SUBSET Run : A = Hands[t] \ {r}
  BY <1>1, InHands
<1>4. Hands' = [Hands EXCEPT ![t] = A]
  <2>1. Hands'[t] = A /\ \A u \in Threads \ {t} : Hands'[u] = Hands[u]
    <3>1. \A u \in Threads : Hands[u] = DOMAIN held[u] /\ Hands'[u] = DOMAIN held'[u]
      BY <1>1, InHands, InHandsNext
    <3>2. DOMAIN held'[t] = DOMAIN held[t] \ {r}
          /\ \A u \in Threads \ {t} : DOMAIN held'[u] = DOMAIN held[u]
      BY <1>2
    <3> QED
      BY <1>3, <3>1, <3>2
  <2>2. Hands \in [Threads -> SUBSET Run] /\ Hands' \in [Threads -> SUBSET Run]
    BY <1>1, InHands, InHandsNext
  <2> QED
    BY <2>1, <2>2, HandsDiffer
<1>5. Contract!Works(t)
  BY <1>2, OwnWork
<1>6. r \in Hands[t]
  BY <1>1, InHands
<1>7. Contract!GiveBack(t, r)
  BY <1>3, <1>4, <1>5 DEF Contract!GiveBack
<1> QED
  BY <1>6, <1>7 DEF Contract!Next

LEMMA Passes ==
  ASSUME IInv, IInv', NEW t \in Threads, NEW u \in Threads, NEW r \in DOMAIN held[t],
         Handoff(t, u, r)
  PROVE  Contract!Next
<1>1. Types /\ Types' /\ r \in Run
  BY DEF IInv, Types
<1>2. /\ u # t /\ UNCHANGED used
      /\ held' = [held EXCEPT ![t] = Without(@, {r}), ![u] = With(@, r, held[t][r])]
  BY DEF Handoff
<1>3. /\ held'[t] = Without(held[t], {r})
      /\ held'[u] = With(held[u], r, held[t][r])
      /\ \A v \in Threads : v # t /\ v # u => held'[v] = held[v]
  BY <1>1, <1>2 DEF Types
<1>4. /\ DOMAIN held'[t] = DOMAIN held[t] \ {r}
      /\ DOMAIN held'[u] = DOMAIN held[u] \cup {r}
  BY <1>3 DEF With, Without
<1>5. Origins' = Origins
  BY <1>2 DEF Origins
<1>6. PICK A \in SUBSET Run, B \in SUBSET Run : A = Hands[t] \ {r} /\ B = Hands[u] \cup {r}
  BY <1>1, InHands
<1>7. PICK f \in [Threads -> SUBSET Run] : f = [Hands EXCEPT ![t] = A]
  BY <1>1, InHands
<1>8. f[u] = Hands[u] /\ f[t] = A /\ \A v \in Threads : v # t => f[v] = Hands[v]
  BY <1>1, <1>2, <1>7, InHands
<1>9. Hands' = [f EXCEPT ![u] = B]
  <2>1. Hands'[u] = B /\ \A v \in Threads \ {u} : Hands'[v] = f[v]
    <3>1. \A v \in Threads : Hands[v] = DOMAIN held[v] /\ Hands'[v] = DOMAIN held'[v]
      BY <1>1, InHands, InHandsNext
    <3>2. Hands'[u] = B /\ Hands'[t] = A
      BY <1>4, <1>6, <3>1
    <3>3. \A v \in Threads : v # t /\ v # u => Hands'[v] = f[v]
      BY <1>3, <1>8, <3>1
    <3> QED
      BY <1>8, <3>2, <3>3
  <2>2. Hands' \in [Threads -> SUBSET Run]
    BY <1>1, InHandsNext
  <2> QED
    BY <2>1, <2>2, HandsDiffer
<1>10. Hands' = [Hands EXCEPT ![t] = @ \ {r}, ![u] = @ \cup {r}]
  BY <1>6, <1>7, <1>8, <1>9
<1>11. r \in Hands[t]
  BY <1>1, InHands
<1>12. Contract!Pass(t, u, r)
  BY <1>5, <1>10 DEF Contract!Pass
<1> QED
  BY <1>11, <1>12 DEF Contract!Next

LEMMA CachedStamp ==
  ASSUME IInv, NEW t \in Threads, NEW c \in Classes, NEW x \in ToSet(cache[t][c])
  PROVE  x \in Run /\ stamp[x] = x.owner
  BY CachedRun

LEMMA HitSeen ==
  ASSUME IInv, IInv', NEW t \in Threads, Step(t), NEW b \in Requests, AllocateHit(t, b)
  PROVE  Contract!Next
<1> DEFINE idx == ClassIndexFor(b)
<1>1. PICK i \in Reusable(t, idx) : Hold(t, cache[t][idx][i], b)
  BY DEF AllocateHit
<1>2. idx \in Classes
  BY RequestSize, ClassSizes DEF AllocateHit
<1> HIDE DEF idx
<1>3. PICK r \in ToSet(cache[t][idx]) : r = cache[t][idx][i] /\ stamp[r] = t
  <2>1. cache[t][idx] \in Seq(Run) /\ i \in 1 .. Len(cache[t][idx])
    BY <1>2 DEF IInv, Types, Reusable
  <2> QED
    BY <2>1 DEF ToSet, Reusable
<1>4. r \in Run /\ r.owner = t
  <2>1. r \in Run /\ stamp[r] = r.owner
    BY <1>2, CachedStamp
  <2> QED
    BY <1>3, <2>1
<1> QED
  BY <1>1, <1>3, <1>4, Serves

LEMMA ObtainSeen ==
  ASSUME IInv, IInv', NEW t \in Threads, Step(t), NEW b, Obtain(t, b)
  PROVE  Contract!Next
<1>1. PICK r \in Run : /\ RunnerAllocate(t, r, ClassBytes(ClassIndexFor(b)))
                       /\ UNCHANGED held \/ Hold(t, r, b)
  BY DEF Obtain
<1>2. r.owner = t
  BY <1>1, Granted
<1>3. CASE UNCHANGED held
  BY <1>3, Tends
<1>4. CASE Hold(t, r, b)
  BY <1>2, <1>4, Serves
<1> QED
  BY <1>1, <1>3, <1>4

LEMMA ContractInit == Init => Contract!Init
<1> SUFFICES ASSUME Init PROVE Contract!Init
  OBVIOUS
<1>1. \A x \in Run : x \notin DOMAIN used[x.owner]
  <2>1. \A x \in Run : x.owner \in Threads
    BY DEF Run
  <2> QED
    BY <2>1 DEF Init
<1>2. \A t \in Threads : DOMAIN held[t] = {}
  BY DEF Init
<1> QED
  BY <1>1, <1>2 DEF Contract!Init, Hands, Origins

LEMMA ContractStep == IInv /\ IInv' /\ [Next]_vars => [Contract!Next]_(Contract!vars)
<1> SUFFICES ASSUME IInv, IInv', [Next]_vars
             PROVE  Contract!Next \/ UNCHANGED Contract!vars
  OBVIOUS
<1>1. CASE UNCHANGED vars
  BY <1>1 DEF vars, Contract!vars, Hands, Origins
<1>2. ASSUME NEW t \in Threads, Step(t) PROVE Contract!Next
  <2>1. ASSUME UNCHANGED held PROVE Contract!Next
    BY <1>2, <2>1, Tends
  <2>2. ASSUME NEW b \in Requests,
               AllocateHit(t, b) \/ AllocateMiss(t, b) \/ DrainAll(t, b)
        PROVE  Contract!Next
    <3>1. CASE AllocateHit(t, b)
      BY <1>2, <3>1, HitSeen
    <3>2. CASE AllocateMiss(t, b)
      BY <1>2, <3>2, ObtainSeen DEF AllocateMiss
    <3>3. CASE DrainAll(t, b)
      BY <2>1, <3>3 DEF DrainAll
    <3> QED
      BY <2>2, <3>1, <3>2, <3>3
  <2>3. ASSUME NEW b \in Requests, ServeDirect(t, b) PROVE Contract!Next
    <3>1. PICK r \in Run : RunnerAllocate(t, r, b) /\ Hold(t, r, b)
      BY <2>3 DEF ServeDirect
    <3>2. r.owner = t
      BY <3>1, Granted
    <3> QED
      BY <1>2, <3>1, <3>2, Serves
  <2>4. ASSUME Refill(t) PROVE Contract!Next
    <3>1. CASE UNCHANGED held
      BY <2>1, <3>1
    <3>2. CASE Hold(t, call[t].raw, call[t].bytes)
      <4>1. call[t].pc = "refill" /\ call[t] \in Calls
        BY <2>4 DEF Refill, IInv, Types
      <4>2. call[t].raw \in Run /\ call[t].raw.owner = t
        BY <4>1 DEF IInv, InCall, Calls
      <4> QED
        BY <1>2, <3>2, <4>2, Serves
    <3> QED
      BY <2>4, <3>1, <3>2 DEF Refill
  <2>5. ASSUME RefillThrows(t) \/ Retry(t) \/ RetryFails(t)
        PROVE  Contract!Next
    <3>1. CASE Retry(t)
      BY <1>2, <3>1, ObtainSeen DEF Retry
    <3>2. CASE RefillThrows(t) \/ RetryFails(t)
      BY <2>1, <3>2 DEF RefillThrows, RetryFails
    <3> QED
      BY <2>5, <3>1, <3>2
  <2>6. ASSUME NEW r \in DOMAIN held[t], Deallocate(t, r) \/ DeallocateLarge(t, r)
        PROVE  Contract!Next
    <3>1. Drop(t, r)
      BY <2>6 DEF Deallocate, DeallocateLarge
    <3> QED
      BY <1>2, <3>1, GivesBack
  <2>7. ASSUME NEW r \in DOMAIN held[t], NEW b \in Requests, Expand(t, r, b)
        PROVE  Contract!Next
    <3>1. r \in Run /\ r.owner = t /\ Hold(t, r, b)
      BY <2>7 DEF Expand, IInv, Types
    <3> QED
      BY <1>2, <3>1, Serves
  <2>8. ASSUME NEW r \in DOMAIN held[t], NEW u \in Threads, Handoff(t, u, r)
        PROVE  Contract!Next
    BY <2>8, Passes
  <2>9. ASSUME Flush(t) \/ End(t) PROVE Contract!Next
    BY <2>1, <2>9 DEF Flush, End
  <2>10. ASSUME NEW b \in Requests, AllocateFails(t, b) PROVE Contract!Next
    BY <2>1, <2>10 DEF AllocateFails
  <2> QED
    BY <1>2, <2>2, <2>3, <2>4, <2>5, <2>6, <2>7, <2>8, <2>9, <2>10 DEF Step
<1> QED
  BY <1>1, <1>2 DEF Next

(* Refills, foreign runs in caches, drains, expansions and flushes keep    *)
(* the contract: a run is in one program's hands, handed out by the thread *)
(* whose runner carved it, and unmade by that thread when nobody has it.   *)
THEOREM RunCacheImplementsContract == Spec => ContractSpec
<1>1. IInv /\ [Next]_vars => IInv'
  BY NextInv
<1>2. IInv /\ IInv' /\ [Next]_vars => [Contract!Next]_(Contract!vars)
  BY ContractStep
<1> QED
  BY <1>1, <1>2, ContractInit, Invariance, PTL DEF Spec, ContractSpec, Contract!Spec
=============================================================================

---------------------------- MODULE InitrdProofs ----------------------------
EXTENDS Initrd, WellFoundedInduction, TLAPS

(* The texts of the headers.  A stray one has its own, which the provers   *)
(* do not know to be in STRING.                                            *)
Texts == STRING \union {"?"}
Entries == [name : Texts \ {""}, type : Texts, size : Digits]

(* A set of naturals has a least element.                                  *)
LEMMA LeastNatural ==
    ASSUME NEW A \in SUBSET Nat, A # {}
    PROVE  \E n \in A : \A m \in A : n <= m
<1>1. PICK n \in A : \A x \in A : ~(<<x, n>> \in OpToRel(<, Nat))
  BY NatLessThanWellFounded, WFMin, Zenon
<1>2. \A m \in A : ~(m < n)
  BY <1>1, Zenon DEF OpToRel
<1> QED BY <1>2

(* A set of naturals that has 0, and with n < top also n + 1, has every    *)
(* natural up to top: one it has not would leave a least one.              *)
LEMMA UpTo ==
    ASSUME NEW top \in Nat, NEW Q, 0 \in Q,
           \A n \in 0 .. (top - 1) : n \in Q => n + 1 \in Q
    PROVE  \A n \in 0 .. top : n \in Q
<1> DEFINE Wrong == {n \in 0 .. top : n \notin Q}
<1>1. SUFFICES ASSUME Wrong # {} PROVE FALSE
  BY Zenon
<1>2. PICK n \in Wrong : \A m \in Wrong : n <= m
  <2>1. Wrong \in SUBSET Nat
    OBVIOUS
  <2> HIDE DEF Wrong
  <2> QED BY <1>1, <2>1, LeastNatural, Zenon
<1>3. n # 0
  BY <1>2, Zenon
<1>4. n - 1 \in 0 .. (top - 1) /\ (n - 1) + 1 = n /\ n - 1 \in 0 .. top /\ ~(n <= n - 1)
  BY <1>2, <1>3
<1>5. n - 1 \in Q
  BY <1>2, <1>4, Zenon
<1> QED BY <1>2, <1>4, <1>5, Zenon

(* A bounded set of integers has a greatest element, and Max denotes it.   *)
LEMMA GreatestInteger ==
    ASSUME NEW b \in Int, NEW S \in SUBSET Int, S # {}, \A x \in S : x <= b
    PROVE  Max(S) \in S /\ \A x \in S : x <= Max(S)
<1> DEFINE D == {b - x : x \in S}
<1>1. D \in SUBSET Nat /\ D # {}
  <2>1. \A x \in S : b - x \in Nat
    OBVIOUS
  <2>2. D # {}
    BY Zenon
  <2> QED BY <2>1, <2>2, Zenon
<1>2. PICK d \in D : \A e \in D : d <= e
  <2> HIDE DEF D
  <2> QED BY <1>1, LeastNatural, Zenon
<1>3. PICK y \in S : d = b - y
  BY <1>2, Zenon
<1>4. \A x \in S : y >= x
  BY <1>2, <1>3
<1>5. /\ Max(S) \in S /\ \A x \in S : Max(S) >= x
  BY <1>3, <1>4, Zenon DEF Max
<1> QED BY <1>5, Zenon

-----------------------------------------------------------------------------
(* Division, and the blocks that n bytes take.                             *)
LEMMA Quotient ==
    ASSUME NEW b \in Nat \ {0}, NEW q \in Nat, NEW r \in 0 .. (b - 1)
    PROVE  (b * q + r) \div b = q
OBVIOUS

LEMMA Blocks ==
    ASSUME NEW b \in Nat \ {0}, NEW n \in Nat
    PROVE  /\ (n + b - 1) \div b \in Nat
           /\ b * ((n + b - 1) \div b) >= n
           /\ b * ((n + b - 1) \div b) = b * (n \div b) + (IF n % b # 0 THEN b ELSE 0)
<1>0. n \div b \in Nat /\ n % b \in 0 .. (b - 1) /\ n = b * (n \div b) + (n % b)
  OBVIOUS
<1>1. PICK q \in Nat, r \in 0 .. (b - 1) : n = b * q + r /\ q = n \div b /\ r = n % b
  BY <1>0, Zenon
<1> USE ONLY b \in Nat \ {0}, n \in Nat, q \in Nat, r \in 0 .. (b - 1)
<1>2. CASE r = 0
  <2>0. n = b * q
    <3>1. n = b * q + 0
      BY <1>1, <1>2, Zenon
    <3>2. b * q \in Nat
      OBVIOUS
    <3> QED BY <3>1, <3>2
  <2>1. n + b - 1 = b * q + (b - 1) /\ b - 1 \in 0 .. (b - 1)
    BY <2>0
  <2>2. (b * q + (b - 1)) \div b = q
    BY <2>1, Quotient, Zenon
  <2>3. (n + b - 1) \div b = q
    BY <2>1, <2>2, Zenon
  <2> QED BY <1>1, <1>2, <2>0, <2>3
<1>3. CASE r # 0
  <2>1. n + b - 1 = b * (q + 1) + (r - 1) /\ r - 1 \in 0 .. (b - 1) /\ q + 1 \in Nat
    BY <1>1, <1>3
  <2>2. (b * (q + 1) + (r - 1)) \div b = q + 1
    BY <2>1, Quotient, Zenon
  <2>3. b * (q + 1) = b * q + b
    OBVIOUS
  <2> QED BY <1>1, <1>3, <2>1, <2>2, <2>3
<1> QED BY <1>2, <1>3, Zenon

(* How far tar_parse goes behind a header that says z bytes.               *)
LEMMA Advances ==
    ASSUME NEW a \in Nat, NEW z \in Nat
    PROVE  /\ Block * (1 + Ceiling(z)) \in Nat
           /\ Block * (1 + Ceiling(z)) >= Block + z
           /\ Block \in Nat \ {0}
           /\ advance(a, z) \in Nat
           /\ a + Block * (1 + Ceiling(z)) < Span =>
                 advance(a, z) = a + Block * (1 + Ceiling(z))
<1>2. Block \in Nat \ {0} /\ Span \in Nat \ {0}
  BY InitrdAssumption, ElfAssumption, Zenon
<1>3. PICK c \in Nat : c = Ceiling(z) /\ c = (z + Block - 1) \div Block
  <2>1. (z + Block - 1) \div Block \in Nat
    BY <1>2, Blocks, Zenon
  <2> QED BY <2>1, Zenon DEF Ceiling
<1>5. PICK q \in Nat, r \in Nat : q = z \div Block /\ r = z % Block
  <2>1. z \div Block \in Nat /\ z % Block \in Nat
    BY ONLY <1>2, z \in Nat
  <2> QED BY <2>1, Zenon
<1>6. Block * c >= z /\ Block * c = Block * q + (IF r # 0 THEN Block ELSE 0)
  BY <1>2, <1>3, <1>5, Blocks, Zenon
<1>7. advance(a, z) = (a + (q + 1) * Block + IF r # 0 THEN Block ELSE 0) % Span
  BY <1>5, Zenon DEF advance
<1>8. Block * (1 + c) = Block + Block * c /\ (q + 1) * Block = Block * q + Block
      /\ Block * c \in Nat /\ Block * q \in Nat
  BY ONLY <1>2, c \in Nat, q \in Nat
<1>9. PICK x \in Nat : x = Block * (1 + c) /\ x >= Block + z
  BY <1>2, <1>6, <1>8
<1>10. a + (q + 1) * Block + (IF r # 0 THEN Block ELSE 0) = a + x
  BY <1>2, <1>6, <1>8, <1>9
<1>11. advance(a, z) = (a + x) % Span
  BY <1>7, <1>10, Zenon
<1>12. (a + x) % Span \in Nat /\ (a + x < Span => (a + x) % Span = a + x)
  BY ONLY <1>2, a \in Nat, x \in Nat
<1> QED BY <1>2, <1>3, <1>9, <1>11, <1>12, Zenon

(* The size of an entry, and the room it takes.                            *)
LEMMA Extents ==
    ASSUME NEW e \in Entries
    PROVE  /\ tar_getsize(e.size) \in Nat
           /\ Extent(e) \in Nat
           /\ Extent(e) >= Block + tar_getsize(e.size)
           /\ Block \in Nat \ {0}
           /\ Octal(e.size) < Span => Extent(e) = Block * (1 + Ceiling(tar_getsize(e.size)))
<1>1. PICK n \in Nat : n = Octal(e.size)
  <2>1. e.size[1] \in 0 .. 7 /\ e.size[2] \in 0 .. 7 /\ e.size[3] \in 0 .. 7
    BY Zenon DEF Entries, Digits
  <2> QED BY <2>1 DEF Octal
<1>2. Span \in Nat \ {0}
  BY ElfAssumption, Zenon
<1>3. PICK m \in Nat : m = tar_getsize(e.size) /\ m = n % Span
  <2>1. n % Span \in Nat
    BY ONLY <1>2, n \in Nat
  <2> QED BY <1>1, <2>1, Zenon DEF tar_getsize
<1>4. m <= n /\ (n < Span => m = n)
  <2>1. n % Span <= n /\ (n < Span => n % Span = n)
    BY ONLY <1>2, n \in Nat
  <2> QED BY <1>3, <2>1, Zenon
<1>5. PICK x : x = Block * (1 + Ceiling(n)) /\ x = Extent(e)
  BY <1>1, Zenon DEF Extent
<1>6. x \in Nat /\ x >= Block + n /\ Block \in Nat \ {0}
  <2>1. 0 \in Nat
    OBVIOUS
  <2> QED BY <1>5, <2>1, Advances, Zenon
<1>7. x >= Block + m
  BY ONLY <1>4, <1>6, n \in Nat, m \in Nat
<1> QED BY <1>1, <1>3, <1>4, <1>5, <1>6, <1>7, Zenon

-----------------------------------------------------------------------------
(* Where the entries are: the function of Places exists, because a longer  *)
(* beginning of it always does.                                            *)
Placed(a, first, g, k) == IF k = 1 THEN first ELSE g[k - 1] + Extent(a[k - 1])

LEMMA PlacesExist ==
    ASSUME NEW a \in Seq(Entries), NEW first \in Int
    PROVE  \A k \in 1 .. Len(a) + 1 : Places(a, first)[k] = Placed(a, first, Places(a, first), k)
<1> DEFINE Part(n) == \E g : g = [k \in 1 .. n |-> Placed(a, first, g, k)]
           Q == {n \in Nat : Part(n)}
           top == Len(a) + 1
<1>0. top \in Nat
  OBVIOUS
<1>1. 0 \in Q
  <2>1. [k \in 1 .. 0 |-> 0] = [k \in 1 .. 0 |-> Placed(a, first, [j \in 1 .. 0 |-> 0], k)]
    OBVIOUS
  <2> QED BY <2>1, Zenon
<1>2. ASSUME NEW n \in 0 .. (top - 1), n \in Q PROVE n + 1 \in Q
  <2>1. PICK g : g = [k \in 1 .. n |-> Placed(a, first, g, k)]
    BY <1>2, Zenon
  <2> DEFINE h == [k \in 1 .. n + 1 |-> Placed(a, first, g, k)]
  <2>2. ASSUME NEW k \in 1 .. n + 1 PROVE Placed(a, first, g, k) = Placed(a, first, h, k)
    <3>1. CASE k = 1
      BY <3>1, Zenon DEF Placed
    <3>2. CASE k # 1
      <4>1. k - 1 \in 1 .. n /\ k - 1 \in 1 .. n + 1
        BY <1>2, <3>2
      <4>2. g[k - 1] = Placed(a, first, g, k - 1)
        BY <4>1, <2>1, Zenon
      <4>3. h[k - 1] = Placed(a, first, g, k - 1)
        BY <4>1, Zenon
      <4>4. g[k - 1] = h[k - 1]
        BY <4>2, <4>3, Zenon
      <4> HIDE DEF h
      <4> QED BY <4>4, <3>2, Zenon DEF Placed
    <3> QED BY <3>1, <3>2, Zenon
  <2>3. h = [k \in 1 .. n + 1 |-> Placed(a, first, h, k)]
    BY <2>2, Zenon
  <2>4. Part(n + 1)
    BY <2>3, Zenon
  <2>5. n + 1 \in Nat
    OBVIOUS
  <2> HIDE DEF Part
  <2> QED BY <2>4, <2>5, Zenon
<1>3. top \in Q
  <2>1. top \in 0 .. top
    BY <1>0
  <2> HIDE DEF Q, top
  <2> QED BY <1>0, <1>1, <1>2, <2>1, UpTo, Zenon
<1>4. Places(a, first) = CHOOSE g : g = [k \in 1 .. Len(a) + 1 |-> Placed(a, first, g, k)]
  BY Zenon DEF Places, Placed
<1>5. Places(a, first) = [k \in 1 .. Len(a) + 1 |-> Placed(a, first, Places(a, first), k)]
  BY <1>3, <1>4, Zenon
<1> QED BY <1>5, Zenon

(* Entry by entry, and the same distances wherever the archive begins.     *)
LEMMA PlacesStep ==
    ASSUME NEW a \in Seq(Entries), NEW first \in Int
    PROVE  /\ Places(a, first)[1] = first
           /\ \A k \in 1 .. Len(a) :
                 /\ a[k] \in Entries
                 /\ Places(a, first)[k + 1] = Places(a, first)[k] + Extent(a[k])
           /\ \A k \in 1 .. Len(a) + 1 :
                 /\ Places(a, first)[k] \in Int
                 /\ Places(a, first)[k] = first + Places(a, 0)[k]
<1> DEFINE P == Places(a, first)
           O == Places(a, 0)
           Q == {n \in Nat : P[n + 1] \in Int /\ O[n + 1] \in Int /\ P[n + 1] = first + O[n + 1]}
<1>0. Len(a) \in Nat /\ \A k \in 1 .. Len(a) : a[k] \in Entries
  OBVIOUS
<1>1. P[1] = first /\ O[1] = 0
  <2>1. 1 \in 1 .. Len(a) + 1 /\ 0 \in Int
    BY <1>0
  <2> QED BY <2>1, PlacesExist, Zenon DEF Placed
<1>2. ASSUME NEW k \in 1 .. Len(a)
      PROVE  P[k + 1] = P[k] + Extent(a[k]) /\ O[k + 1] = O[k] + Extent(a[k])
  <2>1. k + 1 \in 1 .. Len(a) + 1 /\ (k + 1) - 1 = k /\ k + 1 # 1 /\ 0 \in Int
    BY <1>0
  <2>2. P[k + 1] = Placed(a, first, P, k + 1) /\ O[k + 1] = Placed(a, 0, O, k + 1)
    BY <2>1, PlacesExist, Zenon
  <2>3. Placed(a, first, P, k + 1) = P[k] + Extent(a[k])
        /\ Placed(a, 0, O, k + 1) = O[k] + Extent(a[k])
    <3> HIDE DEF P, O
    <3> QED BY <2>1, Zenon DEF Placed
  <2> QED BY <2>2, <2>3, Zenon
<1> HIDE DEF P, O
<1>3. 0 \in Q
  BY <1>1
<1>4. ASSUME NEW n \in 0 .. (Len(a) - 1), n \in Q PROVE n + 1 \in Q
  <2>1. n + 1 \in 1 .. Len(a) /\ n + 1 \in Nat
    BY <1>0
  <2>2. Extent(a[n + 1]) \in Int
    <3>1. a[n + 1] \in Entries
      BY <1>0, <2>1, Zenon
    <3>2. Extent(a[n + 1]) \in Nat
      BY <3>1, Extents, Zenon
    <3> QED BY <3>2
  <2>3. P[(n + 1) + 1] = P[n + 1] + Extent(a[n + 1])
        /\ O[(n + 1) + 1] = O[n + 1] + Extent(a[n + 1])
    BY <2>1, <1>2, Zenon
  <2> QED BY <1>4, <2>1, <2>2, <2>3
<1>5. ASSUME NEW k \in 1 .. Len(a) + 1 PROVE P[k] \in Int /\ P[k] = first + O[k]
  <2>1. k - 1 \in 0 .. Len(a) /\ (k - 1) + 1 = k
    BY <1>0
  <2>2. k - 1 \in Q
    <3> HIDE DEF Q
    <3> QED BY <1>0, <1>3, <1>4, <2>1, UpTo, Zenon
  <2> QED BY <2>1, <2>2, Zenon
<1> QED BY <1>0, <1>1, <1>2, <1>5, Zenon DEF P, O

(* Later entries are further up.                                           *)
LEMMA PlacesGrow ==
    ASSUME NEW a \in Seq(Entries), NEW first \in Int,
           NEW j \in 1 .. Len(a) + 1, NEW k \in 1 .. Len(a) + 1, j < k
    PROVE  Places(a, first)[j] < Places(a, first)[k]
<1> DEFINE P == Places(a, first)
           Q == {n \in Nat : j + 1 + n <= Len(a) + 1 => P[j] < P[j + 1 + n]}
<1>0. Len(a) \in Nat
  OBVIOUS
<1>1. \A l \in 1 .. Len(a) : P[l] < P[l + 1]
  <2>1. SUFFICES ASSUME NEW l \in 1 .. Len(a) PROVE P[l] < P[l + 1]
    BY Zenon
  <2>2. P[l + 1] = P[l] + Extent(a[l]) /\ a[l] \in Entries
    BY PlacesStep, Zenon
  <2>3. Extent(a[l]) \in Nat /\ Extent(a[l]) > 0
    <3>1. /\ tar_getsize(a[l].size) \in Nat /\ Extent(a[l]) \in Nat /\ Block \in Nat \ {0}
          /\ Extent(a[l]) >= Block + tar_getsize(a[l].size)
      BY <2>2, Extents, Zenon
    <3> QED BY ONLY <3>1
  <2>4. P[l] \in Int
    BY <1>0, PlacesStep
  <2> HIDE DEF P
  <2> QED BY <2>2, <2>3, <2>4
<1>2. \A l \in 1 .. Len(a) + 1 : P[l] \in Int
  BY PlacesStep, Zenon
<1> HIDE DEF P
<1>3. 0 \in Q
  BY <1>0, <1>1
<1>4. ASSUME NEW n \in 0 .. (Len(a) - 1), n \in Q PROVE n + 1 \in Q
  <2>1. SUFFICES ASSUME j + 1 + (n + 1) <= Len(a) + 1 PROVE P[j] < P[j + 1 + (n + 1)]
    OBVIOUS
  <2>2. j + 1 + n \in 1 .. Len(a) /\ j + 1 + (n + 1) = (j + 1 + n) + 1
        /\ j + 1 + n \in 1 .. Len(a) + 1 /\ (j + 1 + n) + 1 \in 1 .. Len(a) + 1
        /\ j + 1 + n <= Len(a) + 1
    BY <1>0, <2>1
  <2>3. P[j] < P[j + 1 + n] /\ P[j + 1 + n] < P[(j + 1 + n) + 1]
    BY <1>1, <1>4, <2>2, Zenon
  <2>4. P[j] \in Int /\ P[j + 1 + n] \in Int /\ P[(j + 1 + n) + 1] \in Int
    BY <1>2, <2>2, Zenon
  <2>5. P[j] < P[(j + 1 + n) + 1]
    BY ONLY <2>3, <2>4
  <2> QED BY <2>2, <2>5, Zenon
<1>5. k - j - 1 \in 0 .. Len(a) /\ j + 1 + (k - j - 1) = k
  BY <1>0
<1>6. k - j - 1 \in Q
  <2> HIDE DEF Q
  <2> QED BY <1>0, <1>3, <1>4, <1>5, UpTo, Zenon
<1>7. P[j] < P[j + 1 + (k - j - 1)]
  BY <1>0, <1>5, <1>6
<1> QED BY <1>5, <1>7, Zenon DEF P

-----------------------------------------------------------------------------
(* The module that is mounted is one of those that bitmap_addr is behind.  *)
LEMMA LastModule ==
    ASSUME NEW ts \in TagLists
    PROVE  /\ last_module(ts).start \in Nat /\ last_module(ts).end \in Nat
           /\ bitmap_addr(ts) \in Nat /\ last_module(ts).end <= bitmap_addr(ts)
<1> DEFINE M == Modules(ts)
           E == {0} \union {ts[k].end : k \in M}
           Q == {n \in Nat : \E b \in Nat : \A k \in 1 .. n : k \in DOMAIN ts => ts[k].end <= b}
<1>1. /\ ts \in Seq([type : STRING, start : Nat, end : Nat])
      /\ \E k \in DOMAIN ts : ts[k].type = "MODULE"
  BY InitrdAssumption, Zenon
<1>2. Len(ts) \in Nat /\ DOMAIN ts = 1 .. Len(ts)
      /\ \A k \in DOMAIN ts : ts[k].start \in Nat /\ ts[k].end \in Nat
  <2>1. PICK T : T = [type : STRING, start : Nat, end : Nat]
    BY Zenon
  <2>2. ts \in Seq(T)
    BY <1>1, <2>1, Zenon
  <2>3. Len(ts) \in Nat /\ DOMAIN ts = 1 .. Len(ts) /\ \A k \in DOMAIN ts : ts[k] \in T
    BY ONLY <2>2
  <2>4. \A t \in T : t.start \in Nat /\ t.end \in Nat
    BY <2>1, Zenon
  <2> QED BY <2>3, <2>4, Zenon
<1>3. M \in SUBSET Int /\ M # {} /\ M \subseteq DOMAIN ts /\ \A k \in M : k <= Len(ts)
  BY <1>1, <1>2 DEF Modules
<1> HIDE DEF M
<1>4. Max(M) \in M
  <2>1. Len(ts) \in Int
    BY <1>2
  <2> QED BY <2>1, <1>3, GreatestInteger, Zenon
<1>5. 0 \in Q
  <2>1. \A k \in 1 .. 0 : FALSE
    OBVIOUS
  <2> QED BY <2>1, Zenon
<1>6. ASSUME NEW n \in 0 .. (Len(ts) - 1), n \in Q PROVE n + 1 \in Q
  <2>1. PICK b \in Nat : \A k \in 1 .. n : k \in DOMAIN ts => ts[k].end <= b
    BY <1>6, Zenon
  <2>2. n + 1 \in DOMAIN ts /\ ts[n + 1].end \in Nat /\ n + 1 \in Nat
    BY <1>2
  <2>3. PICK c \in Nat : c >= b /\ c >= ts[n + 1].end
    <3>1. b >= ts[n + 1].end => b >= b /\ b >= ts[n + 1].end
      BY <2>1, <2>2
    <3>2. ~(b >= ts[n + 1].end) => ts[n + 1].end >= b /\ ts[n + 1].end >= ts[n + 1].end
      BY <2>1, <2>2
    <3> QED BY <3>1, <3>2, <2>2, Zenon
  <2>4. ASSUME NEW k \in 1 .. n + 1, k \in DOMAIN ts PROVE ts[k].end <= c
    <3>1. CASE k = n + 1
      BY <3>1, <2>2, <2>3, Zenon
    <3>2. CASE k # n + 1
      <4>1. k \in 1 .. n /\ ts[k].end \in Nat
        BY <1>2, <2>4, <3>2
      <4>2. ts[k].end <= b
        BY <2>1, <2>4, <4>1, Zenon
      <4> QED BY ONLY <4>1, <4>2, <2>3, b \in Nat, c \in Nat
    <3> QED BY <3>1, <3>2, Zenon
  <2> QED BY <2>2, <2>4, Zenon
<1>7. Len(ts) \in Q
  <2>1. Len(ts) \in 0 .. Len(ts)
    BY <1>2
  <2> HIDE DEF Q
  <2> QED BY <1>2, <1>5, <1>6, <2>1, UpTo, Zenon
<1>8. PICK b \in Nat : \A k \in DOMAIN ts : ts[k].end <= b
  <2>1. PICK b \in Nat : \A k \in 1 .. Len(ts) : k \in DOMAIN ts => ts[k].end <= b
    BY <1>7, Zenon
  <2> QED BY <2>1, <1>2, Zenon
<1>9. E \in SUBSET Int /\ E # {} /\ \A x \in E : x <= b
  BY <1>2, <1>3, <1>8
<1>10. Max(E) \in E /\ \A x \in E : x <= Max(E)
  <2>1. b \in Int
    OBVIOUS
  <2> HIDE DEF E
  <2> QED BY <2>1, <1>9, GreatestInteger, Zenon
<1>11. ts[Max(M)].end \in E /\ E \subseteq Nat
  <2>1. \A k \in M : ts[k].end \in Nat
    BY <1>2, <1>3, Zenon
  <2> QED BY <2>1, <1>4
<1>12. bitmap_addr(ts) = Max(E) /\ last_module(ts) = ts[Max(M)]
  BY Zenon DEF bitmap_addr, last_module, M
<1> HIDE DEF E
<1>13. ts[Max(M)].start \in Nat /\ ts[Max(M)].end \in Nat
  BY <1>2, <1>3, <1>4, Zenon
<1> QED BY <1>10, <1>11, <1>12, <1>13, Zenon

(* What the boot loader has put into memory.                               *)
Setting ==
    /\ archive \in Seq(Entries) /\ tail \in Int /\ tags \in TagLists
    /\ last_module(tags).end - last_module(tags).start = Length(archive, tail)

Headers == [at : Nat, name : Texts, type : Texts, size : Nat]

(* What holds of the walk whatever it reads, also when an address wraps.   *)
TarInv ==
    /\ Setting
    /\ address \in Nat
    /\ tarfs_files \in Nat
    /\ headers \in Seq(Headers) /\ tarfs_files <= Len(headers)

(* The header that the walk keeps for entry k.                             *)
Kept(k) == [at |-> Start[k], name |-> archive[k].name, type |-> archive[k].type,
            size |-> tar_getsize(archive[k].size)]

(* The walk has counted leading entries of the archive, at their places,   *)
(* up to one that ends in the module.                                      *)
Walked ==
    /\ module = [start |-> last_module(tags).start, end |-> last_module(tags).end]
    /\ tarfs_files \in 0 .. Len(archive)
    /\ \A k \in 1 .. tarfs_files : headers[k] = Kept(k)
    /\ tarfs_files = 0 \/ Start[tarfs_files + 1] <= module.end

Walk ==
    /\ pc = "tags" => headers = <<>> /\ tarfs_files = 0
    /\ pc # "tags" => Walked
    /\ pc = "parse" => Len(headers) = tarfs_files /\ address = Start[tarfs_files + 1]
    /\ pc \notin {"tags", "parse", "overrun"} /\ tarfs_files < Len(archive) =>
          Start[tarfs_files + 2] > module.end
    /\ pc = "overrun" => Len(archive) > NUM_TARFILES \/ tail <= 0

WalkInv == TarInv /\ (Fits => Walk)

(* The places of the entries while an archive is mounted.                  *)
LEMMA StartFacts ==
    ASSUME Setting, Walked
    PROVE  /\ Len(archive) \in Nat /\ tarfs_files \in Nat /\ tarfs_files <= Len(archive)
           /\ module.start \in Nat /\ module.end \in Nat
           /\ \A k \in 1 .. Len(archive) :
                 archive[k] \in Entries /\ Start[k + 1] = Start[k] + Extent(archive[k])
           /\ \A k \in 1 .. Len(archive) + 1 : Start[k] \in Int /\ Start[k] \in Nat
           /\ \A j, k \in 1 .. Len(archive) + 1 : j < k => Start[j] < Start[k]
           /\ module.end - Start[Len(archive) + 1] = tail * Block
<1>1. archive \in Seq(Entries) /\ Len(archive) \in Nat /\ tail \in Int /\ tags \in TagLists
  BY DEF Setting
<1>2. last_module(tags).start \in Nat /\ last_module(tags).end \in Nat
  BY <1>1, LastModule, Zenon
<1>3. module.start = last_module(tags).start /\ module.end = last_module(tags).end
  BY Zenon DEF Walked
<1>4. module.start \in Nat /\ module.end \in Nat /\ module.start \in Int
  BY <1>2, <1>3
<1>5. /\ \A k \in 1 .. Len(archive) :
            archive[k] \in Entries /\ Start[k + 1] = Start[k] + Extent(archive[k])
      /\ \A k \in 1 .. Len(archive) + 1 :
            Start[k] \in Int /\ Start[k] = module.start + Places(archive, 0)[k]
  BY <1>1, <1>4, PlacesStep, Zenon DEF Start
<1>6. \A j, k \in 1 .. Len(archive) + 1 : j < k => Start[j] < Start[k]
  BY <1>1, <1>4, PlacesGrow, Zenon DEF Start
<1>7. module.end - Start[Len(archive) + 1] = tail * Block
  <2>1. PICK p : p = Places(archive, 0)[Len(archive) + 1]
    BY Zenon
  <2>2. p \in Int
    <3>1. 0 \in Int /\ Len(archive) + 1 \in 1 .. Len(archive) + 1
      BY <1>1
    <3> QED BY <3>1, <2>1, <1>1, PlacesStep, Zenon
  <2>3. Len(archive) + 1 \in 1 .. Len(archive) + 1
    BY <1>1
  <2>4. Start[Len(archive) + 1] = module.start + p
    BY <1>5, <2>1, <2>3, Zenon
  <2>5. module.end - module.start = p + tail * Block
    BY <1>3, <2>1, Zenon DEF Setting, Length
  <2>6. tail * Block \in Int
    <3>1. Block \in Nat \ {0}
      BY InitrdAssumption, Zenon
    <3> QED BY ONLY <1>1, <3>1
  <2> QED BY ONLY <1>4, <2>2, <2>4, <2>5, <2>6
<1>8. ASSUME NEW k \in 1 .. Len(archive) + 1 PROVE Start[k] \in Nat
  <2>1. Start[1] = module.start
    BY <1>1, <1>4, PlacesStep, Zenon DEF Start
  <2>2. 1 \in 1 .. Len(archive) + 1 /\ (k = 1 \/ 1 < k)
    BY <1>1
  <2>3. k = 1 \/ Start[1] < Start[k]
    BY <1>6, <2>2, Zenon
  <2>4. Start[k] \in Int
    BY <1>5, Zenon
  <2> QED BY <1>4, <2>1, <2>3, <2>4
<1>9. tarfs_files \in Nat /\ tarfs_files <= Len(archive)
  <2>1. tarfs_files \in 0 .. Len(archive)
    BY Zenon DEF Walked
  <2> QED BY <1>1, <2>1
<1> QED BY <1>1, <1>4, <1>5, <1>6, <1>7, <1>8, <1>9, Zenon

(* What the walk reads behind the entries it has counted: the next entry,  *)
(* the zeros after the last one, or something beyond the module.           *)
LEMMA NextHeader ==
    ASSUME Setting, Walked, NEW h \in HeaderAt(Start[tarfs_files + 1])
    PROVE  \/ /\ tarfs_files < Len(archive) /\ h = archive[tarfs_files + 1]
           \/ /\ tarfs_files = Len(archive) /\ h = Zeros
           \/ Start[tarfs_files + 1] >= module.end
<1> DEFINE n == tarfs_files + 1
           a == Start[n]
           N == Len(archive)
<1>1. /\ N \in Nat /\ tarfs_files \in Nat /\ tarfs_files <= N /\ module.end \in Nat
      /\ \A k \in 1 .. N + 1 : Start[k] \in Int
      /\ \A j, k \in 1 .. N + 1 : j < k => Start[j] < Start[k]
      /\ DOMAIN archive = 1 .. N
  BY StartFacts DEF Setting
<1>2. n \in 1 .. N + 1 /\ N + 1 \in 1 .. N + 1 /\ a \in Int /\ Start[N + 1] \in Int
  BY <1>1
<1>3. \A k \in 1 .. N : Start[k] = a => k = n
  <2>1. SUFFICES ASSUME NEW k \in 1 .. N, Start[k] = a, k # n PROVE FALSE
    BY Zenon
  <2>2. k \in 1 .. N + 1 /\ (k < n \/ n < k)
    BY <2>1, <1>1, <1>2
  <2>3. Start[k] < Start[n] \/ Start[n] < Start[k]
    BY <2>2, <1>1, <1>2, Zenon
  <2> QED BY <2>1, <2>3, <1>2
<1> HIDE DEF N
<1>4. CASE a >= module.end
  BY <1>4, Zenon
<1>5. CASE a < module.end /\ tarfs_files < N
  <2>1. n \in 1 .. N
    BY <1>1, <1>5
  <2>2. (CHOOSE k \in DOMAIN archive : Start[k] = a) = n
    BY <2>1, <1>1, <1>3, Zenon
  <2>3. ~(a >= Start[N + 1])
    <3>1. n < N + 1
      BY <2>1, <1>1
    <3>2. a < Start[N + 1]
      BY <3>1, <1>1, <1>2, Zenon
    <3> QED BY <3>2, <1>2
  <2>4. \E k \in DOMAIN archive : Start[k] = a /\ a < module.end
    BY <2>1, <1>1, <1>5, Zenon
  <2>5. HeaderAt(a) = {archive[n]}
    BY <2>2, <2>3, <2>4, Zenon DEF HeaderAt, N
  <2> QED BY <1>5, <2>5, Zenon DEF N
<1>6. CASE a < module.end /\ tarfs_files = N
  <2>1. ~\E k \in DOMAIN archive : Start[k] = a
    <3>1. SUFFICES ASSUME NEW k \in 1 .. N, Start[k] = a PROVE FALSE
      BY <1>1, Zenon
    <3>2. k = n
      BY <1>3, <3>1, Zenon
    <3> QED BY <3>2, <1>6, <1>1
  <2>2. a >= Start[N + 1]
    BY <1>6, <1>2
  <2>3. HeaderAt(a) = {Zeros}
    BY <2>1, <2>2, <1>6, Zenon DEF HeaderAt, N
  <2> QED BY <1>6, <2>3, Zenon DEF N
<1> QED BY <1>1, <1>2, <1>4, <1>5, <1>6

(* A step that leaves the archive, the module and the headers alone.       *)
LEMMA WalkKept ==
    ASSUME WalkInv, UNCHANGED <<boot, module, address, headers, tarfs_files>>,
           \/ pc' = pc
           \/ pc \notin {"tags", "parse", "overrun"} /\ pc' \notin {"tags", "parse", "overrun"}
    PROVE  WalkInv'
<1>1. /\ archive' = archive /\ tail' = tail /\ tags' = tags /\ module' = module
      /\ headers' = headers /\ tarfs_files' = tarfs_files /\ address' = address
  BY Zenon DEF boot
<1>2. Start' = Start
  BY <1>1, Zenon DEF Start
<1>3. Setting' <=> Setting
  BY <1>1, Zenon DEF Setting
<1>4. Walked' <=> Walked
  BY <1>1, <1>2, Zenon DEF Walked, Kept
<1>5. Fits' <=> Fits
  BY <1>1, Zenon DEF Fits
<1>6. Fits => Walk'
  BY <1>1, <1>2, <1>4, Zenon DEF WalkInv, Walk
<1> QED BY <1>1, <1>3, <1>5, <1>6, Zenon DEF WalkInv, TarInv

LEMMA WalkStarts == WalkInv /\ kernel_main => WalkInv'
<1> SUFFICES ASSUME WalkInv, kernel_main PROVE WalkInv'
  BY Zenon
<1> DEFINE m == last_module(tags)
<1>1. /\ pc = "tags" /\ pc' = "parse" /\ module' = [start |-> m.start, end |-> m.end]
      /\ address' = m.start /\ headers' = headers /\ tarfs_files' = tarfs_files
      /\ archive' = archive /\ tail' = tail /\ tags' = tags
  BY Zenon DEF kernel_main, boot
<1>2. Setting /\ (Fits => headers = <<>> /\ tarfs_files = 0) /\ (Fits' <=> Fits)
  BY <1>1, Zenon DEF WalkInv, TarInv, Walk, Fits
<1>3. Setting'
  BY <1>1, <1>2, Zenon DEF Setting
<1>4. m.start \in Int /\ m.start \in Nat /\ archive \in Seq(Entries)
  <2>1. m.start \in Nat
    BY <1>2, LastModule, Zenon DEF Setting
  <2> QED BY <1>2, <2>1 DEF Setting
<1>5. Start'[1] = m.start
  <2>1. Start' = Places(archive, m.start)
    BY <1>1, Zenon DEF Start
  <2> QED BY <2>1, <1>4, PlacesStep, Zenon
<1>6. Len(archive) \in Nat
  BY <1>4
<1>7. ASSUME Fits PROVE Walk'
  <2>1. headers' = <<>> /\ tarfs_files' = 0 /\ Len(headers') = 0
    BY <1>1, <1>2, <1>7
  <2>2. Walked'
    BY <1>1, <1>6, <2>1 DEF Walked
  <2> QED BY <1>1, <1>5, <2>1, <2>2 DEF Walk
<1>8. TarInv'
  BY <1>1, <1>3, <1>4, Zenon DEF WalkInv, TarInv
<1> QED BY <1>2, <1>7, <1>8, Zenon DEF WalkInv

(* Whatever tar_parse takes for the header of a file looks like one.       *)
LEMMA HeadersLookRight ==
    ASSUME Setting, NEW a, NEW h \in HeaderAt(a), h.name # ""
    PROVE  h \in Entries
<1>1. Zeros.name = ""
  BY Zenon DEF Zeros
<1>2. ASSUME NEW digits \in Strays PROVE Stray(digits) \in Entries
  <2>1. digits \in Digits
    BY InitrdAssumption, Zenon
  <2>2. "?" \in Texts /\ "?" # ""
    BY Zenon DEF Texts
  <2> QED BY <2>1, <2>2, Zenon DEF Stray, Entries
<1>3. \A k \in DOMAIN archive : archive[k] \in Entries
  <2>1. archive \in Seq(Entries)
    BY Zenon DEF Setting
  <2> QED BY ONLY <2>1
<1>4. CASE \E k \in DOMAIN archive : Start[k] = a /\ a < module.end
  <2>1. PICK k : k = CHOOSE l \in DOMAIN archive : Start[l] = a
    BY Zenon
  <2>2. k \in DOMAIN archive
    BY <1>4, <2>1, Zenon
  <2>3. h = archive[k] \/ h = Zeros
    BY <1>4, <2>1, Zenon DEF HeaderAt
  <2> QED BY <1>1, <1>3, <2>2, <2>3, Zenon
<1>5. CASE ~\E k \in DOMAIN archive : Start[k] = a /\ a < module.end
  <2>1. h = Zeros \/ \E digits \in Strays : h = Stray(digits)
    BY <1>5, Zenon DEF HeaderAt
  <2> QED BY <1>1, <1>2, <2>1, Zenon
<1> QED BY <1>4, <1>5, Zenon

(* The walk keeps a header for every entry it counts, whatever they are.   *)
LEMMA TarInvKept == TarInv /\ tar_parse => TarInv'
<1> SUFFICES ASSUME TarInv, tar_parse PROVE TarInv'
  BY Zenon
<1>1. /\ address \in Nat /\ tarfs_files \in Nat /\ headers \in Seq(Headers)
      /\ tarfs_files <= Len(headers) /\ Setting
  BY Zenon DEF TarInv
<1>2. Setting'
  BY Zenon DEF TarInv, Setting, tar_parse, boot
<1>3. PICK h \in HeaderAt(address) :
        \/ address' = address /\ headers' = headers /\ tarfs_files' = tarfs_files
        \/ /\ h.name # ""
           /\ headers' = Append(headers, [at |-> address, name |-> h.name, type |-> h.type,
                                          size |-> tar_getsize(h.size)])
           /\ address' = advance(address, tar_getsize(h.size))
           /\ tarfs_files' = tarfs_files \/ tarfs_files' = tarfs_files + 1
  BY Zenon DEF tar_parse
<1>4. CASE address' = address /\ headers' = headers /\ tarfs_files' = tarfs_files
  BY <1>1, <1>2, <1>4, Zenon DEF TarInv
<1>5. CASE /\ h.name # ""
           /\ headers' = Append(headers, [at |-> address, name |-> h.name, type |-> h.type,
                                          size |-> tar_getsize(h.size)])
           /\ address' = advance(address, tar_getsize(h.size))
           /\ tarfs_files' = tarfs_files \/ tarfs_files' = tarfs_files + 1
  <2>1. h \in Entries
    BY <1>1, <1>5, HeadersLookRight, Zenon
  <2>2. tar_getsize(h.size) \in Nat
    BY <2>1, Extents, Zenon
  <2>3. address' \in Nat
    BY <1>1, <1>5, <2>2, Advances, Zenon
  <2>4. PICK r : r = [at |-> address, name |-> h.name, type |-> h.type, size |-> tar_getsize(h.size)]
    BY Zenon
  <2>5. r \in Headers
    BY <1>1, <2>1, <2>2, <2>4, Zenon DEF Headers, Entries
  <2>6. headers' = Append(headers, r)
    BY <1>5, <2>4, Zenon
  <2>7. headers' \in Seq(Headers) /\ Len(headers') = Len(headers) + 1 /\ Len(headers) \in Nat
    BY ONLY <1>1, <2>5, <2>6
  <2>8. tarfs_files' \in Nat /\ tarfs_files' <= Len(headers')
    <3>1. tarfs_files' = tarfs_files \/ tarfs_files' = tarfs_files + 1
      BY <1>5, Zenon
    <3>2. PICK l \in Nat : l = Len(headers)
      BY <2>7, Zenon
    <3>3. Len(headers') = l + 1 /\ tarfs_files <= l
      BY <1>1, <2>7, <3>2, Zenon
    <3>4. tarfs_files' \in Nat /\ tarfs_files' <= l + 1
      BY ONLY <1>1, <3>1, <3>3, l \in Nat
    <3> QED BY <3>3, <3>4, Zenon
  <2> QED BY <1>2, <2>3, <2>7, <2>8, Zenon DEF TarInv
<1> QED BY <1>3, <1>4, <1>5, Zenon

(* One round of the loop: it ends behind the last entry that counts, or    *)
(* takes one more.                                                         *)
LEMMA WalkGoesOn == WalkInv /\ tar_parse => WalkInv'
<1>0. SUFFICES ASSUME TarInv, Fits => Walk, tar_parse, Fits' PROVE Walk'
  BY TarInvKept, Zenon DEF WalkInv
<1> DEFINE n == tarfs_files
           a == Start[n + 1]
           N == Len(archive)
           e == module.end
<1>1. /\ pc = "parse" /\ archive' = archive /\ tail' = tail /\ tags' = tags /\ module' = module
  BY <1>0, Zenon DEF tar_parse, boot
<1>F. Fits
  <2>1. headers \in Seq(Headers) /\ (headers' = headers \/ \E r : headers' = Append(headers, r))
    BY <1>0, Zenon DEF TarInv, tar_parse
  <2>2. DOMAIN headers \subseteq DOMAIN headers' /\ \A k \in DOMAIN headers : headers'[k] = headers[k]
    BY ONLY <2>1
  <2> QED BY <1>0, <1>1, <2>2, Zenon DEF Fits
<1>2. /\ Setting /\ Walked /\ Len(headers) = n /\ address = a
      /\ headers \in Seq(Headers) /\ \A k \in 1 .. n : headers[k] = Kept(k)
      /\ n = 0 \/ a <= e
  BY <1>0, <1>1, <1>F, Zenon DEF TarInv, Walk, Walked
<1>3. /\ N \in Nat /\ n \in Nat /\ n <= N /\ e \in Nat
      /\ \A k \in 1 .. N : archive[k] \in Entries /\ Start[k + 1] = Start[k] + Extent(archive[k])
      /\ \A k \in 1 .. N + 1 : Start[k] \in Int /\ Start[k] \in Nat
      /\ \A j, k \in 1 .. N + 1 : j < k => Start[j] < Start[k]
      /\ e - Start[N + 1] = tail * Block
  BY <1>2, StartFacts, Zenon
<1>4. n + 1 \in 1 .. N + 1 /\ a \in Int /\ a \in Nat
  BY <1>3
<1>5. Setting' /\ Start' = Start
  BY <1>1, <1>2, Zenon DEF Setting, Start
<1>6. a >= e /\ n < N => Start[n + 2] > e
  <2>1. SUFFICES ASSUME a >= e, n < N PROVE Start[n + 2] > e
    BY Zenon
  <2>2. n + 2 \in 1 .. N + 1 /\ n + 1 < n + 2
    BY <2>1, <1>3
  <2>3. a < Start[n + 2] /\ Start[n + 2] \in Int
    BY <2>2, <1>3, <1>4, Zenon
  <2> QED BY ONLY <2>1, <2>3, <1>3, <1>4
<1>7. PICK h \in HeaderAt(a) :
        \/ h.name = "" /\ pc' = "nodes" /\ headers' = headers /\ n' = n
        \/ h.name # "" /\ n >= NUM_TARFILES /\ pc' = "overrun" /\ headers' = headers /\ n' = n
        \/ /\ h.name # ""
           /\ headers' = Append(headers, [at |-> a, name |-> h.name, type |-> h.type,
                                          size |-> tar_getsize(h.size)])
           /\ address' = advance(a, tar_getsize(h.size))
           /\ \/ address' > e /\ pc' = "nodes" /\ n' = n
              \/ address' <= e /\ n' = n + 1 /\ pc' = pc
  BY <1>0, <1>2, Zenon DEF tar_parse
<1>8. \/ n < N /\ h = archive[n + 1]
      \/ n = N /\ h = Zeros
      \/ a >= e
  BY <1>2, NextHeader, Zenon
<1>9. Zeros.name = "" /\ (h.name # "" => h \in Entries)
  BY <1>2, HeadersLookRight, Zenon DEF Zeros
<1>10. n < N => archive[n + 1] \in Entries /\ archive[n + 1].name # ""
                /\ Start[n + 2] = a + Extent(archive[n + 1])
  <2>1. SUFFICES ASSUME n < N
                 PROVE  archive[n + 1] \in Entries /\ archive[n + 1].name # ""
                        /\ Start[n + 2] = a + Extent(archive[n + 1])
    BY Zenon
  <2>2. n + 1 \in 1 .. N /\ (n + 1) + 1 = n + 2
    BY <2>1, <1>3
  <2>3. archive[n + 1] \in Entries /\ Start[n + 2] = a + Extent(archive[n + 1])
    BY <2>2, <1>3, Zenon
  <2> QED BY <2>3, Zenon DEF Entries
<1>14. /\ h.name = "" => n = N \/ a >= e
       /\ h.name # "" => h \in Entries /\ (a >= e \/ (n < N /\ h = archive[n + 1]))
  BY <1>8, <1>9, <1>10, Zenon
<1>11. CASE h.name = "" /\ pc' = "nodes" /\ headers' = headers /\ n' = n
  <2>1. n < N => Start[n + 2] > e
    <3>1. n < N => n # N
      BY <1>3
    <3>2. h.name = ""
      BY <1>11, Zenon
    <3> HIDE DEF n, N, a, e
    <3>3. n = N \/ a >= e
      BY <3>2, <1>14, Zenon
    <3> QED BY <3>1, <3>3, <1>6, Zenon
  <2>2. Walked'
    BY <1>1, <1>2, <1>5, <1>11 DEF Walked, Kept
  <2> QED BY <1>1, <1>5, <1>11, <2>1, <2>2, Zenon DEF Walk
<1>12. CASE h.name # "" /\ n >= NUM_TARFILES /\ pc' = "overrun" /\ headers' = headers /\ n' = n
  <2>1. NUM_TARFILES \in Nat \ {0}
    BY InitrdAssumption, Zenon
  <2>2. N > NUM_TARFILES \/ tail <= 0
    <3>1. CASE n < N
      <4>1. n >= NUM_TARFILES
        BY <1>12, Zenon
      <4> QED BY ONLY <4>1, <3>1, <2>1, <1>3
    <3>2. CASE n = N
      <4>1. n # 0 /\ ~(n < N)
        <5>1. n >= NUM_TARFILES
          BY <1>12, Zenon
        <5> QED BY ONLY <5>1, <3>2, <2>1, <1>3
      <4>2. a >= e /\ a <= e
        BY <4>1, <1>2, <1>12, <1>14, Zenon
      <4>3. tail * Block = 0
        <5>1. e - a = tail * Block
          BY <3>2, <1>3, Zenon
        <5>2. e - a = 0
          BY ONLY <4>2, <1>3, <1>4
        <5> QED BY <5>1, <5>2, Zenon
      <4>4. tail \in Int /\ Block \in Nat \ {0}
        BY <1>2, InitrdAssumption, Zenon DEF Setting
      <4>5. tail = 0
        BY ONLY <4>3, <4>4
      <4> QED BY <4>5
    <3> QED BY <3>1, <3>2, <1>3
  <2>3. Walked'
    BY <1>1, <1>2, <1>5, <1>12, Zenon DEF Walked, Kept
  <2> QED BY <1>1, <1>5, <1>12, <2>2, <2>3 DEF Walk
<1>13. CASE /\ h.name # ""
            /\ headers' = Append(headers, [at |-> a, name |-> h.name, type |-> h.type,
                                           size |-> tar_getsize(h.size)])
            /\ address' = advance(a, tar_getsize(h.size))
            /\ \/ address' > e /\ pc' = "nodes" /\ n' = n
               \/ address' <= e /\ n' = n + 1 /\ pc' = pc
  <2>1. h \in Entries /\ (a >= e \/ (n < N /\ h = archive[n + 1]))
    BY <1>13, <1>14, Zenon
  <2>2. tar_getsize(h.size) \in Nat
    BY <2>1, Extents, Zenon
  <2> DEFINE r == [at |-> a, name |-> h.name, type |-> h.type, size |-> tar_getsize(h.size)]
  <2>3. r \in Headers
    BY <2>1, <2>2, <1>4, Zenon DEF Headers, Entries
  <2>4. /\ headers' = Append(headers, r) /\ r.at = a /\ r.size = tar_getsize(h.size)
    BY <1>13, Zenon
  <2> HIDE DEF r
  <2>5. /\ headers' \in Seq(Headers) /\ Len(headers') = n + 1 /\ headers'[n + 1] = r
        /\ \A k \in 1 .. n : headers'[k] = headers[k]
    BY <2>3, <2>4, <1>2, <1>3
  <2>8. PICK x : x = Block * (1 + Ceiling(tar_getsize(h.size)))
    BY Zenon
  <2>9. a + x < Span
    <3>1. n + 1 \in DOMAIN headers'
      BY <2>5, <1>3
    <3> QED BY <1>0, <2>4, <2>5, <2>8, <3>1, Zenon DEF Fits
  <2>10. x \in Nat /\ x > 0 /\ address' = a + x
    <3>1. x \in Nat /\ x >= Block + tar_getsize(h.size) /\ Block \in Nat \ {0}
          /\ advance(a, tar_getsize(h.size)) = a + x
      BY <1>4, <2>2, <2>8, <2>9, Advances, Zenon
    <3>2. x > 0
      BY ONLY <3>1, <2>2
    <3> QED BY <3>1, <3>2, <1>13, Zenon
  <2>11. n < N /\ h = archive[n + 1] => x = Extent(h)
    <3>1. SUFFICES ASSUME n < N, h = archive[n + 1] PROVE x = Extent(h)
      BY Zenon
    <3>2. n + 1 \in DOMAIN archive
      BY <3>1, <1>2, <1>3 DEF Setting
    <3>3. Octal(h.size) < Span
      BY <1>F, <3>1, <3>2, Zenon DEF Fits
    <3> QED BY <2>1, <2>8, <3>3, Extents, Zenon
  <2>6. CASE address' > e /\ pc' = "nodes" /\ n' = n
    <3>1. n < N => Start[n + 2] > e
      BY <2>1, <2>10, <2>11, <2>6, <1>6, <1>10, Zenon
    <3>2. Walked'
      <4>1. \A k \in 1 .. n : headers'[k] = Kept(k)'
        BY <2>5, <1>1, <1>2, <1>5 DEF Kept
      <4> QED BY <4>1, <2>5, <2>6, <1>1, <1>2, <1>3, <1>5, SMTT(30) DEF Walked
    <3> QED BY <1>1, <1>5, <2>6, <3>1, <3>2, Zenon DEF Walk
  <2>7. CASE address' <= e /\ n' = n + 1 /\ pc' = pc
    <3>1. n < N /\ h = archive[n + 1]
      <4>1. ~(a >= e)
        BY ONLY <2>10, <2>7, <1>3, <1>4
      <4> QED BY <4>1, <2>1, Zenon
    <3>2. address' = Start[n + 2] /\ n + 2 = (n + 1) + 1
      <4>1. address' = Start[n + 2]
        BY <3>1, <2>10, <2>11, <1>10, Zenon
      <4>2. n + 2 = (n + 1) + 1
        BY ONLY <1>3
      <4> QED BY <4>1, <4>2, Zenon
    <3>3. r = Kept(n + 1)
      BY <3>1, Zenon DEF r, Kept
    <3>4. ASSUME NEW k \in 1 .. n + 1 PROVE headers'[k] = Kept(k)'
      <4>1. Kept(k)' = Kept(k)
        BY <1>1, <1>5, Zenon DEF Kept
      <4>2. k \in 1 .. n \/ k = n + 1
        BY <1>3
      <4> QED BY <4>1, <4>2, <3>3, <2>5, <1>2
    <3>5. n + 1 \in 0 .. N
      BY <3>1, <1>3
    <3>6. Walked'
      BY <3>2, <3>4, <3>5, <2>5, <2>7, <1>1, <1>2, <1>3, <1>5, SMTT(30) DEF Walked
    <3> QED BY <1>1, <1>5, <2>5, <2>7, <3>2, <3>6 DEF Walk
  <2> QED BY <1>13, <2>6, <2>7, Zenon
<1> QED BY <1>7, <1>11, <1>12, <1>13

LEMMA WalkInvInit == Init => WalkInv
<1> SUFFICES ASSUME Init PROVE WalkInv
  BY Zenon
<1>1. PICK E : E = [name : STRING \ {""}, type : STRING, size : Digits]
  BY Zenon
<1>2. E \subseteq Entries
  BY <1>1, Zenon DEF Entries, Texts
<1>3. Seq(E) \subseteq Seq(Entries)
  BY ONLY <1>2
<1>4. Archives \subseteq Seq(E) /\ Tails \subseteq Int
  BY <1>1, InitrdAssumption, Zenon
<1>5. 0 \in Nat /\ <<>> \in Seq(Headers) /\ 0 <= Len(<<>>)
  OBVIOUS
<1> QED BY <1>3, <1>4, <1>5, Zenon DEF Init, WalkInv, TarInv, Walk, Setting

(* The places in the state machine that leave the walk alone.              *)
LEMMA Elsewhere ==
    ASSUME tarfs_init \/ Operation \/ ElfStep \/ UNCHANGED vars
    PROVE  /\ UNCHANGED <<boot, module, address, headers, tarfs_files>>
           /\ \/ pc' = pc
              \/ pc \in {"nodes", "mounted"} /\ pc' \in {"mounted", "stale", "wild"}
<1>1. CASE tarfs_init
  BY <1>1, Zenon DEF tarfs_init
<1>2. CASE Operation
  <2>1. CASE \E n \in Nodes, offset \in Offsets, size \in Sizes : read_fs(n, offset, size)
    BY <2>1, Zenon DEF read_fs, Answer, tar
  <2>2. CASE \E n \in Nodes, name \in Names : finddir_fs(n, name)
    BY <2>2, Zenon DEF finddir_fs, tarfs_finddir, Usable, Answer, tar
  <2>3. CASE \E n \in Nodes, index \in 0 .. Len(inode_list) : readdir_fs(n, index)
    BY <2>3, Zenon DEF readdir_fs, tarfs_readdir, Usable, Answer, tar
  <2>4. CASE \E n \in Nodes : close_fs(n)
    BY <2>4, Zenon DEF close_fs, tar
  <2>5. CASE \E n \in Files : \E binary \in Contents(headers[n + 1].name) : LoadBinary(n, binary)
    BY <2>5, Zenon DEF LoadBinary, tar
  <2> QED BY <1>2, <2>1, <2>2, <2>3, <2>4, <2>5 DEF Operation
<1>3. CASE ElfStep
  BY <1>3, Zenon DEF ElfStep, tar
<1>4. CASE UNCHANGED vars
  BY <1>4, Zenon DEF vars, tar
<1> QED BY <1>1, <1>2, <1>3, <1>4, Zenon

LEMMA WalkInvNext == WalkInv /\ [Next]_vars => WalkInv'
<1> SUFFICES ASSUME WalkInv, [Next]_vars PROVE WalkInv'
  BY Zenon
<1>1. CASE kernel_main
  BY <1>1, WalkStarts, Zenon
<1>2. CASE tar_parse
  BY <1>2, WalkGoesOn, Zenon
<1>3. CASE tarfs_init \/ Operation \/ ElfStep \/ UNCHANGED vars
  <2>1. /\ UNCHANGED <<boot, module, address, headers, tarfs_files>>
        /\ \/ pc' = pc
           \/ pc \in {"nodes", "mounted"} /\ pc' \in {"mounted", "stale", "wild"}
    BY <1>3, Elsewhere, Zenon
  <2> QED BY <2>1, WalkKept, Zenon
<1> QED BY <1>1, <1>2, <1>3, Zenon DEF Next, Mount

(* tar_parse counts exactly the leading entries that lie in the module     *)
(* with all their data, at the places where tar put them and below the     *)
(* bitmap of pmm_init, for every archive, wherever the module ends, for    *)
(* every list of tags, and as long as no size or address exceeds 32 bits.  *)
THEOREM EntriesAreFound == Spec => []WalkFindsEntries
<1>1. WalkInv => WalkFindsEntries
  <2> SUFFICES ASSUME TarInv, Walk, pc # "tags" PROVE WalkFindsEntries
    BY Zenon DEF WalkFindsEntries, WalkInv
  <2> DEFINE n == tarfs_files
             N == Len(archive)
             e == module.end
  <2>1. Setting /\ Walked
    BY Zenon DEF TarInv, Walk
  <2>2. /\ N \in Nat /\ n \in Nat /\ n <= N /\ e \in Nat
        /\ \A k \in 1 .. N : archive[k] \in Entries /\ Start[k + 1] = Start[k] + Extent(archive[k])
        /\ \A k \in 1 .. N + 1 : Start[k] \in Int
        /\ \A j, k \in 1 .. N + 1 : j < k => Start[j] < Start[k]
        /\ DOMAIN archive = 1 .. N
    BY <2>1, StartFacts DEF Setting
  <2>3. \A j, k \in 1 .. N + 1 : j <= k => Start[j] <= Start[k]
    BY <2>2
  <2>4. e <= bitmap_addr(tags) /\ bitmap_addr(tags) \in Nat
    BY <2>1, LastModule, Zenon DEF Setting, Walked
  <2>5. ASSUME NEW k \in 1 .. n
        PROVE  /\ k \in DOMAIN archive /\ headers[k].at = Start[k] /\ Start[k + 1] <= e
               /\ headers[k].at + Block + headers[k].size <= bitmap_addr(tags)
    <3>1. k \in 1 .. N /\ k + 1 \in 1 .. N + 1 /\ n + 1 \in 1 .. N + 1 /\ k + 1 <= n + 1
          /\ n # 0 /\ k \in 1 .. N + 1
      BY <2>2
    <3>2. Start[k + 1] <= Start[n + 1] /\ Start[n + 1] <= e
      BY <3>1, <2>1, <2>3, Zenon DEF Walked
    <3>3. headers[k].at = Start[k] /\ headers[k].size = tar_getsize(archive[k].size)
      <4>1. headers[k] = Kept(k)
        BY <2>1, <2>5, Zenon DEF Walked
      <4> QED BY ONLY <4>1 DEF Kept
    <3>4. archive[k] \in Entries /\ Start[k + 1] = Start[k] + Extent(archive[k])
      BY <3>1, <2>2, Zenon
    <3>5. /\ tar_getsize(archive[k].size) \in Nat /\ Extent(archive[k]) \in Nat
          /\ Block \in Nat \ {0} /\ Extent(archive[k]) >= Block + tar_getsize(archive[k].size)
      BY <3>4, Extents, Zenon
    <3>6. Start[k] \in Int /\ Start[k + 1] \in Int /\ Start[n + 1] \in Int
      BY <3>1, <2>2, Zenon
    <3>7. Start[k + 1] <= e
      BY ONLY <3>2, <3>6, <2>2
    <3>8. Start[k] + Block + tar_getsize(archive[k].size) <= bitmap_addr(tags)
      <4>1. PICK a \in Int, b \in Int : a = Start[k] /\ b = Start[k + 1]
        BY <3>6, Zenon
      <4>2. PICK x \in Nat, u \in Nat : x = Extent(archive[k]) /\ u = tar_getsize(archive[k].size)
        BY <3>5, Zenon
      <4>3. PICK l \in Nat : l = bitmap_addr(tags)
        BY <2>4, Zenon
      <4>4. b = a + x /\ x >= Block + u /\ b <= e /\ e <= l /\ e \in Nat /\ Block \in Nat
        BY <3>4, <3>5, <3>7, <2>2, <2>4, <4>1, <4>2, <4>3, Zenon
      <4>5. a + Block + u <= l
        <5> HIDE DEF e
        <5> QED BY ONLY <4>4
      <4> QED BY <4>1, <4>2, <4>3, <4>5, Zenon
    <3> QED BY <3>1, <3>3, <3>7, <3>8, <2>2, Zenon
  <2>6. ASSUME pc \notin {"tags", "parse", "overrun"}, NEW k \in 1 .. N, ~(k <= n)
        PROVE  ~(Start[k + 1] <= e)
    <3>1. n < N /\ n + 2 \in 1 .. N + 1 /\ k + 1 \in 1 .. N + 1 /\ n + 2 <= k + 1
      BY <2>2, <2>6
    <3>2. Start[n + 2] <= Start[k + 1] /\ Start[n + 2] \in Int /\ Start[k + 1] \in Int
      BY <3>1, <2>2, <2>3, Zenon
    <3>3. Start[n + 2] > e
      BY <3>1, <2>6, Zenon DEF Walk
    <3> QED BY ONLY <3>2, <3>3, <2>2
  <2>7. pc \in {"nodes", "mounted"} =>
          /\ \A k \in 1 .. n : /\ k \in DOMAIN archive /\ headers[k].at = Start[k]
                               /\ headers[k].at + Block + headers[k].size <= bitmap_addr(tags)
          /\ \A k \in DOMAIN archive : k <= n <=> Start[k + 1] <= e
    <3>1. \A k \in 1 .. N : k <= n => k \in 1 .. n
      BY <2>2
    <3> QED BY <3>1, <2>2, <2>5, <2>6, Zenon
  <2>8. pc = "overrun" => Len(archive) > NUM_TARFILES \/ tail <= 0
    BY Zenon DEF Walk
  <2> QED BY <2>7, <2>8, Zenon DEF WalkFindsEntries
<1> QED BY <1>1, WalkInvInit, WalkInvNext, PTL DEF Spec

-----------------------------------------------------------------------------
(***************************************************************************)
(* The nodes.  The list is in the order opposite to the archive, so its    *)
(* p-th node belongs to the entry i - p; an entry that is no regular file  *)
(* repeats the last one that was, or NULL.                                 *)
(***************************************************************************)
FileHeaders == {l \in 1 .. tarfs_files - 1 : headers[l + 1].type = "REGTYPE"}

(* v is the last regular file among the headers up to k, NULL if none.     *)
LastFile(v, k) ==
    /\ v = NULL \/ (v \in FileHeaders /\ v <= k)
    /\ \A l \in FileHeaders : l <= k => l <= v

NodesInv ==
    /\ pc \in {"tags", "parse", "overrun"} =>
          node = NULL /\ i = 1 /\ inode_list = <<>> /\ answer = NoAnswer
    /\ pc = "nodes" => answer = NoAnswer
    /\ i \in Nat \ {0} /\ (i = 1 \/ i <= tarfs_files)
    /\ pc \in {"mounted", "stale", "wild"} => i >= tarfs_files
    /\ pc \in {"tags", "parse", "overrun", "nodes", "mounted", "stale", "wild"}
    /\ inode_list \in Seq(Nat) /\ Len(inode_list) = i - 1
    /\ LastFile(node, i - 1)
    /\ \A p \in 1 .. i - 1 : LastFile(inode_list[p], i - p)

LEMMA NodesInvInit == Init => NodesInv
<1> SUFFICES ASSUME Init PROVE NodesInv
  BY Zenon
<1>1. node = NULL /\ i = 1 /\ inode_list = <<>> /\ answer = NoAnswer /\ pc = "tags" /\ tarfs_files = 0
  BY Zenon DEF Init
<1>2. LastFile(0, 0)
  BY Zenon DEF LastFile, NULL
<1>3. i - 1 = 0 /\ Len(inode_list) = 0 /\ inode_list \in Seq(Nat)
  BY <1>1
<1>4. \A p \in 1 .. 0 : FALSE
  OBVIOUS
<1> QED BY <1>1, <1>2, <1>3, <1>4 DEF NodesInv, NULL

(* The walk makes no nodes.                                                *)
LEMMA NodesDuringWalk ==
    ASSUME NodesInv, kernel_main \/ tar_parse
    PROVE  NodesInv'
<1>1. /\ pc \in {"tags", "parse"} /\ pc' \in {"parse", "overrun", "nodes"}
      /\ UNCHANGED <<node, i, inode_list, answer>>
  BY Zenon DEF NodesInv, kernel_main, tar_parse
<1>2. node = NULL /\ i = 1 /\ inode_list = <<>> /\ answer = NoAnswer
  BY <1>1, Zenon DEF NodesInv
<1>3. LastFile(0, 0)'
  BY Zenon DEF LastFile, NULL
<1>4. i' - 1 = 0 /\ Len(inode_list') = 0 /\ inode_list' \in Seq(Nat) /\ node' = 0
  BY <1>1, <1>2 DEF NULL
<1>5. \A p \in 1 .. 0 : FALSE
  OBVIOUS
<1> QED BY <1>1, <1>2, <1>3, <1>4, <1>5 DEF NodesInv, NULL

(* A round of tarfs_init takes one more entry.                             *)
LEMMA NodesGrow ==
    ASSUME NodesInv, TarInv, tarfs_init
    PROVE  NodesInv'
<1>0. /\ pc = "nodes" /\ UNCHANGED <<boot, headers, tarfs_files, answer>> /\ answer = NoAnswer
      /\ i \in Nat \ {0} /\ inode_list \in Seq(Nat) /\ Len(inode_list) = i - 1
  BY Zenon DEF tarfs_init, NodesInv
<1>1. FileHeaders' = FileHeaders
  BY <1>0, Zenon DEF FileHeaders
<1>2. \A v, k : LastFile(v, k)' <=> LastFile(v, k)
  BY <1>1, Zenon DEF LastFile
<1>3. CASE i >= tarfs_files /\ pc' = "mounted" /\ UNCHANGED <<node, i, inode_list>>
  <2>1. LastFile(node, i - 1) /\ \A p \in 1 .. i - 1 : LastFile(inode_list[p], i - p)
    BY Zenon DEF NodesInv
  <2>2. /\ LastFile(node, i - 1)'
        /\ \A p \in 1 .. i' - 1 : LastFile(inode_list[p], i - p)'
    BY <1>1, <1>3, <2>1, Zenon DEF LastFile
  <2> QED BY <1>0, <1>3, <2>2, Zenon DEF NodesInv
<1>4. CASE /\ i < tarfs_files /\ node' = next_node /\ i' = i + 1
           /\ inode_list' = list_insert_front(node') /\ pc' = pc
  <2>1. tarfs_files \in Nat /\ i \in 1 .. tarfs_files - 1
    <3>1. tarfs_files \in Nat
      BY Zenon DEF TarInv
    <3> QED BY <1>0, <1>4, <3>1
  <2>2. LastFile(node', i) /\ node' \in Nat
    <3>1. LastFile(node, i - 1)
      BY Zenon DEF NodesInv
    <3>2. \A l \in FileHeaders : l \in Nat
      BY <2>1 DEF FileHeaders
    <3>3. CASE headers[i + 1].type = "REGTYPE"
      <4>1. node' = i /\ i \in FileHeaders
        BY <1>4, <2>1, <3>3, Zenon DEF next_node, FileHeaders
      <4> QED BY <4>1, <1>0 DEF LastFile
    <3>4. CASE headers[i + 1].type # "REGTYPE"
      <4>1. node' = node /\ i \notin FileHeaders
        BY <1>4, <2>1, <3>4, Zenon DEF next_node, FileHeaders
      <4>2. node \in Nat
        BY <3>1, <3>2 DEF LastFile, NULL
      <4>3. \A l \in FileHeaders : l <= i => l <= i - 1
        BY <1>0, <3>2, <4>1
      <4>4. node <= i - 1 => node <= i
        BY <1>0, <4>2
      <4> QED BY <3>1, <4>1, <4>2, <4>3, <4>4 DEF LastFile
    <3> QED BY <3>3, <3>4, Zenon
  <2>3. /\ inode_list' \in Seq(Nat) /\ Len(inode_list') = i /\ inode_list'[1] = node'
        /\ \A p \in 2 .. i : inode_list'[p] = inode_list[p - 1]
    <3>1. inode_list' = <<node'>> \o inode_list
      BY <1>4, Zenon DEF list_insert_front
    <3> QED BY ONLY <1>0, <2>2, <3>1
  <2>4. ASSUME NEW p \in 1 .. i PROVE LastFile(inode_list'[p], i' - p)
    <3>1. CASE p = 1
      <4>1. i' - p = i
        BY <1>0, <1>4, <3>1
      <4> QED BY <2>2, <2>3, <3>1, <4>1, Zenon
    <3>2. CASE p # 1
      <4>1. p \in 2 .. i /\ p - 1 \in 1 .. i - 1 /\ i - (p - 1) = i' - p
        BY <1>0, <1>4, <3>2
      <4>2. LastFile(inode_list[p - 1], i - (p - 1))
        BY <4>1, Zenon DEF NodesInv
      <4> QED BY <2>3, <4>1, <4>2, Zenon
    <3> QED BY <3>1, <3>2, Zenon
  <2>5. i' - 1 = i /\ i' \in Nat \ {0} /\ i' <= tarfs_files
    BY <1>0, <1>4, <2>1
  <2>6. LastFile(node, i - 1)'
    BY <1>1, <2>2, <2>5, Zenon DEF LastFile
  <2>7. \A p \in 1 .. i' - 1 : LastFile(inode_list[p], i - p)'
    BY <1>1, <2>4, <2>5, Zenon DEF LastFile
  <2> QED BY <1>0, <1>4, <2>3, <2>5, <2>6, <2>7 DEF NodesInv
<1> QED BY <1>3, <1>4, Zenon DEF tarfs_init

(* What the file operations leave alone.                                   *)
LEMMA Unmoved ==
    ASSUME Operation \/ ElfStep \/ UNCHANGED vars
    PROVE  /\ UNCHANGED <<boot, tar>>
           /\ pc' = pc \/ (pc = "mounted" /\ pc' \in {"stale", "wild"})
           /\ answer' = answer \/ pc = "mounted"
<1>1. CASE Operation
  <2>1. CASE \E n \in Nodes, offset \in Offsets, size \in Sizes : read_fs(n, offset, size)
    BY <2>1, Zenon DEF read_fs, Usable, Answer
  <2>2. CASE \E n \in Nodes, name \in Names : finddir_fs(n, name)
    BY <2>2, Zenon DEF finddir_fs, tarfs_finddir, Usable, Answer
  <2>3. CASE \E n \in Nodes, index \in 0 .. Len(inode_list) : readdir_fs(n, index)
    BY <2>3, Zenon DEF readdir_fs, tarfs_readdir, Usable, Answer
  <2>4. CASE \E n \in Nodes : close_fs(n)
    BY <2>4, Zenon DEF close_fs, Usable
  <2>5. CASE \E n \in Files : \E binary \in Contents(headers[n + 1].name) : LoadBinary(n, binary)
    BY <2>5, Zenon DEF LoadBinary, Usable
  <2> QED BY <1>1, <2>1, <2>2, <2>3, <2>4, <2>5, Zenon DEF Operation
<1>2. CASE ElfStep
  BY <1>2, Zenon DEF ElfStep
<1>3. CASE UNCHANGED vars
  BY <1>3, Zenon DEF vars
<1> QED BY <1>1, <1>2, <1>3, Zenon

LEMMA NodesInvNext == NodesInv /\ TarInv /\ [Next]_vars => NodesInv'
<1> SUFFICES ASSUME NodesInv, TarInv, [Next]_vars PROVE NodesInv'
  BY Zenon
<1>1. CASE kernel_main \/ tar_parse
  BY <1>1, NodesDuringWalk, Zenon
<1>2. CASE tarfs_init
  BY <1>2, NodesGrow, Zenon
<1>3. CASE Operation \/ ElfStep \/ UNCHANGED vars
  <2>1. /\ UNCHANGED <<boot, tar>>
        /\ pc' = pc \/ (pc = "mounted" /\ pc' \in {"stale", "wild"})
        /\ answer' = answer \/ pc = "mounted"
    BY <1>3, Unmoved, Zenon
  <2>2. UNCHANGED <<headers, tarfs_files, node, i, inode_list>>
    BY <2>1, Zenon DEF tar
  <2>3. FileHeaders' = FileHeaders
    BY <2>2, Zenon DEF FileHeaders
  <2>4. LastFile(node, i - 1)' /\ \A p \in 1 .. i' - 1 : LastFile(inode_list[p], i - p)'
    BY <2>2, <2>3, Zenon DEF NodesInv, LastFile
  <2> QED BY <2>1, <2>2, <2>4, Zenon DEF NodesInv
<1> QED BY <1>1, <1>2, <1>3, Zenon DEF Next, Mount

(* A node of the list that is not NULL is a regular file.                  *)
LEMMA FilesAreRegular ==
    ASSUME NodesInv, TarInv, NEW k \in Range(inode_list), k # NULL
    PROVE  k \in FileHeaders /\ length(k) \in Nat
<1>1. /\ inode_list \in Seq(Nat) /\ Len(inode_list) = i - 1
      /\ tarfs_files \in Nat /\ headers \in Seq(Headers) /\ tarfs_files <= Len(headers)
  BY Zenon DEF TarInv, NodesInv
<1>2. PICK p \in 1 .. i - 1 : k = inode_list[p]
  BY <1>1 DEF Range
<1>3. k \in FileHeaders
  BY <1>2, Zenon DEF NodesInv, LastFile
<1>4. k \in 1 .. tarfs_files - 1
  BY <1>3, Zenon DEF FileHeaders
<1>5. k + 1 \in 1 .. Len(headers)
  BY <1>1, <1>4
<1>6. headers[k + 1] \in Headers
  BY <1>1, <1>5
<1> QED BY <1>3, <1>6, Zenon DEF Headers, length

(* When the walk was right the headers are those of the archive.           *)
LEMMA FilesOfTheArchive ==
    ASSUME WalkInv, Fits, pc = "mounted", NEW k \in Int, k <= tarfs_files - 1
    PROVE  /\ Regular(k) = {l \in FileHeaders : l <= k}
           /\ \A l \in FileHeaders : headers[l + 1].name = archive[l + 1].name
<1>1. tarfs_files \in Nat /\ \A l \in 1 .. tarfs_files : headers[l] = Kept(l)
  BY Zenon DEF WalkInv, TarInv, Walk, Walked
<1>2. ASSUME NEW l \in 1 .. tarfs_files - 1
      PROVE  headers[l + 1].type = archive[l + 1].type /\ headers[l + 1].name = archive[l + 1].name
  <2>1. l + 1 \in 1 .. tarfs_files
    BY <1>1
  <2>2. headers[l + 1] = Kept(l + 1)
    BY <1>1, <2>1, Zenon
  <2> QED BY ONLY <2>2 DEF Kept
<1>3. \A l : l \in 1 .. k <=> l \in 1 .. tarfs_files - 1 /\ l <= k
  BY <1>1
<1> QED BY <1>2, <1>3, Zenon DEF Regular, FileHeaders

(* The latest of a set of inodes.                                          *)
LEMMA LatestIs ==
    ASSUME NEW S \in SUBSET Nat, NEW v,
           (v = NULL /\ S = {}) \/ (v \in S /\ \A l \in S : l <= v)
    PROVE  Latest(S) = v
<1>1. CASE S = {}
  BY <1>1, Zenon DEF Latest
<1>2. CASE S # {}
  <2>1. v \in S /\ \A l \in S : l <= v
    BY <1>2, Zenon
  <2>2. PICK w : w = CHOOSE k \in S : \A l \in S : l <= k
    BY Zenon
  <2>3. w \in S /\ \A l \in S : l <= w
    BY <2>1, <2>2, Zenon
  <2>4. v \in Nat /\ w \in Nat /\ v <= w /\ w <= v
    BY <2>1, <2>3, Zenon
  <2>5. v = w
    BY ONLY <2>4
  <2> QED BY <1>2, <2>2, <2>5, Zenon DEF Latest
<1> QED BY <1>1, <1>2, Zenon

(* The files of a name, and their positions in the list.                   *)
Named(name) == {k \in FileHeaders : headers[k + 1].name = name}
Hits(name) == {p \in 1 .. Len(inode_list) : inode_list[p] # NULL
                                            /\ headers[inode_list[p] + 1].name = name}

(* The first node of a name in the list is the last file of that name in   *)
(* the archive.                                                            *)
LEMMA FirstIsLast ==
    ASSUME NodesInv, TarInv, pc = "mounted", NEW name
    PROVE  /\ Hits(name) = {} => Named(name) = {}
           /\ Hits(name) # {} => /\ Min(Hits(name)) \in Hits(name)
                                 /\ inode_list[Min(Hits(name))] \in Named(name)
                                 /\ \A l \in Named(name) : l <= inode_list[Min(Hits(name))]
<1> DEFINE P == Hits(name)
           named == Named(name)
<1>0. /\ named = {k \in FileHeaders : headers[k + 1].name = name}
      /\ P = {p \in 1 .. Len(inode_list) : inode_list[p] # NULL
                                           /\ headers[inode_list[p] + 1].name = name}
  BY Zenon DEF Named, Hits
<1> HIDE DEF P, named
<1>1. /\ inode_list \in Seq(Nat) /\ Len(inode_list) = i - 1 /\ i \in Nat \ {0}
      /\ i >= tarfs_files /\ (i = 1 \/ i <= tarfs_files)
      /\ \A p \in 1 .. i - 1 : LastFile(inode_list[p], i - p)
  BY Zenon DEF NodesInv
<1>2. tarfs_files \in Nat
  BY Zenon DEF TarInv
<1>3. \A k \in 1 .. tarfs_files - 1 : k \in 1 .. i - 1 /\ i - k \in 1 .. i - 1 /\ i - (i - k) = k
  BY <1>1, <1>2
<1>4. ASSUME NEW l \in named PROVE i - l \in P /\ inode_list[i - l] = l
  <2>1. l \in FileHeaders /\ l \in 1 .. tarfs_files - 1 /\ headers[l + 1].name = name
    BY <1>0, <1>4, Zenon DEF FileHeaders
  <2>2. i - l \in 1 .. i - 1 /\ LastFile(inode_list[i - l], l)
    BY <1>1, <1>3, <2>1, Zenon
  <2>3. PICK v : v = inode_list[i - l]
    BY Zenon
  <2>4. v \in Nat
    BY <1>1, <2>2, <2>3
  <2>5. v = l
    <3>1. l <= v /\ (v = 0 \/ v <= l) /\ l \in Nat /\ l # 0
      BY <1>2, <2>1, <2>2, <2>3 DEF LastFile, NULL
    <3> QED BY ONLY <2>4, <3>1
  <2>6. l # NULL
    BY <1>2, <2>1 DEF NULL
  <2> QED BY <1>0, <1>1, <2>1, <2>2, <2>3, <2>5, <2>6
<1>5. P = {} => named = {}
  BY <1>4, Zenon
<1>6. ASSUME P # {} PROVE /\ Min(P) \in P
                          /\ inode_list[Min(P)] \in named
                          /\ \A l \in named : l <= inode_list[Min(P)]
  <2>1. P \in SUBSET Nat
    BY <1>0
  <2>2. PICK m \in P : \A p \in P : m <= p
    BY <1>6, <2>1, LeastNatural, Zenon
  <2>3. Min(P) \in P /\ \A p \in P : Min(P) <= p
    BY <2>2, Zenon DEF Min
  <2>4. PICK q : q = Min(P)
    BY Zenon
  <2>5. q \in P /\ \A p \in P : q <= p
    BY <2>3, <2>4, Zenon
  <2>6. PICK v : v = inode_list[q]
    BY Zenon
  <2>7. q \in 1 .. i - 1 /\ v # NULL /\ headers[v + 1].name = name /\ LastFile(v, i - q)
    BY <1>0, <1>1, <2>5, <2>6, Zenon
  <2>9. v \in named
    BY <1>0, <2>7, Zenon DEF LastFile
  <2>10. ASSUME NEW l \in named PROVE l <= v
    <3>1. i - l \in P /\ l \in FileHeaders /\ l \in Int
      BY <1>0, <1>2, <1>4 DEF FileHeaders
    <3>2. q <= i - l
      BY <2>5, <3>1, Zenon
    <3>3. l <= i - q
      BY <1>1, <2>7, <3>1, <3>2
    <3> QED BY <2>7, <3>1, <3>3, Zenon DEF LastFile
  <2> QED BY <2>4, <2>5, <2>6, <2>9, <2>10, Zenon
<1> QED BY <1>5, <1>6, Zenon DEF P, named

LEMMA FindIsRight ==
    ASSUME NodesInv, WalkInv, NEW n, NEW name, finddir_fs(n, name)
    PROVE  AnswersAreRight'
<1>0. pc = "mounted" /\ UNCHANGED <<boot, tar>> /\ TarInv
  BY Zenon DEF finddir_fs, Usable, tarfs_finddir, Answer, WalkInv
<1>1. CASE Answer(NoAnswer) \/ Answer([op |-> "not a directory", node |-> n])
  <2>1. answer' = NoAnswer \/ answer' = [op |-> "not a directory", node |-> n]
    BY <1>1, Zenon DEF Answer
  <2>2. NoAnswer.op = "none" /\ [op |-> "not a directory", node |-> n].op = "not a directory"
    BY Zenon DEF NoAnswer
  <2>3. answer'.op \notin {"finddir", "readdir", "read"}
    BY <2>1, <2>2, Zenon
  <2> QED BY <2>3, Zenon DEF AnswersAreRight
<1>2. CASE tarfs_finddir(name)
  <2> DEFINE P == Hits(name)
             named == Named(name)
             passed == IF P # {} THEN Min(P) ELSE 0
  <2>1. answer' = [op |-> "finddir", name |-> name,
                   found |-> IF passed = 0 THEN NULL ELSE inode_list[passed]]
    BY <1>2, Zenon DEF tarfs_finddir, Answer, Hits
  <2>2. P \subseteq Nat \ {0}
    BY DEF Hits
  <2>3. /\ P = {} => named = {}
        /\ P # {} => /\ Min(P) \in P
                     /\ inode_list[Min(P)] \in named
                     /\ \A l \in named : l <= inode_list[Min(P)]
    BY <1>0, FirstIsLast, Zenon
  <2>4. tarfs_files \in Nat /\ named \in SUBSET Nat
    <3>1. tarfs_files \in Nat
      BY <1>0, Zenon DEF TarInv
    <3> QED BY <3>1, SMTT(30) DEF Named, FileHeaders
  <2> HIDE DEF P, named
  <2>5. passed = 0 <=> P = {}
    BY <2>2, <2>3, Zenon
  <2>6. answer'.found = Latest(named)
    <3>1. CASE P = {}
      <4>1. answer'.found = NULL /\ named = {}
        BY <2>1, <2>3, <2>5, <3>1, Zenon
      <4> QED BY <4>1, Zenon DEF Latest
    <3>2. CASE P # {}
      <4>1. answer'.found = inode_list[Min(P)]
        BY <2>1, <2>3, <2>5, <3>2, Zenon
      <4> QED BY <2>3, <2>4, <3>2, <4>1, LatestIs, Zenon
    <3> QED BY <3>1, <3>2, Zenon
  <2>7. /\ tarfs_files' = tarfs_files /\ archive' = archive /\ headers' = headers
        /\ answer'.name = name /\ answer'.op = "finddir"
    BY <1>0, <2>1, Zenon DEF boot, tar
  <2>8. ASSUME Fits'
        PROVE  named = {k \in Regular(tarfs_files - 1) : archive[k + 1].name = name}
    <3>1. Fits
      BY <2>7, <2>8, Zenon DEF Fits
    <3>2. tarfs_files - 1 \in Int /\ tarfs_files - 1 <= tarfs_files - 1
          /\ \A l \in 1 .. tarfs_files - 1 : l <= tarfs_files - 1
      BY <2>4
    <3>3. PICK t \in Int : t = tarfs_files - 1 /\ t <= tarfs_files - 1
      BY <3>2, Zenon
    <3>4. /\ Regular(t) = {l \in FileHeaders : l <= t}
          /\ \A l \in FileHeaders : headers[l + 1].name = archive[l + 1].name
      BY <1>0, <3>1, <3>3, FilesOfTheArchive, Zenon
    <3>5. \A l \in FileHeaders : l <= t
      BY <3>2, <3>3, Zenon DEF FileHeaders
    <3> QED BY <3>3, <3>4, <3>5, Zenon DEF named, Named
  <2>10. Fits' => answer'.found =
            Latest({k \in Regular(tarfs_files - 1) : archive[k + 1].name = answer.name})'
    BY <2>6, <2>7, <2>8, Zenon DEF Latest, Regular
  <2> QED BY <2>7, <2>10, Zenon DEF AnswersAreRight, Latest
<1> QED BY <1>1, <1>2, Zenon DEF finddir_fs

LEMMA ListIsRight ==
    ASSUME NodesInv, WalkInv, NEW n, NEW index \in 0 .. Len(inode_list), readdir_fs(n, index)
    PROVE  AnswersAreRight'
<1>0. pc = "mounted" /\ UNCHANGED <<boot, tar>> /\ TarInv
  BY Zenon DEF readdir_fs, Usable, tarfs_readdir, Answer, WalkInv
<1>1. CASE Answer(NoAnswer)
  <2>1. answer'.op = "none"
    BY <1>1, Zenon DEF Answer, NoAnswer
  <2>2. answer'.op \notin {"finddir", "readdir", "read"}
    BY <2>1, Zenon
  <2> QED BY <2>2, Zenon DEF AnswersAreRight
<1>2. CASE tarfs_readdir(index)
  <2>1. answer' = [op |-> "readdir", index |-> index,
                   inode |-> IF index < Len(inode_list) THEN inode_list[index + 1] ELSE -1]
    BY <1>2, Zenon DEF tarfs_readdir, Answer
  <2>2. /\ inode_list \in Seq(Nat) /\ Len(inode_list) = i - 1 /\ i \in Nat \ {0}
        /\ i >= tarfs_files /\ (i = 1 \/ i <= tarfs_files) /\ tarfs_files \in Nat
    BY <1>0, Zenon DEF NodesInv, TarInv
  <2>3. /\ tarfs_files' = tarfs_files /\ archive' = archive /\ headers' = headers
        /\ answer'.index = index /\ answer'.op = "readdir"
        /\ answer'.inode = IF index < Len(inode_list) THEN inode_list[index + 1] ELSE -1
    BY <1>0, <2>1, Zenon DEF boot, tar
  <2>4. PICK k \in Int : k = tarfs_files - 1 - index
    BY <2>2
  <2>5. ASSUME Fits' PROVE answer'.inode = IF k < 1 THEN -1 ELSE Latest(Regular(k))
    <3>1. CASE index < Len(inode_list)
      <4>1. /\ index + 1 \in 1 .. i - 1 /\ i - (index + 1) = k /\ k \in 1 .. tarfs_files - 1
            /\ ~(k < 1) /\ k <= tarfs_files - 1
        BY <2>2, <2>4, <3>1
      <4>2. PICK v : v = inode_list[index + 1]
        BY Zenon
      <4>3. LastFile(v, k)
        BY <4>1, <4>2, Zenon DEF NodesInv
      <4>4. Regular(k) = {l \in FileHeaders : l <= k}
        <5>1. Fits
          BY <2>3, <2>5, Zenon DEF Fits
        <5> QED BY <1>0, <4>1, <5>1, FilesOfTheArchive, Zenon
      <4>5. \A l \in FileHeaders : l \in Nat /\ ~(l <= 0)
        BY <2>2 DEF FileHeaders
      <4>6. Latest(Regular(k)) = v
        <5>1. Regular(k) \in SUBSET Nat
          BY <4>4, <4>5, Zenon
        <5>2. (v = NULL /\ Regular(k) = {}) \/ (v \in Regular(k) /\ \A l \in Regular(k) : l <= v)
          BY <4>3, <4>4, <4>5, Zenon DEF LastFile, NULL
        <5> QED BY <5>1, <5>2, LatestIs, Zenon
      <4> QED BY <2>3, <3>1, <4>1, <4>2, <4>6, Zenon
    <3>2. CASE ~(index < Len(inode_list))
      <4>1. k < 1
        BY <2>2, <2>4, <3>2
      <4> QED BY <2>3, <3>2, <4>1, Zenon
    <3> QED BY <3>1, <3>2, Zenon
  <2>7. Fits' => answer'.inode = IF tarfs_files' - 1 - answer'.index < 1 THEN -1
                                 ELSE Latest(Regular(tarfs_files - 1 - answer.index))'
    BY <2>3, <2>4, <2>5, Zenon DEF Latest, Regular
  <2> QED BY <2>3, <2>7, Zenon DEF AnswersAreRight, Latest
<1> QED BY <1>1, <1>2, Zenon DEF readdir_fs

LEMMA ReadIsRight ==
    ASSUME NodesInv, WalkInv, NEW n, NEW offset \in Offsets, NEW size \in Sizes,
           read_fs(n, offset, size)
    PROVE  AnswersAreRight'
<1>0. UNCHANGED <<boot, tar>> /\ TarInv
  BY Zenon DEF read_fs, Answer, WalkInv
<1>1. CASE Answer([op |-> "device read", count |-> size]) \/ Answer([op |-> "no read", count |-> 0])
  <2>1. answer' = [op |-> "device read", count |-> size] \/ answer' = [op |-> "no read", count |-> 0]
    BY <1>1, Zenon DEF Answer
  <2>2. answer'.op = "device read" \/ answer'.op = "no read"
    <3>1. [op |-> "device read", count |-> size].op = "device read"
      BY Zenon
    <3>2. [op |-> "no read", count |-> 0].op = "no read"
      BY Zenon
    <3> QED BY <2>1, <3>1, <3>2, Zenon
  <2>3. answer'.op \notin {"finddir", "readdir", "read"}
    BY <2>2, Zenon
  <2> QED BY <2>3, Zenon DEF AnswersAreRight
<1>2. CASE n \in Files /\ Answer([op |-> "read", node |-> n, offset |-> offset, size |-> size,
                                  first |-> 0, count |-> count_read(n, offset, size)])
  <2>1. answer' = [op |-> "read", node |-> n, offset |-> offset, size |-> size,
                   first |-> 0, count |-> count_read(n, offset, size)]
    BY <1>2, Zenon DEF Answer
  <2>2. length(n)' = length(n)
    BY <1>0, Zenon DEF length, tar
  <2>3. offset \in Nat /\ size \in Nat /\ Span \in Nat \ {0}
    BY InitrdAssumption, ElfAssumption, Zenon
  <2>4. PICK t \in Nat : t = length(n)
    <3>1. length(n) \in Nat
      BY <1>0, <1>2, FilesAreRegular, Zenon DEF Files
    <3> QED BY <3>1, Zenon
  <2>5. ASSUME offset + size < Span
        PROVE  /\ count_read(n, offset, size) =
                     IF t - offset < 0 THEN 0 ELSE IF size < t - offset THEN size ELSE t - offset
               /\ 0 + count_read(n, offset, size) <= t
    <3>1. Add(offset, size) = offset + size
      <4>1. \A x \in Nat : x < Span => x % Span = x
        BY ONLY <2>3
      <4> QED BY <2>3, <2>5, <4>1 DEF Add
    <3>2. PICK c : c = count_read(n, offset, size)
      BY Zenon
    <3>3. c = IF offset > t THEN 0 ELSE IF offset + size > t THEN t - offset ELSE size
      BY <2>4, <3>1, <3>2, Zenon DEF count_read
    <3>4. /\ c = IF t - offset < 0 THEN 0 ELSE IF size < t - offset THEN size ELSE t - offset
          /\ 0 + c <= t
      BY ONLY <2>3, <3>3, t \in Nat
    <3> QED BY <3>2, <3>4, Zenon
  <2>6. /\ answer'.op = "read" /\ answer'.node = n /\ answer'.offset = offset
        /\ answer'.size = size /\ answer'.first = 0
        /\ answer'.count = count_read(n, offset, size)
    BY <2>1, Zenon
  <2>7. answer'.op # "finddir" /\ answer'.op # "readdir"
    BY <2>6, Zenon
  <2>8. length(answer.node)' = t
    BY <2>2, <2>4, <2>6, Zenon
  <2> QED BY <2>5, <2>6, <2>7, <2>8, Zenon DEF AnswersAreRight
<1> QED BY <1>1, <1>2, Zenon DEF read_fs

LEMMA AnswersNext ==
    ASSUME AnswersAreRight, NodesInv, WalkInv, [Next]_vars
    PROVE  AnswersAreRight'
<1>1. CASE answer'.op \notin {"finddir", "readdir", "read"}
  BY <1>1, Zenon DEF AnswersAreRight
<1>2. CASE Mount
  <2>1. answer' = answer /\ pc \in {"tags", "parse", "nodes"}
    BY <1>2, Zenon DEF Mount, kernel_main, tar_parse, tarfs_init
  <2>2. answer'.op = "none"
    BY <2>1 DEF NodesInv, NoAnswer
  <2> QED BY <1>1, <2>2, Zenon
<1>3. CASE Operation
  <2>1. CASE \E n \in Nodes, offset \in Offsets, size \in Sizes : read_fs(n, offset, size)
    BY <2>1, ReadIsRight, Zenon
  <2>2. CASE \E n \in Nodes, name \in Names : finddir_fs(n, name)
    BY <2>2, FindIsRight, Zenon
  <2>3. CASE \E n \in Nodes, index \in 0 .. Len(inode_list) : readdir_fs(n, index)
    BY <2>3, ListIsRight, Zenon
  <2>4. CASE \E n \in Nodes : close_fs(n)
    <3>1. answer'.op = "none"
      BY <2>4 DEF close_fs, NoAnswer
    <3> QED BY <1>1, <3>1, Zenon
  <2>5. CASE \E n \in Files : \E binary \in Contents(headers[n + 1].name) : LoadBinary(n, binary)
    <3>1. answer'.op = "none"
      BY <2>5 DEF LoadBinary, NoAnswer
    <3> QED BY <1>1, <3>1, Zenon
  <2> QED BY <1>3, <2>1, <2>2, <2>3, <2>4, <2>5 DEF Operation
<1>4. CASE ElfStep \/ UNCHANGED vars
  <2>1. UNCHANGED <<archive, pc, tarfs_files, headers, inode_list, answer>>
    BY <1>4, Zenon DEF ElfStep, vars, boot, tar
  <2>2. (Fits' <=> Fits) /\ (\A k : Regular(k)' = Regular(k)) /\ \A k : length(k)' = length(k)
    BY <2>1, Zenon DEF Fits, Regular, length
  <2> QED BY <2>1, <2>2, Zenon DEF AnswersAreRight, Latest
<1> QED BY <1>2, <1>3, <1>4, Zenon DEF Next

(* A search in the ramdisk answers the file that comes last in the archive *)
(* among those of type REGTYPE and of that name, a listing goes through    *)
(* the archive backwards, and a read answers how many bytes there are      *)
(* between the offset and the end of the file, and copies that many of its *)
(* first ones: for every archive whose sizes and addresses do not exceed   *)
(* 32 bits, after any operations, until one runs over a node that close_fs *)
(* has freed.                                                              *)
THEOREM RamdiskAnswers == Spec => []AnswersAreRight
<1>1. Init => AnswersAreRight
  BY SMTT(30) DEF Init, AnswersAreRight, NoAnswer
<1>2. AnswersAreRight /\ NodesInv /\ WalkInv /\ [Next]_vars => AnswersAreRight'
  BY AnswersNext, Zenon
<1>3. WalkInv => TarInv
  BY Zenon DEF WalkInv
<1> QED BY <1>1, <1>2, <1>3, WalkInvInit, WalkInvNext, NodesInvInit, NodesInvNext, PTL DEF Spec
=============================================================================

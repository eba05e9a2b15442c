----------------------------- MODULE HeapProofs -----------------------------
(***************************************************************************)
(* TLAPS proofs about the segment-list heap, for every size of header,     *)
(* granule, canary, page and initial heap that HeapAssumption admits.      *)
(***************************************************************************)
EXTENDS Heap, FiniteSetTheorems, TLAPS

Mult(x) == x % Canary = 0
SegType == [length : Nat, next : Int, last : Int, free : BOOLEAN]
IsHeap(h) == h = [seg |-> h.seg, last_hdr |-> h.last_hdr, end |-> h.end, canary |-> h.canary]

(* The list of h from header 0 to last_hdr, in address order and without a *)
(* gap; lengths are whole canary words.                                    *)
Typed(h) == /\ IsHeap(h) /\ DOMAIN h.seg \subseteq Nat /\ 0 \in DOMAIN h.seg
            /\ h.seg \in [DOMAIN h.seg -> SegType] /\ h.last_hdr \in DOMAIN h.seg /\ h.end \in Nat
Ends(h) == \A a \in DOMAIN h.seg :
    /\ h.seg[a].next \in DOMAIN h.seg \cup {NULL} /\ h.seg[a].last \in DOMAIN h.seg \cup {NULL}
    /\ h.seg[a].last = NULL <=> a = 0
    /\ h.seg[a].next = NULL <=> a = h.last_hdr
    /\ Mult(h.seg[a].length)
Adjacent(h) == \A a \in DOMAIN h.seg :
    a + Hdr + h.seg[a].length = IF h.seg[a].next = NULL THEN h.end ELSE h.seg[a].next
TwoWay(h) == \A a \in DOMAIN h.seg :
    /\ h.seg[a].next # NULL => h.seg[h.seg[a].next].last = a
    /\ h.seg[a].last # NULL => h.seg[h.seg[a].last].next = a
Apart(h) == \A a, b \in DOMAIN h.seg : a < b => a + Hdr + h.seg[a].length <= b
Inside(h) == \A a \in DOMAIN h.seg : a + Hdr + h.seg[a].length <= h.end
Chain(h) == Typed(h) /\ Ends(h) /\ Adjacent(h) /\ TwoWay(h) /\ Apart(h) /\ Inside(h)

(* A free segment has a free one behind it at the headers in X at most.    *)
Loose(h, X) == \A a \in DOMAIN h.seg :
    h.seg[a].free /\ h.seg[a].next # NULL /\ h.seg[h.seg[a].next].free => a \in X

Used(h) == {a \in DOMAIN h.seg : ~h.seg[a].free}

Blocks == /\ Used(heap) = DOMAIN live
          /\ live \in [DOMAIN live -> Nat]
          /\ \A a \in DOMAIN live : live[a] + Canary <= heap.seg[a].length
          /\ IsFiniteSet(DOMAIN live) /\ held = Cardinality(DOMAIN live)
          /\ heap.canary \subseteq DOMAIN live
          /\ overrun = DOMAIN live \ heap.canary

(* While malloc runs nobody has overrun a block, and the block to be moved *)
(* is too small.  After one expansion the last segment is free and short   *)
(* of a page by a header at most; after two it is large enough.            *)
CallType == [want : Nat, size : Nat, old : Int, grown : 0 .. 2]
CallOK == /\ call \in CallType /\ call.old \in DOMAIN live \cup {NULL}
          /\ call # None =>
                /\ call.want \in Sizes /\ call.want > 0 /\ overrun = {}
                /\ Mult(call.size) /\ call.want + Canary <= call.size
                /\ call.grown = 0 => call.size <= call.want + Canary + Granule
                /\ call.grown = 1 => call.size <= call.want + 2 * (Canary + Granule)
                /\ call.old # NULL => heap.seg[call.old].length < call.want + Canary
                /\ call.grown # 0 => heap.seg[heap.last_hdr].free
                /\ call.grown = 1 => heap.seg[heap.last_hdr].length >= Page - Hdr
                /\ call.grown = 2 => heap.seg[heap.last_hdr].length >= call.size

IInv == /\ Chain(heap) /\ Loose(heap, {}) /\ Blocks /\ CallOK
        /\ grows \in BOOLEAN /\ halted \in BOOLEAN
-----------------------------------------------------------------------------
(* Whole canary words.                                                     *)

LEMMA Constants == /\ Canary \in Nat \ {0} /\ MinSplit \in Nat \ {0} /\ Hdr \in Nat \ {0} /\ Mult(Hdr)
                   /\ Granule \in Nat \ {0} /\ Mult(Granule) /\ Page \in Nat \ {0} /\ Mult(Page)
                   /\ HeapSize \in Nat /\ Mult(HeapSize) /\ Hdr + Granule + Canary <= Page
                   /\ Hdr + MinSplit <= HeapSize /\ WordSize \in Nat \ {0} /\ Sizes \subseteq Nat
                   /\ NULL = -1 /\ NULL \notin Nat
                   /\ \A n \in Sizes : n + 2 * (Canary + Granule) + 2 * Page < WordSize
  BY HeapAssumption DEF Mult, NULL

LEMMA Division == ASSUME NEW m \in Nat \ {0}, NEW k \in Int, NEW q \in Int, NEW r \in Int,
                         q = k \div m, r = k % m
                  PROVE  k = q * m + r /\ r \in 0 .. m - 1
  BY Z3T(20)

LEMMA ModUnique ==
    ASSUME NEW m \in Nat \ {0}, NEW k \in Int, NEW q \in Int, NEW r \in 0 .. m - 1, k = q * m + r
    PROVE  k % m = r
  <1> DEFINE a == k \div m
             b == k % m
  <1>1. a \in Int /\ b \in Int /\ a = k \div m /\ b = k % m
    OBVIOUS
  <1> HIDE DEF a, b
  <1>2. k = a * m + b /\ b \in 0 .. m - 1
    BY <1>1, Division
  <1>3. (q - a) * m = b - r
    BY <1>1, <1>2
  <1>4. q - a <= -1 => (q - a) * m <= -m
    BY <1>1, Z3
  <1>5. q - a >= 1 => (q - a) * m >= m
    BY <1>1, Z3
  <1>6. q = a
    BY <1>1, <1>2, <1>3, <1>4, <1>5
  <1>7. QED BY <1>1, <1>2, <1>6

LEMMA ModRange == ASSUME NEW m \in Nat \ {0}, NEW k \in Int
                  PROVE  k % m \in 0 .. m - 1 /\ \E q \in Int : k = q * m + (k % m)
  <1> DEFINE a == k \div m
             b == k % m
  <1>1. a \in Int /\ b \in Int /\ a = k \div m /\ b = k % m
    OBVIOUS
  <1> HIDE DEF a, b
  <1>2. k = a * m + b /\ b \in 0 .. m - 1
    BY <1>1, Division
  <1>3. QED BY <1>1, <1>2

LEMMA MultIs == ASSUME NEW x \in Int PROVE Mult(x) <=> \E q \in Int : x = q * Canary
  <1>1. Canary \in Nat \ {0}
    BY Constants
  <1>2. ASSUME Mult(x) PROVE \E q \in Int : x = q * Canary
    <2>1. PICK q \in Int : x = q * Canary + (x % Canary)
      BY <1>1, ModRange
    <2>2. x = q * Canary
      BY <1>1, <1>2, <2>1 DEF Mult
    <2>3. QED BY <2>2
  <1>3. ASSUME NEW q \in Int, x = q * Canary PROVE Mult(x)
    <2>1. x = q * Canary + 0 /\ 0 \in 0 .. Canary - 1
      BY <1>1, <1>3
    <2>2. QED BY <1>1, <2>1, ModUnique DEF Mult
  <1>4. QED BY <1>2, <1>3

LEMMA MultSum == ASSUME NEW x \in Int, NEW y \in Int, Mult(x), Mult(y)
                 PROVE  /\ Mult(x + y) /\ Mult(x - y)
                        /\ x < y => x + Canary <= y
  <1>1. Canary \in Nat \ {0}
    BY Constants
  <1>2. PICK p \in Int : x = p * Canary
    BY MultIs
  <1>3. PICK q \in Int : y = q * Canary
    BY MultIs
  <1>4. x + y = (p + q) * Canary /\ p + q \in Int
    BY <1>1, <1>2, <1>3
  <1>5. x - y = (p - q) * Canary /\ p - q \in Int
    BY <1>1, <1>2, <1>3
  <1>6. ASSUME x < y PROVE x + Canary <= y
    <2>1. y - x = (q - p) * Canary
      BY <1>1, <1>2, <1>3
    <2>2. q - p <= 0 => (q - p) * Canary <= 0
      BY <1>1, Z3
    <2>3. q - p >= 1 => (q - p) * Canary >= Canary
      BY <1>1, Z3
    <2>4. q - p \in Int /\ y - x > 0
      BY <1>6
    <2>5. QED BY <1>1, <2>1, <2>2, <2>3, <2>4
  <1>7. Mult(x + y) /\ Mult(x - y)
    BY <1>4, <1>5, MultIs
  <1>8. QED BY <1>6, <1>7

(* Rounding down to a unit of whole words.                                 *)
LEMMA RoundDown == ASSUME NEW g \in Nat \ {0}, NEW x \in Int, Mult(g)
                   PROVE  \E r \in 0 .. g - 1, q \in Int : r = x % g /\ x = q * g + r /\ Mult(x - r)
  <1>1. Canary \in Nat \ {0}
    BY Constants
  <1>2. PICK k \in Int : g = k * Canary
    BY MultIs
  <1> DEFINE q == x \div g
             r == x % g
  <1>3. q \in Int /\ r \in Int /\ q = x \div g /\ r = x % g
    OBVIOUS
  <1> HIDE DEF q, r
  <1>4. x = q * g + r /\ r \in 0 .. g - 1
    BY <1>3, Division
  <1>5. x - r = q * g
    BY <1>3, <1>4
  <1>6. q * g = (q * k) * Canary /\ q * k \in Int
    BY <1>1, <1>2, <1>3, Z3
  <1>7. Mult(x - r)
    BY <1>3, <1>5, <1>6, MultIs
  <1>8. QED BY <1>3, <1>4, <1>7

LEMMA RoundUpIs == ASSUME NEW n \in Nat \ {0}
                   PROVE  RoundUp(n) \in Nat /\ n <= RoundUp(n) /\ Page <= RoundUp(n) /\ Mult(RoundUp(n))
  <1>1. Page \in Nat \ {0} /\ Mult(Page) /\ n \in Int
    BY Constants
  <1>2. PICK r \in 0 .. Page - 1, q \in Int : r = n % Page /\ n = q * Page + r /\ Mult(n - r)
    BY ONLY <1>1, RoundDown
  <1>3. RoundUp(n) = IF r > 0 THEN n - r + Page ELSE n
    BY <1>2 DEF RoundUp
  <1>5. q <= -1 => q * Page <= -Page
    BY <1>1, Z3
  <1>6. q >= 1 => q * Page >= Page
    BY <1>1, Z3
  <1>7. q >= 0 /\ (r = 0 => q >= 1)
    BY <1>1, <1>2, <1>5, Z3
  <1>8. q >= 0 => q * Page >= 0
    BY <1>1, Z3
  <1>9. n - r >= 0 /\ (r = 0 => n >= Page)
    BY <1>1, <1>2, <1>6, <1>7, <1>8
  <1>10. Mult(n - r + Page)
    BY <1>1, <1>2, MultSum
  <1>11. r = 0 => n - r = n
    BY <1>2
  <1>12. QED BY <1>1, <1>2, <1>3, <1>9, <1>10, <1>11

LEMMA PaddedIs == ASSUME NEW n \in Nat, n + Canary + Granule < WordSize
                  PROVE  /\ Padded(n) \in Nat /\ Mult(Padded(n))
                         /\ n + Canary <= Padded(n) /\ Padded(n) <= n + Canary + Granule
  <1>1. /\ Canary \in Nat \ {0} /\ Granule \in Nat \ {0} /\ Mult(Granule) /\ WordSize \in Nat \ {0}
    BY Constants
  <1> DEFINE c == n + Canary
  <1>2. c \in Nat /\ c = n + Canary /\ c + Granule < WordSize
    BY <1>1
  <1> HIDE DEF c
  <1>3. \A x \in 0 .. WordSize - 1 : Wrap(x) = x
    <2>1. SUFFICES ASSUME NEW x \in 0 .. WordSize - 1 PROVE Wrap(x) = x
      OBVIOUS
    <2>2. x \in Int /\ x = 0 * WordSize + x /\ 0 \in Int
      BY <1>1
    <2>3. QED BY <1>1, <2>2, ModUnique DEF Wrap
  <1>4. Wrap(n + Canary) = c
    BY <1>1, <1>2, <1>3
  <1>5. PICK r \in 0 .. Granule - 1, q \in Int : r = c % Granule /\ c = q * Granule + r /\ Mult(c - r)
    <2>1. c \in Int
      BY <1>2
    <2>2. QED BY ONLY <1>1, <2>1, RoundDown
  <1>6. Padded(n) = IF r > 0 THEN Wrap(c - r + Granule) ELSE c
    BY <1>4, <1>5 DEF Padded
  <1>8. q <= -1 => q * Granule <= -Granule
    BY <1>1, Z3
  <1>9. q >= 0 => q * Granule >= 0
    BY <1>1, Z3
  <1>7. c = q * Granule + r /\ Mult(c - r)
    BY <1>5
  <1>10. c - r >= 0
    <2>1. r \in Int /\ r < Granule /\ q \in Int /\ q * Granule \in Int
      BY <1>1
    <2>2. q >= 0
      BY ONLY <1>1, <1>2, <1>7, <1>8, <2>1
    <2>3. QED BY ONLY <1>1, <1>2, <1>7, <1>9, <2>1, <2>2
  <1>11. c - r + Granule \in 0 .. WordSize - 1
    BY ONLY <1>1, <1>2, <1>10, r \in 0 .. Granule - 1
  <1>12. Wrap(c - r + Granule) = c - r + Granule
    BY <1>3, <1>11
  <1>13. Mult(c - r + Granule)
    <2>1. c - r \in Int /\ Granule \in Int
      BY ONLY <1>1, <1>2, r \in 0 .. Granule - 1
    <2>2. QED BY ONLY <1>1, <1>7, <2>1, MultSum
  <1>14. r = 0 => c - r = c
    BY <1>2
  <1>15. QED BY <1>1, <1>2, <1>6, <1>7, <1>11, <1>12, <1>13, <1>14
-----------------------------------------------------------------------------
(* What the operations do to the list.                                     *)

(* Headers come and go, but the blocks in use stay as they are.            *)
Same(h, g) == /\ g.end = h.end /\ g.canary = h.canary
              /\ DOMAIN g.seg \subseteq DOMAIN h.seg
              /\ \A x \in DOMAIN g.seg : g.seg[x].free = h.seg[x].free
              /\ \A x \in DOMAIN h.seg : ~h.seg[x].free =>
                    x \in DOMAIN g.seg /\ g.seg[x].length = h.seg[x].length

(* Assigning fields of the heap.                                           *)
LEMMA IsHeapRecord == ASSUME NEW h, IsHeap(h)
                      PROVE  \E s, l, e, c : /\ h = [seg |-> s, last_hdr |-> l, end |-> e, canary |-> c]
                                            /\ h.seg = s /\ h.last_hdr = l /\ h.end = e /\ h.canary = c
  <1>1. PICK s, l, e, c : h = [seg |-> s, last_hdr |-> l, end |-> e, canary |-> c]
    BY Zenon DEF IsHeap
  <1>2. h.seg = s /\ h.last_hdr = l /\ h.end = e /\ h.canary = c
    BY <1>1
  <1>3. QED BY ONLY <1>1, <1>2, Zenon

LEMMA SetList == ASSUME NEW h, IsHeap(h), NEW s, NEW l
                 PROVE  [h EXCEPT !.last_hdr = l, !.seg = s]
                           = [seg |-> s, last_hdr |-> l, end |-> h.end, canary |-> h.canary]
  <1>1. PICK s0, l0, e0, c0 : /\ h = [seg |-> s0, last_hdr |-> l0, end |-> e0, canary |-> c0]
                              /\ h.seg = s0 /\ h.last_hdr = l0 /\ h.end = e0 /\ h.canary = c0
    BY IsHeapRecord
  <1>2. [h EXCEPT !.last_hdr = l] = [seg |-> s0, last_hdr |-> l, end |-> e0, canary |-> c0]
    BY ONLY <1>1
  <1>3. [[seg |-> s0, last_hdr |-> l, end |-> e0, canary |-> c0] EXCEPT !.seg = s]
           = [seg |-> s, last_hdr |-> l, end |-> e0, canary |-> c0]
    OBVIOUS
  <1>4. QED BY <1>1, <1>2, <1>3

LEMMA SetMark == ASSUME NEW h, IsHeap(h), NEW s, NEW c
                 PROVE  [h EXCEPT !.seg = s, !.canary = c]
                           = [seg |-> s, last_hdr |-> h.last_hdr, end |-> h.end, canary |-> c]
  <1>1. PICK s0, l0, e0, c0 : /\ h = [seg |-> s0, last_hdr |-> l0, end |-> e0, canary |-> c0]
                              /\ h.seg = s0 /\ h.last_hdr = l0 /\ h.end = e0 /\ h.canary = c0
    BY IsHeapRecord
  <1>2. [h EXCEPT !.seg = s] = [seg |-> s, last_hdr |-> l0, end |-> e0, canary |-> c0]
    BY ONLY <1>1
  <1>3. [[seg |-> s, last_hdr |-> l0, end |-> e0, canary |-> c0] EXCEPT !.canary = c]
           = [seg |-> s, last_hdr |-> l0, end |-> e0, canary |-> c]
    OBVIOUS
  <1>4. QED BY <1>1, <1>2, <1>3

LEMMA SetCanary == ASSUME NEW h, IsHeap(h), NEW c
                   PROVE  [h EXCEPT !.canary = c]
                             = [seg |-> h.seg, last_hdr |-> h.last_hdr, end |-> h.end, canary |-> c]
  <1>1. PICK s0, l0, e0, c0 : /\ h = [seg |-> s0, last_hdr |-> l0, end |-> e0, canary |-> c0]
                              /\ h.seg = s0 /\ h.last_hdr = l0 /\ h.end = e0 /\ h.canary = c0
    BY IsHeapRecord
  <1>2. QED BY <1>1

LEMMA SetEnd == ASSUME NEW h, IsHeap(h), NEW s, NEW l, NEW e
                PROVE  [h EXCEPT !.end = e, !.last_hdr = l, !.seg = s]
                          = [seg |-> s, last_hdr |-> l, end |-> e, canary |-> h.canary]
  <1>1. PICK s0, l0, e0, c0 : /\ h = [seg |-> s0, last_hdr |-> l0, end |-> e0, canary |-> c0]
                              /\ h.seg = s0 /\ h.last_hdr = l0 /\ h.end = e0 /\ h.canary = c0
    BY IsHeapRecord
  <1>2. [h EXCEPT !.end = e] = [seg |-> s0, last_hdr |-> l0, end |-> e, canary |-> c0]
    BY ONLY <1>1
  <1>3. [[seg |-> s0, last_hdr |-> l0, end |-> e, canary |-> c0] EXCEPT !.last_hdr = l]
           = [seg |-> s0, last_hdr |-> l, end |-> e, canary |-> c0]
    OBVIOUS
  <1>4. [[seg |-> s0, last_hdr |-> l, end |-> e, canary |-> c0] EXCEPT !.seg = s]
           = [seg |-> s, last_hdr |-> l, end |-> e, canary |-> c0]
    OBVIOUS
  <1>5. QED BY <1>1, <1>2, <1>3, <1>4

(* Merging segment a with a free one behind it.                            *)
Combined(h, g, a) ==
    /\ Chain(g) /\ Same(h, g) /\ a \in DOMAIN g.seg /\ g.seg[a].last = h.seg[a].last
    /\ \A X : Loose(h, X) /\ h.seg[a].next \notin X \ {NULL} => Loose(g, X \ {a})
    /\ h.seg[a].next # NULL /\ h.seg[h.seg[a].next].free =>
          /\ g.seg[a].length = h.seg[a].length + h.seg[h.seg[a].next].length + Hdr
          /\ h.last_hdr = h.seg[a].next => g.last_hdr = a

LEMMA Combine ==
    ASSUME NEW h, NEW a \in DOMAIN h.seg, Chain(h), h.seg[a].free,
           NEW g, g = hsh_combine_forward(h, a)
    PROVE  Combined(h, g, a)
  <1> DEFINE D == DOMAIN h.seg
             s == h.seg
  <1>1. PICK n : n = h.seg[a].next
    OBVIOUS
  <1>2. CASE n = NULL \/ ~h.seg[n].free
    <2>1. g = h
      BY <1>1, <1>2 DEF hsh_combine_forward
    <2>2. QED BY <1>1, <1>2, <2>1 DEF Combined, Same, Loose, Used
  <1>3. CASE n # NULL /\ h.seg[n].free
    <2>1. PICK k : k = h.seg[n].next
      OBVIOUS
    <2> DEFINE t == [x \in D \ {n} |->
                        IF x = a THEN [s[a] EXCEPT !.length = @ + s[n].length + Hdr, !.next = s[n].next]
                        ELSE IF x = s[n].next THEN [s[x] EXCEPT !.last = a]
                        ELSE s[x]]
               l == IF h.last_hdr = n THEN a ELSE h.last_hdr
    <2>2. g = [seg |-> t, last_hdr |-> l, end |-> h.end, canary |-> h.canary]
      <3>1. g = [h EXCEPT !.last_hdr = l, !.seg = t]
        BY <1>1, <1>3 DEF hsh_combine_forward, Chain, Typed, IsHeap
      <3>2. QED BY <3>1, SetList DEF Chain, Typed
    <2>3. g.seg = t /\ g.last_hdr = l /\ g.end = h.end /\ g.canary = h.canary /\ IsHeap(g)
      BY <2>2 DEF IsHeap
    <2>4. n \in D /\ a < n /\ s[n].last = a /\ n # 0 /\ a # n /\ a \in D /\ k \in D \cup {NULL} /\ n + Hdr = a + Hdr + Hdr + s[a].length
      BY <1>1, <1>3, <2>1, Constants DEF Chain, Typed, Ends, Adjacent, TwoWay, SegType
    <2>5. k # NULL => k \in D /\ n < k /\ s[k].last = n /\ k # a /\ k # n /\ k # 0
      BY <2>1, <2>4, Constants DEF Chain, Typed, Ends, Adjacent, TwoWay, SegType
    <2>6. DOMAIN t = D \ {n} /\ D \subseteq Nat /\ NULL \notin D
      BY Constants DEF Chain, Typed
    <2>7. \A x \in D \ {n} : /\ t[x].length = IF x = a THEN s[a].length + s[n].length + Hdr ELSE s[x].length
                             /\ t[x].next = IF x = a THEN k ELSE s[x].next
                             /\ t[x].last = IF x = k THEN a ELSE s[x].last
                             /\ t[x].free = s[x].free
                             /\ t[x] \in SegType
      <3>1. TAKE x \in D \ {n}
      <3>2. s[x] \in SegType /\ s[a] \in SegType /\ s[n] \in SegType /\ Hdr \in Nat /\ a \in Int
        BY <2>4, <2>6, Constants DEF Chain, Typed
      <3>3. CASE x = a
        <4>1. PICK u, v : u = s[a] /\ v = s[a].length + s[n].length + Hdr
          OBVIOUS
        <4>2. u \in SegType /\ v \in Nat /\ k \in Int /\ a # k
          BY <2>4, <2>5, <2>6, <3>2, <4>1, Constants DEF SegType
        <4> DEFINE y == [u EXCEPT !.length = v]
                   z == [y EXCEPT !.next = k]
        <4>3. t[x] = z
          <5>1. t[x] = [s[a] EXCEPT !.length = @ + s[n].length + Hdr, !.next = s[n].next]
            BY <2>4, <3>3
          <5>2. QED BY <2>1, <3>2, <4>1, <4>2, <5>1 DEF SegType
        <4>y. y \in SegType /\ y.length = v /\ y.next = u.next /\ y.last = u.last /\ y.free = u.free
          BY ONLY <4>2 DEF SegType
        <4> HIDE DEF y
        <4>z. z \in SegType /\ z.length = y.length /\ z.next = k /\ z.last = y.last /\ z.free = y.free
          BY ONLY <4>2, <4>y DEF SegType
        <4> HIDE DEF z
        <4>4. /\ t[x].length = v /\ t[x].next = k /\ t[x].last = u.last /\ t[x].free = u.free /\ t[x] \in SegType
          BY ONLY <4>3, <4>y, <4>z
        <4> HIDE DEF t
        <4>5. QED BY <3>3, <4>1, <4>2, <4>4
      <3>4. CASE x # a /\ x = k
        BY <2>1, <2>4, <2>5, <2>6, <3>2, <3>4 DEF SegType
      <3>5. CASE x # a /\ x # k
        BY <2>1, <2>4, <2>5, <2>6, <3>2, <3>5 DEF SegType
      <3>6. QED BY <3>3, <3>4, <3>5
    <2>8. /\ \A x \in D : /\ s[x].length \in Nat /\ s[x].next \in D \cup {NULL} /\ s[x].last \in D \cup {NULL}
                          /\ s[x].free \in BOOLEAN
          /\ h.last_hdr \in D /\ s[a].next = n
      BY <1>1 DEF Chain, Typed, Ends, SegType
    <2>9. \A x \in D : s[x].next = n => x = a
      BY <2>4, <2>6, <2>8 DEF Chain, TwoWay
    <2>10. \A x \in D : s[x].last = n => x = k
      BY <2>1, <2>4, <2>6, <2>8 DEF Chain, TwoWay
    <2>11. l \in D \ {n}
      BY <2>4, <2>8
    <2> HIDE DEF t, l
    <2>12. Typed(g)
      <3>1. t \in [D \ {n} -> SegType]
        BY <2>6, <2>7 DEF t
      <3>2. QED BY <2>3, <2>4, <2>6, <2>11, <3>1 DEF Chain, Typed
    <2>13. Ends(g)
      <3>1. SUFFICES ASSUME NEW x \in D \ {n}
                     PROVE  /\ t[x].next \in (D \ {n}) \cup {NULL} /\ t[x].last \in (D \ {n}) \cup {NULL}
                            /\ t[x].last = NULL <=> x = 0
                            /\ t[x].next = NULL <=> x = l
                            /\ Mult(t[x].length)
        BY <2>3, <2>6 DEF Ends
      <3>2. t[x].next \in (D \ {n}) \cup {NULL} /\ t[x].last \in (D \ {n}) \cup {NULL}
        BY <2>4, <2>5, <2>6, <2>7, <2>8, <2>9, <2>10
      <3>3. t[x].last = NULL <=> x = 0
        BY <2>4, <2>5, <2>6, <2>7 DEF Chain, Ends
      <3>4. t[x].next = NULL <=> x = l
        BY <1>1, <1>3, <2>1, <2>4, <2>6, <2>7 DEF Chain, Ends, l
      <3>5. Mult(t[x].length)
        <4>1. Mult(s[x].length) /\ Mult(s[a].length) /\ Mult(s[n].length) /\ Mult(Hdr)
          BY <2>4, Constants DEF Chain, Ends
        <4>2. s[a].length \in Int /\ s[n].length \in Int /\ Hdr \in Int
          BY <2>4, <2>8, Constants
        <4>3. Mult(s[a].length + s[n].length + Hdr)
          <5>1. Mult(s[a].length + s[n].length) /\ s[a].length + s[n].length \in Int
            BY <4>1, <4>2, MultSum
          <5>2. QED BY <4>1, <4>2, <5>1, MultSum
        <4>4. QED BY <2>7, <4>1, <4>3
      <3>6. QED BY <3>2, <3>3, <3>4, <3>5
    <2>14. Adjacent(g)
      <3>1. SUFFICES ASSUME NEW x \in D \ {n}
                     PROVE  x + Hdr + t[x].length = IF t[x].next = NULL THEN h.end ELSE t[x].next
        BY <2>3, <2>6 DEF Adjacent
      <3>2. x # a => x + Hdr + s[x].length = IF s[x].next = NULL THEN h.end ELSE s[x].next
        BY DEF Chain, Adjacent
      <3>3. a + Hdr + s[a].length = n /\ n + Hdr + s[n].length = IF k = NULL THEN h.end ELSE k
        BY <1>1, <1>3, <2>1, <2>4 DEF Chain, Adjacent
      <3>4. QED BY <2>4, <2>6, <2>7, <2>8, <3>2, <3>3, Constants
    <2>15. TwoWay(g)
      <3>1. SUFFICES ASSUME NEW x \in D \ {n}
                     PROVE  /\ t[x].next # NULL => t[t[x].next].last = x
                            /\ t[x].last # NULL => t[t[x].last].next = x
        BY <2>3, <2>6 DEF TwoWay
      <3>2. /\ s[x].next # NULL => s[s[x].next].last = x
            /\ s[x].last # NULL => s[s[x].last].next = x
        BY DEF Chain, TwoWay
      <3>3. t[x].next # NULL => t[t[x].next].last = x
        BY <2>4, <2>5, <2>6, <2>7, <2>8, <2>9, <3>2
      <3>4. t[x].last # NULL => t[t[x].last].next = x
        BY <2>4, <2>5, <2>6, <2>7, <2>8, <2>10, <3>2
      <3>5. QED BY <3>3, <3>4
    <2>16. Apart(g)
      <3>1. SUFFICES ASSUME NEW x \in D \ {n}, NEW y \in D \ {n}, x < y
                     PROVE  x + Hdr + t[x].length <= y
        BY <2>3, <2>6 DEF Apart
      <3>2. x + Hdr + s[x].length <= y /\ (n < y => n + Hdr + s[n].length <= y) /\ (y < n => y + Hdr + s[y].length <= n)
        BY <2>4, <3>1 DEF Chain, Apart
      <3>3. a + Hdr + s[a].length = n
        BY <2>4, <2>6, <2>8, Constants
      <3>4. QED BY <2>4, <2>6, <2>7, <2>8, <3>1, <3>2, <3>3, Constants
    <2>17. Same(h, g)
      BY <1>3, <2>3, <2>4, <2>6, <2>7 DEF Same
    <2>18. ASSUME NEW X, Loose(h, X), n \notin X PROVE Loose(g, X \ {a})
      <3>1. SUFFICES ASSUME NEW x \in D \ {n}, t[x].free, t[x].next # NULL, t[t[x].next].free
                     PROVE  x \in X \ {a}
        BY <2>3, <2>6 DEF Loose
      <3>2. x # a
        <4>1. SUFFICES ASSUME x = a PROVE FALSE
          OBVIOUS
        <4>2. k # NULL /\ s[k].free /\ s[n].next = k
          BY <2>1, <2>4, <2>5, <2>7, <3>1, <4>1
        <4>3. QED BY <1>3, <2>4, <2>18, <4>2 DEF Loose
      <3>3. s[x].free /\ s[x].next # NULL /\ s[s[x].next].free
        BY <2>4, <2>6, <2>7, <2>8, <2>9, <3>1, <3>2
      <3>4. QED BY <2>18, <3>2, <3>3 DEF Loose
    <2>19. a \in DOMAIN g.seg /\ g.seg[a].last = h.seg[a].last
      BY <2>3, <2>4, <2>5, <2>6, <2>7
    <2>20. g.seg[a].length = h.seg[a].length + h.seg[n].length + Hdr /\ (h.last_hdr = n => g.last_hdr = a)
      BY <2>3, <2>4, <2>7 DEF l
    <2>21. \A X : Loose(h, X) /\ n \notin X \ {NULL} => Loose(g, X \ {a})
      BY <1>3, <2>18
    <2>22. Inside(g)
      <3>1. SUFFICES ASSUME NEW x \in D \ {n} PROVE x + Hdr + t[x].length <= h.end
        BY <2>3, <2>6 DEF Inside
      <3>2. x + Hdr + s[x].length <= h.end /\ n + Hdr + s[n].length <= h.end
        BY <2>4 DEF Chain, Inside
      <3>3. a + Hdr + s[a].length = n
        BY <2>4, <2>6, <2>8, Constants
      <3>4. QED BY <2>4, <2>6, <2>7, <2>8, <3>2, <3>3, Constants
    <2>23. Chain(g)
      BY <2>12, <2>13, <2>14, <2>15, <2>16, <2>22 DEF Chain
    <2>24. QED BY <1>1, <2>17, <2>19, <2>20, <2>21, <2>23 DEF Combined
  <1>4. QED BY <1>2, <1>3

LEMMA Split ==
    ASSUME NEW h, NEW a \in DOMAIN h.seg, Chain(h), NEW n \in Nat, Mult(n), Splits(h, a, n),
           NEW g, g = hsh_split(h, a, n), NEW new, new = a + n + Hdr
    PROVE  /\ Chain(g) /\ g.end = h.end /\ g.canary = h.canary
           /\ DOMAIN g.seg = DOMAIN h.seg \cup {new} /\ new \notin DOMAIN h.seg
           /\ \A x \in DOMAIN h.seg : /\ g.seg[x].free = h.seg[x].free
                                      /\ x # a => g.seg[x].length = h.seg[x].length /\ g.seg[x].next = h.seg[x].next
           /\ g.seg[a].length = n /\ g.seg[a].next = new
           /\ g.seg[new].free = h.seg[a].free /\ g.seg[new].next = h.seg[a].next
  <1> DEFINE D == DOMAIN h.seg
             s == h.seg
  <1>1. PICK k : k = h.seg[a].next
    OBVIOUS
  <1> DEFINE t == [x \in D \cup {new} |->
                      IF x = new THEN [length |-> s[a].length - n - Hdr, next |-> s[a].next,
                                       last |-> a, free |-> s[a].free]
                      ELSE IF x = a THEN [s[a] EXCEPT !.next = new, !.length = n]
                      ELSE IF x = s[a].next THEN [s[x] EXCEPT !.last = new]
                      ELSE s[x]]
             l == IF h.last_hdr = a THEN new ELSE h.last_hdr
  <1>2. g = [seg |-> t, last_hdr |-> l, end |-> h.end, canary |-> h.canary]
    <2>1. g = [h EXCEPT !.last_hdr = l, !.seg = t]
      BY DEF hsh_split, Chain, Typed, IsHeap
    <2>2. QED BY <2>1, SetList DEF Chain, Typed
  <1>3. g.seg = t /\ g.last_hdr = l /\ g.end = h.end /\ g.canary = h.canary /\ IsHeap(g)
    BY <1>2 DEF IsHeap
  <1>4. /\ D \subseteq Nat /\ NULL \notin D /\ NULL \in Int /\ a \in D /\ a \in Nat
        /\ Hdr \in Nat \ {0} /\ MinSplit \in Nat \ {0} /\ s[a].length \in Nat /\ h.end \in Nat
        /\ \A x \in D : /\ s[x] \in SegType /\ s[x].length \in Nat /\ s[x].free \in BOOLEAN
                        /\ s[x].next \in D \cup {NULL} /\ s[x].last \in D \cup {NULL}
    BY Constants DEF Chain, Typed, Ends, SegType
  <1>5. s[a].length >= n + Hdr + MinSplit /\ s[a].length - n - Hdr \in Nat /\ new \in Nat /\ new # NULL /\ a < new
    BY <1>4, Constants DEF Splits
  <1>6. new \notin D
    <2>1. SUFFICES ASSUME new \in D PROVE FALSE
      OBVIOUS
    <2>2. a + Hdr + s[a].length <= new
      BY <1>4, <1>5, <2>1 DEF Chain, Apart
    <2>3. QED BY <1>4, <1>5, <2>2
  <1>7. k \in D \cup {NULL} /\ k # a /\ (k # NULL => s[k].last = a /\ k = a + Hdr + s[a].length /\ k # 0)
    BY <1>1, <1>4 DEF Chain, Adjacent, TwoWay
  <1>8. DOMAIN t = D \cup {new}
    OBVIOUS
  <1>9. /\ t[new] \in SegType /\ t[new].length = s[a].length - n - Hdr /\ t[new].next = k
        /\ t[new].last = a /\ t[new].free = s[a].free
    <2>1. t[new] = [length |-> s[a].length - n - Hdr, next |-> k, last |-> a, free |-> s[a].free]
      BY <1>1
    <2> HIDE DEF t
    <2>2. s[a].length - n - Hdr \in Nat /\ k \in Int /\ a \in Int /\ s[a].free \in BOOLEAN
      BY <1>4, <1>5, <1>7
    <2>3. QED BY <2>1, <2>2 DEF SegType
  <1>10. \A x \in D : /\ t[x].length = IF x = a THEN n ELSE s[x].length
                      /\ t[x].next = IF x = a THEN new ELSE s[x].next
                      /\ t[x].last = IF x = k THEN new ELSE s[x].last
                      /\ t[x].free = s[x].free /\ t[x] \in SegType
    <2>1. TAKE x \in D
    <2>2. CASE x = a
      <3>1. PICK u : u = s[a]
        OBVIOUS
      <3> DEFINE y == [u EXCEPT !.next = new]
                 z == [y EXCEPT !.length = n]
      <3>2. t[x] = z
        <4>1. t[x] = [s[a] EXCEPT !.next = new, !.length = n]
          BY <1>6, <2>2
        <4>2. QED BY <1>4, <3>1, <4>1 DEF SegType
      <3>3. u \in SegType /\ new \in Int
        BY <1>4, <1>5, <3>1
      <3>4. y \in SegType /\ y.length = u.length /\ y.next = new /\ y.last = u.last /\ y.free = u.free
        BY ONLY <3>3 DEF SegType
      <3> HIDE DEF y
      <3>5. z \in SegType /\ z.length = n /\ z.next = y.next /\ z.last = y.last /\ z.free = y.free
        BY ONLY <3>4, n \in Nat DEF SegType
      <3> HIDE DEF z, t
      <3>6. QED BY <1>7, <2>2, <3>1, <3>2, <3>4, <3>5
    <2>3. CASE x # a /\ x = k
      <3>1. t[x] = [s[x] EXCEPT !.last = new]
        BY <1>1, <1>6, <2>3
      <3>2. s[x] \in SegType /\ new \in Int
        BY <1>4, <1>5
      <3> HIDE DEF t
      <3>3. QED BY <2>3, <3>1, <3>2 DEF SegType
    <2>4. CASE x # a /\ x # k
      <3>1. t[x] = s[x]
        BY <1>1, <1>6, <2>4
      <3> HIDE DEF t
      <3>2. QED BY <1>4, <2>4, <3>1
    <2>5. QED BY <2>2, <2>3, <2>4
  <1>11. l \in D \cup {new}
    BY DEF Chain, Typed
  <1>12. t \in [D \cup {new} -> SegType]
    <2>1. \A x \in D \cup {new} : t[x] \in SegType
      BY <1>9, <1>10
    <2>2. QED BY <2>1
  <1>13. \A x \in D : s[x].last = a => x = k
    BY <1>1, <1>4 DEF Chain, TwoWay
  <1> HIDE DEF t, l
  <1>14. Typed(g)
    BY <1>3, <1>4, <1>5, <1>8, <1>11, <1>12 DEF Chain, Typed
  <1>15. Ends(g)
    <2>1. SUFFICES ASSUME NEW x \in D \cup {new}
                   PROVE  /\ t[x].next \in (D \cup {new}) \cup {NULL} /\ t[x].last \in (D \cup {new}) \cup {NULL}
                          /\ t[x].last = NULL <=> x = 0
                          /\ t[x].next = NULL <=> x = l
                          /\ Mult(t[x].length)
      BY <1>3, <1>8 DEF Ends
    <2>2. t[x].next \in (D \cup {new}) \cup {NULL} /\ t[x].last \in (D \cup {new}) \cup {NULL}
      BY <1>4, <1>7, <1>9, <1>10
    <2>3. t[x].last = NULL <=> x = 0
      BY <1>4, <1>5, <1>6, <1>7, <1>9, <1>10 DEF Chain, Ends
    <2>4. t[x].next = NULL <=> x = l
      BY <1>1, <1>4, <1>5, <1>6, <1>9, <1>10 DEF Chain, Ends, Typed, l
    <2>5. Mult(s[a].length - n - Hdr)
      <3>1. Mult(s[a].length) /\ Mult(Hdr) /\ s[a].length \in Int /\ Hdr \in Int /\ n \in Int
        BY <1>4, Constants DEF Chain, Ends
      <3>2. PICK p \in Int : p = s[a].length
        BY <3>1
      <3>3. Mult(p - n) /\ p - n \in Int
        <4>1. Mult(p) /\ n \in Int
          BY <3>1, <3>2
        <4>2. Mult(p - n)
          BY ONLY <4>1, Mult(n), p \in Int, MultSum, Zenon
        <4>3. QED BY <4>1, <4>2
      <3>4. Mult((p - n) - Hdr)
        BY <3>1, <3>3, MultSum
      <3>5. QED BY <3>2, <3>4
    <2>6. \A y \in D : Mult(s[y].length)
      BY DEF Chain, Ends
    <2>7. Mult(t[x].length)
      BY <1>9, <1>10, <2>5, <2>6
    <2>8. QED BY <2>2, <2>3, <2>4, <2>7
  <1>16. Adjacent(g)
    <2>1. SUFFICES ASSUME NEW x \in D \cup {new}
                   PROVE  x + Hdr + t[x].length = IF t[x].next = NULL THEN h.end ELSE t[x].next
      BY <1>3, <1>8 DEF Adjacent
    <2>2. \A y \in D : y + Hdr + s[y].length = IF s[y].next = NULL THEN h.end ELSE s[y].next
      BY DEF Chain, Adjacent
    <2>3. a + Hdr + s[a].length = IF k = NULL THEN h.end ELSE k
      BY <1>1, <1>4, <2>2
    <2>4. CASE x = new
      <3>1. x + Hdr + t[x].length = a + Hdr + s[a].length
        BY <1>4, <1>5, <1>9, <2>4
      <3>2. QED BY <1>9, <2>3, <2>4, <3>1
    <2>5. CASE x = a
      BY <1>4, <1>5, <1>10, <2>5
    <2>6. CASE x \in D \ {a}
      BY <1>10, <2>2, <2>6
    <2>7. QED BY <2>4, <2>5, <2>6
  <1>17. TwoWay(g)
    <2>1. SUFFICES ASSUME NEW x \in D \cup {new}
                   PROVE  /\ t[x].next # NULL => t[t[x].next].last = x
                          /\ t[x].last # NULL => t[t[x].last].next = x
      BY <1>3, <1>8 DEF TwoWay
    <2>2. \A y \in D : /\ s[y].next # NULL => s[s[y].next].last = y
                       /\ s[y].last # NULL => s[s[y].last].next = y
      BY DEF Chain, TwoWay
    <2>3. CASE x = new
      BY <1>4, <1>5, <1>6, <1>7, <1>9, <1>10, <2>3
    <2>4. CASE x = a
      <3>1. t[a].next = new /\ t[a].last = s[a].last /\ s[a].last # a
        BY <1>4, <1>7, <1>10 DEF Chain, TwoWay, Adjacent
      <3>2. s[a].last # NULL => t[s[a].last].next = a
        BY <1>4, <1>10, <2>2, <3>1
      <3>3. QED BY <1>9, <2>4, <3>1, <3>2
    <2>5. CASE x \in D \ {a}
      <3>1. t[x].next # NULL => t[t[x].next].last = x
        BY <1>1, <1>4, <1>6, <1>7, <1>10, <2>2, <2>5
      <3>2. t[x].last # NULL => t[t[x].last].next = x
        BY <1>4, <1>6, <1>7, <1>9, <1>10, <1>13, <2>2, <2>5
      <3>3. QED BY <3>1, <3>2
    <2>6. QED BY <2>3, <2>4, <2>5
  <1>18. Apart(g)
    <2>1. SUFFICES ASSUME NEW x \in D \cup {new}, NEW y \in D \cup {new}, x < y
                   PROVE  x + Hdr + t[x].length <= y
      BY <1>3, <1>8 DEF Apart
    <2>2. \A v, w \in D : v < w => v + Hdr + s[v].length <= w
      BY DEF Chain, Apart
    <2>3. CASE x = new
      <3>1. y \in D /\ a < y
        BY <1>4, <1>5, <2>1, <2>3
      <3>2. a + Hdr + s[a].length <= y
        BY <1>4, <2>2, <3>1
      <3>3. QED BY <1>4, <1>5, <1>9, <2>3, <3>1, <3>2
    <2>4. CASE x = a
      <3>1. y = new \/ a + Hdr + s[a].length <= y
        BY <1>4, <2>1, <2>2, <2>4
      <3>2. QED BY <1>4, <1>5, <1>10, <2>4, <3>1
    <2>5. CASE x \in D \ {a}
      <3>1. y # new => x + Hdr + s[x].length <= y
        BY <2>1, <2>2, <2>5
      <3>2. ASSUME y = new PROVE x + Hdr + s[x].length <= y
        <4>1. CASE x < a
          BY <1>4, <1>5, <2>2, <2>5, <3>2, <4>1
        <4>2. CASE a < x
          <5>1. a + Hdr + s[a].length <= x
            BY <1>4, <2>2, <2>5, <4>2
          <5>2. QED BY <1>4, <1>5, <2>1, <2>5, <3>2, <5>1
        <4>3. QED BY <1>4, <2>5, <4>1, <4>2
      <3>3. QED BY <1>10, <2>5, <3>1, <3>2
    <2>6. QED BY <2>3, <2>4, <2>5
  <1>19. Inside(g)
    <2>1. SUFFICES ASSUME NEW x \in D \cup {new} PROVE x + Hdr + t[x].length <= h.end
      BY <1>3, <1>8 DEF Inside
    <2>2. \A y \in D : y + Hdr + s[y].length <= h.end
      BY DEF Chain, Inside
    <2>3. a + Hdr + s[a].length <= h.end
      BY <1>4, <2>2
    <2>4. QED BY <1>4, <1>5, <1>9, <1>10, <2>2, <2>3
  <1>20. Chain(g)
    BY <1>14, <1>15, <1>16, <1>17, <1>18, <1>19 DEF Chain
  <1>21. QED BY <1>1, <1>3, <1>4, <1>6, <1>8, <1>9, <1>10, <1>20

(* Marking segment a used or free leaves the list as it is.                *)
Marked(h, f, a, b, c) ==
    /\ Chain(f) /\ f.end = h.end /\ f.canary = c /\ DOMAIN f.seg = DOMAIN h.seg
    /\ \A x \in DOMAIN h.seg : /\ f.seg[x].length = h.seg[x].length
                               /\ f.seg[x].next = h.seg[x].next /\ f.seg[x].last = h.seg[x].last
                               /\ x # a => f.seg[x].free = h.seg[x].free
    /\ f.seg[a].free = b

LEMMA Mark ==
    ASSUME NEW h, NEW a \in DOMAIN h.seg, Chain(h), NEW b \in BOOLEAN, NEW c, NEW f, NEW t,
           t = [h.seg EXCEPT ![a].free = b], f = [seg |-> t, last_hdr |-> h.last_hdr, end |-> h.end, canary |-> c]
    PROVE  Marked(h, f, a, b, c)
  <1>1. f.seg = t /\ f.last_hdr = h.last_hdr /\ f.end = h.end /\ f.canary = c /\ IsHeap(f)
    BY DEF IsHeap
  <1>2. /\ DOMAIN t = DOMAIN h.seg
        /\ \A x \in DOMAIN h.seg : /\ t[x] \in SegType /\ t[x].length = h.seg[x].length
                                   /\ t[x].next = h.seg[x].next /\ t[x].last = h.seg[x].last
                                   /\ x # a => t[x].free = h.seg[x].free
        /\ t[a].free = b
    BY DEF Chain, Typed, SegType
  <1>3. t \in [DOMAIN h.seg -> SegType]
    BY <1>2
  <1>4. Typed(f)
    BY <1>1, <1>2, <1>3 DEF Chain, Typed
  <1>5. Ends(f)
    BY <1>1, <1>2 DEF Chain, Ends
  <1>6. Adjacent(f)
    BY <1>1, <1>2 DEF Chain, Adjacent
  <1>7. TwoWay(f)
    <2>1. \A x \in DOMAIN h.seg : h.seg[x].next \in DOMAIN h.seg \cup {NULL} /\ h.seg[x].last \in DOMAIN h.seg \cup {NULL}
      BY DEF Chain, Ends
    <2>2. QED BY <1>1, <1>2, <2>1 DEF Chain, TwoWay
  <1>8. Apart(f)
    BY <1>1, <1>2 DEF Chain, Apart
  <1>9. Inside(f)
    BY <1>1, <1>2 DEF Chain, Inside
  <1>10. QED BY <1>1, <1>2, <1>4, <1>5, <1>6, <1>7, <1>8, <1>9 DEF Chain, Marked

(* Freeing a block takes it from the blocks in use, leaves the others, and *)
(* leaves no two free segments next to each other.                         *)
LEMMA Freed ==
    ASSUME NEW h, NEW a \in DOMAIN h.seg, Chain(h), Loose(h, {}), ~h.seg[a].free, NEW g, g = kfree(h, a)
    PROVE  /\ Chain(g) /\ Loose(g, {}) /\ Used(g) = Used(h) \ {a}
           /\ \A x \in Used(g) : g.seg[x].length = h.seg[x].length
           /\ g.end = h.end /\ g.canary = h.canary \ {a}
  <1>1. PICK l : l = h.seg[a].last
    OBVIOUS
  <1>2. PICK f : f = [h EXCEPT !.seg[a].free = TRUE, !.canary = @ \ {a}]
    OBVIOUS
  <1>t. PICK t, c, b : b = TRUE /\ t = [h.seg EXCEPT ![a].free = b] /\ c = h.canary \ {a}
    OBVIOUS
  <1>3. f = [seg |-> t, last_hdr |-> h.last_hdr, end |-> h.end, canary |-> c]
    <2>1. f = [h EXCEPT !.seg = t, !.canary = c]
      BY <1>2, <1>t DEF Chain, Typed, IsHeap
    <2>2. IsHeap(h)
      BY DEF Chain, Typed
    <2>3. QED BY ONLY <2>1, <2>2, SetMark
  <1>4. /\ Chain(f) /\ f.end = h.end /\ f.canary = h.canary \ {a} /\ DOMAIN f.seg = DOMAIN h.seg
        /\ \A x \in DOMAIN h.seg : /\ f.seg[x].length = h.seg[x].length
                                   /\ f.seg[x].next = h.seg[x].next /\ f.seg[x].last = h.seg[x].last
                                   /\ x # a => f.seg[x].free = h.seg[x].free
        /\ f.seg[a].free
    <2>1. b \in BOOLEAN /\ t = [h.seg EXCEPT ![a].free = b]
      BY <1>t
    <2>2. Marked(h, f, a, b, c)
      BY ONLY <1>3, <2>1, a \in DOMAIN h.seg, Chain(h), Mark
    <2>3. QED BY <1>t, <2>2 DEF Marked
  <1>5. PICK g1 : g1 = hsh_combine_forward(f, a)
    OBVIOUS
  <1>6. g = hsh_combine_backward(g1, a)
    BY <1>2, <1>5 DEF kfree
  <1>7. Loose(f, {a, l})
    <2>1. SUFFICES ASSUME NEW x \in DOMAIN h.seg, f.seg[x].free, f.seg[x].next # NULL, f.seg[f.seg[x].next].free, x # a
                   PROVE  x = l
      BY <1>4 DEF Loose
    <2>2. h.seg[x].free /\ h.seg[x].next # NULL /\ h.seg[x].next \in DOMAIN h.seg
      BY <1>4, <2>1 DEF Chain, Ends
    <2>3. h.seg[x].next = a
      BY <1>4, <2>1, <2>2 DEF Loose
    <2>4. QED BY <1>1, <2>2, <2>3 DEF Chain, TwoWay
  <1>8. f.seg[a].next \notin {a, l} \ {NULL}
    <2>1. /\ a \in Nat /\ h.seg[a].length \in Nat /\ Hdr \in Nat \ {0} /\ NULL \notin Nat /\ DOMAIN h.seg \subseteq Nat
          /\ l \in DOMAIN h.seg \cup {NULL} /\ h.seg[a].next \in DOMAIN h.seg \cup {NULL}
          /\ l \in DOMAIN h.seg => h.seg[l].length \in Nat
      BY <1>1, Constants DEF Chain, Typed, SegType, Ends
    <2>2. CASE h.seg[a].next # NULL
      <3>1. h.seg[a].next = a + Hdr + h.seg[a].length
        BY <2>2 DEF Chain, Adjacent
      <3>2. l # NULL => a = l + Hdr + h.seg[l].length
        BY <1>1, <2>1 DEF Chain, Adjacent, TwoWay
      <3>3. QED BY <1>4, <2>1, <2>2, <3>1, <3>2
    <2>3. QED BY <1>4, <2>2
  <1>9. PICK X : X = {a, l} \ {a}
    OBVIOUS
  <1>10. Chain(g1) /\ Same(f, g1) /\ a \in DOMAIN g1.seg /\ g1.seg[a].last = l /\ Loose(g1, X)
    <2>1. f.seg[a].free /\ a \in DOMAIN f.seg /\ f.seg[a].last = l
      BY <1>1, <1>4
    <2>2. Combined(f, g1, a)
      BY <1>4, <1>5, <2>1, Combine
    <2>3. QED BY <1>7, <1>8, <1>9, <2>1, <2>2 DEF Combined
  <1>11. Chain(g) /\ Same(g1, g) /\ Loose(g, {})
    <2>1. CASE l # NULL /\ g1.seg[l].free
      <3>1. g = hsh_combine_forward(g1, l)
        BY <1>6, <1>10, <2>1 DEF hsh_combine_backward
      <3>2. l \in DOMAIN g1.seg /\ g1.seg[l].next = a
        BY <1>10, <2>1 DEF Chain, Ends, TwoWay
      <3>3. Chain(g) /\ Same(g1, g) /\ Loose(g, X \ {l})
        <4>1. Combined(g1, g, l)
          BY <1>10, <2>1, <3>1, <3>2, Combine
        <4>2. QED BY <1>9, <1>10, <3>2, <4>1 DEF Combined
      <3>4. X \ {l} = {}
        BY <1>9
      <3>5. QED BY <3>3, <3>4
    <2>2. CASE ~(l # NULL /\ g1.seg[l].free)
      <3>1. g = g1
        BY <1>6, <1>10, <2>2 DEF hsh_combine_backward
      <3>2. Loose(g, {})
        BY <1>9, <1>10, <2>2, <3>1, Constants DEF Loose, Chain, Typed
      <3>3. QED BY <1>10, <3>1, <3>2 DEF Same
    <2>3. QED BY <2>1, <2>2
  <1>12. Used(g) = Used(h) \ {a} /\ \A x \in Used(g) : g.seg[x].length = h.seg[x].length
    <2>1. \A x : x \in Used(g) <=> x \in Used(f)
      BY <1>10, <1>11 DEF Used, Same
    <2>2. \A x : x \in Used(f) <=> x \in Used(h) /\ x # a
      BY <1>4 DEF Used
    <2>3. \A x \in Used(g) : g.seg[x].length = h.seg[x].length
      <3>1. TAKE x \in Used(g)
      <3>2. x \in DOMAIN f.seg /\ ~f.seg[x].free
        BY <2>1 DEF Used
      <3>3. x \in DOMAIN g1.seg /\ g1.seg[x].length = f.seg[x].length /\ ~g1.seg[x].free
        BY <1>10, <3>2 DEF Same
      <3>4. g.seg[x].length = g1.seg[x].length
        BY <1>11, <3>3 DEF Same
      <3>5. QED BY <1>4, <3>2, <3>3, <3>4
    <2>4. QED BY <2>1, <2>2, <2>3
  <1>13. QED BY <1>4, <1>10, <1>11, <1>12 DEF Same

(* Handing out a free segment that is long enough.                         *)
LEMMA Taken ==
    ASSUME NEW h, NEW a \in DOMAIN h.seg, Chain(h), Loose(h, {}), h.seg[a].free,
           NEW n \in Nat, Mult(n), h.seg[a].length >= n, NEW g, g = Take(h, a, n)
    PROVE  /\ Chain(g) /\ Loose(g, {}) /\ Used(g) = Used(h) \cup {a}
           /\ \A x \in Used(h) : g.seg[x].length = h.seg[x].length
           /\ g.seg[a].length >= n
           /\ g.end = h.end /\ g.canary = h.canary \cup {a}
  <1>1. PICK f : f = IF h.seg[a].length > n THEN hsh_split(h, a, n) ELSE h
    OBVIOUS
  <1>2. /\ Chain(f) /\ f.end = h.end /\ f.canary = h.canary /\ DOMAIN h.seg \subseteq DOMAIN f.seg
        /\ \A x \in DOMAIN f.seg \ DOMAIN h.seg : f.seg[x].free
        /\ \A x \in DOMAIN h.seg : f.seg[x].free = h.seg[x].free /\ (x # a => f.seg[x].length = h.seg[x].length)
        /\ f.seg[a].length >= n /\ Loose(f, {a})
    <2>1. CASE h.seg[a].length > n /\ Splits(h, a, n)
      <3>1. PICK new : new = a + n + Hdr
        OBVIOUS
      <3>2. f = hsh_split(h, a, n)
        BY <1>1, <2>1
      <3>3. /\ Chain(f) /\ f.end = h.end /\ f.canary = h.canary
            /\ DOMAIN f.seg = DOMAIN h.seg \cup {new} /\ new \notin DOMAIN h.seg
            /\ \A x \in DOMAIN h.seg : /\ f.seg[x].free = h.seg[x].free
                                       /\ x # a => f.seg[x].length = h.seg[x].length /\ f.seg[x].next = h.seg[x].next
            /\ f.seg[a].length = n /\ f.seg[a].next = new
            /\ f.seg[new].free = h.seg[a].free /\ f.seg[new].next = h.seg[a].next
        BY ONLY <2>1, <3>1, <3>2, a \in DOMAIN h.seg, Chain(h), n \in Nat, Mult(n), Split
      <3>4. Loose(f, {a})
        <4>1. SUFFICES ASSUME NEW x \in DOMAIN f.seg, f.seg[x].free, f.seg[x].next # NULL, f.seg[f.seg[x].next].free, x # a
                       PROVE  FALSE
          BY DEF Loose
        <4>2. \A y \in DOMAIN h.seg : h.seg[y].next \in DOMAIN h.seg \cup {NULL}
          BY DEF Chain, Ends
        <4>3. CASE x = new
          BY <3>3, <4>1, <4>2, <4>3 DEF Loose
        <4>4. CASE x # new
          BY <3>3, <4>1, <4>2, <4>4 DEF Loose
        <4>5. QED BY <4>3, <4>4
      <3>5. \A x \in DOMAIN f.seg \ DOMAIN h.seg : f.seg[x].free
        BY <3>3
      <3>6. f.seg[a].length >= n
        BY <3>3
      <3>7. QED BY <3>3, <3>4, <3>5, <3>6
    <2>2. CASE ~(h.seg[a].length > n /\ Splits(h, a, n))
      <3>1. f = h
        BY <1>1, <2>2 DEF hsh_split
      <3>2. QED BY <3>1 DEF Loose
    <2>3. QED BY <2>1, <2>2
  <1>t. PICK t, c, b : b = FALSE /\ t = [f.seg EXCEPT ![a].free = b] /\ c = f.canary \cup {a}
    OBVIOUS
  <1>3. g = [seg |-> t, last_hdr |-> f.last_hdr, end |-> f.end, canary |-> c]
    <2>1. g = [f EXCEPT !.seg[a].free = FALSE, !.canary = @ \cup {a}]
      BY <1>1 DEF Take, prepare_segment
    <2>2. g = [f EXCEPT !.seg = t, !.canary = c]
      BY <1>2, <1>t, <2>1 DEF Chain, Typed, IsHeap
    <2>3. IsHeap(f)
      BY <1>2 DEF Chain, Typed
    <2>4. QED BY ONLY <2>2, <2>3, SetMark
  <1>4. /\ Chain(g) /\ g.end = f.end /\ g.canary = f.canary \cup {a} /\ DOMAIN g.seg = DOMAIN f.seg
        /\ \A x \in DOMAIN f.seg : /\ g.seg[x].length = f.seg[x].length
                                   /\ g.seg[x].next = f.seg[x].next /\ g.seg[x].last = f.seg[x].last
                                   /\ x # a => g.seg[x].free = f.seg[x].free
        /\ ~g.seg[a].free
    <2>0. a \in DOMAIN f.seg
      BY <1>2
    <2>1. Chain(f) /\ b \in BOOLEAN /\ t = [f.seg EXCEPT ![a].free = b]
      BY <1>2, <1>t
    <2>2. Marked(f, g, a, b, c)
      BY ONLY <1>3, <2>0, <2>1, Mark
    <2>3. QED BY <1>t, <2>2 DEF Marked
  <1>5. Loose(g, {})
    <2>1. \A x \in DOMAIN f.seg : f.seg[x].next \in DOMAIN f.seg \cup {NULL}
      BY <1>2 DEF Chain, Ends
    <2>2. QED BY <1>2, <1>4, <2>1 DEF Loose
  <1>6. \A x : x \in Used(g) <=> x \in Used(h) \cup {a}
    BY <1>2, <1>4 DEF Used
  <1>7. \A x \in Used(h) : g.seg[x].length = h.seg[x].length
    BY <1>2, <1>4 DEF Used
  <1>8. QED BY <1>2, <1>4, <1>5, <1>6, <1>7

(* expand_heap: the new segment at the end, merged with a free one before. *)
Appended(h, len) ==
    [h EXCEPT !.end = @ + len, !.last_hdr = h.end,
              !.seg = [x \in DOMAIN h.seg \cup {h.end} |->
                  IF x = h.end THEN [length |-> len - Hdr, next |-> NULL, last |-> h.last_hdr, free |-> TRUE]
                  ELSE IF x = h.last_hdr THEN [h.seg[x] EXCEPT !.next = h.end]
                  ELSE h.seg[x]]]

ExtendedBy(h, g, len) ==
    /\ Chain(g) /\ Loose(g, {}) /\ Used(g) = Used(h)
    /\ \A x \in Used(h) : g.seg[x].length = h.seg[x].length
    /\ g.canary = h.canary /\ g.end = h.end + len
    /\ g.seg[g.last_hdr].free /\ g.seg[g.last_hdr].length >= len - Hdr
    /\ h.seg[h.last_hdr].free => g.seg[g.last_hdr].length = h.seg[h.last_hdr].length + len

LEMMA Extended ==
    ASSUME NEW h, Chain(h), Loose(h, {}), NEW len \in Nat, Mult(len), len >= Page, NEW f, NEW g,
           f = Appended(h, len), g = hsh_combine_backward(f, h.end)
    PROVE  ExtendedBy(h, g, len)
  <1> DEFINE D == DOMAIN h.seg
             s == h.seg
  <1>1. PICK new, k, e : new = h.end /\ k = h.last_hdr /\ e = h.end + len
    OBVIOUS
  <1> DEFINE t == [x \in D \cup {new} |->
                      IF x = new THEN [length |-> len - Hdr, next |-> NULL, last |-> k, free |-> TRUE]
                      ELSE IF x = k THEN [s[x] EXCEPT !.next = new]
                      ELSE s[x]]
  <1>2. f = [seg |-> t, last_hdr |-> new, end |-> e, canary |-> h.canary]
    <2>1. f = [h EXCEPT !.end = e, !.last_hdr = new, !.seg = t]
      BY <1>1 DEF Chain, Typed, IsHeap, Appended
    <2>2. QED BY <2>1, SetEnd DEF Chain, Typed
  <1>3. f.seg = t /\ f.last_hdr = new /\ f.end = e /\ f.canary = h.canary /\ IsHeap(f)
    <2> HIDE DEF t
    <2>1. QED BY ONLY <1>2 DEF IsHeap
  <1>4. /\ D \subseteq Nat /\ NULL \notin D /\ NULL \in Int /\ k \in D /\ new \in Nat /\ new # NULL
        /\ Hdr \in Nat \ {0} /\ len - Hdr \in Nat /\ s[k].next = NULL /\ e \in Nat /\ e = new + len
        /\ \A x \in D : /\ s[x] \in SegType /\ s[x].length \in Nat /\ s[x].free \in BOOLEAN
                        /\ s[x].next \in D \cup {NULL} /\ s[x].last \in D \cup {NULL}
    BY <1>1, Constants DEF Chain, Typed, Ends, SegType
  <1>5. new \notin D /\ (\A x \in D : x + Hdr + s[x].length <= new) /\ k + Hdr + s[k].length = new /\ new # 0 /\ k < new
    <2>1. \A x \in D : x + Hdr + s[x].length <= new
      BY <1>1 DEF Chain, Inside
    <2>2. k + Hdr + s[k].length = new
      BY <1>1, <1>4 DEF Chain, Adjacent
    <2>3. \A x \in D : x < new
      BY <1>4, <2>1
    <2>4. QED BY <1>4, <2>1, <2>2, <2>3
  <1>6. DOMAIN t = D \cup {new}
    OBVIOUS
  <1>7. t[new] \in SegType /\ t[new].length = len - Hdr /\ t[new].next = NULL /\ t[new].last = k /\ t[new].free = TRUE
    <2>1. t[new] = [length |-> len - Hdr, next |-> NULL, last |-> k, free |-> TRUE]
      OBVIOUS
    <2> HIDE DEF t
    <2>2. QED BY <1>4, <2>1 DEF SegType
  <1>8. \A x \in D : /\ t[x] \in SegType /\ t[x].length = s[x].length /\ t[x].last = s[x].last
                     /\ t[x].free = s[x].free /\ t[x].next = IF x = k THEN new ELSE s[x].next
    <2>1. TAKE x \in D
    <2>2. CASE x = k
      <3>1. t[x] = [s[x] EXCEPT !.next = new] /\ s[x] \in SegType /\ new \in Int
        BY <1>4, <1>5, <2>2
      <3> HIDE DEF t
      <3>2. QED BY <2>2, <3>1 DEF SegType
    <2>3. CASE x # k
      <3>1. t[x] = s[x]
        BY <1>5, <2>3
      <3> HIDE DEF t
      <3>2. QED BY <1>4, <2>3, <3>1
    <2>4. QED BY <2>2, <2>3
  <1>9. t \in [D \cup {new} -> SegType]
    <2>1. \A x \in D \cup {new} : t[x] \in SegType
      BY <1>7, <1>8
    <2>2. QED BY <2>1
  <1> HIDE DEF t
  <1>10. Chain(f)
    <2>1. Typed(f)
      BY <1>3, <1>4, <1>6, <1>9 DEF Chain, Typed
    <2>2. Ends(f)
      <3>1. SUFFICES ASSUME NEW x \in D \cup {new}
                     PROVE  /\ t[x].next \in (D \cup {new}) \cup {NULL} /\ t[x].last \in (D \cup {new}) \cup {NULL}
                            /\ t[x].last = NULL <=> x = 0
                            /\ t[x].next = NULL <=> x = new
                            /\ Mult(t[x].length)
        BY <1>3, <1>6 DEF Ends
      <3>2. Mult(len - Hdr) /\ \A y \in D : Mult(s[y].length)
        <4>1. Mult(Hdr) /\ Hdr \in Int /\ len \in Int
          BY Constants
        <4>2. Mult(len - Hdr)
          BY ONLY <4>1, Mult(len), MultSum, Zenon
        <4>3. QED BY <4>2 DEF Chain, Ends
      <3>3. QED BY <1>1, <1>4, <1>5, <1>7, <1>8, <3>2 DEF Chain, Ends
    <2>3. Adjacent(f)
      <3>1. SUFFICES ASSUME NEW x \in DOMAIN f.seg
                     PROVE  x + Hdr + f.seg[x].length = IF f.seg[x].next = NULL THEN f.end ELSE f.seg[x].next
        BY DEF Adjacent
      <3>2. f.seg[x] = t[x] /\ f.end = e /\ x \in D \cup {new}
        BY <1>3, <1>6
      <3>3. CASE x = new
        <4>1. new \in Nat /\ Hdr \in Nat /\ e = new + len
          BY <1>4
        <4>2. new + Hdr + (len - Hdr) = e
          BY ONLY <4>1, len \in Nat
        <4>3. QED BY <1>7, <3>2, <3>3, <4>2
      <3>4. CASE x = k
        <4>1. t[k].length = s[k].length /\ t[k].next = new /\ new # NULL /\ k + Hdr + s[k].length = new
          BY <1>4, <1>5, <1>8
        <4>2. QED BY ONLY <3>2, <3>4, <4>1
      <3>5. CASE x \in D \ {k}
        <4>1. s[x].next # NULL
          BY <1>1, <3>5 DEF Chain, Ends
        <4>2. x + Hdr + s[x].length = s[x].next
          BY <3>5, <4>1 DEF Chain, Adjacent
        <4>3. QED BY <1>8, <3>2, <3>5, <4>1, <4>2
      <3>6. QED BY <3>2, <3>3, <3>4, <3>5
    <2>4. TwoWay(f)
      <3>1. SUFFICES ASSUME NEW x \in D \cup {new}
                     PROVE  /\ t[x].next # NULL => t[t[x].next].last = x
                            /\ t[x].last # NULL => t[t[x].last].next = x
        BY <1>3, <1>6 DEF TwoWay
      <3>2. \A y \in D : /\ s[y].next # NULL => s[s[y].next].last = y
                         /\ s[y].last # NULL => s[s[y].last].next = y
        BY DEF Chain, TwoWay
      <3>3. CASE x = new
        BY <1>4, <1>7, <1>8, <3>3
      <3>4. CASE x \in D
        <4>1. t[x].next # NULL => t[t[x].next].last = x
          BY <1>4, <1>5, <1>7, <1>8, <3>2, <3>4
        <4>2. t[x].last # NULL => t[t[x].last].next = x
          <5>1. SUFFICES ASSUME s[x].last # NULL PROVE t[s[x].last].next = x
            BY <1>8, <3>4
          <5>2. s[x].last \in D /\ s[s[x].last].next = x /\ x # NULL
            BY <1>4, <3>2, <3>4, <5>1
          <5>3. s[x].last # k
            BY <1>4, <5>2
          <5>4. QED BY <1>8, <5>2, <5>3
        <4>3. QED BY <4>1, <4>2
      <3>5. QED BY <3>3, <3>4
    <2>5. Apart(f)
      <3>1. SUFFICES ASSUME NEW x \in D \cup {new}, NEW y \in D \cup {new}, x < y
                     PROVE  x + Hdr + t[x].length <= y
        BY <1>3, <1>6 DEF Apart
      <3>2. \A v, w \in D : v < w => v + Hdr + s[v].length <= w
        BY DEF Chain, Apart
      <3>3. x \in D
        BY <1>4, <1>5, <3>1
      <3>4. QED BY <1>4, <1>5, <1>8, <3>1, <3>2, <3>3
    <2>6. Inside(f)
      <3>1. SUFFICES ASSUME NEW x \in D \cup {new} PROVE x + Hdr + t[x].length <= e
        BY <1>3, <1>6 DEF Inside
      <3>2. CASE x = new
        BY <1>4, <1>7, <3>2
      <3>3. CASE x \in D
        BY <1>4, <1>5, <1>8, <3>3
      <3>4. QED BY <3>2, <3>3
    <2>7. QED BY <2>1, <2>2, <2>3, <2>4, <2>5, <2>6 DEF Chain
  <1>11. Used(f) = Used(h) /\ \A x \in Used(h) : f.seg[x].length = h.seg[x].length
    <2>1. \A x : x \in Used(f) <=> x \in Used(h)
      BY <1>3, <1>5, <1>6, <1>7, <1>8 DEF Used
    <2>2. QED BY <1>3, <1>8, <2>1 DEF Used
  <1>12. Loose(f, {k})
    <2>1. SUFFICES ASSUME NEW x \in D \cup {new}, t[x].free, t[x].next # NULL, t[t[x].next].free, x # k PROVE FALSE
      BY <1>3, <1>6 DEF Loose
    <2>2. x \in D /\ t[x].next = s[x].next /\ s[x].next \in D
      BY <1>4, <1>7, <1>8, <2>1
    <2>3. QED BY <1>8, <2>1, <2>2 DEF Loose
  <1>13. f.seg[k].next = new /\ f.seg[new].last = k /\ new # NULL /\ k # NULL /\ k \in DOMAIN f.seg
    BY <1>3, <1>4, <1>6, <1>7, <1>8
  <1>14. CASE h.seg[k].free
    <2>1. f.seg[k].free /\ f.seg[new].free /\ f.seg[new].length = len - Hdr /\ f.seg[k].length = s[k].length
      BY <1>3, <1>4, <1>7, <1>8, <1>14
    <2>2. g = hsh_combine_forward(f, k)
      BY <1>1, <1>13, <2>1 DEF hsh_combine_backward
    <2>3. PICK X : X = {k}
      OBVIOUS
    <2>4. /\ Chain(g) /\ Same(f, g) /\ k \in DOMAIN g.seg /\ Loose(g, {})
          /\ g.seg[k].length = f.seg[k].length + f.seg[new].length + Hdr /\ g.last_hdr = k
      <3>1. Loose(f, X) /\ new \notin X \ {NULL} /\ X \ {k} = {}
        BY <1>4, <1>5, <1>12, <2>3
      <3>2. f.last_hdr = new /\ f.seg[k].next = new /\ new # NULL /\ k \in DOMAIN f.seg
        BY <1>3, <1>13
      <3>3. Combined(f, g, k)
        BY <1>10, <2>1, <2>2, <3>2, Combine
      <3>4. Loose(g, X \ {k})
        BY <3>1, <3>2, <3>3 DEF Combined
      <3>5. QED BY <2>1, <3>1, <3>2, <3>3, <3>4 DEF Combined
    <2>6. g.seg[k].length = s[k].length + len /\ s[k].length + len >= len - Hdr
      <3>1. g.seg[k].length = s[k].length + (len - Hdr) + Hdr
        BY <2>1, <2>4
      <3>2. s[k].length \in Nat /\ Hdr \in Nat
        BY <1>4
      <3>3. QED BY ONLY <3>1, <3>2, len \in Nat
    <2>7. g.seg[k].free /\ g.canary = h.canary /\ g.end = h.end + len
      BY <1>1, <1>3, <2>1, <2>4 DEF Same
    <2>8. \A x : x \in Used(g) <=> x \in Used(f)
      BY <2>4 DEF Used, Same
    <2>9. \A x \in Used(f) : g.seg[x].length = f.seg[x].length
      BY <2>4 DEF Used, Same
    <2>10. Used(g) = Used(h) /\ \A x \in Used(h) : g.seg[x].length = h.seg[x].length
      BY <1>11, <2>8, <2>9
    <2>11. QED BY <1>1, <2>4, <2>6, <2>7, <2>10 DEF ExtendedBy
  <1>15. CASE ~h.seg[k].free
    <2>1. ~f.seg[k].free
      BY <1>3, <1>4, <1>8, <1>15
    <2>2. g = f
      BY <1>1, <1>13, <2>1 DEF hsh_combine_backward
    <2>3. Loose(g, {})
      BY <1>12, <2>1, <2>2 DEF Loose
    <2>4. g.seg[g.last_hdr].free /\ g.seg[g.last_hdr].length >= len - Hdr
      <3>1. g.seg[g.last_hdr].free /\ g.seg[g.last_hdr].length = len - Hdr /\ len - Hdr \in Nat
        BY <1>3, <1>4, <1>7, <2>2
      <3>2. QED BY ONLY <3>1
    <2>5. QED BY <1>1, <1>3, <1>10, <1>11, <1>15, <2>2, <2>3, <2>4 DEF ExtendedBy
  <1>16. QED BY <1>14, <1>15
-----------------------------------------------------------------------------
(* The invariant.                                                          *)

LEMMA SameList == ASSUME NEW h, NEW g, Chain(h), IsHeap(g),
                         g.seg = h.seg, g.last_hdr = h.last_hdr, g.end = h.end
                  PROVE  Chain(g)
  <1>1. Typed(g)
    BY DEF Chain, Typed
  <1>2. Ends(g)
    BY DEF Chain, Ends
  <1>3. Adjacent(g)
    BY DEF Chain, Adjacent
  <1>4. TwoWay(g) /\ Apart(g) /\ Inside(g)
    BY DEF Chain, TwoWay, Apart, Inside
  <1>5. QED BY <1>1, <1>2, <1>3, <1>4 DEF Chain

LEMMA CanariesChecked == ASSUME IInv, check_heap_canaries PROVE overrun = {}
  <1>1. \A x \in DOMAIN live : x \in heap.canary
    BY DEF IInv, Blocks, Used, check_heap_canaries
  <1>2. QED BY <1>1 DEF IInv, Blocks

LEMMA AbortStep == ASSUME IInv, Abort PROVE IInv'
  BY DEF IInv, Abort, Blocks, CallOK, Chain, Typed, Ends, Adjacent, TwoWay, Apart, Inside, Loose, Used, IsHeap

LEMMA EnterStep ==
    ASSUME IInv, NEW want \in Sizes, want > 0, NEW old \in DOMAIN live \cup {NULL}, Enter(want, old),
           old # NULL => heap.seg[old].length < want + Canary
    PROVE  IInv'
  <1>1. CASE ~check_heap_canaries /\ Abort
    BY <1>1, AbortStep
  <1>2. CASE ~(~check_heap_canaries /\ Abort)
    <2>1. /\ check_heap_canaries
          /\ call' = [want |-> want, size |-> Padded(want), old |-> old, grown |-> 0]
          /\ UNCHANGED <<grows, heap, halted, live, held, overrun>>
      BY <1>2 DEF Enter
    <2>2. /\ want \in Nat /\ Padded(want) \in Nat /\ Mult(Padded(want))
          /\ want + Canary <= Padded(want) /\ Padded(want) <= want + Canary + Granule
      <3>1. want \in Nat /\ want + Canary + Granule < WordSize
        BY Constants
      <3>2. QED BY <3>1, PaddedIs
    <2>3. overrun = {}
      BY <2>1, CanariesChecked
    <2>4. old \in Int
      BY Constants DEF IInv, Chain, Typed, Blocks, Used
    <2>5. CallOK'
      <3>1. call' \in CallType /\ call'.want = want /\ call'.size = Padded(want) /\ call'.old = old /\ call'.grown = 0
        BY <2>1, <2>2, <2>4 DEF CallType
      <3>2. QED BY <2>1, <2>2, <2>3, <3>1 DEF CallOK
    <2>6. QED BY <2>1, <2>5
               DEF IInv, Blocks, Chain, Typed, Ends, Adjacent, TwoWay, Apart, Inside, Loose, Used, IsHeap
  <1>3. QED BY <1>1, <1>2

LEMMA InitInv == Init => IInv
  <1> SUFFICES ASSUME Init PROVE IInv
    OBVIOUS
  <1> DEFINE r == [length |-> HeapSize - Hdr, next |-> NULL, last |-> NULL, free |-> TRUE]
  <1>1. heap = [seg |-> [x \in {0} |-> r], last_hdr |-> 0, end |-> HeapSize, canary |-> {}]
    BY DEF Init, initialize_heap
  <1>2. r \in SegType /\ r.length = HeapSize - Hdr /\ r.next = NULL /\ r.last = NULL /\ r.free = TRUE
    BY Constants DEF SegType
  <1> HIDE DEF r
  <1>3. heap.seg = [x \in {0} |-> r] /\ heap.last_hdr = 0 /\ heap.end = HeapSize /\ heap.canary = {} /\ IsHeap(heap)
    BY <1>1 DEF IsHeap
  <1>4. DOMAIN heap.seg = {0} /\ heap.seg[0] = r
    BY <1>3
  <1>5. Mult(HeapSize - Hdr)
    <2>1. HeapSize \in Int /\ Hdr \in Int /\ Mult(HeapSize) /\ Mult(Hdr)
      BY Constants
    <2>2. QED BY ONLY <2>1, MultSum, Zenon
  <1>6. Chain(heap)
    <2>1. Typed(heap)
      BY <1>2, <1>3, <1>4, Constants DEF Typed
    <2>2. Ends(heap)
      BY <1>2, <1>3, <1>4, <1>5 DEF Ends
    <2>3. Adjacent(heap) /\ Inside(heap)
      <3>1. 0 + Hdr + (HeapSize - Hdr) = HeapSize /\ HeapSize <= HeapSize
        BY Constants
      <3>2. QED BY <1>2, <1>3, <1>4, <3>1 DEF Adjacent, Inside
    <2>4. TwoWay(heap)
      BY <1>2, <1>4 DEF TwoWay
    <2>5. Apart(heap)
      BY <1>4 DEF Apart
    <2>6. QED BY <2>1, <2>2, <2>3, <2>4, <2>5 DEF Chain
  <1>7. Loose(heap, {})
    BY <1>2, <1>4 DEF Loose
  <1>8. Blocks
    <2>1. DOMAIN live = {} /\ overrun = {} /\ held = 0
      BY DEF Init
    <2>2. Used(heap) = {}
      BY <1>2, <1>4 DEF Used
    <2>3. live \in [DOMAIN live -> Nat]
      BY <2>1 DEF Init
    <2>4. IsFiniteSet({}) /\ Cardinality({}) = 0
      BY FS_EmptySet
    <2>5. QED BY <1>3, <2>1, <2>2, <2>3, <2>4 DEF Blocks
  <1>9. CallOK
    BY Constants DEF Init, CallOK, CallType, None
  <1>10. QED BY <1>6, <1>7, <1>8, <1>9 DEF IInv, Init

(* A block fits into its segment in front of the canary.                   *)
Room(h, L) == /\ Used(h) = DOMAIN L /\ L \in [DOMAIN L -> Nat]
              /\ \A x \in DOMAIN L : L[x] + Canary <= h.seg[x].length

(* What kmalloc_found does: the block is added, then an old one is freed.  *)
FoundBy(a, h, L) ==
    /\ a \in DOMAIN heap.seg
    /\ a \notin DOMAIN live /\ L = [x \in DOMAIN live \cup {a} |-> IF x = a THEN call.want ELSE live[x]]
    /\ Chain(h) /\ Loose(h, {}) /\ Room(h, L) /\ h.end = heap.end /\ h.canary = heap.canary \cup {a}
    /\ IF call.old = NULL
       THEN heap' = h /\ live' = L /\ held' = held + 1
       ELSE /\ heap' = kfree(h, call.old) /\ held' = held
            /\ live' = [x \in DOMAIN L \ {call.old} |-> L[x]]

LEMMA Found ==
    ASSUME IInv, kmalloc_found
    PROVE  \E a, h, L : FoundBy(a, h, L)
  <1>1. call # None /\ call \in CallType /\ call.want \in Nat /\ call.size \in Nat
    BY DEF kmalloc_found, IInv, CallOK, CallType
  <1>2. PICK a : /\ a \in Fits(call.size)
                 /\ LET h == Take(heap, a, call.size) IN
                    IF call.old = NULL
                    THEN /\ heap' = h
                         /\ live' = [x \in DOMAIN live \cup {a} |-> IF x = a THEN call.want ELSE live[x]]
                         /\ held' = held + 1
                    ELSE /\ heap' = Move(h, call.old, a)
                         /\ live' = [x \in (DOMAIN live \ {call.old}) \cup {a} |->
                                        IF x = a THEN call.want ELSE live[x]]
                         /\ UNCHANGED held
    BY DEF kmalloc_found
  <1>3. a \in DOMAIN heap.seg /\ heap.seg[a].free /\ heap.seg[a].length >= call.size /\ a \notin DOMAIN live
    BY <1>2 DEF Fits, IInv, Blocks, Used
  <1>4. PICK h, L : h = Take(heap, a, call.size) /\ L = [x \in DOMAIN live \cup {a} |-> IF x = a THEN call.want ELSE live[x]]
    OBVIOUS
  <1>5. /\ Chain(h) /\ Loose(h, {}) /\ Used(h) = Used(heap) \cup {a}
        /\ \A x \in Used(heap) : h.seg[x].length = heap.seg[x].length
        /\ h.seg[a].length >= call.size
        /\ h.end = heap.end /\ h.canary = heap.canary \cup {a}
    <2>1. Chain(heap) /\ Loose(heap, {}) /\ Mult(call.size)
      BY <1>1 DEF IInv, CallOK
    <2>2. QED BY ONLY <1>1, <1>3, <1>4, <2>1, Taken
  <1>6. DOMAIN L = DOMAIN live \cup {a} /\ L[a] = call.want /\ \A x \in DOMAIN live : L[x] = live[x]
    BY <1>3, <1>4
  <1>7. Room(h, L)
    <2>1. Used(h) = DOMAIN L
      BY <1>5, <1>6 DEF IInv, Blocks
    <2>2. L \in [DOMAIN L -> Nat]
      BY <1>1, <1>4, <1>6 DEF IInv, Blocks
    <2>3. call.want + Canary <= h.seg[a].length
      <3>1. call.want + Canary <= call.size
        BY <1>1 DEF IInv, CallOK
      <3>2. h.seg[a].length \in Nat
        BY <1>5, <2>1, <1>6 DEF Chain, Typed, SegType, Used
      <3>3. QED BY <1>1, <1>5, <3>1, <3>2, Constants
    <2>4. \A x \in DOMAIN live : live[x] + Canary <= h.seg[x].length
      BY <1>5 DEF IInv, Blocks
    <2>5. QED BY <1>6, <2>1, <2>2, <2>3, <2>4 DEF Room
  <1>8. CASE call.old = NULL
    <2>1. FoundBy(a, h, L)
      BY <1>2, <1>3, <1>4, <1>5, <1>7, <1>8 DEF FoundBy
    <2>2. QED BY <1>3, <2>1
  <1>9. CASE call.old # NULL
    <2>1. PICK o : o = call.old
      OBVIOUS
    <2>2. o \in DOMAIN live /\ o # a /\ heap.seg[o].length < call.want + Canary
      BY <1>1, <1>3, <1>9, <2>1 DEF IInv, CallOK
    <2>3. ~CopyHits(h, o, a)
      <3>1. h.seg[o].length = heap.seg[o].length /\ o \in DOMAIN h.seg /\ a \in DOMAIN h.seg
        BY <1>5, <1>6, <1>7, <2>2 DEF Room, Used, IInv, Blocks
      <3>2. PICK p, q : p = h.seg[o].length /\ q = h.seg[a].length
        OBVIOUS
      <3>3. p \in Nat /\ q \in Nat /\ Mult(p) /\ Mult(q)
        BY <1>5, <3>1, <3>2 DEF Chain, Typed, SegType, Ends
      <3>4. call.want + Canary <= call.size /\ p < call.want + Canary /\ q >= call.size /\ Canary \in Nat
        BY <1>1, <1>5, <2>2, <3>1, <3>2, Constants DEF IInv, CallOK
      <3>5. p < q
        BY <1>1, <3>3, <3>4
      <3>6. p + Canary <= q
        BY <3>3, <3>5, MultSum
      <3>7. ~(p > q - Canary)
        BY ONLY <3>3, <3>4, <3>6
      <3>8. QED BY <3>2, <3>7 DEF CopyHits
    <2>4. heap' = kfree(h, call.old)
      BY <1>2, <1>4, <1>9, <2>1, <2>3 DEF Move
    <2>5. live' = [x \in DOMAIN L \ {call.old} |-> L[x]]
      <3>1. live' = [x \in (DOMAIN live \ {o}) \cup {a} |-> IF x = a THEN call.want ELSE live[x]]
        BY <1>2, <1>9, <2>1
      <3>2. (DOMAIN live \ {o}) \cup {a} = DOMAIN L \ {o}
        BY <1>6, <2>2
      <3>3. \A x \in DOMAIN L \ {o} : L[x] = IF x = a THEN call.want ELSE live[x]
        BY <1>6
      <3>4. QED BY <2>1, <3>1, <3>2, <3>3
    <2>6. held' = held
      BY <1>2, <1>9
    <2>7. FoundBy(a, h, L)
      BY <1>3, <1>4, <1>5, <1>7, <1>9, <2>4, <2>5, <2>6 DEF FoundBy
    <2>8. QED BY <1>3, <2>7
  <1>10. QED BY <1>8, <1>9

LEMMA FoundStep == ASSUME IInv, kmalloc_found PROVE IInv'
  <1>0. PICK a, h, L : FoundBy(a, h, L)
    BY Found
  <1>1. /\ a \notin DOMAIN live /\ L = [x \in DOMAIN live \cup {a} |-> IF x = a THEN call.want ELSE live[x]]
              /\ Chain(h) /\ Loose(h, {}) /\ Room(h, L) /\ h.end = heap.end /\ h.canary = heap.canary \cup {a}
              /\ IF call.old = NULL
                 THEN heap' = h /\ live' = L /\ held' = held + 1
                 ELSE /\ heap' = kfree(h, call.old) /\ held' = held
                      /\ live' = [x \in DOMAIN L \ {call.old} |-> L[x]]
    BY <1>0 DEF FoundBy
  <1>2. call # None /\ overrun = {} /\ call' = None /\ UNCHANGED <<grows, halted, overrun>>
    BY DEF kmalloc_found, IInv, CallOK
  <1>3. CallOK'
    BY <1>2, Constants DEF CallOK, CallType, None
  <1>4. /\ DOMAIN L = DOMAIN live \cup {a} /\ DOMAIN live = heap.canary
        /\ IsFiniteSet(DOMAIN live) /\ held = Cardinality(DOMAIN live) /\ held \in Nat
    <2>1. DOMAIN L = DOMAIN live \cup {a}
      BY <1>1
    <2>2. IsFiniteSet(DOMAIN live) /\ held = Cardinality(DOMAIN live)
      BY DEF IInv, Blocks
    <2>3. held \in Nat
      BY <2>2, FS_CardinalityType
    <2>4. DOMAIN live = heap.canary
      BY <1>2 DEF IInv, Blocks
    <2>5. QED BY <2>1, <2>2, <2>3, <2>4
  <1>5. IsFiniteSet(DOMAIN L) /\ Cardinality(DOMAIN L) = held + 1
    BY <1>1, <1>4, FS_AddElement
  <1>6. CASE call.old = NULL
    <2>1. heap' = h /\ live' = L /\ held' = held + 1
      BY <1>1, <1>6
    <2>2. Blocks'
      <3>1. /\ Used(heap') = DOMAIN live' /\ live' \in [DOMAIN live' -> Nat]
            /\ \A x \in DOMAIN live' : live'[x] + Canary <= heap'.seg[x].length
        <4>1. Room(heap', live')
          BY <1>1, <2>1
        <4>2. QED BY ONLY <4>1 DEF Room
      <3>2. /\ IsFiniteSet(DOMAIN live') /\ held' = Cardinality(DOMAIN live')
            /\ heap'.canary \subseteq DOMAIN live' /\ overrun' = DOMAIN live' \ heap'.canary
        BY <1>1, <1>2, <1>4, <1>5, <2>1
      <3>3. QED BY <3>1, <3>2 DEF Blocks
    <2>3. QED BY <1>1, <1>2, <1>3, <2>1, <2>2 DEF IInv
  <1>7. CASE call.old # NULL
    <2>1. PICK o : o = call.old
      OBVIOUS
    <2>2. o \in DOMAIN live /\ o \in DOMAIN L /\ o # a
      BY <1>1, <1>4, <1>7, <2>1 DEF IInv, CallOK
    <2>3. heap' = kfree(h, o) /\ held' = held /\ live' = [x \in DOMAIN L \ {o} |-> L[x]]
      BY <1>1, <1>7, <2>1
    <2>4. PICK g : g = heap'
      OBVIOUS
    <2>5. /\ Chain(g) /\ Loose(g, {}) /\ Used(g) = Used(h) \ {o}
          /\ \A x \in Used(g) : g.seg[x].length = h.seg[x].length
          /\ g.end = h.end /\ g.canary = h.canary \ {o}
      <3>1. o \in DOMAIN h.seg /\ ~h.seg[o].free /\ Chain(h) /\ Loose(h, {}) /\ g = kfree(h, o)
        BY <1>1, <2>2, <2>3, <2>4 DEF Room, Used
      <3>2. QED BY ONLY <3>1, Freed
    <2>6. DOMAIN live' = DOMAIN L \ {o} /\ \A x \in DOMAIN live' : live'[x] = L[x]
      BY <2>3
    <2>7. IsFiniteSet(DOMAIN live') /\ Cardinality(DOMAIN live') = held
      <3>1. PICK S : S = DOMAIN L
        OBVIOUS
      <3>2. IsFiniteSet(S) /\ Cardinality(S) = held + 1 /\ o \in S
        BY <1>5, <2>2, <3>1
      <3>3. PICK T : T = S \ {o}
        OBVIOUS
      <3>4. IsFiniteSet(T) /\ Cardinality(T) = held
        <4>1. IsFiniteSet(S \ {o}) /\ Cardinality(S \ {o}) = Cardinality(S) - 1
          BY ONLY <3>2, FS_RemoveElement
        <4>2. IsFiniteSet(T) /\ Cardinality(T) = Cardinality(S) - 1
          BY <3>3, <4>1
        <4>3. held \in Nat
          BY <1>4
        <4>4. QED BY ONLY <3>2, <4>2, <4>3
      <3>5. DOMAIN live' = T
        BY <2>6, <3>1, <3>3
      <3>6. QED BY <3>4, <3>5
    <2>8. Blocks'
      <3>1. Used(g) = DOMAIN live' /\ live' \in [DOMAIN live' -> Nat]
        BY <1>1, <2>3, <2>5, <2>6 DEF Room
      <3>2. \A x \in DOMAIN live' : live'[x] + Canary <= g.seg[x].length
        BY <1>1, <2>5, <2>6, <3>1 DEF Room
      <3>3. /\ held' = Cardinality(DOMAIN live')
            /\ g.canary \subseteq DOMAIN live' /\ overrun' = DOMAIN live' \ g.canary
        BY <1>1, <1>2, <1>4, <2>3, <2>5, <2>6, <2>7
      <3>4. QED BY <2>4, <2>7, <3>1, <3>2, <3>3 DEF Blocks
    <2>9. QED BY <1>2, <1>3, <2>4, <2>5, <2>8 DEF IInv
  <1>8. QED BY <1>6, <1>7

LEMMA FreeStep == ASSUME IInv, NEW a \in DOMAIN live, kfree_block(a) PROVE IInv'
  <1>1. CASE ~check_heap_canaries /\ Abort
    BY <1>1, AbortStep
  <1>2. CASE ~(~check_heap_canaries /\ Abort)
    <2>1. /\ check_heap_canaries /\ call = None
          /\ heap' = kfree(heap, a) /\ live' = [x \in DOMAIN live \ {a} |-> live[x]] /\ held' = held - 1
          /\ UNCHANGED <<grows, call, halted, overrun>>
      BY <1>2 DEF kfree_block, Idle
    <2>2. PICK g : g = heap'
      OBVIOUS
    <2>3. /\ Chain(g) /\ Loose(g, {}) /\ Used(g) = Used(heap) \ {a}
          /\ \A x \in Used(g) : g.seg[x].length = heap.seg[x].length
          /\ g.end = heap.end /\ g.canary = heap.canary \ {a}
      <3>1. a \in DOMAIN heap.seg /\ ~heap.seg[a].free /\ Chain(heap) /\ Loose(heap, {}) /\ g = kfree(heap, a)
        BY <2>1, <2>2 DEF IInv, Blocks, Used
      <3>2. QED BY ONLY <3>1, Freed
    <2>4. DOMAIN live' = DOMAIN live \ {a} /\ \A x \in DOMAIN live' : live'[x] = live[x]
      BY <2>1
    <2>5. overrun = {}
      BY <2>1, CanariesChecked
    <2>6. IsFiniteSet(DOMAIN live') /\ Cardinality(DOMAIN live') = held - 1
      BY <2>4, FS_RemoveElement DEF IInv, Blocks
    <2>7. Blocks'
      <3>1. Used(g) = DOMAIN live' /\ live' \in [DOMAIN live' -> Nat]
        BY <2>1, <2>3, <2>4 DEF IInv, Blocks
      <3>2. \A x \in DOMAIN live' : live'[x] + Canary <= g.seg[x].length
        BY <2>3, <2>4, <3>1 DEF IInv, Blocks
      <3>3. /\ held' = Cardinality(DOMAIN live')
            /\ g.canary \subseteq DOMAIN live' /\ overrun' = DOMAIN live' \ g.canary
        BY <2>1, <2>3, <2>4, <2>5, <2>6 DEF IInv, Blocks
      <3>4. QED BY <2>2, <2>6, <3>1, <3>2, <3>3 DEF Blocks
    <2>8. CallOK'
      BY <2>1, Constants DEF CallOK, CallType, None
    <2>9. QED BY <2>1, <2>2, <2>3, <2>7, <2>8 DEF IInv
  <1>3. QED BY <1>1, <1>2

LEMMA ReallocStep == ASSUME IInv, NEW a \in DOMAIN live, NEW n \in Sizes, krealloc(a, n) PROVE IInv'
  <1>1. n \in Nat /\ Canary \in Nat /\ a \in DOMAIN heap.seg /\ heap.seg[a].length \in Nat /\ n > 0 /\ call = None
    BY Constants DEF IInv, Blocks, Used, Chain, Typed, SegType, krealloc, Idle
  <1>2. CASE n + Canary <= heap.seg[a].length
    <2>1. live' = [live EXCEPT ![a] = n] /\ UNCHANGED <<grows, heap, call, halted, held, overrun>>
      BY <1>1, <1>2 DEF krealloc
    <2>2. DOMAIN live' = DOMAIN live /\ live' \in [DOMAIN live -> Nat] /\ live'[a] = n /\ \A x \in DOMAIN live : x # a => live'[x] = live[x]
      BY <1>1, <2>1 DEF IInv, Blocks
    <2>3. Blocks'
      <3>1. \A x \in DOMAIN live : live'[x] + Canary <= heap.seg[x].length
        BY <1>2, <2>2 DEF IInv, Blocks
      <3>2. Used(heap') = DOMAIN live' /\ heap' = heap
        BY <2>1, <2>2 DEF IInv, Blocks
      <3>3. QED BY <2>1, <2>2, <3>1, <3>2 DEF IInv, Blocks
    <2>4. CallOK'
      BY <1>1, <2>1, Constants DEF CallOK, CallType, None
    <2>5. Chain(heap') /\ Loose(heap', {})
      BY <2>1 DEF IInv
    <2>6. QED BY <2>1, <2>3, <2>4, <2>5 DEF IInv
  <1>3. CASE ~(n + Canary <= heap.seg[a].length)
    <2>1. Enter(n, a) /\ heap.seg[a].length < n + Canary
      BY <1>1, <1>3 DEF krealloc
    <2>2. QED BY <1>1, <2>1, EnterStep
  <1>4. QED BY <1>2, <1>3

LEMMA OverrunStep == ASSUME IInv, NEW a \in DOMAIN live, Overrun(a) PROVE IInv'
  <1>1. /\ overrun' = overrun \cup {a} /\ heap' = [heap EXCEPT !.canary = @ \ {a}] /\ call = None
        /\ UNCHANGED <<grows, call, halted, live, held>>
    BY DEF Overrun, Idle
  <1>2. PICK g, c : g = heap' /\ c = heap.canary \ {a}
    OBVIOUS
  <1>3. g = [seg |-> heap.seg, last_hdr |-> heap.last_hdr, end |-> heap.end, canary |-> c]
    <2>1. g = [heap EXCEPT !.canary = c] /\ IsHeap(heap)
      BY <1>1, <1>2 DEF IInv, Chain, Typed
    <2>2. QED BY ONLY <2>1, SetCanary
  <1>4. g.seg = heap.seg /\ g.last_hdr = heap.last_hdr /\ g.end = heap.end /\ g.canary = c /\ IsHeap(g)
    BY ONLY <1>3 DEF IsHeap
  <1>5. Chain(g) /\ Loose(g, {})
    <2>1. Chain(g)
      BY <1>4, SameList DEF IInv
    <2>2. QED BY <1>4, <2>1 DEF IInv, Loose
  <1>6. Used(g) = Used(heap)
    BY <1>4 DEF Used
  <1>7. Blocks'
    BY <1>1, <1>2, <1>4, <1>6 DEF IInv, Blocks
  <1>8. CallOK'
    BY <1>1, Constants DEF CallOK, CallType, None
  <1>9. QED BY <1>1, <1>2, <1>5, <1>7, <1>8 DEF IInv

(* What expand_heap does to the list.                                      *)
LEMMA Expanded ==
    ASSUME IInv, expand_heap
    PROVE  \E g, len : /\ heap' = g /\ len = RoundUp(call.size) /\ ExtendedBy(heap, g, len)
                       /\ len \in Nat /\ call.size <= len /\ Page <= len
  <1>1. PICK n, len : n = call.size /\ len = RoundUp(call.size)
    OBVIOUS
  <1>2. n \in Nat \ {0} /\ Mult(n)
    <2>1. n \in Nat /\ call.want \in Nat /\ call # None
      BY <1>1 DEF expand_heap, IInv, CallOK, CallType
    <2>2. call.want + Canary <= n /\ Mult(n)
      BY <1>1, <2>1 DEF IInv, CallOK
    <2>3. QED BY <2>1, <2>2, Constants
  <1>3. len \in Nat /\ n <= len /\ Page <= len /\ Mult(len)
    BY <1>1, <1>2, RoundUpIs
  <1>4. PICK f, g : f = Appended(heap, len) /\ g = hsh_combine_backward(f, heap.end)
    OBVIOUS
  <1>5. heap' = g
    BY <1>1, <1>4 DEF expand_heap, Appended
  <1>6. ExtendedBy(heap, g, len)
    <2>1. Chain(heap) /\ Loose(heap, {}) /\ len \in Nat /\ Mult(len) /\ len >= Page
      BY <1>3, Constants DEF IInv
    <2>2. QED BY ONLY <1>4, <2>1, Extended
  <1>7. QED BY <1>1, <1>3, <1>5, <1>6

(* A third expansion is never needed.                                      *)
LEMMA ExpandStep == ASSUME IInv, expand_heap PROVE IInv'
  <1>1. /\ call # None /\ call \in CallType /\ Fits(call.size) = {} /\ ~halted
        /\ call' = [call EXCEPT !.size = Padded(@), !.grown = @ + 1]
        /\ UNCHANGED <<grows, halted, live, held, overrun>>
    BY DEF expand_heap, IInv, CallOK
  <1>2. PICK n, w, k : n = call.size /\ w = call.want /\ k = call.grown
    OBVIOUS
  <1>3. /\ w \in Sizes /\ w \in Nat /\ n \in Nat \ {0} /\ Mult(n) /\ w + Canary <= n /\ k \in 0 .. 2 /\ overrun = {} /\ w > 0
        /\ call.old \in DOMAIN live \cup {NULL} /\ call.old \in Int
        /\ call.old # NULL => heap.seg[call.old].length < w + Canary
        /\ k = 0 => n <= w + Canary + Granule
        /\ k = 1 => n <= w + 2 * (Canary + Granule)
        /\ k # 0 => heap.seg[heap.last_hdr].free
        /\ k = 1 => heap.seg[heap.last_hdr].length >= Page - Hdr
        /\ k = 2 => heap.seg[heap.last_hdr].length >= n
    <2>1. w \in Nat /\ n \in Nat /\ call.old \in Int /\ k \in 0 .. 2
      BY <1>1, <1>2 DEF CallType
    <2>2. w + Canary <= n /\ n \in Nat \ {0}
      BY <1>1, <1>2, <2>1, Constants DEF IInv, CallOK
    <2>3. QED BY <1>1, <1>2, <2>1, <2>2 DEF IInv, CallOK
  <1>4. heap.last_hdr \in DOMAIN heap.seg /\ heap.seg[heap.last_hdr].length \in Nat
    BY DEF IInv, Chain, Typed, SegType
  <1>5. k \in {0, 1}
    <2>1. SUFFICES ASSUME k = 2 PROVE FALSE
      BY <1>3
    <2>2. heap.last_hdr \in Fits(call.size)
      BY <1>2, <1>3, <1>4, <2>1 DEF Fits
    <2>3. QED BY <1>1, <2>2
  <1>6. PICK g, len : heap' = g /\ ExtendedBy(heap, g, len) /\ len \in Nat /\ call.size <= len /\ Page <= len
    BY Expanded
  <1>7. len \in Nat /\ n <= len /\ Page <= len
    BY <1>2, <1>6
  <1>8. heap' = g
    BY <1>6
  <1>9. /\ Chain(g) /\ Loose(g, {}) /\ Used(g) = Used(heap)
        /\ \A x \in Used(heap) : g.seg[x].length = heap.seg[x].length
        /\ g.canary = heap.canary /\ g.end = heap.end + len
        /\ g.seg[g.last_hdr].free /\ g.seg[g.last_hdr].length >= len - Hdr
        /\ heap.seg[heap.last_hdr].free => g.seg[g.last_hdr].length = heap.seg[heap.last_hdr].length + len
    BY ONLY <1>6 DEF ExtendedBy
  <1>10. Blocks'
    BY <1>1, <1>8, <1>9 DEF IInv, Blocks
  <1>11. /\ Canary \in Nat /\ Granule \in Nat /\ Page \in Nat /\ Hdr \in Nat /\ WordSize \in Nat
         /\ Hdr + Granule + Canary <= Page /\ w + 2 * (Canary + Granule) + 2 * Page < WordSize
    BY <1>3, Constants
  <1>12. n <= w + 2 * (Canary + Granule) /\ n + Canary + Granule < WordSize
    BY ONLY <1>3, <1>5, <1>11
  <1>13. PICK p : /\ p = Padded(n) /\ p \in Nat /\ Mult(p) /\ n + Canary <= p /\ p <= n + Canary + Granule
    <2>1. n \in Nat
      BY <1>3
    <2>2. QED BY <1>12, <2>1, PaddedIs
  <1>14. PICK c : c = call'
    OBVIOUS
  <1>15. c \in CallType /\ c.want = w /\ c.size = p /\ c.old = call.old /\ c.grown = k + 1
    <2> DEFINE u == [call EXCEPT !.size = p]
               v == [u EXCEPT !.grown = k + 1]
    <2>1. c = v
      BY <1>1, <1>2, <1>13, <1>14 DEF CallType
    <2>2. u \in CallType /\ u.want = call.want /\ u.size = p /\ u.old = call.old
      BY <1>1, <1>13 DEF CallType
    <2> HIDE DEF u
    <2>3. k + 1 \in 0 .. 2
      BY <1>5
    <2>4. v \in CallType /\ v.want = u.want /\ v.size = u.size /\ v.old = u.old /\ v.grown = k + 1
      BY ONLY <2>2, <2>3 DEF CallType
    <2> HIDE DEF v
    <2>5. QED BY <1>2, <2>1, <2>2, <2>4
  <1>16. CallOK'
    <2>1. PICK z : z = g.seg[g.last_hdr].length
      OBVIOUS
    <2>2. z \in Nat
      BY <1>9, <2>1 DEF Chain, Typed, SegType
    <2>3. w + Canary <= p
      BY ONLY <1>3, <1>11, <1>13
    <2>4. k = 0 => p <= w + 2 * (Canary + Granule)
      BY ONLY <1>3, <1>11, <1>13
    <2>5. z >= Page - Hdr
      BY ONLY <1>7, <1>9, <1>11, <2>1, <2>2
    <2>6. k = 1 => z >= p
      <3>1. SUFFICES ASSUME k = 1 PROVE z >= p
        OBVIOUS
      <3>2. PICK y : y = heap.seg[heap.last_hdr].length
        OBVIOUS
      <3>3. y \in Nat /\ y >= Page - Hdr /\ z = y + len
        BY <1>3, <1>4, <1>9, <2>1, <3>1, <3>2
      <3>4. QED BY ONLY <1>7, <1>11, <1>13, <3>3, <1>3
    <2>7. call.old # NULL => g.seg[call.old].length < w + Canary
      BY <1>3, <1>9 DEF IInv, Blocks
    <2>8. live' = live /\ overrun' = {} /\ heap' = g /\ call' = c
      BY <1>1, <1>3, <1>8, <1>14
    <2>9. QED BY <1>3, <1>5, <1>9, <1>13, <1>15, <2>1, <2>3, <2>4, <2>5, <2>6, <2>7, <2>8 DEF CallOK
  <1>17. QED BY <1>1, <1>8, <1>9, <1>10, <1>16 DEF IInv

LEMMA StepInv == IInv /\ [Next]_vars => IInv'
  <1>1. SUFFICES ASSUME IInv, [Next]_vars PROVE IInv'
    OBVIOUS
  <1>2. CASE UNCHANGED vars
    BY <1>1, <1>2 DEF vars, IInv, Blocks, CallOK
  <1>3. ASSUME NEW n \in Sizes, kmalloc(n) PROVE IInv'
    <2>1. call = None /\ n > 0 /\ Enter(n, NULL)
      BY <1>3 DEF kmalloc, Idle
    <2>2. PICK o : o = NULL
      OBVIOUS
    <2>3. Enter(n, o) /\ o \in DOMAIN live \cup {NULL} /\ (o # NULL => heap.seg[o].length < n + Canary)
      BY <2>1, <2>2
    <2>4. QED BY <1>1, <2>1, <2>3, EnterStep
  <1>4. CASE kmalloc_found
    BY <1>1, <1>4, FoundStep
  <1>5. CASE kmalloc_full
    BY <1>1, <1>5, AbortStep DEF kmalloc_full
  <1>6. CASE expand_heap
    BY <1>1, <1>6, ExpandStep
  <1>7. ASSUME NEW a \in DOMAIN live, kfree_block(a) PROVE IInv'
    BY <1>1, <1>7, FreeStep
  <1>8. ASSUME NEW a \in DOMAIN live, NEW n \in Sizes, krealloc(a, n) PROVE IInv'
    BY <1>1, <1>8, ReallocStep
  <1>9. ASSUME NEW a \in DOMAIN live, Overrun(a) PROVE IInv'
    BY <1>1, <1>9, OverrunStep
  <1>10. QED BY <1>1, <1>2, <1>3, <1>4, <1>5, <1>6, <1>7, <1>8, <1>9 DEF Next

(* The list stays exact, in address order and merged, and agrees with what *)
(* callers hold, after any sequence of malloc, free, realloc and expansion.*)
THEOREM HeapInv == Spec => []IInv
  <1>1. QED BY InitInv, StepInv, PTL DEF Spec

(* TypeOK: links and last_hdr lead to headers of the heap, and malloc      *)
(* expands the heap at most twice.                                         *)
THEOREM HeapTypeOK == Spec => []TypeOK
  <1>1. IInv => TypeOK
    <2>1. SUFFICES ASSUME IInv PROVE TypeOK
      OBVIOUS
    <2>2. /\ heap.end \in Nat /\ DOMAIN heap.seg \subseteq Nat /\ 0 \in DOMAIN heap.seg
          /\ heap.seg \in [DOMAIN heap.seg -> SegType] /\ heap.last_hdr \in DOMAIN heap.seg
      BY <2>1 DEF IInv, Chain, Typed
    <2>3. \A a \in DOMAIN heap.seg : a \in 0 .. heap.end - 1
      <3>1. \A a \in DOMAIN heap.seg : a + Hdr + heap.seg[a].length <= heap.end /\ heap.seg[a].length \in Nat
        BY <2>1, <2>2 DEF IInv, Chain, Inside, SegType
      <3>2. QED BY <2>2, <3>1, Constants
    <2>4. \A a \in DOMAIN heap.seg :
             heap.seg[a] \in [length : Nat, next : DOMAIN heap.seg \cup {NULL},
                              last : DOMAIN heap.seg \cup {NULL}, free : BOOLEAN]
      BY <2>1, <2>2 DEF IInv, Chain, Ends, SegType
    <2>5. heap.canary \subseteq DOMAIN heap.seg /\ DOMAIN live \subseteq DOMAIN heap.seg /\ overrun \subseteq DOMAIN live
      BY <2>1 DEF IInv, Blocks, Used
    <2>6. held \in Nat
      BY <2>1, FS_CardinalityType DEF IInv, Blocks
    <2>7. call.old \in DOMAIN live \cup {NULL} /\ call.grown \in 0 .. 2 /\ grows \in BOOLEAN
      BY <2>1 DEF IInv, CallOK, CallType
    <2>8. QED BY <2>2, <2>3, <2>4, <2>5, <2>6, <2>7 DEF TypeOK, Headers
  <1>2. QED BY <1>1, HeapInv, PTL

(* Linked: hsh_split, hsh_combine_forward, hsh_combine_backward and        *)
(* expand_heap keep the list exact, doubly linked and fully merged.        *)
THEOREM HeapLinked == Spec => []Linked
  <1>1. IInv => Linked
    BY DEF IInv, Chain, Ends, Adjacent, TwoWay, Loose, Linked, Headers
  <1>2. QED BY <1>1, HeapInv, PTL

(* BlocksHold: the used segments are the blocks callers hold, with room    *)
(* for their size; krealloc's copy never destroys a canary.                *)
THEOREM HeapBlocksHold == Spec => []BlocksHold
  <1>1. IInv => BlocksHold
    BY DEF IInv, Blocks, Used, BlocksHold, Headers
  <1>2. QED BY <1>1, HeapInv, PTL

(* OverrunDetected: check_heap_canaries stops malloc and free before they  *)
(* change the list once the canary of any block is damaged.                *)
THEOREM HeapOverrunDetected == Spec => OverrunDetected
  <1>1. IInv /\ [Next]_vars => [heap'.seg # heap.seg => overrun = {}]_vars
    <2>1. SUFFICES ASSUME IInv, Next, heap'.seg # heap.seg PROVE overrun = {}
      BY DEF vars
    <2>2. call # None => overrun = {}
      BY <2>1 DEF IInv, CallOK
    <2>3. check_heap_canaries => overrun = {}
      BY <2>1, CanariesChecked
    <2>4. ASSUME NEW n \in Sizes, kmalloc(n) PROVE heap' = heap
      BY <2>4 DEF kmalloc, Enter, Abort
    <2>5. ASSUME NEW a \in DOMAIN live, kfree_block(a) PROVE check_heap_canaries \/ heap' = heap
      BY <2>5 DEF kfree_block, Abort
    <2>6. ASSUME NEW a \in DOMAIN live, NEW n \in Sizes, krealloc(a, n) PROVE heap' = heap
      BY <2>6 DEF krealloc, Enter, Abort
    <2>7. ASSUME NEW a \in DOMAIN live, Overrun(a) PROVE heap'.seg = heap.seg
      <3>1. IsHeap(heap) /\ heap' = [heap EXCEPT !.canary = @ \ {a}]
        BY <2>1, <2>7 DEF IInv, Chain, Typed, Overrun
      <3>2. PICK c, g : c = heap.canary \ {a} /\ g = heap'
        OBVIOUS
      <3>3. g = [heap EXCEPT !.canary = c]
        BY <3>1, <3>2
      <3>4. g = [seg |-> heap.seg, last_hdr |-> heap.last_hdr, end |-> heap.end, canary |-> c]
        BY ONLY <3>1, <3>3, SetCanary
      <3>5. g.seg = heap.seg
        BY ONLY <3>4
      <3>6. QED BY <3>2, <3>5
    <2>8. kmalloc_found \/ kmalloc_full \/ expand_heap => call # None
      BY DEF kmalloc_found, kmalloc_full, expand_heap
    <2>9. QED BY <2>1, <2>2, <2>3, <2>4, <2>5, <2>6, <2>7, <2>8 DEF Next
  <1>2. QED BY <1>1, HeapInv, PTL DEF Spec, OverrunDetected
-----------------------------------------------------------------------------
(* The heap implements the abstract allocator: a block is named by its     *)
(* header, so the blocks of two headers differ and lie apart.              *)

Blk(L, x) == [ptr |-> x + Hdr, size |-> L[x]]
BlocksOf(L) == {Blk(L, x) : x \in DOMAIN L}

LEMMA BlkIs == ASSUME NEW L, NEW x PROVE Blk(L, x).ptr = x + Hdr /\ Blk(L, x).size = L[x]
  BY DEF Blk

LEMMA Separate ==
    ASSUME NEW h, NEW L, Chain(h), Room(h, L), NEW x \in DOMAIN L
    PROVE  /\ x \in Nat /\ L[x] \in Nat
           /\ Blk(L, x) \in Alloc!Blocks
           /\ Blk(L, x).ptr + Blk(L, x).size <= h.end
           /\ \A y \in DOMAIN L : x # y => Alloc!Disjoint(Blk(L, x), Blk(L, y))
  <1>1. /\ Hdr \in Nat /\ Canary \in Nat /\ h.end \in Nat
        /\ \A y \in DOMAIN L : /\ y \in Nat /\ y \in DOMAIN h.seg /\ L[y] \in Nat /\ h.seg[y].length \in Nat
                               /\ L[y] + Canary <= h.seg[y].length
    BY Constants DEF Chain, Typed, SegType, Room, Used
  <1>2. Blk(L, x) \in Alloc!Blocks
    BY <1>1 DEF Blk, Alloc!Blocks
  <1>3. x + Hdr + h.seg[x].length <= h.end
    BY <1>1 DEF Chain, Inside
  <1>4. (x + Hdr) + L[x] <= h.end
    BY ONLY <1>1, <1>3, x \in DOMAIN L
  <1>5. ASSUME NEW y \in DOMAIN L, x # y PROVE Alloc!Disjoint(Blk(L, x), Blk(L, y))
    <2>1. x < y => (x + Hdr) + L[x] <= y + Hdr
      <3>1. x < y => x + Hdr + h.seg[x].length <= y
        BY <1>1 DEF Chain, Apart
      <3>2. QED BY ONLY <1>1, <3>1, x \in DOMAIN L, y \in DOMAIN L
    <2>2. y < x => (y + Hdr) + L[y] <= x + Hdr
      <3>1. y < x => y + Hdr + h.seg[y].length <= x
        BY <1>1 DEF Chain, Apart
      <3>2. QED BY ONLY <1>1, <3>1, x \in DOMAIN L, y \in DOMAIN L
    <2>3. x < y \/ y < x
      BY <1>1, <1>5
    <2>4. QED BY <2>1, <2>2, <2>3, BlkIs DEF Alloc!Disjoint
  <1>6. QED BY <1>1, <1>2, <1>4, <1>5, BlkIs

LEMMA Distinct == ASSUME NEW L, NEW M, NEW x \in Nat, NEW y \in Nat, x # y
                  PROVE  Blk(L, x) # Blk(M, y)
  <1>1. x + Hdr # y + Hdr
    BY Constants
  <1>2. QED BY <1>1, BlkIs

LEMMA AddBlock ==
    ASSUME NEW L, DOMAIN L \subseteq Nat, NEW a \in Nat, a \notin DOMAIN L, NEW M,
           DOMAIN M = DOMAIN L \cup {a}, \A x \in DOMAIN L : M[x] = L[x]
    PROVE  BlocksOf(M) = BlocksOf(L) \cup {Blk(M, a)} /\ Blk(M, a) \notin BlocksOf(L)
  <1>1. \A x \in DOMAIN L : Blk(M, x) = Blk(L, x)
    BY DEF Blk
  <1>2. \A x \in DOMAIN L : Blk(M, a) # Blk(L, x)
    BY Distinct
  <1>3. QED BY <1>1, <1>2 DEF BlocksOf

LEMMA DropBlock ==
    ASSUME NEW L, DOMAIN L \subseteq Nat, NEW a \in DOMAIN L, NEW M,
           DOMAIN M = DOMAIN L \ {a}, \A x \in DOMAIN M : M[x] = L[x]
    PROVE  /\ BlocksOf(M) = BlocksOf(L) \ {Blk(L, a)} /\ Blk(L, a) \in BlocksOf(L)
           /\ Blk(L, a) \notin BlocksOf(M)
  <1>1. \A x \in DOMAIN M : Blk(M, x) = Blk(L, x)
    BY DEF Blk
  <1>2. \A x \in DOMAIN M : Blk(L, a) # Blk(L, x)
    BY Distinct
  <1>3. QED BY <1>1, <1>2 DEF BlocksOf

LEMMA HeldIs == HeldBlocks = BlocksOf(live) /\ HeldBlocks' = BlocksOf(live')
  BY DEF HeldBlocks, BlocksOf, Blk

LEMMA FoundRefines == ASSUME IInv, kmalloc_found PROVE Alloc!Next
  <1>1. PICK a, h, L : FoundBy(a, h, L)
    BY Found
  <1>2. /\ a \in DOMAIN heap.seg /\ a \notin DOMAIN live
        /\ L = [x \in DOMAIN live \cup {a} |-> IF x = a THEN call.want ELSE live[x]]
        /\ Chain(h) /\ Room(h, L) /\ h.end = heap.end
    BY <1>1 DEF FoundBy
  <1>3. call.want \in Nat \ {0} /\ call.old \in DOMAIN live \cup {NULL}
    BY DEF kmalloc_found, IInv, CallOK, CallType
  <1>4. /\ DOMAIN L = DOMAIN live \cup {a} /\ L[a] = call.want /\ \A x \in DOMAIN live : L[x] = live[x]
    BY <1>2
  <1>5. DOMAIN L \subseteq Nat /\ DOMAIN live \subseteq Nat /\ a \in Nat
    <2>1. \A x \in DOMAIN L : x \in Nat
      BY <1>2, Separate
    <2>2. QED BY <1>4, <2>1
  <1>6. PICK c : c = Blk(L, a)
    OBVIOUS
  <1>7. PICK B : B = BlocksOf(live)
    OBVIOUS
  <1>8. BlocksOf(L) = B \cup {c} /\ c \notin B
    BY <1>2, <1>4, <1>5, <1>6, <1>7, AddBlock
  <1>9. /\ c \in Alloc!Blocks /\ c.size = call.want /\ c.ptr = a + Hdr /\ c.ptr + c.size <= heap.end
        /\ \A b \in B : Alloc!Disjoint(c, b)
    <2>1. a \in DOMAIN L
      BY <1>4
    <2>2. /\ c \in Alloc!Blocks /\ c.ptr + c.size <= h.end
          /\ \A x \in DOMAIN L : a # x => Alloc!Disjoint(c, Blk(L, x))
      BY <1>2, <1>6, <2>1, Separate
    <2>3. \A x \in DOMAIN live : Blk(L, x) = Blk(live, x)
      BY <1>4 DEF Blk
    <2>4. \A x \in DOMAIN live : Alloc!Disjoint(c, Blk(live, x))
      BY <1>2, <1>4, <2>2, <2>3
    <2>5. \A b \in B : Alloc!Disjoint(c, b)
      BY <1>7, <2>4 DEF BlocksOf
    <2>6. QED BY <1>2, <1>4, <1>6, <2>2, <2>5, BlkIs
  <1>10. HeldBlocks = B
    BY <1>7, HeldIs
  <1>11. heap.end \in Nat
    BY DEF IInv, Chain, Typed
  <1>12. CASE call.old = NULL
    <2>1. heap' = h /\ live' = L /\ held' = held + 1
      BY <1>1, <1>12 DEF FoundBy
    <2>2. HeldBlocks' = B \cup {c} /\ heap'.end = heap.end
      BY <1>2, <1>8, <2>1, HeldIs
    <2>3. Alloc!Fresh(c, HeldBlocks)
      BY <1>3, <1>9, <1>10, <2>2 DEF Alloc!Fresh
    <2>4. Alloc!Malloc(c)
      BY <1>9, <1>10, <2>1, <2>2, <2>3 DEF Alloc!Malloc
    <2>5. Alloc!Grow
      BY <1>11, <2>2 DEF Alloc!Grow
    <2>6. c \in HeldBlocks' \ HeldBlocks
      BY <1>8, <1>10, <2>2
    <2>7. QED BY <2>4, <2>5, <2>6 DEF Alloc!Next
  <1>13. CASE call.old # NULL
    <2>1. PICK o : o = call.old
      OBVIOUS
    <2>2. o \in DOMAIN live /\ o # a /\ o \in DOMAIN L
      BY <1>2, <1>3, <1>4, <1>13, <2>1
    <2>3. heap' = kfree(h, o) /\ held' = held /\ live' = [x \in DOMAIN L \ {o} |-> L[x]]
      BY <1>1, <1>13, <2>1 DEF FoundBy
    <2>4. PICK g, M : g = heap' /\ M = live'
      OBVIOUS
    <2>5. g.end = heap.end
      <3>1. o \in DOMAIN h.seg /\ ~h.seg[o].free /\ Chain(h) /\ Loose(h, {}) /\ g = kfree(h, o)
        BY <1>1, <1>2, <2>2, <2>3, <2>4 DEF FoundBy, Room, Used
      <3>2. g.end = h.end
        BY ONLY <3>1, Freed
      <3>3. QED BY <1>2, <3>2
    <2>6. DOMAIN M = DOMAIN L \ {o} /\ \A x \in DOMAIN M : M[x] = L[x]
      BY <2>3, <2>4
    <2>7. PICK b : b = Blk(live, o)
      OBVIOUS
    <2>8. b = Blk(L, o) /\ b \in B /\ b.ptr = o + Hdr
      BY <1>4, <1>7, <2>2, <2>7 DEF Blk, BlocksOf
    <2>9. BlocksOf(M) = (B \cup {c}) \ {b} /\ b # c
      <3>1. BlocksOf(M) = BlocksOf(L) \ {Blk(L, o)}
        BY <1>5, <2>2, <2>6, DropBlock
      <3>2. QED BY <1>8, <2>8, <3>1
    <2>10. HeldBlocks' = (B \ {b}) \cup {c}
      <3>1. HeldBlocks' = BlocksOf(M)
        BY <2>4, HeldIs
      <3>2. QED BY <2>9, <3>1
    <2>11. heap'.end = heap.end
      BY <2>4, <2>5
    <2>12. c.ptr # b.ptr
      BY <1>5, <1>9, <2>2, <2>8, Constants
    <2>13. Alloc!Fresh(c, HeldBlocks)
      BY <1>3, <1>9, <1>10, <2>11 DEF Alloc!Fresh
    <2>14. Alloc!Realloc(b, c)
      BY <1>9, <1>10, <2>3, <2>8, <2>10, <2>12, <2>13 DEF Alloc!Realloc
    <2>15. Alloc!Grow
      BY <1>11, <2>11 DEF Alloc!Grow
    <2>16. b \in HeldBlocks \ HeldBlocks' /\ c \in HeldBlocks' \ HeldBlocks
      BY <1>8, <1>10, <2>8, <2>9, <2>10
    <2>17. QED BY <2>14, <2>15, <2>16 DEF Alloc!Next
  <1>14. QED BY <1>12, <1>13

(* Steps that change no block: the arena may grow.                         *)
LEMMA QuietRefines ==
    ASSUME live' = live, held' = held, heap.end \in Nat, heap'.end \in Nat, heap'.end >= heap.end
    PROVE  Alloc!Next
  BY HeldIs DEF Alloc!Next, Alloc!Grow

LEMMA FreeRefines == ASSUME IInv, NEW a \in DOMAIN live, kfree_block(a) PROVE Alloc!Next
  <1>1. heap.end \in Nat /\ Chain(heap) /\ Loose(heap, {}) /\ Room(heap, live)
    BY DEF IInv, Chain, Typed, Blocks, Room
  <1>2. CASE ~check_heap_canaries
    <2>1. Abort
      BY <1>2 DEF kfree_block
    <2>2. QED BY <1>1, <2>1, QuietRefines DEF Abort
  <1>3. CASE check_heap_canaries
    <2>1. heap' = kfree(heap, a) /\ live' = [x \in DOMAIN live \ {a} |-> live[x]] /\ held' = held - 1
      BY <1>3 DEF kfree_block
    <2>2. PICK g, M, b : g = heap' /\ M = live' /\ b = Blk(live, a)
      OBVIOUS
    <2>3. g.end = heap.end
      <3>1. a \in DOMAIN heap.seg /\ ~heap.seg[a].free /\ g = kfree(heap, a)
        BY <1>1, <2>1, <2>2 DEF Room, Used
      <3>2. QED BY ONLY <1>1, <3>1, Freed
    <2>4. DOMAIN M = DOMAIN live \ {a} /\ \A x \in DOMAIN M : M[x] = live[x]
      BY <2>1, <2>2
    <2>5. DOMAIN live \subseteq Nat
      BY <1>1 DEF Room, Used, Chain, Typed
    <2>6. BlocksOf(M) = BlocksOf(live) \ {b} /\ b \in BlocksOf(live) /\ b \notin BlocksOf(M)
      BY <2>2, <2>4, <2>5, DropBlock
    <2>7. HeldBlocks' = HeldBlocks \ {b} /\ b \in HeldBlocks \ HeldBlocks'
      <3>1. HeldBlocks = BlocksOf(live) /\ HeldBlocks' = BlocksOf(M)
        BY <2>2, HeldIs
      <3>2. QED BY <2>6, <3>1
    <2>8. Alloc!Free(b)
      BY <2>1, <2>7 DEF Alloc!Free
    <2>9. Alloc!Grow
      BY <1>1, <2>2, <2>3 DEF Alloc!Grow
    <2>10. QED BY <2>7, <2>8, <2>9 DEF Alloc!Next
  <1>4. QED BY <1>2, <1>3

(* realloc in place keeps the pointer and changes the size.                *)
LEMMA ReallocRefines == ASSUME IInv, NEW a \in DOMAIN live, NEW n \in Sizes, krealloc(a, n) PROVE Alloc!Next
  <1>1. /\ heap.end \in Nat /\ Chain(heap) /\ Room(heap, live) /\ live \in [DOMAIN live -> Nat]
        /\ n \in Nat /\ n > 0 /\ heap.seg[a].length \in Nat /\ a \in Nat /\ DOMAIN live \subseteq Nat
    BY Constants DEF IInv, Chain, Typed, Blocks, Room, Used, SegType, krealloc
  <1>2. CASE ~(n + Canary <= heap.seg[a].length)
    <2>1. Enter(n, a)
      BY <1>2 DEF krealloc
    <2>2. UNCHANGED <<heap, live, held>>
      BY <2>1 DEF Enter, Abort
    <2>3. QED BY <1>1, <2>2, QuietRefines
  <1>3. CASE n + Canary <= heap.seg[a].length
    <2>1. live' = [live EXCEPT ![a] = n] /\ UNCHANGED <<heap, held>>
      BY <1>1, <1>3, Constants DEF krealloc
    <2>2. CASE n = live[a]
      <3>1. live' = live
        BY <1>1, <2>1, <2>2
      <3>2. QED BY <1>1, <2>1, <3>1, QuietRefines
    <2>3. CASE n # live[a]
      <3>1. PICK L, b, c, M : /\ L = live' /\ b = Blk(live, a) /\ c = Blk(L, a)
                              /\ M = [x \in DOMAIN live \ {a} |-> live[x]]
        OBVIOUS
      <3>2. DOMAIN L = DOMAIN live /\ L \in [DOMAIN live -> Nat] /\ L[a] = n /\ \A x \in DOMAIN live : x # a => L[x] = live[x]
        BY <1>1, <2>1, <3>1
      <3>3. DOMAIN M = DOMAIN live \ {a} /\ \A x \in DOMAIN M : M[x] = live[x] /\ L[x] = M[x]
        BY <3>1, <3>2
      <3>4. Room(heap, L)
        BY <1>1, <1>3, <3>2 DEF Room
      <3>5. BlocksOf(M) = BlocksOf(live) \ {b} /\ b \in BlocksOf(live)
        BY <1>1, <3>1, <3>3, DropBlock
      <3>6. BlocksOf(L) = BlocksOf(M) \cup {c} /\ c \notin BlocksOf(M)
        <4>1. DOMAIN L = DOMAIN M \cup {a} /\ a \notin DOMAIN M /\ DOMAIN M \subseteq Nat /\ \A x \in DOMAIN M : L[x] = M[x]
          BY <1>1, <3>2, <3>3
        <4>2. QED BY ONLY <1>1, <3>1, <4>1, AddBlock
      <3>7. b.ptr = a + Hdr /\ c.ptr = a + Hdr /\ c.size = n /\ b.size = live[a]
        BY <3>1, <3>2, BlkIs
      <3>8. b # c
        BY <2>3, <3>7
      <3>9. HeldBlocks = BlocksOf(live) /\ HeldBlocks' = BlocksOf(L)
        BY <3>1, HeldIs
      <3>10. /\ c \in Alloc!Blocks /\ c.ptr + c.size <= heap.end
             /\ \A x \in DOMAIN L : a # x => Alloc!Disjoint(c, Blk(L, x))
        BY <1>1, <3>1, <3>2, <3>4, Separate
      <3>11. \A d \in BlocksOf(M) : Alloc!Disjoint(c, d)
        <4>1. \A x \in DOMAIN M : Blk(M, x) = Blk(L, x) /\ x # a /\ x \in DOMAIN L
          BY <3>2, <3>3 DEF Blk
        <4>2. \A x \in DOMAIN M : Alloc!Disjoint(c, Blk(M, x))
          BY <3>10, <4>1
        <4>3. QED BY <4>2 DEF BlocksOf
      <3>12. Alloc!Fresh(c, HeldBlocks \ {b})
        BY <1>1, <2>1, <3>5, <3>7, <3>9, <3>10, <3>11 DEF Alloc!Fresh
      <3>13. Alloc!Realloc(b, c)
        BY <2>1, <3>5, <3>6, <3>7, <3>9, <3>10, <3>12 DEF Alloc!Realloc
      <3>14. b \in HeldBlocks \ HeldBlocks' /\ c \in HeldBlocks' \ HeldBlocks
        BY <3>5, <3>6, <3>8, <3>9
      <3>15. Alloc!Grow
        BY <1>1, <2>1 DEF Alloc!Grow
      <3>16. QED BY <3>13, <3>14, <3>15 DEF Alloc!Next
    <2>4. QED BY <2>2, <2>3
  <1>4. QED BY <1>2, <1>3

(* AllocationSpec: the segment list implements the abstract allocator.     *)
(* Every block lies inside the arena and overlaps no other, stays in place *)
(* with its size until its holder frees or resizes it, and realloc gives   *)
(* up the old block only once the new one exists.                          *)
THEOREM HeapImplementsAllocation == Spec => AllocationSpec
  <1>1. Init => Alloc!Init
    <2>1. SUFFICES ASSUME Init PROVE Alloc!Init
      OBVIOUS
    <2>2. live = [x \in {} |-> 0] /\ held = 0
      BY <2>1 DEF Init
    <2>3. DOMAIN live = {}
      BY <2>2
    <2>4. HeldBlocks = {}
      BY <2>3 DEF HeldBlocks
    <2>5. heap.end \in Nat
      BY <2>1, InitInv DEF IInv, Chain, Typed
    <2>6. QED BY <2>2, <2>4, <2>5 DEF Alloc!Init
  <1>2. IInv /\ IInv' /\ [Next]_vars => [Alloc!Next]_<<HeldBlocks, heap.end, held>>
    <2>1. SUFFICES ASSUME IInv, IInv', [Next]_vars PROVE [Alloc!Next]_<<HeldBlocks, heap.end, held>>
      OBVIOUS
    <2>2. CASE UNCHANGED vars
      <3>1. HeldBlocks' = HeldBlocks
        BY <2>2, HeldIs DEF vars
      <3>2. QED BY <2>2, <3>1 DEF vars
    <2>3. CASE Next
      <3>1. heap.end \in Nat /\ heap'.end \in Nat
        BY <2>1 DEF IInv, Chain, Typed
      <3>2. ASSUME NEW n \in Sizes, kmalloc(n) PROVE Alloc!Next
        BY <3>1, <3>2, QuietRefines DEF kmalloc, Enter, Abort
      <3>3. CASE kmalloc_found
        BY <2>1, <3>3, FoundRefines
      <3>4. CASE kmalloc_full
        BY <3>1, <3>4, QuietRefines DEF kmalloc_full, Abort
      <3>5. CASE expand_heap
        <4>1. live' = live /\ held' = held /\ heap'.end >= heap.end
          <5>1. PICK g, len : heap' = g /\ ExtendedBy(heap, g, len) /\ len \in Nat
            BY <2>1, <3>5, Expanded
          <5>2. g.end = heap.end + len
            BY ONLY <5>1 DEF ExtendedBy
          <5>3. QED BY <3>1, <3>5, <5>1, <5>2 DEF expand_heap
        <4>2. QED BY <3>1, <4>1, QuietRefines
      <3>6. ASSUME NEW a \in DOMAIN live, kfree_block(a) PROVE Alloc!Next
        BY <2>1, <3>6, FreeRefines
      <3>7. ASSUME NEW a \in DOMAIN live, NEW n \in Sizes, krealloc(a, n) PROVE Alloc!Next
        BY <2>1, <3>7, ReallocRefines
      <3>8. ASSUME NEW a \in DOMAIN live, Overrun(a) PROVE Alloc!Next
        <4>1. IsHeap(heap) /\ heap' = [heap EXCEPT !.canary = @ \ {a}]
          BY <2>1, <3>8 DEF IInv, Chain, Typed, Overrun
        <4>2. PICK c, g : c = heap.canary \ {a} /\ g = heap'
          OBVIOUS
        <4>3. g = [heap EXCEPT !.canary = c]
          BY <4>1, <4>2
        <4>4. g = [seg |-> heap.seg, last_hdr |-> heap.last_hdr, end |-> heap.end, canary |-> c]
          BY ONLY <4>1, <4>3, SetCanary
        <4>5. g.end = heap.end
          BY ONLY <4>4
        <4>6. heap'.end >= heap.end
          BY <3>1, <4>2, <4>5
        <4>7. QED BY <3>1, <3>8, <4>6, QuietRefines DEF Overrun
      <3>9. QED BY <2>3, <3>2, <3>3, <3>4, <3>5, <3>6, <3>7, <3>8 DEF Next
    <2>4. QED BY <2>1, <2>2, <2>3
  <1>3. QED BY <1>1, <1>2, HeapInv, PTL DEF Spec, AllocationSpec, Alloc!Spec
=============================================================================

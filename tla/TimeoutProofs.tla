--------------------------- MODULE TimeoutProofs ---------------------------
(***************************************************************************)
(* Proofs about Timeout: the timing wheel loses no timeout, is never late  *)
(* and implements TimeoutSpec, for any number of timeouts, any size of the *)
(* wheel and any width of an int.                                          *)
(***************************************************************************)
EXTENDS Timeout, FiniteSetTheorems, TLAPS

\* Leaves are first-order steps for Zenon, unless they cite SMT.
USE ZenonT(30)

Buckets == 0 .. 4 * WHEELSIZE - 1

Types ==
  /\ ticks \in 0 .. IntRange - 1
  /\ to_time \in [Timeouts -> 0 .. IntRange - 1]
  /\ to_flags \subseteq Timeouts
  /\ bucket \in [Timeouts -> {NoBucket} \cup Buckets]
  /\ softclock_si \subseteq {"scheduled", "running"}
  /\ called \in Timeouts \cup {NoTimeout}
  /\ timeout_todo \in Seq(Timeouts)

\* timeout_todo has no timeout twice, and every timeout with TIMEOUT_ONQUEUE
\* and no other is on timeout_todo or in a bucket, not on both.
Distinct(seq) == \A i, j \in 1 .. Len(seq) : seq[i] = seq[j] => i = j

On(seq, t) == \E i \in 1 .. Len(seq) : seq[i] = t

Listed(t) ==
  /\ OnQueue(t) <=> (bucket[t] # NoBucket \/ On(timeout_todo, t))
  /\ On(timeout_todo, t) => bucket[t] = NoBucket

\* hardclock() empties the bucket of a timeout before or when it is due.
Wheel(t) ==
  bucket[t] # NoBucket =>
    \E d \in 1 .. Rel(to_time[t]) : bucket[t] \in MovedBuckets((ticks + d) % IntRange)

\* No timeout is so late that the next tick would make it look early.
NotWrapped(t) ==
  OnQueue(t) => /\ Rel(to_time[t]) > -INT_MAX
                /\ softclock_si = {} => Rel(to_time[t]) > 1 - INT_MAX

IInv ==
  /\ Types /\ Distinct(timeout_todo)
  /\ \A t \in Timeouts : Listed(t) /\ Wheel(t) /\ NotWrapped(t)

-----------------------------------------------------------------------------
(* Arithmetic on ints. *)

\* What the assumptions say of the constants, with IntRange as twice INT_MAX + 1.
LEMMA Constants ==
  /\ IntRange \in Nat \ {0} /\ WHEELSIZE \in Nat \ {0}
  /\ INT_MAX \in Nat /\ IntRange = 2 * INT_MAX + 2 /\ INT_MAX > 2
  /\ MaxLate \in Nat \ {0} /\ \A adj \in {1} \cup Adjustments : MaxLate + adj < INT_MAX
<1>1. IntRange \in Nat \ {0} /\ WHEELSIZE \in Nat \ {0} /\ IntRange % 2 = 0
  BY TimeoutAssumption
<1>2. INT_MAX \in Int /\ IntRange = 2 * INT_MAX + 2  BY SMTT(30), <1>1 DEF INT_MAX
<1>3. MaxLate \in Nat \ {0} /\ \A adj \in {1} \cup Adjustments : MaxLate + adj < INT_MAX
  BY TimeoutAssumption
<1>4. MaxLate + 1 < INT_MAX  BY <1>3
<1>5. INT_MAX \in Nat /\ INT_MAX > 2  BY SMTT(30), <1>2, <1>3, <1>4
<1>. QED  BY <1>1, <1>2, <1>3, <1>5

\* Quotient and remainder.
LEMMA Division ==
  ASSUME NEW x \in Int, NEW b \in Nat \ {0}
  PROVE  x % b \in 0 .. b - 1 /\ x \div b \in Int /\ x = b * (x \div b) + (x % b)
BY SMTT(30)

\* They are the only ones.
LEMMA DivisionUnique ==
  ASSUME NEW b \in Nat \ {0}, NEW k \in Int, NEW r \in 0 .. b - 1
  PROVE  (b * k + r) % b = r /\ (b * k + r) \div b = k
<1>1. b * k + r \in Int  BY SMTT(30)
<1>2. PICK q \in Int, s \in 0 .. b - 1 :
        q = (b * k + r) \div b /\ s = (b * k + r) % b /\ b * k + r = b * q + s
  BY <1>1, Division
<1>3. b * (k - q) = b * k - b * q  BY SMTT(30)
<1>4. -b < b * (k - q) /\ b * (k - q) < b  BY SMTT(30), <1>2, <1>3
<1>5. k - q = 0
  <2>1. ASSUME NEW x \in Int, -b < b * x, b * x < b PROVE x = 0  BY SMTT(30), <2>1
  <2>2. k - q \in Int  BY SMTT(30)
  <2>. QED  BY <1>4, <2>1, <2>2
<1>6. k = q  BY SMTT(30), <1>5
<1>7. r = s  BY SMTT(30), <1>2, <1>6
<1>. QED  BY <1>2, <1>6, <1>7

\* Congruent numbers have the same remainder.
LEMMA ModShift ==
  ASSUME NEW x \in Int, NEW k \in Int, NEW b \in Nat \ {0}
  PROVE  (x + b * k) % b = x % b
<1>1. PICK q \in Int, r \in 0 .. b - 1 : q = x \div b /\ r = x % b /\ x = b * q + r
  BY Division
<1>2. x + b * k = b * (q + k) + r /\ q + k \in Int  BY SMTT(30), <1>1
<1>3. (b * (q + k) + r) % b = r  BY <1>2, DivisionUnique
<1>. QED  BY <1>1, <1>2, <1>3

\* A wrapped number differs from the number by a multiple of IntRange.
LEMMA Wrapped ==
  ASSUME NEW x \in Int
  PROVE  /\ x % IntRange \in 0 .. IntRange - 1
         /\ \E k \in Int : x % IntRange = x + IntRange * k
<1>0. IntRange \in Nat \ {0}  BY Constants
<1>1. PICK q \in Int, r \in 0 .. IntRange - 1 :
        r = x % IntRange /\ x = IntRange * q + r
  BY <1>0, Division
<1>2. IntRange * (-q) = -(IntRange * q) /\ -q \in Int  BY SMTT(30), Constants
<1>3. r = x + IntRange * (-q)  BY SMTT(30), <1>1, <1>2, Constants
<1>. QED  BY <1>1, <1>2, <1>3

Ints == -INT_MAX - 1 .. INT_MAX

\* Signed(n) is any int that is congruent to n: there is only one.
LEMMA SignedIs ==
  ASSUME NEW n \in Int, NEW s \in Ints, NEW k \in Int, n = s + IntRange * k
  PROVE  Signed(n) = s
<1>1. IntRange \in Nat \ {0} /\ IntRange = 2 * INT_MAX + 2 /\ INT_MAX \in Nat  BY Constants
<1>2. n % IntRange = s % IntRange /\ s \in Int
  <2>1. s \in Int  BY SMTT(30), <1>1 DEF Ints
  <2>2. (s + IntRange * k) % IntRange = s % IntRange  BY <1>1, <2>1, ModShift
  <2>. QED  BY <2>1, <2>2
<1>3. CASE s >= 0
  <2>1. s \in 0 .. IntRange - 1 /\ s = IntRange * 0 + s  BY SMTT(30), <1>1, <1>3 DEF Ints
  <2>2. (IntRange * 0 + s) % IntRange = s
    <3>1. 0 \in Int  BY SMTT(30)
    <3>. QED  BY <1>1, <2>1, <3>1, DivisionUnique
  <2>. QED  BY SMTT(30), <1>1, <1>2, <2>1, <2>2 DEF Signed, Ints
<1>4. CASE s < 0
  <2>1. s + IntRange \in 0 .. IntRange - 1 /\ s = IntRange * (-1) + (s + IntRange)
    BY SMTT(30), <1>1, <1>4 DEF Ints
  <2>2. (IntRange * (-1) + (s + IntRange)) % IntRange = s + IntRange
    <3>1. -1 \in Int  BY SMTT(30)
    <3>. QED  BY <1>1, <2>1, <3>1, DivisionUnique
  <2>. QED  BY SMTT(30), <1>1, <1>2, <2>1, <2>2 DEF Signed, Ints
<1>. QED  BY SMTT(30), <1>2, <1>3, <1>4

\* Signed(n) is an int congruent to n.
LEMMA SignedType ==
  ASSUME NEW n \in Int
  PROVE  Signed(n) \in Ints /\ Signed(n) \in Int
         /\ \E k \in Int : n = Signed(n) + IntRange * k
<1>1. IntRange \in Nat \ {0} /\ IntRange = 2 * INT_MAX + 2 /\ INT_MAX \in Nat  BY Constants
<1>2. PICK q \in Int, r \in 0 .. IntRange - 1 : r = n % IntRange /\ n = IntRange * q + r
  <2>1. /\ n % IntRange \in 0 .. IntRange - 1 /\ n \div IntRange \in Int
        /\ n = IntRange * (n \div IntRange) + (n % IntRange)
    BY <1>1, Division
  <2>. QED  BY <2>1
<1>3. CASE r > INT_MAX
  <2>1. Signed(n) = r - IntRange  BY <1>2, <1>3 DEF Signed
  <2>2. IntRange * (q + 1) = IntRange * q + IntRange  BY SMTT(30), <1>1
  <2>3. n = Signed(n) + IntRange * (q + 1) /\ q + 1 \in Int  BY SMTT(30), <1>1, <1>2, <2>1, <2>2
  <2>4. Signed(n) \in Ints /\ Signed(n) \in Int  BY SMTT(30), <1>1, <1>2, <1>3, <2>1 DEF Ints
  <2>. QED  BY <2>3, <2>4
<1>4. CASE ~(r > INT_MAX)
  <2>1. Signed(n) = r  BY <1>2, <1>4 DEF Signed
  <2>2. n = Signed(n) + IntRange * q  BY SMTT(30), <1>1, <1>2, <2>1
  <2>3. Signed(n) \in Ints /\ Signed(n) \in Int  BY SMTT(30), <1>1, <1>2, <1>4, <2>1 DEF Ints
  <2>. QED  BY <2>2, <2>3
<1>. QED  BY <1>3, <1>4

\* to_time - ticks is an int.
LEMMA RelType ==
  ASSUME NEW x \in Int, ticks \in Int
  PROVE  Rel(x) \in Ints /\ Rel(x) \in Int
<1>1. x - ticks \in Int  BY SMTT(30)
<1>. QED  BY <1>1, SignedType DEF Rel

\* A timeout added for n ticks from now is n ticks from now.
LEMMA RelNew ==
  ASSUME NEW n \in 0 .. INT_MAX, ticks \in Int
  PROVE  Rel((n + ticks) % IntRange) = n
<1>1. n + ticks \in Int /\ n \in Int /\ n \in Ints  BY SMTT(30), Constants DEF Ints
<1>2. PICK k \in Int : (n + ticks) % IntRange = n + ticks + IntRange * k  BY <1>1, Wrapped
<1>3. ((n + ticks) % IntRange) - ticks = n + IntRange * k
  BY SMTT(30), <1>1, <1>2, Constants
<1>4. ((n + ticks) % IntRange) - ticks \in Int  BY SMTT(30), <1>1, <1>3, Constants
<1>. QED  BY <1>1, <1>3, <1>4, SignedIs DEF Rel

\* After n more ticks everything is n ticks closer, as far as ints reach.
LEMMA RelLater ==
  ASSUME NEW x \in Int, NEW n \in Nat, ticks \in Int, ticks' = (ticks + n) % IntRange,
         Rel(x) - n >= -INT_MAX - 1
  PROVE  Rel(x)' = Rel(x) - n
<1>1. Rel(x) \in Ints /\ Rel(x) \in Int  BY RelType
<1>2. ticks + n \in Int /\ x - ticks \in Int  BY SMTT(30)
<1>3. PICK k \in Int : ticks' = ticks + n + IntRange * k  BY <1>2, Wrapped
<1>4. PICK m \in Int : x - ticks = Rel(x) + IntRange * m  BY <1>2, SignedType DEF Rel
<1>5. IntRange * (m - k) = IntRange * m - IntRange * k /\ m - k \in Int  BY SMTT(30), Constants
<1>6. x - ticks' = (Rel(x) - n) + IntRange * (m - k) /\ x - ticks' \in Int
  BY SMTT(30), <1>1, <1>3, <1>4, <1>5, Constants
<1>7. Rel(x) - n \in Ints  BY SMTT(30), <1>1, Constants DEF Ints
<1>8. ASSUME NEW y \in Int, NEW s \in Ints, y = s + IntRange * (m - k) PROVE Signed(y) = s
  BY <1>5, <1>8, SignedIs
<1>9. Signed(x - ticks') = Rel(x) - n  BY <1>6, <1>7, <1>8
<1>. QED  BY <1>9 DEF Rel

-----------------------------------------------------------------------------
(* The wheel. *)

Levels == 0 .. 3

\* The ticks that a bucket of each level stands for.
LEMMA SpanIs ==
  /\ Span[0] = 1 /\ Span[1] = WHEELSIZE /\ Span[2] = WHEELSIZE * WHEELSIZE
  /\ Span[3] = WHEELSIZE * WHEELSIZE * WHEELSIZE
<1>1. 0 \in 0 .. 3 /\ 1 \in 0 .. 3 /\ 2 \in 0 .. 3 /\ 3 \in 0 .. 3  BY SMTT(30)
<1>2. 0 # 1 /\ 0 # 2 /\ 0 # 3 /\ 1 # 2 /\ 1 # 3 /\ 2 # 3  BY SMTT(30)
<1>. QED  BY <1>1, <1>2 DEF Span

\* A bucket stands for at least one tick.
LEMMA SpanType == \A w \in Levels : Span[w] \in Nat \ {0}
<1>1. WHEELSIZE \in Nat \ {0}  BY Constants
<1>2. WHEELSIZE * WHEELSIZE \in Nat \ {0}  BY SMTT(30), <1>1
<1>3. WHEELSIZE * WHEELSIZE * WHEELSIZE \in Nat \ {0}  BY SMTT(30), <1>1, <1>2
<1>4. 1 \in Nat \ {0}  BY SMTT(30)
<1>5. \A w \in Levels : w = 0 \/ w = 1 \/ w = 2 \/ w = 3  BY SMTT(30) DEF Levels
<1>. QED  BY <1>1, <1>2, <1>3, <1>4, <1>5, SpanIs

\* A level spans whole rounds of the levels below.
LEMMA SpanDivides ==
  ASSUME NEW w \in Levels, NEW u \in 0 .. w - 1
  PROVE  \E m \in Nat : Span[w] = Span[u] * (WHEELSIZE * m)
<1>. DEFINE W == WHEELSIZE
<1>1. W \in Nat  BY Constants
<1>2. \/ (u = 0 /\ w = 1) \/ (u = 0 /\ w = 2) \/ (u = 0 /\ w = 3)
      \/ (u = 1 /\ w = 2) \/ (u = 1 /\ w = 3) \/ (u = 2 /\ w = 3)
  <2>1. w \in {0, 1, 2, 3}  BY SMTT(30) DEF Levels
  <2>. QED  BY SMTT(30), <2>1
<1>3. 1 \in Nat /\ W \in Nat /\ W * W \in Nat  BY SMTT(30), <1>1
<1>4. /\ W = 1 * (W * 1) /\ W * W = 1 * (W * W) /\ W * W * W = 1 * (W * (W * W))
      /\ W * W = W * (W * 1) /\ W * W * W = W * (W * W) /\ W * W * W = (W * W) * (W * 1)
  <2>. HIDE DEF W
  <2>1. W = 1 * (W * 1)  BY SMTT(30), <1>1
  <2>2. W * W = 1 * (W * W)  BY SMTT(30), <1>1
  <2>3. W * W = W * (W * 1)  BY SMTT(30), <1>1
  <2>4. W * W * W = W * (W * W)  BY SMTT(30), <1>1
  <2>5. W * W * W = 1 * (W * (W * W))  BY SMTT(30), <1>3, <2>4
  <2>6. W * W * W = (W * W) * (W * 1)  BY SMTT(30), <1>3
  <2>. QED  BY <2>1, <2>2, <2>3, <2>4, <2>5, <2>6
<1>5. CASE u = 0 /\ w = 1  BY <1>3, <1>4, <1>5, SpanIs
<1>6. CASE u = 0 /\ w = 2  BY <1>3, <1>4, <1>6, SpanIs
<1>7. CASE u = 0 /\ w = 3  BY <1>3, <1>4, <1>7, SpanIs
<1>8. CASE u = 1 /\ w = 2  BY <1>3, <1>4, <1>8, SpanIs
<1>9. CASE u = 1 /\ w = 3  BY <1>3, <1>4, <1>9, SpanIs
<1>10. CASE u = 2 /\ w = 3  BY <1>3, <1>4, <1>10, SpanIs
<1>. QED  BY <1>2, <1>5, <1>6, <1>7, <1>8, <1>9, <1>10

\* MASKWHEEL() with the offset of the level stays within timeout_wheel.
LEMMA SlotType ==
  ASSUME NEW w \in Levels, NEW x \in Int
  PROVE  Slot(w, x) \in Buckets
<1>1. Span[w] \in Nat \ {0} /\ WHEELSIZE \in Nat \ {0}  BY SpanType, Constants
<1>2. x \div Span[w] \in Int  BY <1>1, Division
<1>3. MASKWHEEL(w, x) \in 0 .. WHEELSIZE - 1  BY <1>1, <1>2, Division DEF MASKWHEEL
<1>4. w = 0 \/ w = 1 \/ w = 2 \/ w = 3  BY SMTT(30) DEF Levels
<1>5. w * WHEELSIZE \in 0 .. 3 * WHEELSIZE  BY SMTT(30), <1>1, <1>4
<1>. QED  BY SMTT(30), <1>1, <1>3, <1>5 DEF Slot, Buckets

\* At the start of the span of x on level w, the bucket of x on that level is
\* emptied.
LEMMA SpanStartMoves ==
  ASSUME NEW w \in Levels, NEW x \in Int, NEW a \in Int, a = Span[w] * (x \div Span[w])
  PROVE  Slot(w, x) \in MovedBuckets(a)
<1>. DEFINE P == Span[w]
            q == x \div Span[w]
<1>1. P \in Nat \ {0} /\ WHEELSIZE \in Nat \ {0}  BY SpanType, Constants
<1>2. q \in Int  BY <1>1, Division
<1>3. MASKWHEEL(w, a) = MASKWHEEL(w, x)
  <2>1. 0 \in 0 .. P - 1 /\ P * q + 0 = a  BY SMTT(30), <1>1, <1>2
  <2>2. (P * q + 0) \div P = q  BY <1>1, <1>2, <2>1, DivisionUnique
  <2>3. a \div P = q  BY <2>1, <2>2
  <2>. QED  BY <2>3 DEF MASKWHEEL
<1>4. ASSUME NEW u \in 0 .. w - 1
      PROVE  MASKWHEEL(u, a) = 0
  <2>. DEFINE b == Span[u]
  <2>1. PICK m \in Nat : P = b * (WHEELSIZE * m)  BY SpanDivides
  <2>2. u \in Levels  BY SMTT(30) DEF Levels
  <2>3. b \in Nat \ {0}  BY <2>2, SpanType
  <2>. HIDE DEF P, q, b
  <2>4. m * q \in Int /\ WHEELSIZE * (m * q) \in Int  BY SMTT(30), <1>1, <1>2
  <2>5. a = b * (WHEELSIZE * (m * q)) + 0
    <3>1. a = P * q  BY DEF P, q
    <3>2. (b * (WHEELSIZE * m)) * q = b * (WHEELSIZE * (m * q))
      BY SMTT(30), <1>1, <1>2, <2>3
    <3>. QED  BY SMTT(30), <1>1, <1>2, <2>1, <2>3, <2>4, <3>1, <3>2
  <2>6. 0 \in 0 .. b - 1 /\ 0 \in 0 .. WHEELSIZE - 1  BY SMTT(30), <1>1, <2>3
  <2>7. (b * (WHEELSIZE * (m * q)) + 0) \div b = WHEELSIZE * (m * q)
    BY <2>3, <2>4, <2>6, DivisionUnique
  <2>8. (WHEELSIZE * (m * q) + 0) % WHEELSIZE = 0
    BY <1>1, <2>4, <2>6, DivisionUnique
  <2>9. WHEELSIZE * (m * q) + 0 = WHEELSIZE * (m * q)  BY SMTT(30), <2>4
  <2>. QED  BY <2>5, <2>7, <2>8, <2>9 DEF MASKWHEEL, b
<1>5. Slot(w, x) = Slot(w, a)  BY <1>3 DEF Slot
<1>. QED  BY <1>4, <1>5 DEF MovedBuckets, Levels

\* The bucket that softclock() puts a timeout into is emptied before it is due
\* or when it is.
LEMMA BucketServes ==
  ASSUME NEW abs \in 0 .. IntRange - 1, ticks \in 0 .. IntRange - 1, Rel(abs) > 0
  PROVE  /\ BUCKET(Rel(abs), abs) \in Buckets
         /\ \E d \in 1 .. Rel(abs) :
              BUCKET(Rel(abs), abs) \in MovedBuckets((ticks + d) % IntRange)
<1>. DEFINE rel == Rel(abs)
<1>1. IntRange \in Nat \ {0} /\ abs \in Int /\ ticks \in Int  BY SMTT(30), Constants
<1>2. rel \in Int  BY <1>1, RelType
<1>3. PICK w \in Levels : BUCKET(rel, abs) = Slot(w, abs) /\ (w = 0 \/ ~(rel <= Span[w]))
  <2>1. 0 \in Levels /\ 1 \in Levels /\ 2 \in Levels /\ 3 \in Levels  BY SMTT(30) DEF Levels
  <2>. QED  BY <2>1 DEF BUCKET
<1>4. Span[w] \in Nat \ {0}  BY SpanType
<1>5. PICK q \in Int, r \in 0 .. Span[w] - 1 :
        q = abs \div Span[w] /\ abs = Span[w] * q + r
  BY <1>1, <1>4, Division
<1>. DEFINE a == Span[w] * q
            d == rel - r
<1>6. a \in 0 .. IntRange - 1 /\ a = abs - r /\ a \in Int
  <2>1. Span[w] * q \in Int  BY SMTT(30), <1>4
  <2>2. q >= 0
    <3>1. ASSUME q <= -1 PROVE FALSE
      <4>1. Span[w] * q <= -Span[w]  BY SMTT(30), <1>4, <3>1
      <4>. QED  BY SMTT(30), <1>1, <1>4, <1>5, <2>1, <4>1
    <3>. QED  BY SMTT(30), <3>1
  <2>3. Span[w] * q >= 0  BY SMTT(30), <1>4, <2>2
  <2>. QED  BY SMTT(30), <1>1, <1>4, <1>5, <2>1, <2>3
<1>7. d \in 1 .. rel
  <2>1. CASE w = 0
    <3>1. r = 0  BY SMTT(30), <2>1, SpanIs
    <3>. QED  BY SMTT(30), <1>2, <3>1
  <2>2. CASE ~(rel <= Span[w])  BY SMTT(30), <1>2, <1>4, <2>2
  <2>. QED  BY <1>3, <2>1, <2>2
<1>8. (ticks + d) % IntRange = a
  <2>. HIDE DEF a
  <2>1. abs - ticks \in Int  BY SMTT(30), <1>1
  <2>2. PICK k \in Int : abs - ticks = rel + IntRange * k  BY <2>1, SignedType DEF Rel
  <2>3. IntRange * (-k) = -(IntRange * k) /\ -k \in Int  BY SMTT(30), <1>1
  <2>4. ticks + d = IntRange * (-k) + a
    BY SMTT(30), <1>1, <1>2, <1>6, <2>2, <2>3
  <2>5. (IntRange * (-k) + a) % IntRange = a  BY <1>1, <1>6, <2>3, DivisionUnique
  <2>. QED  BY <2>4, <2>5
<1>9. Slot(w, abs) \in MovedBuckets(a)  BY <1>1, <1>5, <1>6, SpanStartMoves
<1>. HIDE DEF a, d
<1>. QED  BY <1>1, <1>3, <1>7, <1>8, <1>9, SlotType

-----------------------------------------------------------------------------
(* Lists. *)

\* What is left of a list behind its entry i.
LEMMA SuffixIs ==
  ASSUME NEW S, NEW seq \in Seq(S), NEW i \in 1 .. Len(seq), NEW b, b = SubSeq(seq, i + 1, Len(seq))
  PROVE  /\ b \in Seq(S) /\ Len(b) = Len(seq) - i
         /\ \A j \in 1 .. Len(b) : b[j] = seq[j + i]
<1>0. Len(seq) \in Nat /\ i \in Nat /\ i >= 1 /\ i <= Len(seq)  BY SMTT(30)
<1>1. b \in Seq(S)  BY SMTT(30), <1>0
<1>2. Len(b) = Len(seq) - i  BY SMTT(30), <1>0
<1>3. ASSUME NEW j \in 1 .. Len(b) PROVE b[j] = seq[j + i]
  BY SMTT(30), <1>0, <1>2
<1>. QED  BY <1>1, <1>2, <1>3

\* CIRCQ_REMOVE() takes out the timeout and nothing else.
LEMMA RemoveKeeps ==
  ASSUME NEW S, NEW seq \in Seq(S), Distinct(seq), NEW t
  PROVE  /\ CIRCQ_REMOVE(seq, t) \in Seq(S)
         /\ Distinct(CIRCQ_REMOVE(seq, t))
         /\ \A x : On(CIRCQ_REMOVE(seq, t), x) <=> On(seq, x) /\ x # t
<1>0. DOMAIN seq = 1 .. Len(seq) /\ Len(seq) \in Nat  BY SMTT(30)
<1>1. CASE ~On(seq, t)
  <2>1. CIRCQ_REMOVE(seq, t) = seq  BY <1>0, <1>1 DEF CIRCQ_REMOVE, On
  <2>. QED  BY <1>1, <2>1 DEF On
<1>2. CASE On(seq, t)
  <2>1. PICK i \in 1 .. Len(seq) : i = CHOOSE j \in DOMAIN seq : seq[j] = t
    <3>1. \E j \in DOMAIN seq : seq[j] = t  BY <1>0, <1>2 DEF On
    <3>. QED  BY <1>0, <3>1
  <2>2. seq[i] = t
    <3>1. \E j \in DOMAIN seq : seq[j] = t  BY <1>0, <1>2 DEF On
    <3>. QED  BY <2>1, <3>1
  <2>. DEFINE a == SubSeq(seq, 1, i - 1)
              b == SubSeq(seq, i + 1, Len(seq))
              r == CIRCQ_REMOVE(seq, t)
  <2>3. r = a \o b
    <3>1. \E j \in DOMAIN seq : seq[j] = t  BY <1>0, <1>2 DEF On
    <3>. QED  BY <2>1, <3>1 DEF CIRCQ_REMOVE
  <2>4. /\ a \in Seq(S) /\ Len(a) = i - 1 /\ \A j \in 1 .. i - 1 : a[j] = seq[j]
    BY SMTT(30), <1>0
  <2>5. /\ b \in Seq(S) /\ Len(b) = Len(seq) - i
        /\ \A j \in 1 .. Len(b) : b[j] = seq[j + i]
    <3>1. b = SubSeq(seq, i + 1, Len(seq))  OBVIOUS
    <3>. HIDE DEF b
    <3>. QED  BY SMTT(30), <3>1, SuffixIs
  <2>. HIDE DEF a, b, r
  <2>6. /\ r \in Seq(S) /\ Len(r) = Len(seq) - 1
        /\ \A j \in 1 .. Len(r) : r[j] = IF j < i THEN seq[j] ELSE seq[j + 1]
    <3>1. /\ r \in Seq(S) /\ Len(r) = Len(a) + Len(b)
          /\ \A j \in 1 .. Len(a) : r[j] = a[j]
          /\ \A j \in 1 .. Len(b) : r[j + Len(a)] = b[j]
      <4>0. a \in Seq(S) /\ b \in Seq(S) /\ r = a \o b  BY <2>3, <2>4, <2>5
      <4>. QED  BY SMTT(30), <4>0
    <3>2. Len(r) = Len(seq) - 1  BY SMTT(30), <1>0, <2>4, <2>5, <3>1
    <3>3. ASSUME NEW j \in 1 .. Len(r) PROVE r[j] = IF j < i THEN seq[j] ELSE seq[j + 1]
      <4>1. CASE j < i
        <5>1. j \in 1 .. i - 1 /\ j \in 1 .. Len(a)  BY SMTT(30), <1>0, <2>4, <3>2, <4>1
        <5>. QED  BY <2>4, <3>1, <4>1, <5>1
      <4>2. CASE ~(j < i)
        <5>1. /\ j - Len(a) \in 1 .. Len(b) /\ (j - Len(a)) + Len(a) = j
              /\ (j - Len(a)) + i = j + 1
          BY SMTT(30), <1>0, <2>4, <2>5, <3>2, <4>2
        <5>2. r[(j - Len(a)) + Len(a)] = seq[(j - Len(a)) + i]  BY <2>5, <3>1, <5>1
        <5>. QED  BY <4>2, <5>1, <5>2
      <4>. QED  BY <4>1, <4>2
    <3>. QED  BY <3>1, <3>2, <3>3
  <2>7. Distinct(r)
    <3>1. ASSUME NEW j \in 1 .. Len(r)
          PROVE  \E x \in 1 .. Len(seq) : x = (IF j < i THEN j ELSE j + 1) /\ r[j] = seq[x]
      <4>1. Len(r) = Len(seq) - 1  BY <2>6
      <4>2. CASE j < i
        <5>1. j \in 1 .. Len(seq)  BY SMTT(30), <1>0, <4>1
        <5>. QED  BY <2>6, <4>2, <5>1
      <4>3. CASE ~(j < i)
        <5>1. j + 1 \in 1 .. Len(seq)  BY SMTT(30), <1>0, <4>1
        <5>. QED  BY <2>6, <4>3, <5>1
      <4>. QED  BY <4>2, <4>3
    <3>2. ASSUME NEW j \in 1 .. Len(r), NEW k \in 1 .. Len(r), r[j] = r[k] PROVE j = k
      <4>1. PICK x \in 1 .. Len(seq) : x = (IF j < i THEN j ELSE j + 1) /\ r[j] = seq[x]
        BY <3>1
      <4>2. PICK y \in 1 .. Len(seq) : y = (IF k < i THEN k ELSE k + 1) /\ r[k] = seq[y]
        BY <3>1
      <4>3. x = y  BY <3>2, <4>1, <4>2 DEF Distinct
      <4>4. j \in Int /\ k \in Int /\ i \in Int
            /\ (IF j < i THEN j ELSE j + 1) = (IF k < i THEN k ELSE k + 1)
        <5>1. j \in Int /\ k \in Int /\ i \in Int  BY SMTT(30)
        <5>. QED  BY <4>1, <4>2, <4>3, <5>1
      <4>. QED  BY SMTT(30), <4>4
    <3>. QED  BY <3>2 DEF Distinct
  <2>8. ASSUME NEW x PROVE On(r, x) <=> On(seq, x) /\ x # t
    <3>1. ASSUME NEW j \in 1 .. Len(r), r[j] = x PROVE On(seq, x) /\ x # t
      <4>1. PICK k \in 1 .. Len(seq) : r[j] = seq[k] /\ k # i
        <5>1. CASE j < i
          <6>1. j \in 1 .. Len(seq) /\ j # i  BY SMTT(30), <1>0, <2>6, <5>1
          <6>. QED  BY <2>6, <5>1, <6>1
        <5>2. CASE ~(j < i)
          <6>1. j + 1 \in 1 .. Len(seq) /\ j + 1 # i  BY SMTT(30), <1>0, <2>6, <5>2
          <6>. QED  BY <2>6, <5>2, <6>1
        <5>. QED  BY <5>1, <5>2
      <4>. QED  BY <2>2, <3>1, <4>1 DEF On, Distinct
    <3>2. ASSUME NEW j \in 1 .. Len(seq), seq[j] = x, x # t PROVE On(r, x)
      <4>1. CASE j < i
        <5>1. j \in 1 .. Len(r) /\ r[j] = x  BY SMTT(30), <1>0, <2>6, <3>2, <4>1
        <5>. QED  BY <5>1 DEF On
      <4>2. CASE j > i
        <5>1. j - 1 \in 1 .. Len(r) /\ r[j - 1] = x  BY SMTT(30), <1>0, <2>6, <3>2, <4>2
        <5>. QED  BY <5>1 DEF On
      <4>3. j # i  BY <2>2, <3>2
      <4>. QED  BY SMTT(30), <4>1, <4>2, <4>3
    <3>. QED  BY <3>1, <3>2 DEF On
  <2>. QED  BY <2>6, <2>7, <2>8 DEF r
<1>. QED  BY <1>1, <1>2

\* Moving a list to the end of another keeps both and doubles nothing.
LEMMA ConcatKeeps ==
  ASSUME NEW S, NEW a \in Seq(S), NEW b \in Seq(S), Distinct(a), Distinct(b),
         \A x : ~(On(a, x) /\ On(b, x))
  PROVE  /\ a \o b \in Seq(S) /\ Distinct(a \o b)
         /\ \A x : On(a \o b, x) <=> On(a, x) \/ On(b, x)
<1>. DEFINE r == a \o b
<1>0. Len(a) \in Nat /\ Len(b) \in Nat  BY SMTT(30)
<1>1. /\ r \in Seq(S) /\ Len(r) = Len(a) + Len(b)
      /\ \A i \in 1 .. Len(a) : r[i] = a[i]
      /\ \A i \in 1 .. Len(b) : r[i + Len(a)] = b[i]
  BY SMTT(30), <1>0
<1>. HIDE DEF r
<1>2. \A i \in 1 .. Len(r) : \/ i \in 1 .. Len(a) /\ r[i] = a[i]
                             \/ i - Len(a) \in 1 .. Len(b) /\ r[i] = b[i - Len(a)]
  <2>. TAKE i \in 1 .. Len(r)
  <2>1. CASE i \in 1 .. Len(a)  BY <1>1, <2>1
  <2>2. CASE i \notin 1 .. Len(a)
    <3>1. PICK n \in Nat, k \in Nat : n = Len(a) /\ k = Len(b)  BY <1>0
    <3>2. i \in 1 .. n + k /\ i \notin 1 .. n  BY <1>1, <2>2, <3>1
    <3>3. PICK j \in 1 .. k : j = i - n /\ i = j + n  BY SMTT(30), <3>2
    <3>4. r[j + n] = b[j]  BY <1>1, <3>1
    <3>. QED  BY <3>1, <3>3, <3>4
  <2>. QED  BY <2>1, <2>2
<1>3. ASSUME NEW x PROVE On(r, x) <=> On(a, x) \/ On(b, x)
  <2>1. ASSUME NEW i \in 1 .. Len(a), a[i] = x PROVE On(r, x)
    <3>1. i \in 1 .. Len(r)  BY SMTT(30), <1>0, <1>1
    <3>. QED  BY <1>1, <2>1, <3>1 DEF On
  <2>2. ASSUME NEW i \in 1 .. Len(b), b[i] = x PROVE On(r, x)
    <3>1. i + Len(a) \in 1 .. Len(r)  BY SMTT(30), <1>0, <1>1
    <3>. QED  BY <1>1, <2>2, <3>1 DEF On
  <2>. QED  BY <1>2, <2>1, <2>2 DEF On
<1>4. ASSUME NEW i \in 1 .. Len(r), NEW j \in 1 .. Len(r), r[i] = r[j] PROVE i = j
  <2>1. CASE i \in 1 .. Len(a) /\ j \in 1 .. Len(a)
    BY <1>1, <1>4, <2>1 DEF Distinct
  <2>2. CASE i - Len(a) \in 1 .. Len(b) /\ j - Len(a) \in 1 .. Len(b)
    <3>1. b[i - Len(a)] = b[j - Len(a)]  BY SMTT(30), <1>0, <1>1, <1>4, <2>2
    <3>2. i - Len(a) = j - Len(a)  BY <2>2, <3>1 DEF Distinct
    <3>. QED  BY SMTT(30), <1>0, <1>1, <3>2
  <2>3. CASE i \in 1 .. Len(a) /\ j - Len(a) \in 1 .. Len(b)
    <3>1. r[j] = b[j - Len(a)]  BY SMTT(30), <1>0, <1>1, <2>3
    <3>. QED  BY <1>1, <1>4, <2>3, <3>1 DEF On
  <2>4. CASE j \in 1 .. Len(a) /\ i - Len(a) \in 1 .. Len(b)
    <3>1. r[i] = b[i - Len(a)]  BY SMTT(30), <1>0, <1>1, <2>4
    <3>. QED  BY <1>1, <1>4, <2>4, <3>1 DEF On
  <2>. QED  BY <1>2, <2>1, <2>2, <2>3, <2>4
<1>. QED  BY <1>1, <1>3, <1>4 DEF Distinct, r

\* CIRCQ_INSERT() at the end of a list.
LEMMA AppendKeeps ==
  ASSUME NEW S, NEW seq \in Seq(S), Distinct(seq), NEW t \in S, ~On(seq, t)
  PROVE  /\ Append(seq, t) \in Seq(S) /\ Distinct(Append(seq, t))
         /\ \A x : On(Append(seq, t), x) <=> On(seq, x) \/ x = t
<1>. DEFINE r == Append(seq, t)
<1>0. Len(seq) \in Nat  BY SMTT(30)
<1>1. /\ r \in Seq(S) /\ Len(r) = Len(seq) + 1 /\ r[Len(seq) + 1] = t
      /\ \A i \in 1 .. Len(seq) : r[i] = seq[i]
  BY SMTT(30), <1>0
<1>. HIDE DEF r
<1>2. \A i \in 1 .. Len(r) : \/ i \in 1 .. Len(seq) /\ r[i] = seq[i]
                             \/ i = Len(seq) + 1 /\ r[i] = t
  BY SMTT(30), <1>0, <1>1
<1>3. ASSUME NEW x PROVE On(r, x) <=> On(seq, x) \/ x = t
  <2>1. \A i \in 1 .. Len(seq) : i \in 1 .. Len(r)  BY SMTT(30), <1>0, <1>1
  <2>2. Len(seq) + 1 \in 1 .. Len(r)  BY SMTT(30), <1>0, <1>1
  <2>. QED  BY <1>1, <1>2, <2>1, <2>2 DEF On
<1>4. Distinct(r)  BY <1>2 DEF Distinct, On
<1>. QED  BY <1>1, <1>3, <1>4 DEF r

\* softclock() has taken the entries up to i off the list.
LEMMA SuffixKeeps ==
  ASSUME NEW S, NEW seq \in Seq(S), Distinct(seq), NEW i \in 1 .. Len(seq)
  PROVE  LET b == SubSeq(seq, i + 1, Len(seq)) IN
         /\ b \in Seq(S) /\ Distinct(b)
         /\ \A x : On(b, x) <=> On(seq, x) /\ \A j \in 1 .. i : seq[j] # x
<1>. DEFINE b == SubSeq(seq, i + 1, Len(seq))
<1>. HIDE DEF b
<1>0. Len(seq) \in Nat /\ i \in Nat  BY SMTT(30)
<1>1. b \in Seq(S) /\ Len(b) = Len(seq) - i /\ \A j \in 1 .. Len(b) : b[j] = seq[j + i]
  BY SMTT(30), SuffixIs DEF b
<1>2. \A j \in 1 .. Len(b) : j + i \in 1 .. Len(seq)  BY SMTT(30), <1>0, <1>1
<1>3. ASSUME NEW j \in 1 .. Len(b), NEW k \in 1 .. Len(b), b[j] = b[k] PROVE j = k
  <2>1. j + i = k + i  BY <1>1, <1>2, <1>3 DEF Distinct
  <2>. QED  BY SMTT(30), <1>0, <2>1
<1>4. ASSUME NEW x, On(b, x) PROVE On(seq, x) /\ \A j \in 1 .. i : seq[j] # x
  <2>1. PICK j \in 1 .. Len(b) : b[j] = x  BY <1>4 DEF On
  <2>2. On(seq, x)  BY <1>1, <1>2, <2>1 DEF On
  <2>3. ASSUME NEW k \in 1 .. i, seq[k] = x PROVE FALSE
    <3>1. k \in 1 .. Len(seq) /\ k # j + i  BY SMTT(30), <1>0
    <3>. QED  BY <1>1, <1>2, <2>1, <2>3, <3>1 DEF Distinct
  <2>. QED  BY <2>2, <2>3
<1>5. ASSUME NEW x, On(seq, x), \A j \in 1 .. i : seq[j] # x PROVE On(b, x)
  <2>1. PICK k \in 1 .. Len(seq) : seq[k] = x  BY <1>5 DEF On
  <2>2. k \notin 1 .. i  BY <1>5, <2>1
  <2>3. k - i \in 1 .. Len(b) /\ (k - i) + i = k  BY SMTT(30), <1>0, <1>1, <2>2
  <2>. QED  BY <1>1, <2>1, <2>3 DEF On
<1>. QED  BY <1>1, <1>3, <1>4, <1>5 DEF Distinct, b

\* There are n numbers from 1 to n.
LEMMA IntervalSize ==
  ASSUME NEW n \in Nat
  PROVE  IsFiniteSet(1 .. n) /\ Cardinality(1 .. n) = n
<1>1. 1 \in Int /\ n \in Int  BY SMTT(30)
<1>2. IsFiniteSet(1 .. n) /\ Cardinality(1 .. n) = IF 1 > n THEN 0 ELSE n - 1 + 1
  BY <1>1, FS_Interval
<1>3. Cardinality(1 .. n) = n  BY SMTT(30), <1>2
<1>. QED  BY <1>2, <1>3

\* A list without duplicates is as long as the set of its entries is large.
LEMMA DistinctLen ==
  ASSUME NEW S, NEW seq \in Seq(S), Distinct(seq)
  PROVE  Cardinality({seq[i] : i \in DOMAIN seq}) = Len(seq)
<1>. DEFINE n == Len(seq)
            T == {seq[i] : i \in DOMAIN seq}
<1>1. n \in Nat /\ DOMAIN seq = 1 .. n /\ seq \in [1 .. n -> S]  BY SMTT(30)
<1>2. seq \in [1 .. n -> T]  BY <1>1
<1>3. seq \in Bijection(1 .. n, T)
  BY <1>1, <1>2 DEF Bijection, Injection, Surjection, IsInjective, Distinct
<1>4. ExistsBijection(1 .. n, T)  BY <1>3 DEF ExistsBijection
<1>5. IsFiniteSet(1 .. n) /\ Cardinality(1 .. n) = n  BY <1>1, IntervalSize
<1>. HIDE DEF n, T
<1>6. Cardinality(T) = Cardinality(1 .. n)  BY <1>4, <1>5, FS_Bijection
<1>. QED  BY <1>5, <1>6 DEF n, T

\* The entries of a list are what is on it.
LEMMA Entries ==
  ASSUME NEW S, NEW seq \in Seq(S)
  PROVE  \A x : x \in {seq[i] : i \in DOMAIN seq} <=> On(seq, x)
<1>1. DOMAIN seq = 1 .. Len(seq)  BY SMTT(30)
<1>. QED  BY <1>1 DEF On

\* The CIRCQ_APPEND of buckets to timeout_todo: what was in them is on it, once.
LEMMA MoveKeeps ==
  ASSUME IInv, NEW ts \in SUBSET Timeouts, \A t \in ts : bucket[t] # NoBucket, MoveToTodo(ts)
  PROVE  /\ bucket' \in [Timeouts -> {NoBucket} \cup Buckets]
         /\ \A t \in Timeouts : bucket'[t] = IF t \in ts THEN NoBucket ELSE bucket[t]
         /\ timeout_todo' \in Seq(Timeouts) /\ Distinct(timeout_todo')
         /\ \A t : On(timeout_todo', t) <=> On(timeout_todo, t) \/ t \in ts
<1>1. IsFiniteSet(ts)  BY TimeoutAssumption, FS_Subset
<1>. DEFINE n == Cardinality(ts)
<1>2. n \in Nat  BY <1>1, FS_CardinalityType
<1>3. PICK order \in [1 .. n -> ts] :
        (\A t \in ts : \E i \in DOMAIN order : order[i] = t) /\ timeout_todo' = timeout_todo \o order
  BY DEF MoveToTodo
<1>4. order \in Surjection(1 .. n, ts)  BY <1>3 DEF Surjection
<1>5. IsFiniteSet(1 .. n) /\ Cardinality(1 .. n) = n  BY <1>2, IntervalSize
<1>. HIDE DEF n
<1>6. order \in Injection(1 .. n, ts)
  <2>1. Cardinality(1 .. n) = Cardinality(ts)  BY <1>5 DEF n
  <2>. QED  BY <1>4, <1>5, <2>1, FS_SurjSameCardinalityImpliesInj
<1>7. order \in Seq(Timeouts) /\ Len(order) = n /\ DOMAIN order = 1 .. n  BY SMTT(30), <1>2, <1>3
<1>8. Distinct(order)  BY <1>6, <1>7 DEF Injection, IsInjective, Distinct
<1>9. \A t : On(order, t) <=> t \in ts  BY <1>3, <1>7 DEF On
<1>10. timeout_todo \in Seq(Timeouts) /\ Distinct(timeout_todo)  BY DEF IInv, Types
<1>11. \A x : ~(On(timeout_todo, x) /\ On(order, x))  BY <1>9 DEF IInv, Listed
<1>12. /\ timeout_todo' \in Seq(Timeouts) /\ Distinct(timeout_todo')
       /\ \A t : On(timeout_todo', t) <=> On(timeout_todo, t) \/ On(order, t)
  BY <1>3, <1>7, <1>8, <1>10, <1>11, ConcatKeeps
<1>13. bucket' = [t \in Timeouts |-> IF t \in ts THEN NoBucket ELSE bucket[t]]
  BY DEF MoveToTodo
<1>14. /\ bucket' \in [Timeouts -> {NoBucket} \cup Buckets]
       /\ \A t \in Timeouts : bucket'[t] = IF t \in ts THEN NoBucket ELSE bucket[t]
  BY <1>13 DEF IInv, Types
<1>. QED  BY <1>9, <1>12, <1>14

-----------------------------------------------------------------------------
(* The steps. *)

\* A step that leaves the clock, t and its lists alone keeps what is known of t.
LEMMA Same ==
  ASSUME NEW t \in Timeouts, ticks' = ticks, to_time'[t] = to_time[t],
         OnQueue(t)' <=> OnQueue(t), bucket'[t] = bucket[t],
         On(timeout_todo', t) <=> On(timeout_todo, t),
         softclock_si' = {} => softclock_si = {},
         Listed(t), Wheel(t), NotWrapped(t)
  PROVE  Listed(t)' /\ Wheel(t)' /\ NotWrapped(t)'
<1>1. Rel(to_time[t])' = Rel(to_time[t])  BY DEF Rel
<1>2. Listed(t)'  BY DEF Listed
<1>3. Wheel(t)'  BY <1>1 DEF Wheel
<1>4. NotWrapped(t)'  BY <1>1 DEF NotWrapped
<1>. QED  BY <1>2, <1>3, <1>4

\* The clock and the deadlines are numbers.
LEMMA Numbers ==
  ASSUME Types
  PROVE  /\ ticks \in Int /\ ticks \in 0 .. IntRange - 1
         /\ \A t \in Timeouts : /\ to_time[t] \in Int /\ to_time[t] \in 0 .. IntRange - 1
                                /\ Rel(to_time[t]) \in Int /\ Rel(to_time[t]) \in Ints
<1>1. ticks \in 0 .. IntRange - 1 /\ \A t \in Timeouts : to_time[t] \in 0 .. IntRange - 1
  BY DEF Types
<1>2. \A x \in 0 .. IntRange - 1 : x \in Int  BY SMTT(30), Constants
<1>. QED  BY <1>1, <1>2, RelType

\* A timeout that is out of its bucket on timeout_todo, ready or not: what is
\* left to show for it is that it is not too late.
LEMMA OnTodo ==
  ASSUME NEW t \in Timeouts, OnQueue(t)', bucket'[t] = NoBucket, On(timeout_todo', t),
         NEW rel \in Int, rel > 1 - INT_MAX, Rel(to_time[t])' = rel
  PROVE  Listed(t)' /\ Wheel(t)' /\ NotWrapped(t)'
<1>1. rel > -INT_MAX  BY SMTT(30), Constants
<1>2. Listed(t)'  BY DEF Listed
<1>3. Wheel(t)'  BY DEF Wheel
<1>4. NotWrapped(t)'  BY <1>1 DEF NotWrapped
<1>. QED  BY <1>2, <1>3, <1>4

\* timeout_add() keeps the invariant: a timeout that is moved later stays in
\* its bucket, which is emptied early enough.
LEMMA StepAdd ==
  ASSUME IInv, NEW t \in Timeouts, NEW n \in Durations, timeout_add(t, n)
  PROVE  IInv' /\ Rel(to_time[t])' = n
<1>. DEFINE new == (n + ticks) % IntRange
<1>1. Types  BY DEF IInv
<1>2. n \in 0 .. INT_MAX /\ INT_MAX \in Nat  BY TimeoutAssumption, Constants
<1>3. n \in Int /\ n + ticks \in Int /\ n > 1 - INT_MAX  BY SMTT(30), <1>1, <1>2, Numbers, Constants
<1>4. new \in 0 .. IntRange - 1  BY <1>3, Wrapped
<1>5. Rel(new) = n  BY <1>1, <1>2, Numbers, RelNew
<1>. HIDE DEF new
<1>6. /\ to_time' = [to_time EXCEPT ![t] = new] /\ to_flags' = to_flags \cup {t}
      /\ UNCHANGED <<ticks, softclock_si, called>>
  BY DEF timeout_add, new
<1>7. /\ to_time' \in [Timeouts -> 0 .. IntRange - 1] /\ to_time'[t] = new
      /\ \A u \in Timeouts : u # t => to_time'[u] = to_time[u]
      /\ to_flags' \subseteq Timeouts
  BY <1>1, <1>4, <1>6 DEF Types
<1>8. Rel(to_time[t])' = n  BY <1>5, <1>6, <1>7 DEF Rel
<1>9. CASE OnQueue(t) /\ Rel(new) >= Rel(to_time[t]) /\ UNCHANGED <<bucket, timeout_todo>>
  <2>1. Types'  BY <1>1, <1>6, <1>7, <1>9 DEF Types
  <2>2. ASSUME NEW u \in Timeouts, u # t PROVE Listed(u)' /\ Wheel(u)' /\ NotWrapped(u)'
    BY <1>6, <1>7, <1>9, <2>2, Same DEF IInv, OnQueue
  <2>3. Listed(t)'  BY <1>6, <1>9 DEF Listed, OnQueue, IInv
  <2>4. Wheel(t)'
    <3>1. SUFFICES ASSUME bucket[t] # NoBucket
                   PROVE  \E d \in 1 .. n : bucket[t] \in MovedBuckets((ticks + d) % IntRange)
      BY <1>6, <1>8, <1>9 DEF Wheel
    <3>2. PICK d \in 1 .. Rel(to_time[t]) : bucket[t] \in MovedBuckets((ticks + d) % IntRange)
      BY <3>1 DEF IInv, Wheel
    <3>3. d \in 1 .. n  BY SMTT(30), <1>1, <1>3, <1>5, <1>9, Numbers
    <3>. QED  BY <3>2, <3>3
  <2>5. NotWrapped(t)'
    <3>1. n > -INT_MAX  BY SMTT(30), <1>2, <1>3
    <3>. QED  BY <1>3, <1>8, <3>1 DEF NotWrapped
  <2>. QED  BY <1>8, <1>9, <2>1, <2>2, <2>3, <2>4, <2>5 DEF IInv
<1>10. CASE /\ bucket' = [bucket EXCEPT ![t] = NoBucket]
            /\ timeout_todo' = Append(CIRCQ_REMOVE(timeout_todo, t), t)
  <2>. DEFINE rest == CIRCQ_REMOVE(timeout_todo, t)
  <2>1. timeout_todo \in Seq(Timeouts) /\ Distinct(timeout_todo)  BY DEF IInv, Types
  <2>2. /\ rest \in Seq(Timeouts) /\ Distinct(rest)
        /\ \A x : On(rest, x) <=> On(timeout_todo, x) /\ x # t
    BY <2>1, RemoveKeeps
  <2>. HIDE DEF rest
  <2>3. /\ timeout_todo' \in Seq(Timeouts) /\ Distinct(timeout_todo')
        /\ \A x : On(timeout_todo', x) <=> On(rest, x) \/ x = t
    <3>1. timeout_todo' = Append(rest, t) /\ ~On(rest, t)  BY <1>10, <2>2 DEF rest
    <3>. QED  BY <2>2, <3>1, AppendKeeps
  <2>4. /\ bucket' \in [Timeouts -> {NoBucket} \cup Buckets] /\ bucket'[t] = NoBucket
        /\ \A u \in Timeouts : u # t => bucket'[u] = bucket[u]
    BY <1>1, <1>10 DEF Types
  <2>5. Types'  BY <1>1, <1>6, <1>7, <2>3, <2>4 DEF Types
  <2>6. ASSUME NEW u \in Timeouts, u # t PROVE Listed(u)' /\ Wheel(u)' /\ NotWrapped(u)'
    BY <1>6, <1>7, <2>2, <2>3, <2>4, <2>6, Same DEF IInv, OnQueue
  <2>7. OnQueue(t)' /\ On(timeout_todo', t)  BY <1>6, <2>3 DEF OnQueue
  <2>8. Listed(t)' /\ Wheel(t)' /\ NotWrapped(t)'  BY <1>3, <1>8, <2>4, <2>7, OnTodo
  <2>. QED  BY <1>8, <2>3, <2>5, <2>6, <2>8 DEF IInv
<1>. QED  BY <1>9, <1>10 DEF timeout_add, new

\* timeout_del() keeps the invariant: the timeout is nowhere afterwards.
LEMMA StepDel ==
  ASSUME IInv, NEW t \in Timeouts, timeout_del(t)
  PROVE  IInv'
<1>1. Types /\ timeout_todo \in Seq(Timeouts) /\ Distinct(timeout_todo)  BY DEF IInv, Types
<1>2. /\ timeout_todo' \in Seq(Timeouts) /\ Distinct(timeout_todo')
      /\ \A x : On(timeout_todo', x) <=> On(timeout_todo, x) /\ x # t
  BY <1>1, RemoveKeeps DEF timeout_del
<1>3. /\ to_flags' = to_flags \ {t} /\ UNCHANGED <<ticks, softclock_si, called>>
      /\ to_time' = [to_time EXCEPT ![t] = 0] /\ bucket' = [bucket EXCEPT ![t] = NoBucket]
  BY DEF timeout_del
<1>4. 0 \in 0 .. IntRange - 1  BY SMTT(30), Constants
<1>5. /\ to_time' \in [Timeouts -> 0 .. IntRange - 1]
      /\ bucket' \in [Timeouts -> {NoBucket} \cup Buckets] /\ bucket'[t] = NoBucket
      /\ \A u \in Timeouts : u # t => to_time'[u] = to_time[u] /\ bucket'[u] = bucket[u]
      /\ to_flags' \subseteq Timeouts /\ ~OnQueue(t)'
  BY <1>1, <1>3, <1>4 DEF Types, OnQueue
<1>6. Types'  BY <1>1, <1>2, <1>3, <1>5 DEF Types
<1>7. ASSUME NEW u \in Timeouts, u # t PROVE Listed(u)' /\ Wheel(u)' /\ NotWrapped(u)'
  BY <1>2, <1>3, <1>5, <1>7, Same DEF IInv, OnQueue
<1>8. Listed(t)' /\ Wheel(t)' /\ NotWrapped(t)'
  BY <1>2, <1>5 DEF Listed, Wheel, NotWrapped
<1>. QED  BY <1>2, <1>6, <1>7, <1>8 DEF IInv

\* Ticks add up, whatever wraps around in between.
LEMMA TicksAdd ==
  ASSUME NEW x \in Int, NEW n \in Int
  PROVE  ((x % IntRange) + n) % IntRange = (x + n) % IntRange
<1>1. PICK k \in Int : x % IntRange = x + IntRange * k  BY Wrapped
<1>2. IntRange \in Nat \ {0} /\ x + n \in Int  BY SMTT(30), Constants
<1>3. (x % IntRange) + n = (x + n) + IntRange * k  BY SMTT(30), <1>1, <1>2
<1>4. ((x + n) + IntRange * k) % IntRange = (x + n) % IntRange  BY <1>2, ModShift
<1>. QED  BY <1>3, <1>4

\* When n ticks pass, a timeout is n ticks closer.
LEMMA Passing ==
  ASSUME Types, NEW n \in Nat, ticks' = (ticks + n) % IntRange,
         NEW t \in Timeouts, to_time'[t] = to_time[t], Rel(to_time[t]) - n >= -INT_MAX - 1
  PROVE  Rel(to_time[t])' = Rel(to_time[t]) - n
<1>1. ticks \in Int /\ to_time[t] \in Int  BY Numbers
<1>2. ASSUME NEW x \in Int, Rel(x) - n >= -INT_MAX - 1 PROVE Signed(x - ticks') = Rel(x) - n
  <2>1. Rel(x)' = Rel(x) - n  BY <1>1, <1>2, RelLater
  <2>. QED  BY <2>1 DEF Rel
<1>3. Signed(to_time[t] - ticks') = Rel(to_time[t]) - n  BY <1>1, <1>2
<1>. QED  BY <1>3 DEF Rel

\* A tick brings a timeout one tick closer.
LEMMA TickedRel ==
  ASSUME IInv, timeout_hardclock_update, NEW t \in Timeouts, OnQueue(t)
  PROVE  Rel(to_time[t])' = Rel(to_time[t]) - 1
<1>1. Types /\ ticks' = (ticks + 1) % IntRange /\ to_time' = to_time
  BY DEF IInv, timeout_hardclock_update
<1>2. Rel(to_time[t]) > -INT_MAX  BY DEF IInv, NotWrapped
<1>3. Rel(to_time[t]) - 1 >= -INT_MAX - 1 /\ 1 \in Nat  BY SMTT(30), <1>1, <1>2, Numbers, Constants
<1>. QED  BY <1>1, <1>3, Passing

\* hardclock() keeps the invariant: the buckets it empties are those whose time
\* has come, and with an empty timeout_todo no timeout is due.
LEMMA StepHardclock ==
  ASSUME IInv, timeout_hardclock_update
  PROVE  IInv'
<1>. DEFINE ts == {t \in Timeouts : bucket[t] \in MovedBuckets(ticks')}
<1>1. Types  BY DEF IInv
<1>2. /\ (softclock_si = {} \/ NotLate) /\ ticks' = (ticks + 1) % IntRange /\ MoveToTodo(ts)
      /\ UNCHANGED <<to_time, to_flags, called>>
      /\ softclock_si' = IF timeout_todo' = <<>> THEN softclock_si
                                                 ELSE softclock_si \cup {"scheduled"}
  BY DEF timeout_hardclock_update
<1>3. ticks \in Int /\ ticks + 1 \in Int /\ 1 \in Nat  BY SMTT(30), <1>1, Numbers
<1>4. ticks' \in 0 .. IntRange - 1 /\ ticks' \in Int
  <2>1. ticks' \in 0 .. IntRange - 1  BY <1>2, <1>3, Wrapped
  <2>. QED  BY SMTT(30), <2>1, Constants
<1>5. NoBucket \notin MovedBuckets(ticks')
  <2>1. \A x \in Buckets : x # NoBucket  BY SMTT(30), Constants DEF Buckets, NoBucket
  <2>. QED  BY <1>4, <2>1, SlotType DEF MovedBuckets, Levels
<1>6. ts \in SUBSET Timeouts /\ \A t \in ts : bucket[t] # NoBucket  BY <1>5
<1>7. /\ bucket' \in [Timeouts -> {NoBucket} \cup Buckets]
      /\ \A t \in Timeouts : bucket'[t] = IF t \in ts THEN NoBucket ELSE bucket[t]
      /\ timeout_todo' \in Seq(Timeouts) /\ Distinct(timeout_todo')
      /\ \A t : On(timeout_todo', t) <=> On(timeout_todo, t) \/ t \in ts
  BY <1>2, <1>6, MoveKeeps
<1>8. Types'  BY <1>1, <1>2, <1>4, <1>7 DEF Types
<1>9. ASSUME NEW t \in Timeouts PROVE Listed(t)' /\ Wheel(t)' /\ NotWrapped(t)'
  <2>1. Rel(to_time[t]) \in Ints /\ Rel(to_time[t]) \in Int /\ to_time[t] \in Int
    BY <1>1, Numbers
  <2>2. Listed(t)'  BY <1>2, <1>6, <1>7 DEF IInv, Listed, OnQueue
  <2>3. OnQueue(t) => Rel(to_time[t])' = Rel(to_time[t]) - 1  BY TickedRel
  <2>4. Wheel(t)' /\ (bucket'[t] # NoBucket => Rel(to_time[t])' >= 1)
    <3>1. SUFFICES ASSUME bucket'[t] # NoBucket
                   PROVE  /\ \E d \in 1 .. Rel(to_time[t])' :
                               bucket'[t] \in MovedBuckets((ticks' + d) % IntRange)
                          /\ Rel(to_time[t])' >= 1
      BY DEF Wheel
    <3>2. bucket'[t] = bucket[t] /\ bucket[t] # NoBucket /\ t \notin ts  BY <1>7, <3>1
    <3>3. OnQueue(t)  BY <3>2 DEF IInv, Listed
    <3>4. PICK d \in 1 .. Rel(to_time[t]) : bucket[t] \in MovedBuckets((ticks + d) % IntRange)
      BY <3>2 DEF IInv, Wheel
    <3>5. d # 1  BY <1>2, <3>2, <3>4
    <3>. HIDE DEF ts
    <3>6. d - 1 \in 1 .. Rel(to_time[t]) - 1 /\ Rel(to_time[t]) - 1 >= 1
      BY SMTT(30), <2>1, <3>5
    <3>7. (ticks' + (d - 1)) % IntRange = (ticks + d) % IntRange
      <4>1. d - 1 \in Int /\ (ticks + 1) + (d - 1) = ticks + d  BY SMTT(30), <1>3
      <4>2. (((ticks + 1) % IntRange) + (d - 1)) % IntRange
              = ((ticks + 1) + (d - 1)) % IntRange
        BY <1>3, <4>1, TicksAdd
      <4>. QED  BY <1>2, <4>1, <4>2
    <3>. QED  BY <2>3, <3>2, <3>3, <3>4, <3>6, <3>7
  <2>5. NotWrapped(t)'
    <3>1. SUFFICES ASSUME OnQueue(t)
                   PROVE  /\ Rel(to_time[t]) - 1 > -INT_MAX
                          /\ softclock_si' = {} => Rel(to_time[t])' > 1 - INT_MAX
      BY <1>2, <2>3 DEF NotWrapped, OnQueue
    <3>2. CASE NotLate
      <4>1. Rel(to_time[t]) > -MaxLate  BY <3>1, <3>2 DEF NotLate
      <4>2. MaxLate + 1 < INT_MAX /\ MaxLate \in Nat  BY Constants
      <4>3. Rel(to_time[t]) - 1 > -INT_MAX /\ Rel(to_time[t]) - 1 > 1 - INT_MAX
        BY SMTT(30), <2>1, <4>1, <4>2, Constants
      <4>. QED  BY <2>3, <3>1, <4>3
    <3>3. CASE softclock_si = {}
      <4>1. Rel(to_time[t]) > 1 - INT_MAX  BY <3>1, <3>3 DEF IInv, NotWrapped
      <4>2. Rel(to_time[t]) - 1 > -INT_MAX  BY SMTT(30), <2>1, <4>1, Constants
      <4>3. ASSUME softclock_si' = {} PROVE Rel(to_time[t])' > 1 - INT_MAX
        <5>1. timeout_todo' = <<>>  BY <1>2, <4>3
        <5>2. ~On(timeout_todo', t)
          <6>1. Len(timeout_todo') = 0 /\ 1 .. 0 = {}  BY SMTT(30), <5>1
          <6>. QED  BY <6>1 DEF On
        <5>3. bucket'[t] # NoBucket  BY <1>2, <2>2, <3>1, <5>2 DEF Listed, OnQueue
        <5>4. Rel(to_time[t]) - 1 >= 1  BY <2>3, <2>4, <3>1, <5>3
        <5>5. Rel(to_time[t]) - 1 > 1 - INT_MAX  BY SMTT(30), <2>1, <5>4, Constants
        <5>. QED  BY <2>3, <3>1, <5>5
      <4>. QED  BY <4>2, <4>3
    <3>. QED  BY <1>2, <3>2, <3>3
  <2>. QED  BY <2>2, <2>4, <2>5
<1>. QED  BY <1>7, <1>8, <1>9 DEF IInv

\* A resume brings a timeout adj ticks closer, or makes it due if it was on the
\* wheel and its time passed during the sleep.
LEMMA AdjustedRel ==
  ASSUME IInv, NEW adj \in Adjustments, timeout_adjust_ticks(adj),
         NEW t \in Timeouts, OnQueue(t)
  PROVE  \E rel \in Int :
           /\ Rel(to_time[t])' = rel /\ rel > 1 - INT_MAX
           /\ rel = IF bucket[t] # NoBucket /\ Rel(to_time[t]) < adj
                      THEN 0 ELSE Rel(to_time[t]) - adj
<1>1. /\ NotLate /\ ticks' = (ticks + adj) % IntRange
      /\ to_time'[t] = IF bucket[t] # NoBucket /\ Rel(to_time[t]) < adj
                         THEN ticks' ELSE to_time[t]
  BY DEF timeout_adjust_ticks
<1>2. adj \in Nat /\ adj \in Int /\ MaxLate + adj < INT_MAX /\ MaxLate \in Nat
  <2>1. adj \in 1 .. INT_MAX  BY TimeoutAssumption
  <2>2. adj \in Nat /\ adj \in Int  BY SMTT(30), <2>1, Constants
  <2>. QED  BY <2>2, Constants
<1>3. Types /\ ticks \in Int /\ Rel(to_time[t]) \in Int  BY Numbers DEF IInv
<1>4. CASE bucket[t] # NoBucket /\ Rel(to_time[t]) < adj
  <2>1. ticks' \in Int
    <3>1. ticks + adj \in Int  BY SMTT(30), <1>2, <1>3
    <3>2. ticks' \in 0 .. IntRange - 1  BY <1>1, <3>1, Wrapped
    <3>. QED  BY SMTT(30), <3>2, Constants
  <2>2. 0 \in Ints /\ 0 \in Int /\ ticks' - ticks' \in Int /\ ticks' - ticks' = 0 + IntRange * 0
    <3>1. 0 \in Ints  BY SMTT(30), Constants DEF Ints
    <3>2. IntRange * 0 = 0  BY SMTT(30), Constants
    <3>. QED  BY SMTT(30), <2>1, <3>1, <3>2
  <2>3. Signed(ticks' - ticks') = 0  BY <2>2, SignedIs
  <2>4. 0 > 1 - INT_MAX  BY SMTT(30), Constants
  <2>. QED  BY <1>1, <1>4, <2>2, <2>3, <2>4 DEF Rel
<1>5. CASE ~(bucket[t] # NoBucket /\ Rel(to_time[t]) < adj)
  <2>1. Rel(to_time[t]) > -MaxLate  BY <1>1 DEF NotLate
  <2>2. /\ Rel(to_time[t]) - adj >= -INT_MAX - 1 /\ Rel(to_time[t]) - adj \in Int
        /\ Rel(to_time[t]) - adj > 1 - INT_MAX
    BY SMTT(30), <1>2, <1>3, <2>1, Constants
  <2>3. Rel(to_time[t])' = Rel(to_time[t]) - adj  BY <1>1, <1>2, <1>3, <1>5, <2>2, Passing
  <2>. QED  BY <1>5, <2>2, <2>3
<1>. QED  BY <1>4, <1>5

\* timeout_adjust_ticks() keeps the invariant: it empties the wheel, and no
\* timeout falls behind further than an int reaches.
LEMMA StepAdjust ==
  ASSUME IInv, NEW adj \in Adjustments, timeout_adjust_ticks(adj)
  PROVE  IInv'
<1>. DEFINE ts == {t \in Timeouts : bucket[t] # NoBucket}
<1>1. Types  BY DEF IInv
<1>2. /\ NotLate /\ ticks' = (ticks + adj) % IntRange /\ MoveToTodo(ts)
      /\ to_time' = [t \in Timeouts |-> IF t \in ts /\ Rel(to_time[t]) < adj
                                          THEN ticks' ELSE to_time[t]]
      /\ UNCHANGED <<to_flags, softclock_si, called>>
  BY DEF timeout_adjust_ticks
<1>3. adj \in Nat /\ adj \in Int /\ MaxLate + adj < INT_MAX /\ MaxLate \in Nat
  <2>1. adj \in 1 .. INT_MAX  BY TimeoutAssumption
  <2>2. adj \in Nat /\ adj \in Int  BY SMTT(30), <2>1, Constants
  <2>. QED  BY <2>2, Constants
<1>4. ticks \in Int /\ ticks + adj \in Int  BY SMTT(30), <1>1, <1>3, Numbers
<1>5. ticks' \in 0 .. IntRange - 1 /\ ticks' \in Int
  <2>1. ticks' \in 0 .. IntRange - 1  BY <1>2, <1>4, Wrapped
  <2>. QED  BY SMTT(30), <2>1, Constants
<1>6. ts \in SUBSET Timeouts /\ \A t \in ts : bucket[t] # NoBucket  OBVIOUS
<1>7. /\ bucket' \in [Timeouts -> {NoBucket} \cup Buckets]
      /\ \A t \in Timeouts : bucket'[t] = IF t \in ts THEN NoBucket ELSE bucket[t]
      /\ timeout_todo' \in Seq(Timeouts) /\ Distinct(timeout_todo')
      /\ \A t : On(timeout_todo', t) <=> On(timeout_todo, t) \/ t \in ts
  BY <1>2, <1>6, MoveKeeps
<1>8. \A t \in Timeouts : bucket'[t] = NoBucket  BY <1>7
<1>9. to_time' \in [Timeouts -> 0 .. IntRange - 1]  BY <1>1, <1>2, <1>5 DEF Types
<1>10. Types'  BY <1>1, <1>2, <1>5, <1>7, <1>9 DEF Types
<1>11. ASSUME NEW t \in Timeouts PROVE Listed(t)' /\ Wheel(t)' /\ NotWrapped(t)'
  <2>1. CASE ~OnQueue(t)
    <3>1. ~OnQueue(t)' /\ ~On(timeout_todo', t)  BY <1>2, <1>7, <2>1 DEF IInv, Listed, OnQueue
    <3>. QED  BY <1>8, <3>1 DEF Listed, Wheel, NotWrapped
  <2>2. CASE OnQueue(t)
    <3>1. OnQueue(t)' /\ On(timeout_todo', t)  BY <1>2, <1>7, <2>2 DEF IInv, Listed, OnQueue
    <3>2. PICK rel \in Int : Rel(to_time[t])' = rel /\ rel > 1 - INT_MAX
      BY <1>2, <1>3, <2>2, AdjustedRel DEF IInv
    <3>. QED  BY <1>8, <3>1, <3>2, OnTodo
  <2>. QED  BY <2>1, <2>2
<1>. QED  BY <1>7, <1>10, <1>11 DEF IInv

\* softclock() puts the first n entries of timeout_todo, none of them due, into
\* buckets that are emptied in time.
LEMMA Placed ==
  ASSUME IInv, NEW n \in 0 .. Len(timeout_todo), \A i \in 1 .. n : ~Runs(timeout_todo[i]),
         bucket' = [t \in Timeouts |-> IF \E i \in 1 .. n : timeout_todo[i] = t
                                         THEN BUCKET(Rel(to_time[t]), to_time[t]) ELSE bucket[t]]
  PROVE  /\ bucket' \in [Timeouts -> {NoBucket} \cup Buckets]
         /\ \A t \in Timeouts :
              IF \E i \in 1 .. n : timeout_todo[i] = t
                THEN /\ bucket'[t] # NoBucket /\ Rel(to_time[t]) > 0
                     /\ \E d \in 1 .. Rel(to_time[t]) :
                          bucket'[t] \in MovedBuckets((ticks + d) % IntRange)
                ELSE bucket'[t] = bucket[t]
<1>1. Types  BY DEF IInv
<1>2. \A b \in Buckets : b # NoBucket  BY SMTT(30), Constants DEF Buckets, NoBucket
<1>3. ASSUME NEW t \in Timeouts, \E i \in 1 .. n : timeout_todo[i] = t
      PROVE  /\ bucket'[t] \in Buckets /\ Rel(to_time[t]) > 0
             /\ \E d \in 1 .. Rel(to_time[t]) :
                  bucket'[t] \in MovedBuckets((ticks + d) % IntRange)
  <2>1. bucket'[t] = BUCKET(Rel(to_time[t]), to_time[t])  BY <1>3
  <2>2. ~(Rel(to_time[t]) <= 0)  BY <1>3 DEF Runs
  <2>3. Rel(to_time[t]) > 0  BY SMTT(30), <1>1, <2>2, Numbers
  <2>4. to_time[t] \in 0 .. IntRange - 1 /\ ticks \in 0 .. IntRange - 1  BY <1>1, Numbers
  <2>. QED  BY <2>1, <2>3, <2>4, BucketServes
<1>4. ASSUME NEW t \in Timeouts, ~\E i \in 1 .. n : timeout_todo[i] = t
      PROVE  bucket'[t] = bucket[t]
  BY <1>4
<1>5. \A t \in Timeouts : bucket'[t] \in {NoBucket} \cup Buckets  BY <1>1, <1>3, <1>4 DEF Types
<1>6. bucket' \in [Timeouts -> {NoBucket} \cup Buckets]  BY <1>5
<1>. QED  BY <1>2, <1>3, <1>4, <1>6

\* softclock() that finds nothing due keeps the invariant: everything that is
\* left is on the wheel, and so ahead of the clock.
LEMMA StepSoftclockReturns ==
  ASSUME IInv, softclock, \A i \in DOMAIN timeout_todo : ~Runs(timeout_todo[i])
  PROVE  /\ IInv' /\ UNCHANGED <<ticks, to_time, to_flags, called>>
<1>. DEFINE n == Len(timeout_todo)
<1>1. Types /\ timeout_todo \in Seq(Timeouts)  BY DEF IInv, Types
<1>2. DOMAIN timeout_todo = 1 .. n /\ n \in Nat /\ n \in 0 .. n  BY SMTT(30), <1>1
<1>3. /\ bucket' = [t \in Timeouts |-> IF \E i \in 1 .. n : timeout_todo[i] = t
                                         THEN BUCKET(Rel(to_time[t]), to_time[t]) ELSE bucket[t]]
      /\ timeout_todo' = <<>> /\ UNCHANGED <<ticks, to_time, to_flags, called>>
      /\ softclock_si' \subseteq softclock_si
  BY DEF softclock
<1>4. /\ bucket' \in [Timeouts -> {NoBucket} \cup Buckets]
      /\ \A t \in Timeouts :
           IF \E i \in 1 .. n : timeout_todo[i] = t
             THEN /\ bucket'[t] # NoBucket /\ Rel(to_time[t]) > 0
                  /\ \E d \in 1 .. Rel(to_time[t]) :
                       bucket'[t] \in MovedBuckets((ticks + d) % IntRange)
             ELSE bucket'[t] = bucket[t]
  BY <1>2, <1>3, Placed
<1>5. /\ timeout_todo' \in Seq(Timeouts) /\ Distinct(timeout_todo')
      /\ \A t : ~On(timeout_todo', t)
  <2>1. timeout_todo' \in Seq(Timeouts) /\ Len(timeout_todo') = 0 /\ 1 .. 0 = {}  BY SMTT(30), <1>3
  <2>. QED  BY <2>1 DEF Distinct, On
<1>6. Types'  BY <1>1, <1>3, <1>4, <1>5 DEF Types
<1>7. ASSUME NEW t \in Timeouts PROVE Listed(t)' /\ Wheel(t)' /\ NotWrapped(t)'
  <2>1. Rel(to_time[t])' = Rel(to_time[t])  BY <1>3 DEF Rel
  <2>2. OnQueue(t)' <=> OnQueue(t)  BY <1>3 DEF OnQueue
  <2>3. Listed(t)'  BY <1>4, <1>5, <2>2 DEF IInv, Listed, On
  <2>4. Wheel(t)'  BY <1>3, <1>4, <2>1 DEF IInv, Wheel
  <2>5. bucket'[t] # NoBucket => Rel(to_time[t]) > 1 - INT_MAX
    <3>1. SUFFICES ASSUME bucket'[t] # NoBucket PROVE Rel(to_time[t]) > 1 - INT_MAX
      OBVIOUS
    <3>2. PICK d \in 1 .. Rel(to_time[t]) : TRUE  BY <2>1, <2>4, <3>1 DEF Wheel
    <3>. QED  BY SMTT(30), <1>1, <3>2, Numbers, Constants
  <2>6. NotWrapped(t)'  BY <1>5, <2>1, <2>2, <2>3, <2>5 DEF IInv, NotWrapped, Listed
  <2>. QED  BY <2>3, <2>4, <2>6
<1>. QED  BY <1>3, <1>5, <1>6, <1>7 DEF IInv

\* softclock() that calls a function keeps the invariant, and the function is
\* that of the first timeout on timeout_todo that is due.
LEMMA StepSoftclockCalls ==
  ASSUME IInv, softclock, ~\A i \in DOMAIN timeout_todo : ~Runs(timeout_todo[i])
  PROVE  /\ IInv' /\ ticks' = ticks /\ called = NoTimeout
         /\ \E t \in Timeouts :
              /\ OnQueue(t) /\ Runs(t) /\ called' = t /\ to_flags' = to_flags \ {t}
              /\ \A u \in Timeouts : u # t => to_time'[u] = to_time[u]
<1>1. Types /\ timeout_todo \in Seq(Timeouts) /\ Distinct(timeout_todo)  BY DEF IInv, Types
<1>2. DOMAIN timeout_todo = 1 .. Len(timeout_todo) /\ Len(timeout_todo) \in Nat  BY SMTT(30), <1>1
<1>3. PICK i \in DOMAIN timeout_todo :
        /\ Runs(timeout_todo[i])
        /\ \A j \in DOMAIN timeout_todo : Runs(timeout_todo[j]) => i <= j
        /\ bucket' = [t \in Timeouts |-> IF \E j \in 1 .. i - 1 : timeout_todo[j] = t
                                           THEN BUCKET(Rel(to_time[t]), to_time[t])
                                           ELSE bucket[t]]
        /\ timeout_todo' = SubSeq(timeout_todo, i + 1, Len(timeout_todo))
        /\ to_time' = [to_time EXCEPT ![timeout_todo[i]] = 0]
        /\ to_flags' = to_flags \ {timeout_todo[i]}
        /\ called' = timeout_todo[i]
        /\ softclock_si' = {"running"} \cup (IF "running" \in softclock_si
                                               THEN softclock_si \ {"running"} ELSE {})
  BY DEF softclock
<1>4. ticks' = ticks /\ called = NoTimeout  BY DEF softclock
<1>5. PICK t \in Timeouts : t = timeout_todo[i] /\ On(timeout_todo, t)
  <2>1. timeout_todo[i] \in Timeouts  BY SMTT(30), <1>1, <1>2
  <2>. QED  BY <1>2, <2>1 DEF On
<1>6. OnQueue(t) /\ bucket[t] = NoBucket  BY <1>5 DEF IInv, Listed
<1>7. /\ i - 1 \in 0 .. Len(timeout_todo) /\ \A j \in 1 .. i - 1 : j \in DOMAIN timeout_todo /\ ~(i <= j)
                                            /\ j # i
      /\ \A j \in 1 .. i : j = i \/ j \in 1 .. i - 1
      /\ \A j \in 1 .. i - 1 : j \in 1 .. i
      /\ i \in 1 .. i
  BY SMTT(30), <1>2
<1>8. /\ bucket' \in [Timeouts -> {NoBucket} \cup Buckets]
      /\ \A u \in Timeouts :
           IF \E j \in 1 .. i - 1 : timeout_todo[j] = u
             THEN /\ bucket'[u] # NoBucket /\ Rel(to_time[u]) > 0
                  /\ \E d \in 1 .. Rel(to_time[u]) :
                       bucket'[u] \in MovedBuckets((ticks + d) % IntRange)
             ELSE bucket'[u] = bucket[u]
  <2>1. \A j \in 1 .. i - 1 : ~Runs(timeout_todo[j])  BY <1>3, <1>7
  <2>. QED  BY <1>3, <1>7, <2>1, Placed
<1>9. /\ timeout_todo' \in Seq(Timeouts) /\ Distinct(timeout_todo')
      /\ \A x : On(timeout_todo', x) <=> On(timeout_todo, x) /\ \A j \in 1 .. i : timeout_todo[j] # x
  <2>1. i \in 1 .. Len(timeout_todo)  BY <1>2
  <2>2. timeout_todo' = SubSeq(timeout_todo, i + 1, Len(timeout_todo))  BY <1>3
  <2>. QED  BY <1>1, <2>1, <2>2, SuffixKeeps
<1>10. ~\E j \in 1 .. i - 1 : timeout_todo[j] = t
  BY <1>1, <1>2, <1>5, <1>7 DEF Distinct
<1>11. /\ to_time' \in [Timeouts -> 0 .. IntRange - 1] /\ to_flags' \subseteq Timeouts
       /\ \A u \in Timeouts : u # t => to_time'[u] = to_time[u]
       /\ softclock_si' \subseteq {"scheduled", "running"} /\ softclock_si' # {}
  <2>1. 0 \in 0 .. IntRange - 1  BY SMTT(30), Constants
  <2>. QED  BY <1>1, <1>3, <1>5, <2>1 DEF Types
<1>12. Types'  BY <1>1, <1>3, <1>4, <1>5, <1>8, <1>9, <1>11 DEF Types
<1>13. ASSUME NEW u \in Timeouts PROVE Listed(u)' /\ Wheel(u)' /\ NotWrapped(u)'
  <2>1. CASE u = t
    <3>1. ~OnQueue(t)' /\ ~On(timeout_todo', t) /\ bucket'[t] = NoBucket
      BY <1>3, <1>5, <1>6, <1>7, <1>8, <1>9, <1>10 DEF OnQueue
    <3>. QED  BY <2>1, <3>1 DEF Listed, Wheel, NotWrapped
  <2>2. CASE u # t
    <3>1. OnQueue(u)' <=> OnQueue(u)  BY <1>3, <1>5, <2>2 DEF OnQueue
    <3>2. Rel(to_time[u])' = Rel(to_time[u])  BY <1>4, <1>11, <2>2 DEF Rel
    <3>3. NotWrapped(u)'  BY <1>11, <3>1, <3>2 DEF IInv, NotWrapped
    <3>4. CASE \E j \in 1 .. i - 1 : timeout_todo[j] = u
      <4>1. ~On(timeout_todo', u) /\ On(timeout_todo, u)  BY <1>2, <1>7, <1>9, <3>4 DEF On
      <4>2. Listed(u)'  BY <1>8, <3>1, <3>4, <4>1 DEF IInv, Listed
      <4>3. Wheel(u)'  BY <1>4, <1>8, <3>2, <3>4 DEF Wheel
      <4>. QED  BY <3>3, <4>2, <4>3
    <3>5. CASE ~\E j \in 1 .. i - 1 : timeout_todo[j] = u
      <4>1. bucket'[u] = bucket[u]  BY <1>8, <3>5
      <4>2. On(timeout_todo', u) <=> On(timeout_todo, u)  BY <1>5, <1>7, <1>9, <2>2, <3>5
      <4>3. Listed(u)'  BY <3>1, <4>1, <4>2 DEF IInv, Listed
      <4>4. Wheel(u)'  BY <1>4, <3>2, <4>1 DEF IInv, Wheel
      <4>. QED  BY <3>3, <4>3, <4>4
    <3>. QED  BY <3>4, <3>5
  <2>. QED  BY <2>1, <2>2
<1>. QED  BY <1>3, <1>4, <1>5, <1>6, <1>9, <1>11, <1>12, <1>13 DEF IInv

\* The invariant holds at first, with no timeout anywhere.
LEMMA InitHolds == Init => IInv
<1>1. SUFFICES ASSUME Init PROVE IInv  OBVIOUS
<1>2. 0 \in 0 .. IntRange - 1  BY SMTT(30), Constants
<1>3. Types
  <2>1. timeout_todo \in Seq(Timeouts)  BY SMTT(30), <1>1 DEF Init
  <2>. QED  BY <1>1, <1>2, <2>1 DEF Init, Types
<1>4. Len(timeout_todo) = 0 /\ 1 .. 0 = {}  BY SMTT(30), <1>1 DEF Init
<1>5. Distinct(timeout_todo) /\ \A t : ~On(timeout_todo, t)  BY <1>4 DEF Distinct, On
<1>. QED  BY <1>1, <1>3, <1>5 DEF IInv, Listed, Wheel, NotWrapped, Init, OnQueue

\* Every step keeps it.
LEMMA NextKeeps == IInv /\ [Next]_vars => IInv'
<1>1. SUFFICES ASSUME IInv, [Next]_vars PROVE IInv'  OBVIOUS
<1>2. ASSUME NEW t \in Timeouts, timeout_del(t) PROVE IInv'  BY <1>1, <1>2, StepDel
<1>3. ASSUME NEW t \in Timeouts, NEW n \in Durations, timeout_add(t, n) PROVE IInv'
  BY <1>1, <1>3, StepAdd
<1>4. CASE timeout_hardclock_update  BY <1>1, <1>4, StepHardclock
<1>5. ASSUME NEW adj \in Adjustments, timeout_adjust_ticks(adj) PROVE IInv'
  BY <1>1, <1>5, StepAdjust
<1>6. CASE softclock  BY <1>1, <1>6, StepSoftclockReturns, StepSoftclockCalls
<1>7. ASSUME UNCHANGED <<ticks, to_time, to_flags, bucket, timeout_todo, softclock_si>>,
             called' \in Timeouts \cup {NoTimeout}
      PROVE  IInv'
  <2>1. Types' /\ Distinct(timeout_todo')  BY <1>1, <1>7 DEF IInv, Types
  <2>2. \A t \in Timeouts : Listed(t)' /\ Wheel(t)' /\ NotWrapped(t)'
    BY <1>1, <1>7, Same DEF IInv, OnQueue
  <2>. QED  BY <2>1, <2>2 DEF IInv
<1>8. CASE fn_returns  BY <1>7, <1>8 DEF fn_returns
<1>9. CASE UNCHANGED vars  BY <1>1, <1>7, <1>9 DEF vars, IInv, Types
<1>. QED  BY <1>1, <1>2, <1>3, <1>4, <1>5, <1>6, <1>8, <1>9 DEF Next

\* The invariant is one.
LEMMA Invariant == Spec => []IInv
<1>. QED  BY InitHolds, NextKeeps, PTL DEF Spec

\* A timeout with TIMEOUT_ONQUEUE is always in exactly one place, a bucket or
\* timeout_todo, once: timeout_add(), timeout_del(), hardclock() and softclock()
\* neither lose nor double it, whatever the number of timeouts.
THEOREM TypeOKHolds == Spec => []TypeOK
<1>1. ASSUME IInv PROVE TypeOK
  <2>1. Types /\ timeout_todo \in Seq(Timeouts) /\ Distinct(timeout_todo)
    BY <1>1 DEF IInv, Types
  <2>2. \A t : t \in Todo <=> On(timeout_todo, t)  BY <2>1, Entries DEF Todo
  <2>3. Cardinality(Todo) = Len(timeout_todo)  BY <2>1, DistinctLen DEF Todo
  <2>4. Todo \subseteq Timeouts
    <3>1. \A i \in DOMAIN timeout_todo : timeout_todo[i] \in Timeouts  BY SMTT(30), <2>1
    <3>. QED  BY <3>1 DEF Todo
  <2>5. \A t \in Timeouts : OnQueue(t) <=> (bucket[t] # NoBucket \/ t \in Todo)
    BY <1>1, <2>2 DEF IInv, Listed
  <2>6. \A t \in Todo : bucket[t] = NoBucket  BY <1>1, <2>2, <2>4 DEF IInv, Listed
  <2>. QED  BY <2>1, <2>3, <2>5, <2>6 DEF TypeOK, Types, Buckets
<1>. QED  BY Invariant, <1>1, PTL

\* No timeout is forgotten in the wheel: a timeout whose tick has come is on
\* timeout_todo, for every width of an int and every size of a level.
THEOREM OnTimeHolds == Spec => []OnTime
<1>1. ASSUME IInv PROVE OnTime
  <2>1. SUFFICES ASSUME NEW t \in Timeouts, OnQueue(t), Rel(to_time[t]) <= 0 PROVE t \in Todo
    BY DEF OnTime
  <2>2. Types /\ timeout_todo \in Seq(Timeouts)  BY <1>1 DEF IInv, Types
  <2>3. 1 .. Rel(to_time[t]) = {}  BY SMTT(30), <2>1, <2>2, Numbers
  <2>4. bucket[t] = NoBucket  BY <1>1, <2>3 DEF IInv, Wheel
  <2>5. On(timeout_todo, t)  BY <1>1, <2>1, <2>4 DEF IInv, Listed
  <2>. QED  BY <2>2, <2>5, Entries DEF Todo
<1>. QED  BY Invariant, <1>1, PTL

-----------------------------------------------------------------------------
(* The wheel implements timeout(9). *)

\* What a timeout looks like from outside.
LEMMA LeftIs ==
  ASSUME Types, NEW t \in Timeouts
  PROVE  /\ Left(t) \in Int /\ (Left(t) # -1 <=> OnQueue(t)) /\ (Left(t) = -1 <=> ~OnQueue(t))
         /\ OnQueue(t) => Left(t) = IF Rel(to_time[t]) > 0 THEN Rel(to_time[t]) ELSE 0
<1>1. Rel(to_time[t]) \in Int  BY Numbers
<1>2. -1 \in Int /\ 0 \in Int /\ -1 # 0 /\ ~(-1 > 0)  BY SMTT(30)
<1>. QED  BY <1>1, <1>2 DEF Left

\* A step that leaves t and the clock alone does not show in t.
LEMMA LeftSame ==
  ASSUME NEW t \in Timeouts, ticks' = ticks, to_time'[t] = to_time[t], OnQueue(t)' <=> OnQueue(t)
  PROVE  Left(t)' = Left(t)
<1>1. Rel(to_time[t])' = Rel(to_time[t])  BY DEF Rel
<1>. QED  BY <1>1 DEF Left

\* n ticks as TimeoutSpec counts them.
Nearer(left, n) == IF left > n THEN left - n ELSE IF left # -1 THEN 0 ELSE -1

\* A timeout that was Rel() ticks away and is n ticks closer, or due already,
\* is one that TimeoutSpec has brought n ticks closer.
LEMMA LeftNearer ==
  ASSUME Types, Types', NEW t \in Timeouts, NEW n \in Nat \ {0}, OnQueue(t)' <=> OnQueue(t),
         OnQueue(t) => \/ Rel(to_time[t])' = Rel(to_time[t]) - n
                       \/ Rel(to_time[t])' = 0 /\ Rel(to_time[t]) < n
  PROVE  Left(t)' = Nearer(Left(t), n)
<1>1. CASE ~OnQueue(t)
  <2>1. Left(t) = -1 /\ Left(t)' = -1  BY <1>1 DEF Left
  <2>. QED  BY SMTT(30), <2>1 DEF Nearer
<1>2. CASE OnQueue(t)
  <2>1. /\ Left(t) = IF Rel(to_time[t]) > 0 THEN Rel(to_time[t]) ELSE 0
        /\ Left(t)' = IF Rel(to_time[t])' > 0 THEN Rel(to_time[t])' ELSE 0
    BY <1>2 DEF Left
  <2>2. Rel(to_time[t]) \in Int  BY Numbers
  <2>. DEFINE r == Rel(to_time[t])
              q == Rel(to_time[t])'
              l == Left(t)
              m == Left(t)'
  <2>3. /\ r \in Int /\ (q = r - n \/ (q = 0 /\ r < n))
        /\ l = (IF r > 0 THEN r ELSE 0) /\ m = IF q > 0 THEN q ELSE 0
    BY <1>2, <2>1, <2>2
  <2>. HIDE DEF r, q, l, m
  <2>4. m = Nearer(l, n)  BY SMTT(30), <2>3 DEF Nearer
  <2>. QED  BY <2>4 DEF l, m
<1>. QED  BY <1>1, <1>2

\* Every step of the wheel is a step that TimeoutSpec allows, or none at all.
LEMMA NextImplements ==
  ASSUME IInv, IInv', [Next]_vars
  PROVE  [Abs!SpecNext]_<<[t \in Timeouts |-> Left(t)], called>>
<1>. DEFINE left == [t \in Timeouts |-> Left(t)]
            later == [t \in Timeouts |-> Left(t)']
<1>0. Types /\ Types'  BY DEF IInv
<1>1. ASSUME NEW n \in {1} \cup Adjustments, called' = called,
             \A t \in Timeouts : Left(t)' = Nearer(Left(t), n)
      PROVE  Abs!SpecNext
  <2>1. later = [t \in Timeouts |-> Nearer(Left(t), n)]  BY <1>1
  <2>2. Abs!Later(n) = [t \in Timeouts |-> Nearer(Left(t), n)]
    BY DEF Abs!Later, Nearer, Abs!Pending, Abs!NotPending
  <2>3. Abs!Advance(n)  BY <2>1, <2>2 DEF Abs!Advance
  <2>. QED  BY <1>1, <2>3 DEF Abs!SpecNext
<1>2. ASSUME NEW t \in Timeouts, timeout_del(t) PROVE Abs!SpecNext
  <2>1. Left(t)' = -1  BY <1>2 DEF timeout_del, Left, OnQueue
  <2>2. ASSUME NEW u \in Timeouts, u # t PROVE Left(u)' = Left(u)
    <3>1. ticks' = ticks /\ to_time'[u] = to_time[u] /\ (OnQueue(u)' <=> OnQueue(u))
      BY <1>0, <1>2, <2>2 DEF timeout_del, OnQueue, Types
    <3>. QED  BY <3>1, LeftSame
  <2>3. later = [left EXCEPT ![t] = -1]  BY <2>1, <2>2
  <2>4. Abs!Cancel(t)  BY <2>3 DEF Abs!Cancel, Abs!NotPending
  <2>. QED  BY <1>2, <2>4 DEF timeout_del, Abs!SpecNext
<1>3. ASSUME NEW t \in Timeouts, NEW n \in Durations, timeout_add(t, n) PROVE Abs!SpecNext
  <2>1. Left(t)' = n
    <3>1. Rel(to_time[t])' = n /\ OnQueue(t)'  BY <1>3, StepAdd DEF timeout_add, OnQueue
    <3>2. n \in 0 .. INT_MAX  BY TimeoutAssumption
    <3>3. ~(n > 0) => n = 0  BY SMTT(30), <3>2, Constants
    <3>. QED  BY <3>1, <3>3 DEF Left
  <2>2. ASSUME NEW u \in Timeouts, u # t PROVE Left(u)' = Left(u)
    <3>1. ticks' = ticks /\ to_time'[u] = to_time[u] /\ (OnQueue(u)' <=> OnQueue(u))
      BY <1>0, <1>3, <2>2 DEF timeout_add, OnQueue, Types
    <3>. QED  BY <3>1, LeftSame
  <2>3. later = [left EXCEPT ![t] = n]  BY <2>1, <2>2
  <2>4. Abs!Schedule(t, n)  BY <2>3 DEF Abs!Schedule
  <2>. QED  BY <1>3, <2>4 DEF timeout_add, Abs!SpecNext
<1>4. CASE timeout_hardclock_update
  <2>1. 1 \in Nat \ {0}  BY SMTT(30)
  <2>2. ASSUME NEW t \in Timeouts PROVE Left(t)' = Nearer(Left(t), 1)
    <3>1. OnQueue(t)' <=> OnQueue(t)  BY <1>4 DEF timeout_hardclock_update, OnQueue
    <3>. QED  BY <1>0, <1>4, <2>1, <3>1, TickedRel, LeftNearer
  <2>. QED  BY <1>1, <1>4, <2>2 DEF timeout_hardclock_update
<1>5. ASSUME NEW adj \in Adjustments, timeout_adjust_ticks(adj) PROVE Abs!SpecNext
  <2>1. adj \in Nat \ {0}
    <3>1. adj \in 1 .. INT_MAX  BY TimeoutAssumption
    <3>. QED  BY SMTT(30), <3>1, Constants
  <2>2. ASSUME NEW t \in Timeouts PROVE Left(t)' = Nearer(Left(t), adj)
    <3>1. OnQueue(t)' <=> OnQueue(t)  BY <1>5 DEF timeout_adjust_ticks, OnQueue
    <3>2. OnQueue(t) => \/ Rel(to_time[t])' = Rel(to_time[t]) - adj
                        \/ Rel(to_time[t])' = 0 /\ Rel(to_time[t]) < adj
      BY <1>5, AdjustedRel
    <3>. QED  BY <1>0, <2>1, <3>1, <3>2, LeftNearer
  <2>. QED  BY <1>1, <1>5, <2>2 DEF timeout_adjust_ticks
<1>6. CASE softclock /\ \A i \in DOMAIN timeout_todo : ~Runs(timeout_todo[i])
  <2>1. UNCHANGED <<ticks, to_time, to_flags, called>>  BY <1>6, StepSoftclockReturns
  <2>2. \A t \in Timeouts : Left(t)' = Left(t)  BY <2>1, LeftSame DEF OnQueue
  <2>3. later = left  BY <2>2
  <2>. QED  BY <2>1, <2>3
<1>7. CASE softclock /\ ~\A i \in DOMAIN timeout_todo : ~Runs(timeout_todo[i])
  <2>1. ticks' = ticks /\ called = NoTimeout  BY <1>7, StepSoftclockCalls
  <2>2. PICK t \in Timeouts :
          /\ OnQueue(t) /\ Runs(t) /\ called' = t /\ to_flags' = to_flags \ {t}
          /\ \A u \in Timeouts : u # t => to_time'[u] = to_time[u]
    BY <1>7, StepSoftclockCalls
  <2>3. Left(t) = 0
    <3>1. ~(Rel(to_time[t]) > 0)
      <4>1. Rel(to_time[t]) <= 0  BY <2>2 DEF Runs
      <4>. QED  BY SMTT(30), <1>0, <4>1, Numbers
    <3>. QED  BY <2>2, <3>1 DEF Left
  <2>4. Left(t)' = -1  BY <2>2 DEF Left, OnQueue
  <2>5. ASSUME NEW u \in Timeouts, u # t PROVE Left(u)' = Left(u)
    <3>1. to_time'[u] = to_time[u] /\ (OnQueue(u)' <=> OnQueue(u))
      BY <2>2, <2>5 DEF OnQueue
    <3>. QED  BY <2>1, <3>1, LeftSame
  <2>6. later = [left EXCEPT ![t] = -1]  BY <2>4, <2>5
  <2>7. Abs!Cancel(t)  BY <2>6 DEF Abs!Cancel, Abs!NotPending
  <2>8. Abs!Call(t)  BY <2>1, <2>2, <2>3, <2>7 DEF Abs!Call, Abs!Due
  <2>. QED  BY <2>8 DEF Abs!SpecNext
<1>8. ASSUME UNCHANGED <<ticks, to_time, to_flags>> PROVE later = left
  <2>1. \A t \in Timeouts : Left(t)' = Left(t)  BY <1>8, LeftSame DEF OnQueue
  <2>. QED  BY <2>1
<1>9. CASE fn_returns
  <2>1. later = left /\ Abs!Return  BY <1>8, <1>9 DEF fn_returns, Abs!Return
  <2>. QED  BY <2>1 DEF Abs!SpecNext
<1>10. CASE UNCHANGED vars  BY <1>8, <1>10 DEF vars
<1>. QED  BY <1>2, <1>3, <1>4, <1>5, <1>6, <1>7, <1>9, <1>10 DEF Next

\* The wheel implements timeout(9): a function is called only when the ticks
\* last asked for have passed, whatever is added, moved, deleted or skipped by
\* a resume, and although ticks and to_time wrap around.
THEOREM ImplementsHolds == Spec => Implements
<1>1. Init => Abs!SpecInit
  BY DEF Init, Abs!SpecInit, Abs!NotPending, Left, OnQueue
<1>2. IInv /\ IInv' /\ [Next]_vars => [Abs!SpecNext]_<<[t \in Timeouts |-> Left(t)], called>>
  BY NextImplements
<1>. QED  BY Invariant, <1>1, <1>2, PTL DEF Spec, Implements, Abs!TimeoutsSpec
=============================================================================

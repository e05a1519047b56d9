--------------------------- MODULE MqttWire_proofs ---------------------------
(****************************************************************************)
(* That mqtt_message_receive and deliver_publish put together again what    *)
(* mqtt_msg.c has built, whatever the sizes of the packets and of both      *)
(* buffers and wherever the stream is cut up: what is handed on is what was *)
(* written, the connection is given up for a cause only, and nothing is read*)
(* past the input buffer.  Last, the types, also where the reader has lost  *)
(* its place.                                                               *)
(*                                                                          *)
(* The argument: the bytes that have not been read are the encodings of the *)
(* packets that have not been handed on, less what is in the buffer or has  *)
(* been given to the application (Carries), and what is in the buffer is    *)
(* the beginning of the first of them (Reading).  From the encoding of a    *)
(* packet follows what the operators that take it apart return.             *)
(****************************************************************************)
EXTENDS MqttWire, TLAPS, WellFoundedInduction

(* The least element of a nonempty set of natural numbers.                 *)
LEMMA NatMin ==
    ASSUME NEW T, T \subseteq Nat, T # {}
    PROVE  \E n \in T : \A k \in T : n <= k
<1>1. ASSUME NEW R, R = OpToRel(<, Nat) PROVE \E n \in T : \A k \in T : n <= k
  <2>1. R = {ss \in Nat \X Nat : ss[1] < ss[2]}  BY <1>1 DEF OpToRel
  <2>2. IsWellFoundedOn(R, Nat)  BY <1>1, NatLessThanWellFounded
  <2>3. PICK n \in T : \A k \in T : ~(<< k, n >> \in R)  BY <2>2, WFMin
  <2>4. n \in Nat  OBVIOUS
  <2>5. ASSUME NEW k \in T PROVE n <= k
    <3>1. k \in Nat /\ ~(<< k, n >> \in R)  BY <2>3
    <3>2. k < n => << k, n >> \in {ss \in Nat \X Nat : ss[1] < ss[2]}  BY <3>1, <2>4
    <3>3. ~(k < n)  BY <3>1, <3>2, <2>1
    <3> QED BY <2>4, <3>1, <3>3
  <2> QED BY <2>5
<1> QED BY <1>1

(* Division by the base.                                                    *)
LEMMA Division ==
    ASSUME NEW b \in Nat, b >= 2, NEW n \in Nat
    PROVE  /\ n \div b \in Nat /\ n % b \in 0 .. b - 1
           /\ n = (b * (n \div b)) + (n % b)
           /\ n >= b => n \div b < n /\ n \div b >= 1
<1>1. n \div b \in Nat /\ n % b \in 0 .. b - 1
  OBVIOUS
<1>2. n = (b * (n \div b)) + (n % b)
  OBVIOUS
<1>3. n >= b => n \div b < n /\ n \div b >= 1
  BY <1>1, <1>2
<1> QED BY <1>1, <1>2, <1>3

(* Taking the bit off a digit.                                              *)
LEMMA BitOff ==
    ASSUME NEW b \in Nat, b >= 2, NEW r \in 0 .. b - 1
    PROVE  (b + r) % b = r /\ r % b = r
  OBVIOUS

-----------------------------------------------------------------------------
(* The digits of a number.  The recursion is taken from below: two functions *)
(* that obey it up to some number agree as far as both go, and each can be    *)
(* continued by one.                                                         *)

DigitStep(f, n) == IF n < Base THEN << n >> ELSE << Base + (n % Base) >> \o f[n \div Base]

UpTo(g, n) ==
    /\ g \in [0 .. n -> Seq(Nat)]
    /\ \A m \in 0 .. n : g[m] = DigitStep(g, m)

(* Digits obeyed on two initial segments are the same on the shorter one.    *)
LEMMA UpToAgree ==
    ASSUME Base \in Nat, Base >= 2, NEW n \in Nat, NEW k \in Nat, NEW g, NEW h,
           UpTo(g, n), UpTo(h, k)
    PROVE  \A m \in Nat : m <= n /\ m <= k => g[m] = h[m]
<1> DEFINE T == {m \in Nat : ~(m <= n /\ m <= k => g[m] = h[m])}
<1>1. SUFFICES ASSUME T # {} PROVE FALSE
  OBVIOUS
<1>2. PICK m \in T : \A j \in T : m <= j
  <2>1. T \subseteq Nat
    OBVIOUS
  <2> HIDE DEF T
  <2> QED BY <1>1, <2>1, NatMin
<1>3. m \in Nat /\ m <= n /\ m <= k /\ g[m] # h[m]
  OBVIOUS
<1>4. m \in 0 .. n /\ m \in 0 .. k
  BY <1>3
<1>5. g[m] = DigitStep(g, m) /\ h[m] = DigitStep(h, m)
  BY <1>4 DEF UpTo
<1>6. m >= Base
  BY <1>3, <1>5 DEF DigitStep
<1>7. m \div Base \in Nat /\ m \div Base < m
  BY <1>3, <1>6, Division
<1>8. m \div Base \notin T
  <2> HIDE DEF T
  <2> QED BY <1>2, <1>3, <1>7
<1>9. g[m \div Base] = h[m \div Base]
  BY <1>3, <1>7, <1>8
<1> QED BY <1>3, <1>5, <1>9 DEF DigitStep

(* Digits can be obeyed on every initial segment.                            *)
LEMMA UpToExists ==
    ASSUME Base \in Nat, Base >= 2
    PROVE  \A n \in Nat : \E g : UpTo(g, n)
<1> DEFINE T == {n \in Nat : ~\E g : UpTo(g, n)}
<1>1. SUFFICES ASSUME T # {} PROVE FALSE
  OBVIOUS
<1>2. PICK n \in T : \A j \in T : n <= j
  <2>1. T \subseteq Nat
    OBVIOUS
  <2> HIDE DEF T
  <2> QED BY <1>1, <2>1, NatMin
<1>3. n \in Nat /\ ~\E g : UpTo(g, n)
  OBVIOUS
<1>4. n # 0
  <2>1. SUFFICES ASSUME n = 0 PROVE FALSE
    OBVIOUS
  <2> DEFINE g == [m \in 0 .. 0 |-> << 0 >>]
  <2>2. UpTo(g, 0)
    BY DEF UpTo, DigitStep
  <2> QED BY <2>1, <2>2, <1>3
<1>5. n - 1 \in Nat /\ n - 1 < n
  BY <1>3, <1>4
<1>6. n - 1 \notin T
  <2> HIDE DEF T
  <2> QED BY <1>2, <1>3, <1>5
<1>7. PICK g : UpTo(g, n - 1)
  BY <1>5, <1>6
<1> DEFINE h == [m \in 0 .. n |-> IF m < n THEN g[m] ELSE DigitStep(g, n)]
<1>8. \A m \in 0 .. n : DigitStep(g, m) \in Seq(Nat)
  <2>1. TAKE m \in 0 .. n
  <2>2. m \in Nat /\ m % Base \in Nat /\ m \div Base \in Nat /\ (m >= Base => m \div Base < m)
    BY <2>1, <1>3, Division
  <2>3. m >= Base => g[m \div Base] \in Seq(Nat)
    BY <2>1, <2>2, <1>3, <1>7 DEF UpTo
  <2>4. m >= Base => << Base + (m % Base) >> \in Seq(Nat)
    BY <2>2
  <2> QED BY <2>2, <2>3, <2>4 DEF DigitStep
<1>9. \A m \in 0 .. n : h[m] = DigitStep(g, m)
  BY <1>3, <1>7 DEF UpTo
<1>10. \A m \in 0 .. n : DigitStep(g, m) = DigitStep(h, m)
  <2>1. TAKE m \in 0 .. n
  <2>2. m >= Base => m \div Base \in 0 .. n - 1
    BY <2>1, <1>3, Division
  <2>3. m >= Base => h[m \div Base] = g[m \div Base]
    BY <2>2, <1>3
  <2> HIDE DEF h
  <2> QED BY <2>1, <2>3, <1>3 DEF DigitStep
<1>11. h \in [0 .. n -> Seq(Nat)]
  <2>1. \A m \in 0 .. n : h[m] \in Seq(Nat)
    <3> HIDE DEF h
    <3> QED BY <1>8, <1>9
  <2> QED BY <2>1
<1>12. UpTo(h, n)
  <2> HIDE DEF h
  <2> QED BY <1>9, <1>10, <1>11 DEF UpTo
<1> QED BY <1>12, <1>3

(* Digits is the function that its definition asks for.                      *)
LEMMA DigitsUnfold ==
    ASSUME Base \in Nat, Base >= 2
    PROVE  \A n \in Nat : Digits[n] = DigitStep(Digits, n)
<1> DEFINE G(n) == CHOOSE g : UpTo(g, n)
           F    == [n \in Nat |-> G(n)[n]]
<1>1. \A n \in Nat : UpTo(G(n), n)
  BY UpToExists
<1>2. \A n \in Nat : F[n] = DigitStep(F, n)
  <2>1. TAKE n \in Nat
  <2>2. F[n] = G(n)[n] /\ UpTo(G(n), n)
    BY <1>1
  <2>3. F[n] = DigitStep(G(n), n)
    <3> HIDE DEF F, G
    <3> QED BY <2>2 DEF UpTo
  <2>4. ASSUME n >= Base PROVE G(n)[n \div Base] = F[n \div Base]
    <3>1. n \div Base \in Nat /\ n \div Base < n
      BY <2>4, Division
    <3>2. UpTo(G(n \div Base), n \div Base)
      BY <3>1, <1>1
    <3>3. F[n \div Base] = G(n \div Base)[n \div Base]
      BY <3>1
    <3>4. G(n)[n \div Base] = G(n \div Base)[n \div Base]
      <4> HIDE DEF F, G
      <4> QED BY <3>1, <3>2, <2>2, UpToAgree
    <3> QED BY <3>3, <3>4
  <2> HIDE DEF F, G
  <2> QED BY <2>3, <2>4 DEF DigitStep
<1>3. F = [n \in Nat |-> IF n < Base THEN << n >> ELSE << Base + (n % Base) >> \o F[n \div Base]]
  <2>1. F = [n \in Nat |-> F[n]]
    OBVIOUS
  <2> HIDE DEF F
  <2> QED BY <2>1, <1>2 DEF DigitStep
<1>4. \E f : f = [n \in Nat |-> IF n < Base THEN << n >> ELSE << Base + (n % Base) >> \o f[n \div Base]]
  <2> HIDE DEF F
  <2> QED BY <1>3
<1>5. Digits = [n \in Nat |-> IF n < Base THEN << n >> ELSE << Base + (n % Base) >> \o Digits[n \div Base]]
  BY <1>4 DEF Digits
<1> QED BY <1>5 DEF DigitStep

(* Its two cases, with what division gives for the second.                   *)
LEMMA DigitsCases ==
    ASSUME Base \in Nat, Base >= 2, NEW n \in Nat
    PROVE  /\ n < Base => Digits[n] = << n >> /\ n % Base = n
           /\ n >= Base =>
                /\ Digits[n] = << Base + (n % Base) >> \o Digits[n \div Base]
                /\ n \div Base \in Nat /\ n \div Base < n
                /\ n % Base \in Nat /\ n % Base <= Base - 1
                /\ n = (Base * (n \div Base)) + (n % Base)
                /\ (Base + (n % Base)) % Base = n % Base
<1>1. Digits[n] = DigitStep(Digits, n)
  BY DigitsUnfold
<1>2. n < Base => Digits[n] = << n >>
  BY <1>1 DEF DigitStep
<1>3. n < Base => n % Base = n
  OBVIOUS
<1>4. n >= Base => Digits[n] = << Base + (n % Base) >> \o Digits[n \div Base]
  BY <1>1 DEF DigitStep
<1>5. /\ n \div Base \in Nat /\ n % Base \in 0 .. Base - 1
      /\ n = (Base * (n \div Base)) + (n % Base)
      /\ n >= Base => n \div Base < n
  BY Division
<1>6. (Base + (n % Base)) % Base = n % Base
  BY <1>5, BitOff
<1>7. n % Base \in Nat /\ n % Base <= Base - 1
  BY <1>5
<1> QED BY <1>2, <1>3, <1>4, <1>5, <1>6, <1>7

(* The digits are those of a number below their base, all but the last with  *)
(* the bit.                                                                  *)
LEMMA DigitsShape ==
    ASSUME Base \in Nat, Base >= 2
    PROVE  \A n \in Nat :
             /\ Digits[n] \in Seq(Nat)
             /\ Len(Digits[n]) >= 1
             /\ \A i \in 1 .. Len(Digits[n]) : More(Digits[n][i]) <=> i < Len(Digits[n])
<1> DEFINE P(n) ==
      /\ Digits[n] \in Seq(Nat)
      /\ Len(Digits[n]) >= 1
      /\ \A i \in 1 .. Len(Digits[n]) : More(Digits[n][i]) <=> i < Len(Digits[n])
    T == {n \in Nat : ~P(n)}
<1>1. SUFFICES ASSUME T # {} PROVE FALSE
  OBVIOUS
<1>2. PICK n \in T : \A j \in T : n <= j
  <2>1. T \subseteq Nat
    OBVIOUS
  <2> HIDE DEF T
  <2> QED BY <1>1, <2>1, NatMin
<1>3. n \in Nat
  OBVIOUS
<1>0. ~P(n)
  OBVIOUS
<1> HIDE DEF T
<1>4. n >= Base
  <2>1. SUFFICES ASSUME n < Base PROVE P(n)
    BY <1>3, <1>0
  <2>2. Digits[n] = << n >>
    BY <2>1, <1>3, DigitsCases
  <2> QED BY <2>1, <2>2, <1>3 DEF More
<1>5. /\ n \div Base \in Nat /\ n \div Base < n
      /\ n % Base \in Nat
  BY <1>3, <1>4, DigitsCases
<1>6. P(n \div Base)
  <2>1. n \div Base \notin T
    BY <1>2, <1>3, <1>5
  <2> QED BY <2>1, <1>5 DEF T
<1>7. Digits[n] = << Base + (n % Base) >> \o Digits[n \div Base]
  BY <1>3, <1>4, DigitsCases
<1>8. P(n)
  <2> DEFINE x == Base + (n % Base)
             d == Digits[n \div Base]
  <2>1. x \in Nat /\ x >= Base
    BY <1>5
  <2>2. d \in Seq(Nat) /\ Len(d) >= 1 /\ \A i \in 1 .. Len(d) : More(d[i]) <=> i < Len(d)
    BY <1>6
  <2>3. Digits[n] = << x >> \o d
    BY <1>7
  <2> HIDE DEF x, d
  <2>4. Digits[n] \in Seq(Nat) /\ Len(Digits[n]) = Len(d) + 1
    BY <2>1, <2>2, <2>3
  <2>5. Digits[n][1] = x /\ \A i \in 1 .. Len(d) : Digits[n][i + 1] = d[i]
    BY <2>1, <2>2, <2>3
  <2>6. ASSUME NEW i \in 1 .. Len(Digits[n])
        PROVE  More(Digits[n][i]) <=> i < Len(Digits[n])
    <3>1. CASE i = 1
      BY <3>1, <2>1, <2>2, <2>4, <2>5 DEF More
    <3>2. CASE i # 1
      <4>1. i - 1 \in 1 .. Len(d) /\ (i - 1) + 1 = i
        BY <3>2, <2>4, <2>2
      <4>2. Digits[n][i] = d[i - 1]
        BY <4>1, <2>5
      <4>3. More(Digits[n][i]) <=> i - 1 < Len(d)
        BY <4>1, <4>2, <2>2
      <4> QED BY <4>1, <4>3, <2>2, <2>4
    <3> QED BY <3>1, <3>2
  <2> QED BY <2>2, <2>4, <2>6
<1> QED BY <1>0, <1>8

(* mqtt_get_total_length undoes fini_message: read from the least digit, the *)
(* digits give the number back, wherever in the buffer they begin.           *)
IsValue(w, buffer, from, to) ==
    w = [i \in from .. to + 1 |-> IF i > to THEN 0 ELSE (buffer[i] % Base) + Base * w[i + 1]]

(* By induction on the number, for all places and all buffers.              *)
LEMMA ValueOfDigits ==
    ASSUME Base \in Nat, Base >= 2
    PROVE  \A n \in Nat : \A k \in Nat : \A buffer :
             (\A i \in 1 .. Len(Digits[n]) : buffer[k + i] = Digits[n][i])
             => /\ \E w : IsValue(w, buffer, k + 1, k + Len(Digits[n]))
                /\ \A w : IsValue(w, buffer, k + 1, k + Len(Digits[n])) => w[k + 1] = n
<1> DEFINE L(n) == Len(Digits[n])
           Holds(n, k, buffer) == \A i \in 1 .. L(n) : buffer[k + i] = Digits[n][i]
           P(n) == \A k \in Nat : \A buffer : Holds(n, k, buffer) =>
                     /\ \E w : IsValue(w, buffer, k + 1, k + L(n))
                     /\ \A w : IsValue(w, buffer, k + 1, k + L(n)) => w[k + 1] = n
           T == {n \in Nat : ~P(n)}
<1>1. SUFFICES ASSUME T # {} PROVE FALSE
  OBVIOUS
<1>2. PICK n \in T : \A j \in T : n <= j
  <2>1. T \subseteq Nat
    OBVIOUS
  <2> HIDE DEF T
  <2> QED BY <1>1, <2>1, NatMin
<1>3. n \in Nat
  OBVIOUS
<1>0. ~P(n)
  OBVIOUS
<1> HIDE DEF T
<1>4. ASSUME n < Base PROVE P(n)
  <2> SUFFICES ASSUME NEW k \in Nat, NEW buffer, Holds(n, k, buffer)
               PROVE  /\ \E w : IsValue(w, buffer, k + 1, k + L(n))
                      /\ \A w : IsValue(w, buffer, k + 1, k + L(n)) => w[k + 1] = n
    OBVIOUS
  <2>1. Digits[n] = << n >>
    BY <1>3, <1>4, DigitsCases
  <2>2. L(n) = 1 /\ buffer[k + 1] = n
    BY <2>1
  <2>3. n % Base = n
    BY <1>3, <1>4
  <2> DEFINE v == [i \in k + 1 .. (k + 1) + 1 |-> IF i > k + 1 THEN 0 ELSE n]
  <2>4. IsValue(v, buffer, k + 1, k + 1)
    BY <2>2, <2>3, <1>3 DEF IsValue
  <2>5. ASSUME NEW w, IsValue(w, buffer, k + 1, k + 1) PROVE w[k + 1] = n
    <3>1. w[(k + 1) + 1] = 0
      BY <2>5 DEF IsValue
    <3>2. w[k + 1] = (buffer[k + 1] % Base) + Base * w[(k + 1) + 1]
      BY <2>5 DEF IsValue
    <3> QED BY <3>1, <3>2, <2>2, <2>3, <1>3
  <2> QED BY <2>2, <2>4, <2>5
<1>5. ASSUME n >= Base PROVE P(n)
  <2> DEFINE q == n \div Base
             r == n % Base
  <2>1. q \in Nat /\ q < n /\ r \in 0 .. Base - 1 /\ n = (Base * q) + r
    BY <1>3, <1>5, DigitsCases
  <2>2. P(q)
    <3>1. q \notin T
      BY <1>2, <1>3, <2>1
    <3> QED BY <2>1, <3>1 DEF T
  <2>3. Digits[n] = << Base + r >> \o Digits[q]
    BY <1>3, <1>5, DigitsCases
  <2>4. Digits[q] \in Seq(Nat) /\ L(q) \in Nat
    <3>1. Digits[q] \in Seq(Nat)
      BY <2>1, DigitsShape
    <3> QED BY <3>1
  <2> HIDE DEF q, r
  <2>5. /\ L(n) = L(q) + 1
        /\ Digits[n][1] = Base + r
        /\ \A i \in 1 .. L(q) : Digits[n][i + 1] = Digits[q][i]
    BY <2>1, <2>3, <2>4
  <2>6. (Base + r) % Base = r
    BY <2>1, BitOff
  <2> SUFFICES ASSUME NEW k \in Nat, NEW buffer, Holds(n, k, buffer)
               PROVE  /\ \E w : IsValue(w, buffer, k + 1, k + L(n))
                      /\ \A w : IsValue(w, buffer, k + 1, k + L(n)) => w[k + 1] = n
    OBVIOUS
  <2> DEFINE f == k + L(n)
  <2>0. \A i \in 1 .. L(n) : buffer[k + i] = Digits[n][i]
    OBVIOUS
  <2>7. buffer[k + 1] = Base + r /\ f \in Nat /\ f >= k + 1 /\ f = (k + 1) + L(q)
    <3>1. L(q) \in Nat /\ L(n) = L(q) + 1
      BY <2>4, <2>5
    <3>2. f \in Nat /\ f >= k + 1 /\ f = (k + 1) + L(q)
      <4> HIDE DEF L
      <4> QED BY <3>1
    <3>3. 1 \in 1 .. L(n)
      <4> HIDE DEF L
      <4> QED BY <3>1
    <3>4. buffer[k + 1] = Digits[n][1]
      BY <2>0, <3>3
    <3> QED BY <3>2, <3>4, <2>5
  <2>8. Holds(q, k + 1, buffer)
    <3>1. TAKE i \in 1 .. L(q)
    <3>2. i + 1 \in 1 .. L(n) /\ k + (i + 1) = (k + 1) + i
      BY <2>4, <2>5
    <3> HIDE DEF L
    <3> QED BY <3>2, <2>5, <2>0
  <2>9. /\ \E w : IsValue(w, buffer, (k + 1) + 1, f)
        /\ \A w : IsValue(w, buffer, (k + 1) + 1, f) => w[(k + 1) + 1] = q
    <3>1. k + 1 \in Nat
      OBVIOUS
    <3> HIDE DEF f, L, Holds
    <3> QED BY <2>2, <2>7, <2>8, <3>1
  <2> HIDE DEF f, P, L, Holds
  <2>10. \E w : IsValue(w, buffer, k + 1, f)
    <3>1. PICK w : IsValue(w, buffer, (k + 1) + 1, f)
      BY <2>9
    <3>2. w[(k + 1) + 1] = q
      BY <2>9, <3>1
    <3> DEFINE v == [i \in k + 1 .. f + 1 |-> IF i = k + 1 THEN n ELSE w[i]]
    <3>3. ASSUME NEW i \in k + 1 .. f + 1
          PROVE  v[i] = IF i > f THEN 0 ELSE (buffer[i] % Base) + Base * v[i + 1]
      <4>1. CASE i = k + 1
        <5>1. v[i + 1] = q
          BY <4>1, <3>2, <2>7
        <5>2. v[i] = n /\ i <= f
          BY <4>1, <2>7
        <5>3. buffer[i] % Base = r
          BY <4>1, <2>7, <2>6
        <5>4. n = r + Base * v[i + 1]
          BY <5>1, <2>1
        <5>5. ~(i > f)
          BY <5>2, <4>1, <2>7
        <5> HIDE DEF v
        <5> QED BY <5>2, <5>3, <5>4, <5>5
      <4>2. CASE i # k + 1
        <5>1. i \in (k + 1) + 1 .. f + 1
          BY <4>2, <2>7
        <5>2. v[i] = w[i] /\ (i <= f => v[i + 1] = w[i + 1])
          BY <5>1, <4>2, <2>7
        <5>3. w[i] = IF i > f THEN 0 ELSE (buffer[i] % Base) + Base * w[i + 1]
          BY <5>1, <3>1 DEF IsValue
        <5> QED BY <5>1, <5>2, <5>3, <2>7
      <4> QED BY <4>1, <4>2
    <3>4. v = [i \in k + 1 .. f + 1 |-> v[i]]
      OBVIOUS
    <3> HIDE DEF v
    <3>5. IsValue(v, buffer, k + 1, f)
      BY <3>3, <3>4 DEF IsValue
    <3> QED BY <3>5
  <2>11. ASSUME NEW w, IsValue(w, buffer, k + 1, f) PROVE w[k + 1] = n
    <3> DEFINE v == [i \in (k + 1) + 1 .. f + 1 |-> w[i]]
    <3>1. IsValue(v, buffer, (k + 1) + 1, f)
      BY <2>11, <2>7 DEF IsValue
    <3>2. v[(k + 1) + 1] = q
      <4> HIDE DEF v
      <4> QED BY <3>1, <2>9
    <3>3. w[(k + 1) + 1] = q
      BY <3>2, <2>7
    <3>4. w[k + 1] = (buffer[k + 1] % Base) + Base * w[(k + 1) + 1]
      BY <2>11, <2>7 DEF IsValue
    <3> QED BY <3>3, <3>4, <2>1, <2>6, <2>7
  <2> QED BY <2>10, <2>11 DEF f
<1> QED
  <2> HIDE DEF P
  <2> QED BY <1>0, <1>3, <1>4, <1>5

-----------------------------------------------------------------------------
(* The remaining length of a packet, and the packet as it goes over the wire. *)
Remaining(p) == Digits[Len(Variable(p)) + p.data]
Enc(p)       == << p.head >> \o Remaining(p) \o Variable(p) \o Content(p.data)
Size(p)      == 1 + Len(Remaining(p)) + Len(Variable(p)) + p.data

(* What the theorems assume of the constants.  The length has at most the    *)
(* four digits that fini_message and the protocol have room for; the ids are  *)
(* any two bytes but two zeros.                                              *)
Framable ==
    /\ Base \in 3 .. 128
    /\ Ids \subseteq (0 .. 255) \X (0 .. 255) /\ NoId \notin Ids
    /\ \A p \in Packets : Len(Remaining(p)) <= 4

(* The four kinds of packets.                                                *)
LEMMA PacketKinds ==
    ASSUME Framable, NEW p \in Packets
    PROVE  /\ p.head \in {48, 50, 64, 208} /\ p.topic \in Nat /\ p.data \in Nat
           /\ p.id \in Nat \X Nat /\ p.id = << p.id[1], p.id[2] >>
           /\ IsPublish(p.head) <=> p.head \in {48, 50}
           /\ p.head \in {48, 50} => p.topic \in 1 .. 2 * Base - 1
           /\ p.head \in {64, 208} => p.topic = 0 /\ p.data = 0
           /\ p.head \in {48, 208} <=> p.id = NoId
           /\ p.head \in {50, 64} <=> p.id \in Ids
           /\ p = [head |-> p.head, topic |-> p.topic, id |-> p.id, data |-> p.data]
<1>1. NoId \notin Ids /\ NoId = << 0, 0 >> /\ Base \in Nat
  BY DEF Framable, NoId
<1>2. \A s \in Sizes : s[1] \in 1 .. 2 * Base - 1 /\ s[2] \in Nat
  BY WireAssumption, <1>1
<1>3. \A i \in Ids : i \in Nat \X Nat /\ i = << i[1], i[2] >>
  <2>1. TAKE i \in Ids
  <2>2. i \in (0 .. 255) \X (0 .. 255)
    BY DEF Framable
  <2> QED BY <2>2
<1>4. IsPublish(48) /\ IsPublish(50) /\ ~IsPublish(64) /\ ~IsPublish(208)
  BY DEF IsPublish, Type
<1>5. CASE \E s \in Sizes : p = [head |-> PublishQos0, topic |-> s[1], id |-> NoId, data |-> s[2]]
  BY <1>1, <1>2, <1>4, <1>5 DEF PublishQos0
<1>6. CASE \E s \in Sizes, i \in Ids :
             p = [head |-> PublishQos1, topic |-> s[1], id |-> i, data |-> s[2]]
  BY <1>1, <1>2, <1>3, <1>4, <1>6 DEF PublishQos1
<1>7. CASE p \in [head : {Puback}, topic : {0}, id : Ids, data : {0}]
  BY <1>1, <1>3, <1>4, <1>7 DEF Puback
<1>8. CASE p \in [head : {Pingresp}, topic : {0}, id : {NoId}, data : {0}]
  BY <1>1, <1>4, <1>8 DEF Pingresp
<1> QED BY <1>5, <1>6, <1>7, <1>8 DEF Packets

(* Two sequences in a row.                                                   *)
LEMMA InARow ==
    ASSUME NEW a \in Seq(Nat), NEW b \in Seq(Nat)
    PROVE  /\ a \o b \in Seq(Nat) /\ Len(a \o b) = Len(a) + Len(b)
           /\ Len(a) \in Nat /\ Len(b) \in Nat
           /\ \A i \in 1 .. Len(a) : (a \o b)[i] = a[i]
           /\ \A i \in Len(a) + 1 .. Len(a) + Len(b) : (a \o b)[i] = b[i - Len(a)]
  OBVIOUS

(* A piece of a sequence.                                                    *)
LEMMA Piece ==
    ASSUME NEW a \in Seq(Nat), NEW m \in Nat, NEW n \in Nat, m <= n, n <= Len(a)
    PROVE  /\ SubSeq(a, m + 1, n) \in Seq(Nat) /\ Len(SubSeq(a, m + 1, n)) = n - m
           /\ \A i \in 1 .. n - m : SubSeq(a, m + 1, n)[i] = a[m + i]
<1>1. \A i \in m + 1 .. n : a[i] \in Nat
  OBVIOUS
<1> QED BY <1>1

(* The payload.                                                              *)
LEMMA ContentShape ==
    ASSUME Framable, NEW n \in Nat
    PROVE  /\ Content(n) \in Seq(Nat) /\ Len(Content(n)) = n
           /\ \A i \in 1 .. n : Content(n)[i] = i % (2 * Base)
<1>1. 2 * Base \in Nat \ {0}
  BY DEF Framable
<1>2. \A i \in 1 .. n : i % (2 * Base) \in Nat
  BY <1>1
<1>3. Content(n) \in [1 .. n -> Nat]
  BY <1>2 DEF Content
<1> QED BY <1>3 DEF Content

(* The topic and the id.                                                     *)
LEMMA VariableShape ==
    ASSUME Framable, NEW p \in Packets
    PROVE  /\ Variable(p) \in Seq(Nat)
           /\ p.head \in {48, 50} =>
                /\ Len(Variable(p)) = 2 + p.topic + (IF p.head = 50 THEN 2 ELSE 0)
                /\ Variable(p)[1] = 0 /\ Variable(p)[2] = p.topic
                /\ \A i \in 3 .. 2 + p.topic : Variable(p)[i] = 1
           /\ p.head = 50 => /\ Variable(p)[3 + p.topic] = p.id[1]
                             /\ Variable(p)[4 + p.topic] = p.id[2]
           /\ p.head = 64 => /\ Len(Variable(p)) = 2
                             /\ Variable(p)[1] = p.id[1] /\ Variable(p)[2] = p.id[2]
           /\ p.head = 208 => Len(Variable(p)) = 0
<1>1. /\ p.head \in {48, 50, 64, 208} /\ p.topic \in Nat /\ p.id \in Nat \X Nat
      /\ p.id = << p.id[1], p.id[2] >>
      /\ IsPublish(p.head) <=> p.head \in {48, 50}
      /\ p.head \in {48, 208} <=> p.id = NoId
  BY PacketKinds
<1> DEFINE ones == [k \in 1 .. p.topic |-> 1]
           topic == << 0, p.topic >> \o ones
           id == << p.id[1], p.id[2] >>
<1>2. ones \in Seq(Nat) /\ Len(ones) = p.topic /\ \A i \in 1 .. p.topic : ones[i] = 1
  <2>1. ones \in [1 .. p.topic -> Nat]
    OBVIOUS
  <2> QED BY <1>1, <2>1
<1>3. /\ topic \in Seq(Nat) /\ Len(topic) = 2 + p.topic
      /\ topic[1] = 0 /\ topic[2] = p.topic
      /\ \A i \in 3 .. 2 + p.topic : topic[i] = 1
  <2> HIDE DEF ones
  <2> DEFINE t == << 0, p.topic >>
  <2>1. t \in Seq(Nat) /\ Len(t) = 2 /\ t[1] = 0 /\ t[2] = p.topic
    BY <1>1
  <2> HIDE DEF t
  <2> DEFINE to == t \o ones
  <2>2. /\ to \in Seq(Nat) /\ Len(to) = 2 + p.topic
        /\ to[1] = 0 /\ to[2] = p.topic
        /\ \A i \in 3 .. 2 + p.topic : to[i] = ones[i - 2]
    <3>1. /\ to \in Seq(Nat) /\ Len(to) = Len(t) + Len(ones)
          /\ \A i \in 1 .. Len(t) : to[i] = t[i]
          /\ \A i \in Len(t) + 1 .. Len(t) + Len(ones) : to[i] = ones[i - Len(t)]
      BY <1>2, <2>1, InARow
    <3> HIDE DEF to
    <3> QED BY <3>1, <1>1, <1>2, <2>1
  <2>3. \A i \in 3 .. 2 + p.topic : ones[i - 2] = 1
    BY <1>1, <1>2
  <2> HIDE DEF to
  <2>4. topic = to
    BY DEF t, to
  <2> QED BY <2>2, <2>3, <2>4
<1>4. id \in Seq(Nat) /\ Len(id) = 2 /\ id[1] = p.id[1] /\ id[2] = p.id[2]
  BY <1>1
<1>5. CASE p.head = 48
  <2>1. Variable(p) = topic \o << >>
    BY <1>1, <1>5 DEF Variable
  <2> HIDE DEF topic
  <2>2. Variable(p) = topic
    BY <1>3, <2>1
  <2> QED BY <1>3, <1>5, <2>2
<1>6. CASE p.head = 50
  <2>1. Variable(p) = topic \o p.id
    <3>1. IsPublish(p.head) /\ p.id # NoId
      BY <1>1, <1>6
    <3> QED BY <3>1 DEF Variable
  <2>2. p.id = id
    BY <1>1
  <2>5. Variable(p) = topic \o id
    BY <2>1, <2>2
  <2> HIDE DEF topic, id
  <2> DEFINE v == topic \o id
  <2>3. 2 + p.topic \in Nat
    BY <1>1
  <2>10. /\ v \in Seq(Nat) /\ Len(v) = (2 + p.topic) + 2
         /\ \A i \in 1 .. 2 + p.topic : v[i] = topic[i]
         /\ \A i \in (2 + p.topic) + 1 .. (2 + p.topic) + 2 : v[i] = id[i - (2 + p.topic)]
    <3>1. topic \in Seq(Nat) /\ id \in Seq(Nat)
      BY <1>3, <1>4
    <3>2. /\ v \in Seq(Nat) /\ Len(v) = Len(topic) + Len(id)
          /\ \A i \in 1 .. Len(topic) : v[i] = topic[i]
          /\ \A i \in Len(topic) + 1 .. Len(topic) + Len(id) : v[i] = id[i - Len(topic)]
      BY <3>1, InARow
    <3> HIDE DEF v
    <3> QED BY <3>2, <1>3, <1>4
  <2> HIDE DEF v
  <2>4. /\ v \in Seq(Nat) /\ Len(v) = 4 + p.topic
        /\ \A i \in 1 .. 2 + p.topic : v[i] = topic[i]
        /\ \A i \in 3 + p.topic .. 4 + p.topic : v[i] = id[i - (2 + p.topic)]
    <3>1. (2 + p.topic) + 1 = 3 + p.topic /\ (2 + p.topic) + 2 = 4 + p.topic
      BY <1>1
    <3> QED BY <3>1, <2>10
  <2>6. v[3 + p.topic] = id[1] /\ v[4 + p.topic] = id[2]
    <3>1. /\ 3 + p.topic \in 3 + p.topic .. 4 + p.topic
          /\ 4 + p.topic \in 3 + p.topic .. 4 + p.topic
          /\ (3 + p.topic) - (2 + p.topic) = 1 /\ (4 + p.topic) - (2 + p.topic) = 2
      BY <1>1
    <3> QED BY <3>1, <2>4
  <2>7. v[1] = 0 /\ v[2] = p.topic
    <3>1. 1 \in 1 .. 2 + p.topic /\ 2 \in 1 .. 2 + p.topic
      BY <1>1
    <3> QED BY <3>1, <1>3, <2>4
  <2>8. \A i \in 3 .. 2 + p.topic : v[i] = 1
    <3>1. TAKE i \in 3 .. 2 + p.topic
    <3>2. i \in 1 .. 2 + p.topic
      BY <1>1
    <3> QED BY <3>2, <1>3, <2>4
  <2>9. Variable(p) = v
    BY <2>5 DEF v
  <2>11. Len(Variable(p)) = 2 + p.topic + (IF p.head = 50 THEN 2 ELSE 0)
    BY <1>1, <1>6, <2>4, <2>9
  <2> QED BY <1>4, <1>6, <2>4, <2>6, <2>7, <2>8, <2>9, <2>11
<1>7. CASE p.head = 64
  <2>1. Variable(p) = << >> \o p.id
    <3>1. ~IsPublish(p.head) /\ p.id # NoId
      BY <1>1, <1>7
    <3> QED BY <3>1 DEF Variable
  <2>2. Variable(p) = id
    BY <1>1, <1>4, <2>1
  <2> QED BY <1>4, <1>7, <2>2
<1>8. CASE p.head = 208
  <2>1. Variable(p) = << >> \o << >>
    BY <1>1, <1>8 DEF Variable
  <2>2. Variable(p) = << >>
    BY <2>1
  <2> QED BY <1>8, <2>2
<1> QED BY <1>1, <1>5, <1>6, <1>7, <1>8

(* The parts of a packet, where they lie.                                    *)
LEMMA EncShape ==
    ASSUME Framable, NEW p \in Packets
    PROVE  /\ Enc(p) \in Seq(Nat) /\ Len(Enc(p)) = Size(p) /\ Size(p) \in Nat
           /\ Remaining(p) \in Seq(Nat)
           /\ Len(Remaining(p)) \in Nat /\ Len(Remaining(p)) >= 1 /\ Len(Remaining(p)) <= 4
           /\ Len(Variable(p)) \in Nat
           /\ Size(p) = 1 + Len(Remaining(p)) + Len(Variable(p)) + p.data
           /\ Enc(p)[1] = p.head
           /\ \A i \in 2 .. 1 + Len(Remaining(p)) :
                /\ Enc(p)[i] = Remaining(p)[i - 1]
                /\ More(Enc(p)[i]) <=> i < 1 + Len(Remaining(p))
           /\ \A i \in 2 + Len(Remaining(p)) .. 1 + Len(Remaining(p)) + Len(Variable(p)) :
                Enc(p)[i] = Variable(p)[i - (1 + Len(Remaining(p)))]
           /\ \A i \in 2 + Len(Remaining(p)) + Len(Variable(p)) .. Size(p) :
                Enc(p)[i] = Content(p.data)[i - (1 + Len(Remaining(p)) + Len(Variable(p)))]
<1> DEFINE d == Remaining(p)
           v == Variable(p)
           c == Content(p.data)
<1>1. Base \in Nat /\ Base >= 2 /\ p.head \in Nat /\ p.data \in Nat
  <2>1. Base \in Nat /\ Base >= 2
    BY DEF Framable
  <2>2. p.head \in {48, 50, 64, 208} /\ p.data \in Nat
    BY PacketKinds
  <2> QED BY <2>1, <2>2
<1>2. v \in Seq(Nat) /\ Len(v) \in Nat
  <2>1. v \in Seq(Nat)
    BY VariableShape
  <2> QED BY <2>1
<1>3. /\ d \in Seq(Nat) /\ Len(d) \in Nat /\ Len(d) >= 1 /\ Len(d) <= 4
      /\ \A i \in 1 .. Len(d) : More(d[i]) <=> i < Len(d)
  <2>1. Len(v) + p.data \in Nat /\ d = Digits[Len(v) + p.data]
    BY <1>1, <1>2 DEF Remaining
  <2>2. Len(d) <= 4
    BY DEF Framable
  <2> HIDE DEF d, v
  <2>3. /\ d \in Seq(Nat) /\ Len(d) >= 1
        /\ \A i \in 1 .. Len(d) : More(d[i]) <=> i < Len(d)
    BY <1>1, <2>1, DigitsShape
  <2>4. Len(d) \in Nat
    BY <2>3
  <2> QED BY <2>2, <2>3, <2>4
<1>4. c \in Seq(Nat) /\ Len(c) = p.data
  BY <1>1, ContentShape
<1> HIDE DEF d, v, c
<1> DEFINE h == << p.head >>
           hd == h \o d
           hdv == hd \o v
           e == hdv \o c
<1>5. Enc(p) = e /\ Size(p) = 1 + Len(d) + Len(v) + p.data
  BY DEF Enc, Size, d, v, c
<1>6. h \in Seq(Nat) /\ Len(h) = 1 /\ h[1] = p.head
  BY <1>1
<1> HIDE DEF h
<1>7. /\ hd \in Seq(Nat) /\ Len(hd) = 1 + Len(d)
      /\ hd[1] = p.head
      /\ \A i \in 2 .. 1 + Len(d) : hd[i] = d[i - 1]
  <2>1. /\ hd \in Seq(Nat) /\ Len(hd) = Len(h) + Len(d)
        /\ \A i \in 1 .. Len(h) : hd[i] = h[i]
        /\ \A i \in Len(h) + 1 .. Len(h) + Len(d) : hd[i] = d[i - Len(h)]
    BY <1>3, <1>6, InARow
  <2> HIDE DEF hd
  <2> QED BY <2>1, <1>3, <1>6
<1> HIDE DEF hd
<1>8. /\ hdv \in Seq(Nat) /\ Len(hdv) = 1 + Len(d) + Len(v)
      /\ \A i \in 1 .. 1 + Len(d) : hdv[i] = hd[i]
      /\ \A i \in 2 + Len(d) .. 1 + Len(d) + Len(v) : hdv[i] = v[i - (1 + Len(d))]
  <2>1. /\ hdv \in Seq(Nat) /\ Len(hdv) = Len(hd) + Len(v)
        /\ \A i \in 1 .. Len(hd) : hdv[i] = hd[i]
        /\ \A i \in Len(hd) + 1 .. Len(hd) + Len(v) : hdv[i] = v[i - Len(hd)]
    BY <1>2, <1>7, InARow
  <2> HIDE DEF hdv
  <2> QED BY <2>1, <1>2, <1>3, <1>7
<1> HIDE DEF hdv
<1>9. /\ e \in Seq(Nat) /\ Len(e) = 1 + Len(d) + Len(v) + p.data
      /\ \A i \in 1 .. 1 + Len(d) + Len(v) : e[i] = hdv[i]
      /\ \A i \in 2 + Len(d) + Len(v) .. 1 + Len(d) + Len(v) + p.data :
            e[i] = c[i - (1 + Len(d) + Len(v))]
  <2>1. /\ e \in Seq(Nat) /\ Len(e) = Len(hdv) + Len(c)
        /\ \A i \in 1 .. Len(hdv) : e[i] = hdv[i]
        /\ \A i \in Len(hdv) + 1 .. Len(hdv) + Len(c) : e[i] = c[i - Len(hdv)]
    BY <1>4, <1>8, InARow
  <2> HIDE DEF e
  <2> QED BY <2>1, <1>1, <1>2, <1>3, <1>4, <1>8
<1> HIDE DEF e
<1>10. e[1] = p.head
  BY <1>2, <1>3, <1>7, <1>8, <1>9
<1>11. \A i \in 2 .. 1 + Len(d) : e[i] = d[i - 1] /\ (More(e[i]) <=> i < 1 + Len(d))
  <2>1. TAKE i \in 2 .. 1 + Len(d)
  <2>4. i \in 1 .. 1 + Len(d) /\ i \in 1 .. 1 + Len(d) + Len(v)
    BY <1>2, <1>3
  <2>2. e[i] = d[i - 1]
    BY <2>4, <1>7, <1>8, <1>9
  <2>3. i - 1 \in 1 .. Len(d) /\ (i - 1 < Len(d) <=> i < 1 + Len(d))
    BY <1>3
  <2> QED BY <1>3, <2>2, <2>3
<1>12. \A i \in 2 + Len(d) .. 1 + Len(d) + Len(v) : e[i] = v[i - (1 + Len(d))]
  <2>1. TAKE i \in 2 + Len(d) .. 1 + Len(d) + Len(v)
  <2>2. i \in 1 .. 1 + Len(d) + Len(v)
    BY <1>2, <1>3
  <2> QED BY <2>2, <1>8, <1>9
<1> QED BY <1>1, <1>2, <1>3, <1>5, <1>9, <1>10, <1>11, <1>12 DEF d, v, c

(* Sequences are equal when they have the same length and the same members,  *)
(* and it does not matter in which order they are put together.              *)
LEMMA SameSequence ==
    ASSUME NEW a \in Seq(Nat), NEW b \in Seq(Nat), Len(a) = Len(b),
           \A i \in 1 .. Len(a) : a[i] = b[i]
    PROVE  a = b
<1>1. a = [i \in 1 .. Len(a) |-> a[i]]
  OBVIOUS
<1>2. b = [i \in 1 .. Len(b) |-> b[i]]
  OBVIOUS
<1> QED BY <1>1, <1>2

(* Three sequences in a row, either way.                                    *)
LEMMA Regroup ==
    ASSUME NEW a \in Seq(Nat), NEW b \in Seq(Nat), NEW c \in Seq(Nat)
    PROVE  (a \o b) \o c = a \o (b \o c)
<1> DEFINE ab == a \o b
           bc == b \o c
           l  == ab \o c
           r  == a \o bc
<1>1. /\ ab \in Seq(Nat) /\ Len(ab) = Len(a) + Len(b)
      /\ Len(a) \in Nat /\ Len(b) \in Nat
      /\ \A i \in 1 .. Len(a) : ab[i] = a[i]
      /\ \A i \in Len(a) + 1 .. Len(a) + Len(b) : ab[i] = b[i - Len(a)]
  BY InARow
<1>2. /\ bc \in Seq(Nat) /\ Len(bc) = Len(b) + Len(c) /\ Len(c) \in Nat
      /\ \A i \in 1 .. Len(b) : bc[i] = b[i]
      /\ \A i \in Len(b) + 1 .. Len(b) + Len(c) : bc[i] = c[i - Len(b)]
  BY InARow
<1> HIDE DEF ab, bc
<1>3. /\ l \in Seq(Nat) /\ Len(l) = Len(ab) + Len(c)
      /\ \A i \in 1 .. Len(ab) : l[i] = ab[i]
      /\ \A i \in Len(ab) + 1 .. Len(ab) + Len(c) : l[i] = c[i - Len(ab)]
  BY <1>1, InARow
<1>4. /\ r \in Seq(Nat) /\ Len(r) = Len(a) + Len(bc)
      /\ \A i \in 1 .. Len(a) : r[i] = a[i]
      /\ \A i \in Len(a) + 1 .. Len(a) + Len(bc) : r[i] = bc[i - Len(a)]
  BY <1>2, InARow
<1> HIDE DEF l, r
<1>5. Len(l) = Len(r)
  BY <1>1, <1>2, <1>3, <1>4
<1>6. ASSUME NEW i \in 1 .. Len(l) PROVE l[i] = r[i]
  <2>0. i \in Nat /\ 1 <= i /\ i <= (Len(a) + Len(b)) + Len(c)
    BY <1>1, <1>2, <1>3
  <2>1. CASE i <= Len(a)
    <3>1. i \in 1 .. Len(a) /\ i \in 1 .. Len(ab)
      BY <2>0, <2>1, <1>1
    <3> QED BY <3>1, <1>1, <1>3, <1>4
  <2>2. CASE i > Len(a) /\ i <= Len(a) + Len(b)
    <3>1. /\ i \in Len(a) + 1 .. Len(a) + Len(b) /\ i \in 1 .. Len(ab)
          /\ i \in Len(a) + 1 .. Len(a) + Len(bc) /\ i - Len(a) \in 1 .. Len(b)
      <4> DEFINE la  == Len(a)
                 lb  == Len(b)
                 lc  == Len(c)
                 lab == Len(ab)
                 lbc == Len(bc)
      <4>1. /\ la \in Nat /\ lb \in Nat /\ lc \in Nat /\ lab = la + lb /\ lbc = lb + lc
            /\ i \in Nat /\ 1 <= i /\ i > la /\ i <= la + lb
        BY <2>0, <2>2, <1>1, <1>2
      <4> HIDE DEF la, lb, lc, lab, lbc
      <4>2. i \in la + 1 .. la + lb /\ i \in 1 .. lab
        BY <4>1
      <4>3. i \in la + 1 .. la + lbc /\ i - la \in 1 .. lb
        BY <4>1
      <4> QED BY <4>2, <4>3 DEF la, lb, lab, lbc
    <3> QED BY <3>1, <1>1, <1>2, <1>3, <1>4
  <2>3. CASE i > Len(a) + Len(b)
    <3>1. /\ i \in Len(ab) + 1 .. Len(ab) + Len(c)
          /\ i \in Len(a) + 1 .. Len(a) + Len(bc)
          /\ i - Len(a) \in Len(b) + 1 .. Len(b) + Len(c)
          /\ (i - Len(a)) - Len(b) = i - Len(ab)
      BY <2>0, <2>3, <1>1, <1>2
    <3> QED BY <3>1, <1>2, <1>3, <1>4
  <2> QED BY <2>0, <2>1, <2>2, <2>3, <1>1, <1>2
<1>7. l = r
  BY <1>3, <1>4, <1>5, <1>6, SameSequence
<1> QED BY <1>7 DEF l, r, ab, bc

-----------------------------------------------------------------------------
(* The two pieces of a publication.                                          *)

(* A packet is what fini_message makes of its parts.                         *)
LEMMA WholePacket ==
    ASSUME Framable, NEW p \in Packets
    PROVE  Enc(p) = << p.head >> \o Remaining(p) \o (Variable(p) \o Content(p.data))
<1>1. << p.head >> \o Remaining(p) \in Seq(Nat)
  <2>1. << p.head >> \in Seq(Nat)
    BY PacketKinds
  <2>2. Remaining(p) \in Seq(Nat)
    BY EncShape
  <2> QED BY <2>1, <2>2, InARow
<1>2. Variable(p) \in Seq(Nat)
  BY VariableShape
<1>3. Content(p.data) \in Seq(Nat)
  BY PacketKinds, ContentShape
<1> QED BY <1>1, <1>2, <1>3, Regroup DEF Enc

(* What fits the buffer is one piece: all of the packet.                     *)
LEMMA OnePiece ==
    ASSUME Framable, NEW p \in Packets, ~Fragmented(p)
    PROVE  FirstPiece(p) = Enc(p)
<1> DEFINE body == Variable(p) \o Content(p.data)
<1>1. FirstBody(p) = body /\ Whole(p) = 0
  BY DEF FirstBody, Whole
<1>2. Len(body) = Len(Variable(p)) + p.data
  <2>1. Variable(p) \in Seq(Nat) /\ Content(p.data) \in Seq(Nat) /\ Len(Content(p.data)) = p.data
    BY VariableShape, PacketKinds, ContentShape
  <2>2. Len(body) = Len(Variable(p)) + Len(Content(p.data))
    BY <2>1, InARow
  <2> HIDE DEF body
  <2> QED BY <2>1, <2>2
<1> HIDE DEF body
<1>3. FirstPiece(p) = << p.head >> \o Digits[Len(body)] \o body
  BY <1>1 DEF FirstPiece, Finished
<1>4. Digits[Len(body)] = Remaining(p)
  BY <1>2 DEF Remaining
<1> QED BY <1>3, <1>4, WholePacket DEF body

(* What does not is two: the first tells the length of the whole and takes    *)
(* what there is room for, and the second has the rest of the data.          *)
LEMMA TwoPieces ==
    ASSUME Framable, NEW p \in Packets, Fits(p), Fragmented(p)
    PROVE  FirstPiece(p) \o Rest(p) = Enc(p)
<1> DEFINE v == Variable(p)
           d == Remaining(p)
           h == << p.head >>
           room == OutLength - Position(p)
           first == Content(room)
           rest == Rest(p)
           all == Content(p.data)
           front == h \o d
<1>1. /\ OutLength \in Nat /\ p.data \in Nat /\ p.head \in Nat /\ Base \in Nat
      /\ v \in Seq(Nat) /\ Len(v) \in Nat
  <2>1. OutLength \in Nat /\ Base \in Nat
    BY WireAssumption
  <2>2. p.data \in Nat /\ p.head \in {48, 50, 64, 208}
    BY PacketKinds
  <2>3. v \in Seq(Nat)
    BY VariableShape
  <2> QED BY <2>1, <2>2, <2>3
<1>2. Position(p) = 5 + Len(v)
  BY DEF Position, MaxHeader
<1>3. room \in Nat /\ room < p.data
  BY <1>1, <1>2 DEF Fits, Fragmented
<1>4. /\ first \in Seq(Nat) /\ Len(first) = room
      /\ \A i \in 1 .. room : first[i] = i % (2 * Base)
      /\ all \in Seq(Nat) /\ Len(all) = p.data
      /\ \A i \in 1 .. p.data : all[i] = i % (2 * Base)
  BY <1>1, <1>3, ContentShape
<1>5. d \in Seq(Nat) /\ Len(d) \in Nat /\ h \in Seq(Nat) /\ Len(h) = 1
  <2>1. d \in Seq(Nat)
    BY EncShape
  <2> QED BY <1>1, <2>1
<1>6. front \in Seq(Nat) /\ Len(front) = 1 + Len(d)
  <2>1. front \in Seq(Nat) /\ Len(front) = Len(h) + Len(d)
    <3>1. h \in Seq(Nat) /\ d \in Seq(Nat)
      BY <1>5
    <3> HIDE DEF h, d
    <3> QED BY <3>1, InARow
  <2> HIDE DEF front
  <2> QED BY <2>1, <1>5
<1> HIDE DEF v, d, h, room, first, rest, all, front
<1> DEFINE body == v \o first
           piece == front \o body
<1>7. body \in Seq(Nat) /\ Len(body) = Len(v) + room
  BY <1>1, <1>4, InARow
<1> HIDE DEF body
<1>8. piece \in Seq(Nat) /\ Len(piece) = Len(front) + Len(body)
  BY <1>6, <1>7, InARow
<1> HIDE DEF piece
<1>9. FirstPiece(p) = piece /\ FirstBody(p) = body
  <2>1. FirstBody(p) = body
    BY DEF FirstBody, body, v, first, room
  <2>2. Whole(p) = Position(p) + p.data /\ Whole(p) # 0
    BY <1>1, <1>2 DEF Whole
  <2>3. Whole(p) - MaxHeader = Len(v) + p.data
    BY <1>1, <1>2, <2>2 DEF MaxHeader
  <2>4. FirstPiece(p) = << p.head >> \o Digits[Len(v) + p.data] \o body
    BY <2>1, <2>2, <2>3 DEF FirstPiece, Finished
  <2>5. Digits[Len(v) + p.data] = d
    BY DEF d, v, Remaining
  <2> QED BY <2>1, <2>4, <2>5 DEF piece, front, h
<1>10. Len(FirstPiece(p)) - OffsetAfter(p) = room
  <2>1. Start(FirstPiece(p), FirstBody(p)) = 4 - Len(d)
    <3>1. Start(FirstPiece(p), FirstBody(p)) = 5 - (Len(piece) - Len(body))
      BY <1>9 DEF Start, MaxHeader
    <3>2. Len(piece) - Len(body) = 1 + Len(d)
      BY <1>1, <1>3, <1>5, <1>6, <1>7, <1>8
    <3>3. Len(d) \in Nat /\ 5 - (1 + Len(d)) = 4 - Len(d)
      BY <1>5
    <3> QED BY <3>1, <3>2, <3>3
  <2>2. OffsetAfter(p) = (5 + Len(v)) - (4 - Len(d))
    BY <1>1, <1>2, <1>5, <2>1 DEF OffsetAfter
  <2> QED BY <1>1, <1>3, <1>5, <1>6, <1>7, <1>8, <1>9, <2>2
<1>11. rest = [k \in 1 .. p.data - room |-> all[room + k]]
  <2>1. rest = [k \in 1 .. p.data - room |-> IF room + k > 0 THEN all[room + k] ELSE 0]
    BY <1>10 DEF rest, Rest, all
  <2>2. \A k \in 1 .. p.data - room : room + k > 0
    BY <1>1, <1>3
  <2> QED BY <2>1, <2>2
<1>12. /\ rest \in Seq(Nat) /\ Len(rest) = p.data - room
       /\ \A k \in 1 .. p.data - room : rest[k] = all[room + k]
  <2>1. p.data - room \in Nat
    BY <1>1, <1>3
  <2>2. \A k \in 1 .. p.data - room : all[room + k] \in Nat
    BY <1>1, <1>3, <1>4
  <2>3. rest \in [1 .. p.data - room -> Nat]
    BY <1>11, <2>2
  <2>4. rest \in Seq(Nat) /\ Len(rest) = p.data - room
    BY <2>1, <2>3
  <2> QED BY <1>11, <2>4
<1> DEFINE both == first \o rest
<1>13. both = all
  <2>1. /\ both \in Seq(Nat) /\ Len(both) = Len(first) + Len(rest)
        /\ \A i \in 1 .. Len(first) : both[i] = first[i]
        /\ \A i \in Len(first) + 1 .. Len(first) + Len(rest) : both[i] = rest[i - Len(first)]
    BY <1>4, <1>12, InARow
  <2> HIDE DEF both
  <2>2. Len(both) = p.data
    BY <2>1, <1>1, <1>3, <1>4, <1>12
  <2>3. ASSUME NEW i \in 1 .. p.data PROVE both[i] = all[i]
    <3>1. CASE i <= room
      <4>1. i \in 1 .. room
        BY <3>1, <1>3
      <4>2. both[i] = first[i]
        BY <4>1, <2>1, <1>4
      <4>3. first[i] = i % (2 * Base) /\ all[i] = i % (2 * Base)
        BY <4>1, <1>4
      <4> QED BY <4>2, <4>3
    <3>2. CASE i > room
      <4>1. i - room \in 1 .. p.data - room /\ room + (i - room) = i
        BY <3>2, <1>1, <1>3
      <4>2. both[i] = rest[i - room]
        BY <3>2, <2>1, <1>1, <1>3, <1>4, <1>12
      <4> QED BY <4>1, <4>2, <1>12
    <3> QED BY <3>1, <3>2, <1>1, <1>3
  <2> QED BY <2>1, <2>2, <2>3, <1>4, SameSequence
<1>14. piece \o rest = front \o (v \o all)
  <2>1. piece \o rest = front \o (body \o rest)
    BY <1>6, <1>7, <1>12, Regroup DEF piece
  <2>2. body \o rest = v \o both
    BY <1>1, <1>4, <1>12, Regroup DEF body
  <2> HIDE DEF both
  <2> QED BY <2>1, <2>2, <1>13
<1> QED BY <1>9, <1>14, WholePacket DEF rest, front, v, d, h, all

(* esp_mqtt_client_publish with the fields clear writes the packet.          *)
LEMMA PublishedWhole ==
    ASSUME Framable, NEW p \in Packets, Fits(p), Fragmented(p) \/ offset = 0
    PROVE  FirstPiece(p) \o Rest(p) = Enc(p)
<1>1. CASE Fragmented(p)
  BY <1>1, TwoPieces
<1>2. CASE ~Fragmented(p)
  <2> DEFINE body == Variable(p) \o Content(p.data)
             v == Variable(p)
             d == Remaining(p)
  <2>1. FirstPiece(p) = Enc(p)
    BY <1>2, OnePiece
  <2>2. /\ Len(Enc(p)) = 1 + Len(d) + Len(v) + p.data
        /\ Len(d) \in Nat /\ Len(d) <= 4 /\ Len(v) \in Nat
        /\ Enc(p) \in Seq(Nat)
    BY EncShape
  <2>3. p.data \in Nat
    BY PacketKinds
  <2>4. FirstBody(p) = body
    BY <1>2 DEF FirstBody
  <2>5. Len(body) = Len(v) + p.data
    <3>1. v \in Seq(Nat) /\ Content(p.data) \in Seq(Nat) /\ Len(Content(p.data)) = p.data
      BY VariableShape, <2>3, ContentShape
    <3>2. Len(body) = Len(v) + Len(Content(p.data))
      BY <3>1, InARow
    <3> HIDE DEF body, v
    <3> QED BY <3>1, <3>2
  <2> HIDE DEF body, v, d
  <2>6. Start(FirstPiece(p), FirstBody(p)) = 4 - Len(d)
    BY <2>1, <2>2, <2>3, <2>4, <2>5 DEF Start, MaxHeader
  <2>7. OffsetAfter(p) = 0
    BY <1>2, <2>2, <2>6 DEF OffsetAfter
  <2>8. Len(FirstPiece(p)) - OffsetAfter(p) = Len(Enc(p))
    BY <2>1, <2>2, <2>3, <2>7
  <2>9. 1 .. p.data - Len(Enc(p)) = {}
    BY <2>2, <2>3
  <2>10. Rest(p) = << >>
    BY <2>8, <2>9 DEF Rest
  <2> QED BY <2>1, <2>2, <2>10
<1> QED BY <1>1, <1>2

(* esp_mqtt_client_enqueue writes it whatever the fields are.                 *)
LEMMA EnqueuedWhole ==
    ASSUME Framable, NEW p \in Packets, Fits(p)
    PROVE  FirstPiece(p) \o (IF Fragmented(p) THEN Rest(p) ELSE << >>) = Enc(p)
<1>1. CASE Fragmented(p)
  BY <1>1, TwoPieces
<1>2. CASE ~Fragmented(p)
  <2>1. Enc(p) \in Seq(Nat)
    BY EncShape
  <2> QED BY <1>2, <2>1, OnePiece
<1> QED BY <1>1, <1>2

(* The packets without data.                                                 *)
LEMMA ControlWhole ==
    ASSUME Framable, NEW p \in Packets, ~IsPublish(p.head)
    PROVE  Finished(p, Variable(p), 0) = Enc(p)
<1>1. p.data = 0
  BY PacketKinds
<1>2. Variable(p) \in Seq(Nat)
  BY VariableShape
<1>3. Content(0) = << >>
  BY DEF Content
<1>4. Variable(p) \o Content(p.data) = Variable(p)
  BY <1>1, <1>2, <1>3
<1>5. Len(Variable(p)) + p.data = Len(Variable(p))
  BY <1>1, <1>2
<1> QED BY <1>4, <1>5, WholePacket DEF Finished, Remaining

-----------------------------------------------------------------------------
(* Taking a packet apart.  The buffer holds the beginning of packet p.        *)
Begins(buffer, p) ==
    /\ buffer \in Seq(Nat) /\ Len(buffer) <= Size(p)
    /\ \A i \in 1 .. Len(buffer) : buffer[i] = Enc(p)[i]

Events == [head : Nat, topic : Nat, id : Nat \X Nat, data : Seq(Nat)]

(* Once the fixed header is complete, it tells its own length, the first byte *)
(* and the length of the packet.                                             *)
LEMMA ParsedLength ==
    ASSUME Framable, NEW p \in Packets, NEW buffer, Begins(buffer, p),
           Len(buffer) > Len(Remaining(p))
    PROVE  /\ FixedLength(buffer) = 1 + Len(Remaining(p))
           /\ TotalLength(buffer) = Size(p)
           /\ buffer[1] = p.head
<1> DEFINE d == Len(Remaining(p))
           n == Len(Variable(p)) + p.data
           ends == {i \in 2 .. Len(buffer) : ~More(buffer[i])}
<1>1. /\ d \in Nat /\ d >= 1 /\ Enc(p)[1] = p.head
      /\ Size(p) = 1 + d + Len(Variable(p)) + p.data /\ Len(Variable(p)) \in Nat
      /\ \A i \in 2 .. 1 + d : /\ Enc(p)[i] = Remaining(p)[i - 1]
                               /\ More(Enc(p)[i]) <=> i < 1 + d
  BY EncShape
<1>2. /\ buffer \in Seq(Nat) /\ Len(buffer) \in Nat /\ Len(buffer) >= 1 + d
      /\ \A i \in 1 .. Len(buffer) : buffer[i] = Enc(p)[i]
  <2>1. buffer \in Seq(Nat) /\ \A i \in 1 .. Len(buffer) : buffer[i] = Enc(p)[i]
    BY DEF Begins
  <2>2. Len(buffer) \in Nat
    BY <2>1
  <2> QED BY <2>1, <2>2, <1>1
<1> HIDE DEF d
<1>3. \A i \in 2 .. 1 + d : More(buffer[i]) <=> i < 1 + d
  <2>1. TAKE i \in 2 .. 1 + d
  <2>2. i \in 1 .. Len(buffer)
    BY <1>1, <1>2
  <2>3. buffer[i] = Enc(p)[i]
    BY <2>2, <1>2
  <2> QED BY <2>3, <1>1
<1>4. FixedLength(buffer) = 1 + d
  <2>1. 1 + d \in ends
    BY <1>1, <1>2, <1>3
  <2>2. \A j \in ends : 1 + d <= j
    <3>1. SUFFICES ASSUME NEW j \in ends, j < 1 + d PROVE FALSE
      BY <1>1, <1>2
    <3>2. j \in 2 .. 1 + d
      BY <3>1, <1>1, <1>2
    <3> QED BY <3>1, <3>2, <1>3
  <2>3. \A i \in ends : (\A j \in ends : i <= j) => i = 1 + d
    BY <2>1, <2>2, <1>1, <1>2
  <2>4. FixedLength(buffer) = CHOOSE i \in ends : \A j \in ends : i <= j
    BY <2>1 DEF FixedLength
  <2> HIDE DEF ends
  <2> QED BY <2>1, <2>2, <2>3, <2>4
<1>5. n \in Nat /\ Base \in Nat /\ Base >= 2
  <2>1. p.data \in Nat
    BY PacketKinds
  <2>2. Base \in Nat /\ Base >= 2
    BY DEF Framable
  <2> QED BY <2>1, <2>2, <1>1
<1>6. TotalLength(buffer) = (1 + d) + n
  <2> DEFINE w == CHOOSE w : IsValue(w, buffer, 2, 1 + d)
  <2>1. Len(Digits[n]) = d /\ Remaining(p) = Digits[n]
    BY DEF d, Remaining
  <2>2. \A i \in 1 .. Len(Digits[n]) : buffer[1 + i] = Digits[n][i]
    <3>1. TAKE i \in 1 .. Len(Digits[n])
    <3>2. 1 + i \in 2 .. 1 + d /\ 1 + i \in 1 .. Len(buffer) /\ (1 + i) - 1 = i
      BY <2>1, <1>1, <1>2
    <3> QED BY <3>2, <2>1, <1>1, <1>2
  <2>3. 1 \in Nat
    OBVIOUS
  <2> HIDE DEF n
  <2>4. /\ \E v : IsValue(v, buffer, 1 + 1, 1 + Len(Digits[n]))
        /\ \A v : IsValue(v, buffer, 1 + 1, 1 + Len(Digits[n])) => v[1 + 1] = n
    BY <2>2, <2>3, <1>5, ValueOfDigits
  <2>5. 1 + 1 = 2
    OBVIOUS
  <2>6. /\ \E v : IsValue(v, buffer, 2, 1 + d)
        /\ \A v : IsValue(v, buffer, 2, 1 + d) => v[2] = n
    BY <2>1, <2>4, <2>5
  <2>7. IsValue(w, buffer, 2, 1 + d)
    BY <2>6
  <2>8. TotalLength(buffer) = FixedLength(buffer) +
          (CHOOSE v : v = [i \in 2 .. FixedLength(buffer) + 1 |->
             IF i > FixedLength(buffer) THEN 0
             ELSE (buffer[i] % Base) + Base * v[i + 1]])[2]
    BY DEF TotalLength
  <2>9. w = CHOOSE v : v = [i \in 2 .. (1 + d) + 1 |->
             IF i > 1 + d THEN 0 ELSE (buffer[i] % Base) + Base * v[i + 1]]
    BY DEF IsValue
  <2>10. TotalLength(buffer) = (1 + d) + w[2]
    <3> HIDE DEF w
    <3> QED BY <2>8, <2>9, <1>4
  <2> HIDE DEF w
  <2> QED BY <2>6, <2>7, <2>10
<1>7. Size(p) = (1 + d) + n
  <2>1. p.data \in Nat
    BY PacketKinds
  <2> QED BY <1>1, <2>1
<1>8. buffer[1] = p.head
  BY <1>1, <1>2
<1> QED BY <1>4, <1>6, <1>7, <1>8 DEF d

(* Where the parts of a publication lie.                                     *)
LEMMA PublishShape ==
    ASSUME Framable, NEW p \in Packets, IsPublish(p.head),
           NEW h, h = 1 + Len(Remaining(p))
    PROVE  /\ h \in Nat /\ p.topic \in Nat /\ p.topic >= 1 /\ p.data \in Nat
           /\ p.head \in {48, 50}
           /\ Enc(p)[h + 1] = 0 /\ Enc(p)[h + 2] = p.topic
           /\ HeaderLength(p) = h + 2 + p.topic + (IF p.head = 50 THEN 2 ELSE 0)
           /\ Size(p) = HeaderLength(p) + p.data
           /\ p.head = 50 => /\ Enc(p)[h + p.topic + 3] = p.id[1]
                             /\ Enc(p)[h + p.topic + 4] = p.id[2]
           /\ \A i \in HeaderLength(p) + 1 .. Size(p) :
                Enc(p)[i] = Content(p.data)[i - HeaderLength(p)]
<1> DEFINE lv == Len(Variable(p))
<1>1. p.head \in {48, 50} /\ p.topic \in 1 .. 2 * Base - 1 /\ p.data \in Nat /\ Base \in Nat
  <2>1. Base \in Nat
    BY DEF Framable
  <2> QED BY <2>1, PacketKinds
<1>2. /\ lv = 2 + p.topic + (IF p.head = 50 THEN 2 ELSE 0)
      /\ Variable(p)[1] = 0 /\ Variable(p)[2] = p.topic
      /\ p.head = 50 => /\ Variable(p)[3 + p.topic] = p.id[1]
                        /\ Variable(p)[4 + p.topic] = p.id[2]
  BY <1>1, VariableShape
<1>3. /\ h \in Nat /\ lv \in Nat
      /\ Size(p) = h + lv + p.data
      /\ \A i \in h + 1 .. h + lv : Enc(p)[i] = Variable(p)[i - h]
      /\ \A i \in h + lv + 1 .. Size(p) : Enc(p)[i] = Content(p.data)[i - (h + lv)]
  <2>1. /\ Len(Remaining(p)) \in Nat /\ lv \in Nat
        /\ Size(p) = 1 + Len(Remaining(p)) + lv + p.data
        /\ \A i \in 2 + Len(Remaining(p)) .. 1 + Len(Remaining(p)) + lv :
              Enc(p)[i] = Variable(p)[i - (1 + Len(Remaining(p)))]
        /\ \A i \in 2 + Len(Remaining(p)) + lv .. Size(p) :
              Enc(p)[i] = Content(p.data)[i - (1 + Len(Remaining(p)) + lv)]
    BY EncShape
  <2> HIDE DEF lv
  <2>2. 2 + Len(Remaining(p)) = h + 1 /\ 2 + Len(Remaining(p)) + lv = h + lv + 1
    BY <2>1
  <2> QED BY <2>1, <2>2
<1>4. HeaderLength(p) = h + lv
  BY DEF HeaderLength, Remaining
<1> HIDE DEF lv
<1>5. p.topic \in Nat /\ p.topic >= 1
  BY <1>1
<1>10. lv = 2 + p.topic + (IF p.head = 50 THEN 2 ELSE 0) /\ h \in Nat
  BY <1>2, <1>3
<1>6. HeaderLength(p) = h + 2 + p.topic + (IF p.head = 50 THEN 2 ELSE 0)
  <2>1. CASE p.head = 50
    BY <2>1, <1>4, <1>5, <1>10
  <2>2. CASE p.head # 50
    BY <2>2, <1>4, <1>5, <1>10
  <2> QED BY <2>1, <2>2
<1>7. Enc(p)[h + 1] = 0 /\ Enc(p)[h + 2] = p.topic
  <2>1. /\ h + 1 \in h + 1 .. h + lv /\ h + 2 \in h + 1 .. h + lv
        /\ (h + 1) - h = 1 /\ (h + 2) - h = 2
    BY <1>2, <1>3, <1>5
  <2> QED BY <2>1, <1>2, <1>3
<1>8. ASSUME p.head = 50
      PROVE  Enc(p)[h + p.topic + 3] = p.id[1] /\ Enc(p)[h + p.topic + 4] = p.id[2]
  <2>1. lv = 4 + p.topic
    BY <1>2, <1>5, <1>8
  <2>2. /\ h + p.topic + 3 \in h + 1 .. h + lv /\ h + p.topic + 4 \in h + 1 .. h + lv
        /\ (h + p.topic + 3) - h = 3 + p.topic /\ (h + p.topic + 4) - h = 4 + p.topic
    BY <2>1, <1>5, <1>10
  <2>3. /\ Enc(p)[h + p.topic + 3] = Variable(p)[3 + p.topic]
        /\ Enc(p)[h + p.topic + 4] = Variable(p)[4 + p.topic]
    BY <2>2, <1>3
  <2> QED BY <2>3, <1>2, <1>8
<1>9. Size(p) = HeaderLength(p) + p.data
  BY <1>3, <1>4
<1> QED BY <1>1, <1>3, <1>4, <1>5, <1>6, <1>7, <1>8, <1>9

(* Its topic, once two bytes more are there.                                 *)
LEMMA ParsedTopic ==
    ASSUME Framable, NEW p \in Packets, IsPublish(p.head), NEW buffer, Begins(buffer, p),
           Len(buffer) >= 3 + Len(Remaining(p))
    PROVE  TopicLength(buffer) = p.topic
<1> DEFINE h == 1 + Len(Remaining(p))
<1>1. h \in Nat /\ Enc(p)[h + 1] = 0 /\ Enc(p)[h + 2] = p.topic /\ p.topic \in Nat
  BY PublishShape
<1>2. buffer \in Seq(Nat) /\ \A i \in 1 .. Len(buffer) : buffer[i] = Enc(p)[i]
  BY DEF Begins
<1>3. Len(buffer) \in Nat /\ Len(buffer) >= h + 2
  <2>1. Len(buffer) \in Nat /\ Len(Remaining(p)) \in Nat
    BY <1>2, EncShape
  <2> QED BY <2>1
<1>4. FixedLength(buffer) = h
  <2>1. Len(buffer) > Len(Remaining(p))
    <3>1. Len(Remaining(p)) \in Nat
      BY EncShape
    <3> QED BY <3>1, <1>3
  <2> QED BY <2>1, ParsedLength
<1> HIDE DEF h
<1>5. h + 1 \in 1 .. Len(buffer) /\ h + 2 \in 1 .. Len(buffer)
  BY <1>1, <1>3
<1>6. buffer[h + 1] = 0 /\ buffer[h + 2] = p.topic
  BY <1>1, <1>2, <1>5
<1>7. h + 1 \in DOMAIN buffer /\ h + 2 \in DOMAIN buffer
  BY <1>2, <1>5
<1>8. At(buffer, h + 1) = 0 /\ At(buffer, h + 2) = p.topic
  BY <1>6, <1>7 DEF At
<1> QED BY <1>1, <1>4, <1>8 DEF TopicLength

(* deliver_publish, when the buffer holds the topic and the id: it passes on  *)
(* as much of the data as is there.                                          *)
LEMMA ParsedPublish ==
    ASSUME Framable, NEW p \in Packets, IsPublish(p.head), Begins(in, p),
           Len(in) >= HeaderLength(p)
    PROVE  /\ HasTopic(in)
           /\ Event = [Meant(p) EXCEPT !.data = Content(Len(in) - HeaderLength(p))]
<1> DEFINE h == 1 + Len(Remaining(p))
           hl == HeaderLength(p)
           id == IF p.head = 50 THEN 2 ELSE 0
<1>1. /\ h \in Nat /\ p.topic \in Nat /\ p.topic >= 1 /\ p.data \in Nat
      /\ p.head \in {48, 50}
      /\ hl = h + 2 + p.topic + id
      /\ Size(p) = hl + p.data
      /\ p.head = 50 => /\ Enc(p)[h + p.topic + 3] = p.id[1]
                        /\ Enc(p)[h + p.topic + 4] = p.id[2]
      /\ \A i \in hl + 1 .. Size(p) : Enc(p)[i] = Content(p.data)[i - hl]
  BY PublishShape
<1>2. in \in Seq(Nat) /\ Len(in) <= Size(p) /\ \A i \in 1 .. Len(in) : in[i] = Enc(p)[i]
  BY DEF Begins
<1>3. Len(in) \in Nat
  BY <1>2
<1>15. id \in Nat /\ (p.head = 50 => id = 2) /\ (p.head = 48 => id = 0)
  OBVIOUS
<1> HIDE DEF hl, id
<1>4. /\ h \in Nat /\ p.topic \in Nat /\ p.topic >= 1 /\ p.data \in Nat /\ id \in Nat
      /\ hl \in Nat /\ hl = h + 2 + p.topic + id /\ Len(in) \in Nat
      /\ Len(in) >= hl /\ Size(p) = hl + p.data /\ Len(in) <= Size(p)
  <2>1. /\ h \in Nat /\ p.topic \in Nat /\ p.topic >= 1 /\ p.data \in Nat
        /\ hl = h + 2 + p.topic + id /\ Size(p) = hl + p.data
    BY <1>1
  <2>2. hl \in Nat
    BY <2>1, <1>15
  <2>3. Len(in) >= hl
    BY DEF hl
  <2> QED BY <2>1, <2>2, <2>3, <1>2, <1>3, <1>15
<1>5. Len(in) > Len(Remaining(p)) /\ Len(in) >= 3 + Len(Remaining(p))
  <2>1. Len(Remaining(p)) \in Nat /\ h = 1 + Len(Remaining(p))
    BY EncShape
  <2> HIDE DEF h
  <2>2. Len(in) >= h + 2
    BY <1>4
  <2> QED BY <2>1, <2>2, <1>4
<1>6. FixedLength(in) = h /\ TotalLength(in) = Size(p) /\ in[1] = p.head
  BY <1>5, ParsedLength
<1>7. TopicLength(in) = p.topic
  BY <1>5, ParsedTopic
<1> HIDE DEF h
<1>8. HasTopic(in)
  BY <1>4, <1>6, <1>7 DEF HasTopic
<1>9. (p.head = 50 => Qos(p.head) = 1) /\ (p.head = 48 => Qos(p.head) = 0)
  BY DEF Qos
<1>10. GetId(in, TotalLength(in)) = p.id
  <2> DEFINE i == h + 2 + p.topic
  <2>1. GetId(in, Size(p)) = IF Qos(p.head) > 0 /\ i + 2 <= Size(p)
                             THEN << At(in, i + 1), At(in, i + 2) >> ELSE NoId
    BY <1>6, <1>7 DEF GetId
  <2>2. CASE p.head = 48
    <3>1. p.id = NoId
      BY <2>2, PacketKinds
    <3> QED BY <2>1, <2>2, <3>1, <1>6, <1>9
  <2>3. CASE p.head = 50
    <3>1. i + 2 <= Size(p)
      BY <2>3, <1>4, <1>15
    <3>2. i + 1 \in 1 .. Len(in) /\ i + 2 \in 1 .. Len(in)
      BY <2>3, <1>4, <1>15
    <3>3. i + 1 \in DOMAIN in /\ i + 2 \in DOMAIN in
      BY <3>2, <1>2
    <3>4. i + 1 = h + p.topic + 3 /\ i + 2 = h + p.topic + 4
      BY <1>1
    <3> HIDE DEF i
    <3>5. At(in, i + 1) = p.id[1] /\ At(in, i + 2) = p.id[2]
      BY <2>3, <3>2, <3>3, <3>4, <1>1, <1>2 DEF At
    <3>6. p.id = << p.id[1], p.id[2] >>
      BY PacketKinds
    <3> QED BY <2>1, <2>3, <3>1, <3>5, <3>6, <1>6, <1>9
  <2> QED BY <2>2, <2>3, <1>1
<1>11. GetData(in) = Content(Len(in) - hl)
  <2> DEFINE s == SubSeq(in, hl + 1, Len(in))
             c == Content(Len(in) - hl)
  <2>1. h + 2 + p.topic + (IF Qos(p.head) > 0 THEN 2 ELSE 0) = hl
    <3>1. (IF Qos(p.head) > 0 THEN 2 ELSE 0) = id
      BY <1>1, <1>9, <1>15
    <3> QED BY <3>1, <1>4
  <2>2. IF Size(p) < Len(in) THEN FALSE ELSE TRUE
    BY <1>4
  <2>3. GetData(in) = s
    BY <1>6, <1>7, <2>1, <2>2 DEF GetData
  <2>4. Len(in) - hl \in Nat
    BY <1>4
  <2>5. /\ s \in Seq(Nat) /\ Len(s) = Len(in) - hl
        /\ \A i \in 1 .. Len(in) - hl : s[i] = in[hl + i]
    <3>1. in \in Seq(Nat) /\ hl \in Nat /\ Len(in) \in Nat /\ hl <= Len(in)
      BY <1>2, <1>4
    <3> HIDE DEF h
    <3> QED BY <3>1, Piece
  <2>6. /\ c \in Seq(Nat) /\ Len(c) = Len(in) - hl
        /\ \A i \in 1 .. Len(in) - hl : c[i] = i % (2 * Base)
    BY <2>4, ContentShape
  <2>7. \A i \in 1 .. p.data : Content(p.data)[i] = i % (2 * Base)
    BY <1>1, ContentShape
  <2> HIDE DEF s, c
  <2>8. ASSUME NEW i \in 1 .. Len(in) - hl PROVE s[i] = c[i]
    <3>1. /\ hl + i \in 1 .. Len(in) /\ hl + i \in hl + 1 .. Size(p)
          /\ (hl + i) - hl = i /\ i \in 1 .. p.data
      <4> DEFINE n == Len(in)
                 t == p.data
      <4>1. i \in Nat /\ i >= 1 /\ i <= n - hl
        BY <2>4
      <4>2. n \in Nat /\ hl \in Nat /\ t \in Nat /\ n <= hl + t /\ Size(p) = hl + t
        BY <1>4
      <4> HIDE DEF n, t
      <4>3. hl + i \in 1 .. n /\ i \in 1 .. t /\ (hl + i) - hl = i
        BY <4>1, <4>2
      <4>4. hl + i \in hl + 1 .. Size(p)
        BY <4>1, <4>2
      <4> QED BY <4>3, <4>4 DEF n, t
    <3>2. Enc(p)[hl + i] = Content(p.data)[i]
      BY <3>1, <1>1
    <3>3. in[hl + i] = Content(p.data)[i]
      BY <3>1, <3>2, <1>2
    <3> QED BY <3>1, <3>3, <2>5, <2>6, <2>7
  <2>9. s = c
    BY <2>5, <2>6, <2>8, SameSequence
  <2> QED BY <2>3, <2>9 DEF c
<1>12. Event = [head |-> p.head, topic |-> p.topic, id |-> p.id, data |-> Content(Len(in) - hl)]
  BY <1>6, <1>7, <1>10, <1>11 DEF Event
<1>13. p = [head |-> p.head, topic |-> p.topic, id |-> p.id, data |-> p.data]
  BY PacketKinds
<1>14. [Meant(p) EXCEPT !.data = Content(Len(in) - hl)]
       = [head |-> p.head, topic |-> p.topic, id |-> p.id, data |-> Content(Len(in) - hl)]
  <2>1. Meant(p) = [head |-> p.head, topic |-> p.topic, id |-> p.id, data |-> Content(p.data)]
    BY <1>13 DEF Meant
  <2> QED BY <2>1
<1> QED BY <1>8, <1>12, <1>14 DEF hl

(* mqtt_process_receive on an acknowledgement or a ping response.            *)
LEMMA ParsedControl ==
    ASSUME Framable, NEW p \in Packets, ~IsPublish(p.head), Begins(in, p),
           Len(in) = Size(p)
    PROVE  Event = Meant(p)
<1>1. /\ p.head \in {64, 208} /\ p.topic = 0 /\ p.data = 0
      /\ p.id = << p.id[1], p.id[2] >>
      /\ p.head = 208 => p.id = NoId
      /\ p = [head |-> p.head, topic |-> p.topic, id |-> p.id, data |-> p.data]
  BY PacketKinds
<1>2. in \in Seq(Nat) /\ \A i \in 1 .. Len(in) : in[i] = Enc(p)[i]
  BY DEF Begins
<1>3. Len(in) \in Nat /\ Len(in) > Len(Remaining(p))
  <2>1. /\ Len(Remaining(p)) \in Nat /\ Len(Variable(p)) \in Nat
        /\ Size(p) = 1 + Len(Remaining(p)) + Len(Variable(p)) + p.data
    BY EncShape
  <2> QED BY <2>1, <1>1
<1>4. TotalLength(in) = Size(p) /\ in[1] = p.head
  BY <1>3, ParsedLength
<1>5. GetId(in, Size(p)) = p.id
  <2>1. GetId(in, Size(p)) =
          IF Size(p) >= 4 /\ ~More(in[2]) /\ p.head # 208
          THEN << At(in, 3), At(in, 4) >> ELSE NoId
    BY <1>4 DEF GetId, Pingresp
  <2>2. CASE p.head = 208
    BY <2>1, <2>2, <1>1
  <2>3. CASE p.head = 64
    <3>1. /\ Len(Variable(p)) = 2
          /\ Variable(p)[1] = p.id[1] /\ Variable(p)[2] = p.id[2]
      BY <2>3, VariableShape
    <3>2. Base \in Nat /\ Base >= 3
      BY DEF Framable
    <3>3. Len(Remaining(p)) = 1 /\ Remaining(p)[1] = 2
      <4>1. Remaining(p) = Digits[2]
        BY <3>1, <1>1 DEF Remaining
      <4>2. Digits[2] = << 2 >>
        <5>1. Base >= 2 /\ 2 \in Nat /\ 2 < Base
          BY <3>2
        <5> QED BY <5>1, <3>2, DigitsCases
      <4> QED BY <4>1, <4>2
    <3>4. Size(p) = 4
      <4>1. Size(p) = 1 + Len(Remaining(p)) + Len(Variable(p)) + p.data
        BY DEF Size
      <4> QED BY <4>1, <3>1, <3>3, <1>1
    <3>5. Enc(p)[2] = 2 /\ Enc(p)[3] = p.id[1] /\ Enc(p)[4] = p.id[2]
      <4>1. /\ \A i \in 2 .. 1 + Len(Remaining(p)) : Enc(p)[i] = Remaining(p)[i - 1]
            /\ \A i \in 2 + Len(Remaining(p)) .. 1 + Len(Remaining(p)) + Len(Variable(p)) :
                  Enc(p)[i] = Variable(p)[i - (1 + Len(Remaining(p)))]
        BY EncShape
      <4>2. /\ \A i \in 2 .. 1 + 1 : Enc(p)[i] = Remaining(p)[i - 1]
            /\ \A i \in 2 + 1 .. 1 + 1 + 2 : Enc(p)[i] = Variable(p)[i - (1 + 1)]
        BY <4>1, <3>1, <3>3
      <4>3. Enc(p)[2] = Remaining(p)[1] /\ Enc(p)[3] = Variable(p)[1] /\ Enc(p)[4] = Variable(p)[2]
        BY <4>2
      <4> QED BY <4>3, <3>1, <3>3
    <3>6. in[2] = 2 /\ in[3] = p.id[1] /\ in[4] = p.id[2]
      <4>1. 2 \in 1 .. Len(in) /\ 3 \in 1 .. Len(in) /\ 4 \in 1 .. Len(in)
        BY <3>4
      <4> QED BY <4>1, <3>5, <1>2
    <3>7. At(in, 3) = p.id[1] /\ At(in, 4) = p.id[2]
      <4>1. 3 \in DOMAIN in /\ 4 \in DOMAIN in
        BY <3>4, <1>2
      <4> QED BY <4>1, <3>6 DEF At
    <3>8. ~More(in[2])
      BY <3>2, <3>6 DEF More
    <3> QED BY <2>1, <2>3, <3>4, <3>7, <3>8, <1>1
  <2> QED BY <2>2, <2>3, <1>1
<1>6. Event = [head |-> p.head, topic |-> 0, id |-> p.id, data |-> << >>]
  BY <1>4, <1>5 DEF Event
<1>7. Meant(p) = [head |-> p.head, topic |-> 0, id |-> p.id, data |-> << >>]
  BY <1>1 DEF Meant
<1> QED BY <1>6, <1>7

(* Whatever is in the buffer, what is passed on has the first byte of the    *)
(* packet, and its parts are made of bytes.                                  *)
LEMMA EventTyped ==
    ASSUME Framable, NEW p \in Packets, Begins(in, p), Len(in) > Len(Remaining(p))
    PROVE  Event \in Events /\ Event.head = p.head
<1>1. in \in Seq(Nat) /\ Len(in) \in Nat /\ DOMAIN in = 1 .. Len(in)
  BY DEF Begins
<1>2. FixedLength(in) = 1 + Len(Remaining(p)) /\ TotalLength(in) = Size(p) /\ in[1] = p.head
  BY ParsedLength
<1>3. FixedLength(in) \in Nat /\ p.head \in Nat /\ Size(p) \in Nat
  <2>1. Len(Remaining(p)) \in Nat /\ Size(p) \in Nat
    BY EncShape
  <2>2. p.head \in Nat
    BY PacketKinds
  <2> QED BY <2>1, <2>2, <1>2
<1>4. \A i : At(in, i) \in Nat
  BY <1>1 DEF At
<1>5. TopicLength(in) \in Nat
  BY <1>4 DEF TopicLength
<1>6. GetId(in, TotalLength(in)) \in Nat \X Nat
  BY <1>4 DEF GetId, NoId
<1>7. GetData(in) \in Seq(Nat)
  <2>1. PICK i \in Nat, m \in Nat : GetData(in) = SubSeq(in, i + 1, m) /\ m <= Len(in)
    <3> DEFINE i == FixedLength(in) + 2 + TopicLength(in) + (IF Qos(in[1]) > 0 THEN 2 ELSE 0)
               m == IF TotalLength(in) < Len(in) THEN TotalLength(in) ELSE Len(in)
    <3>1. GetData(in) = SubSeq(in, i + 1, m)
      BY DEF GetData
    <3>2. i \in Nat
      BY <1>3, <1>5
    <3>3. m \in Nat /\ m <= Len(in)
      BY <1>1, <1>2, <1>3
    <3> HIDE DEF i, m
    <3> QED BY <3>1, <3>2, <3>3
  <2>2. \A k \in i + 1 .. m : in[k] \in Nat
    BY <1>1, <2>1
  <2> QED BY <2>1, <2>2, <1>1
<1> QED BY <1>2, <1>3, <1>5, <1>6, <1>7 DEF Event, Events

-----------------------------------------------------------------------------
(* The stream.  The bytes s are those of the packets q after the first m of   *)
(* them, but for the first g bytes; packet k ends at end[k].                  *)
CarriesTo(s, q, m, g, end) ==
    /\ end \in [m .. Len(q) -> Int]
    /\ end[m] = 0 - g
    /\ end[Len(q)] = Len(s)
    /\ \A k \in m + 1 .. Len(q) :
        /\ end[k] = end[k - 1] + Size(q[k])
        /\ end[k] <= Len(s)
        /\ \A i \in 1 .. Size(q[k]) :
            end[k - 1] + i >= 1 => s[end[k - 1] + i] = Enc(q[k])[i]

Carries(s, q, m, g) == m <= Len(q) /\ \E end : CarriesTo(s, q, m, g, end)

(* What has not been read of the current packet lies in front.               *)
LEMMA CarriesFront ==
    ASSUME Framable, NEW s \in Seq(Nat), NEW q \in Seq(Packets), NEW m \in Nat, NEW g \in Nat,
           m < Len(q), Carries(s, q, m, g)
    PROVE  /\ Size(q[m + 1]) <= g + Len(s)
           /\ \A i \in 1 .. Len(s) : g + i <= Size(q[m + 1]) => s[i] = Enc(q[m + 1])[g + i]
<1>1. PICK end : CarriesTo(s, q, m, g, end)
  BY DEF Carries
<1>2. Len(q) \in Nat /\ Len(s) \in Nat /\ q[m + 1] \in Packets
  OBVIOUS
<1>3. Size(q[m + 1]) \in Nat
  BY <1>2, EncShape
<1>4. m + 1 \in m + 1 .. Len(q) /\ (m + 1) - 1 = m
  BY <1>2
<1> DEFINE z == Size(q[m + 1])
           e == Enc(q[m + 1])
<1>5. /\ end[m + 1] = end[m] + z
      /\ end[m + 1] <= Len(s)
      /\ \A i \in 1 .. z : end[m] + i >= 1 => s[end[m] + i] = e[i]
  BY <1>1, <1>4 DEF CarriesTo
<1>6. end[m] = 0 - g
  BY <1>1 DEF CarriesTo
<1> HIDE DEF z, e
<1>7. z <= g + Len(s)
  BY <1>2, <1>3, <1>5, <1>6 DEF z
<1>8. ASSUME NEW i \in 1 .. Len(s), g + i <= z PROVE s[i] = e[g + i]
  <2>1. g + i \in 1 .. z /\ end[m] + (g + i) = i /\ i >= 1
    BY <1>2, <1>3, <1>6, <1>8 DEF z
  <2> QED BY <2>1, <1>5
<1> QED BY <1>7, <1>8 DEF z, e

(* Reading takes bytes from the front.                                       *)
LEMMA CarriesRead ==
    ASSUME Framable, NEW s \in Seq(Nat), NEW q \in Seq(Packets), NEW m \in Nat, NEW g \in Nat,
           m < Len(q), Carries(s, q, m, g),
           NEW n \in Nat, n <= Len(s), g + n <= Size(q[m + 1])
    PROVE  Carries(SubSeq(s, n + 1, Len(s)), q, m, g + n)
<1>1. PICK end : CarriesTo(s, q, m, g, end)
  BY DEF Carries
<1> DEFINE t == SubSeq(s, n + 1, Len(s))
           to == [k \in m .. Len(q) |-> end[k] - n]
<1>2. Len(q) \in Nat /\ Len(s) \in Nat
  OBVIOUS
<1>3. /\ t \in Seq(Nat) /\ Len(t) = Len(s) - n
      /\ \A i \in 1 .. Len(s) - n : t[i] = s[n + i]
  BY <1>2, Piece
<1>4. /\ end \in [m .. Len(q) -> Int] /\ end[m] = 0 - g /\ end[Len(q)] = Len(s)
      /\ \A k \in m + 1 .. Len(q) :
          /\ end[k] = end[k - 1] + Size(q[k])
          /\ end[k] <= Len(s)
          /\ \A i \in 1 .. Size(q[k]) :
              end[k - 1] + i >= 1 => s[end[k - 1] + i] = Enc(q[k])[i]
  BY <1>1 DEF CarriesTo
<1>5. m \in m .. Len(q) /\ Len(q) \in m .. Len(q)
  BY <1>2
<1>6. to \in [m .. Len(q) -> Int] /\ \A k \in m .. Len(q) : to[k] = end[k] - n /\ end[k] \in Int
  BY <1>4
<1> HIDE DEF t, to
<1>7. to[m] = 0 - (g + n) /\ to[Len(q)] = Len(t)
  <2>1. /\ to[m] = end[m] - n /\ to[Len(q)] = end[Len(q)] - n
        /\ end[m] = 0 - g /\ end[Len(q)] = Len(s)
    BY <1>4, <1>5, <1>6
  <2>2. Len(t) = Len(s) - n
    BY <1>3
  <2>3. (0 - g) - n = 0 - (g + n)
    OBVIOUS
  <2> QED BY <2>1, <2>2, <2>3
<1>8. ASSUME NEW k \in m + 1 .. Len(q)
      PROVE  /\ to[k] = to[k - 1] + Size(q[k])
             /\ to[k] <= Len(t)
             /\ \A i \in 1 .. Size(q[k]) :
                  to[k - 1] + i >= 1 => t[to[k - 1] + i] = Enc(q[k])[i]
  <2>1. k \in m .. Len(q) /\ k - 1 \in m .. Len(q) /\ k \in 1 .. Len(q)
    BY <1>2
  <2>2. Size(q[k]) \in Nat
    <3>1. q[k] \in Packets
      BY <2>1
    <3> QED BY <3>1, EncShape
  <2> DEFINE z == Size(q[k])
             e == Enc(q[k])
  <2>3. /\ end[k] = end[k - 1] + z
        /\ end[k] <= Len(s)
        /\ \A i \in 1 .. z : end[k - 1] + i >= 1 => s[end[k - 1] + i] = e[i]
    BY <1>4
  <2>4. /\ to[k] = end[k] - n /\ to[k - 1] = end[k - 1] - n
        /\ end[k] \in Int /\ end[k - 1] \in Int
    BY <2>1, <1>6
  <2>5. z \in Nat
    BY <2>2
  <2> HIDE DEF z, e
  <2>8. end[k] = end[k - 1] + z /\ end[k] <= Len(s) /\ Len(t) = Len(s) - n
    BY <2>3, <1>3
  <2>6. to[k] = to[k - 1] + z /\ to[k] <= Len(t)
    <3>1. to[k] = to[k - 1] + z
      BY <2>8, <2>4, <2>5
    <3>2. to[k] <= Len(t)
      BY <2>8, <2>4, <1>2
    <3> QED BY <3>1, <3>2
  <2>7. ASSUME NEW i \in 1 .. z, to[k - 1] + i >= 1 PROVE t[to[k - 1] + i] = e[i]
    <3> DEFINE j == to[k - 1] + i
    <3>1. j \in 1 .. Len(s) - n /\ n + j = end[k - 1] + i /\ end[k - 1] + i >= 1
      <4>1. i \in Nat /\ i >= 1 /\ i <= z
        BY <2>5
      <4>2. j = (end[k - 1] - n) + i /\ j >= 1
        BY <2>4, <2>7
      <4> DEFINE a == end[k - 1]
                 b == Len(s)
      <4>3. a \in Int /\ b \in Nat /\ a + z <= b
        BY <2>4, <2>8, <1>2
      <4>4. j = (a - n) + i /\ j >= 1
        BY <4>2
      <4> HIDE DEF a, b, j
      <4>5. j \in 1 .. b - n /\ n + j = a + i /\ a + i >= 1
        BY <4>1, <4>3, <4>4, <2>5
      <4> QED BY <4>5 DEF a, b, j
    <3> HIDE DEF j
    <3>2. t[j] = s[end[k - 1] + i]
      BY <3>1, <1>3
    <3>3. s[end[k - 1] + i] = e[i]
      BY <3>1, <2>3
    <3> QED BY <3>2, <3>3 DEF j
  <2> QED BY <2>6, <2>7 DEF z, e
<1>9. CarriesTo(t, q, m, g + n, to)
  BY <1>6, <1>7, <1>8 DEF CarriesTo
<1>10. m <= Len(q)
  BY <1>2
<1> QED BY <1>9, <1>10 DEF Carries, t

(* A packet read to its end makes way for the next.                          *)
LEMMA CarriesNext ==
    ASSUME Framable, NEW s \in Seq(Nat), NEW q \in Seq(Packets), NEW m \in Nat, NEW g \in Nat,
           m < Len(q), Carries(s, q, m, g), g = Size(q[m + 1])
    PROVE  Carries(s, q, m + 1, 0)
<1>1. PICK end : CarriesTo(s, q, m, g, end)
  BY DEF Carries
<1>2. Len(q) \in Nat
  OBVIOUS
<1> DEFINE to == [k \in m + 1 .. Len(q) |-> end[k]]
<1>3. /\ end \in [m .. Len(q) -> Int] /\ end[m] = 0 - g /\ end[Len(q)] = Len(s)
      /\ \A k \in m + 1 .. Len(q) :
          /\ end[k] = end[k - 1] + Size(q[k])
          /\ end[k] <= Len(s)
          /\ \A i \in 1 .. Size(q[k]) :
              end[k - 1] + i >= 1 => s[end[k - 1] + i] = Enc(q[k])[i]
  BY <1>1 DEF CarriesTo
<1>4. m + 1 \in m + 1 .. Len(q) /\ Len(q) \in m + 1 .. Len(q) /\ (m + 1) - 1 = m
  BY <1>2
<1>5. end[m + 1] = 0
  <2>1. end[m + 1] = end[m] + Size(q[m + 1])
    BY <1>3, <1>4
  <2> QED BY <2>1, <1>3
<1>6. to[m + 1] = 0 - 0 /\ to[Len(q)] = Len(s)
  BY <1>3, <1>4, <1>5
<1>7. to \in [m + 1 .. Len(q) -> Int]
  <2>1. \A k \in m + 1 .. Len(q) : end[k] \in Int
    BY <1>2, <1>3
  <2> QED BY <2>1
<1>8. ASSUME NEW k \in (m + 1) + 1 .. Len(q)
      PROVE  to[k] = end[k] /\ to[k - 1] = end[k - 1] /\ k \in m + 1 .. Len(q)
  BY <1>2
<1> HIDE DEF to
<1>9. CarriesTo(s, q, m + 1, 0, to)
  BY <1>3, <1>6, <1>7, <1>8 DEF CarriesTo
<1>10. m + 1 <= Len(q)
  BY <1>2
<1> QED BY <1>9, <1>10 DEF Carries

(* Nothing is on the way once all packets are read, and nothing is read of   *)
(* one that is not on the way.                                               *)
LEMMA CarriesEmpty ==
    ASSUME NEW s \in Seq(Nat), NEW q \in Seq(Packets), NEW g \in Nat,
           Carries(s, q, Len(q), g)
    PROVE  s = << >> /\ g = 0
<1>1. PICK end : CarriesTo(s, q, Len(q), g, end)
  BY DEF Carries
<1>2. end[Len(q)] = 0 - g /\ end[Len(q)] = Len(s)
  BY <1>1 DEF CarriesTo
<1>3. Len(s) \in Nat
  OBVIOUS
<1>4. Len(s) = 0 /\ g = 0
  BY <1>2, <1>3
<1> QED BY <1>4

(* A packet is written behind the others.                                    *)
LEMMA CarriesMore ==
    ASSUME Framable, NEW s \in Seq(Nat), NEW q \in Seq(Packets), NEW m \in Nat, NEW g \in Nat,
           Carries(s, q, m, g), NEW p \in Packets
    PROVE  Carries(s \o Enc(p), Append(q, p), m, g)
<1>1. PICK end : CarriesTo(s, q, m, g, end)
  BY DEF Carries
<1>2. Len(q) \in Nat /\ Len(s) \in Nat /\ m <= Len(q)
  BY DEF Carries
<1> DEFINE x == Enc(p)
           n == Len(q)
           t == s \o x
           r == Append(q, p)
           to == [k \in m .. n + 1 |-> IF k = n + 1 THEN Len(s) + Size(p) ELSE end[k]]
<1>3. x \in Seq(Nat) /\ Len(x) = Size(p) /\ Size(p) \in Nat
  BY EncShape
<1> HIDE DEF x
<1>4. /\ t \in Seq(Nat) /\ Len(t) = Len(s) + Size(p)
      /\ \A i \in 1 .. Len(s) : t[i] = s[i]
      /\ \A i \in Len(s) + 1 .. Len(s) + Size(p) : t[i] = x[i - Len(s)]
  <2>1. /\ t \in Seq(Nat) /\ Len(t) = Len(s) + Len(x)
        /\ \A i \in 1 .. Len(s) : t[i] = s[i]
        /\ \A i \in Len(s) + 1 .. Len(s) + Len(x) : t[i] = x[i - Len(s)]
    BY <1>3, InARow
  <2> HIDE DEF t
  <2> QED BY <2>1, <1>3
<1>5. /\ Len(r) = n + 1 /\ r[n + 1] = p
      /\ \A k \in 1 .. n : r[k] = q[k]
  BY <1>2
<1>6. /\ end \in [m .. n -> Int] /\ end[m] = 0 - g /\ end[n] = Len(s)
      /\ \A k \in m + 1 .. n :
          /\ end[k] = end[k - 1] + Size(q[k])
          /\ end[k] <= Len(s)
          /\ \A i \in 1 .. Size(q[k]) :
              end[k - 1] + i >= 1 => s[end[k - 1] + i] = Enc(q[k])[i]
  BY <1>1 DEF CarriesTo
<1>7. n \in Nat /\ m <= n
  BY <1>2
<1> HIDE DEF n, t, r
<1>8. /\ \A k \in m .. n : to[k] = end[k] /\ end[k] \in Int
      /\ to[n + 1] = Len(s) + Size(p)
      /\ to \in [m .. n + 1 -> Int]
  <2>1. \A k \in m .. n : to[k] = end[k] /\ end[k] \in Int
    <3>1. TAKE k \in m .. n
    <3>2. k \in m .. n + 1 /\ k # n + 1
      BY <1>7
    <3> QED BY <3>2, <1>6
  <2>2. \A k \in m .. n + 1 : to[k] \in Int
    BY <1>2, <1>3, <1>6, <1>7
  <2> QED BY <2>1, <2>2, <1>7
<1> HIDE DEF to
<1>9. to[m] = 0 - g /\ to[n + 1] = Len(t)
  BY <1>4, <1>6, <1>7, <1>8
<1>10. ASSUME NEW k \in m + 1 .. n + 1
       PROVE  /\ to[k] = to[k - 1] + Size(r[k])
              /\ to[k] <= Len(t)
              /\ \A i \in 1 .. Size(r[k]) :
                   to[k - 1] + i >= 1 => t[to[k - 1] + i] = Enc(r[k])[i]
  <2>1. CASE k = n + 1
    <3>1. to[k - 1] = Len(s) /\ to[k] = Len(s) + Size(p) /\ r[k] = p
      <4>1. k - 1 = n /\ n \in m .. n
        BY <2>1, <1>7
      <4> QED BY <4>1, <2>1, <1>5, <1>6, <1>8
    <3>2. ASSUME NEW i \in 1 .. Size(p) PROVE t[Len(s) + i] = x[i]
      <4>1. Len(s) + i \in Len(s) + 1 .. Len(s) + Size(p) /\ (Len(s) + i) - Len(s) = i
        BY <1>2, <1>3
      <4> QED BY <4>1, <1>4
    <3> QED BY <3>1, <3>2, <1>2, <1>3, <1>4 DEF x
  <2>2. CASE k # n + 1
    <3>1. k \in m + 1 .. n /\ k \in m .. n /\ k - 1 \in m .. n /\ k \in 1 .. n
      BY <2>2, <1>7
    <3>2. to[k] = end[k] /\ to[k - 1] = end[k - 1] /\ r[k] = q[k] /\ end[k - 1] \in Int /\ end[k] \in Int
      BY <3>1, <1>5, <1>8
    <3>3. Size(q[k]) \in Nat
      <4>1. q[k] \in Packets
        BY <3>1 DEF n
      <4> QED BY <4>1, EncShape
    <3> DEFINE z == Size(q[k])
               e == Enc(q[k])
    <3>4. /\ end[k] = end[k - 1] + z
          /\ end[k] <= Len(s)
          /\ \A i \in 1 .. z : end[k - 1] + i >= 1 => s[end[k - 1] + i] = e[i]
      BY <3>1, <1>6
    <3>5. z \in Nat
      BY <3>3
    <3> HIDE DEF z, e
    <3>6. ASSUME NEW i \in 1 .. z, end[k - 1] + i >= 1 PROVE t[end[k - 1] + i] = e[i]
      <4>1. end[k - 1] + i \in 1 .. Len(s)
        BY <3>2, <3>4, <3>5, <3>6, <1>2
      <4> QED BY <4>1, <3>4, <3>6, <1>4
    <3>7. end[k] <= Len(t)
      BY <3>2, <3>4, <1>2, <1>3, <1>4
    <3> QED BY <3>2, <3>4, <3>6, <3>7 DEF z, e
  <2> QED BY <2>1, <2>2
<1>11. CarriesTo(t, r, m, g, to)
  BY <1>5, <1>8, <1>9, <1>10 DEF CarriesTo
<1>12. m <= Len(r)
  BY <1>5, <1>7
<1> QED BY <1>11, <1>12 DEF Carries, t, r, x

(* After a reconnection nothing is on the way.                               *)
LEMMA CarriesNone ==
    ASSUME NEW q \in Seq(Packets)
    PROVE  Carries(<< >>, q, Len(q), 0)
<1> DEFINE to == [k \in Len(q) .. Len(q) |-> 0]
<1>1. Len(q) \in Nat
  OBVIOUS
<1>2. to \in [Len(q) .. Len(q) -> Int] /\ to[Len(q)] = 0
  BY <1>1
<1>3. Len(q) + 1 .. Len(q) = {}
  BY <1>1
<1> HIDE DEF to
<1>4. CarriesTo(<< >>, q, Len(q), 0, to)
  <2>0. Len(<< >>) = 0
    OBVIOUS
  <2>3. 0 - 0 = 0
    OBVIOUS
  <2>1. Len(<< >>) = 0 /\ 0 - 0 = 0
    BY <2>0, <2>3
  <2>2. to[Len(q)] = 0 - 0 /\ to[Len(q)] = Len(<< >>)
    BY <1>2, <2>1
  <2> QED BY <1>2, <1>3, <2>2 DEF CarriesTo
<1> QED BY <1>1, <1>4 DEF Carries

-----------------------------------------------------------------------------
(* The invariant of the two ends.                                            *)

Current == sent[Len(taken) + 1]

(* The bytes of the current packet that are read.                            *)
Gone == IF pc = "data" THEN Size(Current) - left ELSE Len(in)

(* Enough of a publication longer than the buffer.                           *)
LongRead(p) ==
    /\ InLength < Size(p) /\ IsPublish(p.head)
    /\ Len(in) >= InLength
    /\ HeaderLength(p) <= InLength + 2

(* The application has the data up to where the rest begins.                 *)
Given(p) ==
    /\ IsPublish(p.head) /\ left \in Nat /\ left >= 1 /\ left <= Size(p)
    /\ event \in Events /\ event.head = p.head
    /\ ~Straddles(p) =>
        /\ left <= p.data
        /\ event = [Meant(p) EXCEPT !.data = Content(p.data - left)]

(* In the middle of packet p.  A reader that goes on with the remaining      *)
(* length has read the first byte only, or a byte with the bit 0x80; one that *)
(* is past it knows where the fixed header ends; one that hands the message  *)
(* on has all of it, or as much as the buffer is to hold.                    *)
Reading(p) ==
    /\ in # << >> /\ pc # "first" /\ Begins(in, p)
    /\ pc \in {"poll", "length"} => Len(in) < Size(p)
    /\ pc = "length" => Len(in) <= 5 /\ (Len(in) = 1 \/ More(in[Len(in)]))
    /\ pc \in {"rest", "dispatch"} => Len(in) > Len(Remaining(p))
    /\ pc = "dispatch" => Len(in) = Size(p) \/ LongRead(p)
    /\ pc = "data" => Given(p)

Idle == in = << >> /\ pc \in {"poll", "first", "failed"}

TakenRight ==
    \A k \in 1 .. Len(taken) :
        \/ taken[k] = Meant(sent[k])
        \/ Straddles(sent[k]) /\ taken[k].head = sent[k].head

Good ==
    /\ wire \in Seq(Nat) /\ ready \in Nat /\ ready <= Len(wire)
    /\ in \in Seq(Nat) /\ taken \in Seq(Events)
    /\ pc \in {"poll", "first", "length", "rest", "dispatch", "data", "failed"}
    /\ Carries(wire, sent, Len(taken), Gone)
    /\ TakenRight
    /\ Idle \/ (Len(taken) < Len(sent) /\ Reading(Current))

WireInv ==
    /\ sent \in Seq(Packets) /\ clear \in BOOLEAN /\ cut \in BOOLEAN /\ astray \in BOOLEAN
    /\ Untouched => Good

-----------------------------------------------------------------------------
(* The end of a short packet.                                                *)

(* At most two digits for the length of a packet without data.               *)
LEMMA ShortDigits ==
    ASSUME Framable, NEW n \in Nat, n <= 3
    PROVE  Len(Digits[n]) <= 2
<1>1. Base \in Nat /\ Base >= 3 /\ Base >= 2
  BY DEF Framable
<1>2. CASE n < Base
  <2>1. Digits[n] = << n >>
    BY <1>1, <1>2, DigitsCases
  <2>2. Len(<< n >>) <= 2
    OBVIOUS
  <2> QED BY <2>1, <2>2
<1>3. CASE n >= Base
  <2> DEFINE q == n \div Base
             r == Base + (n % Base)
  <2>1. /\ Digits[n] = << r >> \o Digits[q]
        /\ q \in Nat /\ q < n /\ n % Base \in Nat
        /\ n = (Base * q) + (n % Base)
    BY <1>1, <1>3, DigitsCases
  <2>2. q < Base /\ r \in Nat
    BY <1>1, <1>3, <2>1
  <2> HIDE DEF q, r
  <2>3. Digits[q] = << q >>
    BY <1>1, <2>1, <2>2, DigitsCases
  <2>4. Len(<< r >> \o << q >>) = 2
    BY <2>1, <2>2
  <2> QED BY <2>1, <2>3, <2>4
<1> QED BY <1>1, <1>2, <1>3

(* The sizes of the packets without data.                                    *)
LEMMA ShortSizes ==
    ASSUME Framable, NEW p \in Packets, ~IsPublish(p.head)
    PROVE  /\ Len(Remaining(p)) <= 2 /\ Len(Variable(p)) <= 2 /\ p.data = 0
           /\ Size(p) <= 5
<1>1. p.head \in {64, 208} /\ p.data = 0
  BY PacketKinds
<1>2. Len(Variable(p)) \in Nat /\ Len(Variable(p)) <= 2
  <2> DEFINE lv == Len(Variable(p))
  <2>1. lv = 2 \/ lv = 0
    BY <1>1, VariableShape
  <2> HIDE DEF lv
  <2>2. lv \in Nat /\ lv <= 2
    BY <2>1
  <2> QED BY <2>2 DEF lv
<1>3. Len(Remaining(p)) <= 2
  <2>1. Len(Variable(p)) + p.data \in Nat /\ Len(Variable(p)) + p.data <= 3
    BY <1>1, <1>2
  <2> QED BY <2>1, ShortDigits DEF Remaining
<1>4. Len(Remaining(p)) \in Nat /\ Size(p) = 1 + Len(Remaining(p)) + Len(Variable(p)) + p.data
  BY EncShape
<1> QED BY <1>1, <1>2, <1>3, <1>4

(* Every packet has a byte behind the first; a publication has at least five  *)
(* more, and four behind the fixed header unless it has no more than six.     *)
LEMMA Sizes2 ==
    ASSUME Framable, NEW p \in Packets
    PROVE  /\ Size(p) >= 2
           /\ IsPublish(p.head) /\ Size(p) >= 7 => Size(p) >= Len(Remaining(p)) + 5
<1>1. /\ Len(Remaining(p)) \in Nat /\ Len(Remaining(p)) >= 1
      /\ Len(Variable(p)) \in Nat /\ p.data \in Nat
      /\ Size(p) = 1 + Len(Remaining(p)) + Len(Variable(p)) + p.data
  BY EncShape, PacketKinds
<1>2. ASSUME IsPublish(p.head), Size(p) >= 7 PROVE Size(p) >= Len(Remaining(p)) + 5
  <2> DEFINE n == Len(Variable(p)) + p.data
  <2>1. n \in Nat
    BY <1>1
  <2>2. n <= 3 => Len(Remaining(p)) <= 2
    BY <2>1, ShortDigits DEF Remaining
  <2> QED BY <1>1, <1>2, <2>2
<1> QED BY <1>1, <1>2

(* A reader that has read six bytes, or a byte after the first that has not   *)
(* the bit 0x80, has all of the fixed header.                                *)
LEMMA HeaderEnds ==
    ASSUME Framable, NEW p \in Packets, NEW buffer, Begins(buffer, p),
           Len(buffer) >= 2, Len(buffer) >= 6 \/ ~More(buffer[Len(buffer)])
    PROVE  Len(buffer) > Len(Remaining(p))
<1> DEFINE d == Len(Remaining(p))
           n == Len(buffer)
<1>1. /\ d \in Nat /\ d <= 4
      /\ \A i \in 2 .. 1 + d : More(Enc(p)[i]) <=> i < 1 + d
  BY EncShape
<1>2. n \in Nat /\ \A i \in 1 .. n : buffer[i] = Enc(p)[i]
  BY DEF Begins
<1>3. SUFFICES ASSUME n <= d PROVE FALSE
  BY <1>1, <1>2
<1>4. n >= 2 /\ (n >= 6 \/ ~More(buffer[n]))
  OBVIOUS
<1> HIDE DEF d, n
<1>5. n \in 2 .. 1 + d /\ n < 1 + d /\ n \in 1 .. n /\ ~(n >= 6)
  BY <1>1, <1>2, <1>3, <1>4
<1> QED BY <1>1, <1>2, <1>4, <1>5

-----------------------------------------------------------------------------
(* Steps of the two ends.                                                    *)

(* What a read brings is the next bytes of the current packet, as long as it  *)
(* does not ask for more than the packet has.                                *)
LEMMA ReadSome ==
    ASSUME Framable, sent \in Seq(Packets), wire \in Seq(Nat), ready \in Nat, ready <= Len(wire),
           NEW m \in Nat, NEW g \in Nat, m < Len(sent), Carries(wire, sent, m, g),
           NEW n \in Nat, n >= 1, g + n <= Size(sent[m + 1]), Read(n)
    PROVE  \E k \in Nat :
             /\ k >= 1 /\ k <= n
             /\ Bytes(n) \in Seq(Nat) /\ Len(Bytes(n)) = k
             /\ \A i \in 1 .. k : Bytes(n)[i] = Enc(sent[m + 1])[g + i]
             /\ wire' \in Seq(Nat) /\ ready' \in Nat /\ ready' <= Len(wire')
             /\ Carries(wire', sent, m, g + k)
<1> DEFINE k == IF n < ready THEN n ELSE ready
           z == Size(sent[m + 1])
           e == Enc(sent[m + 1])
<1>1. /\ ready > 0 /\ wire' = SubSeq(wire, k + 1, Len(wire)) /\ ready' = ready - k
      /\ Bytes(n) = SubSeq(wire, 1, k)
  BY DEF Read, Bytes
<1>2. k \in Nat /\ k >= 1 /\ k <= n /\ k <= ready
  BY <1>1
<1>3. Len(wire) \in Nat /\ sent[m + 1] \in Packets
  OBVIOUS
<1>4. z \in Nat
  BY <1>3, EncShape
<1>5. \A i \in 1 .. Len(wire) : g + i <= z => wire[i] = e[g + i]
  BY CarriesFront
<1>6. g + n <= z
  OBVIOUS
<1> HIDE DEF k, z, e
<1>7. k <= Len(wire) /\ g + k <= z
  BY <1>2, <1>3, <1>4, <1>6
<1>8. /\ Bytes(n) \in Seq(Nat) /\ Len(Bytes(n)) = k
      /\ \A i \in 1 .. k : Bytes(n)[i] = wire[i]
  <2>1. /\ SubSeq(wire, 0 + 1, k) \in Seq(Nat) /\ Len(SubSeq(wire, 0 + 1, k)) = k - 0
        /\ \A i \in 1 .. k - 0 : SubSeq(wire, 0 + 1, k)[i] = wire[0 + i]
    BY <1>2, <1>7, Piece
  <2>2. 0 + 1 = 1 /\ k - 0 = k /\ \A i \in 1 .. k : 0 + i = i
    BY <1>2
  <2> QED BY <2>1, <2>2, <1>1
<1>9. \A i \in 1 .. k : Bytes(n)[i] = e[g + i]
  <2>1. TAKE i \in 1 .. k
  <2>2. i \in 1 .. Len(wire) /\ g + i <= z
    BY <1>2, <1>3, <1>4, <1>7
  <2> QED BY <2>2, <1>5, <1>8
<1>10. wire' \in Seq(Nat) /\ Len(wire') = Len(wire) - k
  <2>1. Len(wire) <= Len(wire)
    BY <1>3
  <2> QED BY <2>1, <1>1, <1>2, <1>3, <1>7, Piece
<1>11. ready' \in Nat /\ ready' <= Len(wire')
  BY <1>1, <1>2, <1>3, <1>10
<1>12. Carries(wire', sent, m, g + k)
  BY <1>1, <1>2, <1>7, CarriesRead DEF z
<1> QED BY <1>2, <1>8, <1>9, <1>10, <1>11, <1>12 DEF e

(* Put behind what the buffer has, it is still the beginning of the packet.   *)
LEMMA ReadInto ==
    ASSUME Framable, sent \in Seq(Packets), wire \in Seq(Nat), ready \in Nat, ready <= Len(wire),
           NEW m \in Nat, m < Len(sent), Begins(in, sent[m + 1]),
           Carries(wire, sent, m, Len(in)),
           NEW n \in Nat, n >= 1, Len(in) + n <= Size(sent[m + 1]), Read(n),
           in' = in \o Bytes(n)
    PROVE  /\ Begins(in', sent[m + 1]) /\ in' # << >>
           /\ Len(in') \in Nat /\ Len(in') > Len(in) /\ Len(in') <= Len(in) + n
           /\ wire' \in Seq(Nat) /\ ready' \in Nat /\ ready' <= Len(wire')
           /\ Carries(wire', sent, m, Len(in'))
<1> DEFINE g == Len(in)
           b == Bytes(n)
           p == sent[m + 1]
<1>1. /\ in \in Seq(Nat) /\ g \in Nat /\ p \in Packets
      /\ \A i \in 1 .. g : in[i] = Enc(p)[i]
  BY DEF Begins
<1>2. PICK k \in Nat :
             /\ k >= 1 /\ k <= n
             /\ b \in Seq(Nat) /\ Len(b) = k
             /\ \A i \in 1 .. k : b[i] = Enc(p)[g + i]
             /\ wire' \in Seq(Nat) /\ ready' \in Nat /\ ready' <= Len(wire')
             /\ Carries(wire', sent, m, g + k)
  BY <1>1, ReadSome
<1>3. Size(p) \in Nat
  BY <1>1, EncShape
<1>4. /\ in' \in Seq(Nat) /\ Len(in') = g + k
      /\ \A i \in 1 .. g : in'[i] = in[i]
      /\ \A i \in g + 1 .. g + k : in'[i] = b[i - g]
  BY <1>1, <1>2, InARow
<1>5. g + n <= Size(p)
  OBVIOUS
<1> HIDE DEF g, b, p
<1>9. g \in Nat /\ k \in Nat /\ k >= 1 /\ k <= n /\ Len(in') = g + k
  BY <1>1, <1>2, <1>4
<1>6. Begins(in', p)
  <2>1. Len(in') <= Size(p)
    BY <1>9, <1>3, <1>5
  <2>2. ASSUME NEW i \in 1 .. g + k PROVE in'[i] = Enc(p)[i]
    <3>1. CASE i <= g
      BY <3>1, <1>1, <1>4
    <3>2. CASE i > g
      <4>1. i \in g + 1 .. g + k /\ i - g \in 1 .. k /\ g + (i - g) = i
        BY <3>2, <1>1, <1>2, <1>4
      <4> QED BY <4>1, <1>2, <1>4
    <3> QED BY <3>1, <3>2, <1>9
  <2> QED BY <2>1, <2>2, <1>4 DEF Begins
<1>7. Len(in') \in Nat /\ Len(in') > g /\ Len(in') <= g + n
  BY <1>9
<1>8. in' # << >>
  BY <1>1, <1>7
<1> QED BY <1>2, <1>4, <1>6, <1>7, <1>8 DEF g, p

(* The first bytes that the code writes are valid ones.                      *)
LEMMA HeadValid ==
    ASSUME Framable, NEW p \in Packets
    PROVE  Valid(p.head)
<1>1. p.head \in {48, 50, 64, 208}
  BY PacketKinds
<1>2. Valid(48) /\ Valid(50)
  BY DEF Valid, IsPublish, Type, Qos
<1>3. Valid(64) /\ Valid(208)
  BY DEF Valid, IsPublish, Type, Qos
<1> QED BY <1>1, <1>2, <1>3

(* What the application is to be given has its form.                         *)
LEMMA MeantTyped ==
    ASSUME Framable, NEW p \in Packets
    PROVE  Meant(p) \in Events /\ Meant(p).head = p.head
<1>1. /\ p.head \in Nat /\ p.topic \in Nat /\ p.id \in Nat \X Nat /\ p.data \in Nat
      /\ p = [head |-> p.head, topic |-> p.topic, id |-> p.id, data |-> p.data]
  BY PacketKinds
<1> DEFINE c == IF IsPublish(p.head) THEN Content(p.data) ELSE << >>
<1>2. c \in Seq(Nat)
  <2>1. Content(p.data) \in Seq(Nat)
    BY <1>1, ContentShape
  <2> QED BY <2>1
<1>3. Meant(p) = [head |-> p.head, topic |-> p.topic, id |-> p.id, data |-> c]
  BY <1>1 DEF Meant
<1> HIDE DEF c
<1> QED BY <1>1, <1>2, <1>3 DEF Events

(* In the middle of a message there is a current packet, and the buffer holds *)
(* its beginning.                                                            *)
LEMMA InTheMiddle ==
    ASSUME Framable, sent \in Seq(Packets), Good, ~Idle
    PROVE  /\ Current \in Packets /\ Len(taken) \in Nat /\ Len(taken) < Len(sent)
           /\ Reading(Current) /\ Begins(in, Current)
           /\ in \in Seq(Nat) /\ Len(in) \in Nat /\ Len(in) >= 1
           /\ pc # "data" => Carries(wire, sent, Len(taken), Len(in))
<1>1. Len(taken) < Len(sent) /\ Reading(Current) /\ taken \in Seq(Events) /\ in \in Seq(Nat)
  BY DEF Good
<1>2. Len(taken) \in Nat /\ Current \in Packets
  BY <1>1 DEF Current
<1>3. Begins(in, Current) /\ in # << >>
  BY <1>1 DEF Reading
<1>4. Len(in) \in Nat /\ Len(in) >= 1
  BY <1>1, <1>3
<1>5. pc # "data" => Carries(wire, sent, Len(taken), Len(in))
  BY DEF Good, Gone
<1> QED BY <1>1, <1>2, <1>3, <1>4, <1>5

(* Nor between two messages anything is lost.                                *)
LEMMA InBetween ==
    ASSUME sent \in Seq(Packets), Good, Idle
    PROVE  /\ Len(taken) \in Nat /\ Len(in) = 0 /\ Carries(wire, sent, Len(taken), 0)
           /\ pc \in {"poll", "first", "failed"}
<1>1. Len(in) = 0 /\ pc \in {"poll", "first", "failed"}
  BY DEF Idle
<1>2. Gone = 0
  BY <1>1 DEF Gone
<1> QED BY <1>1, <1>2 DEF Good

(* A step of the reader that hands nothing on, and leaves it in the middle of *)
(* the message.                                                              *)
LEMMA ReadsOn ==
    ASSUME Good, UNCHANGED << sent, taken >>, Len(taken) < Len(sent), NEW p, p = Current,
           wire' \in Seq(Nat), ready' \in Nat, ready' <= Len(wire'),
           Carries(wire', sent, Len(taken), Len(in')),
           in' # << >>, Begins(in', p),
           pc' \in {"poll", "length", "rest", "dispatch", "failed"},
           pc' \in {"poll", "length"} => Len(in') < Size(p),
           pc' = "length" => Len(in') <= 5 /\ (Len(in') = 1 \/ More(in'[Len(in')])),
           pc' \in {"rest", "dispatch"} => Len(in') > Len(Remaining(p)),
           pc' = "dispatch" =>
             \/ Len(in') = Size(p)
             \/ /\ InLength < Size(p) /\ IsPublish(p.head)
                /\ Len(in') >= InLength /\ HeaderLength(p) <= InLength + 2
    PROVE  Good'
<1>1. Current' = p /\ Gone' = Len(in')
  BY DEF Current, Gone
<1>2. TakenRight'
  BY DEF Good, TakenRight
<1>3. LongRead(p)' <=> /\ InLength < Size(p) /\ IsPublish(p.head)
                       /\ Len(in') >= InLength /\ HeaderLength(p) <= InLength + 2
  BY DEF LongRead
<1>4. /\ in' # << >> /\ pc' # "first" /\ Begins(in', p)
      /\ pc' \in {"poll", "length"} => Len(in') < Size(p)
      /\ pc' = "length" => Len(in') <= 5 /\ (Len(in') = 1 \/ More(in'[Len(in')]))
      /\ pc' \in {"rest", "dispatch"} => Len(in') > Len(Remaining(p))
      /\ pc' = "dispatch" => Len(in') = Size(p) \/ LongRead(p)'
      /\ pc' # "data"
  BY <1>3
<1>5. Reading(Current)'
  BY <1>1, <1>4 DEF Reading
<1>6. in' \in Seq(Nat)
  BY DEF Begins
<1>7. taken' \in Seq(Events) /\ Len(taken') = Len(taken) /\ sent' = sent
  BY DEF Good
<1> QED BY <1>1, <1>2, <1>5, <1>6, <1>7 DEF Good

(* A step that hands on a packet read to its end.                            *)
LEMMA HandsOn ==
    ASSUME Framable, sent \in Seq(Packets), Good, UNCHANGED sent, Len(taken) < Len(sent),
           wire' \in Seq(Nat), ready' \in Nat, ready' <= Len(wire'),
           Carries(wire', sent, Len(taken), Size(Current)),
           NEW e \in Events, Done(e),
           e = Meant(Current) \/ (Straddles(Current) /\ e.head = Current.head)
    PROVE  Good'
<1> DEFINE m == Len(taken)
<1>1. taken \in Seq(Events) /\ m \in Nat /\ Len(sent) \in Nat
  BY DEF Good
<1>2. Current = sent[m + 1] /\ Current \in Packets
  BY <1>1 DEF Current
<1>3. Size(Current) \in Nat
  BY <1>2, EncShape
<1>4. Carries(wire', sent, m + 1, 0)
  BY <1>1, <1>2, <1>3, CarriesNext
<1>5. /\ taken' \in Seq(Events) /\ Len(taken') = m + 1
      /\ \A k \in 1 .. m : taken'[k] = taken[k]
      /\ taken'[m + 1] = e
  BY <1>1 DEF Done
<1>6. Idle' /\ in' \in Seq(Nat) /\ Len(in') = 0 /\ pc' = "poll"
  <2>1. in' = << >> /\ pc' = "poll"
    BY DEF Done
  <2> QED BY <2>1 DEF Idle
<1>7. TakenRight'
  <2>1. ASSUME NEW k \in 1 .. m + 1
        PROVE  \/ taken'[k] = Meant(sent[k])
               \/ Straddles(sent[k]) /\ taken'[k].head = sent[k].head
    <3>1. CASE k = m + 1
      BY <3>1, <1>2, <1>5
    <3>2. CASE k # m + 1
      <4>1. k \in 1 .. m
        BY <3>2, <1>1
      <4>2. taken[k] = Meant(sent[k]) \/ (Straddles(sent[k]) /\ taken[k].head = sent[k].head)
        BY <4>1 DEF Good, TakenRight
      <4> QED BY <4>1, <4>2, <1>5
    <3> QED BY <3>1, <3>2
  <2> QED BY <2>1, <1>5 DEF TakenRight
<1>8. Gone' = 0
  BY <1>6 DEF Gone
<1>9. Carries(wire', sent', Len(taken'), Gone')
  BY <1>4, <1>5, <1>8
<1> QED BY <1>5, <1>6, <1>7, <1>9 DEF Good

(* A step that writes a packet.                                              *)
LEMMA Written ==
    ASSUME Framable, sent \in Seq(Packets), Good, NEW p \in Packets,
           Writes(p, Enc(p))
    PROVE  Good'
<1> DEFINE m == Len(taken)
<1>1. /\ sent' = Append(sent, p) /\ wire' = wire \o Enc(p)
      /\ ready' = ready /\ in' = in /\ pc' = pc /\ event' = event /\ left' = left
      /\ taken' = taken
  BY DEF Writes
<1>2. /\ wire \in Seq(Nat) /\ ready \in Nat /\ ready <= Len(wire)
      /\ in \in Seq(Nat) /\ taken \in Seq(Events)
      /\ Carries(wire, sent, m, Gone) /\ TakenRight
      /\ Idle \/ (m < Len(sent) /\ Reading(Current))
  BY DEF Good
<1>3. m \in Nat /\ Len(sent) \in Nat /\ m <= Len(sent)
  BY <1>2 DEF Carries
<1>4. /\ Len(sent') = Len(sent) + 1
      /\ \A k \in 1 .. Len(sent) : sent'[k] = sent[k]
  BY <1>1
<1>5. wire' \in Seq(Nat) /\ ready' \in Nat /\ ready' <= Len(wire')
  <2>1. Enc(p) \in Seq(Nat)
    BY EncShape
  <2>2. wire' \in Seq(Nat) /\ Len(wire') = Len(wire) + Len(Enc(p)) /\ Len(Enc(p)) \in Nat
    BY <1>1, <1>2, <2>1, InARow
  <2>3. Len(wire) \in Nat
    BY <1>2
  <2> QED BY <1>1, <1>2, <2>2, <2>3
<1>6. TakenRight'
  <2>1. ASSUME NEW k \in 1 .. m
        PROVE  \/ taken[k] = Meant(sent'[k])
               \/ Straddles(sent'[k]) /\ taken[k].head = sent'[k].head
    <3>1. k \in 1 .. Len(sent)
      BY <1>3
    <3> QED BY <3>1, <1>2, <1>4 DEF TakenRight
  <2> QED BY <2>1, <1>1 DEF TakenRight
<1>7. CASE Idle
  <2>1. Gone = 0 /\ Gone' = 0
    <3>1. Len(in) = 0 /\ pc # "data"
      BY <1>7 DEF Idle
    <3> QED BY <3>1, <1>1 DEF Gone
  <2>2. Carries(wire', sent', m, 0)
    <3>1. Carries(wire, sent, m, 0) /\ 0 \in Nat
      BY <1>2, <2>1
    <3> QED BY <3>1, <1>1, <1>2, <1>3, CarriesMore
  <2>3. Idle'
    BY <1>1, <1>7 DEF Idle
  <2> QED BY <1>1, <1>2, <1>5, <1>6, <2>1, <2>2, <2>3 DEF Good
<1>8. CASE m < Len(sent) /\ Reading(Current)
  <2>1. m + 1 \in 1 .. Len(sent)
    BY <1>3, <1>8
  <2>2. Current' = Current /\ Current \in Packets
    BY <2>1, <1>1, <1>4 DEF Current
  <2>3. Gone' = Gone
    BY <1>1, <2>2 DEF Gone
  <2>4. Gone \in Nat
    <3>1. CASE pc = "data"
      <4>1. left \in Nat /\ left <= Size(Current)
        BY <3>1, <1>8 DEF Reading, Given
      <4>2. Size(Current) \in Nat
        BY <2>2, EncShape
      <4> QED BY <3>1, <4>1, <4>2 DEF Gone
    <3>2. CASE pc # "data"
      BY <3>2, <1>2 DEF Gone
    <3> QED BY <3>1, <3>2
  <2>5. Carries(wire', sent', m, Gone)
    BY <1>1, <1>2, <1>3, <2>4, CarriesMore
  <2>6. Reading(Current)'
    BY <1>1, <1>8, <2>2 DEF Reading, LongRead, Given
  <2>7. m < Len(sent')
    BY <1>3, <1>4, <1>8
  <2> QED BY <1>1, <1>2, <1>5, <1>6, <2>3, <2>5, <2>6, <2>7 DEF Good
<1> QED BY <1>2, <1>7, <1>8

-----------------------------------------------------------------------------
(* The reader, one lemma for each action.                                    *)

(* Why the connection may fail.                                              *)
Cause ==
    \/ in # << >> /\ ready = 0 /\ Len(in) = before
    \/ IsPublish(Current.head) /\ HeaderLength(Current) > InLength

Safe == Good' /\ (pc # "failed" /\ pc' = "failed" => Cause)

(* A poll goes on where the last one stopped: behind a digit with its bit   *)
(* set at the next one, else at the rest.                                   *)
LEMMA PollSafe ==
    ASSUME Framable, sent \in Seq(Packets), Good, Poll
    PROVE  Safe
<1>1. /\ pc = "poll" /\ UNCHANGED << sent, taken, wire, ready, in >>
      /\ pc' = IF in = << >> THEN "first"
               ELSE IF Len(in) = 1 \/ (Len(in) < 6 /\ More(Last(in))) THEN "length"
               ELSE "rest"
  BY DEF Poll, sender
<1>2. wire' \in Seq(Nat) /\ ready' \in Nat /\ ready' <= Len(wire')
  BY <1>1 DEF Good
<1>3. pc' # "failed"
  BY <1>1
<1>4. CASE in = << >>
  <2>1. pc' = "first"
    BY <1>1, <1>4
  <2>2. Idle /\ Idle'
    BY <1>1, <1>4, <2>1 DEF Idle
  <2>3. Gone' = Gone
    BY <1>1, <2>1 DEF Gone
  <2>4. TakenRight'
    BY <1>1 DEF TakenRight, Good
  <2>5. Good'
    BY <1>1, <2>1, <2>2, <2>3, <2>4 DEF Good
  <2> QED BY <1>3, <2>5 DEF Safe
<1>5. CASE in # << >>
  <2>1. ~Idle
    BY <1>5 DEF Idle
  <2> DEFINE p == Current
             n == Len(in)
  <2>2. /\ p \in Packets /\ Len(taken) < Len(sent) /\ Reading(p) /\ Begins(in, p)
        /\ in \in Seq(Nat) /\ n \in Nat /\ n >= 1
        /\ Carries(wire, sent, Len(taken), n)
    BY <1>1, <2>1, InTheMiddle
  <2>3. n < Size(p)
    BY <1>1, <2>2 DEF Reading
  <2>4. Last(in) = in[n]
    BY DEF Last
  <2>5. CASE n = 1 \/ (n < 6 /\ More(in[n]))
    <3>1. pc' = "length" /\ n <= 5
      BY <1>1, <1>5, <2>2, <2>4, <2>5
    <3>2. Good'
      BY <1>1, <1>2, <1>5, <2>2, <2>3, <2>5, <3>1, ReadsOn
    <3> QED BY <1>3, <3>2 DEF Safe
  <2>6. CASE ~(n = 1 \/ (n < 6 /\ More(in[n])))
    <3>1. pc' = "rest"
      BY <1>1, <1>5, <2>4, <2>6
    <3>2. n > Len(Remaining(p))
      <4>1. n >= 2 /\ (n >= 6 \/ ~More(in[n]))
        <5>1. n \in Nat /\ n >= 1 /\ n # 1 /\ (~(n < 6) \/ ~More(in[n]))
          BY <2>2, <2>6
        <5> HIDE DEF n
        <5>2. n >= 2 /\ (~(n < 6) => n >= 6)
          BY <5>1
        <5> QED BY <5>1, <5>2
      <4> QED BY <4>1, <2>2, HeaderEnds
    <3>3. Good'
      BY <1>1, <1>2, <1>5, <2>2, <2>3, <3>1, <3>2, ReadsOn
    <3> QED BY <1>3, <3>3 DEF Safe
  <2> QED BY <2>5, <2>6
<1> QED BY <1>4, <1>5

(* The first byte is that of the next packet, and a valid one.              *)
LEMMA FirstSafe ==
    ASSUME Framable, sent \in Seq(Packets), Good, First
    PROVE  Safe
<1> DEFINE m == Len(taken)
<1>1. pc = "first" /\ UNCHANGED << sent, taken >>
  BY DEF First, Receiving, sender
<1>2. Idle /\ in = << >>
  BY <1>1 DEF Good, Reading, Idle
<1>3. m \in Nat /\ Len(in) = 0 /\ Carries(wire, sent, m, 0)
  BY <1>2, InBetween
<1>4. CASE ready = 0 /\ pc' = "poll" /\ UNCHANGED << wire, ready, in >>
  <2>1. Idle' /\ Gone' = Gone
    BY <1>1, <1>2, <1>4 DEF Idle, Gone
  <2>2. TakenRight'
    BY <1>1 DEF TakenRight, Good
  <2>3. Good'
    BY <1>1, <1>4, <2>1, <2>2 DEF Good
  <2> QED BY <1>4, <2>3 DEF Safe
<1>5. CASE /\ Read(1)
           /\ in' = IF Valid(wire[1]) THEN Bytes(1) ELSE in
           /\ pc' = IF Valid(wire[1]) THEN "length" ELSE "failed"
  <2> DEFINE p == Current
             b == Bytes(1)
  <2>1. wire \in Seq(Nat) /\ ready \in Nat /\ ready <= Len(wire) /\ ready > 0
    BY <1>5 DEF Good, Read
  <2>2. Len(wire) \in Nat /\ Len(wire) >= 1
    BY <2>1
  <2>3. m < Len(sent)
    <3>1. m <= Len(sent) /\ Len(sent) \in Nat
      BY <1>3 DEF Carries
    <3>2. m # Len(sent)
      <4>1. SUFFICES ASSUME m = Len(sent) PROVE FALSE
        OBVIOUS
      <4>2. Carries(wire, sent, Len(sent), 0)
        BY <1>3, <4>1
      <4>3. wire = << >>
        BY <4>2, <2>1, CarriesEmpty
      <4> QED BY <4>3, <2>2
    <3> QED BY <1>3, <3>1, <3>2
  <2>4. p = sent[m + 1] /\ p \in Packets
    BY <1>3, <2>3 DEF Current
  <2>5. Size(p) \in Nat /\ Size(p) >= 2 /\ Enc(p)[1] = p.head
    BY <2>4, EncShape, Sizes2
  <2>6. wire[1] = p.head
    <3>1. \A i \in 1 .. Len(wire) : 0 + i <= Size(p) => wire[i] = Enc(p)[0 + i]
      BY <1>3, <2>1, <2>3, <2>4, CarriesFront
    <3>2. 1 \in 1 .. Len(wire) /\ 0 + 1 = 1 /\ 0 + 1 <= Size(p)
      BY <2>2, <2>5
    <3>3. wire[1] = Enc(p)[1]
      BY <3>1, <3>2
    <3> QED BY <3>3, <2>5
  <2>7. Valid(wire[1])
    BY <2>4, <2>6, HeadValid
  <2>8. in' = b /\ pc' = "length"
    BY <1>5, <2>7
  <2>9. PICK k \in Nat :
             /\ k >= 1 /\ k <= 1
             /\ b \in Seq(Nat) /\ Len(b) = k
             /\ \A i \in 1 .. k : b[i] = Enc(p)[0 + i]
             /\ wire' \in Seq(Nat) /\ ready' \in Nat /\ ready' <= Len(wire')
             /\ Carries(wire', sent, m, 0 + k)
    <3>1. 0 + 1 <= Size(sent[m + 1]) /\ 1 >= 1 /\ 0 \in Nat /\ 1 \in Nat
      BY <2>4, <2>5
    <3>2. Read(1)
      BY <1>5
    <3> HIDE DEF b, p
    <3> QED BY <1>3, <2>1, <2>3, <2>4, <3>1, <3>2, ReadSome DEF b
  <2> HIDE DEF b
  <2>10. k = 1 /\ 0 + k = 1 /\ \A i \in 1 .. k : 0 + i = i
    BY <2>9
  <2>11. Len(b) = 1 /\ Carries(wire', sent, m, Len(b))
    BY <2>9, <2>10
  <2>12. Begins(b, p)
    <3>1. \A i \in 1 .. Len(b) : b[i] = Enc(p)[i]
      BY <2>9, <2>10
    <3>2. Len(b) <= Size(p)
      BY <2>11, <2>5
    <3> QED BY <3>1, <3>2, <2>9 DEF Begins
  <2>13. b # << >>
    <3>1. Len(<< >>) = 0
      OBVIOUS
    <3>2. Len(b) # 0
      BY <2>11
    <3> QED BY <3>1, <3>2
  <2>14. Len(b) < Size(p) /\ Len(b) <= 5
    BY <2>11, <2>5
  <2>15. Good'
    BY <1>1, <2>3, <2>8, <2>9, <2>11, <2>12, <2>13, <2>14, ReadsOn
  <2> QED BY <2>8, <2>15 DEF Safe
<1> QED BY <1>4, <1>5 DEF First

(* Nothing there: the reader stays where it is, or gives up.                  *)
LEMMA NothingSafe ==
    ASSUME Framable, sent \in Seq(Packets), Good, ~Idle, pc \in {"length", "rest"},
           Len(in) < Size(Current), NothingYet, UNCHANGED << sent, taken >>
    PROVE  Safe
<1>1. /\ ready = 0 /\ UNCHANGED << wire, ready, in >>
      /\ pc' = IF Len(in) = before THEN "failed" ELSE "poll"
  BY DEF NothingYet
<1>2. wire' \in Seq(Nat) /\ ready' \in Nat /\ ready' <= Len(wire')
  BY <1>1 DEF Good
<1>3. /\ Len(taken) < Len(sent) /\ Reading(Current) /\ Begins(in, Current)
      /\ Carries(wire, sent, Len(taken), Len(in))
  BY InTheMiddle
<1>4. in # << >>
  BY <1>3 DEF Reading
<1>5. Good'
  BY <1>1, <1>2, <1>3, <1>4, ReadsOn
<1>6. pc' = "failed" => Cause
  BY <1>1, <1>4 DEF Cause
<1> QED BY <1>5, <1>6 DEF Safe

(* The next byte is a digit of the length, and the last one if its bit is   *)
(* clear; or the packet is whole and the reader goes astray.                *)
LEMMA LengthSafe ==
    ASSUME Framable, sent \in Seq(Packets), Good, Length
    PROVE  ~astray' => Safe
<1>0. astray' = (astray \/ (pc' = "length" /\ Complete(in')))
  BY DEF Length
<1> DEFINE p == Current
           m == Len(taken)
           n == Len(in)
<1>1. pc = "length" /\ UNCHANGED << sent, taken >>
  BY DEF Length, Receiving, sender
<1>2. ~Idle
  BY <1>1 DEF Idle
<1>3. /\ p \in Packets /\ m \in Nat /\ m < Len(sent) /\ Reading(p) /\ Begins(in, p)
      /\ in \in Seq(Nat) /\ n \in Nat /\ n >= 1
      /\ Carries(wire, sent, m, n)
  BY <1>1, <1>2, InTheMiddle
<1>4. n < Size(p) /\ n <= 5 /\ (n = 1 \/ More(in[n]))
  BY <1>1, <1>3 DEF Reading
<1>5. CASE NothingYet
  BY <1>1, <1>2, <1>4, <1>5, NothingSafe
<1>6. CASE /\ Read(1)
           /\ in' = in \o Bytes(1)
           /\ pc' = IF n + 1 < 6 /\ More(wire[1]) THEN "length" ELSE "rest"
  <2> DEFINE n1 == Len(in')
             z == Size(p)
             e == Enc(p)
  <2>1. wire \in Seq(Nat) /\ ready \in Nat /\ ready <= Len(wire) /\ ready > 0
    BY <1>6 DEF Good, Read
  <2>2. p = sent[m + 1] /\ z \in Nat /\ z >= 2
    BY <1>3, EncShape, Sizes2 DEF Current
  <2>3. n + 1 <= z
    BY <1>3, <1>4, <2>2
  <2>4. /\ Begins(in', p) /\ in' # << >>
        /\ n1 \in Nat /\ n1 > n /\ n1 <= n + 1
        /\ wire' \in Seq(Nat) /\ ready' \in Nat /\ ready' <= Len(wire')
        /\ Carries(wire', sent, m, n1)
    <3>1. 1 \in Nat /\ 1 >= 1 /\ n + 1 <= Size(sent[m + 1])
      BY <2>2, <2>3
    <3> QED BY <1>3, <1>6, <2>1, <2>2, <3>1, ReadInto
  <2>5. n1 = n + 1
    BY <1>3, <2>4
  <2>6. wire[1] = in'[n1]
    <3>1. \A i \in 1 .. Len(wire) : n + i <= z => wire[i] = e[n + i]
      BY <1>3, <2>1, <2>2, CarriesFront
    <3>2. Len(wire) \in Nat
      BY <2>1
    <3>3. 1 \in 1 .. Len(wire)
      BY <2>1, <3>2
    <3>4. wire[1] = e[n + 1]
      BY <3>1, <3>3, <2>3
    <3>5. n1 \in 1 .. n1
      BY <1>3, <2>5
    <3>6. in'[n1] = e[n1]
      BY <2>4, <3>5 DEF Begins
    <3> QED BY <3>4, <3>6, <2>5
  <2>7. in[n] = e[n]
    <3>1. n \in 1 .. n
      BY <1>3
    <3> QED BY <1>3, <3>1 DEF Begins
  <2> HIDE DEF n1, z, e
  <2>8. CASE n + 1 < 6 /\ More(in'[n1])
    <3>1. pc' = "length" /\ n1 <= 5
      BY <1>3, <1>6, <2>5, <2>6, <2>8
    <3>2. n1 <= z
      BY <1>3, <2>2, <2>3, <2>5
    <3>3. CASE n1 = z
      <4> DEFINE d  == Len(Remaining(p))
                 lv == Len(Variable(p))
                 t  == p.data
      <4>0. /\ d \in Nat /\ d >= 1 /\ lv \in Nat /\ t \in Nat /\ z = 1 + d + lv + t
            /\ \A i \in 2 .. 1 + d : More(e[i]) <=> i < 1 + d
        <5>1. p \in Packets
          BY <1>3
        <5> HIDE DEF p
        <5> QED BY <5>1, EncShape, PacketKinds DEF z, e
      <4> HIDE DEF d, lv, t
      <4>1. /\ d \in Nat /\ d >= 1 /\ z >= 1 + d
            /\ \A i \in 2 .. 1 + d : More(e[i]) <=> i < 1 + d
        BY <4>0
      <4> USE DEF d
      <4>2. Len(in') = z /\ z > d
        BY <2>2, <3>3, <4>1 DEF n1
      <4>3. TotalLength(in') = z
        BY <1>3, <2>4, <4>2, ParsedLength DEF z
      <4> HIDE DEF d
      <4>4. 1 + d \in 2 .. Len(in') /\ 1 + d \in 1 .. Len(in')
        BY <2>2, <4>1, <4>2
      <4>5. ~More(in'[1 + d])
        <5>1. in'[1 + d] = e[1 + d]
          BY <2>4, <4>4 DEF Begins, e
        <5> QED BY <4>1, <5>1
      <4>6. TotalLength(in') <= Len(in')
        BY <2>2, <4>2, <4>3
      <4>7. Complete(in')
        BY <4>4, <4>5, <4>6 DEF Complete
      <4> QED BY <1>0, <3>1, <4>7
    <3>4. CASE n1 < z
      <4>1. Good'
        BY <1>1, <1>3, <2>4, <2>8, <3>1, <3>4, ReadsOn DEF n1, z
      <4> QED BY <3>1, <4>1 DEF Safe
    <3>5. n1 \in Nat /\ z \in Nat
      BY <2>2, <2>4
    <3> QED BY <3>2, <3>3, <3>4, <3>5
  <2>9. CASE ~(n + 1 < 6 /\ More(in'[n1]))
    <3>1. pc' = "rest"
      BY <1>6, <2>6, <2>9
    <3>2. n1 > Len(Remaining(p))
      <4>1. n1 >= 2 /\ (n1 >= 6 \/ ~More(in'[n1]))
        BY <1>3, <2>5, <2>9
      <4> QED BY <4>1, <1>3, <2>4, HeaderEnds DEF n1
    <3>3. Good'
      BY <1>1, <1>3, <2>4, <3>1, <3>2, ReadsOn DEF n1
    <3> QED BY <3>1, <3>3 DEF Safe
  <2> QED BY <2>8, <2>9
<1> QED BY <1>5, <1>6 DEF Length

(* In the middle of the length a reader only gives up for want of bytes.     *)
LEMMA LengthFails ==
    ASSUME Good, Length, pc' = "failed"
    PROVE  Cause
<1>1. pc = "length" /\ NothingYet
  BY DEF Length, Receiving
<1>2. in # << >>
  BY <1>1 DEF Good, Idle, Reading
<1>3. ready = 0 /\ Len(in) = before
  BY <1>1 DEF NothingYet
<1> QED BY <1>2, <1>3 DEF Cause

(* What the reader knows of the packet past the fixed header.                *)
LEMMA PastHeader ==
    ASSUME Framable, sent \in Seq(Packets), Good, pc \in {"rest", "dispatch"}
    PROVE  /\ ~Idle /\ Current \in Packets /\ Len(taken) \in Nat /\ Len(taken) < Len(sent)
           /\ Current = sent[Len(taken) + 1]
           /\ Reading(Current) /\ Begins(in, Current) /\ in # << >>
           /\ Carries(wire, sent, Len(taken), Len(in))
           /\ wire \in Seq(Nat) /\ ready \in Nat /\ ready <= Len(wire)
           /\ Len(in) \in Nat /\ Len(in) <= Size(Current) /\ Size(Current) \in Nat
           /\ Len(in) > Len(Remaining(Current))
           /\ InLength \in Nat /\ InLength >= 6
           /\ FixedLength(in) = 1 + Len(Remaining(Current))
           /\ TotalLength(in) = Size(Current)
           /\ in[1] = Current.head
           /\ TooLong <=> InLength < Size(Current)
<1>1. ~Idle
  BY DEF Idle
<1>2. /\ Current \in Packets /\ Len(taken) \in Nat /\ Len(taken) < Len(sent)
      /\ Reading(Current) /\ Begins(in, Current) /\ Len(in) \in Nat
      /\ Carries(wire, sent, Len(taken), Len(in))
  BY <1>1, InTheMiddle
<1>3. /\ in # << >> /\ Len(in) > Len(Remaining(Current))
  BY <1>2 DEF Reading
<1>4. Len(in) <= Size(Current)
  BY <1>2 DEF Begins
<1>5. Size(Current) \in Nat
  BY <1>2, EncShape
<1>6. /\ FixedLength(in) = 1 + Len(Remaining(Current))
      /\ TotalLength(in) = Size(Current)
      /\ in[1] = Current.head
  BY <1>2, <1>3, ParsedLength
<1>7. InLength \in Nat /\ InLength >= 6
  BY WireAssumption
<1>8. TooLong <=> InLength < Size(Current)
  BY <1>6 DEF TooLong
<1>9. wire \in Seq(Nat) /\ ready \in Nat /\ ready <= Len(wire)
  BY DEF Good
<1> QED BY <1>1, <1>2, <1>3, <1>4, <1>5, <1>6, <1>7, <1>8, <1>9 DEF Current

(* The two bytes that are asked for belong to the packet.                   *)
LEMMA ReadTopicLengthSafe ==
    ASSUME Framable, sent \in Seq(Packets), Good, ReadTopicLength
    PROVE  Safe
<1> DEFINE p == Current
           m == Len(taken)
           d == Len(Remaining(p))
           z == Size(p)
           n == Len(in)
           f == FixedLength(in)
           k == n - f + 2
<1>1. /\ pc = "rest" /\ UNCHANGED << sent, taken >> /\ TooLong /\ IsPublish(in[1])
      /\ ~(n >= f + 2)
  BY DEF ReadTopicLength, Receiving, sender, TopicKnown
<1>2. /\ ~Idle /\ p \in Packets /\ m \in Nat /\ m < Len(sent) /\ p = sent[m + 1]
      /\ Reading(p) /\ Begins(in, p) /\ Carries(wire, sent, m, n)
      /\ wire \in Seq(Nat) /\ ready \in Nat /\ ready <= Len(wire)
      /\ in[1] = p.head
  BY <1>1, PastHeader
<1>3. n \in Nat /\ n <= z /\ z \in Nat /\ n > d /\ InLength >= 6 /\ InLength \in Nat
  BY <1>1, PastHeader
<1>4. f = 1 + d /\ InLength < z
  BY <1>1, PastHeader
<1>5. d \in Nat
  BY <1>2, EncShape
<1>6. z >= 7 => z >= d + 5
  BY <1>1, <1>2, Sizes2
<1>7. CASE NothingYet
  <2>1. n < z
    <3>1. ~(n >= f + 2)
      BY <1>1
    <3> HIDE DEF n, z, d, f
    <3> QED BY <3>1, <1>3, <1>4, <1>5, <1>6
  <2> QED BY <1>1, <1>2, <2>1, <1>7, NothingSafe
<1>8. CASE /\ Read(k)
           /\ in' = in \o Bytes(k)
           /\ pc' = IF Len(in') < f + 2 THEN "poll" ELSE "rest"
  <2> DEFINE n1 == Len(in')
  <2>1. k \in Nat /\ k >= 1 /\ n + k <= z
    <3>1. ~(n >= f + 2)
      BY <1>1
    <3> HIDE DEF n, z, d, f
    <3> QED BY <3>1, <1>3, <1>4, <1>5, <1>6
  <2>2. /\ Begins(in', p) /\ in' # << >>
        /\ n1 \in Nat /\ n1 > n /\ n1 <= n + k
        /\ wire' \in Seq(Nat) /\ ready' \in Nat /\ ready' <= Len(wire')
        /\ Carries(wire', sent, m, n1)
    <3> HIDE DEF k
    <3>1. n + k <= Size(sent[m + 1])
      BY <1>2, <2>1
    <3> QED BY <1>2, <1>8, <2>1, <3>1, ReadInto
  <2>3. n1 > d
    <3> HIDE DEF n, n1, d
    <3> QED BY <2>2, <1>3, <1>5
  <2>4. n1 < f + 2 => n1 < z
    <3> HIDE DEF n, n1, d, z, f
    <3> QED BY <2>2, <1>3, <1>4, <1>5, <1>6
  <2>5. pc' = IF n1 < f + 2 THEN "poll" ELSE "rest"
    BY <1>8
  <2>6. Good'
    <3>1. CASE n1 < f + 2
      <4>1. pc' = "poll" /\ n1 < z
        BY <2>4, <2>5, <3>1
      <4> QED BY <1>1, <1>2, <2>2, <4>1, ReadsOn
    <3>2. CASE ~(n1 < f + 2)
      <4>1. pc' = "rest"
        BY <2>5, <3>2
      <4> QED BY <1>1, <1>2, <2>2, <2>3, <4>1, ReadsOn
    <3> QED BY <3>1, <3>2
  <2>7. pc' # "failed"
    BY <2>5
  <2> QED BY <2>6, <2>7 DEF Safe
<1> QED BY <1>7, <1>8 DEF ReadTopicLength

(* TopicFits, where the topic is known, says of the packet what it does not   *)
(* quite mean to.                                                            *)
LEMMA FitsMeans ==
    ASSUME Framable, NEW p \in Packets, IsPublish(p.head), Begins(in, p),
           Len(in) > Len(Remaining(p)), TopicKnown
    PROVE  TopicFits <=> HeaderLength(p) <= InLength + 2
<1> DEFINE n == Len(in)
           d == Len(Remaining(p))
           h == 1 + d
           id == IF p.head = 50 THEN 2 ELSE 0
<1>1. FixedLength(in) = h /\ in[1] = p.head
  BY ParsedLength
<1>2. d \in Nat /\ InLength \in Nat
  BY EncShape, WireAssumption
<1>3. n >= 3 + d
  <2>1. n >= h + 2 /\ n \in Nat
    BY <1>1 DEF TopicKnown, Begins
  <2> HIDE DEF n, d
  <2> QED BY <2>1, <1>2
<1>4. TopicLength(in) = p.topic
  BY <1>3, ParsedTopic
<1>5. /\ p.topic \in Nat /\ p.head \in {48, 50}
      /\ HeaderLength(p) = h + 2 + p.topic + id
  BY PublishShape
<1>6. (IF Qos(in[1]) > 0 THEN 2 ELSE 0) = id
  <2>1. Qos(48) = 0 /\ Qos(50) = 1
    BY DEF Qos
  <2> QED BY <2>1, <1>1, <1>5
<1>7. TopicFits <=> h + p.topic + id <= InLength
  BY <1>1, <1>4, <1>6 DEF TopicFits
<1>8. id \in Nat
  OBVIOUS
<1> HIDE DEF h, id, n
<1>9. h \in Nat
  BY <1>2 DEF h
<1> DEFINE hl == HeaderLength(p)
<1>10. hl = h + 2 + p.topic + id
  BY <1>5
<1> HIDE DEF hl, d
<1>11. (h + p.topic + id <= InLength) <=> hl <= InLength + 2
  BY <1>2, <1>5, <1>8, <1>9, <1>10
<1> QED BY <1>7, <1>11 DEF hl

(* Only a publication is too long, and only one with a long header is       *)
(* refused.                                                                 *)
LEMMA TooBigSafe ==
    ASSUME Framable, sent \in Seq(Packets), Good, TooBig
    PROVE  Safe
<1> DEFINE p == Current
<1>1. /\ pc = "rest" /\ pc' = "failed" /\ TooLong
      /\ UNCHANGED << sent, taken, wire, ready, in >>
      /\ ~IsPublish(in[1]) \/ (TopicKnown /\ ~TopicFits)
  BY DEF TooBig, Receiving, sender
<1>2. /\ p \in Packets /\ Len(taken) < Len(sent) /\ Begins(in, p)
      /\ Carries(wire, sent, Len(taken), Len(in)) /\ in[1] = p.head /\ in # << >>
      /\ wire \in Seq(Nat) /\ ready \in Nat /\ ready <= Len(wire)
      /\ Len(in) > Len(Remaining(p))
  BY <1>1, PastHeader
<1>3. InLength < Size(p) /\ InLength >= 6 /\ InLength \in Nat /\ Size(p) \in Nat
  BY <1>1, PastHeader
<1>4. Good'
  BY <1>1, <1>2, ReadsOn
<1>5. IsPublish(p.head)
  <2>1. SUFFICES ASSUME ~IsPublish(p.head) PROVE FALSE
    OBVIOUS
  <2>2. Size(p) <= 5
    BY <1>2, <2>1, ShortSizes
  <2> HIDE DEF p
  <2> QED BY <1>3, <2>2
<1>6. HeaderLength(p) > InLength
  <2>1. TopicKnown /\ ~TopicFits
    BY <1>1, <1>2, <1>5
  <2>2. ~(HeaderLength(p) <= InLength + 2)
    BY <1>2, <1>5, <2>1, FitsMeans
  <2>3. HeaderLength(p) \in Nat
    <3> DEFINE h == 1 + Len(Remaining(p))
               id == IF p.head = 50 THEN 2 ELSE 0
    <3>1. h \in Nat /\ p.topic \in Nat /\ HeaderLength(p) = h + 2 + p.topic + id
      BY <1>2, <1>5, PublishShape
    <3>2. id \in Nat
      OBVIOUS
    <3> HIDE DEF h, id, p
    <3> QED BY <3>1, <3>2
  <2> HIDE DEF p
  <2> QED BY <2>2, <2>3, <1>3
<1> QED BY <1>4, <1>5, <1>6 DEF Safe, Cause

(* The rest ends with the packet, or fills the buffer.                      *)
LEMMA ReadRestSafe ==
    ASSUME Framable, sent \in Seq(Packets), Good, ReadRest
    PROVE  Safe
<1> DEFINE p == Current
           m == Len(taken)
           z == Size(p)
           n == Len(in)
           w == Wanted
           k == w - n
<1>1. /\ pc = "rest" /\ UNCHANGED << sent, taken >>
      /\ TooLong => IsPublish(in[1]) /\ TopicKnown /\ TopicFits
  BY DEF ReadRest, Receiving, sender
<1>2. /\ ~Idle /\ p \in Packets /\ m \in Nat /\ m < Len(sent) /\ p = sent[m + 1]
      /\ Reading(p) /\ Begins(in, p) /\ in # << >> /\ Carries(wire, sent, m, n)
      /\ wire \in Seq(Nat) /\ ready \in Nat /\ ready <= Len(wire)
      /\ in[1] = p.head /\ n > Len(Remaining(p))
  BY <1>1, PastHeader
<1>3. n \in Nat /\ n <= z /\ z \in Nat /\ InLength >= 6 /\ InLength \in Nat
  BY <1>1, PastHeader
<1>4. w = IF InLength < z THEN InLength ELSE z
  BY <1>1, PastHeader DEF Wanted
<1>5. InLength < z => IsPublish(p.head) /\ HeaderLength(p) <= InLength + 2
  <2>1. SUFFICES ASSUME InLength < z PROVE IsPublish(p.head) /\ HeaderLength(p) <= InLength + 2
    OBVIOUS
  <2>2. TooLong
    BY <2>1, <1>1, PastHeader
  <2>3. IsPublish(p.head) /\ TopicKnown /\ TopicFits
    BY <1>1, <1>2, <2>2
  <2> QED BY <1>2, <2>3, FitsMeans
<1> HIDE DEF w
<1>6. w \in Nat /\ w <= z
  <2> HIDE DEF z
  <2> QED BY <1>3, <1>4
<1>7. ASSUME NEW x \in Nat, x >= w, x <= z
      PROVE  \/ x = z
             \/ /\ InLength < z /\ IsPublish(p.head)
                /\ x >= InLength /\ HeaderLength(p) <= InLength + 2
  <2>1. CASE InLength < z
    <3>1. w = InLength
      BY <1>4, <2>1
    <3> QED BY <1>5, <1>7, <2>1, <3>1
  <2>2. CASE ~(InLength < z)
    <3>1. w = z
      BY <1>4, <2>2
    <3>2. x = z
      <4> HIDE DEF z
      <4> QED BY <1>3, <1>7, <3>1
    <3> QED BY <3>2
  <2> QED BY <2>1, <2>2
<1>8. CASE n >= w /\ pc' = "dispatch" /\ UNCHANGED << wire, ready, in >>
  <2>1. \/ n = z
        \/ /\ InLength < z /\ IsPublish(p.head)
           /\ n >= InLength /\ HeaderLength(p) <= InLength + 2
    BY <1>3, <1>7, <1>8
  <2>2. Good'
    BY <1>1, <1>2, <1>8, <2>1, ReadsOn
  <2> QED BY <1>8, <2>2 DEF Safe
<1>9. CASE n < w /\ NothingYet
  <2>1. n < z
    <3> HIDE DEF n, z
    <3> QED BY <1>3, <1>6, <1>9
  <2> QED BY <1>1, <1>2, <2>1, <1>9, NothingSafe
<1>10. CASE /\ n < w /\ Read(k)
            /\ in' = in \o Bytes(k)
            /\ pc' = IF Len(in') < w THEN "poll" ELSE "dispatch"
  <2> DEFINE n1 == Len(in')
  <2>1. k \in Nat /\ k >= 1 /\ n + k = w
    <3> HIDE DEF n
    <3> QED BY <1>3, <1>6, <1>10
  <2>2. /\ Begins(in', p) /\ in' # << >>
        /\ n1 \in Nat /\ n1 > n /\ n1 <= n + k
        /\ wire' \in Seq(Nat) /\ ready' \in Nat /\ ready' <= Len(wire')
        /\ Carries(wire', sent, m, n1)
    <3>1. n + k <= Size(sent[m + 1])
      BY <1>2, <1>6, <2>1
    <3>2. Read(k) /\ in' = in \o Bytes(k)
      BY <1>10
    <3> HIDE DEF k
    <3> QED BY <1>2, <2>1, <3>1, <3>2, ReadInto
  <2>3. n1 > Len(Remaining(p)) /\ n1 <= z
    <3>1. Len(Remaining(p)) \in Nat
      BY <1>2, EncShape
    <3>2. n1 <= z
      BY <2>2 DEF Begins
    <3> DEFINE d == Len(Remaining(p))
    <3>3. n1 > d
      <4>1. n > d /\ d \in Nat
        BY <1>2, <3>1
      <4> HIDE DEF n, n1, d
      <4> QED BY <4>1, <1>3, <2>2
    <3> QED BY <3>2, <3>3
  <2>4. pc' = IF n1 < w THEN "poll" ELSE "dispatch"
    BY <1>10
  <2>5. CASE n1 < w
    <3>1. pc' = "poll" /\ n1 < z
      <4>1. pc' = "poll"
        BY <2>4, <2>5
      <4>2. n1 < z
        <5> HIDE DEF n1, z
        <5> QED BY <1>3, <1>6, <2>2, <2>5
      <4> QED BY <4>1, <4>2
    <3>2. Good'
      BY <1>1, <1>2, <2>2, <3>1, ReadsOn
    <3> QED BY <3>1, <3>2 DEF Safe
  <2>6. CASE ~(n1 < w)
    <3>1. pc' = "dispatch"
      BY <2>4, <2>6
    <3>2. n1 >= w
      <4> HIDE DEF n1
      <4> QED BY <1>6, <2>2, <2>6
    <3>3. \/ n1 = z
          \/ /\ InLength < z /\ IsPublish(p.head)
             /\ n1 >= InLength /\ HeaderLength(p) <= InLength + 2
      BY <1>7, <2>2, <2>3, <3>2
    <3>4. Good'
      BY <1>1, <1>2, <2>2, <2>3, <3>1, <3>3, ReadsOn
    <3> QED BY <3>1, <3>4 DEF Safe
  <2> QED BY <2>5, <2>6
<1> QED BY <1>8, <1>9, <1>10 DEF ReadRest, w

(* deliver_publish and the others, once a message is there.                  *)
LEMMA DispatchSafe ==
    ASSUME Framable, sent \in Seq(Packets), Good, Dispatch
    PROVE  Safe
<1> DEFINE p == Current
           m == Len(taken)
           z == Size(p)
           n == Len(in)
           hl == HeaderLength(p)
<1>1. /\ pc = "dispatch" /\ UNCHANGED << sent, wire, ready >>
      /\ IsPublish(in[1]) => HasTopic(in)
  BY DEF Dispatch, sender
<1>2. /\ p \in Packets /\ m \in Nat /\ m < Len(sent) /\ p = sent[m + 1]
      /\ Reading(p) /\ Begins(in, p) /\ in # << >> /\ Carries(wire, sent, m, n)
      /\ wire \in Seq(Nat) /\ ready \in Nat /\ ready <= Len(wire)
      /\ in[1] = p.head /\ n > Len(Remaining(p)) /\ TotalLength(in) = z
  BY <1>1, PastHeader
<1>3. n \in Nat /\ n <= z /\ z \in Nat /\ InLength >= 6 /\ InLength \in Nat
  BY <1>1, PastHeader
<1>4. Event \in Events /\ Event.head = p.head
  BY <1>2, EventTyped
<1>5. n = z \/ LongRead(p)
  BY <1>1, <1>2 DEF Reading
<1>6. IsPublish(p.head) => hl \in Nat /\ z = hl + p.data /\ p.data \in Nat
  <2>1. SUFFICES ASSUME IsPublish(p.head) PROVE hl \in Nat /\ z = hl + p.data /\ p.data \in Nat
    OBVIOUS
  <2> DEFINE h == 1 + Len(Remaining(p))
             id == IF p.head = 50 THEN 2 ELSE 0
  <2>2. /\ h \in Nat /\ p.topic \in Nat /\ hl = h + 2 + p.topic + id
        /\ z = hl + p.data /\ p.data \in Nat
    BY <1>2, <2>1, PublishShape
  <2>3. id \in Nat
    OBVIOUS
  <2> HIDE DEF h, id, p, hl, z
  <2> QED BY <2>2, <2>3
<1>7. CASE IsPublish(in[1]) /\ n < TotalLength(in)
  <2>1. /\ event' = Event /\ left' = z - n /\ pc' = "data"
        /\ in' = in /\ taken' = taken
    BY <1>2, <1>7 DEF Dispatch
  <2>2. IsPublish(p.head) /\ n < z
    BY <1>2, <1>7
  <2>3. /\ InLength < z /\ n >= InLength /\ hl <= InLength + 2
    <3>1. n # z
      <4> HIDE DEF n, z
      <4> QED BY <2>2, <1>3
    <3> QED BY <3>1, <1>5 DEF LongRead
  <2>4. left' \in Nat /\ left' >= 1 /\ left' <= z /\ z - left' = n
    <3> HIDE DEF n, z
    <3> QED BY <2>1, <2>2, <1>3
  <2>5. ASSUME ~Straddles(p)
        PROVE  left' <= p.data /\ event' = [Meant(p) EXCEPT !.data = Content(p.data - left')]
    <3>1. hl <= InLength
      <4>1. ~(hl - InLength \in 1 .. 2)
        BY <2>2, <2>5 DEF Straddles
      <4>2. hl \in Nat
        BY <2>2, <1>6
      <4> HIDE DEF hl
      <4> QED BY <4>1, <4>2, <2>3, <1>3
    <3>2. n >= hl
      <4>1. hl \in Nat
        BY <2>2, <1>6
      <4> HIDE DEF hl, n
      <4> QED BY <4>1, <3>1, <2>3, <1>3
    <3>3. Event = [Meant(p) EXCEPT !.data = Content(n - hl)]
      BY <1>2, <2>2, <3>2, ParsedPublish
    <3>4. left' <= p.data /\ n - hl = p.data - left'
      <4>1. hl \in Nat /\ z = hl + p.data /\ p.data \in Nat
        BY <2>2, <1>6
      <4> DEFINE t == p.data
      <4>2. left' <= t /\ n - hl = t - left'
        <5>1. hl \in Nat /\ z = hl + t /\ t \in Nat
          BY <4>1
        <5> HIDE DEF hl, n, z, t
        <5> QED BY <5>1, <2>1, <1>3, <3>2
      <4> QED BY <4>2
    <3> QED BY <2>1, <3>3, <3>4
  <2>6. Given(p)'
    <3>1. /\ IsPublish(p.head) /\ left' \in Nat /\ left' >= 1 /\ left' <= Size(p)
          /\ event' \in Events /\ event'.head = p.head
      BY <1>4, <2>1, <2>2, <2>4
    <3>2. p' = p
      BY <1>1, <2>1 DEF Current
    <3> HIDE DEF p
    <3> QED BY <3>1, <3>2, <2>5 DEF Given
  <2>7. Current' = p
    BY <1>1, <2>1 DEF Current
  <2>8. Reading(Current)'
    <3>1. /\ in' # << >> /\ pc' # "first" /\ Begins(in', p) /\ pc' = "data"
      BY <1>2, <2>1
    <3>2. Given(Current)'
      BY <2>6
    <3> QED BY <3>1, <3>2, <2>7 DEF Reading
  <2>9. Gone' = n
    BY <2>1, <2>4, <2>7 DEF Gone
  <2>10. TakenRight'
    BY <1>1, <2>1 DEF Good, TakenRight
  <2>11. Good'
    BY <1>1, <1>2, <2>1, <2>8, <2>9, <2>10 DEF Good
  <2> QED BY <2>1, <2>11 DEF Safe
<1>8. CASE ~(IsPublish(in[1]) /\ n < TotalLength(in))
  <2>1. Done(Event)
    BY <1>8 DEF Dispatch
  <2>2. n = z
    <3>1. IsPublish(p.head) => ~(n < z)
      BY <1>2, <1>8
    <3>2. ~IsPublish(p.head) => n = z
      BY <1>5 DEF LongRead
    <3> HIDE DEF n, z
    <3> QED BY <3>1, <3>2, <1>3
  <2>3. Event = Meant(p)
    <3>1. CASE IsPublish(p.head)
      <4>1. hl \in Nat /\ z = hl + p.data /\ p.data \in Nat
        BY <3>1, <1>6
      <4>2. n >= hl /\ n - hl = p.data
        <5> DEFINE t == p.data
        <5>1. hl \in Nat /\ z = hl + t /\ t \in Nat
          BY <4>1
        <5>2. n >= hl /\ n - hl = t
          <6> HIDE DEF n, hl, z, t
          <6> QED BY <5>1, <2>2
        <5> QED BY <5>2
      <4>3. Event = [Meant(p) EXCEPT !.data = Content(p.data)]
        BY <1>2, <3>1, <4>2, ParsedPublish
      <4>4. p = [head |-> p.head, topic |-> p.topic, id |-> p.id, data |-> p.data]
        BY <1>2, PacketKinds
      <4>5. Meant(p) = [head |-> p.head, topic |-> p.topic, id |-> p.id, data |-> Content(p.data)]
        BY <3>1, <4>4 DEF Meant
      <4> QED BY <4>3, <4>5
    <3>2. CASE ~IsPublish(p.head)
      BY <1>2, <2>2, <3>2, ParsedControl
    <3> QED BY <3>1, <3>2
  <2>4. Carries(wire, sent, m, z)
    BY <1>2, <2>2
  <2>5. Good'
    BY <1>1, <1>2, <1>4, <2>1, <2>3, <2>4, HandsOn
  <2>6. pc' = "poll"
    BY <2>1 DEF Done
  <2> QED BY <2>5, <2>6 DEF Safe
<1> QED BY <1>7, <1>8

(* A topic that is not in the buffer: the header is longer than the buffer.   *)
LEMMA NoTopicSafe ==
    ASSUME Framable, sent \in Seq(Packets), Good, NoTopic
    PROVE  Safe
<1> DEFINE p == Current
           n == Len(in)
           hl == HeaderLength(p)
<1>1. /\ pc = "dispatch" /\ UNCHANGED << sent, taken, wire, ready, in >> /\ pc' = "failed"
      /\ IsPublish(in[1]) /\ ~HasTopic(in)
  BY DEF NoTopic, sender
<1>2. /\ p \in Packets /\ Len(taken) < Len(sent)
      /\ Reading(p) /\ Begins(in, p) /\ in # << >> /\ Carries(wire, sent, Len(taken), n)
      /\ wire \in Seq(Nat) /\ ready \in Nat /\ ready <= Len(wire)
      /\ in[1] = p.head
  BY <1>1, PastHeader
<1>3. n \in Nat /\ Size(p) \in Nat /\ InLength \in Nat
  BY <1>1, PastHeader
<1>4. IsPublish(p.head) /\ ~(n >= hl)
  BY <1>1, <1>2, ParsedPublish
<1>5. hl \in Nat /\ hl <= Size(p)
  <2> DEFINE h == 1 + Len(Remaining(p))
             id == IF p.head = 50 THEN 2 ELSE 0
             t == p.data
             z == Size(p)
  <2>1. /\ h \in Nat /\ p.topic \in Nat /\ hl = h + 2 + p.topic + id
        /\ z = hl + t /\ t \in Nat
    BY <1>2, <1>4, PublishShape
  <2>2. id \in Nat
    OBVIOUS
  <2>3. hl \in Nat /\ hl <= z
    <3> HIDE DEF h, id, p, hl, z, t
    <3> QED BY <2>1, <2>2
  <2> QED BY <2>3
<1>6. n # Size(p)
  <2> HIDE DEF n, hl
  <2> QED BY <1>4, <1>5
<1>7. n >= InLength
  BY <1>1, <1>2, <1>6 DEF Reading, LongRead
<1>8. hl > InLength
  <2> HIDE DEF n, hl
  <2> QED BY <1>3, <1>4, <1>5, <1>7
<1>9. Good'
  BY <1>1, <1>2, ReadsOn
<1> QED BY <1>4, <1>8, <1>9 DEF Safe, Cause

(* Changing the data of an event leaves the other fields.                    *)
LEMMA OtherData ==
    ASSUME NEW h, NEW t, NEW i, NEW d, NEW x,
           NEW e, e = [head |-> h, topic |-> t, id |-> i, data |-> d]
    PROVE  [e EXCEPT !.data = x] = [head |-> h, topic |-> t, id |-> i, data |-> x]
  OBVIOUS

(* The next bytes of a long publication are the next of its data.            *)
LEMMA MoreDataSafe ==
    ASSUME Framable, sent \in Seq(Packets), Good, MoreData
    PROVE  Safe
<1> DEFINE p == Current
           m == Len(taken)
           z == Size(p)
           n == IF left > InLength THEN InLength ELSE left
           g == z - left
           b == Bytes(n)
           e == [event EXCEPT !.data = @ \o b]
<1>1. /\ pc = "data" /\ UNCHANGED << sent >> /\ Read(n) /\ left' = left - Len(b)
      /\ IF left' = 0 THEN Done(e) ELSE event' = e /\ UNCHANGED << in, pc, taken >>
  BY DEF MoreData, sender
<1>2. ~Idle
  BY <1>1 DEF Idle
<1>3. /\ p \in Packets /\ m \in Nat /\ m < Len(sent) /\ p = sent[m + 1]
      /\ Reading(p) /\ Begins(in, p) /\ in # << >>
  BY <1>2, InTheMiddle DEF Reading, Current
<1>4. Given(p)
  BY <1>1, <1>3 DEF Reading
<1>5. /\ IsPublish(p.head) /\ left \in Nat /\ left >= 1 /\ left <= z
      /\ event \in Events /\ event.head = p.head
  BY <1>4 DEF Given
<1>6. /\ wire \in Seq(Nat) /\ ready \in Nat /\ ready <= Len(wire)
      /\ Carries(wire, sent, m, g)
  BY <1>1 DEF Good, Gone
<1>7. z \in Nat /\ InLength \in Nat /\ InLength >= 6
  <2>1. z \in Nat
    BY <1>3, EncShape
  <2> QED BY <2>1, WireAssumption
<1>8. g \in Nat /\ n \in Nat /\ n >= 1 /\ n <= left /\ g + n <= z
  <2> HIDE DEF z
  <2> QED BY <1>5, <1>7
<1>9. PICK k \in Nat :
             /\ k >= 1 /\ k <= n
             /\ b \in Seq(Nat) /\ Len(b) = k
             /\ \A i \in 1 .. k : b[i] = Enc(p)[g + i]
             /\ wire' \in Seq(Nat) /\ ready' \in Nat /\ ready' <= Len(wire')
             /\ Carries(wire', sent, m, g + k)
  <2>1. g + n <= Size(sent[m + 1]) /\ sent[m + 1] = p
    BY <1>3, <1>8
  <2>2. sent \in Seq(Packets) /\ Read(n)
    BY <1>1
  <2> HIDE DEF g, n, p
  <2> QED BY <1>3, <1>6, <1>8, <2>1, <2>2, ReadSome DEF b
<1>10. left' \in Nat /\ left' = left - k /\ g + k = z - left' /\ left' <= z
  <2>1. left' = left - k /\ k \in Nat /\ k >= 1 /\ k <= n
    BY <1>1, <1>9
  <2>2. left \in Nat /\ left <= z /\ z \in Nat /\ n \in Nat /\ n <= left
    BY <1>5, <1>7, <1>8
  <2> HIDE DEF z, n, b
  <2> QED BY <2>1, <2>2
<1> HIDE DEF b, n
<1>11. event = [head |-> event.head, topic |-> event.topic, id |-> event.id, data |-> event.data]
  BY <1>5 DEF Events
<1>12. e = [head |-> event.head, topic |-> event.topic, id |-> event.id, data |-> event.data \o b]
  <2> DEFINE x == event.data \o b
  <2>1. e = [event EXCEPT !.data = x]
    OBVIOUS
  <2> HIDE DEF x, e
  <2>2. [event EXCEPT !.data = x] =
            [head |-> event.head, topic |-> event.topic, id |-> event.id, data |-> x]
    BY <1>11, OtherData
  <2> QED BY <2>1, <2>2 DEF x
<1>13. e \in Events /\ e.head = p.head
  <2>1. event.data \o b \in Seq(Nat)
    BY <1>5, <1>9 DEF Events
  <2>2. event.head \in Nat /\ event.topic \in Nat /\ event.id \in Nat \X Nat
    BY <1>5 DEF Events
  <2> DEFINE c == event.data \o b
  <2>3. e = [head |-> event.head, topic |-> event.topic, id |-> event.id, data |-> c]
    BY <1>12
  <2> HIDE DEF c, e
  <2>4. c \in Seq(Nat)
    BY <2>1 DEF c
  <2> QED BY <2>2, <2>3, <2>4, <1>5 DEF Events
<1>14. ASSUME ~Straddles(p)
       PROVE  left' <= p.data /\ e = [Meant(p) EXCEPT !.data = Content(p.data - left')]
  <2> DEFINE t == p.data
             hl == HeaderLength(p)
             c == Content(t - left)
             c1 == Content(t - left')
  <2>1. left <= t /\ event = [Meant(p) EXCEPT !.data = c]
    BY <1>4, <1>14 DEF Given
  <2>2. t \in Nat /\ z = hl + t /\ hl \in Nat
    <3> DEFINE h == 1 + Len(Remaining(p))
               id == IF p.head = 50 THEN 2 ELSE 0
    <3>1. /\ h \in Nat /\ p.topic \in Nat /\ hl = h + 2 + p.topic + id
          /\ z = hl + t /\ t \in Nat
      BY <1>3, <1>5, PublishShape
    <3>2. id \in Nat
      OBVIOUS
    <3> HIDE DEF h, id, p, hl, z, t
    <3> QED BY <3>1, <3>2
  <2>3. \A i \in hl + 1 .. z : Enc(p)[i] = Content(t)[i - hl]
    BY <1>3, <1>5, PublishShape
  <2>4. t - left \in Nat /\ t - left' \in Nat /\ left' <= t /\ t - left' = (t - left) + k
    <3> HIDE DEF t, hl, z
    <3> QED BY <1>5, <1>10, <2>1, <2>2
  <2>5. /\ c \in Seq(Nat) /\ Len(c) = t - left /\ c1 \in Seq(Nat) /\ Len(c1) = t - left'
        /\ \A i \in 1 .. t - left : c[i] = i % (2 * Base)
        /\ \A i \in 1 .. t - left' : c1[i] = i % (2 * Base)
        /\ \A i \in 1 .. t : Content(t)[i] = i % (2 * Base)
    BY <2>2, <2>4, ContentShape
  <2> HIDE DEF c, c1
  <2> DEFINE cb == c \o b
  <2>6. /\ cb \in Seq(Nat) /\ Len(cb) = Len(c) + Len(b)
        /\ \A i \in 1 .. Len(c) : cb[i] = c[i]
        /\ \A i \in Len(c) + 1 .. Len(c) + Len(b) : cb[i] = b[i - Len(c)]
    BY <1>9, <2>5, InARow
  <2> HIDE DEF cb
  <2>7. Len(cb) = t - left'
    <3> DEFINE lc == Len(c)
               lb == Len(b)
    <3>1. Len(cb) = lc + lb /\ lc = t - left /\ lb = k
      BY <1>9, <2>5, <2>6
    <3> HIDE DEF lc, lb, t, z
    <3> QED BY <3>1, <2>4
  <2>8. ASSUME NEW i \in 1 .. t - left' PROVE cb[i] = i % (2 * Base)
    <3> DEFINE a == t - left
    <3>1. CASE i <= a
      <4>1. i \in 1 .. a
        <5> HIDE DEF t, a
        <5> QED BY <2>4, <3>1 DEF a
      <4> QED BY <4>1, <2>5, <2>6
    <3>2. CASE ~(i <= a)
      <4> DEFINE j == i - a
      <4>1. /\ i \in a + 1 .. a + k /\ j \in 1 .. k
            /\ g + j \in hl + 1 .. z /\ (g + j) - hl = i /\ i \in 1 .. t
        <5>1. a \in Nat /\ t - left' = a + k
          BY <2>4
        <5>2. i \in Nat /\ i >= 1 /\ i <= a + k /\ ~(i <= a) /\ a = t - left /\ g = z - left
          BY <3>2, <2>4, <5>1
        <5>3. /\ left \in Nat /\ left' \in Nat /\ left <= t /\ t \in Nat /\ k \in Nat
              /\ z = hl + t /\ hl \in Nat /\ t - left' = (t - left) + k
          BY <1>5, <1>9, <1>10, <2>1, <2>2, <2>4
        <5> HIDE DEF t, z, hl, g, a
        <5>4. /\ j \in Nat /\ i \in a + 1 .. a + k /\ j \in 1 .. k
          BY <5>1, <5>2, <5>3
        <5>5. g + j = hl + i
          BY <5>1, <5>2, <5>3
        <5>6. i <= t
          <6>1. t - left' = a + k /\ left' \in Nat /\ t \in Nat /\ a \in Nat /\ k \in Nat
            BY <5>1, <5>3
          <6>4. \A x, y, u, v \in Nat : u - v = x + y => x + y <= u
            OBVIOUS
          <6>2. a + k <= t
            BY <6>1, <6>4
          <6>3. i \in Nat /\ i <= a + k
            BY <5>2
          <6> QED BY <6>1, <6>2, <6>3
        <5> HIDE DEF j
        <5>7. g + j \in hl + 1 .. z /\ (g + j) - hl = i
          BY <5>2, <5>3, <5>5, <5>6
        <5> QED BY <5>2, <5>3, <5>4, <5>6, <5>7
      <4>2. cb[i] = b[j]
        <5>1. Len(c) = a /\ Len(b) = k
          BY <1>9, <2>5
        <5> QED BY <5>1, <4>1, <2>6
      <4>3. b[j] = Enc(p)[g + j]
        <5> HIDE DEF j
        <5> QED BY <1>9, <4>1
      <4>4. Enc(p)[g + j] = Content(t)[i]
        <5>1. g + j \in hl + 1 .. z /\ (g + j) - hl = i
          BY <4>1
        <5> HIDE DEF j, g, hl
        <5> QED BY <5>1, <2>3
      <4> QED BY <2>5, <4>1, <4>2, <4>3, <4>4
    <3> QED BY <3>1, <3>2
  <2>9. cb = c1
    <3>1. Len(cb) = Len(c1)
      BY <2>5, <2>7
    <3>2. \A i \in 1 .. Len(cb) : cb[i] = c1[i]
      BY <2>5, <2>7, <2>8
    <3> QED BY <2>5, <2>6, <3>1, <3>2, SameSequence
  <2>10. p = [head |-> p.head, topic |-> p.topic, id |-> p.id, data |-> p.data]
    BY <1>3, PacketKinds
  <2>11. \A x : [Meant(p) EXCEPT !.data = x] =
                  [head |-> p.head, topic |-> p.topic, id |-> p.id, data |-> x]
    <3>1. TAKE x
    <3> DEFINE c0 == Content(p.data)
               q  == Meant(p)
    <3>2. q = [p EXCEPT !.data = c0]
      BY <1>5 DEF Meant
    <3> HIDE DEF q, c0
    <3>3. q = [head |-> p.head, topic |-> p.topic, id |-> p.id, data |-> c0]
      BY <2>10, <3>2, OtherData
    <3>4. [q EXCEPT !.data = x] = [head |-> p.head, topic |-> p.topic, id |-> p.id, data |-> x]
      BY <3>3, OtherData
    <3> QED BY <3>4 DEF q
  <2>12. event = [head |-> p.head, topic |-> p.topic, id |-> p.id, data |-> c]
    BY <2>1, <2>11
  <2>13. e = [head |-> p.head, topic |-> p.topic, id |-> p.id, data |-> cb]
    <3>1. event.head = p.head /\ event.topic = p.topic /\ event.id = p.id /\ event.data = c
      <4> DEFINE h == p.head
                 i == p.topic
                 j == p.id
      <4>1. event = [head |-> h, topic |-> i, id |-> j, data |-> c]
        BY <2>12
      <4> HIDE DEF h, i, j
      <4>2. event.head = h /\ event.topic = i /\ event.id = j /\ event.data = c
        BY <4>1
      <4> QED BY <4>2 DEF h, i, j
    <3> HIDE DEF e
    <3> QED BY <1>12, <3>1 DEF cb
  <2> QED BY <2>4, <2>9, <2>11, <2>13 DEF c1
<1> HIDE DEF e
<1>15. CASE left' = 0
  <2>1. Done(e) /\ sent' = sent
    BY <1>1, <1>15
  <2>2. Carries(wire', sent, m, z)
    <3>1. g + k = z
      <4> HIDE DEF g, z
      <4>1. g + k = z - 0 /\ z \in Nat
        BY <1>7, <1>10, <1>15
      <4> QED BY <4>1
    <3> QED BY <3>1, <1>9
  <2>3. e = Meant(p) \/ (Straddles(p) /\ e.head = p.head)
    <3>1. ASSUME ~Straddles(p) PROVE e = Meant(p)
      <4>1. e = [Meant(p) EXCEPT !.data = Content(p.data - 0)]
        BY <1>14, <1>15, <3>1
      <4>2. p.data - 0 = p.data
        <5>1. p.data \in Nat
          BY <1>3, PacketKinds
        <5> QED BY <5>1
      <4>3. p = [head |-> p.head, topic |-> p.topic, id |-> p.id, data |-> p.data]
        BY <1>3, PacketKinds
      <4>4. Meant(p) = [head |-> p.head, topic |-> p.topic, id |-> p.id, data |-> Content(p.data)]
        BY <1>5, <4>3 DEF Meant
      <4> QED BY <4>1, <4>2, <4>4
    <3> QED BY <3>1, <1>13
  <2>4. Good'
    BY <1>3, <1>9, <1>13, <2>1, <2>2, <2>3, HandsOn
  <2>5. pc' = "poll"
    BY <2>1 DEF Done
  <2> QED BY <2>4, <2>5 DEF Safe
<1>16. CASE left' # 0
  <2>1. event' = e /\ UNCHANGED << sent, in, pc, taken >>
    BY <1>1, <1>16
  <2>2. left' >= 1
    BY <1>10, <1>16
  <2>3. Current' = p
    BY <2>1 DEF Current
  <2>4. Given(p)'
    <3>1. /\ IsPublish(p.head) /\ left' \in Nat /\ left' >= 1 /\ left' <= Size(p)
          /\ event' \in Events /\ event'.head = p.head
      BY <1>5, <1>10, <1>13, <2>1, <2>2
    <3>2. ~Straddles(p) =>
        /\ left' <= p.data
        /\ event' = [Meant(p) EXCEPT !.data = Content(p.data - left')]
      BY <1>14, <2>1
    <3>3. p' = p
      BY <2>3
    <3> HIDE DEF p
    <3> QED BY <3>1, <3>2, <3>3 DEF Given
  <2>5. Reading(Current)'
    <3>1. /\ in' # << >> /\ pc' # "first" /\ Begins(in', p) /\ pc' = "data"
      BY <1>1, <1>3, <2>1
    <3>2. Given(Current)'
      BY <2>4
    <3> QED BY <3>1, <3>2, <2>3 DEF Reading
  <2>6. Gone' = g + k
    BY <1>1, <1>10, <2>1, <2>3 DEF Gone
  <2>7. TakenRight'
    BY <2>1 DEF Good, TakenRight
  <2>8. Good'
    BY <1>1, <1>3, <1>9, <2>1, <2>5, <2>6, <2>7 DEF Good
  <2> QED BY <1>1, <2>1, <2>8 DEF Safe
<1> QED BY <1>15, <1>16

(* After a connection that failed both ends begin anew.                      *)
LEMMA ReconnectSafe ==
    ASSUME Framable, sent \in Seq(Packets), Reconnect
    PROVE  Good'
<1>1. /\ sent' = sent /\ wire' = << >> /\ ready' = 0 /\ in' = << >> /\ pc' = "poll"
      /\ taken' = [k \in DOMAIN sent |-> Meant(sent[k])]
  BY DEF Reconnect
<1>2. Len(sent) \in Nat /\ DOMAIN sent = 1 .. Len(sent) /\ \A k \in 1 .. Len(sent) : sent[k] \in Packets
  OBVIOUS
<1>3. taken' \in [1 .. Len(sent) -> Events]
  <2>1. \A k \in 1 .. Len(sent) : Meant(sent[k]) \in Events
    BY <1>2, MeantTyped
  <2> QED BY <2>1, <1>1, <1>2
<1>4. taken' \in Seq(Events) /\ Len(taken') = Len(sent)
  BY <1>2, <1>3
<1>5. TakenRight'
  BY <1>1, <1>2, <1>4 DEF TakenRight
<1>6. Len(<< >>) = 0 /\ << >> \in Seq(Nat)
  OBVIOUS
<1>7. Idle' /\ Gone' = 0
  BY <1>1, <1>6 DEF Idle, Gone
<1>8. Carries(wire', sent', Len(taken'), Gone')
  BY <1>1, <1>4, <1>7, CarriesNone
<1>9. ready' \in Nat /\ ready' <= Len(wire')
  BY <1>1, <1>6
<1> QED BY <1>1, <1>4, <1>5, <1>6, <1>7, <1>8, <1>9 DEF Good

(* Bytes arrive, or nothing happens: what Good speaks of is as it was.        *)
LEMMA StaysGood ==
    ASSUME Good, UNCHANGED << sent, wire, in, pc, event, left, taken >>,
           ready' \in Nat, ready' <= Len(wire')
    PROVE  Good'
<1>1. Current' = Current /\ Gone' = Gone /\ TakenRight' /\ (Idle' <=> Idle)
  <2>1. Current' = Current
    BY DEF Current
  <2>2. Gone' = Gone
    BY <2>1 DEF Gone
  <2>3. TakenRight'
    BY DEF Good, TakenRight
  <2>4. Idle' <=> Idle
    BY DEF Idle
  <2> QED BY <2>1, <2>2, <2>3, <2>4
<1>2. Reading(Current) => Reading(Current)'
  BY <1>1 DEF Reading, LongRead, Given
<1> QED BY <1>1, <1>2 DEF Good

(* The sender, whatever the reader is doing.                                 *)
LEMMA SendSafe ==
    ASSUME Framable, WireInv, NEW p \in Packets,
           Publish(p) \/ Enqueue(p) \/ EnqueueUnstored(p) \/ Control(p)
    PROVE  WireInv' /\ pc' = pc
<1>1. /\ sent \in Seq(Packets) /\ clear \in BOOLEAN /\ cut \in BOOLEAN /\ astray \in BOOLEAN
      /\ Untouched => Good
  BY DEF WireInv
<1>2. ASSUME NEW bytes, Writes(p, bytes), clear' \in BOOLEAN,
             clear' => clear /\ bytes = Enc(p)
      PROVE  WireInv' /\ pc' = pc
  <2>1. sent' = Append(sent, p) /\ UNCHANGED << cut, astray, pc >>
    BY <1>2 DEF Writes
  <2>2. sent' \in Seq(Packets)
    BY <1>1, <2>1
  <2>3. ASSUME Untouched' PROVE Good'
    <3>1. Untouched /\ bytes = Enc(p)
      BY <1>2, <2>1, <2>3 DEF Untouched
    <3>2. Good /\ Writes(p, Enc(p))
      BY <1>1, <1>2, <3>1
    <3> QED BY <1>1, <3>2, Written
  <2> QED BY <1>1, <1>2, <2>1, <2>2, <2>3 DEF WireInv
<1>3. CASE Publish(p)
  <2>1. /\ Fits(p) /\ Writes(p, FirstPiece(p) \o Rest(p))
        /\ clear' = (clear /\ (Fragmented(p) \/ offset = 0))
    BY <1>3 DEF Publish
  <2>2. clear' => clear /\ FirstPiece(p) \o Rest(p) = Enc(p)
    BY <2>1, PublishedWhole
  <2>3. clear' \in BOOLEAN
    BY <2>1
  <2> QED BY <1>2, <2>1, <2>2, <2>3
<1>4. CASE Enqueue(p)
  <2> DEFINE bytes == FirstPiece(p) \o (IF Fragmented(p) THEN Rest(p) ELSE << >>)
  <2>1. Fits(p) /\ Writes(p, bytes) /\ clear' = clear
    BY <1>4 DEF Enqueue
  <2>2. bytes = Enc(p)
    BY <2>1, EnqueuedWhole
  <2> HIDE DEF bytes
  <2> QED BY <1>1, <1>2, <2>1, <2>2
<1>5. CASE EnqueueUnstored(p)
  <2>1. /\ UNCHANGED << sent, clear, wire, ready, in, pc, event, left, taken, cut, astray >>
    BY <1>5 DEF EnqueueUnstored
  <2>2. ASSUME Good PROVE Good'
    <3>1. ready' \in Nat /\ ready' <= Len(wire')
      BY <2>1, <2>2 DEF Good
    <3> QED BY <2>1, <2>2, <3>1, StaysGood
  <2> QED BY <1>1, <2>1, <2>2 DEF WireInv, Untouched
<1>6. CASE Control(p)
  <2> DEFINE bytes == Finished(p, Variable(p), total)
  <2>1. ~IsPublish(p.head) /\ Writes(p, bytes) /\ clear' = (clear /\ total = 0)
    BY <1>6 DEF Control
  <2>2. clear' => clear /\ bytes = Enc(p)
    BY <2>1, ControlWhole
  <2>3. clear' \in BOOLEAN
    BY <2>1
  <2> HIDE DEF bytes
  <2> QED BY <1>2, <2>1, <2>2, <2>3
<1> QED BY <1>3, <1>4, <1>5, <1>6

(* At the start nothing is on the way and nothing has been read.            *)
LEMMA InitSafe == Framable /\ Init => WireInv
<1> SUFFICES ASSUME Framable, Init PROVE WireInv
  OBVIOUS
<1>1. /\ sent = << >> /\ clear = TRUE /\ wire = << >> /\ ready = 0 /\ in = << >>
      /\ pc = "poll" /\ taken = << >> /\ cut = FALSE /\ astray = FALSE
  BY DEF Init
<1>2. sent \in Seq(Packets) /\ wire \in Seq(Nat) /\ in \in Seq(Nat) /\ taken \in Seq(Events)
  BY <1>1
<1>3. Len(sent) = 0 /\ Len(wire) = 0 /\ Len(in) = 0 /\ Len(taken) = 0
  BY <1>1
<1>4. Carries(wire, sent, Len(taken), Gone)
  <2>1. Gone = 0
    BY <1>1, <1>3 DEF Gone
  <2>2. Carries(<< >>, sent, Len(sent), 0)
    BY <1>2, CarriesNone
  <2> QED BY <1>1, <1>3, <2>1, <2>2
<1>5. TakenRight
  BY <1>3 DEF TakenRight
<1>6. Idle
  BY <1>1 DEF Idle
<1>7. ready \in Nat /\ ready <= Len(wire)
  BY <1>1, <1>3
<1>8. Good
  BY <1>1, <1>2, <1>4, <1>5, <1>6, <1>7 DEF Good
<1> QED BY <1>1, <1>2, <1>8 DEF WireInv

(* Every step keeps the invariant, and fails for a cause.                    *)
LEMMA StepSafe ==
    ASSUME Framable, WireInv, [Next]_vars
    PROVE  /\ WireInv'
           /\ pc # "failed" /\ pc' = "failed" /\ Untouched => Cause
<1>1. /\ sent \in Seq(Packets) /\ clear \in BOOLEAN /\ cut \in BOOLEAN /\ astray \in BOOLEAN
      /\ Untouched => Good
  BY DEF WireInv
<1>2. CASE Send
  <2>1. PICK p \in Packets : Publish(p) \/ Enqueue(p) \/ EnqueueUnstored(p) \/ Control(p)
    BY <1>2 DEF Send
  <2>2. WireInv' /\ pc' = pc
    BY <2>1, SendSafe
  <2> QED BY <2>2
<1>3. CASE Arrive
  <2>1. /\ UNCHANGED << sent, clear, wire, in, pc, event, left, taken, cut, astray >>
        /\ ready < Len(wire) /\ ready' = ready + 1
    BY <1>3 DEF Arrive, sender
  <2>2. ASSUME Good PROVE Good'
    <3>1. ready \in Nat /\ Len(wire) \in Nat
      BY <2>2 DEF Good
    <3>2. ready' \in Nat /\ ready' <= Len(wire')
      BY <2>1, <3>1
    <3> QED BY <2>1, <2>2, <3>2, StaysGood
  <2> QED BY <1>1, <2>1, <2>2 DEF WireInv, Untouched
<1>4. CASE \/ Poll \/ First \/ ReadTopicLength \/ TooBig \/ ReadRest
           \/ Dispatch \/ NoTopic \/ MoreData
  <2>1. UNCHANGED << sent, clear, cut, astray >>
    BY <1>4 DEF Poll, First, ReadTopicLength, TooBig, ReadRest, Dispatch, NoTopic,
                MoreData, Receiving, sender
  <2>2. ASSUME Good PROVE Safe
    BY <1>1, <1>4, <2>2, PollSafe, FirstSafe, ReadTopicLengthSafe, TooBigSafe,
       ReadRestSafe, DispatchSafe, NoTopicSafe, MoreDataSafe
  <2> QED BY <1>1, <2>1, <2>2 DEF WireInv, Untouched, Safe
<1>8. CASE Length
  <2>1. UNCHANGED << sent, clear, cut, taken >> /\ astray' \in BOOLEAN /\ (astray => astray')
    BY <1>1, <1>8 DEF Length, Receiving, sender
  <2>2. ASSUME Good PROVE ~astray' => Safe
    BY <1>1, <1>8, <2>2, LengthSafe
  <2>3. Good => (pc' = "failed" => Cause)
    BY <1>8, LengthFails
  <2> QED BY <1>1, <2>1, <2>2, <2>3 DEF WireInv, Untouched, Safe
<1>5. CASE Reconnect
  <2>1. UNCHANGED sent /\ clear' = TRUE /\ cut' = FALSE /\ astray' = FALSE /\ pc = "failed"
    BY <1>5 DEF Reconnect
  <2>2. Good'
    BY <1>1, <1>5, ReconnectSafe
  <2> QED BY <1>1, <2>1, <2>2 DEF WireInv
<1>6. CASE Stall
  <2>1. UNCHANGED << sent, clear, astray >> /\ cut' = TRUE /\ pc' = "poll"
    BY <1>6 DEF Stall, sender, Done
  <2> QED BY <1>1, <2>1 DEF WireInv, Untouched
<1>7. CASE UNCHANGED vars
  <2>1. UNCHANGED << sent, clear, wire, ready, in, pc, event, left, taken, cut, astray >>
    BY <1>7 DEF vars, sender
  <2>2. ASSUME Good PROVE Good'
    <3>1. ready' \in Nat /\ ready' <= Len(wire')
      BY <2>1, <2>2 DEF Good
    <3> QED BY <2>1, <2>2, <3>1, StaysGood
  <2> QED BY <1>1, <2>1, <2>2 DEF WireInv, Untouched
<1> QED BY <1>2, <1>3, <1>4, <1>5, <1>6, <1>7, <1>8 DEF Next, Task

(* Whatever the base, the sizes of both buffers and the packets, however the  *)
(* bytes arrive and however they are cut up between calls: what is handed on  *)
(* is what was written, in its order and in full, as Framed says of           *)
(* mqtt_process_receive and deliver_publish, up to the first packet that is   *)
(* not Untouched: built with the fields of an earlier fragment, given up      *)
(* halfway, or read on past its end.                                         *)
THEOREM PacketsAreFramed == Framable => (Spec => []Framed)
<1> SUFFICES ASSUME Framable PROVE Spec => []Framed
  OBVIOUS
<1>1. Init => WireInv
  BY InitSafe
<1>2. WireInv /\ [Next]_vars => WireInv'
  BY StepSafe
<1>3. WireInv => Framed
  <2> SUFFICES ASSUME WireInv, Untouched
               PROVE  /\ Len(taken) <= Len(sent)
                      /\ \A k \in 1 .. Len(taken) :
                           \/ taken[k] = Meant(sent[k])
                           \/ Straddles(sent[k]) /\ taken[k].head = sent[k].head
    BY DEF Framed
  <2>1. Good
    BY DEF WireInv
  <2> QED BY <2>1 DEF Good, TakenRight, Carries
<1> QED BY <1>1, <1>2, <1>3, PTL DEF Spec

(* mqtt_message_receive and deliver_publish give the connection up only when   *)
(* a message stopped coming or does not fit: no message is taken for a broken  *)
(* one because of where its pieces end, unless an acknowledgement was cut      *)
(* between two bytes of its id that both have the bit 0x80 and read on past   *)
(* its end (or one of the other exceptions of Untouched came before).         *)
THEOREM FailureHasCause == Framable => (Spec => FailsForCause)
<1> SUFFICES ASSUME Framable PROVE Spec => FailsForCause
  OBVIOUS
<1>1. Init => WireInv
  BY InitSafe
<1>2. WireInv /\ [Next]_vars => WireInv'
  BY StepSafe
<1> DEFINE Step ==
      (pc # "failed" /\ pc' = "failed" /\ Untouched) =>
        LET p == sent[Len(taken) + 1] IN
        \/ in # << >> /\ ready = 0 /\ Len(in) = before
        \/ IsPublish(p.head) /\ HeaderLength(p) > InLength
<1>3. WireInv /\ [Next]_vars => Step
  BY StepSafe DEF Cause, Current
<1>4. WireInv /\ [Next]_vars => [Step]_vars
  BY <1>3
<1> HIDE DEF Step
<1>5. Spec => [][Step]_vars
  BY <1>1, <1>2, <1>4, PTL DEF Spec
<1> QED BY <1>5 DEF FailsForCause, Step

-----------------------------------------------------------------------------
(* The input buffer.  The most that is read into it for a header are five     *)
(* bytes of a fixed header and four more, when one of the two bytes of the    *)
(* topic's length was there and three are asked for.                          *)

(* A read adds no more than it is asked for.                                *)
LEMMA GrowsBy ==
    ASSUME Good, NEW n \in Nat, n >= 1, Read(n)
    PROVE  /\ Bytes(n) \in Seq(Nat) /\ Len(Bytes(n)) <= n
           /\ in' = in \o Bytes(n) => Len(in') <= Len(in) + n
<1> DEFINE k == IF n < ready THEN n ELSE ready
           b == Bytes(n)
<1>1. /\ wire \in Seq(Nat) /\ ready \in Nat /\ ready <= Len(wire) /\ in \in Seq(Nat) /\ ready > 0
  BY DEF Good, Read
<1>2. k \in Nat /\ k <= Len(wire) /\ k <= n /\ 0 <= k
  <2>1. Len(wire) \in Nat
    BY <1>1
  <2> QED BY <1>1, <2>1
<1>3. b = SubSeq(wire, 0 + 1, k)
  BY DEF Bytes
<1> HIDE DEF b, k
<1>4. b \in Seq(Nat) /\ Len(b) = k - 0
  BY <1>1, <1>2, <1>3, Piece
<1>5. in \o b \in Seq(Nat) /\ Len(in \o b) = Len(in) + Len(b) /\ Len(in) \in Nat
  BY <1>1, <1>4, InARow
<1>6. Len(b) <= n
  BY <1>2, <1>4
<1>7. ASSUME in' = in \o b PROVE Len(in') <= Len(in) + n
  <2> DEFINE x == Len(in \o b)
             l == Len(in)
             y == Len(b)
  <2>1. x = l + y /\ l \in Nat /\ y <= n /\ y \in Nat
    BY <1>2, <1>4, <1>5, <1>6
  <2>2. x <= l + n
    <3> HIDE DEF x, l, y
    <3> QED BY <2>1
  <2> QED BY <1>7, <2>2
<1> QED BY <1>4, <1>6, <1>7 DEF b

(* Every step leaves the buffer within its length.                          *)
LEMMA RoomLeft ==
    ASSUME Framable, InLength >= 9, WireInv, WithinBuffer, [Next]_vars
    PROVE  WithinBuffer'
<1> SUFFICES ASSUME Untouched' PROVE Len(in') <= InLength
  BY DEF WithinBuffer
<1>1. InLength \in Nat /\ sent \in Seq(Packets)
  BY WireAssumption DEF WireInv
<1>2. ASSUME in' = << >> PROVE Len(in') <= InLength
  <2>1. Len(<< >>) = 0
    OBVIOUS
  <2> QED BY <1>1, <1>2, <2>1
<1>3. ASSUME in' = in, clear' => clear, cut' = cut, astray => astray'
      PROVE  Len(in') <= InLength
  BY <1>3 DEF WithinBuffer, Untouched
<1>4. ASSUME UNCHANGED << clear, cut >>, astray => astray'
      PROVE  Good /\ Len(in) \in Nat /\ Len(in) <= InLength
  <2>1. Untouched
    BY <1>4 DEF Untouched
  <2>2. Good /\ Len(in) <= InLength
    BY <2>1 DEF WithinBuffer, WireInv
  <2> QED BY <2>2 DEF Good
<1>5. CASE Send
  <2>1. in' = in /\ (clear' => clear) /\ UNCHANGED << cut, astray >>
    <3>1. PICK p \in Packets : Publish(p) \/ Enqueue(p) \/ EnqueueUnstored(p) \/ Control(p)
      BY <1>5 DEF Send
    <3>2. CASE Publish(p)
      BY <3>2 DEF Publish, Writes
    <3>3. CASE Enqueue(p)
      BY <3>3 DEF Enqueue, Writes
    <3>4. CASE EnqueueUnstored(p)
      BY <3>4 DEF EnqueueUnstored
    <3>5. CASE Control(p)
      BY <3>5 DEF Control, Writes
    <3> QED BY <3>1, <3>2, <3>3, <3>4, <3>5
  <2> QED BY <1>3, <2>1
<1>6. CASE Arrive \/ Poll \/ TooBig \/ NoTopic \/ UNCHANGED vars
  <2>1. in' = in /\ UNCHANGED << clear, cut, astray >>
    BY <1>6 DEF Arrive, Poll, TooBig, NoTopic, Receiving, sender, vars
  <2> QED BY <1>3, <2>1
<1>7. CASE Reconnect \/ Stall
  BY <1>2, <1>7 DEF Reconnect, Stall, Done
<1>8. CASE Dispatch \/ MoreData
  <2>1. (in' = << >> \/ in' = in) /\ UNCHANGED << clear, cut, astray >>
    BY <1>8 DEF Dispatch, MoreData, Done, sender
  <2> QED BY <1>2, <1>3, <2>1
<1>9. CASE First
  <2>1. UNCHANGED << clear, cut, astray >>
    BY <1>9 DEF First, Receiving, sender
  <2>2. in' = in \/ (Read(1) /\ in' = Bytes(1))
    BY <1>9 DEF First
  <2>3. CASE Read(1) /\ in' = Bytes(1)
    <3>1. Bytes(1) \in Seq(Nat) /\ Len(Bytes(1)) <= 1
      <4>1. 1 \in Nat /\ 1 >= 1 /\ Good
        BY <1>4, <2>1
      <4> QED BY <2>3, <4>1, GrowsBy
    <3>2. Len(in') \in Nat /\ Len(in') <= 1
      BY <2>3, <3>1
    <3> QED BY <1>1, <3>2
  <2> QED BY <1>3, <2>1, <2>2, <2>3
<1>10. CASE Length
  <2>1. UNCHANGED << clear, cut >> /\ (astray => astray') /\ pc = "length"
    BY <1>10 DEF Length, Receiving, sender
  <2>2. in' = in \/ (Read(1) /\ in' = in \o Bytes(1))
    BY <1>10 DEF Length, NothingYet
  <2>3. CASE Read(1) /\ in' = in \o Bytes(1)
    <3>1. Good /\ ~Idle
      BY <1>4, <2>1 DEF Idle
    <3>2. Len(in) <= 5 /\ Len(in) \in Nat
      BY <1>1, <2>1, <3>1, InTheMiddle DEF Reading
    <3>3. Len(in') <= Len(in) + 1
      <4>1. 1 \in Nat /\ 1 >= 1
        OBVIOUS
      <4> QED BY <2>3, <3>1, <4>1, GrowsBy
    <3>4. Len(in') \in Nat
      <4>1. in' \in Seq(Nat)
        <5>1. 1 \in Nat /\ 1 >= 1
          OBVIOUS
        <5>2. Bytes(1) \in Seq(Nat) /\ in \in Seq(Nat)
          BY <2>3, <3>1, <5>1, GrowsBy DEF Good
        <5> QED BY <2>3, <5>2, InARow
      <4> QED BY <4>1
    <3> QED BY <1>1, <3>2, <3>3, <3>4
  <2> QED BY <1>3, <2>1, <2>2, <2>3
<1>11. CASE ReadTopicLength
  <2> DEFINE n == Len(in)
             f == FixedLength(in)
             k == n - f + 2
             n1 == Len(in')
  <2>1. UNCHANGED << clear, cut, astray >> /\ pc = "rest" /\ ~(n >= f + 2)
    BY <1>11 DEF ReadTopicLength, Receiving, sender, TopicKnown
  <2>2. in' = in \/ (Read(k) /\ in' = in \o Bytes(k))
    BY <1>11 DEF ReadTopicLength, NothingYet
  <2>3. CASE Read(k) /\ in' = in \o Bytes(k)
    <3> DEFINE d == Len(Remaining(Current))
    <3>1. Good
      BY <1>4, <2>1
    <3>2. n \in Nat /\ n > d /\ f = 1 + d /\ Current \in Packets
      BY <1>1, <2>1, <3>1, PastHeader
    <3>3. d \in Nat /\ d <= 4
      BY <3>2, EncShape
    <3>4. k \in Nat /\ k >= 1 /\ n + k <= 9
      <4>1. ~(n >= f + 2)
        BY <2>1
      <4> HIDE DEF n, f, d
      <4> QED BY <3>2, <3>3, <4>1
    <3>5. n1 <= n + k /\ n1 \in Nat
      <4> HIDE DEF k
      <4>1. Bytes(k) \in Seq(Nat) /\ in \in Seq(Nat) /\ n1 <= n + k
        BY <2>3, <3>1, <3>4, GrowsBy DEF Good
      <4>2. in' \in Seq(Nat)
        BY <2>3, <4>1, InARow
      <4> QED BY <4>1, <4>2
    <3> HIDE DEF n1, n, k
    <3>6. n1 <= InLength
      BY <1>1, <3>2, <3>4, <3>5
    <3> QED BY <3>6 DEF n1
  <2> HIDE DEF k
  <2> QED BY <1>3, <2>1, <2>2, <2>3
<1>12. CASE ReadRest
  <2> DEFINE n == Len(in)
             w == Wanted
             k == w - n
             n1 == Len(in')
  <2>1. UNCHANGED << clear, cut, astray >> /\ pc = "rest"
    BY <1>12 DEF ReadRest, Receiving, sender
  <2>2. in' = in \/ (n < w /\ Read(k) /\ in' = in \o Bytes(k))
    BY <1>12 DEF ReadRest, NothingYet
  <2>3. CASE n < w /\ Read(k) /\ in' = in \o Bytes(k)
    <3> DEFINE z == Size(Current)
    <3>1. Good
      BY <1>4, <2>1
    <3>2. n \in Nat /\ z \in Nat /\ TotalLength(in) = z /\ (TooLong <=> InLength < z)
      BY <1>1, <2>1, <3>1, PastHeader
    <3>3. w = IF InLength < z THEN InLength ELSE z
      BY <3>2 DEF Wanted
    <3> HIDE DEF w, z
    <3>4. w \in Nat /\ w <= InLength
      BY <1>1, <3>2, <3>3
    <3>5. k \in Nat /\ k >= 1 /\ n + k = w
      <4>1. n < w
        BY <2>3
      <4> HIDE DEF n
      <4> QED BY <3>2, <3>4, <4>1
    <3>6. n1 <= n + k /\ n1 \in Nat
      <4> HIDE DEF k
      <4>1. Bytes(k) \in Seq(Nat) /\ in \in Seq(Nat) /\ n1 <= n + k
        BY <2>3, <3>1, <3>5, GrowsBy DEF Good
      <4>2. in' \in Seq(Nat)
        BY <2>3, <4>1, InARow
      <4> QED BY <4>1, <4>2
    <3> HIDE DEF n1, n, k
    <3>7. n1 <= InLength
      BY <1>1, <3>4, <3>5, <3>6
    <3> QED BY <3>7 DEF n1
  <2> HIDE DEF k
  <2> QED BY <1>3, <2>1, <2>2, <2>3
<1> QED BY <1>5, <1>6, <1>7, <1>8, <1>9, <1>10, <1>11, <1>12 DEF Next, Task

(* mqtt_message_receive stays within an input buffer of nine bytes or more, as *)
(* long as every packet is Untouched.                                        *)
THEOREM ReadsStayInBuffer == Framable /\ InLength >= 9 => (Spec => []WithinBuffer)
<1> SUFFICES ASSUME Framable, InLength >= 9 PROVE Spec => []WithinBuffer
  OBVIOUS
<1>1. Init => WireInv /\ WithinBuffer
  <2> SUFFICES ASSUME Init PROVE WireInv /\ WithinBuffer
    OBVIOUS
  <2>1. Len(in) = 0 /\ InLength \in Nat
    BY WireAssumption DEF Init
  <2>2. WithinBuffer
    BY <2>1 DEF WithinBuffer
  <2> QED BY <2>2, InitSafe
<1>2. WireInv /\ WithinBuffer /\ [Next]_vars => WireInv' /\ WithinBuffer'
  BY StepSafe, RoomLeft
<1> QED BY <1>1, <1>2, PTL DEF Spec

-----------------------------------------------------------------------------
(* Types.  They hold of every stream, also of one that the reader has lost    *)
(* its place in, so nothing is said here of what the bytes mean.             *)

Byte == 0 .. 255

Octets == Base <= 128 /\ Ids \subseteq Byte \X Byte

(* A remaining length can be read from any bytes.                            *)
LEMMA AnyValue ==
    ASSUME Base \in Nat, Base >= 2
    PROVE  \A n \in Nat : \A k \in Nat : \A buffer :
             (\A i \in k + 1 .. k + n : buffer[i] \in Nat)
             => /\ \E w : IsValue(w, buffer, k + 1, k + n)
                /\ \A w : IsValue(w, buffer, k + 1, k + n) => w[k + 1] \in Nat
<1> DEFINE P(n) == \A k \in Nat : \A buffer :
                     (\A i \in k + 1 .. k + n : buffer[i] \in Nat) =>
                     /\ \E w : IsValue(w, buffer, k + 1, k + n)
                     /\ \A w : IsValue(w, buffer, k + 1, k + n) => w[k + 1] \in Nat
           T == {n \in Nat : ~P(n)}
<1>1. SUFFICES ASSUME T # {} PROVE FALSE
  OBVIOUS
<1>2. PICK n \in T : \A j \in T : n <= j
  <2>1. T \subseteq Nat
    OBVIOUS
  <2> HIDE DEF T
  <2> QED BY <1>1, <2>1, NatMin
<1>3. n \in Nat
  OBVIOUS
<1>0. ~P(n)
  OBVIOUS
<1> HIDE DEF T
<1>4. ASSUME n = 0 PROVE P(n)
  <2> SUFFICES ASSUME NEW k \in Nat, NEW buffer
               PROVE  /\ \E w : IsValue(w, buffer, k + 1, k + n)
                      /\ \A w : IsValue(w, buffer, k + 1, k + n) => w[k + 1] \in Nat
    OBVIOUS
  <2>1. k + n = k /\ k + 1 > k /\ k + 1 \in k + 1 .. k + 1
    BY <1>4
  <2> DEFINE v == [i \in k + 1 .. k + 1 |-> 0]
  <2>2. IsValue(v, buffer, k + 1, k)
    <3>1. \A i \in k + 1 .. k + 1 : i > k
      OBVIOUS
    <3> QED BY <3>1 DEF IsValue
  <2>3. ASSUME NEW w, IsValue(w, buffer, k + 1, k) PROVE w[k + 1] = 0
    BY <2>1, <2>3 DEF IsValue
  <2> HIDE DEF v
  <2> QED BY <2>1, <2>2, <2>3
<1>5. ASSUME n # 0 PROVE P(n)
  <2> DEFINE q == n - 1
  <2>1. q \in Nat /\ q < n
    BY <1>3, <1>5
  <2>2. P(q)
    <3>1. q \notin T
      BY <1>2, <1>3, <2>1
    <3> QED BY <2>1, <3>1 DEF T
  <2> SUFFICES ASSUME NEW k \in Nat, NEW buffer, \A i \in k + 1 .. k + n : buffer[i] \in Nat
               PROVE  /\ \E w : IsValue(w, buffer, k + 1, k + n)
                      /\ \A w : IsValue(w, buffer, k + 1, k + n) => w[k + 1] \in Nat
    OBVIOUS
  <2> DEFINE f == k + n
             m == k + 1
  <2>3. m \in Nat /\ m + q = f /\ f \in Nat /\ f >= m /\ m \in m .. f
    BY <1>3, <1>5
  <2>4. \A i \in m + 1 .. m + q : buffer[i] \in Nat
    <3>1. \A i \in m + 1 .. m + q : i \in k + 1 .. k + n
      BY <1>3, <1>5
    <3> QED BY <3>1
  <2>5. buffer[m] \in Nat
    BY <2>3
  <2> HIDE DEF q, f, m
  <2>6. /\ \E w : IsValue(w, buffer, m + 1, f)
        /\ \A w : IsValue(w, buffer, m + 1, f) => w[m + 1] \in Nat
    BY <2>2, <2>3, <2>4
  <2> HIDE DEF P
  <2>7. \E w : IsValue(w, buffer, m, f)
    <3>1. PICK w : IsValue(w, buffer, m + 1, f)
      BY <2>6
    <3> DEFINE x == (buffer[m] % Base) + Base * w[m + 1]
               v == [i \in m .. f + 1 |-> IF i = m THEN x ELSE w[i]]
    <3>2. ASSUME NEW i \in m .. f + 1
          PROVE  v[i] = IF i > f THEN 0 ELSE (buffer[i] % Base) + Base * v[i + 1]
      <4>1. CASE i = m
        <5>1. v[i + 1] = w[m + 1]
          BY <4>1, <2>3
        <5>2. v[i] = x
          BY <4>1
        <5>3. ~(i > f)
          BY <4>1, <2>3
        <5> HIDE DEF v
        <5> QED BY <4>1, <5>1, <5>2, <5>3
      <4>2. CASE i # m
        <5>1. i \in m + 1 .. f + 1
          BY <4>2, <2>3
        <5> HIDE DEF x
        <5>2. v[i] = w[i] /\ (i <= f => v[i + 1] = w[i + 1])
          BY <5>1, <4>2, <2>3
        <5>3. w[i] = IF i > f THEN 0 ELSE (buffer[i] % Base) + Base * w[i + 1]
          BY <5>1, <3>1 DEF IsValue
        <5> HIDE DEF v
        <5> QED BY <5>1, <5>2, <5>3, <2>3
      <4> QED BY <4>1, <4>2
    <3>3. v = [i \in m .. f + 1 |-> v[i]]
      OBVIOUS
    <3> HIDE DEF v
    <3>4. IsValue(v, buffer, m, f)
      BY <3>2, <3>3 DEF IsValue
    <3> QED BY <3>4
  <2>8. ASSUME NEW w, IsValue(w, buffer, m, f) PROVE w[m] \in Nat
    <3> DEFINE v == [i \in m + 1 .. f + 1 |-> w[i]]
    <3>1. IsValue(v, buffer, m + 1, f)
      BY <2>8, <2>3 DEF IsValue
    <3>2. v[m + 1] \in Nat
      <4> HIDE DEF v
      <4> QED BY <3>1, <2>6
    <3>3. w[m + 1] \in Nat
      BY <3>2, <2>3
    <3>4. w[m] = (buffer[m] % Base) + Base * w[m + 1]
      BY <2>8, <2>3 DEF IsValue
    <3>5. buffer[m] % Base \in Nat /\ Base * w[m + 1] \in Nat
      BY <2>5, <3>3
    <3> QED BY <3>4, <3>5
  <2> QED BY <2>7, <2>8 DEF f, m
<1> QED
  <2> HIDE DEF P
  <2> QED BY <1>0, <1>4, <1>5

(* The fixed header ends within what has been read.                          *)
LEMMA FixedWithin ==
    ASSUME NEW buffer \in Seq(Nat), buffer # << >>
    PROVE  FixedLength(buffer) \in 1 .. Len(buffer)
<1> DEFINE f == FixedLength(buffer)
           ends == {i \in 2 .. Len(buffer) : ~More(buffer[i])}
<1>1. Len(buffer) \in Nat /\ Len(buffer) >= 1
  OBVIOUS
<1>2. f \in 1 .. Len(buffer)
  <2>1. CASE ends = {}
    <3>1. f = Len(buffer)
      BY <2>1 DEF FixedLength
    <3> QED BY <3>1, <1>1
  <2>2. CASE ends # {}
    <3>1. ends \subseteq Nat
      BY <1>1
    <3>2. f = CHOOSE i \in ends : \A j \in ends : i <= j
      BY <2>2 DEF FixedLength
    <3>3. ends \subseteq 1 .. Len(buffer)
      BY <1>1
    <3> HIDE DEF ends, f
    <3>4. \E i \in ends : \A j \in ends : i <= j
      BY <2>2, <3>1, NatMin
    <3>5. f \in ends
      BY <3>2, <3>4
    <3> QED BY <3>3, <3>5
  <2> QED BY <2>1, <2>2
<1> QED BY <1>2

(* The length that mqtt_get_total_length reads is a number.                  *)
LEMMA TotalIsNat ==
    ASSUME NEW buffer \in Seq(Nat), buffer # << >>
    PROVE  TotalLength(buffer) \in Nat
<1> DEFINE f == FixedLength(buffer)
           n == f - 1
<1>1. Base \in Nat /\ Base >= 2 /\ Len(buffer) \in Nat /\ Len(buffer) >= 1
  <2>1. Len(buffer) \in Nat /\ Len(buffer) >= 1
    OBVIOUS
  <2> QED BY <2>1, WireAssumption
<1>2. f \in 1 .. Len(buffer)
  BY FixedWithin
<1> HIDE DEF f
<1>3. f \in Nat /\ n \in Nat /\ 1 + n = f /\ 1 \in Nat /\ 1 + 1 = 2
  BY <1>1, <1>2
<1>4. \A i \in 2 .. f : buffer[i] \in Nat
  <2>1. \A i \in 2 .. f : i \in 1 .. Len(buffer)
    BY <1>1, <1>2
  <2> QED BY <2>1
<1> HIDE DEF n
<1>5. /\ \E w : IsValue(w, buffer, 2, f)
      /\ \A w : IsValue(w, buffer, 2, f) => w[2] \in Nat
  <2>1. /\ \E w : IsValue(w, buffer, 1 + 1, 1 + n)
        /\ \A w : IsValue(w, buffer, 1 + 1, 1 + n) => w[1 + 1] \in Nat
    <3>1. \A i \in 1 + 1 .. 1 + n : buffer[i] \in Nat
      BY <1>3, <1>4
    <3> QED BY <1>1, <1>3, <3>1, AnyValue
  <2> QED BY <2>1, <1>3
<1> DEFINE w == CHOOSE w : IsValue(w, buffer, 2, f)
<1>6. w[2] \in Nat
  BY <1>5
<1>7. TotalLength(buffer) = f + w[2]
  <2>1. TotalLength(buffer) = f +
          (CHOOSE v : v = [i \in 2 .. f + 1 |->
             IF i > f THEN 0 ELSE (buffer[i] % Base) + Base * v[i + 1]])[2]
    BY DEF TotalLength, f
  <2>2. w = CHOOSE v : v = [i \in 2 .. f + 1 |->
             IF i > f THEN 0 ELSE (buffer[i] % Base) + Base * v[i + 1]]
    BY DEF IsValue
  <2> HIDE DEF w
  <2> QED BY <2>1, <2>2
<1> HIDE DEF w
<1> QED BY <1>3, <1>6, <1>7

(* The bytes that are written.                                               *)
LEMMA ByteRow ==
    ASSUME NEW a \in Seq(Byte), NEW b \in Seq(Byte)
    PROVE  a \o b \in Seq(Byte)
  OBVIOUS

(* The digits of any number are bytes.                                      *)
LEMMA DigitsBytes ==
    ASSUME Octets
    PROVE  \A n \in Nat : Digits[n] \in Seq(Byte)
<1> DEFINE T == {n \in Nat : ~(Digits[n] \in Seq(Byte))}
<1>1. SUFFICES ASSUME T # {} PROVE FALSE
  OBVIOUS
<1>2. PICK n \in T : \A j \in T : n <= j
  <2>1. T \subseteq Nat
    OBVIOUS
  <2> HIDE DEF T
  <2> QED BY <1>1, <2>1, NatMin
<1>3. n \in Nat /\ ~(Digits[n] \in Seq(Byte))
  OBVIOUS
<1>4. Base \in Nat /\ Base >= 2 /\ Base <= 128
  BY WireAssumption DEF Octets
<1>5. CASE n < Base
  <2>1. Digits[n] = << n >>
    BY <1>3, <1>4, <1>5, DigitsCases
  <2>2. n \in Byte
    BY <1>3, <1>4, <1>5 DEF Byte
  <2>3. << n >> \in Seq(Byte)
    BY <2>2
  <2> QED BY <1>3, <2>1, <2>3
<1>6. CASE n >= Base
  <2> DEFINE q == n \div Base
             x == Base + (n % Base)
  <2>1. Digits[n] = << x >> \o Digits[q]
    BY <1>3, <1>4, <1>6, DigitsCases
  <2>2. q \in Nat /\ q < n
    BY <1>3, <1>4, <1>6, DigitsCases
  <2>3. x \in Byte
    <3>1. n % Base \in Nat /\ n % Base <= Base - 1
      BY <1>3, <1>4, <1>6, DigitsCases
    <3> DEFINE r == n % Base
    <3>2. r \in Nat /\ r <= Base - 1
      BY <3>1
    <3>3. x = Base + r
      OBVIOUS
    <3> HIDE DEF r, x
    <3> QED BY <1>4, <3>2, <3>3 DEF Byte
  <2>4. Digits[q] \in Seq(Byte)
    <3>1. q \notin T
      BY <1>2, <1>3, <2>2
    <3> QED BY <2>2, <3>1
  <2> HIDE DEF x, q
  <2>5. << x >> \in Seq(Byte)
    BY <2>3
  <2> QED BY <1>3, <2>1, <2>4, <2>5, ByteRow
<1> QED BY <1>3, <1>4, <1>5, <1>6

(* The fields of a packet, and all of it before the data.                   *)
LEMMA PacketBytes ==
    ASSUME Octets, NEW p \in Packets
    PROVE  /\ p.head \in Byte /\ p.topic \in Byte /\ p.data \in Nat
           /\ p.id \in Byte \X Byte
           /\ Variable(p) \in Seq(Byte)
<1>1. Base \in Nat /\ Base >= 2 /\ Base <= 128
  BY WireAssumption DEF Octets
<1>2. \A s \in Sizes : s[1] \in Byte /\ s[2] \in Nat
  <2>1. \A s \in Sizes : s[1] \in 1 .. 2 * Base - 1 /\ s[2] \in Nat
    BY <1>1, WireAssumption
  <2> QED BY <1>1, <2>1 DEF Byte
<1>3. NoId \in Byte \X Byte /\ Ids \subseteq Byte \X Byte
  BY DEF NoId, Octets, Byte
<1>4. p.head \in Byte
  BY DEF Packets, Byte, PublishQos0, PublishQos1, Puback, Pingresp
<1>5. p.topic \in Byte /\ p.data \in Nat
  <2>1. 0 \in Byte
    BY DEF Byte
  <2> QED BY <1>2, <2>1 DEF Packets
<1>6. p.id \in Byte \X Byte
  BY <1>3 DEF Packets
<1>7. Variable(p) \in Seq(Byte)
  <2> DEFINE t == [k \in 1 .. p.topic |-> 1]
             u == IF IsPublish(p.head) THEN << 0, p.topic >> \o t ELSE << >>
             v == IF p.id = NoId THEN << >> ELSE p.id
  <2>1. t \in Seq(Byte)
    <3> DEFINE n == p.topic
    <3>1. n \in Nat
      BY <1>5 DEF Byte
    <3>2. 1 \in Byte
      BY DEF Byte
    <3> HIDE DEF n
    <3>3. [k \in 1 .. n |-> 1] \in Seq(Byte)
      BY <3>1, <3>2
    <3> QED BY <3>3 DEF n
  <2>2. << 0, p.topic >> \in Seq(Byte)
    <3>1. 0 \in Byte
      BY DEF Byte
    <3> QED BY <1>5, <3>1
  <2>3. u \in Seq(Byte)
    <3> HIDE DEF t
    <3>1. << 0, p.topic >> \o t \in Seq(Byte)
      BY <2>1, <2>2, ByteRow
    <3>2. << >> \in Seq(Byte)
      OBVIOUS
    <3> QED BY <3>1, <3>2
  <2>4. v \in Seq(Byte)
    <3>1. p.id = << p.id[1], p.id[2] >> /\ p.id[1] \in Byte /\ p.id[2] \in Byte
      BY <1>6
    <3>2. << p.id[1], p.id[2] >> \in Seq(Byte)
      BY <3>1
    <3>3. << >> \in Seq(Byte)
      OBVIOUS
    <3> QED BY <3>1, <3>2, <3>3
  <2>5. Variable(p) = u \o v
    BY DEF Variable
  <2> HIDE DEF u, v
  <2> QED BY <2>3, <2>4, <2>5, ByteRow
<1> QED BY <1>4, <1>5, <1>6, <1>7

(* The data of a publication.                                               *)
LEMMA ContentBytes ==
    ASSUME Octets, NEW n \in Nat
    PROVE  Content(n) \in Seq(Byte) /\ \A i \in 1 .. n : Content(n)[i] \in Byte
<1>1. 2 * Base \in Nat \ {0} /\ 2 * Base <= 256
  BY WireAssumption DEF Octets
<1>2. \A i \in 1 .. n : i % (2 * Base) \in Byte
  <2> DEFINE b == 2 * Base
  <2>1. b \in Nat \ {0} /\ b <= 256
    BY <1>1
  <2> HIDE DEF b
  <2>2. \A i \in 1 .. n : i % b \in 0 .. b - 1
    BY <2>1
  <2>3. \A r \in 0 .. b - 1 : r \in Byte
    BY <2>1 DEF Byte
  <2> QED BY <2>2, <2>3 DEF b
<1>3. Content(n) \in [1 .. n -> Byte]
  BY <1>2 DEF Content
<1> QED BY <1>3

(* fini_message, whatever length it is told: it is never between nothing and  *)
(* the five bytes it takes off.                                              *)
LEMMA FinishedBytes ==
    ASSUME Octets, NEW p \in Packets, NEW body \in Seq(Byte), NEW whole \in Nat,
           whole = 0 \/ whole >= 5
    PROVE  Finished(p, body, whole) \in Seq(Byte)
<1> DEFINE n == IF whole = 0 THEN Len(body) ELSE whole - MaxHeader
           d == Digits[n]
           h == << p.head >>
<1>1. n \in Nat
  BY DEF MaxHeader
<1>2. d \in Seq(Byte)
  <2> HIDE DEF n
  <2> QED BY <1>1, DigitsBytes
<1>3. h \in Seq(Byte)
  BY PacketBytes
<1>4. Finished(p, body, whole) = (h \o d) \o body
  BY DEF Finished
<1> HIDE DEF d, h
<1>5. h \o d \in Seq(Byte)
  BY <1>2, <1>3, ByteRow
<1> QED BY <1>4, <1>5, ByteRow

(* The two pieces of a publication, and what is noted of them.               *)
LEMMA PiecesTyped ==
    ASSUME Octets, NEW p \in Packets, Fits(p), offset \in Nat
    PROVE  /\ FirstPiece(p) \in Seq(Byte) /\ Rest(p) \in Seq(Byte)
           /\ OffsetAfter(p) \in Nat
           /\ Whole(p) \in Nat /\ (Whole(p) = 0 \/ Whole(p) >= 5)
<1> DEFINE pos == Position(p)
           body == FirstBody(p)
           piece == FirstPiece(p)
           room == OutLength - pos
<1>1. Variable(p) \in Seq(Byte) /\ Len(Variable(p)) \in Nat /\ p.data \in Nat /\ OutLength \in Nat
  <2>1. Variable(p) \in Seq(Byte) /\ p.data \in Nat
    BY PacketBytes
  <2> QED BY <2>1, WireAssumption
<1>2. pos \in Nat /\ pos >= 5 /\ room \in Nat
  <2>1. pos = 5 + Len(Variable(p)) /\ pos <= OutLength
    BY DEF Position, MaxHeader, Fits
  <2> HIDE DEF pos
  <2> QED BY <1>1, <2>1
<1>3. Whole(p) \in Nat /\ (Whole(p) = 0 \/ Whole(p) >= 5)
  <2>1. Whole(p) = pos + p.data \/ Whole(p) = 0
    BY DEF Whole
  <2> HIDE DEF pos
  <2> QED BY <1>1, <1>2, <2>1
<1>4. body \in Seq(Byte)
  <2> DEFINE c == Content(IF Fragmented(p) THEN OutLength - Position(p) ELSE p.data)
  <2>1. c \in Seq(Byte)
    BY <1>1, <1>2, ContentBytes
  <2>2. body = Variable(p) \o c
    BY DEF FirstBody
  <2> HIDE DEF body, c
  <2> QED BY <1>1, <2>1, <2>2, ByteRow
<1>5. piece \in Seq(Byte)
  <2>1. piece = Finished(p, body, Whole(p))
    BY DEF FirstPiece
  <2> HIDE DEF body, piece
  <2> QED BY <1>3, <1>4, <2>1, FinishedBytes
<1>6. OffsetAfter(p) \in Nat
  <2> DEFINE start == Start(piece, body)
             from == IF Fragmented(p) THEN pos ELSE offset
             lp == Len(piece)
             lb == Len(body)
  <2>1. start = 5 - (lp - lb)
    BY DEF Start, MaxHeader
  <2>2. lp \in Nat /\ lb \in Nat
    <3> HIDE DEF piece, body
    <3> QED BY <1>4, <1>5
  <2>3. from \in Nat
    <3> HIDE DEF pos
    <3> QED BY <1>2
  <2>4. OffsetAfter(p) = IF from > start THEN from - start ELSE 0
    BY DEF OffsetAfter
  <2> HIDE DEF start, from, lp, lb
  <2>5. start \in Int
    BY <2>1, <2>2
  <2> QED BY <2>3, <2>4, <2>5
<1>7. Rest(p) \in Seq(Byte)
  <2> DEFINE held == Len(piece) - OffsetAfter(p)
             t == p.data
             n == t - held
             c == Content(t)
             r == [k \in 1 .. n |-> IF held + k > 0 THEN c[held + k] ELSE 0]
  <2>1. Rest(p) = r
    BY DEF Rest
  <2>2. held \in Int
    <3> DEFINE lp == Len(piece)
               o == OffsetAfter(p)
    <3>1. lp \in Nat /\ o \in Nat /\ held = lp - o
      <4> HIDE DEF piece
      <4> QED BY <1>5, <1>6
    <3> HIDE DEF lp, o, held
    <3> QED BY <3>1
  <2>3. t \in Nat
    BY <1>1
  <2>4. \A i \in 1 .. t : c[i] \in Byte
    BY <1>1, ContentBytes
  <2> HIDE DEF held, c, t
  <2>5. \A k \in 1 .. n : (IF held + k > 0 THEN c[held + k] ELSE 0) \in Byte
    <3>1. TAKE k \in 1 .. n
    <3>2. CASE held + k > 0
      <4>1. held + k \in 1 .. t
        BY <2>2, <2>3, <3>2
      <4> QED BY <2>4, <3>2, <4>1
    <3>3. CASE ~(held + k > 0)
      BY <3>3 DEF Byte
    <3> QED BY <3>2, <3>3
  <2>6. n \in Int
    BY <2>2, <2>3
  <2> HIDE DEF n
  <2>7. r \in Seq(Byte)
    <3>1. r \in [1 .. n -> Byte]
      BY <2>5
    <3> HIDE DEF r
    <3>2. CASE n >= 0
      <4>1. n \in Nat
        BY <2>6, <3>2
      <4> QED BY <3>1, <4>1
    <3>3. CASE ~(n >= 0)
      <4>1. 1 .. n = 1 .. 0 /\ 0 \in Nat
        BY <2>6, <3>3
      <4>2. r \in [1 .. 0 -> Byte]
        BY <3>1, <4>1
      <4> QED BY <4>1, <4>2
    <3> QED BY <3>2, <3>3
  <2> HIDE DEF r
  <2> QED BY <2>1, <2>7
<1> QED BY <1>3, <1>5, <1>6, <1>7

(* esp_transport_read brings at least one byte and at most what it is asked  *)
(* for.                                                                      *)
LEMMA ByteRead ==
    ASSUME NEW n \in Nat, n >= 1, wire \in Seq(Byte), ready \in 0 .. Len(wire), Read(n)
    PROVE  /\ Bytes(n) \in Seq(Byte) /\ Len(Bytes(n)) \in 1 .. n /\ Bytes(n) # << >>
           /\ wire' \in Seq(Byte) /\ ready' \in 0 .. Len(wire')
<1> DEFINE k == IF n < ready THEN n ELSE ready
           l == Len(wire)
           b == SubSeq(wire, 1, k)
           w == SubSeq(wire, k + 1, l)
<1>1. l \in Nat /\ ready \in 0 .. l
  OBVIOUS
<1>2. ready > 0 /\ wire' = w /\ ready' = ready - k /\ Bytes(n) = b
  BY DEF Read, Bytes
<1>3. k \in 1 .. l /\ k <= n /\ k <= ready
  <2> HIDE DEF l
  <2> QED BY <1>1, <1>2
<1> HIDE DEF k
<1>4. b \in Seq(Byte) /\ Len(b) = k
  BY <1>3
<1>5. w \in Seq(Byte) /\ Len(w) = l - k
  BY <1>3
<1> HIDE DEF b, w, l
<1>6. b # << >>
  <2> DEFINE x == Len(b)
  <2>1. x # 0
    BY <1>1, <1>3, <1>4
  <2>2. b = << >> => x = 0
    OBVIOUS
  <2> HIDE DEF x
  <2> QED BY <2>1, <2>2
<1> QED BY <1>1, <1>2, <1>3, <1>4, <1>5, <1>6

(* With the types, two facts that they need: what fini_message is told to be *)
(* the length of the whole holds the five bytes it takes off, and where the  *)
(* task asks for the length of a message there is one in the buffer.         *)
TypeInv ==
    /\ TypeOK
    /\ total = 0 \/ total >= 5
    /\ pc \in {"length", "rest", "dispatch"} => in # << >>

(* Writing a packet, whole or in two pieces.                                *)
LEMMA SendTyped ==
    ASSUME Octets, TypeInv, NEW p \in Packets,
           Publish(p) \/ Enqueue(p) \/ EnqueueUnstored(p) \/ Control(p)
    PROVE  TypeInv'
<1>1. /\ total \in Nat /\ offset \in Nat /\ (total = 0 \/ total >= 5)
      /\ sent \in Seq(Packets) /\ clear \in BOOLEAN
      /\ wire \in Seq(Byte) /\ ready \in 0 .. Len(wire)
  BY DEF TypeInv, TypeOK, Byte
<1>2. UNCHANGED << ready, in, pc, before, event, left, taken, cut, astray >>
  BY DEF Publish, Enqueue, EnqueueUnstored, Control, Writes
<1>3. ASSUME NEW bytes \in Seq(Byte), wire' = wire \o bytes
      PROVE  wire' \in Seq(Byte) /\ ready \in 0 .. Len(wire')
  <2> DEFINE w == wire \o bytes
             l == Len(wire)
             m == Len(bytes)
  <2>1. w \in Seq(Byte)
    BY <1>1, ByteRow
  <2>2. Len(w) = l + m /\ l \in Nat /\ m \in Nat /\ ready \in 0 .. l
    BY <1>1
  <2>3. wire' = w
    BY <1>3
  <2> HIDE DEF w, l, m
  <2> QED BY <2>1, <2>2, <2>3
<1>4. ASSUME NEW bytes, Writes(p, bytes)
      PROVE  sent' \in Seq(Packets) /\ wire' = wire \o bytes
  BY <1>1, <1>4 DEF Writes
<1>5. /\ wire' \in Seq(Byte) /\ ready \in 0 .. Len(wire') /\ sent' \in Seq(Packets)
      /\ total' \in Nat /\ offset' \in Nat /\ (total' = 0 \/ total' >= 5)
      /\ clear' \in BOOLEAN
  <2>1. CASE Publish(p)
    <3> DEFINE b == FirstPiece(p) \o Rest(p)
    <3>1. b \in Seq(Byte)
      BY <1>1, <2>1, PiecesTyped, ByteRow DEF Publish
    <3>2. Writes(p, b)
      BY <2>1 DEF Publish
    <3>3. total' = 0 /\ offset' = 0 /\ clear' \in BOOLEAN
      BY <2>1 DEF Publish
    <3> HIDE DEF b
    <3> QED BY <1>3, <1>4, <3>1, <3>2, <3>3
  <2>2. CASE Enqueue(p)
    <3> DEFINE r == IF Fragmented(p) THEN Rest(p) ELSE << >>
               b == FirstPiece(p) \o r
    <3>0. FirstPiece(p) \in Seq(Byte) /\ Rest(p) \in Seq(Byte) /\ OffsetAfter(p) \in Nat
      BY <1>1, <2>2, PiecesTyped DEF Enqueue
    <3>1. r \in Seq(Byte)
      <4>1. << >> \in Seq(Byte)
        OBVIOUS
      <4> QED BY <3>0, <4>1
    <3>2. Writes(p, b)
      BY <2>2 DEF Enqueue
    <3>3. total' = 0 /\ offset' \in Nat /\ clear' = clear
      BY <2>2, <3>0 DEF Enqueue
    <3> HIDE DEF r
    <3>4. b \in Seq(Byte)
      BY <3>0, <3>1, ByteRow
    <3> HIDE DEF b
    <3> QED BY <1>1, <1>3, <1>4, <3>4, <3>2, <3>3
  <2>3. CASE EnqueueUnstored(p)
    <3>1. /\ OffsetAfter(p) \in Nat /\ Whole(p) \in Nat
          /\ Whole(p) = 0 \/ Whole(p) >= 5
      BY <1>1, <2>3, PiecesTyped DEF EnqueueUnstored
    <3>2. /\ total' = Whole(p) /\ offset' = OffsetAfter(p)
          /\ UNCHANGED << sent, clear, wire, ready >>
      BY <2>3 DEF EnqueueUnstored
    <3> QED BY <1>1, <3>1, <3>2
  <2>4. CASE Control(p)
    <3> DEFINE b == Finished(p, Variable(p), total)
               start == Start(b, Variable(p))
    <3>1. Variable(p) \in Seq(Byte)
      BY PacketBytes
    <3>2. b \in Seq(Byte)
      BY <1>1, <3>1, FinishedBytes
    <3>3. /\ Writes(p, b) /\ offset' = IF offset > start THEN offset - start ELSE 0
          /\ clear' \in BOOLEAN /\ total' = total
      BY <2>4 DEF Control
    <3>4. start \in Int
      <4> DEFINE lb == Len(b)
                 lv == Len(Variable(p))
      <4>1. start = 5 - (lb - lv)
        BY DEF Start, MaxHeader
      <4>2. lb \in Nat /\ lv \in Nat
        <5> HIDE DEF b
        <5> QED BY <3>1, <3>2
      <4> HIDE DEF start, lb, lv
      <4> QED BY <4>1, <4>2
    <3> HIDE DEF b, start
    <3>5. offset' \in Nat
      BY <1>1, <3>3, <3>4
    <3> QED BY <1>1, <1>3, <1>4, <3>2, <3>3, <3>5
  <2> QED BY <2>1, <2>2, <2>3, <2>4
<1> QED BY <1>2, <1>5 DEF TypeInv, TypeOK, Byte

(* Bytes are numbers.                                                        *)
LEMMA BytesAreNumbers ==
    ASSUME NEW b \in Seq(Byte)
    PROVE  b \in Seq(Nat)
<1> DEFINE n == Len(b)
<1>1. n \in Nat /\ b \in [1 .. n -> Byte]
  OBVIOUS
<1>2. \A x \in Byte : x \in Nat
  BY DEF Byte
<1> HIDE DEF n
<1>3. b \in [1 .. n -> Nat]
  BY <1>1, <1>2
<1> QED BY <1>1, <1>3

(* The task reads into the buffer.                                           *)
LEMMA TaskTyped ==
    ASSUME Octets, TypeInv,
           First \/ Length \/ ReadTopicLength \/ TooBig \/ ReadRest
    PROVE  TypeInv'
<1>1. /\ wire \in Seq(Byte) /\ ready \in 0 .. Len(wire) /\ in \in Seq(Byte)
      /\ before \in Nat /\ left \in Nat /\ (pc = "data") = (left > 0)
      /\ pc \in {"length", "rest", "dispatch"} => in # << >>
      /\ total \in Nat /\ offset \in Nat /\ (total = 0 \/ total >= 5)
      /\ sent \in Seq(Packets) /\ clear \in BOOLEAN /\ cut \in BOOLEAN
  BY DEF TypeInv, TypeOK, Byte
<1>7. astray \in BOOLEAN /\ astray' \in BOOLEAN
  <2>1. astray \in BOOLEAN
    BY DEF TypeInv, TypeOK
  <2> QED BY <2>1 DEF First, Length, ReadTopicLength, TooBig, ReadRest
<1>2. UNCHANGED << sender, event, left, taken, cut >> /\ pc # "data" /\ Returns
  BY DEF First, Length, ReadTopicLength, TooBig, ReadRest, Receiving
<1>3. before' \in Nat
  BY <1>1, <1>2 DEF Returns
<1>4. ASSUME NEW n \in Nat, n >= 1, Read(n), in' = in \o Bytes(n)
      PROVE  /\ wire' \in Seq(Byte) /\ ready' \in 0 .. Len(wire')
             /\ in' \in Seq(Byte) /\ in' # << >>
  <2> DEFINE b == Bytes(n)
  <2>1. /\ b \in Seq(Byte) /\ Len(b) \in 1 .. n /\ b # << >>
        /\ wire' \in Seq(Byte) /\ ready' \in 0 .. Len(wire')
    BY <1>1, <1>4, ByteRead
  <2>3. in' = in \o b
    BY <1>4
  <2> HIDE DEF b
  <2>4. in \o b \in Seq(Byte) /\ in \o b # << >>
    <3>1. Len(in \o b) = Len(in) + Len(b)
      BY <1>1, <2>1
    <3>2. Len(in) \in Nat /\ Len(b) \in Nat /\ Len(b) >= 1 /\ Len(<< >>) = 0
      BY <1>1, <2>1
    <3> DEFINE w == in \o b
               x == Len(in)
               y == Len(b)
    <3>3. Len(w) = x + y /\ x \in Nat /\ y \in Nat /\ y >= 1
      BY <3>1, <3>2
    <3>4. w \in Seq(Byte)
      BY <1>1, <2>1, ByteRow
    <3> HIDE DEF w, x, y
    <3>5. w # << >>
      BY <3>2, <3>3
    <3> QED BY <3>4, <3>5 DEF w
  <2> QED BY <2>1, <2>3, <2>4
<1>5. /\ wire' \in Seq(Byte) /\ ready' \in 0 .. Len(wire') /\ in' \in Seq(Byte)
      /\ pc' \in {"poll", "first", "length", "rest", "dispatch", "failed"}
      /\ pc' \in {"length", "rest", "dispatch"} => in' # << >>
  <2>1. CASE First
    <3>1. CASE ready = 0 /\ pc' = "poll" /\ UNCHANGED << wire, ready, in >>
      BY <1>1, <3>1
    <3>2. CASE /\ Read(1)
               /\ in' = IF Valid(wire[1]) THEN Bytes(1) ELSE in
               /\ pc' = IF Valid(wire[1]) THEN "length" ELSE "failed"
      <4> DEFINE b == Bytes(1)
      <4>1. b \in Seq(Byte) /\ b # << >> /\ wire' \in Seq(Byte) /\ ready' \in 0 .. Len(wire')
        <5>1. 1 \in Nat /\ 1 >= 1
          OBVIOUS
        <5> QED BY <1>1, <3>2, <5>1, ByteRead
      <4>2. (in' = b /\ pc' = "length") \/ (in' = in /\ pc' = "failed")
        BY <3>2
      <4> HIDE DEF b
      <4> QED BY <1>1, <4>1, <4>2
    <3> QED BY <2>1, <3>1, <3>2 DEF First
  <2>2. CASE Length
    <3>1. CASE NothingYet
      BY <1>1, <3>1 DEF NothingYet
    <3>2. CASE Read(1) /\ in' = in \o Bytes(1) /\ pc' \in {"length", "rest"}
      <4>1. 1 \in Nat /\ 1 >= 1
        OBVIOUS
      <4> QED BY <1>4, <3>2, <4>1
    <3>3. NothingYet \/ (Read(1) /\ in' = in \o Bytes(1) /\ pc' \in {"length", "rest"})
      BY <2>2 DEF Length
    <3> QED BY <3>1, <3>2, <3>3
  <2>3. CASE ReadTopicLength
    <3> DEFINE n == Len(in) - FixedLength(in) + 2
    <3>1. CASE NothingYet
      BY <1>1, <3>1 DEF NothingYet
    <3>2. CASE Read(n) /\ in' = in \o Bytes(n) /\ pc' \in {"poll", "rest"}
      <4>1. n \in Nat /\ n >= 1
        <5> DEFINE x == Len(in)
                   f == FixedLength(in)
        <5>1. in \in Seq(Nat) /\ in # << >>
          BY <1>1, <2>3, BytesAreNumbers DEF ReadTopicLength, Receiving
        <5>2. x \in Nat /\ f \in 1 .. x
          BY <5>1, FixedWithin
        <5>3. n = x - f + 2
          OBVIOUS
        <5> HIDE DEF x, f, n
        <5> QED BY <5>2, <5>3
      <4> HIDE DEF n
      <4> QED BY <1>4, <3>2, <4>1
    <3>3. NothingYet \/ (Read(n) /\ in' = in \o Bytes(n) /\ pc' \in {"poll", "rest"})
      BY <2>3 DEF ReadTopicLength
    <3> QED BY <3>1, <3>2, <3>3
  <2>4. CASE TooBig
    BY <1>1, <2>4 DEF TooBig, Receiving
  <2>5. CASE ReadRest
    <3> DEFINE n == Wanted - Len(in)
    <3>1. CASE pc' = "dispatch" /\ UNCHANGED << wire, ready, in >>
      BY <1>1, <2>5, <3>1 DEF ReadRest, Receiving
    <3>2. CASE NothingYet
      BY <1>1, <3>2 DEF NothingYet
    <3>3. CASE /\ Len(in) < Wanted /\ Read(n) /\ in' = in \o Bytes(n)
               /\ pc' \in {"poll", "dispatch"}
      <4>1. n \in Nat /\ n >= 1
        <5> DEFINE x == Len(in)
                   w == Wanted
        <5>1. in \in Seq(Nat) /\ in # << >>
          BY <1>1, <2>5, BytesAreNumbers DEF ReadRest, Receiving
        <5>2. x \in Nat /\ w \in Nat
          BY <5>1, TotalIsNat, WireAssumption DEF Wanted
        <5>3. n = w - x /\ x < w
          BY <3>3
        <5> HIDE DEF x, w, n
        <5> QED BY <5>2, <5>3
      <4> HIDE DEF n
      <4> QED BY <1>4, <3>3, <4>1
    <3>4. \/ pc' = "dispatch" /\ UNCHANGED << wire, ready, in >>
          \/ NothingYet
          \/ /\ Len(in) < Wanted /\ Read(n) /\ in' = in \o Bytes(n)
             /\ pc' \in {"poll", "dispatch"}
      BY <2>5 DEF ReadRest
    <3> QED BY <3>1, <3>2, <3>3, <3>4
  <2> QED BY <2>1, <2>2, <2>3, <2>4, <2>5
<1>6. ~(left > 0)
  BY <1>1, <1>2
<1> QED BY <1>1, <1>2, <1>3, <1>5, <1>6, <1>7 DEF TypeInv, TypeOK, Byte, sender

(* What is left of a long message is more than nothing as long as the task   *)
(* is at it: a read brings no more than it is asked for.                      *)
LEMMA DataTyped ==
    ASSUME Octets, TypeInv, Dispatch \/ MoreData \/ Stall
    PROVE  TypeInv'
<1>1. /\ wire \in Seq(Byte) /\ ready \in 0 .. Len(wire) /\ in \in Seq(Byte)
      /\ before \in Nat /\ left \in Nat /\ (pc = "data") = (left > 0)
      /\ pc \in {"length", "rest", "dispatch"} => in # << >>
      /\ total \in Nat /\ offset \in Nat /\ (total = 0 \/ total >= 5)
      /\ sent \in Seq(Packets) /\ clear \in BOOLEAN /\ cut \in BOOLEAN
  BY DEF TypeInv, TypeOK, Byte
<1>2. UNCHANGED << sender, before, astray >> /\ cut' \in BOOLEAN
  BY <1>1 DEF Dispatch, MoreData, Stall
<1>3. << >> \in Seq(Byte)
  OBVIOUS
<1>4. /\ wire' \in Seq(Byte) /\ ready' \in 0 .. Len(wire') /\ in' \in Seq(Byte)
      /\ pc' \in {"poll", "data"} /\ left' \in Nat /\ (pc' = "data") = (left' > 0)
  <2>1. CASE Dispatch
    <3>1. pc = "dispatch" /\ UNCHANGED << wire, ready >>
      BY <2>1 DEF Dispatch
    <3> DEFINE t == TotalLength(in)
               x == Len(in)
    <3>2. t \in Nat /\ x \in Nat
      <4>1. in \in Seq(Nat) /\ in # << >>
        BY <1>1, <3>1, BytesAreNumbers
      <4> QED BY <4>1, TotalIsNat
    <3>3. \/ x < t /\ left' = t - x /\ pc' = "data" /\ in' = in
          \/ pc' = "poll" /\ in' = << >> /\ left' = left
      BY <2>1 DEF Dispatch, Done
    <3> HIDE DEF t, x
    <3>4. CASE x < t /\ left' = t - x /\ pc' = "data" /\ in' = in
      <4>1. left' \in Nat /\ left' > 0
        BY <3>2, <3>4
      <4> QED BY <1>1, <3>1, <3>4, <4>1
    <3>5. CASE pc' = "poll" /\ in' = << >> /\ left' = left
      BY <1>1, <1>3, <3>1, <3>5
    <3> QED BY <3>3, <3>4, <3>5
  <2>2. CASE MoreData
    <3> DEFINE n == IF left > InLength THEN InLength ELSE left
               b == Bytes(n)
               l == Len(b)
    <3>1. n \in Nat /\ n >= 1 /\ n <= left
      <4>1. left > 0 /\ InLength \in Nat /\ InLength >= 1
        BY <1>1, <2>2, WireAssumption DEF MoreData
      <4> QED BY <1>1, <4>1
    <3>2. Read(n) /\ left' = left - l
      BY <2>2 DEF MoreData
    <3>3. \/ left' = 0 /\ pc' = "poll" /\ in' = << >>
          \/ left' # 0 /\ pc' = "data" /\ in' = in
      BY <2>2 DEF MoreData, Done
    <3> HIDE DEF n
    <3>4. l \in 1 .. n /\ wire' \in Seq(Byte) /\ ready' \in 0 .. Len(wire')
      BY <1>1, <3>1, <3>2, ByteRead
    <3> HIDE DEF b, l
    <3>5. left' \in Nat
      BY <1>1, <3>1, <3>2, <3>4
    <3>6. (pc' = "data") = (left' > 0) /\ in' \in Seq(Byte)
      <4>1. CASE left' = 0 /\ pc' = "poll" /\ in' = << >>
        <5>1. ~(left' > 0) /\ pc' # "data"
          BY <4>1
        <5> QED BY <1>3, <4>1, <5>1
      <4>2. CASE left' # 0 /\ pc' = "data" /\ in' = in
        <5>1. left' > 0 /\ pc' = "data"
          BY <3>5, <4>2
        <5> QED BY <1>1, <4>2, <5>1
      <4> QED BY <3>3, <4>1, <4>2
    <3> QED BY <3>3, <3>4, <3>5, <3>6
  <2>3. CASE Stall
    <3>1. left' = 0 /\ pc' = "poll" /\ in' = << >> /\ UNCHANGED << wire, ready >>
      BY <2>3 DEF Stall, Done
    <3> QED BY <1>1, <1>3, <3>1
  <2> QED BY <2>1, <2>2, <2>3
<1> QED BY <1>1, <1>2, <1>4 DEF TypeInv, TypeOK, Byte, sender

(* The whole step. *)
LEMMA StepTyped ==
    ASSUME Octets, TypeInv, [Next]_vars
    PROVE  TypeInv'
<1>1. CASE Send
  BY <1>1, SendTyped DEF Send
<1>2. CASE Arrive
  BY <1>2 DEF Arrive, TypeInv, TypeOK, sender
<1>3. CASE Poll
  BY <1>3 DEF Poll, TypeInv, TypeOK, sender
<1>4. CASE First \/ Length \/ ReadTopicLength \/ TooBig \/ ReadRest
  BY <1>4, TaskTyped
<1>5. CASE Dispatch \/ MoreData \/ Stall
  BY <1>5, DataTyped
<1>6. CASE NoTopic
  BY <1>6 DEF NoTopic, TypeInv, TypeOK, sender
<1>7. CASE Reconnect
  <2>1. << >> \in Seq(0 .. 255) /\ Len(<< >>) = 0 /\ 0 \in 0 .. 0
    OBVIOUS
  <2> QED BY <1>7, <2>1 DEF Reconnect, TypeInv, TypeOK
<1>8. CASE UNCHANGED vars
  BY <1>8 DEF vars, sender, TypeInv, TypeOK
<1> QED BY <1>1, <1>2, <1>3, <1>4, <1>5, <1>6, <1>7, <1>8 DEF Next, Task

(* Where the two ends are, of every byte stream and at every length of the    *)
(* buffers: also behind a message given up halfway or one built with the      *)
(* fields of an earlier fragment, the task is at the rest of a publication    *)
(* exactly while there is some left, and what it holds are bytes.            *)
THEOREM WireTypeCorrect == Octets => (Spec => []TypeOK)
<1> SUFFICES ASSUME Octets PROVE Spec => []TypeOK
  OBVIOUS
<1>1. Init => TypeInv
  <2>1. << >> \in Seq(0 .. 255) /\ Len(<< >>) = 0 /\ 0 \in 0 .. 0 /\ << >> \in Seq(Packets)
    OBVIOUS
  <2>2. Init => ~(left > 0) /\ pc # "data"
    BY DEF Init
  <2>3. Init => (pc = "data") = (left > 0)
    BY <2>2
  <2>4. Init => clear \in BOOLEAN /\ cut \in BOOLEAN /\ astray \in BOOLEAN
    BY DEF Init
  <2> QED BY <2>1, <2>3, <2>4 DEF Init, TypeInv, TypeOK
<1>2. TypeInv /\ [Next]_vars => TypeInv'
  BY StepTyped
<1>3. TypeInv => TypeOK
  BY DEF TypeInv
<1> QED BY <1>1, <1>2, <1>3, PTL DEF Spec
=============================================================================

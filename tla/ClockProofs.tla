---------------------------- MODULE ClockProofs ----------------------------
(***************************************************************************)
(* Proofs about utime_t with the widths of the code: for any number of     *)
(* nanoseconds in a second and any word more than four times as wide, in   *)
(* particular 10^9 and 2^32, an object stands for the time that the        *)
(* operations make, however they carry, borrow and wrap.                   *)
(***************************************************************************)
EXTENDS Clock, TLAPS

-----------------------------------------------------------------------------
(* Division                                                                 *)

LEMMA Divided ==
    ASSUME NEW n \in Int, NEW d \in Nat \ {0}
    PROVE  \E q \in Int, r \in 0 .. d - 1 : q = n \div d /\ r = n % d /\ n = q * d + r
OBVIOUS

\* Quotient and remainder are unique.
LEMMA Division ==
    ASSUME NEW d \in Nat \ {0}, NEW q \in Int, NEW r \in 0 .. d - 1, NEW n \in Int, n = q * d + r
    PROVE  n % d = r /\ n \div d = q
<1>1. PICK p \in Int, s \in 0 .. d - 1 : p = n \div d /\ s = n % d /\ n = p * d + s
  BY Divided
<1>2. PICK e \in Int : e = q - p /\ e * d = s - r
  <2>1. (q - p) * d = q * d - p * d
    OBVIOUS
  <2> QED
    BY <1>1, <2>1
<1>3. e = 0
  <2>1. CASE e >= 1
    <3>1. e * d >= d
      BY <2>1
    <3> QED
      BY <1>2, <3>1
  <2>2. CASE e <= -1
    <3>1. e * d <= -d
      BY <2>2
    <3> QED
      BY <1>2, <3>1
  <2> QED
    BY <2>1, <2>2
<1> QED
  BY <1>1, <1>2, <1>3

LEMMA Remainder ==
    ASSUME NEW d \in Nat \ {0}, NEW q \in Int, NEW r \in 0 .. d - 1
    PROVE  (q * d + r) % d = r /\ (q * d + r) \div d = q
<1>1. PICK n \in Int : n = q * d + r
  OBVIOUS
<1>2. n % d = r /\ n \div d = q
  BY <1>1, Division
<1> QED
  BY <1>1, <1>2

\* A multiple more or less leaves the remainder.
LEMMA Wrapped ==
    ASSUME NEW d \in Nat \ {0}, NEW n \in Int, NEW k \in Int
    PROVE  (n + k * d) % d = n % d /\ (n + k * d) \div d = (n \div d) + k
<1>1. PICK q \in Int, r \in 0 .. d - 1 : q = n \div d /\ r = n % d /\ n = q * d + r
  BY Divided
<1>2. PICK p \in Int : p = q + k /\ p * d = q * d + k * d
  OBVIOUS
<1>3. n + k * d = p * d + r
  BY <1>1, <1>2
<1>4. PICK m \in Int : m = n + k * d
  OBVIOUS
<1>5. m % d = r /\ m \div d = p
  BY <1>3, <1>4, Division
<1> QED
  BY <1>1, <1>2, <1>4, <1>5

-----------------------------------------------------------------------------
(* What an object stands for                                                *)

\* u stands for x nanoseconds, modulo the width of its seconds.
Stands(u, x) ==
    /\ u \in utime_t /\ u.nsec <= Nano
    /\ \E k \in Int : to_nsec(u) = x + k * (Word * Nano)

LEMMA Widths ==
    ASSUME ClockAssumption
    PROVE  /\ Nano \in Nat \ {0} /\ Word \in Nat \ {0} /\ 4 * Nano < Word
           /\ Word * Nano \in Nat \ {0}
<1>1. Nano \in Nat \ {0} /\ Word \in Nat \ {0} /\ 4 * Nano < Word
  BY DEF ClockAssumption
<1> QED
  BY <1>1

LEMMA Seconds ==
    ASSUME ClockAssumption, NEW s \in Int
    PROVE  \E q \in Int, r \in 0 .. Word - 1 :
              /\ r = s % Word /\ s = q * Word + r
              /\ s * Nano = q * (Word * Nano) + r * Nano
<1>1. Word \in Nat \ {0} /\ Nano \in Nat \ {0}
  BY Widths
<1>2. PICK q \in Int, r \in 0 .. Word - 1 : r = s % Word /\ s = q * Word + r
  BY <1>1, Divided
<1>3. s * Nano = q * (Word * Nano) + r * Nano
  BY <1>1, <1>2
<1> QED
  BY <1>2, <1>3

\* s seconds, which wrap, and m nanoseconds.
LEMMA Made ==
    ASSUME ClockAssumption, NEW s \in Int, NEW m \in 0 .. Nano, NEW x \in Int, NEW k \in Int,
           m + s * Nano = x + k * (Word * Nano)
    PROVE  Stands([sec |-> s % Word, nsec |-> m], x)
<1>0. Word \in Nat \ {0} /\ Nano \in Nat \ {0}
  BY Widths
<1>2. PICK q \in Int, r \in 0 .. Word - 1 :
        /\ r = s % Word /\ s = q * Word + r
        /\ s * Nano = q * (Word * Nano) + r * Nano
  BY Seconds
<1>3. PICK j \in Int : j = k - q /\ j * (Word * Nano) = k * (Word * Nano) - q * (Word * Nano)
  BY Widths
<1>4. m + r * Nano = x + j * (Word * Nano)
  <2>1. PICK a, b, c, d \in Int : /\ a = s * Nano /\ b = q * (Word * Nano) /\ c = r * Nano
                                  /\ d = k * (Word * Nano)
    BY <1>0
  <2>2. m + a = x + d /\ a = b + c /\ j * (Word * Nano) = d - b
    BY <1>2, <1>3, <2>1
  <2>3. m + c = x + (d - b)
    BY <2>2
  <2> QED
    BY <2>1, <2>2, <2>3
<1>5. m \in 0 .. Word - 1 /\ m <= Nano
  BY Widths
<1> QED
  BY <1>2, <1>3, <1>4, <1>5 DEF Stands, utime_t, to_nsec

LEMMA Normalized ==
    ASSUME ClockAssumption, NEW u \in utime_t, NEW x \in Int, NEW k \in Int, to_nsec(u) = x + k * (Word * Nano)
    PROVE  Stands(normalize(u), x)
<1>1. CASE u.nsec <= Nano
  BY <1>1, Widths DEF Stands, normalize, utime_t
<1>2. CASE Nano < u.nsec
  <2>0. Nano \in Nat \ {0} /\ u.nsec \in Int
    BY Widths DEF utime_t
  <2>1. PICK q \in Int, m \in 0 .. Nano - 1 :
          q = u.nsec \div Nano /\ m = u.nsec % Nano /\ u.nsec = q * Nano + m
    BY <2>0, Divided
  <2>2. PICK s \in Int : s = u.sec + q /\ s * Nano = u.sec * Nano + q * Nano
    BY Widths DEF utime_t
  <2>3. m + s * Nano = x + k * (Word * Nano)
    BY <2>1, <2>2, Widths DEF to_nsec, utime_t
  <2>4. Stands([sec |-> s % Word, nsec |-> m], x)
    <3>1. m \in 0 .. Nano
      BY <2>0
    <3> QED
      BY <2>3, <3>1, Made
  <2> QED
    BY <1>2, <2>1, <2>2, <2>4 DEF normalize
<1> QED
  BY <1>1, <1>2, Widths DEF utime_t

LEMMA Constructed ==
    ASSUME ClockAssumption, NEW s \in Int, NEW m \in 0 .. Word - 1, NEW x \in Int, NEW k \in Int,
           m + s * Nano = x + k * (Word * Nano)
    PROVE  Stands(utime(s, m), x)
<1>1. Word \in Nat \ {0} /\ Nano \in Nat \ {0} /\ Word * Nano \in Nat \ {0}
  BY Widths
<1>2. PICK q \in Int, r \in 0 .. Word - 1 :
        /\ r = s % Word /\ s = q * Word + r
        /\ s * Nano = q * (Word * Nano) + r * Nano
  BY Seconds
<1>3. PICK j \in Int : j = k - q /\ j * (Word * Nano) = k * (Word * Nano) - q * (Word * Nano)
  BY <1>1
<1>4. PICK u : u = [sec |-> r, nsec |-> m]
  OBVIOUS
<1>5. to_nsec(u) = x + j * (Word * Nano)
  <2>1. PICK a, b, c, d \in Int : /\ a = s * Nano /\ b = q * (Word * Nano) /\ c = r * Nano
                                  /\ d = k * (Word * Nano)
    BY <1>1
  <2>2. m + a = x + d /\ a = b + c /\ j * (Word * Nano) = d - b /\ to_nsec(u) = m + c
    BY <1>2, <1>3, <1>4, <2>1 DEF to_nsec
  <2> QED
    BY <2>1, <2>2
<1>6. m % Word = m
  BY <1>1
<1>7. u \in utime_t
  BY <1>4 DEF utime_t
<1>8. Stands(normalize(u), x)
  BY <1>5, <1>7, Normalized
<1> QED
  BY <1>2, <1>4, <1>6, <1>8 DEF utime

LEMMA Reduced ==
    ASSUME ClockAssumption, NEW u, NEW x \in Int, Stands(u, x)
    PROVE  x % (Word * Nano) \in 0 .. (Word * Nano) - 1 /\ Stands(u, x % (Word * Nano))
<1>1. PICK w \in Nat \ {0} : w = Word * Nano
  BY Widths
<1>2. PICK k \in Int : to_nsec(u) = x + k * w
  BY <1>1 DEF Stands
<1>3. PICK q \in Int, r \in 0 .. w - 1 : r = x % w /\ x = q * w + r
  BY Divided
<1>4. PICK j \in Int : j = k + q /\ j * w = k * w + q * w
  OBVIOUS
<1>5. to_nsec(u) = r + j * w
  BY <1>2, <1>3, <1>4
<1> QED
  BY <1>1, <1>3, <1>5 DEF Stands

-----------------------------------------------------------------------------
(* The operations                                                           *)

LEMMA OperandIs ==
    ASSUME ClockAssumption, NEW o \in Operands
    PROVE  /\ o = [sec |-> o.sec, nsec |-> o.nsec]
           /\ o.sec \in 0 .. Word - 1 /\ o.nsec \in 0 .. Nano - 1 /\ to_nsec(o) \in Int
           /\ Stands(o, to_nsec(o))
<1>1. /\ Nano \in Nat \ {0} /\ Word \in Nat \ {0} /\ 4 * Nano < Word
      /\ Word * Nano \in Nat \ {0}
  BY Widths
<1>2. /\ o = [sec |-> o.sec, nsec |-> o.nsec]
      /\ o.sec \in 0 .. Word - 1 /\ o.nsec \in 0 .. Nano - 1
  BY DEF ClockAssumption, Operands
<1>3. to_nsec(o) \in Int
  BY <1>1, <1>2 DEF to_nsec
<1>4. o \in utime_t /\ o.nsec <= Nano
  BY <1>1, <1>2 DEF utime_t
<1>5. to_nsec(o) = to_nsec(o) + 0 * (Word * Nano)
  BY <1>1, <1>3
<1> QED
  BY <1>2, <1>3, <1>4, <1>5 DEF Stands

\* The nanoseconds of two times, and what they make in seconds.
LEMMA PlusStands ==
    ASSUME ClockAssumption, NEW u, NEW x \in Int, Stands(u, x),
           NEW o, NEW y \in Int, Stands(o, y)
    PROVE  Stands(Plus(u, o), x + y) /\ Stands(PlusAssign(u, o), x + y) /\ Plus(u, o) = PlusAssign(u, o)
<1>1. PICK w \in Nat \ {0}, n \in Nat \ {0}, v \in Nat \ {0} :
        w = Word /\ n = Nano /\ v = w * n /\ 4 * n < w
  BY Widths
<1>2. PICK k \in Int, l \in Int : to_nsec(u) = x + k * v /\ to_nsec(o) = y + l * v
  BY <1>1 DEF Stands
<1>3. PICK a \in 0 .. w - 1, b \in 0 .. n, c \in 0 .. w - 1, d \in 0 .. n :
        a = u.sec /\ b = u.nsec /\ c = o.sec /\ d = o.nsec
  BY <1>1 DEF Stands, utime_t
<1>4. PICK q \in Int, m \in 0 .. n - 1 : q = (b + d) \div n /\ m = (b + d) % n /\ b + d = q * n + m
  BY <1>1, Divided
<1>5. PICK s \in Int : s = a + c + q /\ s * n = a * n + c * n + q * n
  BY <1>1
<1>6. PICK j \in Int : j = k + l /\ j * v = k * v + l * v
  BY <1>1
<1>7. m + s * n = (x + y) + j * v
  <2>1. PICK an, cn, qn, kv, lv \in Int :
          an = a * n /\ cn = c * n /\ qn = q * n /\ kv = k * v /\ lv = l * v
    BY <1>1
  <2>2. b + an = x + kv /\ d + cn = y + lv
    BY <1>1, <1>2, <1>3, <2>1 DEF to_nsec
  <2>3. b + d = qn + m /\ s * n = an + cn + qn /\ j * v = kv + lv
    BY <1>4, <1>5, <1>6, <2>1
  <2> QED
    BY <2>1, <2>2, <2>3
<1>8. m \in 0 .. Word - 1 /\ m \in 0 .. Nano /\ x + y \in Int
  BY <1>1
<1>9. Plus(u, o) = utime(s, m) /\ PlusAssign(u, o) = [sec |-> s % Word, nsec |-> m]
  BY <1>1, <1>3, <1>4, <1>5 DEF Plus, PlusAssign
<1>10. Stands(utime(s, m), x + y) /\ Stands([sec |-> s % Word, nsec |-> m], x + y)
  <2>1. m + s * Nano = (x + y) + j * (Word * Nano)
    BY <1>1, <1>7
  <2> QED
    BY <1>8, <2>1, Constructed, Made
<1>11. utime(s, m) = [sec |-> s % Word, nsec |-> m]
  BY <1>1 DEF utime, normalize
<1> QED
  BY <1>9, <1>10, <1>11

LEMMA MinusStands ==
    ASSUME ClockAssumption, NEW u, NEW x \in Int, Stands(u, x),
           NEW o, NEW y \in Int, Stands(o, y)
    PROVE  Stands(Minus(u, o), x - y) /\ Stands(MinusAssign(u, o), x - y)
<1>1. PICK w \in Nat \ {0}, n \in Nat \ {0}, v \in Nat \ {0} :
        w = Word /\ n = Nano /\ v = w * n /\ 4 * n < w
  BY Widths
<1>2. PICK k \in Int, l \in Int : to_nsec(u) = x + k * v /\ to_nsec(o) = y + l * v
  BY <1>1 DEF Stands
<1>3. PICK a \in 0 .. w - 1, b \in 0 .. n, c \in 0 .. w - 1, d \in 0 .. n :
        a = u.sec /\ b = u.nsec /\ c = o.sec /\ d = o.nsec
  BY <1>1 DEF Stands, utime_t
<1>4. PICK g \in 0 .. 1, m \in 0 .. n :
        g = Borrow(u, o) /\ (g = 0 <=> b >= d) /\ m = b - d + n * g
  BY <1>1, <1>3 DEF Borrow
<1>5. PICK s \in Int : s = a - c - g /\ s * n = a * n - c * n - g * n
  BY <1>1
<1>6. PICK j \in Int : j = k - l /\ j * v = k * v - l * v
  BY <1>1
<1>7. m + s * n = (x - y) + j * v
  <2>1. PICK an, cn, gn, kv, lv \in Int :
          an = a * n /\ cn = c * n /\ gn = g * n /\ kv = k * v /\ lv = l * v
    BY <1>1
  <2>2. b + an = x + kv /\ d + cn = y + lv
    BY <1>1, <1>2, <1>3, <2>1 DEF to_nsec
  <2>3. m = b - d + gn /\ s * n = an - cn - gn /\ j * v = kv - lv
    BY <1>4, <1>5, <1>6, <2>1
  <2> QED
    BY <2>1, <2>2, <2>3
<1>8. m \in 0 .. Word - 1 /\ m \in 0 .. Nano /\ x - y \in Int
  BY <1>1
<1>9. Minus(u, o) = utime(s, m) /\ MinusAssign(u, o) = [sec |-> s % Word, nsec |-> m]
  <2>1. Minus(u, o) = utime(s, m)
    BY <1>1, <1>3, <1>4, <1>5 DEF Minus
  <2>2. CASE g = 0
    <3>1. s = a - c /\ m = b - d
      BY <1>4, <1>5, <2>2
    <3> QED
      BY <1>3, <1>4, <2>1, <2>2, <3>1 DEF MinusAssign
  <2>3. CASE g = 1
    <3>1. s = a - c - 1 /\ m = b + n - d /\ ~(b >= d)
      BY <1>4, <1>5, <2>3
    <3> QED
      BY <1>1, <1>3, <2>1, <3>1 DEF MinusAssign
  <2> QED
    BY <1>4, <2>2, <2>3
<1>10. Stands(utime(s, m), x - y) /\ Stands([sec |-> s % Word, nsec |-> m], x - y)
  <2>1. m + s * Nano = (x - y) + j * (Word * Nano)
    BY <1>1, <1>7
  <2> QED
    BY <1>8, <2>1, Constructed, Made
<1> QED
  BY <1>9, <1>10

\* Whole seconds and the rest of a double.
LEMMA DoubleStands ==
    ASSUME ClockAssumption, NEW f \in Nat
    PROVE  Stands(set_from_double(f), f)
<1>1. Nano \in Nat \ {0} /\ Word * Nano \in Nat \ {0}
  BY Widths
<1>2. PICK q \in Int, m \in 0 .. Nano - 1 : q = f \div Nano /\ m = f % Nano /\ f = q * Nano + m
  BY <1>1, Divided
<1>3. PICK z \in Int : z = 0 /\ m + q * Nano = f + z * (Word * Nano)
  BY <1>1, <1>2
<1>4. m \in 0 .. Nano
  BY <1>1
<1>5. Stands([sec |-> q % Word, nsec |-> m], f)
  BY <1>3, <1>4, Made
<1> QED
  BY <1>2, <1>5 DEF set_from_double

LEMMA DoublesStand ==
    ASSUME ClockAssumption, NEW u, NEW x \in Int, Stands(u, x), NEW f \in Nat
    PROVE  Stands(PlusDouble(u, f), x + f) /\ Stands(MinusDouble(u, f), x - f)
<1>1. PICK w \in Nat \ {0}, n \in Nat \ {0}, v \in Nat \ {0} :
        w = Word /\ n = Nano /\ v = w * n /\ 4 * n < w
  BY Widths
<1>2. PICK k \in Int : to_nsec(u) = x + k * v
  BY <1>1 DEF Stands
<1>3. PICK a \in 0 .. w - 1, b \in 0 .. n : a = u.sec /\ b = u.nsec /\ u = [sec |-> a, nsec |-> b]
  BY <1>1 DEF Stands, utime_t
<1>4. PICK q \in Int, r \in 0 .. n - 1 : q = f \div n /\ r = f % n /\ f = q * n + r
  BY <1>1, Divided
<1>5. PICK an, qn, kv \in Int : an = a * n /\ qn = q * n /\ kv = k * v
                             /\ b + an = x + kv /\ f = qn + r
  BY <1>1, <1>2, <1>3, <1>4 DEF to_nsec
<1>6. Stands(PlusDouble(u, f), x + f)
  <2>1. PICK s, m \in Int : s = a + q /\ s * n = an + qn /\ m = b + r
    BY <1>1, <1>5
  <2>2. m + s * n = (x + f) + kv
    BY <1>5, <2>1
  <2>3. m + s * Nano = (x + f) + k * (Word * Nano) /\ m \in 0 .. Word - 1 /\ x + f \in Int
    BY <1>1, <1>5, <2>1, <2>2
  <2>4. Stands(utime(s, m), x + f)
    BY <2>3, Constructed
  <2> QED
    BY <1>1, <1>3, <1>4, <2>1, <2>4 DEF PlusDouble, utime
<1>7. CASE r = 0
  <2>1. PICK s, m \in Int : s = a - q /\ s * n = an - qn /\ m = b
    BY <1>1, <1>5
  <2>2. m + s * n = (x - f) + kv
    BY <1>5, <1>7, <2>1
  <2>3. m + s * Nano = (x - f) + k * (Word * Nano) /\ m \in 0 .. Word - 1 /\ x - f \in Int
    BY <1>1, <1>5, <2>1, <2>2
  <2>4. Stands(utime(s, m), x - f)
    BY <2>3, Constructed
  <2>5. m % Word = m
    BY <1>1, <2>3
  <2>6. MinusDouble(u, f) = normalize([u EXCEPT !.sec = s % Word])
    BY <1>1, <1>3, <1>4, <1>7, <2>1 DEF MinusDouble
  <2>7. [u EXCEPT !.sec = s % Word] = [sec |-> s % Word, nsec |-> m]
    BY <1>3, <2>1
  <2> QED
    BY <1>6, <2>4, <2>5, <2>6, <2>7 DEF utime
<1>8. CASE r # 0
  <2>1. PICK s, m \in Int : s = a - q - 1 /\ s * n = an - qn - n /\ m = n + b - r
    BY <1>1, <1>5
  <2>2. m + s * n = (x - f) + kv
    BY <1>5, <2>1
  <2>3. m + s * Nano = (x - f) + k * (Word * Nano) /\ m \in 0 .. Word - 1 /\ x - f \in Int
    BY <1>1, <1>5, <1>8, <2>1, <2>2
  <2>4. Stands(utime(s, m), x - f)
    BY <2>3, Constructed
  <2>5. MinusDouble(u, f) = utime(s, m)
    BY <1>1, <1>3, <1>4, <1>8, <2>1 DEF MinusDouble, utime
  <2> QED
    BY <1>6, <2>4, <2>5
<1> QED
  BY <1>6, <1>7, <1>8

-----------------------------------------------------------------------------
(* Comparing and converting                                                 *)

LEMMA Compared ==
    ASSUME ClockAssumption, NEW u \in utime_t, u.nsec < Nano, NEW o \in utime_t, o.nsec < Nano
    PROVE  /\ Greater(u, o) <=> to_nsec(u) > to_nsec(o)
           /\ Less(u, o) <=> to_nsec(u) < to_nsec(o)
           /\ Equal(u, o) <=> to_nsec(u) = to_nsec(o)
<1>1. PICK w \in Nat \ {0}, n \in Nat \ {0} : w = Word /\ n = Nano
  BY Widths
<1>2. PICK a \in 0 .. w - 1, b \in 0 .. n - 1, c \in 0 .. w - 1, d \in 0 .. n - 1 :
        a = u.sec /\ b = u.nsec /\ c = o.sec /\ d = o.nsec
  BY <1>1 DEF utime_t
<1>3. PICK an, cn \in Int : an = a * n /\ cn = c * n /\ to_nsec(u) = b + an /\ to_nsec(o) = d + cn
  BY <1>1, <1>2 DEF to_nsec
<1>4. a = c => an = cn
  BY <1>3
<1>5. a > c => an >= cn + n
  <2>1. ASSUME a > c PROVE an >= cn + n
    <3>1. PICK k \in Nat : a = c + 1 + k
      BY <2>1
    <3>2. a * n = c * n + n + k * n /\ k * n >= 0
      BY <3>1
    <3> QED
      BY <1>3, <3>2
  <2> QED
    BY <2>1
<1>6. c > a => cn >= an + n
  <2>1. ASSUME c > a PROVE cn >= an + n
    <3>1. PICK k \in Nat : c = a + 1 + k
      BY <2>1
    <3>2. c * n = a * n + n + k * n /\ k * n >= 0
      BY <3>1
    <3> QED
      BY <1>3, <3>2
  <2> QED
    BY <2>1
<1>7. /\ Greater(u, o) <=> (a > c \/ (a = c /\ b > d))
      /\ Less(u, o) <=> (a < c \/ (a = c /\ b < d))
      /\ Equal(u, o) <=> (a = c /\ b = d)
  BY <1>2 DEF Greater, Less, Equal
<1>8. CASE a = c
  BY <1>3, <1>4, <1>7, <1>8
<1>9. CASE a > c
  <2>1. an + b > cn + d
    BY <1>5, <1>9
  <2> QED
    BY <1>3, <1>7, <1>9, <2>1
<1>10. CASE c > a
  <2>1. an + b < cn + d
    BY <1>6, <1>10
  <2> QED
    BY <1>3, <1>7, <1>10, <2>1
<1> QED
  BY <1>8, <1>9, <1>10

\* Whole milliseconds.
LEMMA Milliseconds ==
    ASSUME ClockAssumption, NEW u \in utime_t
    PROVE  to_msec(u) = to_nsec(u) \div (Nano \div Milli)
<1>1. PICK n \in Nat \ {0}, m \in Nat \ {0} : n = Nano /\ m = Milli /\ n % m = 0
  BY DEF ClockAssumption
<1>2. PICK d \in Int : d = n \div m /\ n = d * m
  <2>1. PICK q \in Int, r \in 0 .. m - 1 : q = n \div m /\ r = n % m /\ n = q * m + r
    BY Divided
  <2> QED
    BY <1>1, <2>1
<1>3. d \in Nat \ {0}
  <2>1. ASSUME d <= 0 PROVE FALSE
    <3>1. d * m <= 0
      BY <2>1
    <3> QED
      BY <1>2, <3>1
  <2> QED
    BY <2>1
<1>4. PICK a \in Int, b \in Int : a = u.sec /\ b = u.nsec
  BY DEF utime_t
<1>5. PICK k \in Int : k = a * m /\ k * d = a * n
  BY <1>2, <1>3
<1>6. (b + k * d) \div d = (b \div d) + k
  BY <1>3, Wrapped
<1>7. to_msec(u) = (b \div d) + k /\ to_nsec(u) = b + k * d
  BY <1>1, <1>2, <1>4, <1>5 DEF to_msec, to_nsec
<1> QED
  BY <1>1, <1>2, <1>6, <1>7

LEMMA Microseconds ==
    ASSUME ClockAssumption, NEW u \in utime_t
    PROVE  to_nsec(of_timeval(u, 10)) \in to_nsec(u) - 9 .. to_nsec(u)
<1>1. PICK a \in Int, b \in Int : a = u.sec * Nano /\ b = u.nsec
  BY DEF ClockAssumption, utime_t
<1>2. (b \div 10) * 10 \in b - 9 .. b
  OBVIOUS
<1>3. to_nsec(u) = b + a /\ to_nsec(of_timeval(u, 10)) = (b \div 10) * 10 + a
  BY <1>1 DEF to_nsec, of_timeval
<1> QED
  BY <1>1, <1>2, <1>3

\* What was added is taken away again, carry by borrow.
LEMMA ThereAndBack ==
    ASSUME ClockAssumption, NEW u \in utime_t, u.nsec < Nano, NEW o \in utime_t, o.nsec < Nano
    PROVE  Minus(Plus(u, o), o) = u
<1>1. PICK w \in Nat \ {0}, n \in Nat \ {0} : w = Word /\ n = Nano /\ 4 * n < w
  BY Widths
<1>2. PICK a \in 0 .. w - 1, b \in 0 .. n - 1, c \in 0 .. w - 1, d \in 0 .. n - 1 :
        a = u.sec /\ b = u.nsec /\ c = o.sec /\ d = o.nsec /\ u = [sec |-> a, nsec |-> b]
  BY <1>1 DEF utime_t
<1>3. PICK g \in 0 .. 1, m \in 0 .. n - 1 :
        g = (b + d) \div n /\ m = (b + d) % n /\ (g = 1 <=> m < d) /\ b = m - d + n * g
  <2>1. PICK e \in Nat : e = b + d
    OBVIOUS
  <2>2. CASE e < n
    <3>1. PICK z \in Int : z = 0 /\ e = z * n + e
      OBVIOUS
    <3>2. e \in 0 .. n - 1
      BY <2>2
    <3>3. e \div n = 0 /\ e % n = e
      BY <3>1, <3>2, Division
    <3> QED
      BY <2>1, <2>2, <3>2, <3>3
  <2>3. CASE e >= n
    <3>1. PICK z \in Int, f \in 0 .. n - 1 : z = 1 /\ f = e - n /\ e = z * n + f
      BY <2>1, <2>3
    <3>2. e \div n = 1 /\ e % n = f
      BY <3>1, Division
    <3> QED
      BY <2>1, <2>3, <3>1, <3>2
  <2> QED
    BY <2>1, <2>2, <2>3
<1>4. PICK s \in 0 .. w - 1, k \in Int : s = (a + c + g) % w /\ a + c + g = k * w + s
  <2>1. PICK e \in Int : e = a + c + g
    OBVIOUS
  <2>2. PICK k \in Int, s \in 0 .. w - 1 : s = e % w /\ e = k * w + s
    BY Divided
  <2> QED
    BY <2>1, <2>2
<1>5. PICK p : p = [sec |-> s, nsec |-> m]
  OBVIOUS
<1>6. Plus(u, o) = p /\ Borrow(p, o) = g
  <2>1. m % w = m /\ ~(n < m)
    BY <1>1
  <2>2. Plus(u, o) = utime(a + c + g, m)
    BY <1>1, <1>2, <1>3 DEF Plus
  <2>3. utime(a + c + g, m) = p
    BY <1>1, <1>4, <1>5, <2>1 DEF utime, normalize
  <2>4. Borrow(p, o) = IF m < d THEN 1 ELSE 0
    BY <1>2, <1>5 DEF Borrow
  <2>5. Borrow(p, o) = g
    BY <1>3, <2>4
  <2> QED
    BY <2>2, <2>3, <2>5
<1>7. (s - c - g) % w = a
  <2>1. PICK j, e \in Int : j = -k /\ e = s - c - g /\ j * w = -(k * w)
    OBVIOUS
  <2>2. e = j * w + a
    BY <1>4, <2>1
  <2> QED
    BY <2>1, <2>2, Division
<1>8. Minus(p, o) = utime(s - c - g, b)
  <2>1. Minus(p, o) = utime(s - c - g, m - d + n * g)
    BY <1>1, <1>2, <1>5, <1>6 DEF Minus
  <2> QED
    BY <1>3, <2>1
<1>9. utime(s - c - g, b) = [sec |-> a, nsec |-> b]
  <2>1. b % w = b
    BY <1>1
  <2> QED
    BY <1>1, <1>7, <2>1 DEF utime, normalize
<1> QED
  BY <1>2, <1>6, <1>8, <1>9

-----------------------------------------------------------------------------
(* The theorem                                                              *)

ClockInv == exact \in 0 .. (Word * Nano) - 1 /\ Stands(t, exact)

LEMMA InvExact ==
    ASSUME ClockAssumption, ClockInv PROVE ClockExact
<1>1. PICK w \in Nat \ {0} : w = Word * Nano
  BY Widths
<1>2. t \in utime_t /\ t.nsec <= Nano
  BY DEF ClockInv, Stands
<1>3. to_nsec(t) % (Word * Nano) = exact
  <2>1. PICK r \in 0 .. w - 1 : r = exact
    BY <1>1 DEF ClockInv
  <2>2. PICK k \in Int, n \in Int : n = k * w + r /\ n = to_nsec(t)
    BY <1>1, <2>1 DEF ClockInv, Stands
  <2>3. (k * w + r) % w = r
    BY Remainder
  <2> QED
    BY <1>1, <2>1, <2>2, <2>3
<1>4. ASSUME NEW o \in Operands
      PROVE  /\ Plus(t, o) = PlusAssign(t, o)
             /\ t.nsec < Nano =>
                  /\ Greater(t, o) <=> to_nsec(t) > to_nsec(o)
                  /\ Less(t, o) <=> to_nsec(t) < to_nsec(o)
                  /\ Equal(t, o) <=> to_nsec(t) = to_nsec(o)
                  /\ Minus(Plus(t, o), o) = t
  <2>1. PICK y \in Int : y = to_nsec(o) /\ Stands(o, y) /\ o \in utime_t /\ o.nsec < Nano
    BY <1>4, OperandIs, Widths DEF Stands
  <2>2. exact \in Int
    BY Widths DEF ClockInv
  <2>3. Plus(t, o) = PlusAssign(t, o)
    BY <2>1, <2>2, PlusStands DEF ClockInv
  <2> QED
    BY <1>2, <2>1, <2>3, Compared, ThereAndBack
<1> QED
  BY <1>2, <1>3, <1>4, Milliseconds, Microseconds DEF ClockExact

LEMMA StepExact ==
    ASSUME ClockAssumption, ClockInv, NEW u, NEW x \in Int, Stands(u, x), Becomes(u, x)
    PROVE  ClockInv'
BY Reduced DEF ClockInv, Becomes

LEMMA StartExact == ASSUME ClockAssumption, Init PROVE ClockInv
<1>1. PICK w \in Nat \ {0} : w = Word * Nano
  BY Widths
<1>2. t \in utime_t /\ t.nsec <= Nano
  BY Widths DEF Init, utime_t
<1>3. to_nsec(t) = 0 /\ 0 = 0 + 0 * w
  BY Widths DEF Init, to_nsec
<1> QED
  BY <1>1, <1>2, <1>3 DEF Init, ClockInv, Stands

LEMMA NextExact == ASSUME ClockAssumption, ClockInv, Next PROVE ClockInv'
<1>1. exact \in Int /\ Stands(t, exact)
  BY Widths DEF ClockInv
<1>2. ASSUME NEW o \in Operands PROVE to_nsec(o) \in Int /\ Stands(o, to_nsec(o))
  BY <1>2, OperandIs
<1>3. Durations \subseteq Nat
  <2>1. ASSUME NEW s \in Secs, NEW n \in Nsecs PROVE Nano * s + n \in Nat
    BY <2>1, Widths DEF ClockAssumption
  <2> QED
    BY <2>1 DEF Durations
<1>4. CASE Construct
  <2>1. PICK o, n : /\ o \in Operands /\ n \in {o.nsec, Nano + o.nsec}
                   /\ Becomes(utime(o.sec, n), Nano * o.sec + n)
    BY <1>4 DEF Construct
  <2>2. PICK s \in Int, z \in Int, x \in Int :
          s = o.sec /\ z = 0 /\ x = Nano * o.sec + n /\ n \in 0 .. Word - 1
          /\ n + s * Nano = x + z * (Word * Nano)
    <3>1. o.sec \in 0 .. Word - 1 /\ o.nsec \in 0 .. Nano - 1
      BY <2>1, OperandIs
    <3>2. PICK s \in Int, c \in Int : s = o.sec /\ c = s * Nano /\ c = Nano * s /\ n \in 0 .. Word - 1
      BY <2>1, <3>1, Widths
    <3>3. 0 * (Word * Nano) = 0
      BY Widths
    <3> QED
      BY <2>1, <3>2, <3>3
  <2>3. Stands(utime(s, n), x)
    BY <2>2, Constructed
  <2> QED
    BY <2>1, <2>2, <2>3, StepExact
<1>5. CASE FromDouble
  BY <1>3, <1>5, DoubleStands, StepExact DEF FromDouble
<1>6. CASE Add \/ AddTo
  <2>1. PICK o, y, u :
          /\ o \in Operands /\ y \in Int /\ y = to_nsec(o)
          /\ u \in {Plus(t, o), PlusAssign(t, o)} /\ Becomes(u, exact + y)
    BY <1>2, <1>6 DEF Add, AddTo
  <2>2. PICK x \in Int : x = exact /\ Stands(t, x)
    BY <1>1
  <2>3. Stands(o, y)
    BY <1>2, <2>1
  <2>4. Stands(u, x + y)
    BY <2>1, <2>2, <2>3, PlusStands
  <2>5. exact + y \in Int
    BY <1>1, <2>1
  <2> QED
    BY <2>1, <2>2, <2>4, <2>5, StepExact
<1>7. CASE Subtract \/ SubtractFrom
  <2>1. PICK o, y, u :
          /\ o \in Operands /\ y \in Int /\ y = to_nsec(o)
          /\ u \in {Minus(t, o), MinusAssign(t, o)} /\ Becomes(u, exact - y)
    BY <1>2, <1>7 DEF Subtract, SubtractFrom
  <2>2. PICK x \in Int : x = exact /\ Stands(t, x)
    BY <1>1
  <2>3. Stands(o, y)
    BY <1>2, <2>1
  <2>4. Stands(u, x - y)
    BY <2>1, <2>2, <2>3, MinusStands
  <2>5. exact - y \in Int
    BY <1>1, <2>1
  <2> QED
    BY <2>1, <2>2, <2>4, <2>5, StepExact
<1>8. CASE Elapsed
  <2>1. PICK o, y, u :
          /\ o \in Operands /\ y \in Int /\ y = to_nsec(o)
          /\ u = Minus(o, t) /\ Becomes(u, y - exact)
    BY <1>2, <1>8 DEF Elapsed
  <2>2. PICK x \in Int : x = exact /\ Stands(t, x)
    BY <1>1
  <2>3. Stands(o, y)
    BY <1>2, <2>1
  <2>4. Stands(u, y - x)
    BY <2>1, <2>2, <2>3, MinusStands
  <2>5. y - exact \in Int
    BY <1>1, <2>1
  <2> QED
    BY <2>1, <2>2, <2>4, <2>5, StepExact
<1>9. CASE AddDouble \/ SubtractDouble
  <2>1. PICK d \in Nat : \/ Becomes(PlusDouble(t, d), exact + d)
                        \/ Becomes(MinusDouble(t, d), exact - d)
    BY <1>3, <1>9 DEF AddDouble, SubtractDouble
  <2>2. Stands(PlusDouble(t, d), exact + d) /\ Stands(MinusDouble(t, d), exact - d)
    BY <1>1, <2>1, DoublesStand
  <2>3. exact + d \in Int /\ exact - d \in Int
    BY <1>1
  <2> QED
    BY <2>1, <2>2, <2>3, StepExact
<1> QED
  BY <1>4, <1>5, <1>6, <1>7, <1>8, <1>9 DEF Next

\* With the code's 10^9 and 2^32 as with any numbers like them: whatever was
\* added, subtracted or converted before, the seconds and nanoseconds of a
\* utime_t make the time that the operations make, modulo 2^32 seconds, and
\* two of them compare the way their times do (time_utils.h).
THEOREM TimesExact == ASSUME ClockAssumption PROVE Spec => []ClockExact
<1>1. Init => ClockInv
  BY StartExact
<1>2. ClockInv /\ [Next]_vars => ClockInv'
  <2>1. CASE UNCHANGED vars
    BY <2>1 DEF vars, ClockInv, Stands
  <2> QED
    BY <2>1, NextExact
<1>3. ClockInv => ClockExact
  BY InvExact
<1> QED
  BY <1>1, <1>2, <1>3, PTL DEF Spec
=============================================================================

--------------------------- MODULE RecordsProofs ---------------------------
(***************************************************************************)
(* What the scan of the data file returns, for every alphabet, field width *)
(* and set of records: of an append cut off at any byte, of a file with a  *)
(* fragment inside, and of one with an altered byte.                       *)
(*                                                                         *)
(* The codec is recursive functions over bytes.  In place of an induction  *)
(* the proofs take the least position where a claim fails (LeastElement).  *)
(* From "these bytes stand at this position" (Agrees) follows what is read *)
(* there, field by field (RecordIsReadBack), from "these records stand one *)
(* after the other" (Laid) what the scan returns (ScanLaid); the invariant *)
(* says in these terms what the file holds.                                *)
(***************************************************************************)
EXTENDS Records, TLAPS, WellFoundedInduction, SequenceTheorems

-----------------------------------------------------------------------------
(* Numbers: the digits that write_uint writes and read_uint adds up. *)

(* A non-empty set of naturals has a least element. *)
LEMMA LeastElement ==
    ASSUME NEW T, T \subseteq Nat, T # {}
    PROVE  \E x \in T : \A y \in T : x <= y
<1>1. PICK x \in T : \A y \in T : <<y, x>> \notin OpToRel(<, Nat)
  BY WFMin, NatLessThanWellFounded, Zenon
<1>2. \A y \in T : ~(y < x)
  BY <1>1, Zenon DEF OpToRel
<1> QED
  BY <1>2

(* The recursion that defines the weight of a byte has a solution. *)
LEMMA PowersExist ==
    ASSUME NEW N \in Nat
    PROVE  \E f : f = [i \in 0 .. N |-> IF i = 0 THEN 1 ELSE Base * f[i - 1]]
<1> DEFINE F(f, m) == f = [i \in 0 .. m |-> IF i = 0 THEN 1 ELSE Base * f[i - 1]]
           T == {m \in Nat : ~ \E f : F(f, m)}
<1>1. ASSUME T # {} PROVE FALSE
  <2>1. PICK m \in T : \A y \in T : m <= y
    BY <1>1, LeastElement
  <2>2. m # 0
    <3>1. F([i \in 0 .. 0 |-> 1], 0)
      OBVIOUS
    <3> QED
      BY <3>1
  <2>3. PICK f : F(f, m - 1)
    BY <2>1, <2>2
  <2> DEFINE g == [i \in 0 .. m |-> IF i = m THEN Base * f[m - 1] ELSE f[i]]
  <2>4. ASSUME NEW i \in 0 .. m
        PROVE  g[i] = IF i = 0 THEN 1 ELSE Base * g[i - 1]
    <3>1. CASE i = m
      <4>1. m - 1 \in 0 .. m /\ m - 1 # m
        BY <2>1, <2>2
      <4> QED
        BY <2>2, <3>1, <4>1
    <3>2. CASE i # m
      <4>1. i \in 0 .. (m - 1) /\ f[i] = IF i = 0 THEN 1 ELSE Base * f[i - 1]
        BY <2>3, <3>2
      <4>2. i # 0 => i - 1 \in 0 .. m /\ i - 1 # m
        BY <2>1
      <4> QED
        BY <3>2, <4>1, <4>2
    <3> QED
      BY <3>1, <3>2
  <2>5. F(g, m)
    BY <2>4
  <2> QED
    BY <2>1, <2>5
<1> QED
  BY <1>1

(* The weights of bytes 0 to n: the function that Power takes the last     *)
(* value of.                                                               *)
Powers(n) == CHOOSE f : f = [i \in 0 .. n |-> IF i = 0 THEN 1 ELSE Base * f[i - 1]]

(* The weight of byte n, and the weights of the bytes before it. *)
LEMMA PowersOf ==
    ASSUME NEW n \in Nat
    PROVE  /\ Power(n) = Powers(n)[n]
           /\ Powers(n)[0] = 1
           /\ \A i \in 1 .. n : Powers(n)[i] = Base * Powers(n)[i - 1]
<1>1. Power(n) = Powers(n)[n]
  BY DEF Power, Powers
<1>2. Powers(n) = [i \in 0 .. n |-> IF i = 0 THEN 1 ELSE Base * Powers(n)[i - 1]]
  BY PowersExist DEF Powers
<1> QED
  BY <1>1, <1>2

(* The weight of a byte does not depend on how many bytes follow. *)
LEMMA PowersAgree ==
    ASSUME NEW n \in Nat, NEW m \in Nat, n <= m
    PROVE  \A i \in 0 .. n : Powers(n)[i] = Powers(m)[i]
<1> DEFINE T == {i \in 0 .. n : Powers(n)[i] # Powers(m)[i]}
<1>1. ASSUME T # {} PROVE FALSE
  <2>0. T \subseteq Nat
    OBVIOUS
  <2>1. PICK i \in T : \A y \in T : i <= y
    BY <1>1, <2>0, LeastElement
  <2>2. i # 0
    BY <2>1, PowersOf
  <2>3. i - 1 \in 0 .. n /\ i - 1 \notin T /\ i \in 1 .. n /\ i \in 1 .. m
    BY <2>1, <2>2
  <2>4. Powers(n)[i - 1] = Powers(m)[i - 1]
    BY <2>3
  <2> QED
    BY <2>1, <2>3, <2>4, PowersOf
<1> QED
  BY <1>1

(* Each byte of a number weighs Base times the one before it: the shifts   *)
(* by eight bits in write_uint and read_uint.                              *)
LEMMA PowerStep == Power(0) = 1 /\ \A n \in Nat : Power(n + 1) = Base * Power(n)
<1>1. Power(0) = 1
  BY PowersOf
<1>2. ASSUME NEW n \in Nat PROVE Power(n + 1) = Base * Power(n)
  <2>1. Power(n) = Powers(n)[n] /\ Power(n + 1) = Powers(n + 1)[n + 1]
    BY PowersOf
  <2>2. n + 1 \in 1 .. (n + 1) /\ (n + 1) - 1 = n /\ n + 1 \in Nat
    OBVIOUS
  <2>3. Powers(n + 1)[n + 1] = Base * Powers(n + 1)[n]
    BY <2>2, PowersOf
  <2>4. Powers(n)[n] = Powers(n + 1)[n]
    BY PowersAgree
  <2> QED
    BY <2>1, <2>3, <2>4
<1> QED
  BY <1>1, <1>2

(* Every weight is a positive number. *)
LEMMA PowerType == \A n \in Nat : Power(n) \in Nat \ {0}
<1> DEFINE T == {n \in Nat : Power(n) \notin Nat \ {0}}
<1>0. Base \in Nat \ {0}
  BY RecordsAssumption
<1>1. ASSUME T # {} PROVE FALSE
  <2>1. PICK n \in T : \A y \in T : n <= y
    BY <1>1, LeastElement
  <2>2. n # 0
    BY <2>1, PowerStep
  <2>3. n - 1 \in Nat /\ (n - 1) + 1 = n /\ n - 1 \notin T
    BY <2>1, <2>2
  <2>4. Power(n - 1) \in Nat \ {0}
    BY <2>3
  <2>5. Power(n) = Base * Power(n - 1)
    BY <2>3, PowerStep
  <2>6. Base * Power(n - 1) \in Nat \ {0}
    BY <1>0, <2>4
  <2> QED
    BY <2>1, <2>5, <2>6
<1> QED
  BY <1>1

(* f[i] is a plus the first i values of g. *)
Sums(f, a, g, N) ==
    /\ f = [i \in 0 .. N |-> f[i]]
    /\ f[0] = a
    /\ \A i \in 1 .. N : f[i] = f[i - 1] + g[i]

(* Running sums exist, for any summands. *)
LEMMA SumsExist == \A a, g : \A N \in Nat : \E f : Sums(f, a, g, N)
<1> SUFFICES ASSUME NEW a, NEW g, NEW N \in Nat
             PROVE  \E f : Sums(f, a, g, N)
  OBVIOUS
<1> DEFINE F(f, m) == f = [i \in 0 .. m |-> IF i = 0 THEN a ELSE f[i - 1] + g[i]]
           T == {m \in Nat : ~ \E f : F(f, m)}
<1>1. ASSUME T # {} PROVE FALSE
  <2>1. PICK m \in T : \A y \in T : m <= y
    BY <1>1, LeastElement
  <2>2. m # 0
    <3>1. F([i \in 0 .. 0 |-> a], 0)
      OBVIOUS
    <3> QED
      BY <3>1
  <2>3. PICK f : F(f, m - 1)
    BY <2>1, <2>2
  <2> DEFINE h == [i \in 0 .. m |-> IF i = m THEN f[m - 1] + g[m] ELSE f[i]]
  <2>4. ASSUME NEW i \in 0 .. m
        PROVE  h[i] = IF i = 0 THEN a ELSE h[i - 1] + g[i]
    <3>1. CASE i = m
      <4>1. m - 1 \in 0 .. m /\ m - 1 # m
        BY <2>1, <2>2
      <4> QED
        BY <2>2, <3>1, <4>1
    <3>2. CASE i # m
      <4>1. i \in 0 .. (m - 1) /\ f[i] = IF i = 0 THEN a ELSE f[i - 1] + g[i]
        BY <2>3, <3>2
      <4>2. i # 0 => i - 1 \in 0 .. m /\ i - 1 # m
        BY <2>1
      <4> QED
        BY <3>2, <4>1, <4>2
    <3> QED
      BY <3>1, <3>2
  <2>5. F(h, m)
    BY <2>4
  <2> QED
    BY <2>1, <2>5
<1>2. PICK f : F(f, N)
  BY <1>1
<1>3. \A i \in 0 .. N : f[i] = IF i = 0 THEN a ELSE f[i - 1] + g[i]
  BY <1>2
<1>4. f[0] = a /\ \A i \in 1 .. N : f[i] = f[i - 1] + g[i]
  BY <1>3
<1>5. f = [i \in 0 .. N |-> f[i]]
  BY <1>2
<1> QED
  BY <1>4, <1>5 DEF Sums

(* The value of the first i bytes. *)
UpTo(bytes) ==
    CHOOSE f : f = [i \in 0 .. Len(bytes) |-> IF i = 0 THEN 0 ELSE f[i - 1] + bytes[i] * Power(i - 1)]

(* read_uint adds up its bytes, each with its weight. *)
LEMMA NumberSteps ==
    ASSUME NEW bytes, Len(bytes) \in Nat
    PROVE  /\ Number(bytes) = UpTo(bytes)[Len(bytes)]
           /\ UpTo(bytes)[0] = 0
           /\ \A i \in 1 .. Len(bytes) : UpTo(bytes)[i] = UpTo(bytes)[i - 1] + bytes[i] * Power(i - 1)
<1> DEFINE N == Len(bytes)
           g == [i \in 1 .. N |-> bytes[i] * Power(i - 1)]
<1>1. Number(bytes) = UpTo(bytes)[Len(bytes)]
  BY DEF Number, UpTo
<1>2. N \in Nat
  OBVIOUS
<1>3. PICK f : Sums(f, 0, g, N)
  <2> HIDE DEF N, g
  <2> QED
    BY <1>2, SumsExist
<1>4. f = [i \in 0 .. N |-> IF i = 0 THEN 0 ELSE f[i - 1] + bytes[i] * Power(i - 1)]
  <2>1. ASSUME NEW i \in 0 .. N PROVE f[i] = IF i = 0 THEN 0 ELSE f[i - 1] + bytes[i] * Power(i - 1)
    <3>1. i # 0 => i \in 1 .. N
      BY <1>2
    <3>2. i # 0 => g[i] = bytes[i] * Power(i - 1)
      BY <3>1
    <3> HIDE DEF g, N
    <3> QED
      BY <1>3, <3>1, <3>2 DEF Sums
  <2> HIDE DEF N
  <2> QED
    BY <1>3, <2>1 DEF Sums
<1>5. UpTo(bytes) = [i \in 0 .. N |-> IF i = 0 THEN 0 ELSE UpTo(bytes)[i - 1] + bytes[i] * Power(i - 1)]
  BY <1>4 DEF UpTo
<1> HIDE DEF g, N
<1>6. \A i \in 0 .. N : UpTo(bytes)[i] = IF i = 0 THEN 0 ELSE UpTo(bytes)[i - 1] + bytes[i] * Power(i - 1)
  BY <1>5
<1>7. UpTo(bytes)[0] = 0 /\ \A i \in 1 .. N : UpTo(bytes)[i] = UpTo(bytes)[i - 1] + bytes[i] * Power(i - 1)
  BY <1>2, <1>6
<1> QED
  BY <1>1, <1>7 DEF N

(* Every intermediate value of read_uint is a number. *)
LEMMA UpToType ==
    ASSUME NEW bytes \in Seq(Bytes)
    PROVE  \A i \in 0 .. Len(bytes) : UpTo(bytes)[i] \in Nat
<1> DEFINE T == {i \in 0 .. Len(bytes) : UpTo(bytes)[i] \notin Nat}
<1>1. ASSUME T # {} PROVE FALSE
  <2>0. T \subseteq Nat
    OBVIOUS
  <2>1. PICK i \in T : \A y \in T : i <= y
    BY <1>1, <2>0, LeastElement
  <2>2. i # 0
    BY <2>1, NumberSteps
  <2>3. i - 1 \in 0 .. Len(bytes) /\ i - 1 \notin T /\ i \in 1 .. Len(bytes) /\ i - 1 \in Nat
    BY <2>1, <2>2
  <2>4. UpTo(bytes)[i - 1] \in Nat /\ bytes[i] \in Nat /\ Power(i - 1) \in Nat
    <3>1. bytes[i] \in Bytes
      BY <2>3
    <3>2. bytes[i] \in Nat
      BY <3>1 DEF Bytes
    <3> QED
      BY <2>3, <3>2, PowerType
  <2>5. UpTo(bytes)[i] = UpTo(bytes)[i - 1] + bytes[i] * Power(i - 1)
    BY <2>3, NumberSteps
  <2>6. bytes[i] * Power(i - 1) \in Nat
    BY <2>4
  <2> QED
    BY <2>1, <2>4, <2>5, <2>6
<1> QED
  BY <1>1

(* Bytes make a number. *)
LEMMA NumberType == \A bytes \in Seq(Bytes) : Number(bytes) \in Nat
<1> SUFFICES ASSUME NEW bytes \in Seq(Bytes) PROVE Number(bytes) \in Nat
  OBVIOUS
<1>1. Len(bytes) \in Nat /\ Len(bytes) \in 0 .. Len(bytes)
  OBVIOUS
<1> QED
  BY <1>1, NumberSteps, UpToType

(* write_uint writes as many bytes as it is asked to, the i-th digit of    *)
(* the number first.                                                       *)
LEMMA WriteUint ==
    ASSUME NEW n \in Nat, NEW w \in Nat
    PROVE  /\ write_uint(n, w) \in Seq(Bytes)
           /\ Len(write_uint(n, w)) = w
           /\ \A i \in 1 .. w : write_uint(n, w)[i] = (n \div Power(i - 1)) % Base
<1>0. Base \in Nat \ {0}
  BY RecordsAssumption
<1>1. ASSUME NEW i \in 1 .. w PROVE (n \div Power(i - 1)) % Base \in Bytes
  <2>1. Power(i - 1) \in Nat \ {0}
    BY PowerType
  <2>2. n \div Power(i - 1) \in Int
    BY <2>1
  <2> QED
    BY <1>0, <2>2 DEF Bytes
<1> QED
  BY <1>1 DEF write_uint

(* What division and remainder are. *)
LEMMA Division ==
    ASSUME NEW n \in Nat, NEW b \in Nat \ {0}
    PROVE  n % b = n - b * (n \div b) /\ n % b \in 0 .. (b - 1) /\ n \div b \in Nat
<1>1. n % b = n - b * (n \div b)
  OBVIOUS
<1>2. n % b \in 0 .. (b - 1)
  OBVIOUS
<1>3. n \div b \in Nat
  OBVIOUS
<1> QED
  BY <1>1, <1>2, <1>3

(* A remainder is unique. *)
LEMMA Remainder ==
    ASSUME NEW D \in Nat \ {0}, NEW a \in Int, NEW c \in Int,
           NEW r \in 0 .. (D - 1), NEW s \in 0 .. (D - 1),
           a * D + r = c * D + s
    PROVE  r = s
OBVIOUS

(* The remainder after one more digit. *)
LEMMA DigitStep ==
    ASSUME NEW n \in Nat, NEW P \in Nat \ {0}, NEW b \in Nat \ {0}
    PROVE  n % (b * P) = (n % P) + ((n \div P) % b) * P
<1> DEFINE q == n \div P
           m == n % P
           d == q % b
           e == q \div b
           D == b * P
           t == n \div D
           r == n % D
<1>1. q \in Nat /\ m \in 0 .. (P - 1) /\ m = n - P * q
  BY Division
<1>2. D \in Nat \ {0}
  OBVIOUS
<1>3. t \in Nat /\ r \in 0 .. (D - 1) /\ r = n - D * t
  <2> HIDE DEF D
  <2> QED
    BY <1>2, Division
<1> HIDE DEF q, m, t, r
<1>4. e \in Nat /\ d \in 0 .. (b - 1) /\ d = q - b * e
  BY <1>1, Division
<1> HIDE DEF d, e
<1>5. d * P <= (b - 1) * P /\ d * P \in Nat
  BY <1>4
<1>6. (b - 1) * P = D - P
  OBVIOUS
<1>7. m + d * P \in 0 .. (D - 1)
  <2> HIDE DEF D
  <2> QED
    BY <1>1, <1>2, <1>5, <1>6
<1>8. n = e * D + (m + d * P)
  <2>1. q = b * e + d /\ P * q = n - m
    BY <1>1, <1>4
  <2>2. P * (b * e + d) = P * (b * e) + P * d
    <3>1. \A x, y, z \in Int : x * (y + z) = x * y + x * z
      OBVIOUS
    <3>2. b * e \in Int /\ d \in Int /\ P \in Int
      BY <1>4
    <3> QED
      BY <3>1, <3>2
  <2>3. P * (b * e) = e * (b * P) /\ P * d = d * P
    BY <1>4
  <2>4. e * D + d * P = n - m
    BY <1>1, <1>4, <2>1, <2>2, <2>3
  <2>5. e * D \in Int /\ d * P \in Int /\ m \in Int
    BY <1>1, <1>4
  <2> QED
    BY <2>4, <2>5
<1>9. n = t * D + r
  <2>1. D * t = t * D
    BY <1>3
  <2> HIDE DEF D
  <2> QED
    BY <1>2, <1>3, <2>1
<1>10. r = m + d * P
  <2> DEFINE x == m + d * P
  <2>1. x \in 0 .. (D - 1) /\ e * D + x = t * D + r
    BY <1>7, <1>8, <1>9, Zenon
  <2>2. e \in Int /\ t \in Int
    BY <1>3, <1>4
  <2>3. r \in 0 .. (D - 1)
    BY <1>3
  <2> HIDE DEF D, x
  <2>4. x = r
    BY <1>2, <2>1, <2>2, <2>3, Remainder
  <2> QED
    BY <2>4 DEF x
<1> QED
  BY <1>10 DEF q, m, d, r

(* read_uint undoes write_uint: a number that fits its bytes is read back  *)
(* as it was written.                                                      *)
THEOREM NumberReadBack ==
    ASSUME NEW w \in Nat, NEW n \in 0 .. (Power(w) - 1)
    PROVE  Number(write_uint(n, w)) = n
<1> DEFINE s == write_uint(n, w)
           u == UpTo(s)
<1>0. Base \in Nat \ {0} /\ n \in Nat /\ Power(w) \in Nat \ {0}
  BY RecordsAssumption, PowerType
<1>1. Len(s) = w /\ \A i \in 1 .. w : s[i] = (n \div Power(i - 1)) % Base
  BY <1>0, WriteUint
<1>2. Number(s) = u[w] /\ u[0] = 0 /\ \A i \in 1 .. w : u[i] = u[i - 1] + s[i] * Power(i - 1)
  BY <1>1, NumberSteps
<1> HIDE DEF s, u
<1> DEFINE T == {i \in 0 .. w : u[i] # n % Power(i)}
<1>3. ASSUME T # {} PROVE FALSE
  <2>0. T \subseteq Nat
    OBVIOUS
  <2>1. PICK i \in T : \A y \in T : i <= y
    BY <1>3, <2>0, LeastElement
  <2>2. i # 0
    <3>1. n % 1 = 0
      BY <1>0
    <3> QED
      BY <1>2, <2>1, <3>1, PowerStep
  <2>3. i - 1 \in 0 .. w /\ i - 1 \notin T /\ i \in 1 .. w /\ i - 1 \in Nat /\ (i - 1) + 1 = i
    BY <2>1, <2>2
  <2> DEFINE P == Power(i - 1)
  <2>4. u[i - 1] = n % P /\ P \in Nat \ {0} /\ Power(i) = Base * P
    BY <2>3, PowerStep, PowerType
  <2>5. u[i] = (n % P) + ((n \div P) % Base) * P
    BY <1>1, <1>2, <2>3, <2>4
  <2>6. n % (Base * P) = (n % P) + ((n \div P) % Base) * P
    <3> HIDE DEF P
    <3> QED
      BY <1>0, <2>4, DigitStep
  <2> QED
    BY <2>1, <2>4, <2>5, <2>6
<1>4. u[w] = n % Power(w)
  BY <1>3
<1>5. n % Power(w) = n
  BY <1>0
<1> QED
  BY <1>2, <1>4, <1>5 DEF s

-----------------------------------------------------------------------------
(* Strings of bytes that stand in a stream, perhaps cut off at its end. *)

(* Two numbers whose bytes differ in one place differ. *)
LEMMA NumberDiffers ==
    ASSUME NEW s \in Seq(Bytes), NEW t \in Seq(Bytes), Len(s) = Len(t),
           NEW j \in 1 .. Len(s), s[j] # t[j],
           \A i \in 1 .. Len(s) : i # j => s[i] = t[i]
    PROVE  Number(s) # Number(t)
<1> DEFINE n == Len(s)
           u == UpTo(s)
           v == UpTo(t)
           c == (s[j] - t[j]) * Power(j - 1)
           T == {i \in 0 .. n : u[i] - v[i] # IF i < j THEN 0 ELSE c}
<1>0. n \in Nat /\ j \in 1 .. n /\ j - 1 \in Nat /\ Len(t) = n /\ n = Len(s)
  OBVIOUS
<1>1. /\ Number(s) = u[n] /\ u[0] = 0
      /\ \A i \in 1 .. n : u[i] = u[i - 1] + s[i] * Power(i - 1)
  BY NumberSteps
<1>2. /\ Number(t) = v[n] /\ v[0] = 0
      /\ \A i \in 1 .. n : v[i] = v[i - 1] + t[i] * Power(i - 1)
  BY NumberSteps
<1>3. \A i \in 0 .. n : u[i] \in Int /\ v[i] \in Int
  BY UpToType
<1>4. \A i \in 1 .. n : s[i] \in Int /\ t[i] \in Int
  <2>1. \A i \in 1 .. n : s[i] \in Bytes /\ t[i] \in Bytes
    OBVIOUS
  <2> QED
    BY <2>1 DEF Bytes
<1>5. \A i \in 1 .. n : Power(i - 1) \in Nat \ {0}
  <2>1. \A i \in 1 .. n : i - 1 \in Nat
    OBVIOUS
  <2> QED
    BY <2>1, PowerType
<1>6. c \in Int /\ c # 0
  <2>1. s[j] - t[j] \in Int /\ s[j] - t[j] # 0 /\ Power(j - 1) \in Nat \ {0}
    BY <1>0, <1>4, <1>5
  <2>2. \A x \in Int, y \in Nat \ {0} : x # 0 => x * y \in Int /\ x * y # 0
    OBVIOUS
  <2> QED
    BY <2>1, <2>2
<1>7. c = s[j] * Power(j - 1) - t[j] * Power(j - 1)
  <2>1. \A x, y, z \in Int : (x - y) * z = x * z - y * z
    OBVIOUS
  <2>2. s[j] \in Int /\ t[j] \in Int /\ Power(j - 1) \in Int
    BY <1>0, <1>4, <1>5
  <2> QED
    BY <2>1, <2>2
<1>8. \A i \in 1 .. n : s[i] * Power(i - 1) \in Int /\ t[i] * Power(i - 1) \in Int
  BY <1>4, <1>5
<1> HIDE DEF n, u, v, c
<1>9. ASSUME T # {} PROVE FALSE
  <2>0. T \subseteq Nat
    BY <1>0
  <2>1. PICK i \in T : \A y \in T : i <= y
    BY <1>9, <2>0, LeastElement
  <2>2. i # 0
    BY <1>0, <1>1, <1>2, <2>1
  <2>3. i - 1 \in 0 .. n /\ i - 1 \notin T /\ i \in 1 .. n /\ i \in 0 .. n
    BY <1>0, <2>1, <2>2
  <2>4. u[i - 1] - v[i - 1] = IF i - 1 < j THEN 0 ELSE c
    BY <2>3
  <2>5. u[i] = u[i - 1] + s[i] * Power(i - 1) /\ v[i] = v[i - 1] + t[i] * Power(i - 1)
    BY <1>1, <1>2, <2>3
  <2>6. u[i - 1] \in Int /\ v[i - 1] \in Int /\ u[i] \in Int /\ v[i] \in Int
    BY <1>3, <2>3
  <2>7. s[i] * Power(i - 1) \in Int /\ t[i] * Power(i - 1) \in Int
    BY <1>8, <2>3
  <2>8. CASE i = j
    <3>1. u[i] - v[i] = c
      <4> DEFINE x == s[i] * Power(i - 1)
                 y == t[i] * Power(i - 1)
                 a == u[i - 1]
                 b == v[i - 1]
      <4>1. i - 1 < j
        BY <1>0, <2>8
      <4>2. a - b = 0
        BY <2>4, <4>1
      <4>3. c = x - y
        BY <1>7, <2>8
      <4>4. u[i] = a + x /\ v[i] = b + y
        BY <2>5
      <4>5. a \in Int /\ b \in Int /\ x \in Int /\ y \in Int
        BY <2>6, <2>7
      <4> HIDE DEF x, y, a, b
      <4>6. (a + x) - (b + y) = x - y
        BY <4>2, <4>5
      <4> QED
        BY <4>3, <4>4, <4>6
    <3> QED
      BY <1>0, <2>1, <2>8, <3>1
  <2>9. CASE i # j
    <3>1. s[i] = t[i]
      BY <1>0, <2>3, <2>9
    <3>2. u[i] - v[i] = u[i - 1] - v[i - 1]
      <4> DEFINE x == s[i] * Power(i - 1)
                 a == u[i - 1]
                 b == v[i - 1]
      <4>1. u[i] = a + x /\ v[i] = b + x
        BY <2>5, <3>1
      <4>2. a \in Int /\ b \in Int /\ x \in Int
        BY <2>6, <2>7
      <4> HIDE DEF x, a, b
      <4>3. (a + x) - (b + x) = a - b
        BY <4>2
      <4>4. u[i] - v[i] = a - b
        BY <4>1, <4>3
      <4> QED
        BY <4>4 DEF a, b
    <3>3. i - 1 < j <=> i < j
      BY <1>0, <2>3, <2>9
    <3> QED
      BY <2>1, <2>4, <3>2, <3>3
  <2> QED
    BY <2>8, <2>9
<1>10. u[n] - v[n] = c
  BY <1>0, <1>9
<1>11. u[n] \in Int /\ v[n] \in Int
  BY <1>0, <1>3
<1> QED
  BY <1>1, <1>2, <1>6, <1>10, <1>11

(* The stream agrees with s from a position on, as far as it goes. *)
Agrees(stream, at, s) ==
    \A i \in 1 .. Len(s) : at + i - 1 <= Len(stream) => stream[at + i - 1] = s[i]

(* Where two strings stand one after the other, each of them stands. *)
LEMMA AgreesConcat ==
    ASSUME NEW stream, NEW at \in Nat \ {0}, NEW s \in Seq(Bytes), NEW t \in Seq(Bytes),
           Agrees(stream, at, s \o t)
    PROVE  Agrees(stream, at, s) /\ Agrees(stream, at + Len(s), t)
<1>1. /\ Len(s \o t) = Len(s) + Len(t)
      /\ \A i \in 1 .. Len(s) : (s \o t)[i] = s[i]
      /\ \A i \in 1 .. Len(t) : (s \o t)[Len(s) + i] = t[i]
  OBVIOUS
<1> DEFINE st == s \o t
           m == Len(s)
           n == Len(t)
<1>2. m \in Nat /\ n \in Nat /\ m = Len(s) /\ n = Len(t)
  OBVIOUS
<1> HIDE DEF st, m, n
<1>3. /\ Len(st) = m + n
      /\ \A i \in 1 .. m : st[i] = s[i]
      /\ \A i \in 1 .. n : st[m + i] = t[i]
  BY <1>1 DEF st, m, n
<1>4. \A i \in 1 .. (m + n) : at + i - 1 <= Len(stream) => stream[at + i - 1] = st[i]
  BY <1>3 DEF Agrees, st
<1>5. Agrees(stream, at, s)
  BY <1>2, <1>3, <1>4 DEF Agrees
<1>6. Agrees(stream, at + m, t)
  <2>1. ASSUME NEW i \in 1 .. n, (at + m) + i - 1 <= Len(stream)
        PROVE  stream[(at + m) + i - 1] = t[i]
    <3>1. m + i \in 1 .. (m + n) /\ (at + m) + i - 1 = at + (m + i) - 1
      BY <1>2
    <3> QED
      BY <1>3, <1>4, <2>1, <3>1
  <2> QED
    BY <1>2, <2>1 DEF Agrees
<1> QED
  BY <1>5, <1>6 DEF m

(* A string that stands complete in the stream can be cut out of it. *)
LEMMA AgreesSub ==
    ASSUME NEW stream \in Seq(Bytes), NEW at \in Nat \ {0}, NEW s \in Seq(Bytes),
           Agrees(stream, at, s), at + Len(s) - 1 <= Len(stream)
    PROVE  SubSeq(stream, at, at + Len(s) - 1) = s
<1> DEFINE m == Len(s)
           sub == SubSeq(stream, at, at + m - 1)
<1>0. m \in Nat /\ m = Len(s) /\ Len(stream) \in Nat
  OBVIOUS
<1> HIDE DEF m
<1>1. sub \in Seq(Bytes) /\ Len(sub) = m /\ \A i \in 1 .. m : sub[i] = stream[at + i - 1]
  BY <1>0
<1> HIDE DEF sub
<1>2. \A i \in 1 .. m : sub[i] = s[i]
  BY <1>0, <1>1 DEF Agrees
<1>3. sub = s
  BY <1>0, <1>1, <1>2, SeqEqual
<1> QED
  BY <1>3 DEF sub, m

(* What is assumed of the constants, with the types the arithmetic needs. *)
LEMMA Constants ==
    /\ Base \in Nat \ {0, 1, 2} /\ LengthBytes \in Nat \ {0} /\ ChecksumBytes \in Nat \ {0}
    /\ MAX_KEY_SIZE \in 0 .. (Power(LengthBytes) - 1)
    /\ MAX_VALUE_SIZE \in 0 .. (Power(LengthBytes) - 1)
<1>1. Power(LengthBytes) \in Nat
  BY RecordsAssumption, PowerType
<1> QED
  BY <1>1, RecordsAssumption

(* read_uint where a number was written: the number if all its bytes are   *)
(* there, and the end of the input or Truncated if not.                    *)
LEMMA ReadUint ==
    ASSUME NEW stream \in Seq(Bytes), NEW at \in Nat \ {0}, NEW w \in Nat \ {0},
           NEW n \in 0 .. (Power(w) - 1), Agrees(stream, at, write_uint(n, w))
    PROVE  /\ at + w - 1 <= Len(stream) => read_uint(stream, at, w) = Result("Success", n, at + w)
           /\ at + w - 1 > Len(stream) =>
                read_uint(stream, at, w).status \in {"EndOfInput", "Truncated"}
<1> DEFINE s == write_uint(n, w)
<1>0. n \in Nat /\ Len(stream) \in Nat
  BY PowerType
<1>1. s \in Seq(Bytes) /\ Len(s) = w
  BY <1>0, WriteUint
<1>2. Number(s) = n
  BY NumberReadBack
<1> HIDE DEF s
<1>3. ASSUME at + w - 1 <= Len(stream)
      PROVE  read_uint(stream, at, w) = Result("Success", n, at + w)
  <2>1. SubSeq(stream, at, at + w - 1) = s
    BY <1>1, <1>3, AgreesSub DEF s
  <2>2. ~(at > Len(stream)) /\ ~(at + w - 1 > Len(stream))
    BY <1>0, <1>3
  <2>3. read_uint(stream, at, w) = Result("Success", Number(SubSeq(stream, at, at + w - 1)), at + w)
    BY <2>2, Zenon DEF read_uint
  <2> QED
    BY <1>2, <2>1, <2>3
<1>4. ASSUME at + w - 1 > Len(stream)
      PROVE  read_uint(stream, at, w).status \in {"EndOfInput", "Truncated"}
  BY <1>4 DEF read_uint, Result
<1> QED
  BY <1>3, <1>4

(* A string takes as many bytes as its length prefix and its characters. *)
LEMMA WriteString ==
    ASSUME NEW s \in Seq(Bytes)
    PROVE  /\ write_string(s) \in Seq(Bytes)
           /\ Len(write_string(s)) = LengthBytes + Len(s)
<1> DEFINE l == write_uint(Len(s), LengthBytes)
<1>1. l \in Seq(Bytes) /\ Len(l) = LengthBytes
  BY Constants, WriteUint
<1> HIDE DEF l
<1>2. l \o s \in Seq(Bytes) /\ Len(l \o s) = LengthBytes + Len(s)
  BY <1>1
<1> QED
  BY <1>2 DEF l, write_string

(* read_string where a string was written: the string if it is complete,   *)
(* and the end of the input or Truncated if not, never InvalidLength.      *)
LEMMA ReadString ==
    ASSUME NEW stream \in Seq(Bytes), NEW at \in Nat \ {0},
           NEW max \in 0 .. (Power(LengthBytes) - 1), NEW s \in Seq(Bytes), Len(s) <= max,
           Agrees(stream, at, write_string(s))
    PROVE  /\ at + LengthBytes + Len(s) - 1 <= Len(stream) =>
                read_string(stream, at, max) = Result("Success", s, at + LengthBytes + Len(s))
           /\ at + LengthBytes + Len(s) - 1 > Len(stream) =>
                read_string(stream, at, max).status \in {"EndOfInput", "Truncated"}
<1> DEFINE m == Len(s)
           l == write_uint(m, LengthBytes)
           length == read_uint(stream, at, LengthBytes)
           L == Len(stream)
           P == Power(LengthBytes)
<1>0. m \in Nat /\ L \in Nat /\ P \in Nat /\ LengthBytes \in Nat \ {0}
  <2>1. LengthBytes \in Nat \ {0}
    BY Constants, Zenon
  <2>2. P \in Nat
    BY <2>1, PowerType
  <2>3. m \in Nat /\ L \in Nat
    OBVIOUS
  <2> QED
    BY <2>1, <2>2, <2>3
<1>1. m \in 0 .. (P - 1) /\ m <= max /\ max \in Nat
  <2> HIDE DEF P
  <2> QED BY <1>0 DEF P
<1>2. l \in Seq(Bytes) /\ Len(l) = LengthBytes
  <2>1. LengthBytes \in Nat
    BY <1>0
  <2> HIDE DEF m
  <2> QED
    BY <1>0, <2>1, WriteUint
<1>3. Agrees(stream, at, l) /\ Agrees(stream, at + LengthBytes, s)
  <2>1. Agrees(stream, at, l \o s)
    BY DEF write_string
  <2> HIDE DEF l
  <2> QED
    BY <1>2, <2>1, AgreesConcat
<1>4. /\ at + LengthBytes - 1 <= L => length = Result("Success", m, at + LengthBytes)
      /\ at + LengthBytes - 1 > L => length.status \in {"EndOfInput", "Truncated"}
  <2> HIDE DEF m
  <2> QED
    BY <1>0, <1>1, <1>3, ReadUint
<1>5. read_string(stream, at, max) = StringOf(stream, length, max, at)
  BY DEF read_string
<1>6. Len(s) = m
  OBVIOUS
<1> HIDE DEF length, m, L, P
<1>7. CASE at + LengthBytes - 1 > L
  <2>1. length.status # "Success" /\ length.status \in {"EndOfInput", "Truncated"}
    BY <1>4, <1>7
  <2>2. StringOf(stream, length, max, at).status = length.status
    BY <2>1 DEF StringOf, Result
  <2>3. at + LengthBytes + m - 1 > L
    BY <1>0, <1>7
  <2> QED
    BY <1>0, <1>5, <1>6, <2>1, <2>2, <2>3 DEF L
<1>8. CASE at + LengthBytes - 1 <= L
  <2>1. length = Result("Success", m, at + LengthBytes)
    BY <1>4, <1>8
  <2>2. length.status = "Success" /\ length.value = m /\ length.next = at + LengthBytes
    BY <2>1 DEF Result
  <2> DEFINE end == at + LengthBytes + m - 1
  <2>3. CASE end > L
    <3>1. StringOf(stream, length, max, at) = Result("Truncated", <<>>, at)
      BY <1>1, <2>2, <2>3 DEF StringOf, L
    <3> QED
      BY <1>0, <1>5, <1>6, <2>3, <3>1 DEF L, Result
  <2>4. CASE end <= L
    <3>1. StringOf(stream, length, max, at) =
            Result("Success", SubSeq(stream, at + LengthBytes, end), end + 1)
      BY <1>0, <1>1, <2>2, <2>4 DEF StringOf, L
    <3>2. SubSeq(stream, at + LengthBytes, end) = s
      <4>1. end = (at + LengthBytes) + m - 1 /\ at + LengthBytes \in Nat \ {0}
        BY <1>0
      <4> HIDE DEF end
      <4> QED
        BY <1>3, <1>6, <2>4, <4>1, AgreesSub DEF L
    <3>3. end + 1 = at + LengthBytes + m
      BY <1>0
    <3>4. read_string(stream, at, max) = Result("Success", s, at + LengthBytes + m)
      BY <1>5, <3>1, <3>2, <3>3
    <3>5. ~(at + LengthBytes + m - 1 > L)
      BY <1>0, <2>4
    <3> QED
      BY <1>6, <3>4, <3>5 DEF L
  <2> QED
    BY <1>0, <2>3, <2>4
<1> QED
  BY <1>0, <1>7, <1>8

-----------------------------------------------------------------------------
(* A record and its fields. *)

(* Every record, of those that are written and of those that can be read. *)
Record == [type : RecordTypes, key : Seq(Bytes), value : Seq(Bytes)]

(* Where the fields of a record begin and where it ends, from its start. *)
ValueAt(r) == 1 + LengthBytes + Len(r.key)
ChecksumAt(r) == ValueAt(r) + LengthBytes + Len(r.value)
Size(r) == ChecksumAt(r) + ChecksumBytes

(* A record that put or erase writes is a record and keeps the limits on   *)
(* sizes.                                                                  *)
LEMMA WritableType ==
    ASSUME NEW r \in Writable
    PROVE  /\ r \in Record /\ r # NoRecord
           /\ Len(r.key) <= MAX_KEY_SIZE /\ Len(r.value) <= MAX_VALUE_SIZE
<1>1. CASE r \in [type : {"Put"}, key : Keys, value : Values]
  <2>1. r.type = "Put" /\ r.key \in Keys /\ r.value \in Values
        /\ r = [type |-> r.type, key |-> r.key, value |-> r.value]
    BY <1>1
  <2>2. r.key \in Seq(Bytes) /\ Len(r.key) <= MAX_KEY_SIZE
        /\ r.value \in Seq(Bytes) /\ Len(r.value) <= MAX_VALUE_SIZE
    BY <2>1, RecordsAssumption
  <2> QED
    BY <2>1, <2>2 DEF Record, RecordTypes, NoRecord
<1>2. CASE r \in [type : {"Delete"}, key : Keys, value : {<<>>}]
  <2>1. r.type = "Delete" /\ r.key \in Keys /\ r.value = <<>>
        /\ r = [type |-> r.type, key |-> r.key, value |-> r.value]
    BY <1>2
  <2>2. r.key \in Seq(Bytes) /\ Len(r.key) <= MAX_KEY_SIZE
    BY <2>1, RecordsAssumption
  <2>3. r.value \in Seq(Bytes) /\ Len(r.value) <= MAX_VALUE_SIZE
    <3>1. MAX_VALUE_SIZE \in Nat
      BY RecordsAssumption
    <3>2. <<>> \in Seq(Bytes) /\ Len(<<>>) = 0
      OBVIOUS
    <3> QED
      BY <2>1, <3>1, <3>2
  <2>4. r.type \in RecordTypes /\ r.type # NoRecord.type
    BY <2>1 DEF RecordTypes, NoRecord
  <2>5. r \in Record
    <3>1. r.key \in Seq(Bytes) /\ r = [type |-> r.type, key |-> r.key, value |-> r.value]
      BY <2>1, <2>2, Zenon
    <3> QED
      BY <2>3, <2>4, <3>1 DEF Record
  <2> QED
    BY <2>2, <2>3, <2>4, <2>5
<1> QED
  BY <1>1, <1>2 DEF Writable

(* The two types are told apart by their bytes. *)
LEMMA TypeCodes ==
    /\ \A t \in RecordTypes : TypeCode[t] \in Bytes /\ TypeCode[t] \in {1, 2}
    /\ \A t, u \in RecordTypes : TypeCode[t] = TypeCode[u] => t = u
BY RecordsAssumption DEF RecordTypes, TypeCode, Bytes

(* The length of two strings one after the other. *)
LEMMA ConcatLength ==
    ASSUME NEW s \in Seq(Bytes), NEW t \in Seq(Bytes), NEW m \in Nat, NEW n \in Nat,
           Len(s) = m, Len(t) = n
    PROVE  s \o t \in Seq(Bytes) /\ Len(s \o t) = m + n
OBVIOUS

(* The bytes that the checksum covers, and how many they are. *)
LEMMA BodyType ==
    ASSUME NEW r \in Record
    PROVE  /\ Body(r) \in Seq(Bytes)
           /\ Len(Body(r)) = ChecksumAt(r)
           /\ Len(r.key) \in Nat /\ Len(r.value) \in Nat
           /\ ValueAt(r) \in Nat \ {0} /\ ChecksumAt(r) \in Nat \ {0}
<1> DEFINE t == <<TypeCode[r.type]>>
           k == write_string(r.key)
           v == write_string(r.value)
<1>1. r.type \in RecordTypes /\ r.key \in Seq(Bytes) /\ r.value \in Seq(Bytes)
  BY DEF Record
<1>2. TypeCode[r.type] \in Bytes
  BY <1>1, TypeCodes
<1>3. t \in Seq(Bytes) /\ Len(t) = 1
  BY <1>2
<1>4. /\ k \in Seq(Bytes) /\ Len(k) = LengthBytes + Len(r.key)
      /\ v \in Seq(Bytes) /\ Len(v) = LengthBytes + Len(r.value)
  BY <1>1, WriteString
<1>5. LengthBytes \in Nat \ {0} /\ Len(r.key) \in Nat /\ Len(r.value) \in Nat
  BY <1>1, Constants
<1> DEFINE kl == Len(r.key)
           vl == Len(r.value)
           tk == t \o k
<1> HIDE DEF t, k, v
<1>7. /\ LengthBytes + kl \in Nat /\ LengthBytes + vl \in Nat
      /\ 1 + (LengthBytes + kl) \in Nat \ {0}
      /\ 1 + (LengthBytes + kl) = ValueAt(r)
      /\ (1 + (LengthBytes + kl)) + (LengthBytes + vl) = ChecksumAt(r)
      /\ (1 + (LengthBytes + kl)) + (LengthBytes + vl) \in Nat \ {0}
  <2>1. ValueAt(r) = 1 + LengthBytes + kl
    BY DEF ValueAt
  <2>2. ChecksumAt(r) = ValueAt(r) + LengthBytes + vl
    BY DEF ChecksumAt
  <2>3. LengthBytes \in Nat \ {0} /\ kl \in Nat /\ vl \in Nat
    BY <1>5
  <2> HIDE DEF kl, vl
  <2> QED
    BY <2>1, <2>2, <2>3
<1>6. tk \in Seq(Bytes) /\ Len(tk) = 1 + (LengthBytes + kl)
  <2> HIDE DEF kl
  <2>1. Len(k) = LengthBytes + kl
    BY <1>4 DEF kl
  <2>2. Len(tk) = Len(t) + Len(k) /\ tk \in Seq(Bytes)
    <3>1. t \in Seq(Bytes) /\ k \in Seq(Bytes)
      BY <1>3, <1>4, Zenon
    <3> QED
      BY <3>1
  <2> QED
    BY <1>3, <2>1, <2>2, Zenon
<1> HIDE DEF tk
<1>8. tk \o v \in Seq(Bytes) /\ Len(tk \o v) = ChecksumAt(r)
  <2> HIDE DEF vl, kl
  <2>1. 1 + (LengthBytes + kl) \in Nat
    BY <1>7
  <2>2. Len(v) = LengthBytes + vl
    BY <1>4 DEF vl
  <2>3. tk \o v \in Seq(Bytes) /\ Len(tk \o v) = (1 + (LengthBytes + kl)) + (LengthBytes + vl)
    BY <1>4, <1>6, <1>7, <2>1, <2>2, ConcatLength
  <2>4. (1 + (LengthBytes + kl)) + (LengthBytes + vl) = ChecksumAt(r)
    BY <1>7
  <2> QED
    BY <2>3, <2>4, Zenon
<1>9. Body(r) = tk \o v
  BY DEF Body, tk, t, k, v
<1> QED
  BY <1>5, <1>7, <1>8, <1>9

(* serialize_record gives as many bytes as the fields take, and the type   *)
(* first.                                                                  *)
LEMMA SerializedType ==
    ASSUME NEW r \in Writable
    PROVE  /\ crc32c(Body(r)) \in 0 .. (Power(ChecksumBytes) - 1)
           /\ serialize_record(r) \in Seq(Bytes)
           /\ Len(serialize_record(r)) = Size(r)
           /\ Size(r) \in Nat /\ Size(r) > ChecksumAt(r)
           /\ serialize_record(r)[1] = TypeCode[r.type]
<1> DEFINE c == write_uint(crc32c(Body(r)), ChecksumBytes)
           b == Body(r)
<1>0. r \in Record /\ ChecksumBytes \in Nat \ {0} /\ ChecksumBytes \in Nat
  BY WritableType, Constants
<1>1. crc32c(Body(r)) \in 0 .. (Power(ChecksumBytes) - 1)
  BY ChecksumAssumption
<1>2. crc32c(Body(r)) \in Nat
  BY <1>0, <1>1, PowerType
<1>3. c \in Seq(Bytes) /\ Len(c) = ChecksumBytes
  BY <1>0, <1>2, WriteUint
<1>4. b \in Seq(Bytes) /\ Len(b) = ChecksumAt(r) /\ ChecksumAt(r) \in Nat \ {0}
  BY <1>0, BodyType
<1>5. b[1] = TypeCode[r.type]
  <2> DEFINE t == <<TypeCode[r.type]>>
             kv == write_string(r.key) 
             v == write_string(r.value)
  <2>1. r.type \in RecordTypes /\ r.key \in Seq(Bytes) /\ r.value \in Seq(Bytes)
    BY <1>0 DEF Record
  <2>2. TypeCode[r.type] \in Bytes
    BY <2>1, TypeCodes
  <2>3. t \in Seq(Bytes) /\ Len(t) = 1 /\ t[1] = TypeCode[r.type]
    BY <2>2
  <2>4. kv \in Seq(Bytes) /\ v \in Seq(Bytes)
    BY <2>1, WriteString
  <2> HIDE DEF t, kv, v
  <2>5. t \o kv \in Seq(Bytes) /\ (t \o kv)[1] = t[1] /\ Len(t \o kv) >= 1
    BY <2>3, <2>4
  <2> DEFINE tk == t \o kv
  <2> HIDE DEF tk
  <2>6. (tk \o v)[1] = t[1]
    BY <2>4, <2>5 DEF tk
  <2> QED
    BY <2>3, <2>6 DEF Body, tk, t, kv, v
<1> HIDE DEF b, c
<1>6. b \o c \in Seq(Bytes) /\ Len(b \o c) = ChecksumAt(r) + ChecksumBytes /\ (b \o c)[1] = b[1]
  BY <1>0, <1>3, <1>4
<1>7. serialize_record(r) = b \o c
  BY DEF b, c, serialize_record
<1> QED
  BY <1>0, <1>1, <1>4, <1>5, <1>6, <1>7 DEF Size

(* Where a record stands, its fields stand at their offsets. *)
LEMMA FieldsAgree ==
    ASSUME NEW stream \in Seq(Bytes), NEW at \in Nat \ {0}, NEW r \in Writable,
           Agrees(stream, at, serialize_record(r))
    PROVE  /\ at <= Len(stream) => stream[at] = TypeCode[r.type]
           /\ Agrees(stream, at + 1, write_string(r.key))
           /\ Agrees(stream, at + ValueAt(r), write_string(r.value))
           /\ Agrees(stream, at + ChecksumAt(r), write_uint(crc32c(Body(r)), ChecksumBytes))
<1> DEFINE t == <<TypeCode[r.type]>>
           k == write_string(r.key)
           v == write_string(r.value)
           b == Body(r)
           c == write_uint(crc32c(Body(r)), ChecksumBytes)
           s == serialize_record(r)
           tk == t \o k
<1>0. r \in Record /\ ChecksumBytes \in Nat /\ LengthBytes \in Nat
  BY WritableType, Constants
<1>1. r.type \in RecordTypes /\ r.key \in Seq(Bytes) /\ r.value \in Seq(Bytes)
  BY <1>0 DEF Record
<1>2. TypeCode[r.type] \in Bytes
  BY <1>1, TypeCodes
<1>3. t \in Seq(Bytes) /\ Len(t) = 1
  BY <1>2
<1>4. /\ k \in Seq(Bytes) /\ Len(k) = LengthBytes + Len(r.key)
      /\ v \in Seq(Bytes) /\ Len(v) = LengthBytes + Len(r.value)
  BY <1>1, WriteString
<1>5. /\ b \in Seq(Bytes) /\ Len(b) = ChecksumAt(r) /\ ChecksumAt(r) \in Nat
      /\ Len(r.key) \in Nat /\ Len(r.value) \in Nat /\ ValueAt(r) \in Nat
  BY <1>0, BodyType
<1>6. c \in Seq(Bytes)
  <2>1. crc32c(Body(r)) \in Nat
    BY <1>0, SerializedType, PowerType
  <2> QED
    BY <1>0, <2>1, WriteUint
<1>7. s = b \o c /\ b = tk \o v
  BY DEF serialize_record, Body
<1>8. at <= Len(stream) => stream[at] = TypeCode[r.type]
  <2>1. s[1] = TypeCode[r.type] /\ Len(s) = Size(r) /\ Size(r) \in Nat /\ Size(r) > 0
    BY <1>5, SerializedType
  <2>2. 1 \in 1 .. Len(s) /\ at + 1 - 1 = at
    BY <2>1
  <2>3. Agrees(stream, at, s)
    OBVIOUS
  <2> HIDE DEF s
  <2> QED
    BY <2>1, <2>2, <2>3 DEF Agrees
<1> HIDE DEF t, k, v, b, c, s
<1>9. tk \in Seq(Bytes) /\ Len(tk) = ValueAt(r)
  <2> DEFINE kl == Len(r.key)
  <2>1. kl \in Nat /\ Len(k) = LengthBytes + kl /\ ValueAt(r) = 1 + LengthBytes + kl
    BY <1>4, <1>5 DEF ValueAt
  <2> HIDE DEF kl
  <2>2. LengthBytes + kl \in Nat /\ ValueAt(r) = 1 + (LengthBytes + kl)
    BY <1>0, <2>1
  <2>3. tk \in Seq(Bytes) /\ Len(tk) = 1 + (LengthBytes + kl)
    <3>1. Len(tk) = Len(t) + Len(k) /\ tk \in Seq(Bytes)
      <4>1. t \in Seq(Bytes) /\ k \in Seq(Bytes)
        BY <1>3, <1>4, Zenon
      <4> QED
        BY <4>1
    <3> QED
      BY <1>3, <2>1, <3>1, Zenon
  <2> QED
    BY <2>2, <2>3, Zenon
<1> HIDE DEF tk
<1>10. Agrees(stream, at, b) /\ Agrees(stream, at + ChecksumAt(r), c)
  <2>1. Agrees(stream, at, b \o c)
    BY <1>7 DEF s
  <2> QED
    BY <1>5, <1>6, <2>1, AgreesConcat
<1>11. Agrees(stream, at, tk) /\ Agrees(stream, at + ValueAt(r), v)
  BY <1>4, <1>7, <1>9, <1>10, AgreesConcat
<1>12. Agrees(stream, at + 1, k)
  <2>1. Agrees(stream, at, t \o k)
    BY <1>11 DEF tk
  <2> QED
    BY <1>3, <1>4, <2>1, AgreesConcat
<1> QED
  BY <1>8, <1>10, <1>11, <1>12 DEF t, k, v, c, b

(* read_record at a byte that stands for a type goes on with the key. *)
LEMMA ReadType ==
    ASSUME NEW stream, NEW at, ~(at > Len(stream)), NEW t \in RecordTypes, stream[at] = TypeCode[t]
    PROVE  read_record(stream, at) = WithKey(stream, t, read_string(stream, at + 1, MAX_KEY_SIZE), at)
<1>1. (CHOOSE u \in RecordTypes : TypeCode[u] = stream[at]) = t
  BY TypeCodes
<1>2. ~ \A u \in RecordTypes : TypeCode[u] # stream[at]
  OBVIOUS
<1> QED
  BY <1>1, <1>2, Zenon DEF read_record

(* read_record where a record stands, complete or cut off: it returns the  *)
(* record and the position behind it if all bytes are there, and Truncated *)
(* if the file ends anywhere inside. This is what tells an unfinished      *)
(* append from corruption.                                                 *)
THEOREM RecordIsReadBack ==
    ASSUME NEW stream \in Seq(Bytes), NEW at \in 1 .. Len(stream), NEW r \in Writable,
           Agrees(stream, at, serialize_record(r))
    PROVE  /\ at + Size(r) - 1 <= Len(stream) =>
                read_record(stream, at) = Result("Success", r, at + Size(r))
           /\ at + Size(r) - 1 > Len(stream) => read_record(stream, at).status = "Truncated"
<1> DEFINE L == Len(stream)
           kl == Len(r.key)
           vl == Len(r.value)
           key == read_string(stream, at + 1, MAX_KEY_SIZE)
           value == read_string(stream, at + ValueAt(r), MAX_VALUE_SIZE)
           stored == read_uint(stream, at + ChecksumAt(r), ChecksumBytes)
           c == crc32c(Body(r))
<1>0. r \in Record /\ kl <= MAX_KEY_SIZE /\ vl <= MAX_VALUE_SIZE
  BY WritableType
<1>1. r.type \in RecordTypes /\ r.key \in Seq(Bytes) /\ r.value \in Seq(Bytes)
  BY <1>0 DEF Record
<1>2. L \in Nat /\ at \in Nat \ {0} /\ at <= L /\ kl \in Nat /\ vl \in Nat
  BY <1>1
<1>3. LengthBytes \in Nat \ {0} /\ ChecksumBytes \in Nat \ {0}
  BY Constants, Zenon
<1>4. /\ ValueAt(r) = 1 + LengthBytes + kl
      /\ ChecksumAt(r) = ValueAt(r) + LengthBytes + vl
      /\ Size(r) = ChecksumAt(r) + ChecksumBytes
      /\ ValueAt(r) \in Nat \ {0} /\ ChecksumAt(r) \in Nat \ {0} /\ Size(r) \in Nat \ {0}
  <2>1. ValueAt(r) \in Nat \ {0} /\ ChecksumAt(r) \in Nat \ {0}
    BY <1>0, BodyType
  <2>2. Size(r) = ChecksumAt(r) + ChecksumBytes
    BY DEF Size
  <2>3. Size(r) \in Nat \ {0}
    BY <1>3, <2>1, <2>2
  <2>4. ValueAt(r) = 1 + LengthBytes + kl /\ ChecksumAt(r) = ValueAt(r) + LengthBytes + vl
    BY DEF ValueAt, ChecksumAt
  <2> QED
    BY <2>1, <2>2, <2>3, <2>4
<1>5. /\ stream[at] = TypeCode[r.type]
      /\ Agrees(stream, at + 1, write_string(r.key))
      /\ Agrees(stream, at + ValueAt(r), write_string(r.value))
      /\ Agrees(stream, at + ChecksumAt(r), write_uint(c, ChecksumBytes))
  BY <1>2, FieldsAgree
<1>6. read_record(stream, at) = WithKey(stream, r.type, key, at)
  BY <1>1, <1>2, <1>5, ReadType
<1> HIDE DEF L, kl, vl
<1>7. /\ at + ValueAt(r) - 1 <= L => key = Result("Success", r.key, at + ValueAt(r))
      /\ at + ValueAt(r) - 1 > L => key.status \in {"EndOfInput", "Truncated"}
  <2> DEFINE p == at + 1
  <2>1. p \in Nat \ {0} /\ p + LengthBytes + kl = at + ValueAt(r)
    BY <1>2, <1>3, <1>4
  <2>2. /\ p + LengthBytes + kl - 1 <= L =>
             read_string(stream, p, MAX_KEY_SIZE) = Result("Success", r.key, p + LengthBytes + kl)
        /\ p + LengthBytes + kl - 1 > L =>
             read_string(stream, p, MAX_KEY_SIZE).status \in {"EndOfInput", "Truncated"}
    <3>1. Agrees(stream, p, write_string(r.key))
      BY <1>5
    <3> HIDE DEF p
    <3> QED
      BY <1>0, <1>1, <2>1, <3>1, ReadString, Constants DEF L, kl
  <2>3. key = read_string(stream, p, MAX_KEY_SIZE)
    OBVIOUS
  <2> DEFINE q == at + ValueAt(r)
  <2>4. p + LengthBytes + kl = q
    BY <2>1
  <2>5. /\ at + ValueAt(r) - 1 = q - 1
        /\ p + LengthBytes + kl - 1 = q - 1
    BY <1>2, <1>3, <1>4, <2>1, <2>4
  <2> HIDE DEF p, key, q
  <2>6. q - 1 <= L => key = Result("Success", r.key, q)
    BY <2>2, <2>3, <2>4, <2>5, Zenon
  <2>7. q - 1 > L => key.status \in {"EndOfInput", "Truncated"}
    BY <2>2, <2>3, <2>4, <2>5, Zenon
  <2>8. at + ValueAt(r) - 1 <= L => key = Result("Success", r.key, at + ValueAt(r))
    BY <2>5, <2>6, Zenon DEF q
  <2>9. at + ValueAt(r) - 1 > L => key.status \in {"EndOfInput", "Truncated"}
    BY <2>5, <2>7, Zenon DEF q
  <2> QED
    BY <2>8, <2>9, Zenon
<1>8. /\ at + ChecksumAt(r) - 1 <= L => value = Result("Success", r.value, at + ChecksumAt(r))
      /\ at + ChecksumAt(r) - 1 > L => value.status \in {"EndOfInput", "Truncated"}
  <2> DEFINE p == at + ValueAt(r)
  <2>1. p \in Nat \ {0} /\ p + LengthBytes + vl = at + ChecksumAt(r)
    BY <1>2, <1>3, <1>4
  <2>2. /\ p + LengthBytes + vl - 1 <= L =>
             read_string(stream, p, MAX_VALUE_SIZE) = Result("Success", r.value, p + LengthBytes + vl)
        /\ p + LengthBytes + vl - 1 > L =>
             read_string(stream, p, MAX_VALUE_SIZE).status \in {"EndOfInput", "Truncated"}
    <3>1. Agrees(stream, p, write_string(r.value))
      BY <1>5
    <3> HIDE DEF p
    <3> QED
      BY <1>0, <1>1, <2>1, <3>1, ReadString, Constants DEF L, vl
  <2>3. value = read_string(stream, p, MAX_VALUE_SIZE)
    OBVIOUS
  <2> DEFINE q == at + ChecksumAt(r)
  <2>4. p + LengthBytes + vl = q
    BY <2>1
  <2>5. /\ at + ChecksumAt(r) - 1 = q - 1
        /\ p + LengthBytes + vl - 1 = q - 1
    BY <1>2, <1>3, <1>4, <2>1, <2>4
  <2> HIDE DEF p, value, q
  <2>6. q - 1 <= L => value = Result("Success", r.value, q)
    BY <2>2, <2>3, <2>4, <2>5, Zenon
  <2>7. q - 1 > L => value.status \in {"EndOfInput", "Truncated"}
    BY <2>2, <2>3, <2>4, <2>5, Zenon
  <2>8. at + ChecksumAt(r) - 1 <= L => value = Result("Success", r.value, at + ChecksumAt(r))
    BY <2>5, <2>6, Zenon DEF q
  <2>9. at + ChecksumAt(r) - 1 > L => value.status \in {"EndOfInput", "Truncated"}
    BY <2>5, <2>7, Zenon DEF q
  <2> QED
    BY <2>8, <2>9, Zenon
<1>9. /\ at + Size(r) - 1 <= L => stored = Result("Success", c, at + Size(r))
      /\ at + Size(r) - 1 > L => stored.status \in {"EndOfInput", "Truncated"}
  <2> DEFINE p == at + ChecksumAt(r)
  <2>1. p \in Nat \ {0} /\ p + ChecksumBytes = at + Size(r)
    BY <1>2, <1>3, <1>4
  <2>2. /\ p + ChecksumBytes - 1 <= L =>
             read_uint(stream, p, ChecksumBytes) = Result("Success", c, p + ChecksumBytes)
        /\ p + ChecksumBytes - 1 > L =>
             read_uint(stream, p, ChecksumBytes).status \in {"EndOfInput", "Truncated"}
    <3>1. Agrees(stream, p, write_uint(c, ChecksumBytes))
      BY <1>5
    <3>2. c \in 0 .. (Power(ChecksumBytes) - 1)
      BY SerializedType
    <3> HIDE DEF p, c
    <3> QED
      BY <1>3, <2>1, <3>1, <3>2, ReadUint DEF L
  <2>3. stored = read_uint(stream, p, ChecksumBytes)
    OBVIOUS
  <2> DEFINE q == at + Size(r)
  <2>4. p + ChecksumBytes = q
    BY <2>1
  <2>5. /\ at + Size(r) - 1 = q - 1
        /\ p + ChecksumBytes - 1 = q - 1
    BY <1>2, <1>3, <1>4, <2>1, <2>4
  <2> HIDE DEF p, stored, q
  <2>6. q - 1 <= L => stored = Result("Success", c, q)
    BY <2>2, <2>3, <2>4, <2>5, Zenon
  <2>7. q - 1 > L => stored.status \in {"EndOfInput", "Truncated"}
    BY <2>2, <2>3, <2>4, <2>5, Zenon
  <2>8. at + Size(r) - 1 <= L => stored = Result("Success", c, at + Size(r))
    BY <2>5, <2>6, Zenon DEF q
  <2>9. at + Size(r) - 1 > L => stored.status \in {"EndOfInput", "Truncated"}
    BY <2>5, <2>7, Zenon DEF q
  <2> QED
    BY <2>8, <2>9, Zenon
<1>10. r = [type |-> r.type, key |-> r.key, value |-> r.value]
  BY <1>0 DEF Record
<1> HIDE DEF key, value, stored
<1>11. ASSUME key = Result("Success", r.key, at + ValueAt(r))
       PROVE  read_record(stream, at) = WithValue(stream, r.type, r.key, value, at)
  BY <1>6, <1>11 DEF WithKey, Result, value
<1>12. ASSUME key = Result("Success", r.key, at + ValueAt(r)),
              value = Result("Success", r.value, at + ChecksumAt(r))
       PROVE  read_record(stream, at) = Checked(r, stored, at)
  <2>1. value.status = "Success" /\ value.value = r.value /\ value.next = at + ChecksumAt(r)
    BY <1>12 DEF Result
  <2>2. WithValue(stream, r.type, r.key, value, at) =
          Checked([type |-> r.type, key |-> r.key, value |-> r.value],
                  read_uint(stream, at + ChecksumAt(r), ChecksumBytes), at)
    BY <2>1, Zenon DEF WithValue
  <2> QED
    BY <1>10, <1>11, <1>12, <2>2, Zenon DEF stored
<1>13. CASE at + Size(r) - 1 <= L
  <2>1. at + ValueAt(r) - 1 <= L /\ at + ChecksumAt(r) - 1 <= L
    BY <1>2, <1>3, <1>4, <1>13
  <2>2. read_record(stream, at) = Checked(r, stored, at) /\ stored = Result("Success", c, at + Size(r))
    BY <1>7, <1>8, <1>9, <1>12, <1>13, <2>1, Zenon
  <2>3. stored.status = "Success" /\ stored.value = c /\ stored.next = at + Size(r)
    BY <2>2 DEF Result
  <2>4. Checked(r, stored, at) = Result("Success", r, at + Size(r))
    BY <2>3, Zenon DEF Checked
  <2>5. ~(at + Size(r) - 1 > L)
    BY <1>2, <1>4, <1>13
  <2> QED
    BY <2>2, <2>4, <2>5 DEF L
<1>14. CASE at + Size(r) - 1 > L
  <2>0. ~(at + Size(r) - 1 <= L)
    BY <1>2, <1>4, <1>14
  <2>1. CASE at + ValueAt(r) - 1 > L
    <3>1. key.status \in {"EndOfInput", "Truncated"}
      BY <1>7, <2>1
    <3>2. read_record(stream, at) = Fail(FieldError(key), at) /\ FieldError(key) = "Truncated"
      BY <1>6, <3>1 DEF WithKey, FieldError
    <3> QED
      BY <2>0, <3>2 DEF L, Fail, Result
  <2>2. CASE at + ValueAt(r) - 1 <= L /\ at + ChecksumAt(r) - 1 > L
    <3>1. value.status \in {"EndOfInput", "Truncated"}
      BY <1>8, <2>2
    <3>2. read_record(stream, at) = Fail(FieldError(value), at) /\ FieldError(value) = "Truncated"
      BY <1>7, <1>11, <2>2, <3>1 DEF WithValue, FieldError
    <3> QED
      BY <2>0, <3>2 DEF L, Fail, Result
  <2>3. CASE at + ValueAt(r) - 1 <= L /\ at + ChecksumAt(r) - 1 <= L
    <3>1. stored.status \in {"EndOfInput", "Truncated"}
      BY <1>9, <1>14
    <3>2. read_record(stream, at) = Fail("Truncated", at)
      <4>1. stored.status # "Success"
        BY <3>1
      <4>2. Checked(r, stored, at) = Fail("Truncated", at)
        BY <4>1, Zenon DEF Checked
      <4> QED
        BY <1>7, <1>8, <1>12, <2>3, <4>2, Zenon
    <3> QED
      BY <2>0, <3>2 DEF L, Fail, Result
  <2> QED
    BY <1>2, <1>4, <2>1, <2>2, <2>3
<1> QED
  BY <1>2, <1>4, <1>13, <1>14

-----------------------------------------------------------------------------
(* Reading bytes that nobody wrote as a record. *)

(* What read_uint returns on any bytes. *)
LEMMA ReadUintKinds ==
    ASSUME NEW stream \in Seq(Bytes), NEW at \in Nat \ {0}, NEW w \in Nat \ {0}
    PROVE  LET x == read_uint(stream, at, w)
               q == at + w
           IN  /\ q <= Len(stream) + 1 =>
                    x = Result("Success", Number(SubSeq(stream, at, q - 1)), q)
               /\ q > Len(stream) + 1 => x.status \in {"EndOfInput", "Truncated"}
               /\ q <= Len(stream) + 1 =>
                    /\ SubSeq(stream, at, q - 1) \in Seq(Bytes)
                    /\ Len(SubSeq(stream, at, q - 1)) = w
                    /\ \A i \in 1 .. w : SubSeq(stream, at, q - 1)[i] = stream[at + i - 1]
                    /\ Number(SubSeq(stream, at, q - 1)) \in Nat
<1> DEFINE x == read_uint(stream, at, w)
           q == at + w
           L == Len(stream)
<1>1. L \in Nat /\ q \in Nat /\ at + w - 1 = q - 1 /\ q > at
  OBVIOUS
<1>2. ASSUME q <= L + 1 PROVE x = Result("Success", Number(SubSeq(stream, at, q - 1)), q)
  <2>1. ~(at > L) /\ ~(at + w - 1 > L)
    BY <1>1, <1>2
  <2>2. x = Result("Success", Number(SubSeq(stream, at, at + w - 1)), at + w)
    BY <2>1, Zenon DEF read_uint
  <2> QED
    BY <1>1, <2>2, Zenon
<1>3. ASSUME q > L + 1 PROVE x.status \in {"EndOfInput", "Truncated"}
  BY <1>3 DEF read_uint, Result
<1>4. ASSUME q <= L + 1
      PROVE  /\ SubSeq(stream, at, q - 1) \in Seq(Bytes)
             /\ Len(SubSeq(stream, at, q - 1)) = w
             /\ \A i \in 1 .. w : SubSeq(stream, at, q - 1)[i] = stream[at + i - 1]
  BY <1>4
<1>5. ASSUME q <= L + 1 PROVE Number(SubSeq(stream, at, q - 1)) \in Nat
  BY <1>4, <1>5, NumberType
<1> QED
  BY <1>2, <1>3, <1>4, <1>5

(* What a string that is read is, and when it is. *)
LEMMA ReadStringKinds ==
    ASSUME NEW stream \in Seq(Bytes), NEW at \in Nat \ {0}, NEW max \in Nat
    PROVE  LET x == read_string(stream, at, max)
               q == at + LengthBytes
               m == Number(SubSeq(stream, at, q - 1))
           IN  /\ x.status \in {"Success", "EndOfInput", "Truncated", "InvalidLength"}
               /\ x.status = "Success" =>
                    /\ q <= Len(stream) + 1 /\ m \in Nat /\ m <= max /\ q + m <= Len(stream) + 1
                    /\ x = Result("Success", SubSeq(stream, q, q + m - 1), q + m)
               /\ q <= Len(stream) + 1 /\ m <= max /\ q + m <= Len(stream) + 1 => x.status = "Success"
<1> DEFINE x == read_string(stream, at, max)
           q == at + LengthBytes
           l == read_uint(stream, at, LengthBytes)
           m == Number(SubSeq(stream, at, q - 1))
           L == Len(stream)
<1>0. LengthBytes \in Nat \ {0}
  BY Constants, Zenon
<1>1. L \in Nat /\ q \in Nat /\ q > 0
  BY <1>0
<1>2. /\ q <= L + 1 => l = Result("Success", m, q) /\ m \in Nat
      /\ q > L + 1 => l.status \in {"EndOfInput", "Truncated"}
  BY <1>0, ReadUintKinds
<1>3. x = StringOf(stream, l, max, at)
  BY DEF read_string
<1>4. L = Len(stream)
  OBVIOUS
<1> HIDE DEF x, q, l, m, L
<1>5. CASE q > L + 1
  <2>1. l.status # "Success" /\ l.status \in {"EndOfInput", "Truncated"}
    BY <1>2, <1>5
  <2>2. x = Result(l.status, <<>>, at)
    BY <1>3, <2>1, Zenon DEF StringOf
  <2>3. x.status = l.status
    BY <2>2 DEF Result
  <2>4. ~(q <= L + 1)
    BY <1>1, <1>5
  <2> QED
    BY <1>4, <2>1, <2>3, <2>4 DEF x, q, m
<1>6. CASE q <= L + 1
  <2>1. l = Result("Success", m, q) /\ m \in Nat
    BY <1>2, <1>6
  <2>2. l.status = "Success" /\ l.value = m /\ l.next = q
    BY <2>1 DEF Result
  <2>3. CASE m > max
    <3>1. ~(m <= max)
      BY <2>1, <2>3
    <3>2. x = Result("InvalidLength", <<>>, at)
      BY <1>3, <2>2, <2>3, <3>1, Zenon DEF StringOf
    <3>3. x.status = "InvalidLength"
      BY <3>2 DEF Result
    <3> QED
      BY <1>4, <3>1, <3>3 DEF x, q, m
  <2>4. CASE m <= max /\ q + m > L + 1
    <3>1. q + m - 1 > L /\ ~(m > max) /\ ~(q + m <= L + 1)
      BY <1>1, <2>1, <2>4
    <3>2. x = Result("Truncated", <<>>, at)
      BY <1>3, <1>4, <2>2, <2>4, <3>1, Zenon DEF StringOf
    <3>3. x.status = "Truncated"
      BY <3>2 DEF Result
    <3> QED
      BY <1>4, <3>1, <3>3 DEF x, q, m
  <2>5. CASE m <= max /\ q + m <= L + 1
    <3>1. ~(q + m - 1 > L) /\ ~(m > max) /\ (q + m - 1) + 1 = q + m
      BY <1>1, <2>1, <2>5
    <3>2. x = Result("Success", SubSeq(stream, q, q + m - 1), (q + m - 1) + 1)
      BY <1>3, <1>4, <2>2, <2>5, <3>1, Zenon DEF StringOf
    <3>3. x = Result("Success", SubSeq(stream, q, q + m - 1), q + m)
      BY <3>1, <3>2, Zenon
    <3>4. x.status = "Success"
      BY <3>2 DEF Result
    <3> QED
      BY <1>4, <1>6, <2>1, <2>5, <3>3, <3>4 DEF x, q, m
  <2> QED
    BY <1>1, <2>1, <2>3, <2>4, <2>5
<1> QED
  BY <1>1, <1>5, <1>6

(* The failures of read_record inside a record. *)
Corrupt == {"Truncated", "InvalidLength", "ChecksumMismatch"}

(* The lengths that stand in the stream before the strings of a record. *)
LengthsOf(stream, at, r) ==
    /\ Len(r.key) = Number(SubSeq(stream, at + 1, (at + 1) + LengthBytes - 1))
    /\ Len(r.value) =
         Number(SubSeq(stream, at + ValueAt(r), (at + ValueAt(r)) + LengthBytes - 1))

(* What is cut out of a stream. *)
LEMMA SubString ==
    ASSUME NEW stream \in Seq(Bytes), NEW p \in Nat \ {0}, NEW m \in Nat,
           p + m <= Len(stream) + 1
    PROVE  /\ SubSeq(stream, p, p + m - 1) \in Seq(Bytes)
           /\ Len(SubSeq(stream, p, p + m - 1)) = m
           /\ \A i \in 1 .. m : SubSeq(stream, p, p + m - 1)[i] = stream[p + i - 1]
OBVIOUS

(* What a string is that is read from any bytes. *)
LEMMA StringRead ==
    ASSUME NEW stream \in Seq(Bytes), NEW at \in Nat \ {0}, NEW max \in Nat,
           read_string(stream, at, max).status = "Success"
    PROVE  LET x == read_string(stream, at, max) IN
           /\ x.value \in Seq(Bytes)
           /\ Len(x.value) = Number(SubSeq(stream, at, at + LengthBytes - 1))
           /\ x.next = at + LengthBytes + Len(x.value)
           /\ x.next <= Len(stream) + 1
<1> DEFINE x == read_string(stream, at, max)
           q == at + LengthBytes
           m == Number(SubSeq(stream, at, q - 1))
           L == Len(stream)
<1>0. LengthBytes \in Nat \ {0}
  BY Constants, Zenon
<1>1. L \in Nat /\ q \in Nat \ {0} /\ at + LengthBytes - 1 = q - 1
  BY <1>0
<1>2. /\ m \in Nat /\ q + m <= L + 1
      /\ x = Result("Success", SubSeq(stream, q, q + m - 1), q + m)
  BY ReadStringKinds
<1>3. L = Len(stream) /\ x = read_string(stream, at, max) /\ q = at + LengthBytes
  OBVIOUS
<1>4. m = Number(SubSeq(stream, at, at + LengthBytes - 1))
  BY <1>1, Zenon
<1> HIDE DEF x, q, m, L
<1>5. SubSeq(stream, q, q + m - 1) \in Seq(Bytes) /\ Len(SubSeq(stream, q, q + m - 1)) = m
  <2>1. q \in Nat \ {0} /\ m \in Nat /\ q + m <= Len(stream) + 1
    BY <1>1, <1>2, <1>3
  <2> QED
    BY <2>1, SubString
<1>6. x.value = SubSeq(stream, q, q + m - 1) /\ x.next = q + m
  BY <1>2 DEF Result
<1> QED
  BY <1>2, <1>3, <1>4, <1>5, <1>6

(* What read_record returns on any bytes: at the end of the file           *)
(* EndOfFile, elsewhere a record that lies in the file, or one of four     *)
(* failures; a record that is returned has the lengths that stand in the   *)
(* file.                                                                   *)
LEMMA ReadKinds ==
    ASSUME NEW stream \in Seq(Bytes), NEW at \in 1 .. Len(stream) + 1
    PROVE  LET x == read_record(stream, at) IN
           /\ at > Len(stream) => x.status = "EndOfFile"
           /\ at <= Len(stream) => x.status \in {"Success", "InvalidType"} \cup Corrupt
           /\ at <= Len(stream) /\ stream[at] \in {1, 2} => x.status # "InvalidType"
           /\ x.status = "Success" =>
                /\ at <= Len(stream)
                /\ x.value \in Record
                /\ x.next \in (at + 1) .. (Len(stream) + 1)
                /\ LengthsOf(stream, at, x.value)
<1> DEFINE x == read_record(stream, at)
           L == Len(stream)
<1>0. L \in Nat /\ at \in Nat \ {0} /\ L = Len(stream)
  OBVIOUS
<1>c. LengthBytes \in Nat \ {0} /\ ChecksumBytes \in Nat \ {0}
  BY Constants, Zenon
<1>d. MAX_KEY_SIZE \in Nat /\ MAX_VALUE_SIZE \in Nat
  BY RecordsAssumption
<1>e. x = read_record(stream, at)
  OBVIOUS
<1>1. CASE at > L
  <2>1. x = Fail("EndOfFile", at)
    BY <1>1, Zenon DEF read_record
  <2>2. x.status = "EndOfFile"
    BY <2>1 DEF Fail, Result
  <2> QED
    BY <1>0, <1>1, <2>2
<1>2. CASE at <= L /\ \A t \in RecordTypes : TypeCode[t] # stream[at]
  <2>0. ~(at > L)
    BY <1>0, <1>2
  <2>1. x = Fail("InvalidType", at)
    BY <1>2, <2>0, Zenon DEF read_record
  <2>2. x.status = "InvalidType"
    BY <2>1 DEF Fail, Result
  <2>3. stream[at] \notin {1, 2}
    BY <1>2 DEF RecordTypes, TypeCode
  <2> QED
    BY <1>0, <1>2, <2>0, <2>2, <2>3
<1>3. ASSUME at <= L, NEW t \in RecordTypes, stream[at] = TypeCode[t]
      PROVE  /\ x.status \in {"Success"} \cup Corrupt
             /\ x.status = "Success" =>
                  /\ x.value \in Record
                  /\ x.next \in (at + 1) .. (L + 1)
                  /\ LengthsOf(stream, at, x.value)
  <2> DEFINE p == at + 1
             key == read_string(stream, p, MAX_KEY_SIZE)
             kl == Len(key.value)
             o == key.next
             value == read_string(stream, o, MAX_VALUE_SIZE)
             vl == Len(value.value)
             s == value.next
             stored == read_uint(stream, s, ChecksumBytes)
             r == [type |-> t, key |-> key.value, value |-> value.value]
  <2>0. p \in Nat \ {0} /\ ~(at > L)
    BY <1>0, <1>3
  <2>1. x = WithKey(stream, t, key, at)
    BY <1>3, <2>0, ReadType
  <2>2. key.status \in {"Success", "EndOfInput", "Truncated", "InvalidLength"}
    <3> HIDE DEF p
    <3> QED
      BY <1>d, <2>0, ReadStringKinds
  <2>3. CASE key.status # "Success"
    <3>1. x = Fail(FieldError(key), at)
      BY <2>1, <2>3, Zenon DEF WithKey
    <3>2. FieldError(key) \in {"InvalidLength", "Truncated"}
      BY DEF FieldError
    <3> QED
      BY <3>1, <3>2 DEF Fail, Result, Corrupt
  <2>4. CASE key.status = "Success"
    <3>1. /\ key.value \in Seq(Bytes)
          /\ kl = Number(SubSeq(stream, p, p + LengthBytes - 1))
          /\ o = p + LengthBytes + kl
          /\ o <= L + 1
      <4> HIDE DEF p
      <4> QED
        BY <1>d, <2>0, <2>4, StringRead
    <3>2. kl \in Nat
      BY <3>1
    <3>3. o \in Nat \ {0} /\ o >= at + 1
      <4> HIDE DEF kl, o
      <4> QED
        BY <1>0, <1>c, <3>1, <3>2
    <3>4. x = WithValue(stream, t, key.value, value, at)
      BY <2>1, <2>4, Zenon DEF WithKey
    <3>5. value.status \in {"Success", "EndOfInput", "Truncated", "InvalidLength"}
      <4> HIDE DEF o
      <4> QED
        BY <1>d, <3>3, ReadStringKinds
    <3>6. CASE value.status # "Success"
      <4>1. x = Fail(FieldError(value), at)
        BY <3>4, <3>6, Zenon DEF WithValue
      <4>2. FieldError(value) \in {"InvalidLength", "Truncated"}
        BY DEF FieldError
      <4> QED
        BY <4>1, <4>2 DEF Fail, Result, Corrupt
    <3>7. CASE value.status = "Success"
      <4>1. /\ value.value \in Seq(Bytes)
            /\ vl = Number(SubSeq(stream, o, o + LengthBytes - 1))
            /\ s = o + LengthBytes + vl
            /\ s <= L + 1
        <5> HIDE DEF o
        <5> QED
          BY <1>d, <3>3, <3>7, StringRead
      <4>2. vl \in Nat
        BY <4>1
      <4>3. s \in Nat \ {0} /\ s >= at + 1
        <5> HIDE DEF vl, s, o
        <5> QED
          BY <1>0, <1>c, <3>3, <4>1, <4>2
      <4>4. x = Checked(r, stored, at)
        BY <3>4, <3>7, Zenon DEF WithValue
      <4>5. /\ s + ChecksumBytes <= L + 1 => stored.status = "Success" /\ stored.next = s + ChecksumBytes
            /\ s + ChecksumBytes > L + 1 => stored.status # "Success"
        <5> HIDE DEF s
        <5>1. /\ s + ChecksumBytes <= L + 1 =>
                   stored = Result("Success", Number(SubSeq(stream, s, (s + ChecksumBytes) - 1)),
                                    s + ChecksumBytes)
              /\ s + ChecksumBytes > L + 1 => stored.status \in {"EndOfInput", "Truncated"}
          BY <1>c, <4>3, ReadUintKinds
        <5> HIDE DEF stored
        <5> QED
          BY <5>1 DEF Result
      <4>6. r \in Record
        BY <3>1, <4>1 DEF Record
      <4>7. LengthsOf(stream, at, r)
        <5>1. r.key = key.value /\ r.value = value.value
          OBVIOUS
        <5>2. at + ValueAt(r) = o
          <6>1. ValueAt(r) = 1 + LengthBytes + kl
            BY <5>1 DEF ValueAt
          <6> HIDE DEF kl, o
          <6> QED
            BY <1>0, <1>c, <3>1, <3>2, <6>1
        <5> HIDE DEF r, key, value
        <5> QED
          BY <3>1, <4>1, <5>1, <5>2, Zenon DEF LengthsOf
      <4>8. CASE stored.status # "Success"
        <5>1. x = Fail("Truncated", at)
          BY <4>4, <4>8, Zenon DEF Checked
        <5> QED
          BY <5>1 DEF Fail, Result, Corrupt
      <4>9. CASE stored.status = "Success" /\ stored.value # crc32c(Body(r))
        <5>1. x = Fail("ChecksumMismatch", at)
          BY <4>4, <4>9, Zenon DEF Checked
        <5> QED
          BY <5>1 DEF Fail, Result, Corrupt
      <4>10. CASE stored.status = "Success" /\ stored.value = crc32c(Body(r))
        <5>1. x = Result("Success", r, stored.next)
          BY <4>4, <4>10, Zenon DEF Checked
        <5>2. x.status = "Success" /\ x.value = r /\ x.next = stored.next
          BY <5>1 DEF Result
        <5>3. stored.next \in (at + 1) .. (L + 1)
          <6> HIDE DEF s, stored, L
          <6>1. s + ChecksumBytes <= L + 1
            BY <1>0, <1>c, <4>3, <4>5, <4>10
          <6> QED
            BY <1>0, <1>c, <4>3, <4>5, <6>1
        <5> HIDE DEF x, r, stored
        <5> QED
          BY <4>6, <4>7, <5>2, <5>3, Zenon
      <4> QED
        BY <4>8, <4>9, <4>10
    <3> QED
      BY <3>6, <3>7
  <2> QED
    BY <2>3, <2>4
<1>4. CASE at <= L /\ \E t \in RecordTypes : TypeCode[t] = stream[at]
  <2>1. /\ x.status \in {"Success"} \cup Corrupt
        /\ x.status = "Success" =>
             /\ x.value \in Record
             /\ x.next \in (at + 1) .. (L + 1)
             /\ LengthsOf(stream, at, x.value)
    BY <1>3, <1>4
  <2>2. ~(at > L) /\ x.status \in {"Success", "InvalidType"} \cup Corrupt /\ x.status # "InvalidType"
    BY <1>0, <1>4, <2>1 DEF Corrupt
  <2> HIDE DEF x
  <2> QED
    BY <1>e, <1>4, <2>1, <2>2
<1> QED
  BY <1>0, <1>1, <1>2, <1>4

-----------------------------------------------------------------------------
(* The scan. *)

(* What a scan returns. *)
Scan == [status : {"EndOfFile", "InvalidType"} \cup Corrupt, failing : Nat, records : Seq(Record)]

(* One step of the scan, where f is what it returns from a later position. *)
ScanStep(f, stream, at) ==
    LET r == read_record(stream, at) IN
    IF r.status = "Success" THEN Prepended(r.value, f[r.next])
    ELSE [status |-> r.status, failing |-> at, records |-> <<>>]

(* A step of the scan looks only at what the scan returns further on. *)
LEMMA ScanStepAgrees ==
    ASSUME NEW stream \in Seq(Bytes), NEW at \in 1 .. Len(stream) + 1, NEW f, NEW g,
           \A i \in (at + 1) .. (Len(stream) + 1) : f[i] = g[i]
    PROVE  ScanStep(f, stream, at) = ScanStep(g, stream, at)
<1>1. read_record(stream, at).status = "Success" =>
        read_record(stream, at).next \in (at + 1) .. (Len(stream) + 1)
  BY ReadKinds
<1>2. read_record(stream, at).status = "Success" =>
        f[read_record(stream, at).next] = g[read_record(stream, at).next]
  BY <1>1, Zenon
<1> QED
  BY <1>2, Zenon DEF ScanStep

(* The scan is defined at every position: each record it reads ends behind *)
(* its start, so that it ends (the loop of scan_records cannot spin).      *)
LEMMA ScansExist ==
    ASSUME NEW stream \in Seq(Bytes)
    PROVE  \E f : f = [at \in 1 .. Len(stream) + 1 |-> ScanStep(f, stream, at)]
<1> DEFINE L == Len(stream)
           G(f, n) == \A at \in n .. (L + 1) : f[at] = ScanStep(f, stream, at)
           T == {m \in 0 .. (L + 1) : ~ \E f : G(f, (L + 2) - m)}
<1>0. L \in Nat
  OBVIOUS
<1>1. ASSUME T # {} PROVE FALSE
  <2>0. T \subseteq Nat
    OBVIOUS
  <2>1. PICK m \in T : \A y \in T : m <= y
    <3> HIDE DEF T
    <3> QED
      BY <1>1, <2>0, LeastElement
  <2>2. m # 0
    <3>1. \A f : G(f, (L + 2) - 0)
      <4>1. \A at \in ((L + 2) - 0) .. (L + 1) : FALSE
        BY <1>0
      <4> QED
        BY <4>1
    <3> QED
      BY <2>1, <3>1
  <2>3. m - 1 \in 0 .. (L + 1) /\ m - 1 \notin T /\ m \in 0 .. (L + 1)
    <3>1. m \in 0 .. (L + 1)
      BY <2>1
    <3>2. m - 1 \in 0 .. (L + 1) /\ ~(m <= m - 1)
      BY <1>0, <2>2, <3>1
    <3> HIDE DEF T
    <3> QED
      BY <2>1, <3>1, <3>2, Zenon
  <2>4. PICK f : G(f, (L + 2) - (m - 1))
    BY <2>3
  <2> DEFINE a == (L + 2) - m
             g == [at \in 1 .. (L + 1) |-> IF at = a THEN ScanStep(f, stream, a) ELSE f[at]]
  <2>5. a \in 1 .. (L + 1) /\ (L + 2) - (m - 1) = a + 1
    BY <1>0, <2>2, <2>3
  <2> HIDE DEF a
  <2>6. \A at \in (a + 1) .. (L + 1) : f[at] = ScanStep(f, stream, at)
    BY <2>4, <2>5
  <2>7. \A at \in (a + 1) .. (L + 1) : g[at] = f[at]
    BY <1>0, <2>5
  <2>8. ASSUME NEW at \in a .. (L + 1) PROVE g[at] = ScanStep(g, stream, at)
    <3>1. at \in 1 .. (L + 1) /\ \A i \in (at + 1) .. (L + 1) : i \in (a + 1) .. (L + 1)
      BY <1>0, <2>5
    <3>2. \A i \in (at + 1) .. (L + 1) : f[i] = g[i]
      BY <2>7, <3>1
    <3>3. ScanStep(f, stream, at) = ScanStep(g, stream, at)
      <4> HIDE DEF g
      <4> QED
        BY <3>1, <3>2, ScanStepAgrees
    <3>4. g[at] = ScanStep(f, stream, at)
      <4>1. CASE at = a
        BY <2>5, <4>1
      <4>2. CASE at # a
        <5>1. at \in (a + 1) .. (L + 1)
          BY <1>0, <2>5, <4>2
        <5> HIDE DEF g
        <5> QED
          BY <2>6, <2>7, <5>1
      <4> QED
        BY <4>1, <4>2
    <3> QED
      BY <3>3, <3>4, Zenon
  <2>9. G(g, (L + 2) - m)
    <3> HIDE DEF g
    <3> QED
      BY <2>8 DEF a
  <2> QED
    BY <2>1, <2>9
<1>2. PICK f : \A at \in 1 .. (L + 1) : f[at] = ScanStep(f, stream, at)
  <2>1. L + 1 \in 0 .. (L + 1) /\ (L + 2) - (L + 1) = 1
    BY <1>0
  <2>2. \E f : G(f, (L + 2) - (L + 1))
    BY <1>1, <2>1
  <2> QED
    BY <2>1, <2>2
<1> DEFINE h == [at \in 1 .. (L + 1) |-> f[at]]
<1>3. ASSUME NEW at \in 1 .. (L + 1) PROVE h[at] = ScanStep(h, stream, at)
  <2>1. \A i \in (at + 1) .. (L + 1) : i \in 1 .. (L + 1)
    BY <1>0
  <2>2. \A i \in (at + 1) .. (L + 1) : f[i] = h[i]
    BY <2>1
  <2>3. h[at] = f[at]
    OBVIOUS
  <2> HIDE DEF h
  <2>4. ScanStep(f, stream, at) = ScanStep(h, stream, at)
    BY <2>2, ScanStepAgrees
  <2> QED
    BY <1>2, <2>3, <2>4
<1>4. h = [at \in 1 .. (L + 1) |-> ScanStep(h, stream, at)]
  <2>1. [at \in 1 .. (L + 1) |-> h[at]] = [at \in 1 .. (L + 1) |-> ScanStep(h, stream, at)]
    <3> HIDE DEF h
    <3> QED
      BY <1>3
  <2>2. h = [at \in 1 .. (L + 1) |-> h[at]]
    OBVIOUS
  <2> HIDE DEF h
  <2> QED
    BY <2>1, <2>2, Zenon
<1> HIDE DEF h
<1> QED
  BY <1>4, Zenon

(* What the scan returns from each position. *)
From(stream) == CHOOSE f : f = [at \in 1 .. Len(stream) + 1 |-> ScanStep(f, stream, at)]

(* The scan from a position is one step and the scan from the next         *)
(* position.                                                               *)
LEMMA ScanSteps ==
    ASSUME NEW stream \in Seq(Bytes)
    PROVE  /\ scan_records(stream) = From(stream)[1]
           /\ \A at \in 1 .. Len(stream) + 1 : From(stream)[at] = ScanStep(From(stream), stream, at)
<1>1. scan_records(stream) = From(stream)[1]
  BY DEF scan_records, From, ScanStep
<1>2. From(stream) = [at \in 1 .. Len(stream) + 1 |-> ScanStep(From(stream), stream, at)]
  BY ScansExist, Zenon DEF From
<1> DEFINE F == From(stream)
<1>3. F = [at \in 1 .. Len(stream) + 1 |-> ScanStep(F, stream, at)]
  BY <1>2, Zenon
<1> HIDE DEF F
<1>4. \A at \in 1 .. Len(stream) + 1 : F[at] = ScanStep(F, stream, at)
  BY <1>3
<1> QED
  BY <1>1, <1>4 DEF F

(* One record more in front of those that the rest of the scan returns. *)
LEMMA PrependedType ==
    ASSUME NEW r \in Record, NEW scan \in Scan
    PROVE  /\ Prepended(r, scan) \in Scan
           /\ Prepended(r, scan).status = scan.status
           /\ Prepended(r, scan).failing = scan.failing
           /\ Len(Prepended(r, scan).records) = Len(scan.records) + 1
           /\ Prepended(r, scan).records[1] = r
           /\ \A i \in 1 .. Len(scan.records) : Prepended(r, scan).records[i + 1] = scan.records[i]
           /\ Len(scan.records) \in Nat
<1> DEFINE rs == scan.records
           S == {"EndOfFile", "InvalidType"} \cup Corrupt
<1>1. rs \in Seq(Record) /\ scan.status \in S /\ scan.failing \in Nat
      /\ scan = [status |-> scan.status, failing |-> scan.failing, records |-> scan.records]
  BY DEF Scan
<1>2. Prepended(r, scan) = [status |-> scan.status, failing |-> scan.failing, records |-> <<r>> \o rs]
  <2> DEFINE st == scan.status
             fa == scan.failing
  <2>1. scan = [status |-> st, failing |-> fa, records |-> rs] /\ scan.records = rs
    BY <1>1
  <2> HIDE DEF st, fa, rs
  <2>2. \A z : [scan EXCEPT !.records = z] = [status |-> st, failing |-> fa, records |-> z]
    BY <2>1
  <2>3. Prepended(r, scan) = [scan EXCEPT !.records = <<r>> \o scan.records]
    BY Zenon DEF Prepended
  <2> QED
    BY <2>1, <2>2, <2>3, Zenon DEF st, fa
<1> HIDE DEF rs
<1> DEFINE ps == <<r>> \o rs
<1>3. /\ ps \in Seq(Record) /\ Len(ps) = Len(rs) + 1 /\ ps[1] = r /\ Len(rs) \in Nat
      /\ \A i \in 1 .. Len(rs) : ps[i + 1] = rs[i]
  <2>1. <<r>> \in Seq(Record) /\ Len(<<r>>) = 1 /\ <<r>>[1] = r
    OBVIOUS
  <2> DEFINE u == <<r>>
  <2> HIDE DEF u
  <2>2. /\ u \o rs \in Seq(Record) /\ Len(u \o rs) = Len(rs) + 1 /\ (u \o rs)[1] = r /\ Len(rs) \in Nat
        /\ \A i \in 1 .. Len(rs) : (u \o rs)[i + 1] = rs[i]
    BY <1>1, <2>1 DEF u
  <2> QED
    BY <2>2 DEF u
<1> HIDE DEF ps
<1>4. Prepended(r, scan) = [status |-> scan.status, failing |-> scan.failing, records |-> ps]
  BY <1>2 DEF ps
<1> HIDE DEF S
<1>5. Prepended(r, scan) \in Scan
  BY <1>1, <1>3, <1>4 DEF Scan, S
<1>6. /\ Prepended(r, scan).status = scan.status
      /\ Prepended(r, scan).failing = scan.failing
      /\ Prepended(r, scan).records = ps
  BY <1>4
<1> QED
  BY <1>3, <1>5, <1>6 DEF rs

(* What a scan returns, from every position. *)
LEMMA FromType ==
    ASSUME NEW stream \in Seq(Bytes)
    PROVE  \A at \in 1 .. Len(stream) + 1 : From(stream)[at] \in Scan
<1> DEFINE L == Len(stream)
           F == From(stream)
           T == {m \in 0 .. L : F[(L + 1) - m] \notin Scan}
<1>0. L \in Nat /\ L = Len(stream)
  OBVIOUS
<1>1. \A at \in 1 .. (L + 1) : F[at] = ScanStep(F, stream, at)
  BY ScanSteps
<1> HIDE DEF L, F
<1>2. ASSUME T # {} PROVE FALSE
  <2>0. T \subseteq Nat
    BY <1>0
  <2>1. PICK m \in T : \A y \in T : m <= y
    <3> HIDE DEF T
    <3> QED
      BY <1>2, <2>0, LeastElement
  <2> DEFINE a == (L + 1) - m
             r == read_record(stream, a)
  <2>2. m \in 0 .. L /\ a \in 1 .. (L + 1) /\ F[a] \notin Scan
    BY <1>0, <2>1
  <2>3. F[a] = ScanStep(F, stream, a)
    BY <1>1, <2>2
  <2> HIDE DEF a
  <2>4. /\ a > L => r.status = "EndOfFile"
        /\ a <= L => r.status \in {"Success", "InvalidType"} \cup Corrupt
        /\ r.status = "Success" => r.value \in Record /\ r.next \in (a + 1) .. (L + 1)
    BY <1>0, <2>2, ReadKinds
  <2> HIDE DEF r
  <2>5. CASE r.status = "Success"
    <3> DEFINE n == (L + 1) - r.next
    <3>1. n \in 0 .. L /\ n < m /\ (L + 1) - n = r.next
      BY <1>0, <2>2, <2>4, <2>5 DEF a
    <3>2. n \notin T
      <4> HIDE DEF n, T
      <4> QED
        BY <1>0, <2>0, <2>1, <3>1
    <3>3. F[r.next] \in Scan
      <4> HIDE DEF n
      <4> QED
        BY <3>1, <3>2
    <3>4. F[a] = Prepended(r.value, F[r.next])
      BY <2>3, <2>5, Zenon DEF ScanStep, r
    <3> QED
      BY <2>2, <2>4, <2>5, <3>3, <3>4, PrependedType
  <2>6. CASE r.status # "Success"
    <3>1. F[a] = [status |-> r.status, failing |-> a, records |-> <<>>]
      BY <2>3, <2>6, Zenon DEF ScanStep, r
    <3>2. r.status \in {"EndOfFile", "InvalidType"} \cup Corrupt
      BY <1>0, <2>2, <2>4, <2>6
    <3>3. <<>> \in Seq(Record) /\ a \in Nat
      BY <2>2
    <3> QED
      BY <2>2, <3>1, <3>2, <3>3 DEF Scan
  <2> QED
    BY <2>5, <2>6
<1>3. ASSUME NEW at \in 1 .. (L + 1) PROVE F[at] \in Scan
  <2> DEFINE m == (L + 1) - at
  <2>1. m \in 0 .. L /\ (L + 1) - m = at
    BY <1>0
  <2> HIDE DEF m
  <2> QED
    BY <1>2, <2>1
<1> QED
  BY <1>0, <1>3 DEF F

(* The first k of the records ws stand one after the other at the start of *)
(* the stream; record i ends in front of pos[i].                           *)
Laid(stream, ws, k, pos) ==
    /\ pos \in [0 .. k -> Nat \ {0}]
    /\ pos[0] = 1
    /\ \A i \in 1 .. k :
          /\ pos[i] = pos[i - 1] + Size(ws[i])
          /\ pos[i] <= Len(stream) + 1
          /\ Agrees(stream, pos[i - 1], serialize_record(ws[i]))

(* A scan that returns i records of ws and then those of another scan. *)
Continues(scan, rest, ws, i) ==
    /\ scan.status = rest.status
    /\ scan.failing = rest.failing
    /\ Len(scan.records) = i + Len(rest.records)
    /\ \A j \in 1 .. i : scan.records[j] = ws[j]
    /\ \A j \in 1 .. Len(rest.records) : scan.records[i + j] = rest.records[j]

(* Records laid out in a stream start and end in it. *)
LEMMA LaidPositions ==
    ASSUME NEW stream \in Seq(Bytes), NEW ws \in Seq(Writable), NEW k \in 0 .. Len(ws), NEW pos,
           Laid(stream, ws, k, pos)
    PROVE  /\ \A i \in 0 .. k : pos[i] \in 1 .. Len(stream) + 1
           /\ \A i \in 1 .. k : /\ ws[i] \in Writable /\ pos[i - 1] \in 1 .. Len(stream)
                                /\ pos[i] = pos[i - 1] + Size(ws[i]) /\ Size(ws[i]) \in Nat \ {0}
<1>0. Len(stream) \in Nat /\ Len(ws) \in Nat /\ k \in Nat
  OBVIOUS
<1>1. ASSUME NEW i \in 0 .. k PROVE pos[i] \in 1 .. Len(stream) + 1
  <2>1. pos[i] \in Nat \ {0}
    BY DEF Laid
  <2>2. CASE i = 0
    BY <1>0, <2>2 DEF Laid
  <2>3. CASE i # 0
    <3>1. i \in 1 .. k
      BY <2>3
    <3>2. pos[i] <= Len(stream) + 1
      BY <3>1 DEF Laid
    <3> QED
      BY <1>0, <2>1, <3>2
  <2> QED
    BY <2>2, <2>3
<1>2. ASSUME NEW i \in 1 .. k
      PROVE  /\ ws[i] \in Writable /\ pos[i - 1] \in 1 .. Len(stream)
             /\ pos[i] = pos[i - 1] + Size(ws[i]) /\ Size(ws[i]) \in Nat \ {0}
  <2>1. i \in 1 .. Len(ws) /\ i \in 0 .. k /\ i - 1 \in 0 .. k
    BY <1>0
  <2>2. ws[i] \in Writable
    BY <2>1
  <2>3. Size(ws[i]) \in Nat \ {0}
    <3>1. Size(ws[i]) \in Nat /\ Size(ws[i]) > ChecksumAt(ws[i]) /\ ChecksumAt(ws[i]) \in Nat
      BY <2>2, SerializedType, WritableType, BodyType
    <3> QED
      BY <3>1
  <2>4. pos[i] = pos[i - 1] + Size(ws[i])
    BY DEF Laid
  <2>5. pos[i] \in 1 .. Len(stream) + 1 /\ pos[i - 1] \in 1 .. Len(stream) + 1
    BY <1>1, <2>1
  <2>6. pos[i - 1] \in 1 .. Len(stream)
    BY <1>0, <2>3, <2>4, <2>5
  <2> QED
    BY <2>2, <2>3, <2>4, <2>6
<1> QED
  BY <1>1, <1>2

(* The scan returns the records that are laid out at the start of the      *)
(* stream, and then whatever it finds behind them.                         *)
LEMMA ScanLaid ==
    ASSUME NEW stream \in Seq(Bytes), NEW ws \in Seq(Writable), NEW k \in 0 .. Len(ws), NEW pos,
           Laid(stream, ws, k, pos)
    PROVE  \A i \in 0 .. k : Continues(scan_records(stream), From(stream)[pos[i]], ws, i)
<1> DEFINE F == From(stream)
           S == scan_records(stream)
           L == Len(stream)
           T == {i \in 0 .. k : ~Continues(S, F[pos[i]], ws, i)}
<1>0. L \in Nat /\ k \in Nat
  OBVIOUS
<1>1. S = F[1] /\ \A at \in 1 .. (L + 1) : F[at] = ScanStep(F, stream, at) /\ F[at] \in Scan
  BY ScanSteps, FromType
<1>2. \A i \in 0 .. k : pos[i] \in 1 .. (L + 1)
  BY LaidPositions
<1>3. \A i \in 1 .. k : /\ ws[i] \in Writable /\ pos[i - 1] \in 1 .. L
                        /\ pos[i] = pos[i - 1] + Size(ws[i]) /\ Size(ws[i]) \in Nat \ {0}
  BY LaidPositions
<1>4. pos[0] = 1 /\ \A i \in 1 .. k : /\ Agrees(stream, pos[i - 1], serialize_record(ws[i]))
                                      /\ pos[i] <= L + 1
  BY DEF Laid
<1>5. L = Len(stream)
  OBVIOUS
<1> HIDE DEF F, S, L
<1>6. ASSUME T # {} PROVE FALSE
  <2>0. T \subseteq Nat
    OBVIOUS
  <2>1. PICK i \in T : \A y \in T : i <= y
    <3> HIDE DEF T
    <3> QED
      BY <1>6, <2>0, LeastElement
  <2>2. i # 0
    <3>1. F[1] \in Scan
      BY <1>0, <1>1
    <3>2. Len(F[1].records) \in Nat
      BY <3>1 DEF Scan
    <3>3. Continues(S, F[pos[0]], ws, 0)
      BY <1>1, <1>4, <3>2 DEF Continues
    <3> QED
      BY <2>1, <3>3
  <2>3. i \in 1 .. k /\ i - 1 \in 0 .. k /\ i \in 0 .. k
    BY <2>1, <2>2
  <2>4. i - 1 \notin T
    <3>1. ~(i <= i - 1)
      BY <2>3
    <3> HIDE DEF T
    <3> QED
      BY <2>1, <3>1, Zenon
  <2> DEFINE p == pos[i - 1]
             q == pos[i]
             a == F[p]
             b == F[q]
             m == Len(b.records)
  <2>5. Continues(S, a, ws, i - 1)
    BY <2>3, <2>4
  <2>6. p \in 1 .. L /\ q \in 1 .. (L + 1) /\ q = p + Size(ws[i]) /\ ws[i] \in Writable
        /\ Size(ws[i]) \in Nat \ {0}
    BY <1>2, <1>3, <2>3
  <2>7. read_record(stream, p) = Result("Success", ws[i], q)
    <3>1. Agrees(stream, p, serialize_record(ws[i]))
      BY <1>4, <2>3
    <3> HIDE DEF p, q
    <3>2. p + Size(ws[i]) - 1 <= L
      BY <1>0, <2>6
    <3>3. read_record(stream, p) = Result("Success", ws[i], p + Size(ws[i]))
      BY <1>5, <2>6, <3>1, <3>2, RecordIsReadBack
    <3> QED
      BY <2>6, <3>3
  <2>8. b \in Scan /\ a = ScanStep(F, stream, p)
    <3> HIDE DEF p, q
    <3>1. p \in 1 .. (L + 1)
      BY <1>0, <2>6
    <3> QED
      BY <1>1, <2>6, <3>1
  <2> HIDE DEF p, q
  <2>9. a = Prepended(ws[i], b)
    <3>1. /\ read_record(stream, p).status = "Success"
          /\ read_record(stream, p).value = ws[i] /\ read_record(stream, p).next = q
      BY <2>7 DEF Result
    <3> QED
      BY <2>8, <3>1, Zenon DEF ScanStep
  <2> HIDE DEF a, b
  <2>10. /\ a.status = b.status /\ a.failing = b.failing
         /\ Len(a.records) = m + 1 /\ a.records[1] = ws[i] /\ m \in Nat
         /\ \A j \in 1 .. m : a.records[j + 1] = b.records[j]
    <3>1. ws[i] \in Record
      BY <2>6, WritableType
    <3> QED
      BY <2>8, <2>9, <3>1, PrependedType
  <2> HIDE DEF m
  <2>11. /\ S.status = b.status /\ S.failing = b.failing
         /\ Len(S.records) = i + m
         /\ \A j \in 1 .. i - 1 : S.records[j] = ws[j]
         /\ \A j \in 1 .. m + 1 : S.records[(i - 1) + j] = a.records[j]
    <3>1. Len(S.records) = (i - 1) + (m + 1)
      BY <2>5, <2>10 DEF Continues
    <3> QED
      BY <2>3, <2>5, <2>10, <3>1 DEF Continues
  <2>12. S.records[i] = ws[i]
    <3>1. 1 \in 1 .. m + 1 /\ (i - 1) + 1 = i
      BY <2>3, <2>10
    <3> QED
      BY <2>10, <2>11, <3>1
  <2>13. \A j \in 1 .. i : S.records[j] = ws[j]
    <3>1. \A j \in 1 .. i : j = i \/ j \in 1 .. i - 1
      BY <2>3
    <3> QED
      BY <2>11, <2>12, <3>1
  <2>14. ASSUME NEW j \in 1 .. m PROVE S.records[i + j] = b.records[j]
    <3>1. j + 1 \in 1 .. m + 1 /\ (i - 1) + (j + 1) = i + j
      BY <2>3, <2>10
    <3> QED
      BY <2>10, <2>11, <3>1
  <2>15. Continues(S, b, ws, i)
    BY <2>11, <2>13, <2>14 DEF Continues, m
  <2> QED
    BY <2>1, <2>15 DEF b, q
<1> QED
  BY <1>6 DEF S, F

(* Later records lie further on. *)
LEMMA LaidMonotone ==
    ASSUME NEW stream \in Seq(Bytes), NEW ws \in Seq(Writable), NEW k \in 0 .. Len(ws), NEW pos,
           Laid(stream, ws, k, pos)
    PROVE  \A j \in 0 .. k : \A i \in 0 .. j : pos[i] <= pos[j]
<1> DEFINE T == {j \in 0 .. k : ~ \A i \in 0 .. j : pos[i] <= pos[j]}
<1>0. k \in Nat
  OBVIOUS
<1>1. \A i \in 0 .. k : pos[i] \in Nat
  BY LaidPositions
<1>2. \A i \in 1 .. k : pos[i] > pos[i - 1]
  <2> SUFFICES ASSUME NEW i \in 1 .. k PROVE pos[i] > pos[i - 1]
    OBVIOUS
  <2>1. /\ ws[i] \in Writable /\ pos[i - 1] \in 1 .. Len(stream)
        /\ pos[i] = pos[i - 1] + Size(ws[i]) /\ Size(ws[i]) \in Nat \ {0}
    BY LaidPositions
  <2> QED
    BY <2>1
<1>3. ASSUME T # {} PROVE FALSE
  <2>0. T \subseteq Nat
    OBVIOUS
  <2>1. PICK j \in T : \A y \in T : j <= y
    <3> HIDE DEF T
    <3> QED
      BY <1>3, <2>0, LeastElement
  <2>2. PICK i \in 0 .. j : ~(pos[i] <= pos[j])
    BY <2>1
  <2>3. j \in 0 .. k
    BY <2>1
  <2>4. i # j /\ j # 0 /\ i \in 0 .. j - 1 /\ j \in 1 .. k /\ j - 1 \in 0 .. k /\ i \in 0 .. k
    BY <1>1, <2>2, <2>3
  <2>5. j - 1 \notin T
    <3>1. ~(j <= j - 1)
      BY <2>3
    <3> HIDE DEF T
    <3> QED
      BY <2>1, <3>1, Zenon
  <2>6. pos[i] <= pos[j - 1]
    BY <2>4, <2>5
  <2> QED
    BY <1>1, <1>2, <2>2, <2>3, <2>4, <2>6
<1> QED
  BY <1>3

(* Whether records are laid out depends on their own bytes only. *)
LEMMA LaidElsewhere ==
    ASSUME NEW stream \in Seq(Bytes), NEW ws \in Seq(Writable), NEW k \in 0 .. Len(ws), NEW pos,
           Laid(stream, ws, k, pos),
           NEW other \in Seq(Bytes), pos[k] <= Len(other) + 1,
           \A i \in 1 .. pos[k] - 1 : other[i] = stream[i]
    PROVE  Laid(other, ws, k, pos)
<1>0. k \in Nat /\ k \in 0 .. k /\ Len(other) \in Nat
  OBVIOUS
<1>1. \A i \in 0 .. k : pos[i] \in 1 .. Len(stream) + 1
  BY LaidPositions
<1>2. \A i \in 0 .. k : pos[i] <= pos[k]
  BY <1>0, LaidMonotone
<1>3. ASSUME NEW i \in 1 .. k
      PROVE  /\ pos[i] = pos[i - 1] + Size(ws[i])
             /\ pos[i] <= Len(other) + 1
             /\ Agrees(other, pos[i - 1], serialize_record(ws[i]))
  <2>1. i \in 0 .. k
    BY <1>0
  <2>2. /\ ws[i] \in Writable /\ pos[i - 1] \in 1 .. Len(stream)
        /\ pos[i] = pos[i - 1] + Size(ws[i]) /\ Size(ws[i]) \in Nat \ {0}
    BY LaidPositions
  <2>3. Len(serialize_record(ws[i])) = Size(ws[i])
    BY <2>2, SerializedType
  <2>4. Agrees(stream, pos[i - 1], serialize_record(ws[i]))
    BY DEF Laid
  <2>5. pos[i] \in 1 .. Len(stream) + 1 /\ pos[i] <= pos[k] /\ pos[k] \in 1 .. Len(stream) + 1
    BY <1>0, <1>1, <1>2, <2>1
  <2>6. pos[i] <= Len(other) + 1
    BY <1>0, <2>5
  <2> DEFINE p == pos[i - 1]
             s == serialize_record(ws[i])
             n == Size(ws[i])
             e == pos[k]
  <2>7. p \in Nat \ {0} /\ n \in Nat /\ p + n <= e /\ e \in Nat /\ e <= Len(stream) + 1
    BY <2>2, <2>5
  <2> HIDE DEF p, s, n, e
  <2>8. ASSUME NEW j \in 1 .. n PROVE other[p + j - 1] = s[j]
    <3>1. p + j - 1 \in 1 .. e - 1 /\ p + j - 1 <= Len(stream)
      BY <2>7
    <3>2. other[p + j - 1] = stream[p + j - 1]
      BY <3>1 DEF e
    <3>3. stream[p + j - 1] = s[j]
      BY <2>3, <2>4, <3>1 DEF Agrees, p, s, n
    <3> QED
      BY <3>2, <3>3
  <2>9. Agrees(other, p, s)
    BY <2>3, <2>8 DEF Agrees, s, n
  <2> QED
    BY <2>2, <2>6, <2>9 DEF p, s
<1>4. pos \in [0 .. k -> Nat \ {0}] /\ pos[0] = 1
  BY DEF Laid
<1> QED
  BY <1>3, <1>4 DEF Laid

(* Of records laid out, the first ones are. *)
LEMMA LaidPart ==
    ASSUME NEW stream \in Seq(Bytes), NEW ws \in Seq(Writable), NEW k \in 0 .. Len(ws), NEW pos,
           Laid(stream, ws, k, pos), NEW j \in 0 .. k
    PROVE  Laid(stream, ws, j, [i \in 0 .. j |-> pos[i]])
<1> DEFINE f == [i \in 0 .. j |-> pos[i]]
<1>0. \A i \in 0 .. j : i \in 0 .. k /\ f[i] = pos[i]
  OBVIOUS
<1>1. \A i \in 0 .. k : pos[i] \in Nat \ {0}
  BY DEF Laid
<1>2. f \in [0 .. j -> Nat \ {0}]
  BY <1>0, <1>1
<1>3. 0 \in 0 .. j /\ \A i \in 1 .. j : i \in 1 .. k /\ i \in 0 .. j /\ i - 1 \in 0 .. j
  OBVIOUS
<1> HIDE DEF f
<1>4. f[0] = 1
  BY <1>0, <1>3 DEF Laid
<1>5. ASSUME NEW i \in 1 .. j
      PROVE  /\ f[i] = f[i - 1] + Size(ws[i])
             /\ f[i] <= Len(stream) + 1
             /\ Agrees(stream, f[i - 1], serialize_record(ws[i]))
  <2>1. f[i] = pos[i] /\ f[i - 1] = pos[i - 1] /\ i \in 1 .. k
    BY <1>0, <1>3
  <2> QED
    BY <2>1 DEF Laid
<1>6. Laid(stream, ws, j, f)
  BY <1>2, <1>4, <1>5 DEF Laid
<1> QED
  BY <1>6 DEF f

(* The record r stands complete behind the first k of the records ws, and  *)
(* vs begins with those and r.                                             *)
FollowedBy(stream, ws, k, pos, r, vs) ==
    /\ stream \in Seq(Bytes) /\ ws \in Seq(Writable) /\ k \in 0 .. Len(ws) /\ r \in Writable
    /\ Laid(stream, ws, k, pos)
    /\ Agrees(stream, pos[k], serialize_record(r)) /\ pos[k] + Size(r) <= Len(stream) + 1
    /\ vs[k + 1] = r /\ \A i \in 1 .. k : vs[i] = ws[i]

(* A complete record behind those laid out is one more of them. *)
LEMMA LaidMore ==
    ASSUME NEW stream, NEW ws, NEW k, NEW pos, NEW r, NEW vs,
           FollowedBy(stream, ws, k, pos, r, vs)
    PROVE  \E f : Laid(stream, vs, k + 1, f) /\ f[k + 1] = pos[k] + Size(r)
<1> DEFINE f == [i \in 0 .. k + 1 |-> IF i = k + 1 THEN pos[k] + Size(r) ELSE pos[i]]
<1>0. /\ k \in Nat /\ k \in 0 .. k /\ r \in Writable
      /\ Laid(stream, ws, k, pos)
      /\ Agrees(stream, pos[k], serialize_record(r)) /\ pos[k] + Size(r) <= Len(stream) + 1
  BY DEF FollowedBy
<1>1. vs[k + 1] = r /\ \A i \in 1 .. k : vs[i] = ws[i]
  BY DEF FollowedBy
<1>2. f[k + 1] = pos[k] + Size(r) /\ \A i \in 0 .. k : f[i] = pos[i]
  BY <1>0
<1>3. \A i \in 0 .. k : pos[i] \in Nat \ {0}
  BY <1>0 DEF Laid
<1>4. Size(r) \in Nat
  BY <1>0, SerializedType
<1>5. f \in [0 .. k + 1 -> Nat \ {0}]
  <2>1. pos[k] + Size(r) \in Nat \ {0}
    BY <1>0, <1>3, <1>4
  <2>2. \A i \in 0 .. k + 1 : i = k + 1 \/ i \in 0 .. k
    BY <1>0
  <2> QED
    BY <1>3, <2>1, <2>2
<1> HIDE DEF f
<1>6. f[0] = 1
  BY <1>0, <1>2 DEF Laid
<1>7. ASSUME NEW i \in 1 .. k + 1
      PROVE  /\ f[i] = f[i - 1] + Size(vs[i])
             /\ f[i] <= Len(stream) + 1
             /\ Agrees(stream, f[i - 1], serialize_record(vs[i]))
  <2>1. CASE i = k + 1
    <3>1. i - 1 = k /\ k \in 0 .. k
      BY <1>0, <2>1
    <3>2. f[i - 1] = pos[k] /\ f[i] = pos[k] + Size(r) /\ vs[i] = r
      BY <1>1, <1>2, <2>1, <3>1
    <3> QED
      BY <1>0, <3>2
  <2>2. CASE i # k + 1
    <3>1. i \in 1 .. k /\ i \in 0 .. k /\ i - 1 \in 0 .. k
      BY <1>0, <2>2
    <3>2. f[i - 1] = pos[i - 1] /\ f[i] = pos[i] /\ vs[i] = ws[i]
      BY <1>1, <1>2, <3>1
    <3> QED
      BY <1>0, <3>1, <3>2 DEF Laid
  <2> QED
    BY <2>1, <2>2
<1>8. Laid(stream, vs, k + 1, f)
  BY <1>5, <1>6, <1>7 DEF Laid
<1> QED
  BY <1>2, <1>8

-----------------------------------------------------------------------------
(* The invariant, and what the scan returns where it holds. *)

(* What is left to write is the end of the record that is being written. *)
Remaining ==
    /\ rec = NoRecord => todo = <<>>
    /\ rec # NoRecord =>
         /\ Len(todo) \in 1 .. Size(rec)
         /\ \A i \in 1 .. Len(todo) :
               todo[i] = serialize_record(rec)[(Size(rec) - Len(todo)) + i]

(* The file holds the records that were written and the beginning of the   *)
(* one that is being written.                                              *)
Whole(pos) ==
    /\ Laid(file, written, Len(written), pos)
    /\ rec = NoRecord => Len(file) + 1 = pos[Len(written)]
    /\ rec # NoRecord =>
         /\ Agrees(file, pos[Len(written)], serialize_record(rec))
         /\ Len(file) + 1 = pos[Len(written)] + (Size(rec) - Len(todo))

(* It holds the records in front of the fragment, and a byte of that. *)
Split(pos) ==
    /\ Laid(file, written, fragment, pos)
    /\ pos[fragment] <= Len(file)
    /\ file[pos[fragment]] \in {1, 2}

(* It would hold the records that were written, but for one byte. *)
Altered(whole, pos) ==
    /\ Laid(whole, written, Len(written), pos)
    /\ Len(whole) + 1 = pos[Len(written)]
    /\ Len(file) = Len(whole)
    /\ damage \in 1 .. Len(whole) /\ file[damage] # whole[damage]
    /\ \A i \in 1 .. Len(whole) : i # damage => file[i] = whole[i]

(* How many records there are, and that only a file at rest is altered. *)
Bounds ==
    /\ fragment \in {NoFragment} \cup 0 .. Len(written)
    /\ IF rec = NoRecord THEN Len(written) <= MaxRecords ELSE Len(written) < MaxRecords
    /\ damage # 0 => rec = NoRecord /\ fragment = NoFragment

(* The inductive invariant: what the file holds in each of the three kinds *)
(* of history, with no fragment, with one, with an altered byte. The       *)
(* properties speak of what scan_records returns, which says too little of *)
(* the bytes to be preserved by the next append.                           *)
RecordsInv ==
    /\ TypeOK
    /\ Remaining
    /\ Bounds
    /\ damage = 0 /\ fragment = NoFragment => \E pos : Whole(pos)
    /\ damage = 0 /\ fragment # NoFragment => \E pos : Split(pos)
    /\ damage # 0 => \E whole \in Seq(Bytes) : \E pos : Altered(whole, pos)

(* The record being written is one that put or erase writes. *)
LEMMA RecordStates ==
    ASSUME TypeOK, rec # NoRecord
    PROVE  rec \in Writable /\ Size(rec) \in Nat \ {0} /\ Len(serialize_record(rec)) = Size(rec)
<1>1. rec \in Writable
  BY DEF TypeOK
<1>2. /\ Size(rec) \in Nat /\ Size(rec) > ChecksumAt(rec) /\ ChecksumAt(rec) \in Nat
      /\ Len(serialize_record(rec)) = Size(rec)
  BY <1>1, SerializedType, WritableType, BodyType
<1> QED
  BY <1>1, <1>2

(* Where the scan ends when it reads nothing. *)
LEMMA ScanStops ==
    ASSUME NEW stream \in Seq(Bytes), NEW at \in 1 .. Len(stream) + 1,
           read_record(stream, at).status # "Success"
    PROVE  /\ From(stream)[at].status = read_record(stream, at).status
           /\ From(stream)[at].failing = at
           /\ Len(From(stream)[at].records) = 0
<1>1. From(stream)[at] = [status |-> read_record(stream, at).status, failing |-> at, records |-> <<>>]
  BY ScanSteps, Zenon DEF ScanStep
<1> QED
  BY <1>1

(* In a file that one append after another has made, the scan finds just   *)
(* the complete records and stops where they end.                          *)
LEMMA ScanWhole ==
    ASSUME TypeOK, Remaining, NEW pos, Whole(pos)
    PROVE  /\ scan_records(file).failing = pos[Len(written)]
           /\ scan_records(file).status \in {"Truncated", "EndOfFile"}
           /\ FindsExactly(scan_records(file))
<1> DEFINE n == Len(written)
           p == pos[n]
           L == Len(file)
           scan == scan_records(file)
           rest == From(file)[p]
<1>0. /\ file \in Seq(Bytes) /\ written \in Seq(Writable) /\ todo \in Seq(Bytes)
      /\ n \in Nat /\ n \in 0 .. n /\ L \in Nat /\ Len(todo) \in Nat
  BY DEF TypeOK
<1>1. Laid(file, written, n, pos)
  BY DEF Whole
<1>2. p \in 1 .. (L + 1)
  BY <1>0, <1>1, LaidPositions
<1>3. Continues(scan, rest, written, n)
  BY <1>0, <1>1, ScanLaid
<1>4. \/ ~Started /\ p = L + 1
      \/ /\ Started /\ p <= L /\ rec # NoRecord
         /\ (L + 1) - p = Size(rec) - Len(todo)
         /\ Agrees(file, p, serialize_record(rec)) /\ p + Size(rec) - 1 > L
  <2>1. CASE rec = NoRecord
    BY <1>2, <2>1 DEF Started, Whole
  <2>2. CASE rec # NoRecord
    <3> DEFINE s == Size(rec)
               m == Len(todo)
    <3>1. s \in Nat \ {0} /\ Len(serialize_record(rec)) = s
      BY <2>2, RecordStates
    <3>2. m \in 1 .. s /\ L + 1 = p + (s - m) /\ Agrees(file, p, serialize_record(rec))
      BY <2>2 DEF Remaining, Whole
    <3>3. Started <=> m < s
      BY <2>2, <3>1 DEF Started
    <3> HIDE DEF s, m, p, L
    <3>4. CASE m < s
      <4>1. p <= L /\ (L + 1) - p = s - m /\ p + s - 1 > L
        BY <1>0, <1>2, <3>1, <3>2, <3>4
      <4> QED
        BY <2>2, <3>2, <3>3, <3>4, <4>1 DEF s, m
    <3>5. CASE ~(m < s)
      <4>1. p = L + 1
        BY <1>0, <1>2, <3>1, <3>2, <3>5
      <4> QED
        BY <3>3, <3>5, <4>1
    <3> QED
      BY <3>4, <3>5
  <2> QED
    BY <2>1, <2>2
<1>5. rest.failing = p /\ Len(rest.records) = 0
      /\ rest.status = IF Started THEN "Truncated" ELSE "EndOfFile"
  <2>1. read_record(file, p).status = IF Started THEN "Truncated" ELSE "EndOfFile"
    <3>1. CASE ~Started /\ p = L + 1
      <4>1. p > L
        BY <1>0, <3>1
      <4> QED
        BY <1>0, <1>2, <3>1, <4>1, ReadKinds
    <3>2. CASE /\ Started /\ p <= L /\ rec # NoRecord
               /\ Agrees(file, p, serialize_record(rec)) /\ p + Size(rec) - 1 > L
      <4>1. p \in 1 .. L /\ rec \in Writable
        BY <1>0, <1>2, <3>2, RecordStates
      <4> QED
        BY <1>0, <3>2, <4>1, RecordIsReadBack
    <3> QED
      BY <1>4, <3>1, <3>2
  <2>2. read_record(file, p).status # "Success"
    BY <2>1
  <2> QED
    BY <1>0, <1>2, <2>1, <2>2, ScanStops
<1> HIDE DEF n, p, L, scan, rest
<1>6. /\ scan.failing = p /\ scan.status = IF Started THEN "Truncated" ELSE "EndOfFile"
      /\ Len(scan.records) = n /\ \A j \in 1 .. n : scan.records[j] = written[j]
  BY <1>0, <1>3, <1>5 DEF Continues
<1>7. scan.records = written
  <2>1. scan \in Scan
    <3>1. 1 \in 1 .. Len(file) + 1
      BY <1>0 DEF L
    <3> QED
      BY <1>0, <3>1, ScanSteps, FromType DEF scan
  <2>2. scan.records \in Seq(Record)
    BY <2>1 DEF Scan
  <2>3. written \in Seq(Record)
    <3>1. Writable \subseteq Record
      BY WritableType
    <3> QED
      BY <1>0, <3>1
  <2> DEFINE rs == scan.records
  <2>4. Len(rs) = Len(written) /\ \A j \in 1 .. Len(rs) : rs[j] = written[j]
    BY <1>6 DEF n
  <2>5. rs \in Seq(Record)
    BY <2>2
  <2> HIDE DEF rs
  <2>6. rs = written
    BY <2>3, <2>4, <2>5, SeqEqual
  <2> QED
    BY <2>6 DEF rs
<1>8. L - (p - 1) = IF Started THEN Len(serialize_record(rec)) - Len(todo) ELSE 0
  <2>1. CASE ~Started /\ p = L + 1
    BY <1>0, <2>1
  <2>2. CASE Started /\ rec # NoRecord /\ (L + 1) - p = Size(rec) - Len(todo)
    <3>1. Len(serialize_record(rec)) = Size(rec)
      BY <2>2, RecordStates
    <3>2. L - (p - 1) = (L + 1) - p
      BY <1>0, <1>2
    <3> QED
      BY <2>2, <3>1, <3>2
  <2> QED
    BY <1>4, <2>1, <2>2
<1>9. FindsExactly(scan)
  BY <1>6, <1>7, <1>8 DEF FindsExactly, L
<1> QED
  BY <1>6, <1>9 DEF scan, p, n

(* Two sequences that agree on their first k members begin alike. *)
LEMMA SameBeginning ==
    ASSUME NEW ws \in Seq(Writable), NEW k \in 0 .. Len(ws), NEW scan \in Scan,
           Len(scan.records) >= k, \A j \in 1 .. k : scan.records[j] = ws[j]
    PROVE  SubSeq(scan.records, 1, k) = SubSeq(ws, 1, k)
<1> DEFINE rs == scan.records
           u == SubSeq(rs, 1, k)
           v == SubSeq(ws, 1, k)
<1>1. rs \in Seq(Record) /\ Len(rs) >= k
  BY DEF Scan
<1>2. ws \in Seq(Record)
  <2>1. Writable \subseteq Record
    BY WritableType
  <2> QED
    BY <2>1
<1>3. \A j \in 1 .. k : rs[j] = ws[j]
  OBVIOUS
<1> HIDE DEF rs
<1>4. u \in Seq(Record) /\ Len(u) = k /\ \A j \in 1 .. k : u[j] = rs[j]
  BY <1>1
<1>5. v \in Seq(Record) /\ Len(v) = k /\ \A j \in 1 .. k : v[j] = ws[j]
  BY <1>2
<1> HIDE DEF u, v
<1>6. \A j \in 1 .. Len(u) : u[j] = v[j]
  BY <1>3, <1>4, <1>5
<1>7. u = v
  BY <1>4, <1>5, <1>6, SeqEqual
<1> QED
  BY <1>7 DEF u, v, rs

(* Whatever follows a fragment, the scan gets as far as the fragment, and  *)
(* where it stops there it does so with one of three failures.             *)
LEMMA ScanSplit ==
    ASSUME TypeOK, fragment \in 0 .. Len(written), NEW pos, Split(pos)
    PROVE  FindsUpToFragment(scan_records(file))
<1> DEFINE k == fragment
           p == pos[k]
           L == Len(file)
           scan == scan_records(file)
           rest == From(file)[p]
<1>0. /\ file \in Seq(Bytes) /\ written \in Seq(Writable) /\ L \in Nat
      /\ k \in Nat /\ k \in 0 .. Len(written) /\ k \in 0 .. k
  BY DEF TypeOK
<1>1. Laid(file, written, k, pos) /\ p <= L /\ file[p] \in {1, 2}
  BY DEF Split
<1>2. p \in 1 .. (L + 1)
  BY <1>0, <1>1, LaidPositions
<1>3. Continues(scan, rest, written, k)
  BY <1>0, <1>1, ScanLaid
<1>4. rest \in Scan
  BY <1>0, <1>2, FromType
<1>5. read_record(file, p).status \in {"Success"} \cup Corrupt
  <2>1. /\ p <= L => read_record(file, p).status \in {"Success", "InvalidType"} \cup Corrupt
        /\ p <= L /\ file[p] \in {1, 2} => read_record(file, p).status # "InvalidType"
    BY <1>0, <1>2, ReadKinds
  <2> QED
    BY <1>1, <2>1
<1>6. Len(rest.records) = 0 => rest.status \in Corrupt
  <2>1. CASE read_record(file, p).status # "Success"
    <3>1. rest.status = read_record(file, p).status
      BY <1>0, <1>2, <2>1, ScanStops
    <3> QED
      BY <1>5, <2>1, <3>1
  <2>2. CASE read_record(file, p).status = "Success"
    <3> DEFINE x == read_record(file, p)
    <3>1. rest = Prepended(x.value, From(file)[x.next])
      <4>1. rest = ScanStep(From(file), file, p)
        BY <1>0, <1>2, ScanSteps
      <4> QED
        BY <2>2, <4>1, Zenon DEF ScanStep
    <3>2. x.value \in Record /\ x.next \in (p + 1) .. (L + 1)
      BY <1>0, <1>2, <2>2, ReadKinds
    <3> HIDE DEF x
    <3>3. x.next \in 1 .. Len(file) + 1
      BY <1>0, <1>2, <3>2
    <3>4. From(file)[x.next] \in Scan
      BY <1>0, <3>3, FromType
    <3> DEFINE y == From(file)[x.next]
    <3> HIDE DEF y, rest
    <3>5. Len(rest.records) = Len(y.records) + 1 /\ Len(y.records) \in Nat
      BY <3>1, <3>2, <3>4, PrependedType DEF y
    <3> QED
      BY <3>5
  <2> QED
    BY <2>1, <2>2
<1> HIDE DEF k, p, L, scan, rest
<1>7. rest.records \in Seq(Record) /\ Len(rest.records) \in Nat
  BY <1>4 DEF Scan
<1>8. /\ Len(scan.records) = k + Len(rest.records) /\ scan.status = rest.status
      /\ \A j \in 1 .. k : scan.records[j] = written[j]
  BY <1>3 DEF Continues
<1>9. Len(scan.records) >= k /\ (Len(scan.records) = k => Len(rest.records) = 0)
  BY <1>0, <1>7, <1>8
<1>10. SubSeq(scan.records, 1, k) = SubSeq(written, 1, k)
  <2>1. scan \in Scan
    <3>1. 1 \in 1 .. Len(file) + 1
      BY <1>0 DEF L
    <3> QED
      BY <1>0, <3>1, ScanSteps, FromType DEF scan
  <2> QED
    BY <1>0, <1>8, <1>9, <2>1, SameBeginning
<1> QED
  BY <1>6, <1>8, <1>9, <1>10 DEF FindsUpToFragment, Corrupt, k, scan

-----------------------------------------------------------------------------
(* Every step keeps the invariant. *)

(* One byte more at the end of the file. *)
LEMMA AppendByte ==
    ASSUME NEW stream \in Seq(Bytes), NEW byte \in Bytes
    PROVE  /\ Append(stream, byte) \in Seq(Bytes)
           /\ Len(Append(stream, byte)) = Len(stream) + 1
           /\ \A i \in 1 .. Len(stream) : Append(stream, byte)[i] = stream[i]
           /\ Append(stream, byte)[Len(stream) + 1] = byte
OBVIOUS

(* A byte at the end disturbs no record in front of it. *)
LEMMA AppendLaid ==
    ASSUME NEW stream \in Seq(Bytes), NEW byte \in Bytes, NEW ws \in Seq(Writable),
           NEW k \in 0 .. Len(ws), NEW pos, Laid(stream, ws, k, pos)
    PROVE  Laid(Append(stream, byte), ws, k, pos)
<1> DEFINE other == Append(stream, byte)
           L == Len(stream)
<1>1. /\ other \in Seq(Bytes) /\ Len(other) = L + 1 /\ L \in Nat
      /\ \A i \in 1 .. L : other[i] = stream[i]
  BY AppendByte
<1>2. k \in 0 .. k
  OBVIOUS
<1>3. pos[k] \in 1 .. L + 1
  BY <1>2, LaidPositions
<1> HIDE DEF other, L
<1>4. pos[k] <= Len(other) + 1
  BY <1>1, <1>3
<1>5. \A i \in 1 .. pos[k] - 1 : i \in 1 .. L
  BY <1>1, <1>3
<1>6. \A i \in 1 .. pos[k] - 1 : other[i] = stream[i]
  BY <1>1, <1>5
<1>7. Laid(other, ws, k, pos)
  BY <1>1, <1>4, <1>6, LaidElsewhere
<1> QED
  BY <1>7 DEF other

(* The next byte of a string at the end of the file continues it. *)
LEMMA AppendAgrees ==
    ASSUME NEW stream \in Seq(Bytes), NEW at \in 1 .. Len(stream) + 1, NEW s \in Seq(Bytes),
           Agrees(stream, at, s), NEW byte \in Bytes, byte = s[(Len(stream) + 2) - at]
    PROVE  Agrees(Append(stream, byte), at, s)
<1> DEFINE other == Append(stream, byte)
           L == Len(stream)
<1>1. /\ Len(other) = L + 1 /\ L \in Nat
      /\ \A i \in 1 .. L : other[i] = stream[i]
      /\ other[L + 1] = byte
  BY AppendByte
<1>2. at \in 1 .. L + 1 /\ byte = s[(L + 2) - at]
  OBVIOUS
<1>3. \A i \in 1 .. Len(s) : at + i - 1 <= L => stream[at + i - 1] = s[i]
  BY DEF Agrees
<1> HIDE DEF other, L
<1>4. ASSUME NEW i \in 1 .. Len(s), at + i - 1 <= Len(other)
      PROVE  other[at + i - 1] = s[i]
  <2>1. CASE at + i - 1 <= L
    <3>1. at + i - 1 \in 1 .. L
      BY <1>1, <1>2, <2>1
    <3> QED
      BY <1>1, <1>3, <2>1, <3>1
  <2>2. CASE ~(at + i - 1 <= L)
    <3>1. at + i - 1 = L + 1 /\ i = (L + 2) - at
      BY <1>1, <1>2, <1>4, <2>2
    <3> QED
      BY <1>1, <1>2, <3>1
  <2> QED
    BY <2>1, <2>2
<1> QED
  BY <1>4 DEF Agrees, other

(* A new data file satisfies the invariant. *)
LEMMA InitInv == Init => RecordsInv
<1> SUFFICES ASSUME Init PROVE RecordsInv
  OBVIOUS
<1> USE DEF Init
<1>1. TypeOK
  <2>1. <<>> \in Seq(Bytes) /\ <<>> \in Seq(Writable) /\ 0 \in 0 .. Len(<<>>)
    OBVIOUS
  <2> QED
    BY <2>1 DEF TypeOK
<1>2. Remaining
  BY DEF Remaining
<1>3. Bounds
  BY RecordsAssumption DEF Bounds
<1>4. Whole([i \in 0 .. 0 |-> 1])
  <2> DEFINE pos == [i \in 0 .. 0 |-> 1]
  <2>1. pos \in [0 .. 0 -> Nat \ {0}] /\ pos[0] = 1 /\ \A i \in 1 .. 0 : FALSE
    OBVIOUS
  <2>2. Len(<<>>) = 0
    OBVIOUS
  <2> HIDE DEF pos
  <2>3. Laid(<<>>, <<>>, 0, pos)
    BY <2>1 DEF Laid
  <2>4. 0 + 1 = 1
    OBVIOUS
  <2>5. Whole(pos)
    BY <2>1, <2>2, <2>3, <2>4 DEF Whole
  <2> QED
    BY <2>5 DEF pos
<1>5. \E pos : Whole(pos)
  BY <1>4, Zenon
<1> QED
  BY <1>1, <1>2, <1>3, <1>5 DEF RecordsInv

(* Beginning an append keeps the invariant: nothing is in the file yet. *)
LEMMA BeginWriteInv ==
    ASSUME RecordsInv, NEW r \in Writable, BeginWrite(r)
    PROVE  RecordsInv'
<1> USE DEF BeginWrite
<1> DEFINE s == serialize_record(r)
<1>0. TypeOK /\ Remaining /\ Bounds
  BY DEF RecordsInv
<1>1. /\ s \in Seq(Bytes) /\ Len(s) = Size(r) /\ Size(r) \in Nat \ {0} /\ r # NoRecord
  <2>1. r \in Record /\ r # NoRecord
    BY WritableType
  <2>2. ChecksumAt(r) \in Nat
    BY <2>1, BodyType
  <2>3. s \in Seq(Bytes) /\ Len(s) = Size(r) /\ Size(r) \in Nat /\ Size(r) > ChecksumAt(r)
    BY SerializedType
  <2> QED
    BY <2>1, <2>2, <2>3
<1>2. rec' = r /\ todo' = s /\ file' = file /\ written' = written /\ fragment' = fragment
      /\ damage' = damage /\ damage = 0
  OBVIOUS
<1> HIDE DEF s
<1>3. TypeOK'
  BY <1>0, <1>1, <1>2 DEF TypeOK
<1>4. Remaining'
  <2>1. \A i \in 1 .. Len(s) : (Size(r) - Len(s)) + i = i
    BY <1>1
  <2>2. Len(s) \in 1 .. Size(r)
    BY <1>1
  <2>3. s = serialize_record(r)
    BY DEF s
  <2>4. \A i \in 1 .. Len(s) : s[i] = serialize_record(r)[(Size(r) - Len(s)) + i]
    <3> SUFFICES ASSUME NEW i \in 1 .. Len(s)
                 PROVE  s[i] = serialize_record(r)[(Size(r) - Len(s)) + i]
      OBVIOUS
    <3>1. (Size(r) - Len(s)) + i = i
      BY <2>1
    <3>2. s[(Size(r) - Len(s)) + i] = s[i]
      BY <3>1
    <3> QED
      BY <3>2 DEF s
  <2> QED
    BY <1>1, <1>2, <2>2, <2>4 DEF Remaining
<1>5. Bounds'
  BY <1>0, <1>1, <1>2 DEF Bounds
<1>6. ASSUME NEW pos, Whole(pos) PROVE Whole(pos)'
  <2> DEFINE n == Len(written)
             p == pos[n]
             L == Len(file)
  <2>1. Laid(file, written, n, pos) /\ L + 1 = p
    BY <1>6 DEF Whole
  <2>2. L \in Nat
    BY <1>0 DEF TypeOK
  <2>3. Agrees(file, p, s)
    <3>1. \A i \in 1 .. Len(s) : ~(p + i - 1 <= L)
      BY <1>1, <2>1, <2>2
    <3> QED
      BY <3>1 DEF Agrees
  <2>4. L + 1 = p + (Size(r) - Len(s))
    <3> HIDE DEF L, p
    <3> QED
      BY <1>1, <2>1, <2>2
  <2> QED
    BY <1>1, <1>2, <2>1, <2>3, <2>4 DEF Whole, s
<1>7. ASSUME NEW pos, Split(pos) PROVE Split(pos)'
  BY <1>2, <1>7 DEF Split
<1>8. fragment = NoFragment => (\E pos : Whole(pos))'
  BY <1>2, <1>6 DEF RecordsInv
<1>9. fragment # NoFragment => (\E pos : Split(pos))'
  BY <1>2, <1>7 DEF RecordsInv
<1> QED
  BY <1>2, <1>3, <1>4, <1>5, <1>8, <1>9 DEF RecordsInv

(* What the file holds when the next byte of the running append has gone   *)
(* out.                                                                    *)
LEMMA NextByte ==
    ASSUME TypeOK, Remaining, Bounds, rec # NoRecord
    PROVE  /\ damage = 0 /\ Len(todo) \in 1 .. Size(rec) /\ Size(rec) \in Nat /\ rec \in Writable
           /\ Head(todo) \in Bytes
           /\ Append(file, Head(todo)) \in Seq(Bytes)
           /\ Len(Append(file, Head(todo))) = Len(file) + 1
           /\ \A pos : Whole(pos) =>
                /\ Laid(Append(file, Head(todo)), written, Len(written), pos)
                /\ Agrees(Append(file, Head(todo)), pos[Len(written)], serialize_record(rec))
           /\ \A pos : fragment # NoFragment /\ Split(pos) =>
                /\ Laid(Append(file, Head(todo)), written, fragment, pos)
                /\ pos[fragment] <= Len(Append(file, Head(todo)))
                /\ Append(file, Head(todo))[pos[fragment]] \in {1, 2}
<1> DEFINE b == Head(todo)
           m == Len(todo)
           s == serialize_record(rec)
           z == Size(rec)
           L == Len(file)
           n == Len(written)
<1>0. /\ file \in Seq(Bytes) /\ written \in Seq(Writable) /\ todo \in Seq(Bytes)
      /\ L \in Nat /\ n \in Nat /\ n \in 0 .. n
  BY DEF TypeOK
<1>1. rec \in Writable /\ z \in Nat \ {0} /\ Len(s) = z
  BY RecordStates
<1>2. s \in Seq(Bytes)
  BY <1>1, SerializedType
<1>3. /\ m \in 1 .. z
      /\ \A i \in 1 .. m : todo[i] = s[(z - m) + i]
  BY DEF Remaining
<1>4. damage = 0
  BY DEF Bounds
<1>5. b = todo[1] /\ b \in Bytes
  <2>1. todo # <<>>
    BY <1>0, <1>3
  <2> QED
    BY <1>0, <2>1
<1> HIDE DEF b, m, s, z
<1>6. b = s[(z - m) + 1]
  <2>1. 1 \in 1 .. m
    BY <1>3
  <2> QED
    BY <1>3, <1>5, <2>1
<1>7. /\ Append(file, b) \in Seq(Bytes) /\ Len(Append(file, b)) = L + 1
      /\ \A i \in 1 .. L : Append(file, b)[i] = file[i]
  BY <1>0, <1>5, AppendByte
<1>8. ASSUME NEW pos, Whole(pos)
      PROVE  /\ Laid(Append(file, b), written, n, pos)
             /\ Agrees(Append(file, b), pos[n], s)
  <2> DEFINE p == pos[n]
  <2>1. Laid(file, written, n, pos) /\ Agrees(file, p, s) /\ L + 1 = p + (z - m)
    BY <1>8 DEF Whole, s, z, m
  <2>2. p \in 1 .. L + 1
    BY <1>0, <2>1, LaidPositions
  <2>3. Laid(Append(file, b), written, n, pos)
    BY <1>0, <1>5, <2>1, AppendLaid
  <2> HIDE DEF p
  <2>4. (L + 2) - p = (z - m) + 1
    <3>1. z \in Int /\ m \in Int
      BY <1>1, <1>3
    <3> HIDE DEF L
    <3> QED
      BY <1>0, <2>1, <2>2, <3>1
  <2>5. b = s[(L + 2) - p]
    BY <1>6, <2>4
  <2>6. Agrees(Append(file, b), p, s)
    BY <1>0, <1>2, <1>5, <2>1, <2>2, <2>5, AppendAgrees
  <2> QED
    BY <2>3, <2>6 DEF p
<1>9. ASSUME NEW pos, fragment # NoFragment, Split(pos)
      PROVE  /\ Laid(Append(file, b), written, fragment, pos)
             /\ pos[fragment] <= Len(Append(file, b))
             /\ Append(file, b)[pos[fragment]] \in {1, 2}
  <2> DEFINE p == pos[fragment]
  <2>0. fragment \in 0 .. n /\ fragment \in 0 .. fragment
    BY <1>9 DEF Bounds
  <2>1. Laid(file, written, fragment, pos) /\ p <= L /\ file[p] \in {1, 2}
    BY <1>9 DEF Split
  <2>2. p \in 1 .. L + 1
    BY <1>0, <2>0, <2>1, LaidPositions
  <2>3. Laid(Append(file, b), written, fragment, pos)
    BY <1>0, <1>5, <2>0, <2>1, AppendLaid
  <2> HIDE DEF p, L
  <2>4. p \in 1 .. L /\ p <= L + 1
    BY <1>0, <2>1, <2>2
  <2> QED
    BY <1>7, <2>1, <2>3, <2>4 DEF p
<1> QED
  BY <1>1, <1>3, <1>4, <1>5, <1>7, <1>8, <1>9 DEF b, m, s, z

(* A byte of a record that is not its last keeps the invariant. *)
LEMMA WriteByteInv ==
    ASSUME RecordsInv, WriteByte
    PROVE  RecordsInv'
<1> DEFINE m == Len(todo)
           z == Size(rec)
           b == Head(todo)
<1>0. TypeOK /\ Remaining /\ Bounds /\ todo \in Seq(Bytes)
  BY DEF RecordsInv, TypeOK
<1>1. /\ rec # NoRecord /\ m > 1 /\ file' = Append(file, b) /\ todo' = Tail(todo)
      /\ written' = written /\ rec' = rec /\ fragment' = fragment /\ damage' = damage
  BY DEF WriteByte
<1>2. /\ damage = 0 /\ m \in 1 .. z /\ z \in Nat /\ rec \in Writable
      /\ file' \in Seq(Bytes) /\ Len(file') = Len(file) + 1
  BY <1>0, <1>1, NextByte
<1>3. /\ todo' \in Seq(Bytes) /\ Len(todo') = m - 1
      /\ \A i \in 1 .. m - 1 : todo'[i] = todo[i + 1]
  <2>1. todo # <<>>
    BY <1>0, <1>1
  <2> QED
    BY <1>0, <1>1, <2>1
<1>4. Len(file) \in Nat
  BY <1>0 DEF TypeOK
<1> HIDE DEF m, z, b
<1>5. TypeOK'
  BY <1>0, <1>1, <1>2, <1>3, <1>4 DEF TypeOK
<1>6. Remaining'
  <2>1. m - 1 \in 1 .. z
    BY <1>1, <1>2
  <2>2. ASSUME NEW i \in 1 .. m - 1
        PROVE  todo'[i] = serialize_record(rec)[(z - (m - 1)) + i]
    <3>1. i + 1 \in 1 .. m /\ (z - m) + (i + 1) = (z - (m - 1)) + i
      BY <1>2
    <3>2. todo[i + 1] = serialize_record(rec)[(z - m) + (i + 1)]
      BY <1>0, <1>1, <3>1 DEF Remaining, m, z
    <3> QED
      BY <1>3, <3>1, <3>2
  <2> QED
    BY <1>1, <1>3, <2>1, <2>2 DEF Remaining, z
<1>7. Bounds'
  BY <1>0, <1>1 DEF Bounds
<1>8. ASSUME NEW pos, Whole(pos) PROVE Whole(pos)'
  <2> DEFINE p == pos[Len(written)]
  <2>1. Laid(file', written, Len(written), pos) /\ Agrees(file', p, serialize_record(rec))
    BY <1>0, <1>1, <1>8, NextByte DEF b
  <2>2. Len(file) + 1 = p + (z - m)
    BY <1>1, <1>8 DEF Whole, z, m
  <2>3. p \in Nat
    <3>1. /\ file \in Seq(Bytes) /\ written \in Seq(Writable) /\ Laid(file, written, Len(written), pos)
          /\ Len(written) \in 0 .. Len(written)
      BY <1>0, <1>8 DEF TypeOK, Whole
    <3>2. p \in 1 .. Len(file) + 1
      BY <3>1, LaidPositions
    <3> QED
      BY <3>2
  <2> HIDE DEF p
  <2>4. Len(file') + 1 = p + (z - (m - 1))
    BY <1>2, <1>4, <2>2, <2>3
  <2> QED
    BY <1>1, <1>3, <2>1, <2>4 DEF Whole, p, z
<1>9. ASSUME NEW pos, fragment # NoFragment, Split(pos) PROVE Split(pos)'
  BY <1>0, <1>1, <1>9, NextByte DEF Split, b
<1>10. fragment = NoFragment => (\E pos : Whole(pos))'
  BY <1>1, <1>2, <1>8 DEF RecordsInv
<1>11. fragment # NoFragment => (\E pos : Split(pos))'
  BY <1>1, <1>2, <1>9 DEF RecordsInv
<1> QED
  BY <1>1, <1>2, <1>5, <1>6, <1>7, <1>10, <1>11 DEF RecordsInv

(* The last byte completes the record, which is one more in the log. *)
LEMMA WriteLastByteInv ==
    ASSUME RecordsInv, WriteLastByte
    PROVE  RecordsInv'
<1> DEFINE z == Size(rec)
           b == Head(todo)
           n == Len(written)
<1>0. /\ TypeOK /\ Remaining /\ Bounds
      /\ written \in Seq(Writable) /\ file \in Seq(Bytes) /\ n \in Nat /\ Len(file) \in Nat
  BY DEF RecordsInv, TypeOK
<1>1. /\ rec # NoRecord /\ Len(todo) = 1 /\ file' = Append(file, b) /\ todo' = <<>>
      /\ written' = Append(written, rec) /\ rec' = NoRecord
      /\ fragment' = fragment /\ damage' = damage
  BY DEF WriteLastByte
<1>2. /\ damage = 0 /\ z \in Nat /\ rec \in Writable
      /\ file' \in Seq(Bytes) /\ Len(file') = Len(file) + 1
  BY <1>0, <1>1, NextByte
<1>3. /\ written' \in Seq(Writable) /\ Len(written') = n + 1 /\ written'[n + 1] = rec
      /\ \A i \in 1 .. n : written'[i] = written[i]
  BY <1>0, <1>1, <1>2
<1> HIDE DEF z, b, n
<1>4. TypeOK'
  <2>1. <<>> \in Seq(Bytes)
    OBVIOUS
  <2>2. damage' \in 0 .. Len(file')
    BY <1>0, <1>1, <1>2
  <2> QED
    BY <1>0, <1>1, <1>2, <1>3, <2>1, <2>2 DEF TypeOK
<1>5. Remaining'
  BY <1>1 DEF Remaining
<1>6. Bounds'
  <2>1. fragment' \in {NoFragment} \cup 0 .. n + 1
    BY <1>0, <1>1 DEF Bounds, n
  <2>2. n + 1 <= MaxRecords
    BY <1>0, <1>1, RecordsAssumption DEF Bounds, n
  <2> QED
    BY <1>1, <1>2, <1>3, <2>1, <2>2 DEF Bounds
<1>7. ASSUME NEW pos, Whole(pos) PROVE \E f : Whole(f)'
  <2> DEFINE p == pos[n]
  <2>1. Laid(file', written, n, pos) /\ Agrees(file', p, serialize_record(rec))
    BY <1>0, <1>1, <1>7, NextByte DEF b, n
  <2>2. Len(file) + 1 = p + (z - 1)
    BY <1>1, <1>7 DEF Whole, z, n
  <2>3. p \in Nat /\ n \in 0 .. n
    <3>1. n \in 0 .. n /\ n \in 0 .. Len(written)
      BY <1>0 DEF n
    <3>2. p \in 1 .. Len(file') + 1
      BY <1>0, <1>2, <2>1, <3>1, LaidPositions
    <3> QED
      BY <3>1, <3>2
  <2> HIDE DEF p
  <2>4. Len(file') + 1 = p + z
    BY <1>0, <1>2, <2>2, <2>3
  <2>5. PICK f : Laid(file', written', n + 1, f) /\ f[n + 1] = pos[n] + Size(rec)
    <3>1. pos[n] + Size(rec) <= Len(file') + 1
      BY <1>0, <1>2, <2>3, <2>4 DEF p, z
    <3>2. Laid(file', written, n, pos) /\ Agrees(file', pos[n], serialize_record(rec))
      BY <2>1 DEF p
    <3>3. file' \in Seq(Bytes) /\ written \in Seq(Writable) /\ rec \in Writable
      BY <1>0, <1>2
    <3>4. n \in 0 .. Len(written)
      BY <1>0 DEF n
    <3>5. written'[n + 1] = rec /\ \A i \in 1 .. n : written'[i] = written[i]
      BY <1>3
    <3>6. FollowedBy(file', written, n, pos, rec, written')
      BY <3>1, <3>2, <3>3, <3>4, <3>5 DEF FollowedBy
    <3> QED
      BY <3>6, LaidMore
  <2>6. Whole(f)'
    <3>1. Laid(file', written', Len(written'), f)
      BY <1>3, <2>5
    <3>2. Len(file') + 1 = f[Len(written')]
      BY <1>3, <2>4, <2>5 DEF p, z
    <3> QED
      BY <1>1, <3>1, <3>2 DEF Whole
  <2> QED
    BY <2>6
<1>8. ASSUME NEW pos, fragment # NoFragment, Split(pos) PROVE Split(pos)'
  <2>1. /\ Laid(file', written, fragment, pos)
        /\ pos[fragment] <= Len(file') /\ file'[pos[fragment]] \in {1, 2}
    BY <1>0, <1>1, <1>8, NextByte DEF b
  <2>2. \A i \in 1 .. fragment : written'[i] = written[i]
    BY <1>0, <1>3, <1>8 DEF Bounds, n
  <2>3. Laid(file', written', fragment, pos)
    BY <2>1, <2>2 DEF Laid
  <2> QED
    BY <1>1, <2>1, <2>3 DEF Split
<1>9. fragment = NoFragment => (\E pos : Whole(pos))'
  BY <1>1, <1>2, <1>7 DEF RecordsInv
<1>10. fragment # NoFragment => (\E pos : Split(pos))'
  BY <1>1, <1>2, <1>8 DEF RecordsInv
<1> QED
  BY <1>1, <1>2, <1>4, <1>5, <1>6, <1>9, <1>10 DEF RecordsInv

(* recover_records after a crash keeps the invariant: it cuts the file     *)
(* where the complete records end.                                         *)
LEMMA KillAndRecoverInv ==
    ASSUME RecordsInv, KillAndRecover
    PROVE  RecordsInv'
<1> DEFINE n == Len(written)
           L == Len(file)
<1>0. /\ TypeOK /\ Remaining /\ Bounds
      /\ written \in Seq(Writable) /\ file \in Seq(Bytes) /\ n \in Nat /\ L \in Nat
  BY DEF RecordsInv, TypeOK
<1>1. /\ rec # NoRecord /\ fragment = NoFragment /\ file' = Recovered(scan_records(file))
      /\ rec' = NoRecord /\ todo' = <<>>
      /\ written' = written /\ fragment' = fragment /\ damage' = damage
  BY DEF KillAndRecover
<1>2. damage = 0
  BY <1>0, <1>1 DEF Bounds
<1>3. PICK pos : Whole(pos)
  BY <1>1, <1>2 DEF RecordsInv
<1> DEFINE p == pos[n]
<1>4. Laid(file, written, n, pos) /\ n \in 0 .. n /\ n \in 0 .. Len(written)
  BY <1>0, <1>3 DEF Whole
<1>5. p \in 1 .. L + 1
  BY <1>0, <1>4, LaidPositions
<1>6. file' = SubSeq(file, 1, p - 1)
  <2>1. scan_records(file).failing = p /\ scan_records(file).status \in {"Truncated", "EndOfFile"}
    BY <1>0, <1>3, ScanWhole
  <2> QED
    BY <1>1, <2>1 DEF Recovered
<1> HIDE DEF p, L, n
<1>7. /\ file' \in Seq(Bytes) /\ Len(file') = p - 1
      /\ \A i \in 1 .. p - 1 : file'[i] = file[i]
  <2>1. p - 1 \in 0 .. L
    BY <1>0, <1>5
  <2> QED
    BY <1>0, <1>6, <2>1 DEF L
<1>8. TypeOK'
  <2>1. <<>> \in Seq(Bytes)
    OBVIOUS
  <2>2. 0 \in 0 .. Len(file')
    BY <1>5, <1>7
  <2> QED
    BY <1>0, <1>1, <1>2, <1>7, <2>1, <2>2 DEF TypeOK
<1>9. Remaining'
  BY <1>1 DEF Remaining
<1>10. Bounds'
  BY <1>0, <1>1, RecordsAssumption DEF Bounds, n
<1>11. Whole(pos)'
  <2>1. p <= Len(file') + 1 /\ Len(file') + 1 = p
    BY <1>0, <1>5, <1>7
  <2>2. Laid(file', written, n, pos)
    BY <1>0, <1>4, <1>7, <2>1, LaidElsewhere DEF p
  <2> QED
    BY <1>1, <2>1, <2>2 DEF Whole, p, n
<1>12. (\E f : Whole(f))'
  BY <1>11
<1> QED
  BY <1>1, <1>2, <1>7, <1>8, <1>9, <1>10, <1>12 DEF RecordsInv

(* A failed append keeps the invariant: at least the type of the record is *)
(* in the file behind the complete ones.                                   *)
LEMMA LeaveFragmentInv ==
    ASSUME RecordsInv, LeaveFragment
    PROVE  RecordsInv'
<1> DEFINE n == Len(written)
           L == Len(file)
           m == Len(todo)
           z == Size(rec)
<1>0. /\ TypeOK /\ Remaining /\ Bounds
      /\ written \in Seq(Writable) /\ file \in Seq(Bytes) /\ n \in Nat /\ L \in Nat /\ m \in Nat
  BY DEF RecordsInv, TypeOK
<1>1. /\ rec # NoRecord /\ fragment = NoFragment /\ m < Len(serialize_record(rec))
      /\ fragment' = n /\ rec' = NoRecord /\ todo' = <<>>
      /\ file' = file /\ written' = written /\ damage' = damage
  BY DEF LeaveFragment
<1>2. damage = 0
  BY <1>0, <1>1 DEF Bounds
<1>3. PICK pos : Whole(pos)
  BY <1>1, <1>2 DEF RecordsInv
<1> DEFINE p == pos[n]
<1>4. rec \in Writable /\ z \in Nat /\ m < z
  BY <1>0, <1>1, RecordStates
<1>5. /\ Laid(file, written, n, pos) /\ n \in 0 .. n /\ n \in 0 .. Len(written)
      /\ Agrees(file, p, serialize_record(rec)) /\ L + 1 = p + (z - m)
  BY <1>0, <1>1, <1>3 DEF Whole
<1>6. p \in 1 .. L + 1
  BY <1>0, <1>5, LaidPositions
<1> HIDE DEF p, L, n, m, z
<1>7. p \in Nat \ {0} /\ p <= L
  BY <1>0, <1>4, <1>5, <1>6
<1>8. file[p] \in {1, 2}
  <2>1. file[p] = TypeCode[rec.type]
    BY <1>0, <1>4, <1>5, <1>7, FieldsAgree DEF L
  <2>2. rec.type \in RecordTypes
    BY <1>4, WritableType DEF Record
  <2> QED
    BY <2>1, <2>2, TypeCodes
<1>9. Split(pos)'
  BY <1>1, <1>5, <1>7, <1>8 DEF Split, p, L
<1>10. n \in 0 .. MaxRecords /\ n < MaxRecords /\ fragment' # NoFragment
  BY <1>0, <1>1, RecordsAssumption DEF Bounds, n, NoFragment
<1>11. TypeOK'
  <2>1. <<>> \in Seq(Bytes)
    OBVIOUS
  <2> QED
    BY <1>0, <1>1, <1>10, <2>1 DEF TypeOK
<1>12. Remaining'
  BY <1>1 DEF Remaining
<1>13. Bounds'
  <2>1. n \in 0 .. n /\ n <= MaxRecords
    BY <1>0, <1>10
  <2> QED
    BY <1>1, <1>2, <2>1 DEF Bounds, n
<1>14. (\E f : Split(f))'
  BY <1>9
<1> QED
  BY <1>1, <1>2, <1>10, <1>11, <1>12, <1>13, <1>14 DEF RecordsInv

(* Altering one byte of a whole file leaves one that would be whole but    *)
(* for it.                                                                 *)
LEMMA DamageInv ==
    ASSUME RecordsInv, NEW i \in 1 .. Len(file), NEW byte \in Bytes, Damage(i, byte)
    PROVE  RecordsInv'
<1> DEFINE n == Len(written)
           L == Len(file)
<1>0. /\ TypeOK /\ Remaining /\ Bounds
      /\ written \in Seq(Writable) /\ file \in Seq(Bytes) /\ n \in Nat /\ L \in Nat
  BY DEF RecordsInv, TypeOK
<1>1. /\ rec = NoRecord /\ fragment = NoFragment /\ damage = 0 /\ byte # file[i]
      /\ file' = [file EXCEPT ![i] = byte] /\ damage' = i
      /\ written' = written /\ rec' = rec /\ todo' = todo /\ fragment' = fragment
  BY DEF Damage
<1>2. PICK pos : Whole(pos)
  BY <1>1 DEF RecordsInv
<1>3. /\ file' \in Seq(Bytes) /\ Len(file') = L /\ file'[i] = byte
      /\ \A j \in 1 .. L : j # i => file'[j] = file[j]
  BY <1>0, <1>1
<1>4. i \in 1 .. L
  OBVIOUS
<1>5. L = Len(file)
  OBVIOUS
<1> HIDE DEF L
<1>6. TypeOK'
  BY <1>0, <1>1, <1>3, <1>4 DEF TypeOK
<1>7. Remaining'
  BY <1>0, <1>1 DEF Remaining
<1>8. Bounds'
  BY <1>0, <1>1 DEF Bounds
<1>9. PICK whole : whole = file
  OBVIOUS
<1>10. (Altered(whole, pos))'
  <2>1. Laid(whole, written, n, pos) /\ Len(whole) + 1 = pos[n] /\ Len(whole) = L
    BY <1>1, <1>2, <1>5, <1>9 DEF Whole
  <2>2. file'[i] # whole[i] /\ \A j \in 1 .. L : j # i => file'[j] = whole[j]
    BY <1>1, <1>3, <1>9
  <2> QED
    BY <1>1, <1>3, <1>4, <2>1, <2>2 DEF Altered
<1>11. (\E w \in Seq(Bytes) : \E f : Altered(w, f))'
  <2>1. whole \in Seq(Bytes)
    BY <1>0, <1>9
  <2> QED
    BY <1>10, <2>1
<1>12. damage' # 0
  BY <1>1, <1>4
<1> QED
  BY <1>1, <1>6, <1>7, <1>8, <1>11, <1>12 DEF RecordsInv

(* The invariant speaks of the variables only. *)
LEMMA StutterInv ==
    ASSUME RecordsInv, UNCHANGED vars
    PROVE  RecordsInv'
BY DEF vars, RecordsInv, TypeOK, Remaining, Bounds, Whole, Split, Altered

(* RecordsInv holds in every state: for every size of the alphabet, width  *)
(* of the fields, limit on sizes and number of records, after any sequence *)
(* of appends, crashes, failed writes and alterations of a byte.           *)
THEOREM RecordsInvariant == Spec => []RecordsInv
<1>1. Init => RecordsInv
  BY InitInv
<1>2. RecordsInv /\ [Next]_vars => RecordsInv'
  <2> SUFFICES ASSUME RecordsInv, [Next]_vars PROVE RecordsInv'
    OBVIOUS
  <2>1. ASSUME NEW r \in Writable, BeginWrite(r) PROVE RecordsInv'
    BY <2>1, BeginWriteInv
  <2>2. CASE WriteByte
    BY <2>2, WriteByteInv
  <2>3. CASE WriteLastByte
    BY <2>3, WriteLastByteInv
  <2>4. CASE KillAndRecover
    BY <2>4, KillAndRecoverInv
  <2>5. CASE LeaveFragment
    BY <2>5, LeaveFragmentInv
  <2>6. ASSUME NEW i \in 1 .. Len(file), NEW byte \in Bytes, Damage(i, byte) PROVE RecordsInv'
    BY <2>6, DamageInv
  <2>7. CASE UNCHANGED vars
    BY <2>7, StutterInv
  <2> QED
    BY <2>1, <2>2, <2>3, <2>4, <2>5, <2>6, <2>7 DEF Next
<1> QED
  BY <1>1, <1>2, PTL DEF Spec

(* Type correctness of the data file and of the running append. *)
THEOREM TypesHold == Spec => []TypeOK
<1>1. RecordsInv => TypeOK
  BY DEF RecordsInv
<1> QED
  BY <1>1, RecordsInvariant, PTL

(* The scan of a file that an append left at any byte returns exactly the  *)
(* records written completely, stops where the unfinished one starts and   *)
(* reports Truncated just when there is one: what recover_records needs to *)
(* cut at the right place.                                                 *)
THEOREM CompleteRecordsAreFound == Spec => []ScanFindsCompleteRecords
<1>1. RecordsInv => ScanFindsCompleteRecords
  <2> SUFFICES ASSUME RecordsInv, fragment = NoFragment, damage = 0
               PROVE  FindsExactly(scan_records(file))
    BY DEF ScanFindsCompleteRecords
  <2>1. PICK pos : Whole(pos)
    BY DEF RecordsInv
  <2> QED
    BY <2>1, ScanWhole DEF RecordsInv
<1> QED
  BY <1>1, RecordsInvariant, PTL

(* A fragment that a failed append left behind, with whatever later calls  *)
(* wrote behind it, hides none of the records in front of it, and the scan *)
(* stops there, if it does, with one of the failures Database foresees.    *)
THEOREM FragmentsHideNothing == Spec => []RecordsBeforeFragmentAreFound
<1>1. RecordsInv => RecordsBeforeFragmentAreFound
  <2> SUFFICES ASSUME RecordsInv, fragment # NoFragment
               PROVE  FindsUpToFragment(scan_records(file))
    BY DEF RecordsBeforeFragmentAreFound
  <2>1. fragment \in 0 .. Len(written) /\ damage = 0
    BY DEF RecordsInv, Bounds
  <2>2. PICK pos : Split(pos)
    BY <2>1 DEF RecordsInv
  <2> QED
    BY <2>1, <2>2, ScanSplit DEF RecordsInv
<1> QED
  BY <1>1, RecordsInvariant, PTL

-----------------------------------------------------------------------------
(* One altered byte. *)

(* The streams are of one length and differ in one byte. *)
DifferAt(stream, whole, d) ==
    /\ Len(stream) = Len(whole)
    /\ d \in 1 .. Len(whole)
    /\ stream[d] # whole[d]
    /\ \A i \in 1 .. Len(whole) : i # d => stream[i] = whole[i]

(* An altered byte outside a string leaves the string. *)
LEMMA AgreesElsewhere ==
    ASSUME NEW stream \in Seq(Bytes), NEW whole \in Seq(Bytes), NEW d, DifferAt(stream, whole, d),
           NEW p \in Nat \ {0}, NEW s \in Seq(Bytes), Agrees(whole, p, s),
           d \notin p .. p + Len(s) - 1
    PROVE  Agrees(stream, p, s)
<1> DEFINE L == Len(whole)
           n == Len(s)
<1>0. L \in Nat /\ n \in Nat /\ n = Len(s) /\ L = Len(whole) /\ d \notin p .. p + n - 1
  OBVIOUS
<1>1. d \in 1 .. L /\ Len(stream) = L /\ \A i \in 1 .. L : i # d => stream[i] = whole[i]
  BY DEF DifferAt
<1> HIDE DEF L, n
<1>2. ASSUME NEW i \in 1 .. n, p + i - 1 <= L PROVE stream[p + i - 1] = s[i]
  <2>1. p + i - 1 \in 1 .. L /\ p + i - 1 \in p .. p + n - 1
    BY <1>0, <1>2
  <2>2. p + i - 1 # d
    BY <1>0, <2>1
  <2> QED
    BY <1>0, <1>1, <1>2, <2>1, <2>2 DEF Agrees
<1> QED
  BY <1>0, <1>1, <1>2 DEF Agrees

(* A number with an altered byte reads as another number. *)
LEMMA AlteredNumber ==
    ASSUME NEW stream \in Seq(Bytes), NEW whole \in Seq(Bytes), NEW d, DifferAt(stream, whole, d),
           NEW p \in Nat \ {0}, NEW w \in Nat \ {0}, NEW n \in 0 .. (Power(w) - 1),
           Agrees(whole, p, write_uint(n, w)), p + w <= Len(whole) + 1, d \in p .. p + w - 1
    PROVE  Number(SubSeq(stream, p, p + w - 1)) # n
<1> DEFINE s == write_uint(n, w)
           t == SubSeq(stream, p, p + w - 1)
           L == Len(whole)
           j == (d - p) + 1
<1>0. n \in Nat /\ w \in Nat
  BY PowerType
<1>1. s \in Seq(Bytes) /\ Len(s) = w
  BY <1>0, WriteUint
<1>2. Number(s) = n
  BY <1>0, NumberReadBack
<1>3. /\ Len(stream) = L /\ L \in Nat /\ d \in 1 .. L /\ stream[d] # whole[d]
      /\ \A i \in 1 .. L : i # d => stream[i] = whole[i]
  BY DEF DifferAt
<1>4. p + w <= L + 1 /\ d \in p .. p + w - 1
  OBVIOUS
<1>5. t \in Seq(Bytes) /\ Len(t) = w /\ \A i \in 1 .. w : t[i] = stream[p + i - 1]
  BY <1>3, <1>4
<1>6. Agrees(whole, p, s)
  OBVIOUS
<1>7. L = Len(whole)
  OBVIOUS
<1> HIDE DEF s, t, L
<1>8. \A i \in 1 .. w : p + i - 1 \in 1 .. L
  BY <1>0, <1>3, <1>4
<1>9. \A i \in 1 .. w : whole[p + i - 1] = s[i]
  BY <1>1, <1>6, <1>7, <1>8 DEF Agrees
<1>10. j \in 1 .. w /\ p + j - 1 = d /\ \A i \in 1 .. w : i # j => p + i - 1 # d
  BY <1>0, <1>3, <1>4
<1> HIDE DEF j
<1>11. t[j] # s[j]
  BY <1>3, <1>5, <1>9, <1>10
<1>12. \A i \in 1 .. w : i # j => t[i] = s[i]
  BY <1>3, <1>5, <1>8, <1>9, <1>10
<1>13. Number(t) # Number(s)
  BY <1>1, <1>5, <1>10, <1>11, <1>12, NumberDiffers
<1> QED
  BY <1>2, <1>13 DEF t

(* Two strings that stand one after the other stand as one. *)
LEMMA ConcatAgrees ==
    ASSUME NEW stream, NEW at \in Nat \ {0}, NEW s \in Seq(Bytes), NEW t \in Seq(Bytes),
           NEW m \in Nat, m = Len(s), Agrees(stream, at, s), Agrees(stream, at + m, t)
    PROVE  Agrees(stream, at, s \o t)
<1> DEFINE st == s \o t
           n == Len(t)
<1>1. /\ Len(st) = m + n /\ n \in Nat /\ n = Len(t)
      /\ \A i \in 1 .. m : st[i] = s[i]
      /\ \A i \in 1 .. n : st[m + i] = t[i]
  OBVIOUS
<1> HIDE DEF st, n
<1>2. ASSUME NEW i \in 1 .. m + n, at + i - 1 <= Len(stream) PROVE stream[at + i - 1] = st[i]
  <2>1. CASE i <= m
    <3>1. i \in 1 .. m
      BY <2>1
    <3> QED
      BY <1>1, <1>2, <3>1 DEF Agrees
  <2>2. CASE ~(i <= m)
    <3> DEFINE k == i - m
    <3>1. k \in 1 .. n /\ (at + m) + k - 1 = at + i - 1 /\ m + k = i
      BY <1>1, <2>2
    <3> HIDE DEF k
    <3>2. stream[(at + m) + k - 1] = t[k]
      BY <1>1, <1>2, <3>1 DEF Agrees
    <3> QED
      BY <1>1, <3>1, <3>2
  <2> QED
    BY <2>1, <2>2
<1>3. Agrees(stream, at, st)
  BY <1>1, <1>2 DEF Agrees
<1> QED
  BY <1>3 DEF st

(* What is cut out of a stream stands there. *)
LEMMA SubAgrees ==
    ASSUME NEW stream \in Seq(Bytes), NEW p \in Nat \ {0}, NEW m \in Nat, p + m <= Len(stream) + 1
    PROVE  /\ SubSeq(stream, p, p + m - 1) \in Seq(Bytes)
           /\ Len(SubSeq(stream, p, p + m - 1)) = m
           /\ Agrees(stream, p, SubSeq(stream, p, p + m - 1))
<1> DEFINE s == SubSeq(stream, p, p + m - 1)
<1>1. s \in Seq(Bytes) /\ Len(s) = m /\ \A i \in 1 .. m : s[i] = stream[p + i - 1]
  BY SubString
<1> HIDE DEF s
<1>2. Agrees(stream, p, s)
  BY <1>1 DEF Agrees
<1> QED
  BY <1>1, <1>2 DEF s

(* A string whose length is intact is read, altered or not. *)
LEMMA ReadAlteredString ==
    ASSUME NEW stream \in Seq(Bytes), NEW p \in Nat \ {0}, NEW max \in 0 .. (Power(LengthBytes) - 1),
           NEW m \in 0 .. max, Agrees(stream, p, write_uint(m, LengthBytes)),
           p + LengthBytes + m <= Len(stream) + 1
    PROVE  LET x == read_string(stream, p, max) IN
           /\ x.status = "Success" /\ x.next = p + LengthBytes + m
           /\ x.value \in Seq(Bytes) /\ Len(x.value) = m
           /\ Agrees(stream, p, write_string(x.value))
<1> DEFINE x == read_string(stream, p, max)
           q == p + LengthBytes
           l == write_uint(m, LengthBytes)
           L == Len(stream)
           P == Power(LengthBytes)
<1>0. LengthBytes \in Nat \ {0} /\ LengthBytes \in Nat
  BY Constants, Zenon
<1>1. P \in Nat
  BY <1>0, PowerType
<1>2. m \in 0 .. (P - 1) /\ m \in Nat /\ m <= max /\ max \in Nat
  <2> HIDE DEF P
  <2> QED
    BY <1>1 DEF P
<1>3. l \in Seq(Bytes) /\ Len(l) = LengthBytes
  BY <1>0, <1>2, WriteUint
<1>4. Number(l) = m
  <2> HIDE DEF P
  <2> QED
    BY <1>0, <1>2, NumberReadBack DEF P
<1>5. q \in Nat \ {0} /\ q + m <= L + 1 /\ L \in Nat /\ p + LengthBytes - 1 = q - 1
  BY <1>0, <1>2
<1>6. Agrees(stream, p, l)
  OBVIOUS
<1>7. L = Len(stream) /\ q = p + LengthBytes
  OBVIOUS
<1> HIDE DEF l, L, q, P
<1>8. SubSeq(stream, p, q - 1) = l
  <2>1. p + Len(l) - 1 <= Len(stream)
    BY <1>0, <1>2, <1>3, <1>5, <1>7
  <2>2. SubSeq(stream, p, p + Len(l) - 1) = l
    BY <1>3, <1>6, <2>1, AgreesSub
  <2> QED
    BY <1>3, <1>5, <2>2
<1>9. x.status = "Success"
  <2>1. q <= L + 1 /\ m <= max /\ q + m <= L + 1
    BY <1>2, <1>5
  <2>2. Number(SubSeq(stream, p, q - 1)) = m
    BY <1>4, <1>8
  <2> QED
    BY <1>2, <1>7, <2>1, <2>2, ReadStringKinds DEF q
<1>10. x = Result("Success", SubSeq(stream, q, q + m - 1), q + m)
  <2>1. Number(SubSeq(stream, p, q - 1)) = m
    BY <1>4, <1>8
  <2> QED
    BY <1>2, <1>7, <1>9, <2>1, ReadStringKinds DEF q
<1> DEFINE s == SubSeq(stream, q, q + m - 1)
<1>11. s \in Seq(Bytes) /\ Len(s) = m /\ Agrees(stream, q, s)
  BY <1>2, <1>5, <1>7, SubAgrees
<1> DEFINE e == q + m
<1>12. x = Result("Success", s, e)
  BY <1>10
<1> HIDE DEF s, x, e
<1>15. x.value = s /\ x.next = q + m
  <2>1. x.value = s /\ x.next = e
    BY <1>12 DEF Result
  <2> QED
    BY <2>1 DEF e
<1>13. Agrees(stream, p, l \o s)
  BY <1>0, <1>3, <1>6, <1>7, <1>11, ConcatAgrees
<1>14. write_string(s) = l \o s
  BY <1>11 DEF write_string, l
<1> QED
  BY <1>7, <1>9, <1>11, <1>13, <1>14, <1>15 DEF x

(* Whether the byte at that offset in a record belongs to a length. *)
LengthByte(r, o) ==
    \/ o \in 1 .. LengthBytes
    \/ (o - LengthBytes) - Len(r.key) \in 1 .. LengthBytes

(* Where a record stands, the bytes covered by its checksum stand. *)
LEMMA WholeBody ==
    ASSUME NEW whole \in Seq(Bytes), NEW at \in Nat \ {0}, NEW r \in Writable,
           Agrees(whole, at, serialize_record(r))
    PROVE  Agrees(whole, at, Body(r))
<1> DEFINE b == Body(r)
           c == write_uint(crc32c(Body(r)), ChecksumBytes)
<1>1. b \in Seq(Bytes)
  BY WritableType, BodyType
<1>2. c \in Seq(Bytes)
  <2>1. crc32c(Body(r)) \in Nat /\ ChecksumBytes \in Nat
    BY Constants, SerializedType, PowerType
  <2> QED
    BY <2>1, WriteUint
<1>3. Agrees(whole, at, b \o c)
  BY DEF serialize_record
<1> HIDE DEF b, c
<1>4. Agrees(whole, at, b)
  BY <1>1, <1>2, <1>3, AgreesConcat
<1> QED
  BY <1>4 DEF b

(* Where a string stands, its length stands. *)
LEMMA WholeLengths ==
    ASSUME NEW whole \in Seq(Bytes), NEW p \in Nat \ {0}, NEW s \in Seq(Bytes),
           Agrees(whole, p, write_string(s))
    PROVE  Agrees(whole, p, write_uint(Len(s), LengthBytes))
<1> DEFINE l == write_uint(Len(s), LengthBytes)
<1>1. l \in Seq(Bytes)
  <2>1. LengthBytes \in Nat
    BY Constants
  <2> QED
    BY <2>1, WriteUint
<1>2. Agrees(whole, p, l \o s)
  BY DEF write_string
<1> HIDE DEF l
<1>3. Agrees(whole, p, l)
  BY <1>1, <1>2, AgreesConcat
<1> QED
  BY <1>3 DEF l

(* The positions of the fields, as numbers. *)
LEMMA FieldPositions ==
    ASSUME NEW r \in Writable
    PROVE  /\ LengthBytes \in Nat \ {0} /\ ChecksumBytes \in Nat \ {0}
           /\ Len(r.key) \in Nat /\ Len(r.value) \in Nat
           /\ ValueAt(r) = 1 + LengthBytes + Len(r.key)
           /\ ChecksumAt(r) = ValueAt(r) + LengthBytes + Len(r.value)
           /\ Size(r) = ChecksumAt(r) + ChecksumBytes
           /\ ValueAt(r) \in Nat \ {0} /\ ChecksumAt(r) \in Nat \ {0} /\ Size(r) \in Nat \ {0}
           /\ Len(r.key) \in 0 .. MAX_KEY_SIZE /\ Len(r.value) \in 0 .. MAX_VALUE_SIZE
           /\ Len(r.key) \in 0 .. (Power(LengthBytes) - 1)
           /\ Len(r.value) \in 0 .. (Power(LengthBytes) - 1)
<1> DEFINE k == Len(r.key)
           v == Len(r.value)
           P == Power(LengthBytes)
<1>1. LengthBytes \in Nat \ {0} /\ ChecksumBytes \in Nat \ {0} /\ LengthBytes \in Nat
  BY Constants, Zenon
<1>2. r \in Record /\ k <= MAX_KEY_SIZE /\ v <= MAX_VALUE_SIZE
  BY WritableType
<1>3. k \in Nat /\ v \in Nat /\ ValueAt(r) \in Nat \ {0} /\ ChecksumAt(r) \in Nat \ {0}
  BY <1>2, BodyType
<1>4. P \in Nat
  BY <1>1, PowerType
<1>5. MAX_KEY_SIZE \in 0 .. (P - 1) /\ MAX_VALUE_SIZE \in 0 .. (P - 1)
  BY Constants, Zenon
<1>6. /\ ValueAt(r) = 1 + LengthBytes + k
      /\ ChecksumAt(r) = ValueAt(r) + LengthBytes + v
      /\ Size(r) = ChecksumAt(r) + ChecksumBytes
  BY DEF ValueAt, ChecksumAt, Size
<1> HIDE DEF k, v, P
<1>7. Size(r) \in Nat \ {0}
  BY <1>1, <1>3, <1>6
<1>8. /\ k \in 0 .. MAX_KEY_SIZE /\ v \in 0 .. MAX_VALUE_SIZE
      /\ k \in 0 .. (P - 1) /\ v \in 0 .. (P - 1)
  BY <1>2, <1>3, <1>4, <1>5
<1> QED
  BY <1>1, <1>3, <1>6, <1>7, <1>8 DEF k, v, P

(* A record that is read over an altered length has another length than    *)
(* the one written.                                                        *)
LEMMA AlteredLength ==
    ASSUME NEW stream \in Seq(Bytes), NEW whole \in Seq(Bytes), NEW d, DifferAt(stream, whole, d),
           NEW at \in Nat \ {0}, NEW r \in Writable, Agrees(whole, at, serialize_record(r)),
           at + Size(r) <= Len(whole) + 1, LengthByte(r, d - at),
           NEW s \in Record, LengthsOf(stream, at, s)
    PROVE  ~SameLengths(s, r)
<1> DEFINE kl == Len(r.key)
           vl == Len(r.value)
           va == ValueAt(r)
           ca == ChecksumAt(r)
           L == Len(whole)
<1>0. /\ LengthBytes \in Nat \ {0} /\ ChecksumBytes \in Nat \ {0}
      /\ kl \in Nat /\ vl \in Nat /\ va \in Nat \ {0} /\ ca \in Nat \ {0}
      /\ va = 1 + LengthBytes + kl /\ ca = va + LengthBytes + vl
      /\ Size(r) = ca + ChecksumBytes
      /\ kl \in 0 .. (Power(LengthBytes) - 1) /\ vl \in 0 .. (Power(LengthBytes) - 1)
  BY FieldPositions
<1>1. L \in Nat /\ d \in Nat
  BY DEF DifferAt
<1>2. r.key \in Seq(Bytes) /\ r.value \in Seq(Bytes)
  BY WritableType DEF Record
<1>3. /\ Agrees(whole, at + 1, write_string(r.key))
      /\ Agrees(whole, at + va, write_string(r.value))
  BY FieldsAgree
<1>4. at + Size(r) <= L + 1 /\ LengthByte(r, d - at)
  OBVIOUS
<1> HIDE DEF kl, vl, va, ca, L
<1>5. CASE d - at \in 1 .. LengthBytes
  <2> DEFINE p == at + 1
  <2>1. p \in Nat \ {0} /\ p + LengthBytes <= L + 1 /\ d \in p .. p + LengthBytes - 1
    BY <1>0, <1>1, <1>4, <1>5
  <2> HIDE DEF p
  <2>2. Agrees(whole, p, write_uint(kl, LengthBytes))
    BY <1>2, <1>3, <2>1, WholeLengths DEF p, kl
  <2>3. Number(SubSeq(stream, p, p + LengthBytes - 1)) # kl
    BY <1>0, <2>1, <2>2, AlteredNumber DEF L
  <2>4. Len(s.key) = Number(SubSeq(stream, p, p + LengthBytes - 1))
    BY DEF LengthsOf, p
  <2> QED
    BY <2>3, <2>4 DEF SameLengths, kl
<1>6. CASE (d - at - LengthBytes) - kl \in 1 .. LengthBytes /\ Len(s.key) = kl
  <2> DEFINE p == at + va
  <2>1. p \in Nat \ {0} /\ p + LengthBytes <= L + 1 /\ d \in p .. p + LengthBytes - 1
    BY <1>0, <1>1, <1>4, <1>6
  <2> HIDE DEF p
  <2>2. Agrees(whole, p, write_uint(vl, LengthBytes))
    BY <1>2, <1>3, <2>1, WholeLengths DEF p, vl
  <2>3. Number(SubSeq(stream, p, p + LengthBytes - 1)) # vl
    BY <1>0, <2>1, <2>2, AlteredNumber DEF L
  <2>4. ValueAt(s) = va
    BY <1>0, <1>6 DEF ValueAt
  <2>5. Len(s.value) = Number(SubSeq(stream, p, p + LengthBytes - 1))
    BY <2>4 DEF LengthsOf, p
  <2> QED
    BY <2>3, <2>5 DEF SameLengths, vl
<1>7. CASE Len(s.key) # kl
  BY <1>7 DEF SameLengths, kl
<1> QED
  BY <1>4, <1>5, <1>6, <1>7 DEF LengthByte, kl

(* Where the fields of a record stand, the bytes stand that its checksum   *)
(* covers.                                                                 *)
LEMMA BodyAgrees ==
    ASSUME NEW stream, NEW at \in Nat \ {0}, NEW r \in Record,
           stream[at] = TypeCode[r.type],
           Agrees(stream, at + 1, write_string(r.key)),
           Agrees(stream, at + ValueAt(r), write_string(r.value))
    PROVE  Agrees(stream, at, Body(r))
<1> DEFINE t == <<TypeCode[r.type]>>
           k == write_string(r.key)
           v == write_string(r.value)
           tk == t \o k
           kl == Len(r.key)
<1>1. r.type \in RecordTypes /\ r.key \in Seq(Bytes) /\ r.value \in Seq(Bytes)
  BY DEF Record
<1>2. t \in Seq(Bytes) /\ Len(t) = 1 /\ t[1] = TypeCode[r.type]
  <2>1. TypeCode[r.type] \in Bytes
    BY <1>1, TypeCodes
  <2> QED
    BY <2>1
<1>3. k \in Seq(Bytes) /\ v \in Seq(Bytes) /\ Len(k) = LengthBytes + kl
  BY <1>1, WriteString
<1>4. LengthBytes \in Nat /\ kl \in Nat /\ ValueAt(r) \in Nat
  BY <1>1, BodyType, Constants
<1>5. ValueAt(r) = 1 + LengthBytes + kl
  BY DEF ValueAt
<1>6. Agrees(stream, at + 1, k) /\ Agrees(stream, at + ValueAt(r), v) /\ stream[at] = TypeCode[r.type]
  OBVIOUS
<1>7. Body(r) = tk \o v
  BY DEF Body
<1> HIDE DEF t, k, v, kl
<1>8. Agrees(stream, at, t)
  BY <1>2, <1>6 DEF Agrees
<1>9. Agrees(stream, at, tk)
  <2>1. 1 \in Nat /\ 1 = Len(t)
    BY <1>2
  <2> QED
    BY <1>2, <1>3, <1>6, <1>8, <2>1, ConcatAgrees
<1>10. tk \in Seq(Bytes) /\ Len(tk) = ValueAt(r)
  <2>1. t \in Seq(Bytes) /\ k \in Seq(Bytes)
    BY <1>2, <1>3, Zenon
  <2>2. tk \in Seq(Bytes) /\ Len(tk) = Len(t) + Len(k)
    BY <2>1
  <2>3. 1 + (LengthBytes + kl) = ValueAt(r)
    BY <1>4, <1>5
  <2>4. Len(tk) = 1 + (LengthBytes + kl)
    BY <1>2, <1>3, <2>2, Zenon
  <2> QED
    BY <2>2, <2>3, <2>4, Zenon
<1> HIDE DEF tk
<1> DEFINE va == ValueAt(r)
<1>11. va \in Nat /\ va = Len(tk) /\ Agrees(stream, at + va, v)
  BY <1>4, <1>6, <1>10
<1> HIDE DEF va
<1>12. Agrees(stream, at, tk \o v)
  BY <1>3, <1>9, <1>10, <1>11, ConcatAgrees
<1> QED
  BY <1>7, <1>12

(* An altered byte that belongs to no length makes the read fail. *)
LEMMA ReadAltered ==
    ASSUME NEW stream \in Seq(Bytes), NEW whole \in Seq(Bytes), NEW d, DifferAt(stream, whole, d),
           NEW at \in Nat \ {0}, NEW r \in Writable, Agrees(whole, at, serialize_record(r)),
           at + Size(r) <= Len(whole) + 1, d \in at .. at + Size(r) - 1, ~LengthByte(r, d - at)
    PROVE  read_record(stream, at).status \in {"InvalidType", "ChecksumMismatch"}
<1> DEFINE kl == Len(r.key)
           vl == Len(r.value)
           va == ValueAt(r)
           ca == ChecksumAt(r)
           z == Size(r)
           L == Len(whole)
           x == read_record(stream, at)
           c == crc32c(Body(r))
           key == read_string(stream, at + 1, MAX_KEY_SIZE)
           value == read_string(stream, at + va, MAX_VALUE_SIZE)
           stored == read_uint(stream, at + ca, ChecksumBytes)
<1>0. /\ LengthBytes \in Nat \ {0} /\ ChecksumBytes \in Nat \ {0}
      /\ kl \in Nat /\ vl \in Nat /\ va \in Nat \ {0} /\ ca \in Nat \ {0} /\ z \in Nat \ {0}
      /\ va = 1 + LengthBytes + kl /\ ca = va + LengthBytes + vl
      /\ z = ca + ChecksumBytes
      /\ kl \in 0 .. MAX_KEY_SIZE /\ vl \in 0 .. MAX_VALUE_SIZE
      /\ kl \in 0 .. (Power(LengthBytes) - 1) /\ vl \in 0 .. (Power(LengthBytes) - 1)
  BY FieldPositions
<1>m. MAX_KEY_SIZE \in 0 .. (Power(LengthBytes) - 1) /\ MAX_VALUE_SIZE \in 0 .. (Power(LengthBytes) - 1)
  BY Constants, Zenon
<1>1. /\ L \in Nat /\ d \in 1 .. L /\ Len(stream) = L /\ stream[d] # whole[d]
      /\ \A i \in 1 .. L : i # d => stream[i] = whole[i]
  BY DEF DifferAt
<1>2. r \in Record /\ r.type \in RecordTypes /\ r.key \in Seq(Bytes) /\ r.value \in Seq(Bytes)
  BY WritableType DEF Record
<1>3. /\ Agrees(whole, at + 1, write_string(r.key))
      /\ Agrees(whole, at + va, write_string(r.value))
      /\ Agrees(whole, at + ca, write_uint(c, ChecksumBytes))
      /\ Agrees(whole, at, Body(r))
  BY FieldsAgree, WholeBody
<1>4. at + z <= L + 1 /\ d \in at .. at + z - 1 /\ ~LengthByte(r, d - at)
  OBVIOUS
<1>5. c \in 0 .. (Power(ChecksumBytes) - 1) /\ Body(r) \in Seq(Bytes) /\ Len(Body(r)) = ca
  BY <1>2, SerializedType, BodyType
<1>6. /\ d - at \notin 1 .. LengthBytes
      /\ ((d - at) - LengthBytes) - kl \notin 1 .. LengthBytes
  BY <1>4 DEF LengthByte
<1> HIDE DEF kl, vl, va, ca, z, L, c
<1>7. Agrees(stream, at + 1, write_uint(kl, LengthBytes))
  <2> DEFINE p == at + 1
             s == write_uint(kl, LengthBytes)
  <2>1. p \in Nat \ {0} /\ d \notin p .. p + LengthBytes - 1
    BY <1>0, <1>1, <1>6
  <2>2. Agrees(whole, p, s)
    BY <1>2, <1>3, <2>1, WholeLengths DEF kl
  <2>3. s \in Seq(Bytes) /\ Len(s) = LengthBytes
    BY <1>0, WriteUint
  <2> HIDE DEF p, s
  <2>4. Agrees(stream, p, s)
    BY <2>1, <2>2, <2>3, AgreesElsewhere
  <2> QED
    BY <2>4 DEF p, s
<1>8. Agrees(stream, at + va, write_uint(vl, LengthBytes))
  <2> DEFINE p == at + va
             s == write_uint(vl, LengthBytes)
  <2>1. p \in Nat \ {0} /\ d \notin p .. p + LengthBytes - 1
    BY <1>0, <1>1, <1>6
  <2>2. Agrees(whole, p, s)
    BY <1>2, <1>3, <2>1, WholeLengths DEF vl
  <2>3. s \in Seq(Bytes) /\ Len(s) = LengthBytes
    BY <1>0, WriteUint
  <2> HIDE DEF p, s
  <2>4. Agrees(stream, p, s)
    BY <2>1, <2>2, <2>3, AgreesElsewhere
  <2> QED
    BY <2>4 DEF p, s
<1>9. /\ key.status = "Success" /\ key.next = at + va
      /\ key.value \in Seq(Bytes) /\ Len(key.value) = kl
      /\ Agrees(stream, at + 1, write_string(key.value))
  <2> DEFINE p == at + 1
  <2>1. p \in Nat \ {0} /\ p + LengthBytes + kl = at + va /\ p + LengthBytes + kl <= Len(stream) + 1
    BY <1>0, <1>1, <1>4
  <2>2. Agrees(stream, p, write_uint(kl, LengthBytes))
    BY <1>7
  <2>3. key = read_string(stream, p, MAX_KEY_SIZE)
    OBVIOUS
  <2> HIDE DEF p
  <2>4. LET y == read_string(stream, p, MAX_KEY_SIZE) IN
        /\ y.status = "Success" /\ y.next = p + LengthBytes + kl
        /\ y.value \in Seq(Bytes) /\ Len(y.value) = kl
        /\ Agrees(stream, p, write_string(y.value))
    BY <1>0, <1>m, <2>1, <2>2, ReadAlteredString
  <2> HIDE DEF key
  <2>5. /\ key.status = "Success" /\ key.next = at + va
        /\ key.value \in Seq(Bytes) /\ Len(key.value) = kl
        /\ Agrees(stream, p, write_string(key.value))
    BY <2>1, <2>3, <2>4
  <2> QED
    BY <2>5 DEF p
<1>10. /\ value.status = "Success" /\ value.next = at + ca
       /\ value.value \in Seq(Bytes) /\ Len(value.value) = vl
       /\ Agrees(stream, at + va, write_string(value.value))
  <2> DEFINE p == at + va
  <2>1. p \in Nat \ {0} /\ p + LengthBytes + vl = at + ca /\ p + LengthBytes + vl <= Len(stream) + 1
    BY <1>0, <1>1, <1>4
  <2>2. Agrees(stream, p, write_uint(vl, LengthBytes))
    BY <1>8
  <2>3. value = read_string(stream, p, MAX_VALUE_SIZE)
    OBVIOUS
  <2> HIDE DEF p
  <2>4. LET y == read_string(stream, p, MAX_VALUE_SIZE) IN
        /\ y.status = "Success" /\ y.next = p + LengthBytes + vl
        /\ y.value \in Seq(Bytes) /\ Len(y.value) = vl
        /\ Agrees(stream, p, write_string(y.value))
    BY <1>0, <1>m, <2>1, <2>2, ReadAlteredString
  <2> HIDE DEF value
  <2>5. /\ value.status = "Success" /\ value.next = at + ca
        /\ value.value \in Seq(Bytes) /\ Len(value.value) = vl
        /\ Agrees(stream, p, write_string(value.value))
    BY <2>1, <2>3, <2>4
  <2> QED
    BY <2>5 DEF p
<1> DEFINE n == Number(SubSeq(stream, at + ca, (at + ca) + ChecksumBytes - 1))
<1>11. /\ stored.status = "Success" /\ stored.value = n
       /\ d \in (at + ca) .. (at + ca) + ChecksumBytes - 1 => n # c
       /\ d \notin (at + ca) .. (at + ca) + ChecksumBytes - 1 => n = c
  <2> DEFINE p == at + ca
             s == write_uint(c, ChecksumBytes)
  <2>1. /\ p \in Nat \ {0} /\ p + ChecksumBytes <= L + 1
        /\ p + ChecksumBytes - 1 = (p + ChecksumBytes) - 1
    BY <1>0, <1>1, <1>4
  <2>2. Agrees(whole, p, s)
    BY <1>3
  <2>3. s \in Seq(Bytes) /\ Len(s) = ChecksumBytes
    <3>1. c \in Nat /\ ChecksumBytes \in Nat
      BY <1>0, <1>5, PowerType
    <3> QED
      BY <3>1, WriteUint
  <2>4. n = Number(SubSeq(stream, p, p + ChecksumBytes - 1)) /\ stored = read_uint(stream, p, ChecksumBytes)
    OBVIOUS
  <2> HIDE DEF p, n, stored
  <2>5. stored = Result("Success", Number(SubSeq(stream, p, (p + ChecksumBytes) - 1)), p + ChecksumBytes)
    BY <1>0, <1>1, <2>1, <2>4, ReadUintKinds DEF L
  <2>6. stored.status = "Success" /\ stored.value = n
    <3>1. n = Number(SubSeq(stream, p, (p + ChecksumBytes) - 1))
      BY <2>1, <2>4
    <3>2. stored = Result("Success", n, p + ChecksumBytes)
      BY <2>5, <3>1
    <3> QED
      BY <3>2 DEF Result
  <2>7. ASSUME d \in p .. p + ChecksumBytes - 1 PROVE n # c
    BY <1>0, <1>5, <2>1, <2>2, <2>4, <2>7, AlteredNumber DEF L, s
  <2>8. ASSUME d \notin p .. p + ChecksumBytes - 1 PROVE n = c
    <3> HIDE DEF s
    <3>1. Agrees(stream, p, s)
      BY <2>1, <2>2, <2>3, <2>8, AgreesElsewhere
    <3>2. SubSeq(stream, p, p + ChecksumBytes - 1) = s
      <4>1. p + Len(s) - 1 <= Len(stream)
        <5>1. L = Len(stream) /\ L \in Nat /\ ChecksumBytes \in Nat
          BY <1>0, <1>1
        <5>2. p + ChecksumBytes - 1 <= L
          BY <2>1, <5>1
        <5> QED
          BY <2>3, <5>1, <5>2
      <4>2. SubSeq(stream, p, p + Len(s) - 1) = s
        BY <2>1, <2>3, <3>1, <4>1, AgreesSub
      <4> QED
        BY <2>3, <4>2
    <3>3. Number(s) = c
      BY <1>0, <1>5, NumberReadBack DEF s
    <3> QED
      BY <2>4, <3>2, <3>3
  <2> QED
    BY <2>6, <2>7, <2>8 DEF p
<1>12. ~(at > Len(stream))
  BY <1>0, <1>1, <1>4
<1>13. CASE \A t \in RecordTypes : TypeCode[t] # stream[at]
  <2>1. x = Fail("InvalidType", at)
    BY <1>12, <1>13, Zenon DEF read_record
  <2> QED
    BY <2>1 DEF Fail, Result
<1>14. ASSUME NEW t \in RecordTypes, stream[at] = TypeCode[t]
       PROVE  x.status = "ChecksumMismatch"
  <2> DEFINE s == [type |-> t, key |-> key.value, value |-> value.value]
  <2>1. x = WithKey(stream, t, key, at)
    BY <1>12, <1>14, ReadType
  <2>2. WithKey(stream, t, key, at) = WithValue(stream, t, key.value, value, at)
    BY <1>9, Zenon DEF WithKey
  <2>3. WithValue(stream, t, key.value, value, at) = Checked(s, stored, at)
    BY <1>10, Zenon DEF WithValue
  <2>4. s \in Record /\ s.type = t /\ s.key = key.value /\ s.value = value.value
    BY <1>9, <1>10, <1>14 DEF Record
  <2> HIDE DEF s, key, value, stored, x
  <2>5. ValueAt(s) = va /\ ChecksumAt(s) = ca
    <3>1. Len(s.key) = kl /\ Len(s.value) = vl
      BY <1>9, <1>10, <2>4
    <3>2. ValueAt(s) = 1 + LengthBytes + kl
      BY <3>1 DEF ValueAt
    <3>3. ChecksumAt(s) = ValueAt(s) + LengthBytes + vl
      BY <3>1 DEF ChecksumAt
    <3> QED
      BY <1>0, <3>2, <3>3, Zenon
  <2> DEFINE b == Body(r)
             e == Body(s)
             j == (d - at) + 1
  <2>6. Agrees(stream, at, e)
    BY <1>9, <1>10, <1>14, <2>4, <2>5, BodyAgrees
  <2>7. e \in Seq(Bytes) /\ Len(e) = ca /\ b \in Seq(Bytes) /\ Len(b) = ca
    BY <1>5, <2>4, <2>5, BodyType
  <2>8. Agrees(whole, at, b)
    BY <1>3
  <2> HIDE DEF b, e
  <2>9. \A i \in 1 .. ca : at + i - 1 \in 1 .. L
    BY <1>0, <1>1, <1>4
  <2>10. \A i \in 1 .. ca : e[i] = stream[at + i - 1] /\ b[i] = whole[at + i - 1]
    <3> SUFFICES ASSUME NEW i \in 1 .. ca
                 PROVE  e[i] = stream[at + i - 1] /\ b[i] = whole[at + i - 1]
      OBVIOUS
    <3>1. at + i - 1 <= L /\ i \in 1 .. Len(e) /\ i \in 1 .. Len(b)
      BY <1>1, <2>7, <2>9
    <3>2. at + i - 1 <= Len(stream) /\ at + i - 1 <= Len(whole)
      BY <1>1, <3>1 DEF L
    <3>3. e[i] = stream[at + i - 1]
      BY <2>6, <3>1, <3>2, Zenon DEF Agrees
    <3>4. b[i] = whole[at + i - 1]
      BY <2>8, <3>1, <3>2, Zenon DEF Agrees
    <3> QED
      BY <3>3, <3>4
  <2>11. \A i \in 1 .. ca : i # j => e[i] = b[i]
    <3>1. \A i \in 1 .. ca : i # j => at + i - 1 # d
      BY <1>0, <1>1
    <3> QED
      BY <1>1, <2>9, <2>10, <3>1
  <2>12. n # crc32c(e)
    <3>1. CASE d \in (at + ca) .. (at + ca) + ChecksumBytes - 1
      <4>1. \A i \in 1 .. ca : i # j
        BY <1>0, <1>1, <3>1
      <4>2. \A i \in 1 .. Len(e) : e[i] = b[i]
        BY <2>7, <2>11, <4>1
      <4>3. e = b
        BY <2>7, <4>2, SeqEqual
      <4> QED
        BY <1>11, <3>1, <4>3 DEF b, c
    <3>2. CASE d \notin (at + ca) .. (at + ca) + ChecksumBytes - 1
      <4>1. j \in 1 .. ca /\ at + j - 1 = d
        <5>1. d >= at /\ d <= at + z - 1 /\ d \in Nat
          BY <1>0, <1>1, <1>4
        <5>2. d < at + ca
          BY <1>0, <3>2, <5>1
        <5> QED
          BY <1>0, <5>1, <5>2
      <4>2. e[j] # b[j] /\ e[j] \in Bytes
        <5>1. e[j] = stream[d] /\ b[j] = whole[d]
          BY <2>10, <4>1
        <5>2. e[j] \in Bytes
          BY <2>7, <4>1
        <5> QED
          BY <1>1, <5>1, <5>2
      <4>3. e = [b EXCEPT ![j] = e[j]]
        <5> DEFINE f == [b EXCEPT ![j] = e[j]]
        <5>1. f \in Seq(Bytes) /\ Len(f) = ca
          BY <2>7, <4>1, <4>2
        <5>2. \A i \in 1 .. ca : f[i] = e[i]
          BY <2>7, <2>11, <4>1
        <5> HIDE DEF f
        <5>3. e = f
          BY <2>7, <5>1, <5>2, SeqEqual
        <5> QED
          BY <5>3 DEF f
      <4>4. crc32c([b EXCEPT ![j] = e[j]]) # crc32c(b)
        <5>1. j \in 1 .. Len(b)
          BY <2>7, <4>1
        <5> QED
          BY <4>2, <5>1, ChecksumAssumption DEF b
      <4>5. crc32c(e) # crc32c(b)
        BY <4>3, <4>4, Zenon
      <4> QED
        BY <1>11, <3>2, <4>5 DEF b, c
    <3> QED
      BY <3>1, <3>2
  <2>13. x = Fail("ChecksumMismatch", at)
    <3>1. stored.status = "Success" /\ stored.value # crc32c(Body(s))
      BY <1>11, <2>12 DEF e
    <3>2. Checked(s, stored, at) = Fail("ChecksumMismatch", at)
      BY <3>1, Zenon DEF Checked
    <3> QED
      BY <2>1, <2>2, <2>3, <3>2, Zenon
  <2> QED
    BY <2>13 DEF Fail, Result
<1> QED
  BY <1>13, <1>14

(* Where the records start, as the properties count it. *)
LEMMA StartsAre ==
    ASSUME TypeOK, NEW stream \in Seq(Bytes), NEW pos, Laid(stream, written, Len(written), pos)
    PROVE  \A i \in 0 .. Len(written) : StartOf(i + 1) = pos[i]
<1> DEFINE n == Len(written)
           g == [i \in 1 .. n |-> Len(serialize_record(written[i]))]
           after == CHOOSE f : f = [i \in 0 .. n |->
                      IF i = 0 THEN 1 ELSE f[i - 1] + Len(serialize_record(written[i]))]
<1>0. n \in Nat /\ n = Len(written) /\ written \in Seq(Writable) /\ n \in 0 .. Len(written)
  BY DEF TypeOK
<1>1. PICK f : Sums(f, 1, g, n)
  <2> HIDE DEF n, g
  <2> QED
    BY <1>0, SumsExist
<1>2. \A i \in 1 .. n : g[i] = Len(serialize_record(written[i]))
  OBVIOUS
<1> HIDE DEF g, n
<1>3. f = [i \in 0 .. n |-> IF i = 0 THEN 1 ELSE f[i - 1] + Len(serialize_record(written[i]))]
  <2>1. ASSUME NEW i \in 0 .. n
        PROVE  f[i] = IF i = 0 THEN 1 ELSE f[i - 1] + Len(serialize_record(written[i]))
    <3>1. i # 0 => i \in 1 .. n
      BY <1>0
    <3> QED
      BY <1>1, <1>2, <3>1 DEF Sums
  <2> QED
    BY <1>1, <2>1 DEF Sums
<1>4. after = [i \in 0 .. n |-> IF i = 0 THEN 1 ELSE after[i - 1] + Len(serialize_record(written[i]))]
  BY <1>3
<1> HIDE DEF after
<1>5. after[0] = 1 /\ \A i \in 1 .. n : after[i] = after[i - 1] + Len(serialize_record(written[i]))
  <2>1. \A i \in 0 .. n : after[i] = IF i = 0 THEN 1 ELSE after[i - 1] + Len(serialize_record(written[i]))
    BY <1>4
  <2> QED
    BY <1>0, <2>1
<1>6. /\ pos[0] = 1
      /\ \A i \in 1 .. n : pos[i] = pos[i - 1] + Size(written[i])
  BY DEF Laid, n
<1>7. \A i \in 1 .. n : Len(serialize_record(written[i])) = Size(written[i])
  <2> SUFFICES ASSUME NEW i \in 1 .. n PROVE Len(serialize_record(written[i])) = Size(written[i])
    OBVIOUS
  <2>1. written[i] \in Writable
    BY <1>0
  <2> QED
    BY <2>1, SerializedType
<1> DEFINE T == {i \in 0 .. n : after[i] # pos[i]}
<1>8. ASSUME T # {} PROVE FALSE
  <2>0. T \subseteq Nat
    BY <1>0
  <2>1. PICK i \in T : \A y \in T : i <= y
    <3> HIDE DEF T
    <3> QED
      BY <1>8, <2>0, LeastElement
  <2>2. i \in 0 .. n /\ i # 0
    BY <1>5, <1>6, <2>1
  <2>3. i \in 1 .. n /\ i - 1 \in 0 .. n /\ ~(i <= i - 1)
    BY <1>0, <2>2
  <2>4. i - 1 \notin T
    <3> HIDE DEF T
    <3> QED
      BY <2>1, <2>3, Zenon
  <2>5. after[i - 1] = pos[i - 1]
    BY <2>3, <2>4
  <2> QED
    BY <1>5, <1>6, <1>7, <2>1, <2>3, <2>5
<1>9. \A m : StartOf(m) = after[m - 1]
  BY DEF StartOf, after, n
<1>10. \A i \in 0 .. n : (i + 1) - 1 = i
  BY <1>0
<1>11. \A i \in 0 .. n : after[i] = pos[i]
  BY <1>8
<1> QED
  BY <1>9, <1>10, <1>11 DEF n

(* The byte that was altered belongs to one of the records. *)
LEMMA DamagedRecord ==
    ASSUME TypeOK, NEW whole \in Seq(Bytes), NEW pos, Altered(whole, pos),
           NEW n, n = CHOOSE m \in 1 .. Len(written) :
                        /\ StartOf(m) <= damage
                        /\ damage < StartOf(m) + Len(serialize_record(written[m]))
    PROVE  /\ n \in 1 .. Len(written) /\ StartOf(n) = pos[n - 1]
           /\ damage \in pos[n - 1] .. pos[n] - 1
<1> DEFINE N == Len(written)
           T == {i \in 0 .. N : pos[i] > damage}
           H(m) == StartOf(m) <= damage /\ damage < StartOf(m) + Len(serialize_record(written[m]))
<1>0. /\ N \in Nat /\ N \in 0 .. N /\ N \in 0 .. Len(written) /\ written \in Seq(Writable)
      /\ N = Len(written)
  BY DEF TypeOK
<1>1. /\ Laid(whole, written, N, pos) /\ damage \in 1 .. Len(whole) /\ Len(whole) + 1 = pos[N]
      /\ Len(whole) \in Nat
  BY DEF Altered
<1> HIDE DEF N
<1>2. \A i \in 0 .. N : pos[i] \in 1 .. Len(whole) + 1
  BY <1>0, <1>1, LaidPositions
<1>3. ASSUME NEW m \in 1 .. N
      PROVE  /\ StartOf(m) = pos[m - 1] /\ m - 1 \in 0 .. N /\ m \in 0 .. N
             /\ pos[m] = StartOf(m) + Len(serialize_record(written[m]))
  <2>1. m - 1 \in 0 .. N /\ (m - 1) + 1 = m /\ m \in 0 .. N
    BY <1>0
  <2>2. StartOf(m) = pos[m - 1]
    BY <1>0, <1>1, <2>1, StartsAre
  <2>3. written[m] \in Writable
    BY <1>0
  <2>4. Len(serialize_record(written[m])) = Size(written[m])
    BY <2>3, SerializedType
  <2>5. pos[m] = pos[m - 1] + Size(written[m])
    BY <1>1 DEF Laid
  <2> QED
    BY <2>1, <2>2, <2>4, <2>5
<1>4. N \in T
  BY <1>0, <1>1
<1>5. PICK i \in T : \A y \in T : i <= y
  <2>1. T \subseteq Nat
    BY <1>0
  <2> HIDE DEF T
  <2> QED
    BY <1>4, <2>1, LeastElement
<1>6. i # 0
  BY <1>1, <1>5 DEF Laid
<1>7. i \in 1 .. N /\ i - 1 \in 0 .. N /\ i - 1 \notin T
  <2>1. i \in 0 .. N
    BY <1>5
  <2>2. i \in 1 .. N /\ i - 1 \in 0 .. N /\ ~(i <= i - 1)
    BY <1>0, <1>6, <2>1
  <2> HIDE DEF T
  <2> QED
    BY <1>5, <2>2, Zenon
<1>8. H(i)
  <2>1. pos[i] > damage /\ ~(pos[i - 1] > damage)
    BY <1>5, <1>7
  <2>2. StartOf(i) = pos[i - 1] /\ pos[i] = StartOf(i) + Len(serialize_record(written[i]))
    BY <1>3, <1>7
  <2>3. pos[i - 1] \in Int /\ damage \in Int
    BY <1>1, <1>2, <1>7
  <2> QED
    BY <2>1, <2>2, <2>3
<1>9. n \in 1 .. N /\ H(n)
  <2>1. n = CHOOSE m \in 1 .. N : H(m)
    BY DEF N
  <2> HIDE DEF H
  <2> QED
    BY <1>7, <1>8, <2>1
<1>10. damage \in pos[n - 1] .. pos[n] - 1
  <2>1. pos[n] \in Int /\ pos[n - 1] \in Int /\ damage \in Int
    <3>1. n - 1 \in 0 .. N /\ n \in 0 .. N
      BY <1>3, <1>9
    <3>2. pos[n - 1] \in 1 .. Len(whole) + 1 /\ pos[n] \in 1 .. Len(whole) + 1
      BY <1>2, <3>1
    <3> HIDE DEF H
    <3> QED
      BY <1>1, <3>2
  <2> QED
    BY <1>3, <1>9, <2>1
<1> QED
  BY <1>3, <1>9, <1>10 DEF N

(* One altered byte: the scan returns the records in front of it and stops *)
(* at the damaged record, or misreads a length of it.                      *)
LEMMA ScanAltered ==
    ASSUME TypeOK, NEW whole \in Seq(Bytes), NEW pos, Altered(whole, pos),
           NEW n, n \in 1 .. Len(written), StartOf(n) = pos[n - 1],
           damage \in pos[n - 1] .. pos[n] - 1
    PROVE  ReportsDamage(scan_records(file), n)
<1> DEFINE N == Len(written)
           L == Len(file)
           r == written[n]
           k == n - 1
           p == pos[k]
           part == [i \in 0 .. k |-> pos[i]]
           scan == scan_records(file)
           rest == From(file)[p]
           x == read_record(file, p)
<1>0. /\ N \in Nat /\ N \in 0 .. N /\ written \in Seq(Writable) /\ file \in Seq(Bytes) /\ L \in Nat
      /\ n \in 1 .. N /\ k \in 0 .. N /\ k \in Nat /\ k + 1 = n /\ n \in 0 .. N /\ N = Len(written)
      /\ k \in 0 .. k
  BY DEF TypeOK
<1>1. /\ Laid(whole, written, N, pos) /\ Len(whole) = L /\ DifferAt(file, whole, damage)
  BY DEF Altered, DifferAt
<1>2. r \in Writable
  BY <1>0
<1>3. /\ p \in 1 .. L /\ pos[n] = p + Size(r) /\ Size(r) \in Nat \ {0} /\ pos[n] <= L + 1
      /\ Agrees(whole, p, serialize_record(r)) /\ damage \in p .. p + Size(r) - 1
  <2>1. /\ p \in 1 .. Len(whole) /\ pos[n] = p + Size(r) /\ Size(r) \in Nat \ {0}
    BY <1>0, <1>1, LaidPositions
  <2>2. Agrees(whole, p, serialize_record(r)) /\ pos[n] <= Len(whole) + 1
    BY <1>0, <1>1 DEF Laid
  <2>3. damage \in p .. pos[n] - 1
    OBVIOUS
  <2> QED
    BY <1>1, <2>1, <2>2, <2>3
<1>4. Laid(file, written, k, part)
  <2>1. Laid(whole, written, k, part) /\ part[k] = p
    BY <1>0, <1>1, LaidPart
  <2>2. \A i \in 1 .. p - 1 : file[i] = whole[i]
    <3>1. \A i \in 1 .. p - 1 : i \in 1 .. Len(whole) /\ i # damage
      BY <1>1, <1>3
    <3> QED
      BY <1>1, <3>1 DEF DifferAt
  <2>3. p <= L + 1 /\ k \in 0 .. Len(written)
    BY <1>0, <1>3
  <2> HIDE DEF p, part, k
  <2> QED
    BY <1>0, <2>1, <2>2, <2>3, LaidElsewhere DEF L
<1>5. Continues(scan, rest, written, k)
  <2>1. Continues(scan, From(file)[part[k]], written, k)
    <3>1. k \in 0 .. Len(written)
      BY <1>0
    <3> HIDE DEF part, k
    <3> QED
      BY <1>0, <1>4, <3>1, ScanLaid
  <2>2. part[k] = p
    BY <1>0
  <2> QED
    BY <2>1, <2>2
<1>6. InLength(n, damage) <=> LengthByte(r, damage - p)
  <2>1. StartOf(n) = p
    OBVIOUS
  <2>2. /\ LengthBytes \in Nat \ {0} /\ Len(r.key) \in Nat
    BY <1>2, FieldPositions
  <2>3. damage - p \in Int
    BY <1>3
  <2> QED
    BY <2>1, <2>2, <2>3 DEF InLength, LengthByte
<1> HIDE DEF N, L, r, k, p, part, scan, rest, x
<1>7. p \in 1 .. L + 1 /\ p <= L /\ p \in Nat \ {0} /\ p + Size(r) <= L + 1
  BY <1>0, <1>3
<1>8. rest \in Scan /\ scan \in Scan
  <2>1. 1 \in 1 .. Len(file) + 1 /\ p \in 1 .. Len(file) + 1
    BY <1>0, <1>7 DEF L
  <2> QED
    BY <1>0, <2>1, ScanSteps, FromType DEF rest, scan
<1>9. /\ x.status \in {"Success", "InvalidType"} \cup Corrupt
      /\ x.status = "Success" => x.value \in Record /\ x.next \in 1 .. L + 1 /\ LengthsOf(file, p, x.value)
  <2>1. /\ p <= Len(file) => x.status \in {"Success", "InvalidType"} \cup Corrupt
        /\ x.status = "Success" =>
             /\ x.value \in Record /\ x.next \in (p + 1) .. (Len(file) + 1) /\ LengthsOf(file, p, x.value)
    BY <1>0, <1>7, ReadKinds DEF x, L
  <2>2. \A i \in (p + 1) .. (L + 1) : i \in 1 .. L + 1
    BY <1>7
  <2> QED
    BY <1>7, <2>1, <2>2 DEF L
<1>10. ~LengthByte(r, damage - p) => x.status \in {"InvalidType", "ChecksumMismatch"}
  BY <1>0, <1>1, <1>2, <1>3, <1>7, ReadAltered DEF x
<1>11. /\ scan.status = rest.status /\ scan.failing = rest.failing
       /\ Len(scan.records) = k + Len(rest.records)
       /\ \A j \in 1 .. k : scan.records[j] = written[j]
       /\ \A j \in 1 .. Len(rest.records) : scan.records[k + j] = rest.records[j]
  BY <1>5 DEF Continues
<1>12. CASE x.status # "Success"
  <2>1. rest.status = x.status /\ rest.failing = p /\ Len(rest.records) = 0
    BY <1>0, <1>7, <1>12, ScanStops DEF rest, x, L
  <2>2. Len(scan.records) = k
    BY <1>0, <1>11, <2>1
  <2>3. \/ x.status \in {"InvalidType", "ChecksumMismatch"}
        \/ InLength(n, damage) /\ x.status \in {"InvalidLength", "Truncated"}
    BY <1>6, <1>9, <1>10, <1>12 DEF Corrupt
  <2>4. StopsAtDamage(scan, n)
    BY <1>11, <2>1, <2>2, <2>3 DEF StopsAtDamage, k, p
  <2>5. SubSeq(scan.records, 1, k) = SubSeq(written, 1, k)
    <3>1. Len(scan.records) >= k /\ k \in 0 .. Len(written)
      BY <1>0, <2>2
    <3> QED
      BY <1>0, <1>8, <1>11, <3>1, SameBeginning
  <2> QED
    BY <2>4, <2>5 DEF ReportsDamage, scan, k
<1>13. CASE x.status = "Success"
  <2> DEFINE y == From(file)[x.next]
  <2>1. x.value \in Record /\ x.next \in 1 .. L + 1 /\ LengthsOf(file, p, x.value)
    BY <1>9, <1>13
  <2>2. rest = Prepended(x.value, y)
    <3>1. p \in 1 .. Len(file) + 1
      BY <1>7 DEF L
    <3>2. rest = ScanStep(From(file), file, p)
      BY <1>0, <3>1, ScanSteps DEF rest
    <3> QED
      BY <1>13, <3>2, Zenon DEF ScanStep, x
  <2>3. y \in Scan
    BY <1>0, <2>1, FromType DEF L
  <2> HIDE DEF y
  <2>4. Len(rest.records) = Len(y.records) + 1 /\ Len(y.records) \in Nat /\ rest.records[1] = x.value
    BY <2>1, <2>2, <2>3, PrependedType
  <2>5. Len(scan.records) \in Nat /\ Len(scan.records) >= n /\ scan.records[n] = x.value
    <3>1. 1 \in 1 .. Len(rest.records)
      BY <2>4
    <3>2. scan.records[k + 1] = rest.records[1] /\ Len(scan.records) = k + (Len(y.records) + 1)
      BY <1>11, <2>4, <3>1
    <3>3. k + 1 = n /\ k \in Nat
      BY <1>0
    <3>4. scan.records[n] = x.value
      BY <2>4, <3>2, <3>3
    <3> QED
      BY <2>4, <3>2, <3>3, <3>4
  <2>6. LengthByte(r, damage - p) /\ InLength(n, damage)
    BY <1>6, <1>10, <1>13
  <2>7. ~SameLengths(x.value, r)
    BY <1>0, <1>1, <1>2, <1>3, <1>7, <2>1, <2>6, AlteredLength
  <2>8. MisreadsLength(scan, n)
    BY <2>5, <2>6, <2>7 DEF MisreadsLength, r
  <2>9. SubSeq(scan.records, 1, k) = SubSeq(written, 1, k)
    <3>1. Len(scan.records) >= k /\ k \in 0 .. Len(written)
      BY <1>0, <2>5
    <3> QED
      BY <1>0, <1>8, <1>11, <3>1, SameBeginning
  <2> QED
    BY <2>8, <2>9 DEF ReportsDamage, scan, k
<1> QED
  BY <1>12, <1>13

(* One altered byte at rest hides nothing in front of it, and reading      *)
(* stops at the damaged record with a failure that makes recover_records   *)
(* refuse, unless the byte belongs to a length.                            *)
THEOREM DamageIsFound == Spec => []DamageIsReported
<1>1. RecordsInv => DamageIsReported
  <2> SUFFICES ASSUME RecordsInv, damage # 0,
                      NEW n, n = CHOOSE m \in 1 .. Len(written) :
                                   /\ StartOf(m) <= damage
                                   /\ damage < StartOf(m) + Len(serialize_record(written[m]))
               PROVE  ReportsDamage(scan_records(file), n)
    BY DEF DamageIsReported
  <2>1. TypeOK
    BY DEF RecordsInv
  <2>2. PICK whole \in Seq(Bytes) : \E pos : Altered(whole, pos)
    BY DEF RecordsInv
  <2>3. PICK pos : Altered(whole, pos)
    BY <2>2
  <2>4. /\ n \in 1 .. Len(written) /\ StartOf(n) = pos[n - 1]
        /\ damage \in pos[n - 1] .. pos[n] - 1
    BY <2>1, <2>3, DamagedRecord
  <2> QED
    BY <2>1, <2>3, <2>4, ScanAltered
<1> QED
  BY <1>1, RecordsInvariant, PTL

=============================================================================

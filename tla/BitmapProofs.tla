---------------------------- MODULE BitmapProofs ----------------------------
(***************************************************************************)
(* The searches of common::Bitmap, for bytes of any width and bitmaps of   *)
(* any size.  The loop over the bytes is a recursive function: a closed    *)
(* form shows that it is defined, and a least counterexample that its      *)
(* value from the start of a byte is the first match.                      *)
(***************************************************************************)
EXTENDS Bitmap, WellFoundedInduction, TLAPS

Sizes == W \in Nat \ {0} /\ Size \in Nat

-----------------------------------------------------------------------------
(* Least elements and positions.                                           *)

LEMMA LeastOf ==
  ASSUME NEW T, T \subseteq Nat, T # {}
  PROVE  Min(T) \in T /\ \A y \in T : Min(T) <= y
<1>1. PICK x \in T : \A y \in T : ~ (<<y, x>> \in OpToRel(<, Nat))
  BY NatLessThanWellFounded, WFMin
<1>2. ASSUME NEW y \in T PROVE x <= y
  <2>1. ~(y < x)
    BY <1>1 DEF OpToRel
  <2> QED BY <2>1
<1> QED BY <1>2 DEF Min

\* The least element is what is below all others.
LEMMA LeastIs ==
  ASSUME NEW T, T \subseteq Nat, NEW x \in T, \A y \in T : x <= y
  PROVE  Min(T) = x
<1>1. Min(T) \in T /\ Min(T) <= x /\ x <= Min(T)
  BY LeastOf
<1>2. Min(T) \in Nat /\ x \in Nat
  BY <1>1
<1> QED BY <1>1, <1>2

LEMMA Multiples ==
  ASSUME Sizes, NEW i \in Nat, NEW j \in Nat, i < j
  PROVE  /\ i * W \in Nat /\ j * W \in Nat /\ (i + 1) * W = i * W + W
         /\ (i + 1) * W <= j * W
<1>1. i * W \in Nat /\ j * W \in Nat /\ (i + 1) * W = i * W + W
  BY DEF Sizes
<1>2. PICK d \in Nat : j = (i + 1) + d
  <2>1. j - (i + 1) \in Nat /\ j = (i + 1) + (j - (i + 1))
    OBVIOUS
  <2> QED BY <2>1
<1>3. j * W = (i + 1) * W + d * W /\ d * W \in Nat
  BY <1>2 DEF Sizes
<1>4. (i + 1) * W \in Nat
  BY <1>1 DEF Sizes
<1> QED BY <1>1, <1>3, <1>4

\* A position is in exactly one byte, at one offset.
LEMMA DivMod ==
  ASSUME Sizes, NEW x \in Nat
  PROVE  \E q \in Nat, r \in 0 .. W - 1 : q = x \div W /\ r = x % W /\ x = q * W + r
<1>1. W \in Nat /\ W > 0
  BY DEF Sizes
<1>2. x \div W \in Nat
  BY <1>1
<1>3. x % W \in 0 .. W - 1
  BY <1>1
<1>4. PICK q \in Nat, r \in 0 .. W - 1 : q = x \div W /\ r = x % W
  BY <1>2, <1>3
<1>5. x = q * W + r
  BY <1>1, <1>4
<1> QED BY <1>4, <1>5

LEMMA Place ==
  ASSUME Sizes, NEW q \in Int, NEW r \in 0 .. W - 1
  PROVE  q * W + r \in Int /\ (q * W + r) \div W = q /\ (q * W + r) % W = r
<1>1. W \in Int /\ W > 0 /\ r \in Int /\ r >= 0 /\ r < W
  BY DEF Sizes
<1>2. q * W \in Int
  BY <1>1
<1>3. PICK x \in Int : x = q * W + r
  BY <1>1, <1>2
<1>4. q = x \div W
  BY <1>1, <1>3
<1>5. r = x % W
  BY <1>1, <1>3
<1> QED BY <1>3, <1>4, <1>5

LEMMA BytesEnough == Sizes => Bytes \in Nat /\ Bytes * W \in Nat /\ Bytes * W >= Size
<1> SUFFICES ASSUME Sizes PROVE Bytes \in Nat /\ Bytes * W \in Nat /\ Bytes * W >= Size
  OBVIOUS
<1>1. W \in Nat /\ W > 0 /\ Size \in Nat
  BY DEF Sizes
<1>2. PICK n \in Nat : n = Size + W - 1
  <2>1. Size + W - 1 \in Nat
    BY <1>1
  <2> QED BY <2>1
<1>3. PICK q \in Nat, r \in 0 .. W - 1 : q = n \div W /\ n = q * W + r
  BY DivMod
<1>4. Bytes = q
  BY <1>2, <1>3 DEF Bytes
<1>5. PICK a \in Nat : a = q * W
  BY <1>1
<1>6. a >= Size
  BY <1>1, <1>2, <1>3, <1>5
<1> QED BY <1>4, <1>5, <1>6

-----------------------------------------------------------------------------
(* The loop over the bytes.                                                *)

First(T) == IF T = {} THEN -1 ELSE Min(T)

\* The positions of S in byte i or behind it, and those of byte i from offset k.
From(S, i) == {x \in S : x >= i * W}
Rest(S, i, k) == {b \in ByteOf(S, i) : b >= k}

\* What the loop of Search computes.
IsLoop(f, S) ==
    f = [i \in 0 .. Bytes |-> [k \in 0 .. W - 1 |->
            LET found == {b \in ByteOf(S, i) : b >= k} IN
            IF i = Bytes THEN -1
            ELSE IF ByteOf(S, i) = {} THEN f[i + 1][k]
            ELSE IF found # {} THEN i * W + Min(found)
            ELSE f[i + 1][0]]]

\* Its closed form: the offset counts in the first byte with a match only.
Found(S, i, k) ==
    LET j == Min(From(S, i)) \div W IN
    IF From(S, i) = {} THEN -1
    ELSE IF Rest(S, j, k) # {} THEN j * W + Min(Rest(S, j, k))
    ELSE First(From(S, j + 1))

InBytes(S) == S \subseteq 0 .. Bytes * W - 1

LEMMA ByteType ==
  ASSUME Sizes, NEW S, NEW i, NEW k
  PROVE  /\ ByteOf(S, i) \subseteq Nat /\ Rest(S, i, k) \subseteq Nat
         /\ ByteOf(S, i) \subseteq 0 .. W - 1 /\ Rest(S, i, k) \subseteq ByteOf(S, i)
<1>1. 0 .. W - 1 \subseteq Nat
  BY DEF Sizes
<1>2. ByteOf(S, i) \subseteq 0 .. W - 1 /\ Rest(S, i, k) \subseteq ByteOf(S, i)
  BY DEF ByteOf, Rest
<1> QED BY <1>1, <1>2

LEMMA FromType ==
  ASSUME Sizes, NEW S, InBytes(S), NEW i \in Nat
  PROVE  From(S, i) \subseteq Nat /\ From(S, i) \subseteq S /\ i * W \in Nat
<1>1. S \subseteq Nat
  BY BytesEnough DEF InBytes
<1>2. From(S, i) \subseteq S
  BY DEF From
<1>3. i * W \in Nat
  BY DEF Sizes
<1> QED BY <1>1, <1>2, <1>3

\* The first position behind the start of a byte, by its byte and offset.
LEMMA FirstOfByte ==
  ASSUME Sizes, NEW S, InBytes(S), NEW i \in Nat, From(S, i) # {},
         NEW j, j = Min(From(S, i)) \div W
  PROVE  /\ j \in Nat /\ j >= i /\ ByteOf(S, j) # {}
         /\ Min(From(S, i)) = j * W + Min(ByteOf(S, j))
<1>1. PICK m \in From(S, i) : m = Min(From(S, i)) /\ \A y \in From(S, i) : m <= y
  BY FromType, LeastOf
<1>2. m \in Nat /\ m \in S /\ m >= i * W /\ i * W \in Nat
  BY <1>1, FromType DEF From
<1>3. PICK r \in 0 .. W - 1 : m = j * W + r /\ j \in Nat
  <2>1. PICK q \in Nat, r \in 0 .. W - 1 : q = m \div W /\ m = q * W + r
    BY <1>2, DivMod
  <2>2. q = j
    BY <2>1, <1>1
  <2> QED BY <2>1, <2>2
<1>4. W \in Nat /\ W > 0 /\ j * W \in Nat
  BY <1>3 DEF Sizes
<1>5. j >= i
  <2> SUFFICES ASSUME j < i PROVE FALSE
    BY <1>3
  <2>1. (j + 1) * W <= i * W /\ (j + 1) * W = j * W + W
    BY <1>3, Multiples
  <2> QED BY <2>1, <1>2, <1>3, <1>4
<1>6. r \in ByteOf(S, j)
  BY <1>2, <1>3 DEF ByteOf
<1>7. ASSUME NEW b \in ByteOf(S, j) PROVE r <= b
  <2>1. b \in 0 .. W - 1 /\ j * W + b \in S
    BY DEF ByteOf
  <2>2. j * W >= i * W
    <3>1. CASE j = i
      <4>1. j * W = i * W
        BY <3>1
      <4> QED BY <4>1, <1>4
    <3>2. CASE i < j
      BY <3>2, <1>3, <1>4, Multiples
    <3> QED BY <3>1, <3>2, <1>3, <1>5
  <2>3. j * W + b \in From(S, i)
    BY <2>1, <2>2, <1>2, <1>4 DEF From
  <2>4. m <= j * W + b
    BY <2>3, <1>1
  <2> QED BY <2>1, <2>4, <1>3, <1>4
<1>8. Min(ByteOf(S, j)) = r
  BY <1>6, <1>7, ByteType, LeastIs
<1> QED BY <1>1, <1>3, <1>5, <1>6, <1>8

\* A byte without a match changes nothing behind its start.
LEMMA SkipByte ==
  ASSUME Sizes, NEW S, InBytes(S), NEW i \in Nat, ByteOf(S, i) = {}
  PROVE  From(S, i) = From(S, i + 1)
<1>0. W \in Nat /\ W > 0 /\ i * W \in Nat /\ (i + 1) * W = i * W + W
  BY DEF Sizes
<1>1. PICK a \in Nat : a = i * W
  BY <1>0
<1>2. S \subseteq Nat
  BY BytesEnough DEF InBytes
<1>3. ASSUME NEW x \in S, x >= a PROVE x >= a + W
  <2> SUFFICES ASSUME x < a + W PROVE FALSE
    BY <1>0, <1>1, <1>2
  <2>1. x - a \in 0 .. W - 1 /\ a + (x - a) = x
    BY <1>0, <1>1, <1>2, <1>3
  <2>2. x - a \in ByteOf(S, i)
    BY <2>1, <1>1 DEF ByteOf
  <2> QED BY <2>2
<1>4. ASSUME NEW x \in S, x >= a + W PROVE x >= a
  BY <1>0, <1>1, <1>2, <1>4
<1> QED BY <1>0, <1>1, <1>3, <1>4 DEF From

\* The first position behind the start of a byte with a match is in that byte.
LEMMA HitByte ==
  ASSUME Sizes, NEW S, InBytes(S), NEW i \in Nat, ByteOf(S, i) # {}
  PROVE  From(S, i) # {} /\ Min(From(S, i)) \div W = i
<1>0. PICK a \in Nat : a = i * W /\ W \in Nat /\ W > 0
  BY DEF Sizes
<1>1. PICK b \in ByteOf(S, i) : TRUE
  OBVIOUS
<1>2. b \in 0 .. W - 1 /\ a + b \in S
  BY <1>0 DEF ByteOf
<1>3. a + b \in From(S, i)
  BY <1>0, <1>2 DEF From
<1>4. PICK m \in From(S, i) : m = Min(From(S, i)) /\ m <= a + b
  BY <1>3, FromType, LeastOf
<1>5. m >= a /\ m \in Nat
  BY <1>0, <1>4, FromType DEF From
<1>6. m - a \in 0 .. W - 1
  BY <1>0, <1>2, <1>4, <1>5
<1>7. (i * W + (m - a)) \div W = i
  BY <1>6, Place
<1>8. i * W + (m - a) = m
  BY <1>0, <1>5
<1> QED BY <1>3, <1>4, <1>7, <1>8

\* From offset 0 the closed form is the first position behind the start.
LEMMA FoundFirst ==
  ASSUME Sizes, NEW S, InBytes(S), NEW i \in Nat
  PROVE  Found(S, i, 0) = First(From(S, i))
<1>1. CASE From(S, i) = {}
  BY <1>1 DEF Found, First
<1>2. CASE From(S, i) # {}
  <2>1. PICK j : j = Min(From(S, i)) \div W
    OBVIOUS
  <2>2. j \in Nat /\ ByteOf(S, j) # {} /\ Min(From(S, i)) = j * W + Min(ByteOf(S, j))
    BY <1>2, <2>1, FirstOfByte
  <2>3. Rest(S, j, 0) = ByteOf(S, j)
    <3>1. \A b \in ByteOf(S, j) : b >= 0
      BY ByteType, \A b \in Nat : b >= 0
    <3> QED BY <3>1 DEF Rest
  <2> QED BY <1>2, <2>1, <2>2, <2>3 DEF Found, First
<1> QED BY <1>1, <1>2

LEMMA NothingBehind ==
  ASSUME Sizes, NEW S, InBytes(S)
  PROVE  From(S, Bytes) = {}
<1>1. PICK a \in Nat : a = Bytes * W
  BY BytesEnough
<1>2. \A x \in S : x \in Nat /\ x < a
  BY <1>1 DEF InBytes
<1> QED BY <1>1, <1>2 DEF From

\* The closed form goes through the bytes as the loop does.
LEMMA FoundStep ==
  ASSUME Sizes, NEW S, InBytes(S), NEW i \in 0 .. Bytes, NEW k \in 0 .. W - 1
  PROVE  Found(S, i, k) = IF i = Bytes THEN -1
                          ELSE IF ByteOf(S, i) = {} THEN Found(S, i + 1, k)
                          ELSE IF Rest(S, i, k) # {} THEN i * W + Min(Rest(S, i, k))
                          ELSE Found(S, i + 1, 0)
<1>0. i \in Nat /\ i + 1 \in Nat
  BY BytesEnough
<1>1. CASE i = Bytes
  BY <1>1, NothingBehind DEF Found
<1>2. CASE i # Bytes /\ ByteOf(S, i) = {}
  <2>1. From(S, i) = From(S, i + 1)
    BY <1>0, <1>2, SkipByte
  <2> QED BY <1>2, <2>1 DEF Found
<1>3. CASE i # Bytes /\ ByteOf(S, i) # {}
  <2>1. From(S, i) # {} /\ Min(From(S, i)) \div W = i
    BY <1>0, <1>3, HitByte
  <2>2. Found(S, i + 1, 0) = First(From(S, i + 1))
    BY <1>0, FoundFirst
  <2> QED BY <1>3, <2>1, <2>2 DEF Found
<1> QED BY <1>1, <1>2, <1>3

\* The loop is defined ...
LEMMA LoopExists ==
  ASSUME Sizes, NEW S, InBytes(S)
  PROVE  \E f : IsLoop(f, S)
<1> DEFINE g == [i \in 0 .. Bytes |-> [k \in 0 .. W - 1 |-> Found(S, i, k)]]
<1>1. ASSUME NEW i \in 0 .. Bytes, NEW k \in 0 .. W - 1
      PROVE  Found(S, i, k) = IF i = Bytes THEN -1
                          ELSE IF ByteOf(S, i) = {} THEN g[i + 1][k]
                          ELSE IF Rest(S, i, k) # {} THEN i * W + Min(Rest(S, i, k))
                          ELSE g[i + 1][0]
  <2>1. i # Bytes => i + 1 \in 0 .. Bytes
    BY BytesEnough
  <2>2. 0 \in 0 .. W - 1
    BY DEF Sizes
  <2>3. i # Bytes => g[i + 1][k] = Found(S, i + 1, k) /\ g[i + 1][0] = Found(S, i + 1, 0)
    BY <2>1, <2>2
  <2> HIDE DEF g
  <2> QED BY <2>3, FoundStep
<1>2. IsLoop(g, S)
  <2> DEFINE h == [i \in 0 .. Bytes |-> [k \in 0 .. W - 1 |->
            IF i = Bytes THEN -1
            ELSE IF ByteOf(S, i) = {} THEN g[i + 1][k]
            ELSE IF Rest(S, i, k) # {} THEN i * W + Min(Rest(S, i, k))
            ELSE g[i + 1][0]]]
  <2>1. g = h
    BY <1>1, Zenon
  <2> HIDE DEF g
  <2> QED BY <2>1 DEF IsLoop, Rest
<1> QED BY <1>2

\* ... and its value is the closed form, since a last byte where it is not would
\* be followed by one where it is.
LEMMA LoopIsFound ==
  ASSUME Sizes, NEW S, InBytes(S), NEW f, IsLoop(f, S),
         NEW i \in 0 .. Bytes, NEW k \in 0 .. W - 1
  PROVE  f[i][k] = Found(S, i, k)
<1> DEFINE Right(n) == \A c \in 0 .. W - 1 : f[Bytes - n][c] = Found(S, Bytes - n, c)
           Wrong == {n \in 0 .. Bytes : ~Right(n)}
<1>0. Bytes \in Nat /\ 0 \in 0 .. W - 1
  BY BytesEnough DEF Sizes
<1>1. ASSUME NEW a \in 0 .. Bytes, NEW c \in 0 .. W - 1
      PROVE  f[a][c] = IF a = Bytes THEN -1
                       ELSE IF ByteOf(S, a) = {} THEN f[a + 1][c]
                       ELSE IF Rest(S, a, c) # {} THEN a * W + Min(Rest(S, a, c))
                       ELSE f[a + 1][0]
  <2> DEFINE g(b) == [d \in 0 .. W - 1 |->
            IF b = Bytes THEN -1
            ELSE IF ByteOf(S, b) = {} THEN f[b + 1][d]
            ELSE IF Rest(S, b, d) # {} THEN b * W + Min(Rest(S, b, d))
            ELSE f[b + 1][0]]
             h == [b \in 0 .. Bytes |-> g(b)]
  <2>1. f = h
    BY DEF IsLoop, Rest
  <2>2. h[a] = g(a)
    <3> HIDE DEF g
    <3> QED OBVIOUS
  <2>3. f[a] = g(a)
    <3> HIDE DEF g, h
    <3> QED BY <2>1, <2>2
  <2>4. f[a][c] = g(a)[c]
    <3> HIDE DEF g
    <3> QED BY <2>3
  <2> HIDE DEF h
  <2> QED BY <2>4
<1>2. Wrong = {}
  <2> SUFFICES ASSUME Wrong # {} PROVE FALSE
    OBVIOUS
  <2>1. PICK n \in Wrong : \A y \in Wrong : n <= y
    <3>1. Wrong \subseteq Nat
      BY <1>0
    <3> HIDE DEF Wrong
    <3> QED BY <3>1, LeastOf
  <2>2. n \in 0 .. Bytes /\ ~Right(n)
    OBVIOUS
  <2>3. PICK a \in 0 .. Bytes : a = Bytes - n
    BY <2>2, <1>0
  <2>4. a # Bytes => \A c \in 0 .. W - 1 : f[a + 1][c] = Found(S, a + 1, c)
    <3> SUFFICES ASSUME a # Bytes PROVE \A c \in 0 .. W - 1 : f[a + 1][c] = Found(S, a + 1, c)
      OBVIOUS
    <3>1. n - 1 \in 0 .. Bytes /\ ~(n <= n - 1) /\ Bytes - (n - 1) = a + 1
      BY <2>2, <2>3, <1>0
    <3>2. Right(n - 1)
      BY <3>1, <2>1
    <3> QED BY <3>1, <3>2
  <2>5. ASSUME NEW c \in 0 .. W - 1 PROVE f[a][c] = Found(S, a, c)
    BY <1>0, <1>1, <2>4, FoundStep
  <2> QED BY <2>2, <2>3, <2>5
<1>3. Bytes - i \in 0 .. Bytes /\ Bytes - (Bytes - i) = i
  BY <1>0
<1>4. Right(Bytes - i)
  BY <1>2, <1>3
<1> QED BY <1>3, <1>4

LEMMA SearchIsFound ==
  ASSUME Sizes, NEW S, InBytes(S), NEW start \in Nat, start \div W \in 0 .. Bytes
  PROVE  Search(S, start) = Found(S, start \div W, start % W)
<1>1. PICK f : f = CHOOSE g : IsLoop(g, S)
  OBVIOUS
<1>2. IsLoop(f, S)
  BY <1>1, LoopExists
<1>3. Search(S, start) = f[start \div W][start % W]
  BY <1>1 DEF Search, IsLoop
<1>4. start % W \in 0 .. W - 1
  BY DivMod
<1> QED BY <1>2, <1>3, <1>4, LoopIsFound

-----------------------------------------------------------------------------
(* The searches.                                                           *)

LEMMA SearchFromZero ==
  ASSUME Sizes, NEW S, InBytes(S)
  PROVE  Search(S, 0) = First(S)
<1>1. PICK w \in Nat : w = W /\ w > 0
  BY DEF Sizes
<1>2. 0 \div W = 0 /\ 0 % W = 0
  <2>1. 0 \div w = 0
    BY <1>1
  <2>2. 0 % w = 0
    BY <1>1
  <2> QED BY <1>1, <2>1, <2>2
<1>3. 0 \in 0 .. Bytes
  BY BytesEnough
<1>4. Search(S, 0) = Found(S, 0, 0)
  BY <1>2, <1>3, SearchIsFound
<1>5. From(S, 0) = S
  <2>1. 0 * W = 0
    BY <1>1
  <2>2. \A x \in S : x >= 0
    BY BytesEnough DEF InBytes
  <2> QED BY <2>1, <2>2 DEF From
<1> QED BY <1>4, <1>5, FoundFirst

\* Behind a match the offset is in a byte that is not skipped, or is zero.
LEMMA SearchBehind ==
  ASSUME Sizes, NEW S, InBytes(S), NEW i \in S
  PROVE  Search(S, i + 1) = First({x \in S : x > i})
<1> DEFINE Later == {x \in S : x > i}
<1>0. W \in Nat /\ W > 0 /\ S \subseteq Nat /\ i \in Nat /\ i + 1 \in Nat
  BY BytesEnough DEF InBytes, Sizes
<1>1. PICK q \in Nat, r \in 0 .. W - 1 : q = (i + 1) \div W /\ r = (i + 1) % W /\ i + 1 = q * W + r
  BY <1>0, DivMod
<1>2. PICK a \in Nat : a = q * W
  BY <1>0
<1>3. q \in 0 .. Bytes
  <2> SUFFICES ASSUME Bytes < q PROVE FALSE
    BY BytesEnough
  <2>1. PICK m \in Nat : m = Bytes * W /\ i < m
    BY BytesEnough, <1>0 DEF InBytes
  <2>2. (Bytes + 1) * W <= q * W /\ (Bytes + 1) * W = Bytes * W + W
    BY BytesEnough, Multiples
  <2>3. m + W <= a
    BY <1>2, <2>1, <2>2
  <2> QED BY <2>1, <2>3, <1>0, <1>1, <1>2
<1>4. Search(S, i + 1) = Found(S, q, r)
  BY <1>0, <1>1, <1>3, SearchIsFound
<1>5. CASE r = 0
  <2>1. a = i + 1
    BY <1>0, <1>1, <1>2, <1>5
  <2>2. From(S, q) = Later
    <3>1. \A x \in S : x >= a <=> x > i
      BY <2>1, <1>0
    <3> QED BY <3>1, <1>2 DEF From
  <2> QED BY <1>4, <1>5, <2>2, FoundFirst
<1>6. CASE r # 0
  <2>1. r - 1 \in 0 .. W - 1 /\ i = a + (r - 1)
    BY <1>0, <1>1, <1>2, <1>6
  <2>2. r - 1 \in ByteOf(S, q)
    BY <2>1, <1>2 DEF ByteOf
  <2>3. From(S, q) # {} /\ Min(From(S, q)) \div W = q
    BY <2>2, HitByte
  <2>4. Found(S, q, r) = IF Rest(S, q, r) # {} THEN q * W + Min(Rest(S, q, r))
                         ELSE First(From(S, q + 1))
    BY <2>3 DEF Found
  <2>5. CASE Rest(S, q, r) # {}
    <3>1. PICK b \in Rest(S, q, r) : b = Min(Rest(S, q, r)) /\ \A y \in Rest(S, q, r) : b <= y
      BY <2>5, ByteType, LeastOf
    <3>2. b \in 0 .. W - 1 /\ a + b \in S /\ b >= r
      BY <3>1, <1>2 DEF Rest, ByteOf
    <3>3. a + b \in Later
      BY <3>2, <2>1, <1>0
    <3>4. ASSUME NEW x \in Later PROVE a + b <= x
      <4>1. x \in S /\ x \in Nat /\ x > i
        BY <1>0
      <4>2. CASE x >= a + W
        BY <4>2, <4>1, <3>2, <1>0, <1>2
      <4>3. CASE x < a + W
        <5>1. x - a \in 0 .. W - 1 /\ x - a >= r /\ a + (x - a) = x
          BY <4>1, <4>3, <2>1, <1>0, <1>2
        <5>2. x - a \in Rest(S, q, r)
          BY <5>1, <4>1, <1>2 DEF Rest, ByteOf
        <5>3. b <= x - a
          BY <5>2, <3>1
        <5> QED BY <5>1, <5>3, <4>1, <3>2, <1>2
      <4> QED BY <4>1, <4>2, <4>3, <1>0
    <3>5. Later \subseteq Nat
      BY <1>0
    <3> HIDE DEF Later
    <3>6. Min(Later) = a + b
      BY <3>3, <3>4, <3>5, LeastIs
    <3>7. First(Later) = a + b
      BY <3>3, <3>6 DEF First
    <3> QED BY <2>4, <2>5, <3>1, <3>7, <1>2, <1>4 DEF Later
  <2>6. CASE Rest(S, q, r) = {}
    <3>1. (q + 1) * W = a + W
      BY <1>0, <1>2
    <3>2. ASSUME NEW x \in S PROVE x >= a + W <=> x > i
      <4>1. x \in Nat
        BY <1>0
      <4>2. ASSUME x > i, x < a + W PROVE FALSE
        <5>1. x - a \in 0 .. W - 1 /\ x - a >= r /\ a + (x - a) = x
          BY <4>1, <4>2, <2>1, <1>0, <1>2
        <5>2. x - a \in Rest(S, q, r)
          BY <5>1, <1>2 DEF Rest, ByteOf
        <5> QED BY <5>2, <2>6
      <4>3. x >= a + W => x > i
        BY <4>1, <2>1, <1>0, <1>2
      <4> QED BY <4>1, <4>2, <4>3, <1>0, <1>2
    <3>3. From(S, q + 1) = Later
      BY <3>1, <3>2 DEF From
    <3> QED BY <2>4, <2>6, <3>3, <1>4
  <2> QED BY <2>5, <2>6
<1> QED BY <1>5, <1>6

LEMMA ClipFirst ==
  ASSUME Sizes, NEW T, T \subseteq Nat
  PROVE  Clip(First(T)) = First({x \in T : x < Size})
<1> DEFINE U == {x \in T : x < Size}
<1>0. Size \in Nat
  BY DEF Sizes
<1>1. CASE T = {}
  BY <1>0, <1>1 DEF Clip, First
<1>2. CASE T # {}
  <2>1. PICK m \in T : m = Min(T) /\ \A y \in T : m <= y
    BY <1>2, LeastOf
  <2>2. First(T) = m /\ m \in Nat
    BY <1>2, <2>1 DEF First
  <2>3. CASE m >= Size
    <3>1. U = {}
      <4>1. \A y \in T : ~(y < Size)
        BY <1>0, <2>1, <2>2, <2>3
      <4> QED BY <4>1
    <3> HIDE DEF U
    <3> QED BY <2>2, <2>3, <3>1 DEF Clip, First, U
  <2>4. CASE m < Size
    <3>1. m \in U /\ U \subseteq Nat /\ \A y \in U : m <= y
      BY <2>1, <2>4
    <3> HIDE DEF U
    <3>2. Min(U) = m
      BY <3>1, LeastIs
    <3>3. First(U) = m /\ Clip(m) = m
      BY <3>1, <3>2, <2>2, <2>4, <1>0 DEF First, Clip
    <3> QED BY <2>2, <3>3 DEF U
  <2> QED BY <1>0, <2>2, <2>3, <2>4
<1> QED BY <1>1, <1>2

\* next_unsetted_bit from 0 is the lowest clear bit, or -1 when every bit of the
\* size is set, for any byte width and any size: the bits that pad the last byte
\* are never answered.
THEOREM LowestClear ==
  ASSUME Sizes, NEW bits, bits \subseteq 0 .. Size - 1
  PROVE  NextUnsettedBit(bits, 0) = First((0 .. Size - 1) \ bits)
<1> DEFINE T == (0 .. Bytes * W - 1) \ bits
<1>1. PICK m \in Nat : m = Bytes * W /\ m >= Size /\ Size \in Nat
  BY BytesEnough DEF Sizes
<1>2. InBytes(T) /\ T \subseteq Nat
  BY <1>1 DEF InBytes
<1>3. {x \in T : x < Size} = (0 .. Size - 1) \ bits
  BY <1>1
<1>4. NextUnsettedBit(bits, 0) = Clip(Search(T, 0))
  BY DEF NextUnsettedBit
<1> HIDE DEF T
<1> QED BY <1>2, <1>3, <1>4, SearchFromZero, ClipFirst

\* next_setted_bit, called from 0 and then from behind each bit it answered, visits
\* every set bit once and in order: the offset that outlives its byte in the loop
\* never skips a match on these calls.
THEOREM EverySetBit ==
  ASSUME Sizes, NEW bits, bits \subseteq 0 .. Size - 1, NEW i \in bits \cup {-1}
  PROVE  NextSettedBit(bits, i + 1) = First({j \in bits : j > i})
<1>1. PICK m \in Nat : m = Bytes * W /\ m >= Size /\ Size \in Nat
  BY BytesEnough DEF Sizes
<1>2. InBytes(bits) /\ bits \subseteq Nat
  BY <1>1 DEF InBytes
<1>3. Search(bits, i + 1) = First({j \in bits : j > i})
  <2>1. CASE i \in bits
    BY <1>2, <2>1, SearchBehind
  <2>2. CASE i = -1
    <3>1. \A j \in bits : j > i
      BY <1>2, <2>2
    <3>2. {j \in bits : j > i} = bits
      BY <3>1
    <3>3. i + 1 = 0
      BY <2>2
    <3> QED BY <1>2, <3>2, <3>3, SearchFromZero
  <2> QED BY <2>1, <2>2
<1>4. PICK U : U = {j \in bits : j > i}
  OBVIOUS
<1>5. U \subseteq Nat /\ {x \in U : x < Size} = U
  <2>1. U \subseteq bits
    BY <1>4
  <2>2. \A x \in bits : x < Size
    BY <1>1
  <2> QED BY <1>2, <2>1, <2>2
<1>6. Clip(First(U)) = First(U)
  BY <1>5, ClipFirst
<1> QED BY <1>3, <1>4, <1>6 DEF NextSettedBit

=============================================================================

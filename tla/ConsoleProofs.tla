--------------------------- MODULE ConsoleProofs ---------------------------
(***************************************************************************)
(* Proofs about the console's input ring, for every ring size, every word  *)
(* size that is a multiple of it, and every set of readers: a reader that  *)
(* sleeps leaves no finished line, a read returns part of one line, and    *)
(* ring and readers are the line queue.                                    *)
(*                                                                         *)
(* IInv is inductive.  It says that the three indices are in order and at  *)
(* most a ring apart, that the line being typed holds no line end, who has *)
(* input.lock, and what a reader in the loop can have.                     *)
(***************************************************************************)
EXTENDS Console, WellFoundedInduction, TLAPS

(* The time a prover is given for a step. *)
USE SMTT(60), ZenonT(30)

Index == 0..Word-1
(* The place in the ring of the k-th character from index i on. *)
Slot(i, k) == Plus(i, k - 1) % INPUT_BUF
(* The window of a ring with contents b. *)
Win(b, i, j) == [k \in 1..Minus(j, i) |-> b[Slot(i, k)]]

-----------------------------------------------------------------------------
(* Arithmetic of the counters and of the ring.                             *)

(* A remainder is in range. *)
LEMMA ModRange ==
  ASSUME NEW m \in Nat \ {0}, NEW x \in Int
  PROVE x % m \in 0..m-1
  OBVIOUS

(* Division with remainder. *)
LEMMA ModQuotient ==
  ASSUME NEW m \in Nat \ {0}, NEW x \in Int
  PROVE \E k \in Int : x = k * m + (x % m)
<1>1. x \div m \in Int
  OBVIOUS
<1>2. x = (x \div m) * m + (x % m)
  OBVIOUS
<1> QED BY <1>1, <1>2, Zenon

(* Remainders are unique. *)
LEMMA ModUnique ==
  ASSUME NEW m \in Nat \ {0}, NEW k \in Int, NEW a \in 0..m-1
  PROVE (k * m + a) % m = a
  OBVIOUS

(* The sizes, and the word as a multiple of the ring. *)
LEMMA Sizes ==
  /\ INPUT_BUF \in Nat \ {0} /\ Word \in Nat \ {0} /\ MaxN \in Nat \ {0} /\ INPUT_BUF < Word
  /\ \E k \in Int : Word = k * INPUT_BUF
<1>1. INPUT_BUF \in Nat \ {0} /\ Word \in Nat \ {0} /\ MaxN \in Nat \ {0} /\ INPUT_BUF < Word
  BY ConsoleAssumption, Zenon
<1>2. PICK k \in Int : Word = k * INPUT_BUF + (Word % INPUT_BUF)
  <2>1. Word \in Int
    BY <1>1
  <2> QED BY <1>1, <2>1, ModQuotient, Zenon
<1>3. Word = k * INPUT_BUF
  BY <1>1, <1>2, ConsoleAssumption
<1> QED BY <1>1, <1>3, Zenon

(* A counter that wraps keeps its place in the ring: the word is a multiple *)
(* of the ring.                                                             *)
LEMMA ModWord ==
  ASSUME NEW x \in Int, NEW y \in Int
  PROVE ((x % Word) + y) % INPUT_BUF = (x + y) % INPUT_BUF
<1> DEFINE z == (x % Word) + y
<1>1. PICK k \in Int : Word = k * INPUT_BUF
  BY Sizes, Zenon
<1>2. PICK l \in Int : x = l * Word + (x % Word)
  BY Sizes, ModQuotient, Zenon
<1>3. z \in Int
  BY Sizes, ModRange
<1>4. PICK m \in Int : z = m * INPUT_BUF + (z % INPUT_BUF)
  BY <1>3, Sizes, ModQuotient, Zenon
<1> DEFINE a == z % INPUT_BUF
<1>5. a \in 0..INPUT_BUF-1
  BY <1>3, Sizes, ModRange, Zenon
<1>6. x + y = l * Word + z
  BY <1>2, <1>3, Sizes, ModRange
<1>7. l * Word = (l * k) * INPUT_BUF
  BY <1>1, Sizes
<1>8. x + y = (l * k + m) * INPUT_BUF + a /\ l * k + m \in Int
  <2> HIDE DEF z, a
  <2>1. z = m * INPUT_BUF + a
    BY <1>4, Zenon DEF a
  <2>2. l * k \in Int /\ INPUT_BUF \in Int /\ a \in Int
    BY <1>5, Sizes
  <2>3. (l * k) * INPUT_BUF + m * INPUT_BUF = (l * k + m) * INPUT_BUF
    BY <2>2
  <2> QED BY <1>6, <1>7, <2>1, <2>2, <2>3
<1> HIDE DEF z, a
<1>9. (x + y) % INPUT_BUF = a
  BY <1>5, <1>8, Sizes, ModUnique, Zenon
<1> QED BY <1>9, Zenon DEF a, z

(* Places less than a ring apart are different. *)
LEMMA ModApart ==
  ASSUME NEW m \in Nat \ {0}, NEW x \in Int, NEW d \in 1..m-1
  PROVE (x + d) % m # x % m
<1>1. PICK k \in Int : x = k * m + (x % m)
  BY ModQuotient, Zenon
<1>2. x + d \in Int
  OBVIOUS
<1>3. PICK l \in Int : x + d = l * m + ((x + d) % m)
  BY <1>2, ModQuotient, Zenon
<1> DEFINE a == x % m
           b == (x + d) % m
<1>4. a \in 0..m-1 /\ b \in 0..m-1
  BY <1>2, ModRange, Zenon
<1> SUFFICES ASSUME a = b PROVE FALSE
  OBVIOUS
<1> HIDE DEF a, b
<1>5. x = k * m + a /\ x + d = l * m + a
  BY <1>1, <1>3, Zenon DEF a, b
<1>6. d = (l - k) * m
  BY <1>4, <1>5
<1>7. l - k >= 1 => (l - k) * m >= m
  OBVIOUS
<1>8. l - k <= 0 => (l - k) * m <= 0
  OBVIOUS
<1> QED BY <1>6, <1>7, <1>8

(* The difference and the sum of counters without the remainder. *)
LEMMA Counters ==
  ASSUME NEW x \in Index, NEW y \in Index
  PROVE /\ Minus(y, x) = IF x <= y THEN y - x ELSE y - x + Word
        /\ Plus(x, y) = IF x + y < Word THEN x + y ELSE x + y - Word
        /\ Minus(y, x) \in Index /\ Plus(x, y) \in Index
  BY Sizes DEF Minus, Plus, Index

(* Counters meet only where they are equal. *)
LEMMA MinusZero ==
  ASSUME NEW i \in Index, NEW j \in Index
  PROVE i = j <=> Minus(j, i) = 0
<1>1. Minus(j, i) = IF i <= j THEN j - i ELSE j - i + Word
  BY Counters, Zenon
<1> QED BY <1>1, Sizes DEF Index

(* Adding the difference leads to the other counter. *)
LEMMA PlusMinus ==
  ASSUME NEW i \in Index, NEW j \in Index
  PROVE Plus(i, Minus(j, i)) = j
<1> DEFINE n == Minus(j, i)
<1>1. n = (IF i <= j THEN j - i ELSE j - i + Word) /\ n \in Index
  BY Counters, Zenon
<1> HIDE DEF n
<1>2. Plus(i, n) = IF i + n < Word THEN i + n ELSE i + n - Word
  BY <1>1, Counters, Zenon
<1> QED BY <1>1, <1>2, Sizes DEF Index, n

(* The difference shrinks as its lower counter moves on... *)
LEMMA Advance ==
  ASSUME NEW i \in Index, NEW j \in Index, NEW k \in 0..Minus(j, i)
  PROVE k \in Index /\ Plus(i, k) \in Index /\ Minus(j, Plus(i, k)) = Minus(j, i) - k
<1> DEFINE n == Minus(j, i)
           h == Plus(i, k)
<1>1. n = (IF i <= j THEN j - i ELSE j - i + Word) /\ n \in Index
  BY Counters, Zenon
<1>2. k \in 0..n
  OBVIOUS
<1> HIDE DEF n
<1>3. k \in Index
  BY <1>1, <1>2, Sizes DEF Index
<1>4. h = (IF i + k < Word THEN i + k ELSE i + k - Word) /\ h \in Index
  BY <1>3, Counters, Zenon
<1> HIDE DEF h
<1>5. Minus(j, h) = IF h <= j THEN j - h ELSE j - h + Word
  BY <1>4, Counters, Zenon
<1>6. Minus(j, h) = n - k
  BY <1>1, <1>2, <1>4, <1>5, Sizes DEF Index
<1> QED BY <1>3, <1>4, <1>6, Zenon DEF n, h

(* ... grows as its upper counter does... *)
LEMMA Grow ==
  ASSUME NEW i \in Index, NEW j \in Index, Minus(j, i) < INPUT_BUF
  PROVE Plus(j, 1) \in Index /\ Minus(Plus(j, 1), i) = Minus(j, i) + 1
<1> DEFINE n == Minus(j, i)
           h == Plus(j, 1)
<1>1. n = (IF i <= j THEN j - i ELSE j - i + Word) /\ n < INPUT_BUF
  BY Counters, Zenon
<1> HIDE DEF n
<1>2. 1 \in Index
  BY Sizes DEF Index
<1>3. h = (IF j + 1 < Word THEN j + 1 ELSE j + 1 - Word) /\ h \in Index
  BY <1>2, Counters, Zenon
<1> HIDE DEF h
<1>4. Minus(h, i) = IF i <= h THEN h - i ELSE h - i + Word
  BY <1>3, Counters, Zenon
<1>5. Minus(h, i) = n + 1
  BY <1>1, <1>3, <1>4, Sizes DEF Index
<1> QED BY <1>3, <1>5, Zenon DEF n, h

(* ... and shrinks as that goes back. *)
LEMMA Shrink ==
  ASSUME NEW i \in Index, NEW j \in Index, NEW k \in 0..Minus(j, i)
  PROVE k \in Index /\ Minus(j, k) \in Index /\ Minus(Minus(j, k), i) = Minus(j, i) - k
<1> DEFINE n == Minus(j, i)
           h == Minus(j, k)
<1>1. n = (IF i <= j THEN j - i ELSE j - i + Word) /\ n \in Index
  BY Counters
<1>2. k \in 0..n
  OBVIOUS
<1> HIDE DEF n
<1>3. k \in Index
  BY <1>1, <1>2, Sizes DEF Index
<1>4. h = (IF k <= j THEN j - k ELSE j - k + Word) /\ h \in Index
  BY <1>3, Counters, Zenon
<1> HIDE DEF h
<1>5. Minus(h, i) = IF i <= h THEN h - i ELSE h - i + Word
  BY <1>4, Counters, Zenon
<1>6. Minus(h, i) = n - k
  BY <1>1, <1>2, <1>4, <1>5, Sizes DEF Index
<1> QED BY <1>3, <1>4, <1>6, Zenon DEF n, h

(* A place is in the ring. *)
LEMMA SlotIn ==
  ASSUME NEW i \in Int, NEW k \in Int
  PROVE Slot(i, k) \in 0..INPUT_BUF-1 /\ Slot(i, k) = (i + k - 1) % INPUT_BUF
<1>1. Slot(i, k) = (((i + (k - 1)) % Word) + 0) % INPUT_BUF
  BY Sizes, ModRange DEF Slot, Plus
<1>2. Slot(i, k) = ((i + (k - 1)) + 0) % INPUT_BUF
  BY <1>1, ModWord
<1>3. (i + (k - 1)) + 0 = i + k - 1
  OBVIOUS
<1>4. Slot(i, k) = (i + k - 1) % INPUT_BUF
  BY <1>2, <1>3, Zenon
<1> QED BY <1>4, Sizes, ModRange

(* The place of the first character. *)
LEMMA SlotFirst ==
  ASSUME NEW i \in Index
  PROVE Slot(i, 1) = i % INPUT_BUF
<1>1. i \in Int /\ i + 1 - 1 = i
  BY DEF Index
<1> QED BY <1>1, SlotIn

(* Places relative to a counter further on. *)
LEMMA SlotPlus ==
  ASSUME NEW i \in Index, NEW d \in Int, NEW k \in Int
  PROVE Slot(Plus(i, d), k) = Slot(i, d + k)
<1>1. i \in Int /\ i + d \in Int /\ k - 1 \in Int /\ Plus(i, d) \in Int
  BY Sizes, ModRange DEF Index, Plus
<1>2. Slot(Plus(i, d), k) = (Plus(i, d) + k - 1) % INPUT_BUF
  BY <1>1, SlotIn, Zenon
<1>3. Plus(i, d) + k - 1 = ((i + d) % Word) + (k - 1)
  BY <1>1, Zenon DEF Plus
<1>4. Slot(Plus(i, d), k) = ((i + d) + (k - 1)) % INPUT_BUF
  BY <1>1, <1>2, <1>3, ModWord
<1>5. (i + d) + (k - 1) = i + (d + k) - 1
  BY <1>1
<1>6. Slot(i, d + k) = (i + (d + k) - 1) % INPUT_BUF
  BY <1>1, SlotIn
<1> QED BY <1>4, <1>5, <1>6, Zenon

(* Characters less than a ring apart have places of their own. *)
LEMMA SlotApart ==
  ASSUME NEW i \in Int, NEW k \in Int, NEW l \in Int, k < l, l - k < INPUT_BUF
  PROVE Slot(i, k) # Slot(i, l)
<1>1. i + k - 1 \in Int /\ l - k \in 1..INPUT_BUF-1 /\ (i + k - 1) + (l - k) = i + l - 1
  BY Sizes
<1>2. ((i + k - 1) + (l - k)) % INPUT_BUF # (i + k - 1) % INPUT_BUF
  BY <1>1, Sizes, ModApart, Zenon
<1> QED BY <1>1, <1>2, SlotIn

-----------------------------------------------------------------------------
(* Windows of the ring.                                                    *)

(* A sequence that agrees with two others, one after the other. *)
LEMMA Joined ==
  ASSUME NEW S, NEW u \in Seq(S), NEW a \in Seq(S), NEW b \in Seq(S), Len(u) = Len(a) + Len(b),
         \A k \in 1..Len(a) : u[k] = a[k], \A k \in 1..Len(b) : u[Len(a) + k] = b[k]
  PROVE u = a \o b
<1>1. a \o b \in Seq(S) /\ Len(a \o b) = Len(a) + Len(b)
  OBVIOUS
<1>2. \A k \in 1..Len(u) : u[k] = (a \o b)[k]
  <2> SUFFICES ASSUME NEW k \in 1..Len(u) PROVE u[k] = (a \o b)[k]
    OBVIOUS
  <2>1. CASE k <= Len(a)
    BY <2>1
  <2>2. CASE k > Len(a)
    <3> DEFINE l == k - Len(a)
    <3>1. l \in 1..Len(b) /\ k = Len(a) + l
      BY <2>2
    <3>2. (a \o b)[k] = b[l]
      BY <2>2
    <3> HIDE DEF l
    <3> QED BY <3>1, <3>2, Zenon
  <2> QED BY <2>1, <2>2
<1> DEFINE v == a \o b
<1> HIDE DEF v
<1>3. v \in Seq(S) /\ Len(v) = Len(u) /\ \A k \in 1..Len(u) : u[k] = v[k]
  BY <1>1, <1>2, Zenon DEF v
<1>4. u = v
  BY <1>3
<1> QED BY <1>4, Zenon DEF v

(* Appending to two sequences one after the other. *)
LEMMA AppendJoined ==
  ASSUME NEW a \in Seq(Chars), NEW b \in Seq(Chars), NEW c \in Chars
  PROVE Append(a \o b, c) = a \o Append(b, c)
  OBVIOUS

Ring == [0..INPUT_BUF-1 -> Chars]

(* A window is a sequence of characters, one for each place. *)
LEMMA WinSeq ==
  ASSUME NEW b \in Ring, NEW i \in Index, NEW j \in Index
  PROVE /\ Minus(j, i) \in Nat
        /\ Win(b, i, j) \in Seq(Chars) /\ Len(Win(b, i, j)) = Minus(j, i)
        /\ \A k \in 1..Minus(j, i) : Win(b, i, j)[k] = b[Slot(i, k)]
<1>1. Minus(j, i) \in Nat
  BY Counters DEF Index
<1>2. \A k \in 1..Minus(j, i) : b[Slot(i, k)] \in Chars
  BY <1>1, SlotIn DEF Ring, Index
<1> HIDE DEF Minus, Slot
<1> QED BY <1>1, <1>2 DEF Win

(* The index after the last character of a window. *)
LEMMA SlotEnd ==
  ASSUME NEW i \in Index, NEW j \in Index
  PROVE Slot(i, Minus(j, i) + 1) = j % INPUT_BUF
<1>1. Minus(j, i) \in Index /\ Minus(j, i) \in Int
  BY Counters DEF Index
<1>2. Plus(i, Minus(j, i)) = j
  BY PlusMinus, Zenon
<1>3. Slot(i, Minus(j, i) + 1) = Slot(j, 1)
  BY <1>1, <1>2, SlotPlus
<1>4. Slot(j, 1) = j % INPUT_BUF
  BY SlotFirst, Zenon
<1> QED BY <1>3, <1>4, Zenon

(* Storing a character at the end of a window that does not fill the ring  *)
(* appends it.                                                             *)
LEMMA WinAppend ==
  ASSUME NEW b \in Ring, NEW i \in Index, NEW j \in Index, NEW c \in Chars,
         Minus(j, i) < INPUT_BUF
  PROVE /\ Minus(Plus(j, 1), i) = Minus(j, i) + 1
        /\ Win([b EXCEPT ![j % INPUT_BUF] = c], i, Plus(j, 1)) = Append(Win(b, i, j), c)
<1> DEFINE d == [b EXCEPT ![j % INPUT_BUF] = c]
           n == Minus(j, i)
           W == Win(b, i, j)
           V == Win(d, i, Plus(j, 1))
<1>1. n \in Nat /\ n < INPUT_BUF /\ Plus(j, 1) \in Index
  BY Grow, Counters DEF Index
<1>2. Minus(Plus(j, 1), i) = n + 1
  BY Grow, Zenon
<1>3. j % INPUT_BUF \in 0..INPUT_BUF-1 /\ j % INPUT_BUF = Slot(i, n + 1)
  BY SlotEnd, Sizes, ModRange DEF Index
<1>4. d \in Ring
  BY <1>3, Zenon DEF Ring
<1>5. /\ W \in Seq(Chars) /\ Len(W) = n /\ \A k \in 1..n : W[k] = b[Slot(i, k)]
      /\ V \in Seq(Chars) /\ Len(V) = n + 1 /\ \A k \in 1..n+1 : V[k] = d[Slot(i, k)]
  <2> HIDE DEF d, n
  <2>1. /\ W \in Seq(Chars) /\ Len(W) = n /\ \A k \in 1..n : W[k] = b[Slot(i, k)]
    BY WinSeq, Zenon DEF n
  <2>2. /\ V \in Seq(Chars) /\ Len(V) = Minus(Plus(j, 1), i)
        /\ \A k \in 1..Minus(Plus(j, 1), i) : V[k] = d[Slot(i, k)]
    BY <1>1, <1>4, WinSeq, Zenon
  <2> QED BY <1>2, <2>1, <2>2, Zenon
<1>6. d[Slot(i, n + 1)] = c
  BY <1>3, Zenon DEF Ring
<1>7. \A k \in 1..n : d[Slot(i, k)] = b[Slot(i, k)]
  <2> SUFFICES ASSUME NEW k \in 1..n PROVE d[Slot(i, k)] = b[Slot(i, k)]
    OBVIOUS
  <2> DEFINE l == n + 1
  <2>a. i \in Int /\ k \in Int /\ l \in Int /\ k < l /\ l - k < INPUT_BUF
    BY <1>1, Sizes DEF Index
  <2> HIDE DEF l
  <2>b. Slot(i, k) # Slot(i, l) /\ Slot(i, k) \in 0..INPUT_BUF-1
    BY <2>a, SlotApart, SlotIn, Zenon
  <2>1. Slot(i, k) # Slot(i, n + 1) /\ Slot(i, k) \in 0..INPUT_BUF-1
    BY <2>b, Zenon DEF l
  <2> QED BY <1>3, <2>1, Zenon DEF Ring
<1> HIDE DEF d, n, W, V
<1>8. V = Append(W, c)
  BY <1>1, <1>5, <1>6, <1>7
<1> QED BY <1>2, <1>8, Zenon DEF d, n, W, V

(* It leaves a window alone that the stored character is beyond. *)
LEMMA WinKeep ==
  ASSUME NEW b \in Ring, NEW i \in Index, NEW h \in Index, NEW j \in Index, NEW c \in Chars,
         Minus(h, i) <= Minus(j, i), Minus(j, i) < INPUT_BUF
  PROVE Win([b EXCEPT ![j % INPUT_BUF] = c], i, h) = Win(b, i, h)
<1>1. Minus(h, i) \in Nat /\ Minus(j, i) \in Nat
  BY Counters DEF Index
<1>2. j % INPUT_BUF = Slot(i, Minus(j, i) + 1)
  BY SlotEnd, Zenon
<1>3. ASSUME NEW k \in 1..Minus(h, i)
      PROVE [b EXCEPT ![j % INPUT_BUF] = c][Slot(i, k)] = b[Slot(i, k)]
  <2> DEFINE n == Minus(j, i) + 1
  <2>a. i \in Int /\ k \in Int /\ n \in Int /\ k < n /\ n - k < INPUT_BUF
    BY <1>1, Sizes DEF Index
  <2> HIDE DEF n
  <2>b. Slot(i, k) # Slot(i, n) /\ Slot(i, k) \in 0..INPUT_BUF-1
    BY <2>a, SlotApart, SlotIn, Zenon
  <2>1. Slot(i, k) # Slot(i, Minus(j, i) + 1) /\ Slot(i, k) \in 0..INPUT_BUF-1
    BY <2>b, Zenon DEF n
  <2> QED BY <1>2, <2>1, Zenon DEF Ring
<1> QED BY <1>3, Zenon DEF Win

(* Adjacent windows. *)
LEMMA WinSplit ==
  ASSUME NEW b \in Ring, NEW i \in Index, NEW h \in Index, NEW j \in Index,
         Minus(h, i) + Minus(j, h) = Minus(j, i)
  PROVE Win(b, i, j) = Win(b, i, h) \o Win(b, h, j)
<1> DEFINE m == Minus(h, i)
           n == Minus(j, h)
<1>1. m \in Nat /\ n \in Nat /\ Minus(j, i) = m + n
  BY Counters DEF Index
<1>2. h = Plus(i, m)
  BY PlusMinus, Zenon
<1>3. \A k \in 1..n : Slot(h, k) = Slot(i, m + k)
  BY <1>1, <1>2, SlotPlus
<1>4. /\ Win(b, i, j) \in Seq(Chars) /\ Len(Win(b, i, j)) = m + n
      /\ \A k \in 1..m+n : Win(b, i, j)[k] = b[Slot(i, k)]
  BY <1>1, WinSeq
<1>5. /\ Win(b, i, h) \in Seq(Chars) /\ Len(Win(b, i, h)) = m
      /\ \A k \in 1..m : Win(b, i, h)[k] = b[Slot(i, k)]
  BY WinSeq, Zenon
<1>6. /\ Win(b, h, j) \in Seq(Chars) /\ Len(Win(b, h, j)) = n
      /\ \A k \in 1..n : Win(b, h, j)[k] = b[Slot(h, k)]
  BY WinSeq, Zenon
<1> DEFINE U == Win(b, i, j)
           A == Win(b, i, h)
           B == Win(b, h, j)
<1>7. /\ U \in Seq(Chars) /\ A \in Seq(Chars) /\ B \in Seq(Chars)
      /\ Len(U) = m + n /\ Len(A) = m /\ Len(B) = n
  BY <1>4, <1>5, <1>6, Zenon
<1>8. \A k \in 1..m : U[k] = A[k]
  <2> HIDE DEF m, n
  <2>1. \A k \in 1..m : k \in 1..m+n
    BY <1>1
  <2> QED BY <1>4, <1>5, <2>1, Zenon
<1>9. \A k \in 1..n : U[m + k] = B[k]
  <2> HIDE DEF m, n
  <2>1. \A k \in 1..n : m + k \in 1..m+n
    BY <1>1
  <2> QED BY <1>3, <1>4, <1>6, <2>1, Zenon
<1> HIDE DEF m, n, U, A, B
<1>10. U = A \o B
  <2>1. /\ Len(U) = Len(A) + Len(B) /\ \A k \in 1..Len(A) : U[k] = A[k]
        /\ \A k \in 1..Len(B) : U[Len(A) + k] = B[k]
    BY <1>7, <1>8, <1>9, Zenon
  <2> QED BY <1>7, <2>1, Joined, Zenon
<1> QED BY <1>10, Zenon DEF U, A, B

(* Reading k characters moves the start of a window. *)
LEMMA WinDrop ==
  ASSUME NEW b \in Ring, NEW i \in Index, NEW j \in Index, NEW k \in 0..Minus(j, i)
  PROVE /\ Plus(i, k) \in Index /\ Minus(j, Plus(i, k)) = Minus(j, i) - k
        /\ Win(b, Plus(i, k), j) = SubSeq(Win(b, i, j), k + 1, Minus(j, i))
<1> DEFINE n == Minus(j, i)
<1>1. n \in Index /\ n \in Nat /\ k \in Index /\ k \in Nat /\ k <= n
  BY Counters, Sizes DEF Index
<1>2. Plus(i, k) \in Index
  BY Advance, Zenon
<1>3. Minus(j, Plus(i, k)) = n - k
  BY Advance, Zenon
<1>4. \A l \in 1..n-k : Slot(Plus(i, k), l) = Slot(i, k + l)
  <2> HIDE DEF n
  <2>1. \A l \in 1..n-k : l \in Int
    BY <1>1
  <2> QED BY <1>1, <2>1, SlotPlus
<1>5. /\ Win(b, Plus(i, k), j) \in Seq(Chars) /\ Len(Win(b, Plus(i, k), j)) = n - k
      /\ \A l \in 1..n-k : Win(b, Plus(i, k), j)[l] = b[Slot(Plus(i, k), l)]
  <2> DEFINE h == Plus(i, k)
  <2> HIDE DEF h, n
  <2>1. h \in Index /\ Minus(j, h) = n - k
    BY <1>2, <1>3 DEF h
  <2>2. /\ Win(b, h, j) \in Seq(Chars) /\ Len(Win(b, h, j)) = Minus(j, h)
        /\ \A l \in 1..Minus(j, h) : Win(b, h, j)[l] = b[Slot(h, l)]
    BY <2>1, WinSeq, Zenon
  <2> QED BY <2>1, <2>2, Zenon DEF h
<1>6. /\ Win(b, i, j) \in Seq(Chars) /\ Len(Win(b, i, j)) = n
      /\ \A l \in 1..n : Win(b, i, j)[l] = b[Slot(i, l)]
  BY WinSeq, Zenon
<1> HIDE DEF n
<1>7. Win(b, Plus(i, k), j) = SubSeq(Win(b, i, j), k + 1, n)
  <2> DEFINE U == Win(b, Plus(i, k), j)
             V == Win(b, i, j)
  <2>1. U \in Seq(Chars) /\ Len(U) = n - k /\ V \in Seq(Chars) /\ Len(V) = n
    BY <1>5, <1>6, Zenon
  <2>a. \A l \in 1..n-k : k + l \in 1..n
    BY <1>1
  <2>2. \A l \in 1..n-k : U[l] = V[k + l]
    BY <1>4, <1>5, <1>6, <2>a, Zenon
  <2> HIDE DEF U, V
  <2>3. U = SubSeq(V, k + 1, n)
    <3>1. SubSeq(V, k + 1, n) \in Seq(Chars) /\ Len(SubSeq(V, k + 1, n)) = n - k
      BY <1>1, <2>1
    <3>2. \A l \in 1..n-k : SubSeq(V, k + 1, n)[l] = V[k + l]
      BY <1>1, <2>1
    <3> QED BY <1>1, <2>1, <2>2, <3>1, <3>2
  <2> QED BY <2>3, Zenon DEF U, V
<1> QED BY <1>2, <1>3, <1>7, Zenon DEF n

(* Erasing a character moves the end of a window. *)
LEMMA WinFront ==
  ASSUME NEW b \in Ring, NEW i \in Index, NEW j \in Index, i # j
  PROVE /\ Minus(j, 1) \in Index /\ Minus(Minus(j, 1), i) = Minus(j, i) - 1 /\ Minus(j, i) > 0
        /\ Win(b, i, Minus(j, 1)) = SubSeq(Win(b, i, j), 1, Len(Win(b, i, j)) - 1)
<1> DEFINE n == Minus(j, i)
<1>1. n \in Nat /\ n > 0 /\ 1 \in 0..n
  <2>1. n \in Nat /\ n # 0
    BY MinusZero, Counters DEF Index
  <2> HIDE DEF n
  <2> QED BY <2>1
<1>2. Minus(j, 1) \in Index
  BY <1>1, Shrink, Zenon
<1>3. Minus(Minus(j, 1), i) = n - 1
  BY <1>1, Shrink, Zenon
<1>4. /\ Win(b, i, Minus(j, 1)) \in Seq(Chars) /\ Len(Win(b, i, Minus(j, 1))) = n - 1
      /\ \A l \in 1..n-1 : Win(b, i, Minus(j, 1))[l] = b[Slot(i, l)]
  BY <1>2, <1>3, WinSeq
<1>5. /\ Win(b, i, j) \in Seq(Chars) /\ Len(Win(b, i, j)) = n
      /\ \A l \in 1..n : Win(b, i, j)[l] = b[Slot(i, l)]
  BY WinSeq, Zenon
<1> HIDE DEF n
<1>6. Win(b, i, Minus(j, 1)) = SubSeq(Win(b, i, j), 1, n - 1)
  BY <1>1, <1>4, <1>5
<1> QED BY <1>1, <1>2, <1>3, <1>5, <1>6, Zenon DEF n

(* The window between equal indices is empty. *)
LEMMA WinEmpty ==
  ASSUME NEW b \in Ring, NEW i \in Index, NEW j \in Index
  PROVE i = j <=> Win(b, i, j) = <<>>
<1>1. i = j <=> Minus(j, i) = 0
  BY MinusZero, Zenon
<1>2. Win(b, i, j) \in Seq(Chars) /\ Len(Win(b, i, j)) = Minus(j, i)
  BY WinSeq, Zenon
<1> QED BY <1>1, <1>2

(* The first element of a set of positions. *)
LEMMA Least ==
  ASSUME NEW S \in SUBSET Nat, S # {}
  PROVE \E k \in S : \A l \in S : k <= l
<1>1. PICK k \in S : \A l \in S : ~(<<l, k>> \in OpToRel(<, Nat))
  BY NatLessThanWellFounded, WFMin, Zenon
<1>2. \A l \in S : ~(l < k)
  BY <1>1, Zenon DEF OpToRel
<1> QED BY <1>2

-----------------------------------------------------------------------------
(* The invariant.                                                          *)
Pcs == {"idle", "read", "tosleep", "sleep", "done"}
TypeOK ==
  /\ buf \in Ring /\ r \in Index /\ w \in Index /\ e \in Index
  /\ holder \in Reader \cup {NoOne}
  /\ rd \in [Reader -> [pc : Pcs, n : Nat, got : Seq(Chars)]]
  /\ killed \in [Reader -> BOOLEAN]

Lines == Window(r, w)
Edit == Window(w, e)

(* The write index is between the other two, and they are at most a ring   *)
(* apart.                                                                  *)
Ordered == /\ Minus(w, r) + Minus(e, w) = Minus(e, r)
           /\ Minus(e, r) <= INPUT_BUF

(* What is being typed holds no line end. *)
EditOpen == \A k \in 1..Len(Edit) : Edit[k] \notin {NL, EOT}

(* The lock is held between two steps only by a reader about to sleep. *)
LockHeld == \A p \in Reader : rd[p].pc = "tosleep" <=> holder = p

(* A reader in the loop wants more, and has seen no line end. *)
Partial == \A p \in Reader : rd[p].pc \in {"read", "tosleep", "sleep"} =>
             /\ Len(rd[p].got) < rd[p].n
             /\ \A k \in 1..Len(rd[p].got) : rd[p].got[k] \notin {NL, EOT}

IInv == TypeOK /\ Ordered /\ EditOpen /\ LockHeld /\ Partial /\ NoSleepWithInput

(* The windows of the state, before and after a step. *)
LEMMA Windows ==
  /\ Lines = Win(buf, r, w) /\ Edit = Win(buf, w, e)
  /\ Lines' = Win(buf', r', w') /\ Edit' = Win(buf', w', e')
  BY Zenon DEF Lines, Edit, Window, Win, Slot

(* Their lengths. *)
LEMMA Lengths ==
  ASSUME TypeOK, Ordered
  PROVE /\ Lines \in Seq(Chars) /\ Len(Lines) = Minus(w, r)
        /\ Edit \in Seq(Chars) /\ Len(Edit) = Minus(e, w)
        /\ Len(Lines) \in Nat /\ Len(Edit) \in Nat
        /\ Len(Lines) + Len(Edit) = Minus(e, r) /\ Minus(e, r) <= INPUT_BUF
<1>1. /\ Win(buf, r, w) \in Seq(Chars) /\ Len(Win(buf, r, w)) = Minus(w, r)
      /\ Win(buf, w, e) \in Seq(Chars) /\ Len(Win(buf, w, e)) = Minus(e, w)
      /\ Minus(w, r) \in Nat /\ Minus(e, w) \in Nat
  BY WinSeq, Zenon DEF TypeOK
<1> QED BY <1>1, Windows, Zenon DEF Ordered

-----------------------------------------------------------------------------
(* What the steps do to the ring.                                          *)

(* A stored character goes to the end of the line being typed, which is    *)
(* finished by a line end or when the ring is full.                        *)
LEMMA Store_ring ==
  ASSUME TypeOK, Ordered, NEW c \in Chars, Store(c)
  PROVE /\ buf' \in Ring /\ e' \in Index /\ w' \in Index /\ r' = r
        /\ Ordered'
        /\ Len(Lines) + Len(Edit) < INPUT_BUF
        /\ IF c \in {NL, EOT} \/ Len(Lines) + Len(Edit) + 1 = INPUT_BUF
           THEN Lines' = Lines \o Append(Edit, c) /\ Edit' = <<>> /\ rd' = wakeup
           ELSE Lines' = Lines /\ Edit' = Append(Edit, c) /\ rd' = rd /\ w' = w
<1>1. buf \in Ring /\ r \in Index /\ w \in Index /\ e \in Index
  BY Zenon DEF TypeOK
<1>2. /\ Minus(e, r) < INPUT_BUF /\ Minus(w, r) \in Nat /\ Minus(e, w) \in Nat
      /\ Minus(w, r) <= Minus(e, r) /\ Minus(e, w) < INPUT_BUF /\ Minus(e, r) \in Nat
      /\ Minus(e, r) = Len(Lines) + Len(Edit)
  <2>1. Minus(e, r) < INPUT_BUF
    BY Zenon DEF Store, Room
  <2> QED BY <2>1, Lengths, Sizes
<1>3. /\ buf' = [buf EXCEPT ![e % INPUT_BUF] = c] /\ e' = Plus(e, 1) /\ r' = r
  BY Zenon DEF Store
<1>4. buf' \in Ring
  <2>1. e % INPUT_BUF \in 0..INPUT_BUF-1
    BY <1>1, Sizes, ModRange DEF Index
  <2> QED BY <1>1, <1>3, <2>1, Zenon DEF Ring
<1>5. e' \in Index /\ Minus(e', r) = Minus(e, r) + 1 /\ Minus(e', w) = Minus(e, w) + 1
  BY <1>1, <1>2, <1>3, Grow, Zenon
<1>6. Plus(e, 1) = Plus(r, INPUT_BUF) <=> Minus(e, r) + 1 = INPUT_BUF
  <2>1. INPUT_BUF \in Index
    BY Sizes DEF Index
  <2>2. Plus(r, INPUT_BUF) = IF r + INPUT_BUF < Word THEN r + INPUT_BUF ELSE r + INPUT_BUF - Word
    BY <1>1, <2>1, Counters, Zenon
  <2>3. Minus(e', r) = IF r <= e' THEN e' - r ELSE e' - r + Word
    BY <1>1, <1>5, Counters, Zenon
  <2> QED BY <1>1, <1>3, <1>5, <2>2, <2>3, Sizes DEF Index
<1>7. Win(buf', r, e') = Append(Win(buf, r, e), c) /\ Win(buf', w, e') = Append(Win(buf, w, e), c)
  BY <1>1, <1>2, <1>3, WinAppend, Zenon
<1>8. Win(buf', r, w) = Win(buf, r, w)
  <2>1. Win([buf EXCEPT ![e % INPUT_BUF] = c], r, w) = Win(buf, r, w)
    <3>1. Minus(w, r) <= Minus(e, r) /\ Minus(e, r) < INPUT_BUF
      BY <1>2, Zenon
    <3> QED BY <1>1, <3>1, WinKeep, Zenon
  <2> QED BY <1>3, <2>1, Zenon
<1>9. CASE c \in {NL, EOT} \/ Minus(e, r) + 1 = INPUT_BUF
  <2>1. w' = e' /\ rd' = wakeup
    BY <1>6, <1>9, Zenon DEF Store
  <2>2. Win(buf, r, e) = Win(buf, r, w) \o Win(buf, w, e)
    BY <1>1, WinSplit DEF Ordered
  <2>3. Lines' = Append(Lines \o Edit, c)
    BY <1>3, <1>7, <2>1, <2>2, Windows, Zenon
  <2>4. Lines' = Lines \o Append(Edit, c)
    <3>1. Lines \in Seq(Chars) /\ Edit \in Seq(Chars)
      BY Lengths, Zenon
    <3>2. Append(Lines \o Edit, c) = Lines \o Append(Edit, c)
      BY <3>1, AppendJoined, Zenon
    <3> QED BY <2>3, <3>2, Zenon
  <2>5. Edit' = <<>> /\ Minus(e', w') = 0
    BY <1>4, <1>5, <2>1, Windows, WinEmpty, MinusZero
  <2>6. Ordered'
    BY <1>2, <1>3, <1>5, <2>1, <2>5, Sizes DEF Ordered
  <2> QED BY <1>2, <1>3, <1>4, <1>5, <1>9, <2>1, <2>4, <2>5, <2>6, Zenon
<1>10. CASE ~(c \in {NL, EOT} \/ Minus(e, r) + 1 = INPUT_BUF)
  <2>1. w' = w /\ rd' = rd
    BY <1>6, <1>10, Zenon DEF Store
  <2>2. Lines' = Lines /\ Edit' = Append(Edit, c)
    BY <1>3, <1>7, <1>8, <2>1, Windows, Zenon
  <2>3. Ordered'
    BY <1>2, <1>3, <1>5, <2>1, Sizes DEF Ordered
  <2> QED BY <1>1, <1>2, <1>3, <1>4, <1>5, <1>10, <2>1, <2>2, <2>3, Zenon
<1> QED BY <1>9, <1>10, Zenon

(* Control-U stops at the write index: nothing that is being typed is a    *)
(* line end.                                                               *)
LEMMA KillLine_ring ==
  ASSUME TypeOK, Ordered, EditOpen, KillLine
  PROVE e' = w /\ Lines' = Lines /\ Edit' = <<>> /\ Ordered'
<1> DEFINE N == Minus(e, w)
           Stop(k) == Killed(k) /\ \A l \in 0..(k - 1) : ~Killed(l)
<1>1. buf \in Ring /\ r \in Index /\ w \in Index /\ e \in Index
  BY Zenon DEF TypeOK
<1>2. N \in Nat /\ N = Len(Edit)
  BY Lengths, Zenon
<1>3. Minus(e, N) = w
  <2>1. N \in 0..Minus(e, w)
    BY <1>2
  <2>2. Minus(e, N) \in Index /\ Minus(Minus(e, N), w) = N - N
    BY <1>1, <2>1, Shrink, Zenon
  <2> HIDE DEF N
  <2> QED BY <1>1, <1>2, <2>2, MinusZero
<1>4. ASSUME NEW l \in 0..(N - 1) PROVE ~Killed(l)
  <2> DEFINE x == Minus(e, l)
             m == N - l
  <2>a. l \in 0..N /\ m \in 1..N /\ l \in Int
    <3> HIDE DEF N
    <3> QED BY <1>2
  <2>1. x \in Index /\ Minus(x, w) = m
    BY <1>1, <2>a, Shrink, Zenon
  <2> HIDE DEF N, m, x
  <2>2. x # w
    BY <1>1, <2>a, <2>1, MinusZero
  <2>3. x = Plus(w, m)
    BY <1>1, <2>1, PlusMinus, Zenon
  <2>b. m \in Int /\ 0 \in Int /\ m + 0 = m /\ 0 - 1 = -1
    BY <1>2, <2>a
  <2>4. Slot(x, 0) = Slot(w, m)
    BY <1>1, <2>b, <2>3, SlotPlus
  <2>5. Edit[m] = buf[Slot(w, m)]
    BY <1>1, <2>a, WinSeq, Windows, Zenon DEF N
  <2>6. Edit[m] # NL
    BY <1>2, <2>a, Zenon DEF EditOpen
  <2>7. Plus(x, -1) % INPUT_BUF = Slot(x, 0)
    BY <2>b, Zenon DEF Slot
  <2> QED BY <2>2, <2>4, <2>5, <2>6, <2>7, Zenon DEF Killed, x
<1>5. N \in 0..N /\ Stop(N)
  BY <1>2, <1>3, <1>4 DEF Killed
<1>6. \A k \in 0..N : Stop(k) => k = N
  <2> HIDE DEF N
  <2> QED BY <1>2, <1>4
<1> HIDE DEF Stop
<1>7. (CHOOSE k \in 0..N : Stop(k)) = N
  <2> HIDE DEF N
  <2> QED BY <1>5, <1>6, Zenon
<1>8. e' = w /\ buf' = buf /\ r' = r /\ w' = w
  BY <1>3, <1>7, Zenon DEF KillLine, Stop
<1>9. Lines' = Lines /\ Edit' = <<>>
  BY <1>1, <1>8, Windows, WinEmpty, Zenon
<1>10. Ordered'
  <2>1. Minus(w, w) = 0
    BY <1>1, MinusZero, Zenon
  <2>2. Minus(w, r) \in Nat /\ Minus(w, r) <= INPUT_BUF
    BY Lengths, Sizes
  <2> QED BY <1>8, <2>1, <2>2 DEF Ordered
<1> QED BY <1>8, <1>9, <1>10, Zenon

(* Backspace takes the last character of the line being typed. *)
LEMMA Backspace_ring ==
  ASSUME TypeOK, Ordered, Backspace
  PROVE /\ e' \in Index /\ Lines' = Lines /\ Ordered'
        /\ Edit # <<>> /\ Edit' = SubSeq(Edit, 1, Len(Edit) - 1)
<1>1. buf \in Ring /\ r \in Index /\ w \in Index /\ e \in Index
  BY Zenon DEF TypeOK
<1>2. e # w /\ e' = Minus(e, 1) /\ buf' = buf /\ r' = r /\ w' = w
  BY Zenon DEF Backspace
<1>3. /\ e' \in Index /\ Minus(e', w) = Minus(e, w) - 1 /\ Minus(e, w) > 0
      /\ Win(buf, w, e') = SubSeq(Win(buf, w, e), 1, Len(Win(buf, w, e)) - 1)
  BY <1>1, <1>2, WinFront, Zenon
<1>4. Lines' = Lines /\ Edit' = SubSeq(Edit, 1, Len(Edit) - 1) /\ Edit # <<>>
  BY <1>1, <1>2, <1>3, Windows, WinEmpty, Zenon
<1>5. Minus(e', r) = Minus(e, r) - 1
  <2>1. 1 \in 0..Minus(e, r)
    BY <1>3, Lengths
  <2> QED BY <1>1, <1>2, <2>1, Shrink, Zenon
<1>6. Ordered'
  BY <1>2, <1>3, <1>5, Lengths, Sizes DEF Ordered
<1> QED BY <1>3, <1>4, <1>6, Zenon

(* Reading k characters takes them from the finished lines. *)
LEMMA Take_ring ==
  ASSUME TypeOK, Ordered, NEW k \in 0..Len(Lines), r' = Plus(r, k), UNCHANGED <<buf, w, e>>
  PROVE /\ r' \in Index /\ Ordered' /\ Edit' = Edit
        /\ Lines' = SubSeq(Lines, k + 1, Len(Lines))
        /\ Len(Lines) = 0 <=> r = w
        /\ k = Len(Lines) => r' = w
        /\ k = 0 => r' = r
<1>1. buf \in Ring /\ r \in Index /\ w \in Index /\ e \in Index
  BY Zenon DEF TypeOK
<1>2. k \in 0..Minus(w, r) /\ k \in 0..Minus(e, r)
  BY Lengths
<1>3. /\ r' \in Index /\ Minus(w, r') = Minus(w, r) - k
      /\ Win(buf, r', w) = SubSeq(Win(buf, r, w), k + 1, Minus(w, r))
  BY <1>1, <1>2, WinDrop, Zenon
<1>4. Minus(e, r') = Minus(e, r) - k
  BY <1>1, <1>2, Advance, Zenon
<1>5. Ordered'
  BY <1>2, <1>3, <1>4, Lengths, Sizes DEF Ordered
<1>6. Edit' = Edit /\ Lines' = SubSeq(Lines, k + 1, Len(Lines))
  BY <1>3, Windows, Lengths, Zenon
<1>7. Len(Lines) = 0 <=> r = w
  BY <1>1, Lengths, MinusZero, Zenon
<1>8. k = Len(Lines) => r' = w
  BY <1>1, Lengths, PlusMinus
<1>9. k = 0 => r' = r
  <2>1. 0 \in Index /\ r + 0 = r /\ r < Word
    BY <1>1, Sizes DEF Index
  <2>2. Plus(r, 0) = IF r + 0 < Word THEN r + 0 ELSE r + 0 - Word
    BY <1>1, <2>1, Counters, Zenon
  <2> QED BY <2>1, <2>2, Zenon
<1> QED BY <1>3, <1>5, <1>6, <1>7, <1>8, <1>9, Zenon

-----------------------------------------------------------------------------
(* What one pass of consoleread's loop takes.                              *)

(* No more than there is and than is wanted; it ends at the first line     *)
(* end, before the first control-D, or when there is no more or no more is *)
(* wanted.                                                                 *)
LEMMA Take_stops ==
  ASSUME TypeOK, Partial, NEW p \in Reader, rd[p].pc = "read", NEW q \in Seq(Chars)
  PROVE /\ Take(p, q) \in 0..Len(q) /\ Take(p, q) <= Left(p)
        /\ Left(p) \in Nat \ {0} /\ Len(rd[p].got) + Left(p) = rd[p].n
        /\ \A j \in 1..Take(p, q) : q[j] # EOT /\ (q[j] = NL => j = Take(p, q))
        /\ \/ Take(p, q) = Len(q) \/ Take(p, q) = Left(p)
           \/ Take(p, q) > 0 /\ q[Take(p, q)] = NL
           \/ Take(p, q) < Len(q) /\ q[Take(p, q) + 1] = EOT
<1> DEFINE want == Left(p)
           stop == {k \in Stops(q) : k <= want}
           first == CHOOSE k \in stop : \A l \in stop : k <= l
<1>1. want \in Nat \ {0} /\ Len(rd[p].got) + want = rd[p].n
  <2>1. rd[p].n \in Nat /\ rd[p].got \in Seq(Chars) /\ Len(rd[p].got) < rd[p].n
    BY Zenon DEF TypeOK, Partial
  <2> QED BY <2>1 DEF Left
<1>2. Len(q) \in Nat /\ \A k \in 1..Len(q) : k \in stop <=> q[k] \in {NL, EOT} /\ k <= want
  BY DEF Stops
<1>3. stop \subseteq 1..Len(q)
  BY DEF Stops
<1>4. CASE stop = {}
  <2>1. Take(p, q) = IF Len(q) < want THEN Len(q) ELSE want
    BY <1>4, Zenon DEF Take
  <2> HIDE DEF want, stop
  <2>2. Take(p, q) \in 0..Len(q) /\ Take(p, q) <= want /\ (Take(p, q) = Len(q) \/ Take(p, q) = want)
    BY <1>1, <1>2, <2>1
  <2>3. \A j \in 1..Take(p, q) : q[j] \notin {NL, EOT}
    BY <1>1, <1>2, <1>4, <2>2
  <2> QED BY <1>1, <2>2, <2>3, Zenon DEF want
<1>5. CASE stop # {}
  <2>1. \E k \in stop : \A l \in stop : k <= l
    <3>1. stop \in SUBSET Nat
      BY <1>3, <1>2
    <3> HIDE DEF stop
    <3> QED BY <1>5, <3>1, Least, Zenon
  <2>2. first \in stop /\ \A l \in stop : first <= l
    <3> HIDE DEF stop
    <3> QED BY <2>1, Zenon
  <2>3. Take(p, q) = IF q[first] = NL THEN first ELSE first - 1
    BY <1>5, Zenon DEF Take
  <2> HIDE DEF want, stop, first
  <2>4. first \in 1..Len(q) /\ first <= want /\ q[first] \in {NL, EOT}
    BY <1>2, <1>3, <2>2, Zenon
  <2>5. \A j \in 1..(first - 1) : q[j] \notin {NL, EOT}
    BY <1>1, <1>2, <2>2, <2>4
  <2>6. CASE q[first] = NL
    <3>1. Take(p, q) = first
      BY <2>3, <2>6, Zenon
    <3>2. \A j \in 1..first : q[j] # EOT /\ (q[j] = NL => j = first)
      <4>1. \A j \in 1..first : j = first \/ j \in 1..(first - 1)
        BY <2>4
      <4> QED BY <2>5, <2>6, <4>1, Zenon DEF NL, EOT
    <3> QED BY <1>1, <1>2, <2>4, <2>6, <3>1, <3>2 DEF want
  <2>7. CASE q[first] # NL
    <3>1. Take(p, q) = first - 1
      BY <2>3, <2>7, Zenon
    <3>2. /\ first - 1 \in 0..Len(q) /\ first - 1 < Len(q)
          /\ first - 1 <= want /\ first - 1 + 1 = first
      BY <1>1, <1>2, <2>4
    <3>3. q[first] = EOT
      BY <2>4, <2>7, Zenon
    <3> QED BY <1>1, <2>5, <3>1, <3>2, <3>3, Zenon DEF want
  <2> QED BY <2>6, <2>7, Zenon
<1> QED BY <1>4, <1>5, Zenon

(* The values Read computes. *)
Took(p) == Take(p, Lines)
Got(p) == rd[p].got \o SubSeq(Lines, 1, Took(p))
LineEnd(p) == IF Took(p) = 0 THEN FALSE ELSE Lines[Took(p)] = NL
Full(p) == LineEnd(p) \/ Len(Got(p)) = rd[p].n
Eof(p) == ~Full(p) /\ Took(p) < Len(Lines)

(* What a reader has after a pass: no control-D, a line end only as the    *)
(* last character; if it is to go on, no line end and less than it wants.  *)
LEMMA Read_got ==
  ASSUME TypeOK, Ordered, Partial, NEW p \in Reader, rd[p].pc = "read"
  PROVE /\ Took(p) \in 0..Len(Lines) /\ Got(p) \in Seq(Chars) /\ Len(Got(p)) <= rd[p].n
        /\ \A j \in 1..Len(Got(p)) : Got(p)[j] # EOT /\ (Got(p)[j] = NL => j = Len(Got(p)))
        /\ LineEnd(p) => Got(p) # <<>> /\ Got(p)[Len(Got(p))] = NL
        /\ ~Full(p) => /\ Len(Got(p)) < rd[p].n
                       /\ \A j \in 1..Len(Got(p)) : Got(p)[j] \notin {NL, EOT}
        /\ Eof(p) => Lines[Took(p) + 1] = EOT
        /\ Got(p) = <<>> => Took(p) = 0
<1> DEFINE q == Lines
           k == Took(p)
           h == rd[p].got
           g == Got(p)
<1>1. q \in Seq(Chars) /\ Len(q) \in Nat
  BY Lengths, Zenon
<1>2. /\ k \in 0..Len(q) /\ k <= Left(p) /\ Left(p) \in Nat \ {0} /\ Len(h) + Left(p) = rd[p].n
      /\ \A j \in 1..k : q[j] # EOT /\ (q[j] = NL => j = k)
      /\ \/ k = Len(q) \/ k = Left(p)
         \/ k > 0 /\ q[k] = NL
         \/ k < Len(q) /\ q[k + 1] = EOT
  BY <1>1, Take_stops, Zenon DEF Took
<1>3. h \in Seq(Chars) /\ rd[p].n \in Nat /\ \A j \in 1..Len(h) : h[j] \notin {NL, EOT}
  BY Zenon DEF TypeOK, Partial
<1>4. g = h \o SubSeq(q, 1, k)
  BY Zenon DEF Got
<1>5. LineEnd(p) <=> k > 0 /\ q[k] = NL
  BY <1>1, <1>2 DEF LineEnd
<1>6. Full(p) <=> LineEnd(p) \/ Len(g) = rd[p].n
  BY Zenon DEF Full
<1>7. Eof(p) <=> ~Full(p) /\ k < Len(q)
  BY Zenon DEF Eof
<1> HIDE DEF q, k, h, g
<1>8. /\ g \in Seq(Chars) /\ Len(h) \in Nat /\ Len(g) = Len(h) + k
      /\ \A j \in 1..Len(h) : g[j] = h[j]
      /\ \A j \in 1..k : g[Len(h) + j] = q[j]
  <2>1. /\ SubSeq(q, 1, k) \in Seq(Chars) /\ Len(SubSeq(q, 1, k)) = k
        /\ \A j \in 1..k : SubSeq(q, 1, k)[j] = q[j]
    BY <1>1, <1>2
  <2> QED BY <1>2, <1>3, <1>4, <2>1
<1>9. \A j \in 1..Len(g) : j \in 1..Len(h) \/ \E i \in 1..k : j = Len(h) + i
  <2> SUFFICES ASSUME NEW j \in 1..Len(g), j \notin 1..Len(h)
               PROVE \E i \in 1..k : j = Len(h) + i
    OBVIOUS
  <2>1. j - Len(h) \in 1..k /\ j = Len(h) + (j - Len(h))
    BY <1>2, <1>8
  <2> QED BY <2>1, Zenon
<1>10. \A j \in 1..Len(g) : g[j] # EOT /\ (g[j] = NL => LineEnd(p) /\ j = Len(g))
  <2> SUFFICES ASSUME NEW j \in 1..Len(g)
               PROVE g[j] # EOT /\ (g[j] = NL => LineEnd(p) /\ j = Len(g))
    OBVIOUS
  <2>1. CASE j \in 1..Len(h)
    BY <1>3, <1>8, <2>1, Zenon
  <2>2. ASSUME NEW i \in 1..k, j = Len(h) + i
        PROVE g[j] # EOT /\ (g[j] = NL => LineEnd(p) /\ j = Len(g))
    <3>1. g[j] = q[i] /\ q[i] # EOT /\ (q[i] = NL => i = k)
      BY <1>2, <1>8, <2>2, Zenon
    <3>2. i = k => k > 0 /\ j = Len(g)
      BY <1>2, <1>8, <2>2
    <3> QED BY <1>5, <3>1, <3>2, Zenon
  <2> QED BY <1>9, <2>1, <2>2, Zenon
<1>11. LineEnd(p) => g # <<>> /\ g[Len(g)] = NL
  BY <1>2, <1>5, <1>8
<1>12. Len(g) <= rd[p].n /\ (g = <<>> => k = 0)
  BY <1>2, <1>3, <1>8
<1>13. ~Full(p) => Len(g) < rd[p].n /\ \A j \in 1..Len(g) : g[j] \notin {NL, EOT}
  BY <1>3, <1>6, <1>8, <1>10, <1>12
<1>14. Eof(p) => q[k + 1] = EOT
  <2> SUFFICES ASSUME Eof(p) PROVE q[k + 1] = EOT
    OBVIOUS
  <2>1. k < Len(q) /\ Len(g) # rd[p].n /\ ~(k > 0 /\ q[k] = NL)
    BY <1>5, <1>6, <1>7, Zenon
  <2>2. k # Left(p) /\ k # Len(q)
    <3>1. k = Left(p) => Len(g) = rd[p].n
      BY <1>2, <1>8, Zenon
    <3> QED BY <1>1, <1>2, <2>1, <3>1
  <2> QED BY <1>2, <2>1, <2>2, Zenon
<1> QED BY <1>2, <1>8, <1>10, <1>11, <1>12, <1>13, <1>14, Zenon DEF q, k, g

-----------------------------------------------------------------------------
(* Every step keeps the invariant.                                         *)

(* Steps that leave the ring alone keep what is said about it. *)
LEMMA Ring_kept ==
  ASSUME UNCHANGED <<buf, r, w, e>>
  PROVE Lines' = Lines /\ Edit' = Edit /\ (Ordered => Ordered') /\ (EditOpen => EditOpen')
<1>1. Lines' = Lines /\ Edit' = Edit
  BY Windows, Zenon
<1>2. Ordered => Ordered'
  BY Zenon DEF Ordered
<1> QED BY <1>1, <1>2, Zenon DEF EditOpen

(* No one is about to sleep while the interrupt side has the lock. *)
LEMMA Unlocked ==
  ASSUME LockHeld, holder = NoOne
  PROVE \A p \in Reader : rd[p].pc # "tosleep"
  BY ReaderAssumption, Zenon DEF LockHeld

LEMMA Init_inv ==
  ASSUME Init
  PROVE IInv
<1>1. buf \in Ring /\ r \in Index /\ w \in Index /\ e \in Index
  BY Sizes DEF Init, Ring, Index, Chars
<1>2. TypeOK
  <2>1. Idle \in [pc : Pcs, n : Nat, got : Seq(Chars)]
    BY DEF Idle, Pcs
  <2> QED BY <1>1, <2>1, Zenon DEF Init, TypeOK
<1>3. Minus(0, 0) = 0
  BY <1>1, MinusZero, Zenon DEF Init
<1>4. Ordered
  BY <1>3, Sizes DEF Init, Ordered
<1>5. EditOpen
  BY <1>1, WinEmpty, Windows DEF Init, EditOpen
<1>6. LockHeld /\ Partial /\ NoSleepWithInput
  BY ReaderAssumption, Zenon DEF Init, Idle, LockHeld, Partial, NoSleepWithInput
<1> QED BY <1>2, <1>4, <1>5, <1>6, Zenon DEF IInv

LEMMA Store_inv ==
  ASSUME IInv, holder = NoOne, NEW c \in Chars, Store(c), UNCHANGED <<holder, killed>>
  PROVE IInv'
<1>i. TypeOK /\ Ordered /\ EditOpen /\ LockHeld /\ Partial /\ NoSleepWithInput
  BY Zenon DEF IInv
<1>0. \A p \in Reader : rd[p].pc # "tosleep"
  BY <1>i, Unlocked, Zenon
<1>1. /\ buf' \in Ring /\ e' \in Index /\ w' \in Index /\ r' = r
      /\ Ordered'
      /\ IF c \in {NL, EOT} \/ Len(Lines) + Len(Edit) + 1 = INPUT_BUF
         THEN Lines' = Lines \o Append(Edit, c) /\ Edit' = <<>> /\ rd' = wakeup
         ELSE Lines' = Lines /\ Edit' = Append(Edit, c) /\ rd' = rd /\ w' = w
  BY <1>i, Store_ring, Zenon
<1>2. CASE c \in {NL, EOT} \/ Len(Lines) + Len(Edit) + 1 = INPUT_BUF
  <2>1. Edit' = <<>> /\ rd' = wakeup
    BY <1>1, <1>2, Zenon
  <2>2. EditOpen'
    BY <2>1 DEF EditOpen
  <2>3. /\ rd' \in [Reader -> [pc : Pcs, n : Nat, got : Seq(Chars)]]
        /\ \A p \in Reader : /\ rd'[p].pc = IF rd[p].pc = "sleep" THEN "read" ELSE rd[p].pc
                             /\ rd'[p].n = rd[p].n /\ rd'[p].got = rd[p].got
    <3>1. ASSUME NEW p \in Reader
          PROVE /\ rd'[p] \in [pc : Pcs, n : Nat, got : Seq(Chars)]
                /\ rd'[p].pc = IF rd[p].pc = "sleep" THEN "read" ELSE rd[p].pc
                /\ rd'[p].n = rd[p].n /\ rd'[p].got = rd[p].got
      <4>1. rd[p] \in [pc : Pcs, n : Nat, got : Seq(Chars)]
        BY <1>i, Zenon DEF TypeOK
      <4>2. rd'[p] = IF rd[p].pc = "sleep" THEN [rd[p] EXCEPT !.pc = "read"] ELSE rd[p]
        BY <2>1, Zenon DEF wakeup
      <4> QED BY <4>1, <4>2, Zenon DEF Pcs
    <3>2. rd' = [p \in Reader |-> rd'[p]]
      BY <2>1, Zenon DEF wakeup
    <3> QED BY <3>1, <3>2, Zenon
  <2>4. TypeOK'
    BY <1>i, <1>1, <2>3, Zenon DEF TypeOK
  <2>5. LockHeld' /\ NoSleepWithInput'
    BY <1>i, <1>0, <2>3, Zenon DEF LockHeld, NoSleepWithInput
  <2>6. Partial'
    BY <1>i, <2>3, Zenon DEF Partial
  <2> QED BY <1>1, <2>2, <2>4, <2>5, <2>6, Zenon DEF IInv
<1>3. CASE ~(c \in {NL, EOT} \/ Len(Lines) + Len(Edit) + 1 = INPUT_BUF)
  <2>1. Edit' = Append(Edit, c) /\ rd' = rd /\ w' = w /\ c \notin {NL, EOT}
    BY <1>1, <1>3, Zenon
  <2>2. EditOpen'
    <3> DEFINE E == Edit
    <3>1. E \in Seq(Chars) /\ Edit' = Append(E, c)
      BY <1>i, <2>1, Lengths, Zenon
    <3>2. \A k \in 1..Len(E) : E[k] \notin {NL, EOT}
      BY <1>i, Zenon DEF EditOpen
    <3> HIDE DEF E
    <3>3. \A k \in 1..Len(Append(E, c)) : Append(E, c)[k] \notin {NL, EOT}
      BY <2>1, <3>1, <3>2
    <3> QED BY <3>1, <3>3, Zenon DEF EditOpen
  <2>3. TypeOK'
    BY <1>i, <1>1, <2>1, Zenon DEF TypeOK
  <2>4. LockHeld' /\ NoSleepWithInput' /\ Partial'
    BY <1>i, <1>1, <2>1, Zenon DEF LockHeld, NoSleepWithInput, Partial
  <2> QED BY <1>1, <2>2, <2>3, <2>4, Zenon DEF IInv
<1> QED BY <1>2, <1>3, Zenon

LEMMA KillLine_inv ==
  ASSUME IInv, KillLine, UNCHANGED <<holder, killed>>
  PROVE IInv'
<1>i. TypeOK /\ Ordered /\ EditOpen /\ LockHeld /\ Partial /\ NoSleepWithInput
  BY Zenon DEF IInv
<1>1. e' = w /\ Edit' = <<>> /\ Ordered'
  BY <1>i, KillLine_ring, Zenon
<1>2. UNCHANGED <<buf, r, w, rd>>
  BY Zenon DEF KillLine
<1>3. EditOpen'
  BY <1>1 DEF EditOpen
<1>4. TypeOK'
  BY <1>i, <1>1, <1>2, Zenon DEF TypeOK
<1>5. LockHeld' /\ NoSleepWithInput' /\ Partial'
  BY <1>i, <1>2, Zenon DEF LockHeld, NoSleepWithInput, Partial
<1> QED BY <1>1, <1>3, <1>4, <1>5, Zenon DEF IInv

LEMMA Backspace_inv ==
  ASSUME IInv, Backspace, UNCHANGED <<holder, killed>>
  PROVE IInv'
<1>i. TypeOK /\ Ordered /\ EditOpen /\ LockHeld /\ Partial /\ NoSleepWithInput
  BY DEF IInv
<1>1. e' \in Index /\ Edit # <<>> /\ Edit' = SubSeq(Edit, 1, Len(Edit) - 1) /\ Ordered'
  BY <1>i, Backspace_ring, Zenon
<1>2. UNCHANGED <<buf, r, w, rd>>
  BY Zenon DEF Backspace
<1>3. EditOpen'
  <2> DEFINE E == Edit
  <2>1. E \in Seq(Chars) /\ E # <<>> /\ Edit' = SubSeq(E, 1, Len(E) - 1)
    BY <1>i, <1>1, Lengths, Zenon
  <2>2. \A k \in 1..Len(E) : E[k] \notin {NL, EOT}
    BY <1>i, Zenon DEF EditOpen
  <2> HIDE DEF E
  <2>3. \A k \in 1..Len(SubSeq(E, 1, Len(E) - 1)) : SubSeq(E, 1, Len(E) - 1)[k] \notin {NL, EOT}
    BY <2>1, <2>2
  <2> QED BY <2>1, <2>3, Zenon DEF EditOpen
<1>4. TypeOK'
  BY <1>i, <1>1, <1>2, Zenon DEF TypeOK
<1>5. LockHeld' /\ NoSleepWithInput' /\ Partial'
  BY <1>i, <1>2 DEF LockHeld, NoSleepWithInput, Partial
<1> QED BY <1>1, <1>3, <1>4, <1>5, Zenon DEF IInv

LEMMA Begin_inv ==
  ASSUME IInv, NEW p \in Reader, Begin(p)
  PROVE IInv'
<1>i. TypeOK /\ Ordered /\ EditOpen /\ LockHeld /\ Partial /\ NoSleepWithInput
  BY Zenon DEF IInv
<1>1. PICK n \in 1..MaxN : rd' = [rd EXCEPT ![p] = [pc |-> "read", n |-> n, got |-> <<>>]]
  BY Zenon DEF Begin
<1>2. UNCHANGED <<buf, r, w, e, holder, killed>> /\ rd[p].pc \in {"idle", "done"}
  BY Zenon DEF Begin
<1>3. n \in Nat /\ n > 0
  BY Sizes
<1>4. TypeOK'
  BY <1>i, <1>1, <1>2, <1>3 DEF TypeOK, Pcs
<1>5. /\ \A o \in Reader \ {p} : rd'[o] = rd[o]
      /\ rd'[p].pc = "read" /\ rd'[p].n = n /\ rd'[p].got = <<>>
  BY <1>i, <1>1, Zenon DEF TypeOK
<1>6. LockHeld' /\ NoSleepWithInput'
  BY <1>i, <1>2, <1>5, Zenon DEF LockHeld, NoSleepWithInput
<1>7. Partial'
  BY <1>i, <1>3, <1>5 DEF Partial
<1> QED BY <1>i, <1>2, <1>4, <1>6, <1>7, Ring_kept, Zenon DEF IInv

LEMMA sleep_inv ==
  ASSUME IInv, NEW p \in Reader, sleep(p)
  PROVE IInv'
<1>i. TypeOK /\ Ordered /\ EditOpen /\ LockHeld /\ Partial /\ NoSleepWithInput
  BY DEF IInv
<1>1. /\ rd[p].pc = "tosleep" /\ rd' = [rd EXCEPT ![p].pc = "sleep"] /\ holder' = NoOne
      /\ UNCHANGED <<buf, r, w, e, killed>>
  BY Zenon DEF sleep
<1>2. TypeOK'
  BY <1>i, <1>1, Zenon DEF TypeOK, Pcs
<1>3. /\ \A o \in Reader \ {p} : rd'[o] = rd[o]
      /\ rd'[p].pc = "sleep" /\ rd'[p].n = rd[p].n /\ rd'[p].got = rd[p].got
  BY <1>i, <1>1, Zenon DEF TypeOK
<1>4. LockHeld'
  BY <1>i, <1>1, <1>3, ReaderAssumption, Zenon DEF LockHeld
<1>5. NoSleepWithInput' /\ Partial'
  BY <1>i, <1>1, <1>3 DEF NoSleepWithInput, Partial
<1> QED BY <1>i, <1>1, <1>2, <1>4, <1>5, Ring_kept, Zenon DEF IInv

LEMMA kill_inv ==
  ASSUME IInv, NEW p \in Reader, kill(p)
  PROVE IInv'
<1>i. TypeOK /\ Ordered /\ EditOpen /\ LockHeld /\ Partial /\ NoSleepWithInput
  BY DEF IInv
<1>1. /\ killed' = [killed EXCEPT ![p] = TRUE]
      /\ rd' = [rd EXCEPT ![p].pc = IF @ = "sleep" THEN "read" ELSE @]
      /\ UNCHANGED <<buf, r, w, e, holder>>
  BY Zenon DEF kill
<1>2. /\ rd' \in [Reader -> [pc : Pcs, n : Nat, got : Seq(Chars)]]
      /\ \A o \in Reader \ {p} : rd'[o] = rd[o]
      /\ rd'[p].pc = (IF rd[p].pc = "sleep" THEN "read" ELSE rd[p].pc)
      /\ rd'[p].n = rd[p].n /\ rd'[p].got = rd[p].got
  BY <1>i, <1>1, Zenon DEF TypeOK, Pcs
<1>3. killed' \in [Reader -> BOOLEAN]
  BY <1>i, <1>1, Zenon DEF TypeOK
<1>4. TypeOK'
  BY <1>i, <1>1, <1>2, <1>3, Zenon DEF TypeOK
<1>5. LockHeld' /\ NoSleepWithInput' /\ Partial'
  BY <1>i, <1>1, <1>2 DEF LockHeld, NoSleepWithInput, Partial
<1> QED BY <1>i, <1>1, <1>4, <1>5, Ring_kept, Zenon DEF IInv

LEMMA Ends_inv ==
  ASSUME IInv, NEW p \in Reader, Ends(p)
  PROVE IInv'
<1>i. TypeOK /\ Ordered /\ EditOpen /\ LockHeld /\ Partial /\ NoSleepWithInput
  BY DEF IInv
<1>1. /\ rd[p].pc \in {"idle", "done"}
      /\ killed' = [killed EXCEPT ![p] = FALSE] /\ rd' = [rd EXCEPT ![p] = Idle]
      /\ UNCHANGED <<buf, r, w, e, holder>>
  BY Zenon DEF Ends
<1>2. /\ rd' \in [Reader -> [pc : Pcs, n : Nat, got : Seq(Chars)]]
      /\ \A o \in Reader \ {p} : rd'[o] = rd[o]
      /\ rd'[p].pc = "idle"
  BY <1>i, <1>1 DEF TypeOK, Pcs, Idle
<1>3. killed' \in [Reader -> BOOLEAN]
  BY <1>i, <1>1, Zenon DEF TypeOK
<1>4. TypeOK'
  BY <1>i, <1>1, <1>2, <1>3, Zenon DEF TypeOK
<1>5. LockHeld' /\ NoSleepWithInput' /\ Partial'
  BY <1>i, <1>1, <1>2, Zenon DEF LockHeld, NoSleepWithInput, Partial
<1> QED BY <1>i, <1>1, <1>4, <1>5, Ring_kept, Zenon DEF IInv

(* A pass of consoleread's loop in these terms: it takes characters of     *)
(* finished lines, the control-D with them if the reader has nothing.      *)
Taken(p) == IF Eof(p) /\ Got(p) = <<>> THEN Took(p) + 1 ELSE Took(p)
LEMMA Read_step ==
  ASSUME IInv, NEW p \in Reader, Read(p)
  PROVE /\ rd[p].pc = "read" /\ holder = NoOne /\ UNCHANGED <<buf, w, e>>
        /\ Taken(p) \in 0..Len(Lines) /\ r' = Plus(r, Taken(p))
        /\ \/ /\ Full(p) \/ Eof(p)
              /\ rd' = [rd EXCEPT ![p].pc = "done", ![p].got = Got(p)]
              /\ UNCHANGED <<holder, killed>>
           \/ /\ ~Full(p) /\ ~Eof(p) /\ killed[p]
              /\ rd' = [rd EXCEPT ![p] = Idle] /\ killed' = [killed EXCEPT ![p] = FALSE]
              /\ UNCHANGED holder
           \/ /\ ~Full(p) /\ ~Eof(p)
              /\ rd' = [rd EXCEPT ![p].pc = "tosleep", ![p].got = Got(p)] /\ holder' = p
              /\ UNCHANGED killed
<1>1. rd[p].pc = "read" /\ holder = NoOne /\ UNCHANGED <<buf, w, e>>
  BY Zenon DEF Read
<1>2. r' = IF Eof(p) /\ ~KeepsEof(Got(p)) THEN Plus(r, Took(p) + 1) ELSE Plus(r, Took(p))
  BY Zenon DEF Read, Eof, Full, LineEnd, Got, Took, Lines
<1>3. \/ /\ Full(p) \/ Eof(p)
         /\ rd' = [rd EXCEPT ![p].pc = "done", ![p].got = Got(p)]
         /\ UNCHANGED <<holder, killed>>
      \/ /\ ~Full(p) /\ ~Eof(p) /\ killed[p]
         /\ rd' = [rd EXCEPT ![p] = Idle] /\ killed' = [killed EXCEPT ![p] = FALSE]
         /\ UNCHANGED holder
      \/ /\ ~Full(p) /\ ~Eof(p)
         /\ rd' = [rd EXCEPT ![p].pc = "tosleep", ![p].got = Got(p)] /\ holder' = p
         /\ UNCHANGED killed
  BY Zenon DEF Read, Eof, Full, LineEnd, Got, Took, Lines
<1>4. r' = Plus(r, Taken(p))
  BY <1>2, Zenon DEF KeepsEof, Taken
<1>5. Taken(p) \in 0..Len(Lines)
  <2>1. Took(p) \in 0..Len(Lines) /\ Len(Lines) \in Nat
    BY <1>1, Read_got, Lengths, Zenon DEF IInv
  <2>2. Eof(p) => Took(p) < Len(Lines)
    BY Zenon DEF Eof
  <2> QED BY <2>1, <2>2 DEF Taken
<1> QED BY <1>1, <1>3, <1>4, <1>5, Zenon

(* A reader that goes to sleep has taken all the finished lines, and while *)
(* another one sleeps there are none to take.                              *)
LEMMA Read_inv ==
  ASSUME IInv, NEW p \in Reader, Read(p)
  PROVE IInv'
<1>i. TypeOK /\ Ordered /\ EditOpen /\ LockHeld /\ Partial /\ NoSleepWithInput
  BY DEF IInv
<1> DEFINE d == Taken(p)
           g == Got(p)
<1>1. /\ rd[p].pc = "read" /\ holder = NoOne /\ UNCHANGED <<buf, w, e>>
      /\ d \in 0..Len(Lines) /\ r' = Plus(r, d)
  BY Read_step, Zenon
<1>2. /\ r' \in Index /\ Ordered' /\ Edit' = Edit
      /\ Len(Lines) = 0 <=> r = w
      /\ d = Len(Lines) => r' = w
      /\ d = 0 => r' = r
  <2> HIDE DEF d
  <2> QED BY <1>i, <1>1, Take_ring, Zenon
<1>3. EditOpen'
  BY <1>i, <1>2, Zenon DEF EditOpen
<1>4. Took(p) \in 0..Len(Lines) /\ g \in Seq(Chars)
  BY <1>i, <1>1, Read_got, Zenon
<1>5. ~Full(p) => /\ Len(g) < rd[p].n
                  /\ \A j \in 1..Len(g) : g[j] \notin {NL, EOT}
  BY <1>i, <1>1, Read_got, Zenon
<1>6. ~Full(p) /\ ~Eof(p) => r' = w
  <2>1. ~Full(p) /\ ~Eof(p) => Took(p) = Len(Lines) /\ d = Took(p)
    BY <1>i, <1>4, Lengths DEF Eof, Taken
  <2> QED BY <1>2, <2>1, Zenon
<1>7. r = w => r' = w
  <2>1. Len(Lines) = 0 => d = 0
    BY <1>1
  <2> QED BY <1>2, <2>1, Zenon
<1>0. \A o \in Reader : rd[o].pc # "tosleep"
  BY <1>i, <1>1, Unlocked, Zenon
<1> HIDE DEF d, g
<1>8. CASE /\ rd' = [rd EXCEPT ![p].pc = "done", ![p].got = g]
           /\ UNCHANGED <<holder, killed>>
  <2>1. /\ rd' \in [Reader -> [pc : Pcs, n : Nat, got : Seq(Chars)]]
        /\ rd'[p].pc = "done" /\ \A o \in Reader \ {p} : rd'[o] = rd[o]
    BY <1>i, <1>4, <1>8, Zenon DEF TypeOK, Pcs
  <2>2. TypeOK'
    BY <1>i, <1>1, <1>2, <1>8, <2>1, Zenon DEF TypeOK
  <2>3. LockHeld' /\ Partial'
    BY <1>i, <1>1, <1>8, <2>1, Zenon DEF LockHeld, Partial
  <2>4. NoSleepWithInput'
    BY <1>i, <1>1, <1>7, <2>1 DEF NoSleepWithInput
  <2> QED BY <1>2, <1>3, <2>2, <2>3, <2>4, Zenon DEF IInv
<1>9. CASE /\ rd' = [rd EXCEPT ![p] = Idle] /\ killed' = [killed EXCEPT ![p] = FALSE]
           /\ UNCHANGED holder
  <2>1. /\ rd' \in [Reader -> [pc : Pcs, n : Nat, got : Seq(Chars)]]
        /\ rd'[p].pc = "idle" /\ \A o \in Reader \ {p} : rd'[o] = rd[o]
    BY <1>i, <1>9 DEF TypeOK, Pcs, Idle
  <2>a. killed' \in [Reader -> BOOLEAN]
    BY <1>i, <1>9, Zenon DEF TypeOK
  <2>2. TypeOK'
    BY <1>i, <1>1, <1>2, <1>9, <2>1, <2>a, Zenon DEF TypeOK
  <2>3. LockHeld' /\ Partial'
    BY <1>i, <1>1, <1>9, <2>1, Zenon DEF LockHeld, Partial
  <2>4. NoSleepWithInput'
    BY <1>i, <1>1, <1>7, <2>1, Zenon DEF NoSleepWithInput
  <2> QED BY <1>2, <1>3, <2>2, <2>3, <2>4 DEF IInv
<1>10. CASE /\ ~Full(p) /\ ~Eof(p)
            /\ rd' = [rd EXCEPT ![p].pc = "tosleep", ![p].got = g] /\ holder' = p
            /\ UNCHANGED killed
  <2>1. /\ rd' \in [Reader -> [pc : Pcs, n : Nat, got : Seq(Chars)]]
        /\ rd'[p].pc = "tosleep" /\ rd'[p].n = rd[p].n /\ rd'[p].got = g
        /\ \A o \in Reader \ {p} : rd'[o] = rd[o]
    BY <1>i, <1>4, <1>10, Zenon DEF TypeOK, Pcs
  <2>2. TypeOK'
    BY <1>i, <1>1, <1>2, <1>10, <2>1, Zenon DEF TypeOK
  <2>3. LockHeld'
    BY <1>0, <1>10, <2>1, Zenon DEF LockHeld
  <2>4. Partial'
    BY <1>i, <1>5, <1>10, <2>1 DEF Partial
  <2>5. NoSleepWithInput'
    BY <1>1, <1>6, <1>10, Zenon DEF NoSleepWithInput
  <2> QED BY <1>2, <1>3, <2>2, <2>3, <2>4, <2>5, Zenon DEF IInv
<1> QED BY <1>8, <1>9, <1>10, Read_step, Zenon DEF g

(* Every step keeps the invariant. *)
LEMMA Next_inv ==
  ASSUME IInv, [Next]_vars
  PROVE IInv'
<1>1. CASE consoleintr
  <2>1. holder = NoOne /\ UNCHANGED <<holder, killed>>
    BY <1>1, Zenon DEF consoleintr
  <2>2. ASSUME NEW c \in Chars \cup {CR}, Store(IF c = CR THEN NL ELSE c) PROVE IInv'
    <3>1. (IF c = CR THEN NL ELSE c) \in Chars
      BY Zenon DEF Chars
    <3> QED BY <2>1, <2>2, <3>1, Store_inv, Zenon
  <2> QED BY <1>1, <2>1, <2>2, KillLine_inv, Backspace_inv, Zenon DEF consoleintr
<1>2. ASSUME NEW p \in Reader, Begin(p) \/ Read(p) \/ sleep(p) \/ kill(p) \/ Ends(p)
      PROVE IInv'
  BY <1>2, Begin_inv, Read_inv, sleep_inv, kill_inv, Ends_inv, Zenon
<1>3. CASE UNCHANGED vars
  <2>1. UNCHANGED <<buf, r, w, e>> /\ UNCHANGED <<holder, rd, killed>>
    BY <1>3, Zenon DEF vars
  <2>2. TypeOK' /\ LockHeld' /\ Partial' /\ NoSleepWithInput'
    BY <2>1, Zenon DEF IInv, TypeOK, LockHeld, Partial, NoSleepWithInput
  <2> QED BY <2>1, <2>2, Ring_kept, Zenon DEF IInv
<1> QED BY <1>1, <1>2, <1>3, Zenon DEF Next

(* IInv holds in every state of the ring and its readers. *)
THEOREM Invariance == Spec => []IInv
<1>1. Init => IInv
  BY Init_inv, Zenon
<1>2. IInv /\ [Next]_vars => IInv'
  BY Next_inv, Zenon
<1> QED BY <1>1, <1>2, PTL DEF Spec

(* No reader ever sleeps, or is about to, while a finished line is in the  *)
(* ring: consoleread empties it before it sleeps, and consoleintr wakes    *)
(* every sleeper when it finishes a line.                                  *)
THEOREM NoLostInput == Spec => []NoSleepWithInput
<1>1. IInv => NoSleepWithInput
  BY Zenon DEF IInv
<1> QED BY <1>1, Invariance, PTL

-----------------------------------------------------------------------------
(* What a read returns.                                                    *)

(* Only consoleread's loop ends a read, and only with one of its reasons. *)
LEMMA Next_reads ==
  ASSUME IInv, [Next]_vars, NEW p \in Reader, rd[p].pc = "read", rd'[p].pc = "done"
  PROVE /\ Read(p) /\ rd'[p].got = Got(p)
        /\ Full(p) \/ Eof(p)
<1>i. rd \in [Reader -> [pc : Pcs, n : Nat, got : Seq(Chars)]]
  BY Zenon DEF IInv, TypeOK
<1>1. CASE consoleintr
  <2>1. rd' = rd \/ rd' = wakeup
    BY <1>1, Zenon DEF consoleintr, Store, KillLine, Backspace
  <2> QED BY <2>1, Zenon DEF wakeup
<1>2. ASSUME NEW o \in Reader, Begin(o) \/ sleep(o) \/ kill(o) \/ Ends(o)
      PROVE FALSE
  <2>1. Begin(o) => FALSE
    BY <1>i, Zenon DEF Begin
  <2>2. sleep(o) => FALSE
    BY <1>i, Zenon DEF sleep
  <2>3. kill(o) => FALSE
    BY <1>i DEF kill
  <2>4. Ends(o) => FALSE
    BY <1>i, Zenon DEF Ends, Idle
  <2> QED BY <1>2, <2>1, <2>2, <2>3, <2>4, Zenon
<1>3. ASSUME NEW o \in Reader, Read(o)
      PROVE o = p /\ rd'[p].got = Got(p) /\ (Full(p) \/ Eof(p))
  <2>1. \/ (Full(o) \/ Eof(o)) /\ rd' = [rd EXCEPT ![o].pc = "done", ![o].got = Got(o)]
        \/ rd' = [rd EXCEPT ![o] = Idle]
        \/ rd' = [rd EXCEPT ![o].pc = "tosleep", ![o].got = Got(o)]
    BY <1>3, Read_step, Zenon
  <2> QED BY <1>i, <2>1 DEF Idle
<1>4. CASE UNCHANGED vars
  BY <1>4, Zenon DEF vars
<1> QED BY <1>1, <1>2, <1>3, <1>4, Zenon DEF Next

(* A read of 0 bytes takes the control-D. *)
LEMMA Zero_takes_eof ==
  ASSUME IInv, NEW p \in Reader, Read(p), Full(p) \/ Eof(p), Got(p) = <<>>
  PROVE Lines # <<>> /\ Head(Lines) = EOT /\ r' = Plus(r, 1)
<1>i. TypeOK /\ Ordered /\ Partial
  BY Zenon DEF IInv
<1>1. rd[p].pc = "read" /\ r' = Plus(r, Taken(p))
  BY Read_step, Zenon
<1>2. Took(p) = 0 /\ ~LineEnd(p) /\ (Eof(p) => Lines[Took(p) + 1] = EOT)
  BY <1>i, <1>1, Read_got, Zenon
<1>3. rd[p].n \in Nat /\ rd[p].n # 0
  <2>1. rd[p].n \in Nat /\ rd[p].got \in Seq(Chars) /\ Len(rd[p].got) < rd[p].n
    BY <1>i, <1>1, Zenon DEF TypeOK, Partial
  <2> QED BY <2>1
<1>4. Eof(p)
  BY <1>2, <1>3, Zenon DEF Full
<1>5. Lines \in Seq(Chars) /\ 0 < Len(Lines) /\ Lines[1] = EOT
  BY <1>i, <1>2, <1>4, Lengths DEF Eof
<1>6. Taken(p) = 1
  BY <1>2, <1>4 DEF Taken
<1> QED BY <1>1, <1>5, <1>6

(* A read that ends early without a line end leaves the control-D. *)
LEMMA Short_keeps_eof ==
  ASSUME IInv, NEW p \in Reader, Read(p), Full(p) \/ Eof(p),
         Got(p) # <<>>, Len(Got(p)) < rd[p].n, Got(p)[Len(Got(p))] # NL
  PROVE r' # w /\ buf[r' % INPUT_BUF] = EOT
<1>i. TypeOK /\ Ordered /\ Partial
  BY Zenon DEF IInv
<1>1. rd[p].pc = "read" /\ r' = Plus(r, Taken(p)) /\ UNCHANGED <<buf, w, e>>
  BY Read_step, Zenon
<1>a. buf \in Ring /\ r \in Index /\ w \in Index
  BY <1>i, Zenon DEF TypeOK
<1>2. Took(p) \in 0..Len(Lines) /\ ~LineEnd(p) /\ (Eof(p) => Lines[Took(p) + 1] = EOT)
  BY <1>i, <1>1, Read_got, Zenon
<1>3. Eof(p)
  <2>1. Len(Got(p)) # rd[p].n
    <3>1. rd[p].n \in Nat
      BY <1>i, Zenon DEF TypeOK
    <3> QED BY <3>1
  <2> QED BY <1>2, <2>1, Zenon DEF Full
<1> DEFINE k == Took(p)
<1>4. r' = Plus(r, k) /\ k < Len(Lines) /\ Lines[k + 1] = EOT
  BY <1>1, <1>2, <1>3, Zenon DEF Taken, Eof
<1>5. k \in 0..Minus(w, r) /\ k + 1 \in 1..Minus(w, r) /\ k \in Int /\ Minus(w, r) - k # 0
  <2> HIDE DEF k
  <2>1. k \in 0..Len(Lines)
    BY <1>2, Zenon DEF k
  <2> QED BY <1>i, <1>4, <2>1, Lengths
<1> HIDE DEF k
<1>6. r' \in Index /\ Minus(w, r') = Minus(w, r) - k
  BY <1>a, <1>4, <1>5, Advance, Zenon
<1>7. r' # w
  BY <1>a, <1>5, <1>6, MinusZero, Zenon
<1>8. Lines[k + 1] = buf[Slot(r, k + 1)]
  BY <1>a, <1>5, WinSeq, Windows, Zenon
<1>9. Slot(r', 1) = Slot(r, k + 1)
  BY <1>a, <1>4, <1>5, SlotPlus
<1>10. Slot(r', 1) = r' % INPUT_BUF
  BY <1>6, SlotFirst, Zenon
<1> QED BY <1>4, <1>7, <1>8, <1>9, <1>10, Zenon

(* A read returns part of one line, less than it asked for only at a line  *)
(* end or before a control-D, and 0 bytes only by taking the control-D,    *)
(* whatever other readers and the interrupt side do between its passes.    *)
THEOREM ReadsAreLines == Spec => ReadsOneLine
<1> DEFINE One == \A p \in Reader :
                    rd[p].pc = "read" /\ rd'[p].pc = "done" =>
                      LET g == rd'[p].got
                          q == Window(r, w)
                      IN /\ \A k \in DOMAIN g : g[k] # EOT /\ (g[k] = NL => k = Len(g))
                         /\ g = <<>> => q # <<>> /\ Head(q) = EOT /\ r' = Plus(r, 1)
                         /\ g # <<>> /\ Len(g) < rd[p].n /\ g[Len(g)] # NL =>
                               r' # w /\ buf[r' % INPUT_BUF] = EOT
<1>1. IInv /\ [Next]_vars => One \/ UNCHANGED vars
  <2> SUFFICES ASSUME IInv, [Next]_vars, NEW p \in Reader, rd[p].pc = "read", rd'[p].pc = "done"
               PROVE LET g == rd'[p].got
                         q == Window(r, w)
                     IN /\ \A k \in DOMAIN g : g[k] # EOT /\ (g[k] = NL => k = Len(g))
                        /\ g = <<>> => q # <<>> /\ Head(q) = EOT /\ r' = Plus(r, 1)
                        /\ g # <<>> /\ Len(g) < rd[p].n /\ g[Len(g)] # NL =>
                              r' # w /\ buf[r' % INPUT_BUF] = EOT
    OBVIOUS
  <2>1. Read(p) /\ rd'[p].got = Got(p) /\ (Full(p) \/ Eof(p))
    BY Next_reads, Zenon
  <2>2. /\ Got(p) \in Seq(Chars)
        /\ \A k \in 1..Len(Got(p)) : Got(p)[k] # EOT /\ (Got(p)[k] = NL => k = Len(Got(p)))
    BY Read_got, Zenon DEF IInv
  <2>3. DOMAIN Got(p) = 1..Len(Got(p))
    BY <2>2
  <2>4. Got(p) = <<>> => Lines # <<>> /\ Head(Lines) = EOT /\ r' = Plus(r, 1)
    BY <2>1, Zero_takes_eof, Zenon
  <2>5. Got(p) # <<>> /\ Len(Got(p)) < rd[p].n /\ Got(p)[Len(Got(p))] # NL
          => r' # w /\ buf[r' % INPUT_BUF] = EOT
    BY <2>1, Short_keeps_eof, Zenon
  <2> QED BY <2>1, <2>2, <2>3, <2>4, <2>5, Zenon DEF Lines
<1>2. Spec => [][One]_vars
  BY <1>1, Invariance, PTL DEF Spec
<1> QED BY <1>2, Zenon DEF ReadsOneLine

-----------------------------------------------------------------------------
(* The ring and its readers are the line queue.                            *)

(* What a step of one reader does to the calls and their results. *)
LEMMA Calls_changed ==
  ASSUME TypeOK, TypeOK', NEW p \in Reader, \A o \in Reader \ {p} : rd'[o] = rd[o]
  PROVE /\ Results' = [Results EXCEPT ![p] = rd'[p].got] /\ Results[p] = rd[p].got
        /\ p \in InCall <=> rd[p].pc \in {"read", "tosleep", "sleep"}
        /\ rd'[p].pc \in {"read", "tosleep", "sleep"} => InCall' = InCall \cup {p}
        /\ rd'[p].pc \notin {"read", "tosleep", "sleep"} => InCall' = InCall \ {p}
<1>1. Results' = [Results EXCEPT ![p] = rd'[p].got] /\ Results[p] = rd[p].got
  BY Zenon DEF Results
<1> QED BY <1>1, Zenon DEF InCall

(* Calls and results that stay as they are. *)
LEMMA Calls_kept ==
  ASSUME \A o \in Reader : /\ rd'[o].got = rd[o].got
                           /\ rd'[o].pc \in {"read", "tosleep", "sleep"}
                                <=> rd[o].pc \in {"read", "tosleep", "sleep"}
  PROVE Results' = Results /\ InCall' = InCall
  BY Zenon DEF Results, InCall

(* The interrupt side leaves the readers alone, except that it wakes them. *)
LEMMA Intr_calls ==
  ASSUME TypeOK, rd' = rd \/ rd' = wakeup
  PROVE Results' = Results /\ InCall' = InCall
<1>1. rd \in [Reader -> [pc : Pcs, n : Nat, got : Seq(Chars)]]
  BY Zenon DEF TypeOK
<1>2. \A o \in Reader : /\ rd'[o].got = rd[o].got
                        /\ rd'[o].pc \in {"read", "tosleep", "sleep"}
                             <=> rd[o].pc \in {"read", "tosleep", "sleep"}
  BY <1>1 DEF wakeup
<1> QED BY <1>2, Calls_kept, Zenon

(* Storing types, backspace and control-U erase. *)
LEMMA Intr_types ==
  ASSUME IInv, consoleintr
  PROVE Q!Typing
<1>i. TypeOK /\ Ordered /\ EditOpen
  BY Zenon DEF IInv
<1>1. UNCHANGED killed
  BY Zenon DEF consoleintr
<1>2. ASSUME NEW c \in Chars, Store(c) PROVE Q!Typing
  <2>1. Q!Type(c)
    BY <1>i, <1>2, Store_ring, Zenon DEF Q!Type, Q!Room, Q!Fills, Q!Finish, Lines, Edit
  <2>2. rd' = rd \/ rd' = wakeup
    BY <1>2, Zenon DEF Store
  <2> QED BY <1>i, <1>1, <2>1, <2>2, Intr_calls DEF Q!Typing
<1>3. ASSUME KillLine PROVE Q!Typing
  <2>1. Q!EraseAll
    BY <1>i, <1>3, KillLine_ring DEF Q!EraseAll, Lines, Edit
  <2>2. rd' = rd
    BY <1>3, Zenon DEF KillLine
  <2> QED BY <1>i, <1>1, <2>1, <2>2, Intr_calls DEF Q!Typing
<1>4. ASSUME Backspace PROVE Q!Typing
  <2>1. Q!Erase
    BY <1>i, <1>4, Backspace_ring, Zenon DEF Q!Erase, Lines, Edit
  <2>2. rd' = rd
    BY <1>4, Zenon DEF Backspace
  <2> QED BY <1>i, <1>1, <2>1, <2>2, Intr_calls, Zenon DEF Q!Typing
<1>5. ASSUME NEW c \in Chars \cup {CR}, Store(IF c = CR THEN NL ELSE c) PROVE Q!Typing
  <2>1. (IF c = CR THEN NL ELSE c) \in Chars
    BY Zenon DEF Chars
  <2> QED BY <1>2, <1>5, <2>1, Zenon
<1> QED BY <1>3, <1>4, <1>5, Zenon DEF consoleintr

(* The characters of a pass leave the finished lines and go to the reader; *)
(* none of them is a control-D, and without a reason to return they are    *)
(* all there are.                                                          *)
LEMMA Pass_takes ==
  ASSUME IInv, NEW p \in Reader, Read(p)
  PROVE /\ Took(p) \in 0..Len(Lines) /\ \A j \in 1..Took(p) : Lines[j] # EOT
        /\ Full(p) \/ Eof(p) => Got(p) # <<>> \/ (Taken(p) = 1 /\ Took(p) = 0)
        /\ Got(p) # <<>> \/ ~Eof(p) => Taken(p) = Took(p)
        /\ ~Full(p) /\ ~Eof(p) => Took(p) = Len(Lines)
        /\ Edit' = Edit /\ Lines' = SubSeq(Lines, Taken(p) + 1, Len(Lines))
<1>i. TypeOK /\ Ordered /\ Partial
  BY Zenon DEF IInv
<1>1. /\ rd[p].pc = "read" /\ UNCHANGED <<buf, w, e>>
      /\ Taken(p) \in 0..Len(Lines) /\ r' = Plus(r, Taken(p))
  BY Read_step, Zenon
<1>2. Took(p) \in 0..Len(Lines) /\ (Got(p) = <<>> => Took(p) = 0) /\ Len(Lines) \in Nat
  BY <1>i, <1>1, Read_got, Lengths, Zenon
<1>3. \A j \in 1..Took(p) : Lines[j] # EOT
  BY <1>i, <1>1, Take_stops, Lengths DEF Took
<1>4. Got(p) # <<>> \/ ~Eof(p) => Taken(p) = Took(p)
  BY Zenon DEF Taken
<1>5. ~Full(p) /\ ~Eof(p) => Took(p) = Len(Lines)
  BY <1>2 DEF Eof
<1>6. Full(p) \/ Eof(p) => Got(p) # <<>> \/ (Taken(p) = 1 /\ Took(p) = 0)
  <2> SUFFICES ASSUME Full(p) \/ Eof(p), Got(p) = <<>> PROVE Taken(p) = 1 /\ Took(p) = 0
    OBVIOUS
  <2>1. Took(p) = 0 /\ ~LineEnd(p)
    BY <1>i, <1>1, Read_got, Zenon
  <2>2. rd[p].n # 0
    <3>1. rd[p].n \in Nat /\ rd[p].got \in Seq(Chars) /\ Len(rd[p].got) < rd[p].n
      BY <1>i, <1>1, Zenon DEF TypeOK, Partial
    <3> QED BY <3>1
  <2>3. Eof(p)
    BY <2>1, <2>2, Zenon DEF Full
  <2> QED BY <2>1, <2>3 DEF Taken
<1>7. Edit' = Edit /\ Lines' = SubSeq(Lines, Taken(p) + 1, Len(Lines))
  BY <1>i, <1>1, Take_ring, Zenon
<1> QED BY <1>2, <1>3, <1>4, <1>5, <1>6, <1>7

(* A pass of consoleread's loop takes characters, takes the control-D, or  *)
(* gives up.                                                               *)
LEMMA Read_takes ==
  ASSUME IInv, NEW p \in Reader, Read(p)
  PROVE Q!Take(p) \/ Q!TakeEof(p) \/ Q!GiveUp(p)
<1> DEFINE k == Took(p)
           g == Got(p)
<1>i. TypeOK /\ TypeOK' /\ Ordered /\ Partial
  BY Read_inv, Zenon DEF IInv
<1>1. /\ rd[p].pc = "read"
      /\ \/ /\ Full(p) \/ Eof(p)
            /\ rd' = [rd EXCEPT ![p].pc = "done", ![p].got = g]
            /\ UNCHANGED <<holder, killed>>
         \/ /\ ~Full(p) /\ ~Eof(p) /\ killed[p]
            /\ rd' = [rd EXCEPT ![p] = Idle] /\ killed' = [killed EXCEPT ![p] = FALSE]
            /\ UNCHANGED holder
         \/ /\ ~Full(p) /\ ~Eof(p)
            /\ rd' = [rd EXCEPT ![p].pc = "tosleep", ![p].got = g] /\ holder' = p
            /\ UNCHANGED killed
  BY Read_step, Zenon
<1>2. /\ k \in 0..Len(Lines) /\ \A j \in 1..k : Lines[j] # EOT
      /\ Full(p) \/ Eof(p) => g # <<>> \/ (Taken(p) = 1 /\ k = 0)
      /\ g # <<>> \/ ~Eof(p) => Taken(p) = k
      /\ ~Full(p) /\ ~Eof(p) => k = Len(Lines)
      /\ Edit' = Edit /\ Lines' = SubSeq(Lines, Taken(p) + 1, Len(Lines))
  BY Pass_takes, Zenon
<1>3. g = rd[p].got \o SubSeq(Lines, 1, k)
  BY Zenon DEF Got
<1>4. rd \in [Reader -> [pc : Pcs, n : Nat, got : Seq(Chars)]] /\ Lines \in Seq(Chars)
  BY <1>i, Lengths, Zenon DEF TypeOK
<1>5. Results[p] = rd[p].got /\ p \in InCall
  BY <1>1, Zenon DEF Results, InCall
<1>6. ASSUME Taken(p) = k, Results' = [Results EXCEPT ![p] = g], UNCHANGED killed,
             InCall' = InCall \/ (InCall' = InCall \ {p} /\ g # <<>>)
      PROVE Q!Take(p)
  <2> HIDE DEF k, g
  <2>1. Results' = [Results EXCEPT ![p] = Results[p] \o SubSeq(Lines, 1, k)]
    BY <1>3, <1>5, <1>6
  <2>2. Results'[p] = g
    BY <1>6, Zenon DEF Results
  <2> QED BY <1>2, <1>5, <1>6, <2>1, <2>2, Zenon DEF Q!Take, Lines, Edit
<1>7. CASE /\ Full(p) \/ Eof(p)
           /\ rd' = [rd EXCEPT ![p].pc = "done", ![p].got = g]
           /\ UNCHANGED <<holder, killed>>
  <2>1. /\ rd'[p].pc = "done" /\ rd'[p].got = g /\ \A o \in Reader \ {p} : rd'[o] = rd[o]
    BY <1>4, <1>7, Zenon
  <2>2. Results' = [Results EXCEPT ![p] = g] /\ InCall' = InCall \ {p}
    BY <1>i, <2>1, Calls_changed, Zenon
  <2>3. CASE g # <<>>
    BY <1>2, <1>6, <1>7, <2>2, <2>3
  <2>4. CASE g = <<>>
    <3>1. /\ Lines # <<>> /\ Head(Lines) = EOT /\ Taken(p) = 1
      BY <1>2, <1>7, <2>4, Zero_takes_eof
    <3>2. Lines' = Tail(Lines)
      BY <1>2, <1>4, <3>1
    <3>3. Results[p] = <<>>
      BY <1>2, <1>3, <1>4, <1>5, <2>4
    <3>4. Results' = Results
      BY <2>2, <2>4, <3>3, Zenon DEF Results
    <3> QED BY <1>2, <1>5, <1>7, <2>2, <3>1, <3>2, <3>3, <3>4 DEF Q!TakeEof, Lines, Edit
  <2> QED BY <2>3, <2>4, Zenon
<1>8. CASE /\ ~Full(p) /\ ~Eof(p) /\ killed[p]
           /\ rd' = [rd EXCEPT ![p] = Idle] /\ killed' = [killed EXCEPT ![p] = FALSE]
           /\ UNCHANGED holder
  <2>1. /\ rd'[p].pc = "idle" /\ rd'[p].got = <<>> /\ \A o \in Reader \ {p} : rd'[o] = rd[o]
    BY <1>4, <1>8, Zenon DEF Idle
  <2>2. Results' = [Results EXCEPT ![p] = <<>>] /\ InCall' = InCall \ {p}
    BY <1>i, <2>1, Calls_changed, Zenon
  <2>3. Lines' = <<>> /\ \A j \in 1..Len(Lines) : Lines[j] # EOT
    BY <1>2, <1>4, <1>8
  <2> QED BY <1>2, <1>5, <1>8, <2>2, <2>3 DEF Q!GiveUp, Lines, Edit
<1>9. CASE /\ ~Full(p) /\ ~Eof(p)
           /\ rd' = [rd EXCEPT ![p].pc = "tosleep", ![p].got = g] /\ holder' = p
           /\ UNCHANGED killed
  <2>1. /\ rd'[p].pc = "tosleep" /\ rd'[p].got = g /\ \A o \in Reader \ {p} : rd'[o] = rd[o]
    BY <1>4, <1>9, Zenon
  <2>2. Results' = [Results EXCEPT ![p] = g] /\ InCall' = InCall \cup {p}
    BY <1>i, <2>1, Calls_changed
  <2>3. InCall' = InCall
    BY <1>5, <2>2, Zenon
  <2> QED BY <1>2, <1>6, <1>9, <2>2, <2>3
<1> QED BY <1>1, <1>7, <1>8, <1>9, Zenon

(* The other steps of a reader; falling asleep does not show. *)
LEMMA Call_steps ==
  ASSUME IInv, NEW p \in Reader, Begin(p) \/ sleep(p) \/ kill(p) \/ Ends(p)
  PROVE \/ Q!Begin(p) \/ Q!Kill(p) \/ Q!Replace(p)
        \/ UNCHANGED <<Lines, Edit, InCall, Results, killed>>
<1>i. TypeOK /\ TypeOK'
  BY Begin_inv, sleep_inv, kill_inv, Ends_inv, Zenon DEF IInv
<1>1. rd \in [Reader -> [pc : Pcs, n : Nat, got : Seq(Chars)]]
  BY <1>i, Zenon DEF TypeOK
<1>2. Lines' = Lines /\ Edit' = Edit
  <2>1. UNCHANGED <<buf, r, w, e>>
    BY Zenon DEF Begin, sleep, kill, Ends
  <2> QED BY <2>1, Ring_kept, Zenon
<1>3. CASE Begin(p)
  <2>1. /\ rd[p].pc \in {"idle", "done"} /\ UNCHANGED killed
        /\ rd'[p].pc = "read" /\ rd'[p].got = <<>> /\ \A o \in Reader \ {p} : rd'[o] = rd[o]
    BY <1>1, <1>3 DEF Begin
  <2>2. /\ Results' = [Results EXCEPT ![p] = <<>>] /\ p \notin InCall
        /\ InCall' = InCall \cup {p}
    BY <1>i, <2>1, Calls_changed, Zenon
  <2> QED BY <1>2, <2>1, <2>2 DEF Q!Begin, Lines, Edit
<1>4. CASE sleep(p)
  <2>1. \A o \in Reader : /\ rd'[o].got = rd[o].got
                          /\ rd'[o].pc \in {"read", "tosleep", "sleep"}
                               <=> rd[o].pc \in {"read", "tosleep", "sleep"}
    BY <1>1, <1>4, Zenon DEF sleep
  <2>2. Results' = Results /\ InCall' = InCall
    BY <2>1, Calls_kept, Zenon
  <2>3. killed' = killed
    BY <1>4, Zenon DEF sleep
  <2> QED BY <1>2, <2>2, <2>3, Zenon
<1>5. CASE kill(p)
  <2>1. killed' = [killed EXCEPT ![p] = TRUE]
    BY <1>5, Zenon DEF kill
  <2>2. \A o \in Reader : /\ rd'[o].got = rd[o].got
                          /\ rd'[o].pc \in {"read", "tosleep", "sleep"}
                               <=> rd[o].pc \in {"read", "tosleep", "sleep"}
    BY <1>1, <1>5, Zenon DEF kill
  <2>3. Results' = Results /\ InCall' = InCall
    BY <2>2, Calls_kept
  <2> QED BY <1>2, <2>1, <2>3, Zenon DEF Q!Kill, Lines, Edit
<1>6. CASE Ends(p)
  <2>1. /\ rd[p].pc \in {"idle", "done"} /\ killed[p] /\ killed' = [killed EXCEPT ![p] = FALSE]
        /\ rd'[p].pc = "idle" /\ rd'[p].got = <<>> /\ \A o \in Reader \ {p} : rd'[o] = rd[o]
    BY <1>1, <1>6, Zenon DEF Ends, Idle
  <2>2. Results' = [Results EXCEPT ![p] = <<>>] /\ p \notin InCall /\ InCall' = InCall \ {p}
    BY <1>i, <2>1, Calls_changed, Zenon
  <2> QED BY <1>2, <2>1, <2>2, Zenon DEF Q!Replace, Lines, Edit
<1> QED BY <1>3, <1>4, <1>5, <1>6, Zenon

(* The ring is the line queue: finished lines from r to w, the line being  *)
(* typed from w to e, and what left it is what the readers got.            *)
THEOREM ConsoleIsLineQueue == Spec => ImplementsLineQueue
<1>1. Init => Q!Init
  <2> SUFFICES ASSUME Init PROVE Q!Init
    OBVIOUS
  <2>1. buf \in Ring /\ r \in Index /\ w \in Index /\ e \in Index /\ r = w /\ w = e
    BY Init_inv, Zenon DEF IInv, TypeOK, Init
  <2>2. Lines = <<>> /\ Edit = <<>>
    BY <2>1, WinEmpty, Windows, Zenon
  <2>3. InCall = {} /\ Results = [p \in Reader |-> <<>>] /\ killed = [p \in Reader |-> FALSE]
    BY Zenon DEF Init, Idle, InCall, Results
  <2> QED BY <2>2, <2>3, Zenon DEF Q!Init, Lines, Edit
<1>2. IInv /\ [Next]_vars => [Q!Next]_(Q!vars)
  <2> SUFFICES ASSUME IInv, [Next]_vars
               PROVE Q!Next \/ UNCHANGED <<Lines, Edit, InCall, Results, killed>>
    BY Zenon DEF Q!vars, Lines, Edit
  <2>1. CASE consoleintr
    BY <2>1, Intr_types, Zenon DEF Q!Next
  <2>2. ASSUME NEW p \in Reader, Read(p) PROVE Q!Next
    BY <2>2, Read_takes, Zenon DEF Q!Next
  <2>3. ASSUME NEW p \in Reader, Begin(p) \/ sleep(p) \/ kill(p) \/ Ends(p)
        PROVE Q!Next \/ UNCHANGED <<Lines, Edit, InCall, Results, killed>>
    BY <2>3, Call_steps, Zenon DEF Q!Next
  <2>4. CASE UNCHANGED vars
    <3>1. UNCHANGED <<buf, r, w, e>> /\ rd' = rd /\ killed' = killed
      BY <2>4, Zenon DEF vars
    <3> QED BY <3>1, Ring_kept, Calls_kept, Zenon
  <2> QED BY <2>1, <2>2, <2>3, <2>4 DEF Next
<1> QED BY <1>1, <1>2, Invariance, PTL DEF Spec, ImplementsLineQueue, Q!Spec
=============================================================================
